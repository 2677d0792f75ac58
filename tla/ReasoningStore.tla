---------------------------- MODULE ReasoningStore ----------------------------
(***************************************************************************)
(* The SQLite reasoning cache, internal/reasoning/store.go.                *)
(*                                                                         *)
(* Handler goroutines share one Store.  Put holds the mutex over three     *)
(* statements that commit one by one (upsert, prune by age, prune by row   *)
(* count), so no other goroutine sees the middle of a Put, but a crash     *)
(* leaves it on disk.  StoreAssistantMessage, BackfillPortableAliases and  *)
(* LookupForMessage take the mutex once per key and interleave freely.     *)
(* Every statement may fail, and the code ignores the error.               *)
(* The table is the file on disk: it outlives the process.                 *)
(***************************************************************************)
EXTENDS Integers, Sequences, FiniteSets

CONSTANTS Handlers,        \* the goroutines that serve requests
          Main,            \* the goroutine of main(), which opens the store
          Keys,            \* the cache keys
          Reasonings,      \* the reasoning_content strings
          NoReasoning,     \* no string
          NoOne,           \* the mutex is free
          KeyLists,        \* the key lists a message can have, duplicates removed
          MaxRows,         \* maxRows; 0 switches the row limit off
          MaxAgeSeconds,   \* maxAgeSeconds; 0 switches the age limit off
          TicksPerSecond,  \* created_at is finer than the seconds of the cutoff
          ClockSteps,      \* how far the wall clock may move in one step
          MaxClock,        \* bound on the clock
          StatementsMayFail

ASSUME StoreAssumption ==
    /\ Main \notin Handlers
    /\ NoOne \notin Handlers \cup {Main}
    /\ NoReasoning \notin Reasonings
    /\ KeyLists \subseteq Seq(Keys)
    /\ MaxRows \in Nat
    /\ MaxAgeSeconds \in Nat
    /\ TicksPerSecond \in Nat \ {0}
    /\ ClockSteps \subseteq Int
    /\ MaxClock \in Nat
    /\ StatementsMayFail \in BOOLEAN

VARIABLES table,   \* reasoning_cache: key -> [reasoning, created_at]
          clock,   \* the wall clock, in ticks
          status,  \* the process: "down", "opening", "serving", "clearing", "closed"
          mu,      \* s.mu: the goroutine that holds it, or NoOne
          pc,      \* where each goroutine is
          todo,    \* the keys it still has to put or get
          value,   \* the reasoning it puts, or the lookup's result
          unpruned,\* history: keys put since the row limit was last enforced
          steady   \* history: keys of a lookup with a row ever since it began

vars == <<table, clock, status, mu, pc, todo, value, unpruned, steady>>

Threads == Handlers \cup {Main}

Row == [reasoning : Reasonings, created_at : 0..MaxClock]

Listed(ks) == {ks[i] : i \in DOMAIN ks}

\* s.db is nil before Open has created it and after Close.
DbOpen == status \in {"opening", "serving", "clearing"}

-----------------------------------------------------------------------------
(* The statements, as relations between the table before and after.        *)

\* INSERT ... ON CONFLICT(key) DO UPDATE.
Upsert(k, r) == [x \in DOMAIN table \cup {k} |->
                    IF x = k THEN [reasoning |-> r, created_at |-> clock]
                             ELSE table[x]]

Only(K) == [k \in K |-> table[k]]

\* Mutant of Cutoff: the second is rounded up.
CutoffRoundedUp ==
    ((clock + TicksPerSecond - 1) \div TicksPerSecond - MaxAgeSeconds) * TicksPerSecond

\* time.Now().Unix() - maxAgeSeconds, in ticks: the second is truncated,
\* created_at is not.
Cutoff == (clock \div TicksPerSecond - MaxAgeSeconds) * TicksPerSecond

Expired == {k \in DOMAIN table : table[k].created_at < Cutoff}

\* DELETE ... WHERE created_at < cutoff.
PruneByAge == IF MaxAgeSeconds > 0 THEN table' = Only(DOMAIN table \ Expired)
                                   ELSE table' = table

\* Mutants of Newest: one row too many; the oldest rows.
NewestAndOne(K) == /\ K \subseteq DOMAIN table
                   /\ \A k \in K, j \in DOMAIN table \ K :
                          table[k].created_at >= table[j].created_at
                   /\ K = DOMAIN table \/ Cardinality(K) = MaxRows + 1
Oldest(K) == /\ K \subseteq DOMAIN table
             /\ \A k \in K, j \in DOMAIN table \ K :
                    table[k].created_at <= table[j].created_at
             /\ \/ K = DOMAIN table /\ Cardinality(K) <= MaxRows
                \/ Cardinality(K) = MaxRows

\* SELECT key ... ORDER BY created_at DESC LIMIT maxRows: SQLite may put rows
\* with the same created_at in any order.
Newest(K) == /\ K \subseteq DOMAIN table
             /\ \A k \in K, j \in DOMAIN table \ K :
                    table[k].created_at >= table[j].created_at
             /\ \/ K = DOMAIN table /\ Cardinality(K) <= MaxRows
                \/ Cardinality(K) = MaxRows

\* DELETE ... WHERE key NOT IN (SELECT key ...).
PruneByRows == IF MaxRows > 0
               THEN \E K \in SUBSET DOMAIN table : Newest(K) /\ table' = Only(K)
               ELSE table' = table

\* An error of Exec is dropped: the statement has done nothing.
Exec(Statement) == Statement \/ (StatementsMayFail /\ table' = table)

\* The history of every lookup under way: the keys no statement has removed.
Watch == steady' = [g \in Handlers |-> steady[g] \cap DOMAIN table']

-----------------------------------------------------------------------------

\* The file may come from a run with higher limits.
Init == /\ clock = 0
        /\ \E K \in SUBSET Keys :
              /\ IsFiniteSet(K)
              /\ table \in [K -> [reasoning : Reasonings, created_at : {0}]]
        /\ status = "down"
        /\ mu = NoOne
        /\ pc = [g \in Threads |-> "idle"]
        /\ todo = [g \in Threads |-> <<>>]
        /\ value = [g \in Threads |-> NoReasoning]
        /\ unpruned = DOMAIN table
        /\ steady = [g \in Handlers |-> {}]

-----------------------------------------------------------------------------
(* The process. *)

\* Mutant of Open: without Prune.
OpenUnpruned == /\ status = "down"
                /\ status' = "serving"
                /\ UNCHANGED <<table, clock, mu, pc, todo, value, unpruned, steady>>

\* Open: the table is created if needed, then Prune runs.  A failure before
\* that ends the process as if it had not started.
Open == /\ status = "down"
        /\ status' = "opening"
        /\ mu' = Main
        /\ pc' = [pc EXCEPT ![Main] = "age"]
        /\ UNCHANGED <<table, clock, todo, value, unpruned, steady>>

\* CLEAR_REASONING_CACHE: Clear, then the deferred Close.
Clear == /\ status = "clearing"
         /\ Exec(table' = Only({}))
         /\ status' = "closed"
         /\ Watch
         /\ UNCHANGED <<clock, mu, pc, todo, value, unpruned>>

\* The same maintenance command run by another process on the same file,
\* between two statements of this one.
ClearElsewhere == /\ status # "down"
                  /\ table' = Only({})
                  /\ Watch
                  /\ UNCHANGED <<clock, status, mu, pc, todo, value, unpruned>>

\* Mutants of Close: without Lock; without Unlock.
CloseUnlocked == /\ status = "serving"
                 /\ status' = "closed"
                 /\ UNCHANGED <<table, clock, mu, pc, todo, value, unpruned, steady>>
CloseForGood == /\ status = "serving"
                /\ mu = NoOne
                /\ mu' = Main
                /\ status' = "closed"
                /\ UNCHANGED <<table, clock, pc, todo, value, unpruned, steady>>

\* Close waits for the mutex; handlers the shutdown did not wait for go on.
Close == /\ status = "serving"
         /\ mu = NoOne
         /\ status' = "closed"
         /\ UNCHANGED <<table, clock, mu, pc, todo, value, unpruned, steady>>

\* The process ends, by a return from main or by a crash at any point.
Exit == /\ status # "down"
        /\ status' = "down"
        /\ mu' = NoOne
        /\ pc' = [g \in Threads |-> "idle"]
        /\ todo' = [g \in Threads |-> <<>>]
        /\ value' = [g \in Threads |-> NoReasoning]
        /\ steady' = [g \in Handlers |-> {}]
        /\ UNCHANGED <<table, clock, unpruned>>

Tick == /\ \E d \in ClockSteps : clock' = clock + d
        /\ clock' \in 0..MaxClock
        /\ UNCHANGED <<table, status, mu, pc, todo, value, unpruned, steady>>

-----------------------------------------------------------------------------
(* Put, and pruneLocked, which Open's Prune shares. *)

\* Mutant of BeginPuts: also what a lookup did not find is backfilled.
BackfillMiss(g) == /\ status \in {"serving", "closed"}
                   /\ pc[g] \in {"hit", "miss"}
                   /\ \E ks \in KeyLists : todo' = [todo EXCEPT ![g] = ks]
                   /\ pc' = [pc EXCEPT ![g] = "put"]
                   /\ UNCHANGED <<table, clock, status, mu, value, unpruned, steady>>

\* A handler starts StoreAssistantMessage with the reasoning it was given, or
\* BackfillPortableAliases with what its lookup found.
BeginPuts(g) == /\ status \in {"serving", "closed"}
                /\ \/ pc[g] = "idle" /\ \E r \in Reasonings : value' = [value EXCEPT ![g] = r]
                   \/ pc[g] = "hit" /\ UNCHANGED value
                /\ \E ks \in KeyLists : todo' = [todo EXCEPT ![g] = ks]
                /\ pc' = [pc EXCEPT ![g] = "put"]
                /\ UNCHANGED <<table, clock, status, mu, unpruned, steady>>

\* Put up to its upsert.  With a nil db it returns at once.
PutUpsert(g) ==
    /\ pc[g] = "put" /\ todo[g] # <<>>
    /\ mu = NoOne
    /\ IF DbOpen
       THEN /\ mu' = g
            /\ pc' = [pc EXCEPT ![g] = "age"]
            /\ Exec(table' = Upsert(Head(todo[g]), value[g]))
            /\ unpruned' = unpruned \cup {Head(todo[g])}
            /\ UNCHANGED todo
       ELSE /\ todo' = [todo EXCEPT ![g] = Tail(@)]
            /\ UNCHANGED <<table, mu, pc, unpruned>>
    /\ Watch
    /\ UNCHANGED <<clock, status, value>>

PruneAge(g) == /\ pc[g] = "age"
               /\ Exec(PruneByAge)
               /\ pc' = [pc EXCEPT ![g] = "rows"]
               /\ Watch
               /\ UNCHANGED <<clock, status, mu, todo, value, unpruned>>

\* The last statement; the mutex is released and Put or Open returns.
PruneRows(g) ==
    /\ pc[g] = "rows"
    /\ \/ PruneByRows /\ unpruned' = {}
       \/ StatementsMayFail /\ UNCHANGED <<table, unpruned>>
    /\ mu' = NoOne
    /\ IF g = Main
       THEN /\ status' \in {"serving", "clearing"}
            /\ pc' = [pc EXCEPT ![g] = "idle"]
            /\ UNCHANGED todo
       ELSE /\ todo' = [todo EXCEPT ![g] = Tail(@)]
            /\ pc' = [pc EXCEPT ![g] = "put"]
            /\ UNCHANGED status
    /\ Watch
    /\ UNCHANGED <<clock, value>>

EndPuts(g) == /\ pc[g] = "put" /\ todo[g] = <<>>
              /\ pc' = [pc EXCEPT ![g] = "idle"]
              /\ UNCHANGED <<table, clock, status, mu, todo, value, unpruned, steady>>

-----------------------------------------------------------------------------
(* LookupForMessage: the first key that has a row wins. *)

BeginLookup(g) == /\ status \in {"serving", "closed"}
                  /\ pc[g] = "idle"
                  /\ \E ks \in KeyLists : todo' = [todo EXCEPT ![g] = ks]
                  /\ pc' = [pc EXCEPT ![g] = "get"]
                  /\ value' = [value EXCEPT ![g] = NoReasoning]
                  /\ steady' = [steady EXCEPT ![g] = Listed(todo'[g]) \cap DOMAIN table]
                  /\ UNCHANGED <<table, clock, status, mu, unpruned>>

\* Mutant of HasRow: a row past its age is not served.
HasFreshRow(k) == DbOpen /\ k \in DOMAIN table \ Expired

\* SELECT reasoning ... WHERE key.
HasRow(k) == DbOpen /\ k \in DOMAIN table

GetHit(g) == /\ pc[g] = "get" /\ todo[g] # <<>>
             /\ mu = NoOne
             /\ HasRow(Head(todo[g]))
             /\ value' = [value EXCEPT ![g] = table[Head(todo[g])].reasoning]
             /\ pc' = [pc EXCEPT ![g] = "hit"]
             /\ UNCHANGED <<table, clock, status, mu, todo, unpruned, steady>>

\* No such row, a nil db, or a query that fails: all three are a miss.
GetMiss(g) ==
    /\ pc[g] = "get" /\ todo[g] # <<>>
    /\ mu = NoOne
    /\ \/ DbOpen /\ ~HasRow(Head(todo[g])) /\ UNCHANGED steady
       \/ (~DbOpen \/ StatementsMayFail) /\ steady' = [steady EXCEPT ![g] = {}]
    /\ todo' = [todo EXCEPT ![g] = Tail(@)]
    /\ UNCHANGED <<table, clock, status, mu, pc, value, unpruned>>

EndLookup(g) == /\ pc[g] = "get" /\ todo[g] = <<>>
                /\ pc' = [pc EXCEPT ![g] = "miss"]
                /\ UNCHANGED <<table, clock, status, mu, todo, value, unpruned, steady>>

\* The caller has used the result.  After a hit PortableReasoningKeys may be
\* empty, and then nothing is backfilled.
Return(g) == /\ pc[g] \in {"hit", "miss"}
             /\ pc' = [pc EXCEPT ![g] = "idle"]
             /\ UNCHANGED <<table, clock, status, mu, todo, value, unpruned, steady>>

-----------------------------------------------------------------------------

Step(g) == \/ PutUpsert(g) \/ EndPuts(g)
           \/ GetHit(g) \/ GetMiss(g) \/ EndLookup(g) \/ Return(g)

Locked(g) == PruneAge(g) \/ PruneRows(g)

Next == \/ Open \/ Clear \/ ClearElsewhere \/ Close \/ Exit \/ Tick
        \/ \E g \in Handlers : BeginPuts(g) \/ BeginLookup(g) \/ Step(g)
        \/ \E g \in Threads : Locked(g)

Spec == Init /\ [][Next]_vars

\* Go's mutex serves its waiters in turn, so a goroutine that keeps asking for
\* it gets it; a goroutine that holds it runs on.  Nothing is assumed about
\* requests arriving, the clock, or the process starting or ending.
Fairness == /\ \A g \in Handlers : SF_vars(Step(g))
            /\ \A g \in Threads : WF_vars(Locked(g))

FairSpec == Spec /\ Fairness

-----------------------------------------------------------------------------
(* Properties. *)

\* The types of the state: in particular, every row holds a reasoning string
\* some handler was given, never the lack of one.
TypeOK == /\ DOMAIN table \subseteq Keys
          /\ table \in [DOMAIN table -> Row]
          /\ IsFiniteSet(DOMAIN table)
          /\ clock \in 0..MaxClock
          /\ status \in {"down", "opening", "serving", "clearing", "closed"}
          /\ mu \in Threads \cup {NoOne}
          /\ pc \in [Threads -> {"idle", "put", "age", "rows", "get", "hit", "miss"}]
          /\ todo \in [Threads -> Seq(Keys)]
          /\ value \in [Threads -> Reasonings \cup {NoReasoning}]
          /\ unpruned \subseteq Keys
          /\ steady \in [Handlers -> SUBSET DOMAIN table]

\* A goroutine between two statements of a Put holds the mutex and has a
\* database: Close never sets s.db to nil under its feet, and no two
\* goroutines are inside Put or Prune at once (store.go:63-69, 74-88).
NoUseAfterClose ==
    \A g \in Threads : pc[g] \in {"age", "rows"} => mu = g /\ DbOpen

\* The row limit (store.go:183-196): rows that have seen a successful prune
\* are never more than maxRows, whatever fails or crashes in between; when no
\* statement fails, that is every row whenever the mutex is free and the
\* process has opened the store, so a crash inside Put is repaired by Open.
RowLimit ==
    MaxRows > 0 =>
        /\ Cardinality(DOMAIN table \ unpruned) <= MaxRows
        /\ ~StatementsMayFail /\ mu = NoOne /\ status # "down"
              => Cardinality(DOMAIN table) <= MaxRows

\* LookupForMessage (store.go:124-135) passes over no key that has had a row
\* ever since the lookup began, however puts, prunes and clears interleave
\* with it: a miss means none of the keys stayed, and a hit comes from the
\* first key that did or an earlier one.
NoKeyPassedOver ==
    \A g \in Handlers :
        pc[g] \in {"get", "hit", "miss"} => steady[g] \subseteq Listed(todo[g])

\* A row leaves the table only by Clear, because it is older than
\* maxAgeSeconds, or because maxRows rows at least as new stay
\* (store.go:170-198).
EvictionJustified ==
    [][\A k \in DOMAIN table \ DOMAIN table' :
         \/ pc' = pc /\ DOMAIN table' = {}
         \/ /\ MaxAgeSeconds > 0
            /\ clock - table[k].created_at > MaxAgeSeconds * TicksPerSecond
         \/ /\ MaxRows > 0
            /\ Cardinality(DOMAIN table') = MaxRows
            /\ \A j \in DOMAIN table' : table[j].created_at >= table[k].created_at]_vars

\* Every store, backfill and lookup a handler starts comes to its end: the
\* per-key locking cannot leave one waiting for ever.
CallsEnd == \A g \in Handlers : pc[g] # "idle" ~> pc[g] = "idle"

-----------------------------------------------------------------------------
(* The store implements the lossy map.  A lookup's answer is what it has   *)
(* found; a goroutine that puts is not a reader.                           *)

Cache == INSTANCE ReasoningCache WITH
            Readers <- Handlers,
            cache   <- [k \in DOMAIN table |-> table[k].reasoning],
            answer  <- [g \in Handlers |-> IF pc[g] = "hit" THEN value[g] ELSE NoReasoning]

\* Every behaviour of the store is one of the lossy map: whatever a lookup
\* returns is what was last written under that very key and still there.
ImplementsCache == Cache!CacheSpec

=============================================================================
