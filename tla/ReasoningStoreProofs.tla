------------------------- MODULE ReasoningStoreProofs -------------------------
(***************************************************************************)
(* Proofs about ReasoningStore for any number of goroutines, keys and      *)
(* rows, any limits, and any clock: TLC checks the same properties on the  *)
(* instances of MCReasoningStore.                                          *)
(***************************************************************************)
EXTENDS ReasoningStore, FiniteSetTheorems, TLAPS

\* What the actions rely on: handlers run only once the store is open, main()
\* is inside Prune exactly while it opens the store, and a goroutine that
\* puts or has found something carries a reasoning string, and inside Put it
\* still has the key it puts.
Discipline ==
    /\ status \in {"down", "opening", "clearing"} => \A g \in Handlers : pc[g] = "idle"
    /\ pc[Main] \in {"idle", "age", "rows"}
    /\ pc[Main] # "idle" <=> status = "opening"
    /\ \A g \in Handlers : pc[g] \in {"put", "age", "rows", "hit"} => value[g] \in Reasonings
    /\ \A g \in Handlers : pc[g] \in {"age", "rows"} => todo[g] # <<>>

StoreInv == TypeOK /\ NoUseAfterClose /\ Discipline

-----------------------------------------------------------------------------

\* Whatever a statement does to the table, the history of the lookups stays a
\* set of rows that are there.
LEMMA WatchType ==
    ASSUME TypeOK, Watch
    PROVE  steady' \in [Handlers -> SUBSET DOMAIN table']
  BY DEF TypeOK, Watch

\* Keeping some of the rows keeps the table well formed.
LEMMA OnlyType ==
    ASSUME TypeOK, NEW K, K \subseteq DOMAIN table, table' = Only(K)
    PROVE  /\ DOMAIN table' = K
           /\ DOMAIN table' \subseteq Keys
           /\ table' \in [DOMAIN table' -> Row]
           /\ IsFiniteSet(DOMAIN table')
  BY FS_Subset DEF TypeOK, Only

\* The upsert of a reasoning string keeps the table well formed.
LEMMA UpsertType ==
    ASSUME TypeOK, NEW k \in Keys, NEW r \in Reasonings, table' = Upsert(k, r)
    PROVE  /\ DOMAIN table' = DOMAIN table \cup {k}
           /\ DOMAIN table' \subseteq Keys
           /\ table' \in [DOMAIN table' -> Row]
           /\ IsFiniteSet(DOMAIN table')
<1>1. DOMAIN table' = DOMAIN table \cup {k}
  BY DEF Upsert
<1>a. IsFiniteSet(DOMAIN table)
  BY DEF TypeOK
<1>b. IsFiniteSet(DOMAIN table \cup {k})
  BY <1>a, FS_AddElement
<1>2. IsFiniteSet(DOMAIN table')
  BY <1>1, <1>b
<1>3. table' \in [DOMAIN table' -> Row]
  BY DEF TypeOK, Upsert, Row
<1>4. QED BY <1>1, <1>2, <1>3 DEF TypeOK

-----------------------------------------------------------------------------
(* The invariant is inductive. *)

\* The invariant holds when the file is found, before the process starts.
LEMMA StoreInit == Init => StoreInv
<1> SUFFICES ASSUME Init PROVE StoreInv
  OBVIOUS
<1>1. TypeOK
  <2>1. PICK K \in SUBSET Keys : /\ IsFiniteSet(K)
                                 /\ table \in [K -> [reasoning : Reasonings, created_at : {0}]]
    BY DEF Init
  <2>2. table \in [DOMAIN table -> Row] /\ DOMAIN table = K
    BY <2>1, StoreAssumption DEF Row
  <2>3. QED BY <2>1, <2>2, StoreAssumption DEF Init, TypeOK, Threads
<1>2. NoUseAfterClose /\ Discipline
  BY DEF Init, NoUseAfterClose, Discipline, Threads
<1>3. QED BY <1>1, <1>2 DEF StoreInv

\* A step that leaves the table alone and gives the goroutines well-typed
\* values keeps TypeOK; what is left of it is the table and the history.
LEMMA StoreStep == StoreInv /\ [Next]_vars => StoreInv'
<1> SUFFICES ASSUME StoreInv, [Next]_vars PROVE StoreInv'
  OBVIOUS
<1> USE StoreAssumption DEF StoreInv
<1>1. CASE Open
  BY <1>1 DEF Open, TypeOK, NoUseAfterClose, Discipline, Threads, DbOpen
<1>2. CASE Clear
  <2>1. /\ DOMAIN table' \subseteq Keys
        /\ table' \in [DOMAIN table' -> Row]
        /\ IsFiniteSet(DOMAIN table')
    <3>1. CASE table' = Only({})
      BY <3>1, OnlyType
    <3>2. CASE table' = table
      BY <3>2 DEF TypeOK
    <3>3. QED BY <1>2, <3>1, <3>2 DEF Clear, Exec
  <2>2. TypeOK'
    BY <1>2, <2>1, WatchType DEF Clear, TypeOK
  <2>3. (NoUseAfterClose /\ Discipline)'
    BY <1>2 DEF Clear, TypeOK, NoUseAfterClose, Discipline, Threads, DbOpen
  <2>4. QED BY <2>2, <2>3
<1>3. CASE ClearElsewhere
  <2>1. /\ DOMAIN table' \subseteq Keys
        /\ table' \in [DOMAIN table' -> Row]
        /\ IsFiniteSet(DOMAIN table')
    BY <1>3, OnlyType DEF ClearElsewhere
  <2>2. TypeOK'
    BY <1>3, <2>1, WatchType DEF ClearElsewhere, TypeOK
  <2>3. (NoUseAfterClose /\ Discipline)'
    BY <1>3 DEF ClearElsewhere, NoUseAfterClose, Discipline, DbOpen
  <2>4. QED BY <2>2, <2>3
<1>4. CASE Close
  BY <1>4 DEF Close, TypeOK, NoUseAfterClose, Discipline, Threads, DbOpen
<1>5. CASE Exit
  BY <1>5 DEF Exit, TypeOK, NoUseAfterClose, Discipline, Threads, DbOpen
<1>6. CASE Tick
  BY <1>6 DEF Tick, TypeOK, NoUseAfterClose, Discipline, DbOpen
<1>7. ASSUME NEW g \in Handlers, BeginPuts(g) PROVE StoreInv'
  <2>1. PICK ks \in KeyLists : todo' = [todo EXCEPT ![g] = ks]
    BY <1>7 DEF BeginPuts
  <2>2. TypeOK'
    <3>1. todo' \in [Threads -> Seq(Keys)]
      BY <2>1 DEF TypeOK, Threads
    <3>2. value' \in [Threads -> Reasonings \cup {NoReasoning}]
      BY <1>7 DEF BeginPuts, TypeOK, Threads
    <3>3. pc' \in [Threads -> {"idle", "put", "age", "rows", "get", "hit", "miss"}]
      BY <1>7 DEF BeginPuts, TypeOK, Threads
    <3>4. QED BY <1>7, <3>1, <3>2, <3>3 DEF BeginPuts, TypeOK
  <2>3. (NoUseAfterClose /\ Discipline)'
    BY <1>7 DEF BeginPuts, TypeOK, NoUseAfterClose, Discipline, Threads, DbOpen
  <2>4. QED BY <2>2, <2>3
<1>8. ASSUME NEW g \in Handlers, BeginLookup(g) PROVE StoreInv'
  <2>1. PICK ks \in KeyLists : todo' = [todo EXCEPT ![g] = ks]
    BY <1>8 DEF BeginLookup
  <2>2. TypeOK'
    BY <1>8, <2>1 DEF BeginLookup, TypeOK, Threads
  <2>3. (NoUseAfterClose /\ Discipline)'
    BY <1>8 DEF BeginLookup, TypeOK, NoUseAfterClose, Discipline, Threads, DbOpen
  <2>4. QED BY <2>2, <2>3
<1>9. ASSUME NEW g \in Handlers, PutUpsert(g) PROVE StoreInv'
  <2>1. Head(todo[g]) \in Keys /\ Tail(todo[g]) \in Seq(Keys)
    BY <1>9 DEF PutUpsert, TypeOK, Threads
  <2>2. value[g] \in Reasonings
    BY <1>9 DEF PutUpsert, Discipline
  <2>3. /\ DOMAIN table' \subseteq Keys
        /\ table' \in [DOMAIN table' -> Row]
        /\ IsFiniteSet(DOMAIN table')
    <3>1. CASE table' = Upsert(Head(todo[g]), value[g])
      BY <3>1, <2>1, <2>2, UpsertType
    <3>2. CASE table' = table
      BY <3>2 DEF TypeOK
    <3>3. QED BY <1>9, <3>1, <3>2 DEF PutUpsert, Exec
  <2>4. TypeOK'
    <3>1. todo' \in [Threads -> Seq(Keys)]
      BY <1>9, <2>1 DEF PutUpsert, TypeOK, Threads
    <3>2. pc' \in [Threads -> {"idle", "put", "age", "rows", "get", "hit", "miss"}]
      BY <1>9 DEF PutUpsert, TypeOK, Threads
    <3>3. mu' \in Threads \cup {NoOne} /\ unpruned' \subseteq Keys
      BY <1>9, <2>1 DEF PutUpsert, TypeOK, Threads
    <3>4. steady' \in [Handlers -> SUBSET DOMAIN table']
      BY <1>9, WatchType DEF PutUpsert
    <3>5. QED BY <1>9, <2>3, <3>1, <3>2, <3>3, <3>4 DEF PutUpsert, TypeOK
  <2>5. (NoUseAfterClose /\ Discipline)'
    BY <1>9 DEF PutUpsert, TypeOK, NoUseAfterClose, Discipline, Threads, DbOpen
  <2>6. QED BY <2>4, <2>5
<1>10. ASSUME NEW g \in Handlers, EndPuts(g) \/ EndLookup(g) \/ Return(g) PROVE StoreInv'
  BY <1>10 DEF EndPuts, EndLookup, Return, TypeOK, NoUseAfterClose, Discipline, Threads, DbOpen
<1>11. ASSUME NEW g \in Handlers, GetHit(g) PROVE StoreInv'
  <2>1. table[Head(todo[g])].reasoning \in Reasonings
    BY <1>11 DEF GetHit, HasRow, TypeOK, Row
  <2>2. TypeOK'
    BY <1>11, <2>1 DEF GetHit, HasRow, TypeOK, Threads
  <2>3. (NoUseAfterClose /\ Discipline)'
    BY <1>11, <2>1 DEF GetHit, HasRow, TypeOK, NoUseAfterClose, Discipline, Threads, DbOpen
  <2>4. QED BY <2>2, <2>3
<1>12. ASSUME NEW g \in Handlers, GetMiss(g) PROVE StoreInv'
  <2>1. Tail(todo[g]) \in Seq(Keys)
    BY <1>12 DEF GetMiss, HasRow, TypeOK, Threads
  <2>2. TypeOK'
    BY <1>12, <2>1 DEF GetMiss, HasRow, TypeOK, Threads
  <2>3. (NoUseAfterClose /\ Discipline)'
    BY <1>12 DEF GetMiss, TypeOK, NoUseAfterClose, Discipline, DbOpen
  <2>4. QED BY <2>2, <2>3
<1>13. ASSUME NEW g \in Threads, PruneAge(g) PROVE StoreInv'
  <2>1. /\ DOMAIN table' \subseteq Keys
        /\ table' \in [DOMAIN table' -> Row]
        /\ IsFiniteSet(DOMAIN table')
    <3>1. CASE table' = Only(DOMAIN table \ Expired)
      BY <3>1, OnlyType
    <3>2. CASE table' = table
      BY <3>2 DEF TypeOK
    <3>3. QED BY <1>13, <3>1, <3>2 DEF PruneAge, PruneByAge, Exec
  <2>2. TypeOK'
    BY <1>13, <2>1, WatchType DEF PruneAge, TypeOK
  <2>3. (NoUseAfterClose /\ Discipline)'
    BY <1>13 DEF PruneAge, TypeOK, NoUseAfterClose, Discipline, Threads, DbOpen
  <2>4. QED BY <2>2, <2>3
<1>14. ASSUME NEW g \in Threads, PruneRows(g) PROVE StoreInv'
  <2>1. /\ DOMAIN table' \subseteq Keys
        /\ table' \in [DOMAIN table' -> Row]
        /\ IsFiniteSet(DOMAIN table')
    <3>1. CASE \E K \in SUBSET DOMAIN table : table' = Only(K)
      BY <3>1, OnlyType
    <3>2. CASE table' = table
      BY <3>2 DEF TypeOK
    <3>3. QED BY <1>14, <3>1, <3>2 DEF PruneRows, PruneByRows
  <2>2. g # Main => Tail(todo[g]) \in Seq(Keys)
    BY <1>14 DEF TypeOK, PruneRows, Discipline, Threads
  <2>3. TypeOK'
    <3>1. todo' \in [Threads -> Seq(Keys)]
      BY <1>14, <2>2 DEF PruneRows, TypeOK, Threads
    <3>2. pc' \in [Threads -> {"idle", "put", "age", "rows", "get", "hit", "miss"}]
      BY <1>14 DEF PruneRows, TypeOK, Threads
    <3>3. mu' \in Threads \cup {NoOne} /\ unpruned' \subseteq Keys
      BY <1>14 DEF PruneRows, TypeOK, Threads
    <3>4. steady' \in [Handlers -> SUBSET DOMAIN table']
      BY <1>14, WatchType DEF PruneRows
    <3>5. QED BY <1>14, <2>1, <3>1, <3>2, <3>3, <3>4 DEF PruneRows, TypeOK
  <2>4. (NoUseAfterClose /\ Discipline)'
    BY ZenonT(30), <1>14 DEF PruneRows, TypeOK, NoUseAfterClose, Discipline, Threads, DbOpen
  <2>5. QED BY <2>3, <2>4
<1>15. CASE UNCHANGED vars
  BY <1>15 DEF vars, TypeOK, NoUseAfterClose, Discipline, DbOpen
<1>16. QED
  BY <1>1, <1>2, <1>3, <1>4, <1>5, <1>6, <1>7, <1>8, <1>9, <1>10, <1>11, <1>12,
     <1>13, <1>14, <1>15 DEF Next, Step, Locked

\* The store's inductive invariant holds throughout.
LEMMA StoreInvariant == Spec => []StoreInv
  BY StoreInit, StoreStep, PTL DEF Spec

\* The state of the store always has its types: in particular every row holds
\* a reasoning string and every lookup history is a set of rows.
THEOREM TypeCorrect == Spec => []TypeOK
<1>1. StoreInv => TypeOK
  BY DEF StoreInv
<1>2. QED BY <1>1, StoreInvariant, PTL

\* No goroutine is inside Put or Prune without the mutex, or after Close has
\* set s.db to nil, for any number of goroutines.
THEOREM LockSafe == Spec => []NoUseAfterClose
<1>1. StoreInv => NoUseAfterClose
  BY DEF StoreInv
<1>2. QED BY <1>1, StoreInvariant, PTL

-----------------------------------------------------------------------------
(* The row limit. *)

\* RowLimit strengthened: when no statement fails and nobody holds the mutex,
\* the row limit has been enforced since the last Put.
RowInv ==
    MaxRows > 0 =>
        /\ Cardinality(DOMAIN table \ unpruned) <= MaxRows
        /\ ~StatementsMayFail /\ mu = NoOne /\ status # "down" => unpruned = {}

\* Dropping rows, or putting rows that count as unpruned, keeps the bound.
LEMMA RowsShrink ==
    ASSUME TypeOK, DOMAIN table' \ unpruned' \subseteq DOMAIN table \ unpruned,
           Cardinality(DOMAIN table \ unpruned) <= MaxRows
    PROVE  Cardinality(DOMAIN table' \ unpruned') <= MaxRows
<1> DEFINE S == DOMAIN table \ unpruned
           T == DOMAIN table' \ unpruned'
<1>1. IsFiniteSet(S)
  <2>1. IsFiniteSet(DOMAIN table) /\ S \in SUBSET DOMAIN table
    BY DEF TypeOK
  <2> HIDE DEF S
  <2>2. QED BY <2>1, FS_Subset
<1>2. T \in SUBSET S
  OBVIOUS
<1> HIDE DEF S, T
<1>3. IsFiniteSet(T) /\ Cardinality(T) <= Cardinality(S)
  BY <1>1, <1>2, FS_Subset
<1>4. Cardinality(S) \in Nat /\ Cardinality(T) \in Nat
  BY <1>1, <1>3, FS_CardinalityType
<1>5. Cardinality(S) <= MaxRows
  BY DEF S
<1>6. Cardinality(T) <= MaxRows
  BY <1>3, <1>4, <1>5, StoreAssumption
<1>7. QED BY <1>6 DEF T

\* Every step keeps the bound on the rows that have been pruned: only
\* PruneRows forgets which rows those are, and it leaves maxRows.
LEMMA RowStep == StoreInv /\ StoreInv' /\ RowInv /\ [Next]_vars => RowInv'
<1> DEFINE Goal ==
             /\ Cardinality(DOMAIN table' \ unpruned') <= MaxRows
             /\ ~StatementsMayFail /\ mu' = NoOne /\ status' # "down" => unpruned' = {}
<1> SUFFICES ASSUME StoreInv, StoreInv', RowInv, [Next]_vars, MaxRows > 0
             PROVE  Goal
  BY DEF RowInv
<1> USE StoreAssumption
<1>1. /\ Cardinality(DOMAIN table \ unpruned) <= MaxRows
      /\ ~StatementsMayFail /\ mu = NoOne /\ status # "down" => unpruned = {}
  BY DEF RowInv
<1>2. ASSUME DOMAIN table' \ unpruned' \subseteq DOMAIN table \ unpruned,
             ~StatementsMayFail /\ mu' = NoOne /\ status' # "down" => unpruned' = {}
      PROVE  Goal
  BY <1>1, <1>2, RowsShrink DEF StoreInv
<1>3. CASE Open
  BY <1>2, <1>3 DEF Open, StoreInv, TypeOK, Threads
<1>4. CASE Clear
  BY <1>1, <1>2, <1>4 DEF Clear, Exec, Only
<1>5. CASE ClearElsewhere
  BY <1>1, <1>2, <1>5 DEF ClearElsewhere, Only
<1>6. CASE Close \/ Tick \/ UNCHANGED vars
  BY <1>1, <1>2, <1>6 DEF Close, Tick, vars
<1>7. CASE Exit
  BY <1>2, <1>7 DEF Exit
<1>8. ASSUME NEW g \in Handlers,
             \/ BeginPuts(g) \/ BeginLookup(g) \/ EndPuts(g) \/ EndLookup(g)
             \/ Return(g) \/ GetHit(g) \/ GetMiss(g)
      PROVE  Goal
  BY <1>1, <1>2, <1>8
     DEF BeginPuts, BeginLookup, EndPuts, EndLookup, Return, GetHit, HasRow, GetMiss
<1>9. ASSUME NEW g \in Handlers, PutUpsert(g) PROVE Goal
  <2>1. DOMAIN table' \ unpruned' \subseteq DOMAIN table \ unpruned
    BY <1>9 DEF PutUpsert, Exec, Upsert
  <2>2. ~StatementsMayFail /\ mu' = NoOne /\ status' # "down" => unpruned' = {}
    BY <1>1, <1>9 DEF PutUpsert
  <2>3. QED BY <1>2, <2>1, <2>2
<1>10. ASSUME NEW g \in Threads, PruneAge(g) PROVE Goal
  <2>1. DOMAIN table' \subseteq DOMAIN table
    BY <1>10 DEF PruneAge, PruneByAge, Exec, Only
  <2>2. mu # NoOne /\ mu' = mu /\ unpruned' = unpruned
    BY <1>10 DEF PruneAge, StoreInv, NoUseAfterClose, Threads
  <2>3. QED BY <1>2, <2>1, <2>2
<1>11. ASSUME NEW g \in Threads, PruneRows(g) PROVE Goal
  <2>1. CASE PruneByRows /\ unpruned' = {}
    <3>1. PICK K \in SUBSET DOMAIN table : Newest(K) /\ table' = Only(K)
      BY <2>1 DEF PruneByRows
    <3>2. DOMAIN table' \ unpruned' = K
      BY <2>1, <3>1 DEF Only
    <3>3. Cardinality(K) <= MaxRows
      BY <3>1 DEF Newest
    <3>4. QED BY <2>1, <3>2, <3>3
  <2>2. CASE StatementsMayFail /\ UNCHANGED <<table, unpruned>>
    BY <1>2, <2>2
  <2>3. QED BY <1>11, <2>1, <2>2 DEF PruneRows
<1>12. QED
  BY <1>3, <1>4, <1>5, <1>6, <1>7, <1>8, <1>9, <1>10, <1>11 DEF Next, Step, Locked

\* The row limit holds for every maxRows, table and sequence of failures,
\* crashes and restarts.
THEOREM RowLimitHolds == Spec => []RowLimit
<1>1. Init => RowInv
  <2>1. SUFFICES ASSUME Init PROVE RowInv
    OBVIOUS
  <2>2. DOMAIN table \ unpruned = {} /\ status = "down"
    BY <2>1 DEF Init
  <2>3. Cardinality(DOMAIN table \ unpruned) = 0
    BY <2>2, FS_EmptySet
  <2>4. QED BY <2>2, <2>3, StoreAssumption DEF RowInv
<1>2. StoreInv /\ RowInv => RowLimit
  <2> SUFFICES ASSUME StoreInv, RowInv, MaxRows > 0, ~StatementsMayFail, mu = NoOne,
                      status # "down"
               PROVE  Cardinality(DOMAIN table) <= MaxRows
    BY DEF RowLimit, RowInv
  <2>1. DOMAIN table = DOMAIN table \ unpruned
    BY DEF RowInv
  <2>2. QED BY <2>1 DEF RowInv
<1>3. QED BY <1>1, <1>2, RowStep, StoreInvariant, PTL DEF Spec

-----------------------------------------------------------------------------
(* Lookups. *)

\* A key list without its head lists every key but, possibly, the head.
LEMMA ListedTail ==
    ASSUME NEW ks \in Seq(Keys), ks # <<>>
    PROVE  Listed(ks) \subseteq Listed(Tail(ks)) \cup {Head(ks)}
<1> SUFFICES ASSUME NEW i \in DOMAIN ks, i # 1
             PROVE  \E j \in DOMAIN Tail(ks) : ks[i] = Tail(ks)[j]
  BY DEF Listed
<1>1. i - 1 \in DOMAIN Tail(ks) /\ Tail(ks)[i - 1] = ks[i]
  OBVIOUS
<1>2. QED BY <1>1

\* A lookup drops a key from its list only when the key has no row or the
\* database could not be asked.
LEMMA LookupStep == StoreInv /\ NoKeyPassedOver /\ [Next]_vars => NoKeyPassedOver'
<1> SUFFICES ASSUME StoreInv, NoKeyPassedOver, [Next]_vars,
                    NEW h \in Handlers, pc'[h] \in {"get", "hit", "miss"}
             PROVE  steady'[h] \subseteq Listed(todo'[h])
  BY DEF NoKeyPassedOver
<1> USE StoreAssumption DEF StoreInv
\* A step that does not start or advance the lookup of h.
<1>1. ASSUME pc[h] \in {"get", "hit", "miss"}, steady'[h] \subseteq steady[h], todo'[h] = todo[h]
      PROVE  steady'[h] \subseteq Listed(todo'[h])
  BY <1>1 DEF NoKeyPassedOver
<1>2. ASSUME Watch PROVE steady'[h] \subseteq steady[h]
  BY <1>2 DEF Watch
<1>3. CASE Open \/ Close \/ Tick \/ UNCHANGED vars
  BY <1>1, <1>3 DEF Open, Close, Tick, vars, TypeOK, Threads
<1>4. CASE Clear \/ ClearElsewhere
  BY <1>1, <1>2, <1>4 DEF Clear, ClearElsewhere
<1>5. CASE Exit
  BY <1>5 DEF Exit, Threads
<1>6. ASSUME NEW g \in Handlers, BeginPuts(g) \/ EndPuts(g)
      PROVE  steady'[h] \subseteq Listed(todo'[h])
  BY <1>1, <1>6 DEF BeginPuts, EndPuts, TypeOK, Threads
<1>7. ASSUME NEW g \in Handlers, BeginLookup(g)
      PROVE  steady'[h] \subseteq Listed(todo'[h])
  <2>1. CASE g = h
    BY <1>7, <2>1 DEF BeginLookup, TypeOK
  <2>2. CASE g # h
    BY <1>1, <1>7, <2>2 DEF BeginLookup, TypeOK, Threads
  <2>3. QED BY <2>1, <2>2
<1>8. ASSUME NEW g \in Handlers, GetHit(g) \/ EndLookup(g) \/ Return(g)
      PROVE  steady'[h] \subseteq Listed(todo'[h])
  BY <1>1, <1>8 DEF GetHit, HasRow, EndLookup, Return, TypeOK, Threads
<1>9. ASSUME NEW g \in Handlers, GetMiss(g)
      PROVE  steady'[h] \subseteq Listed(todo'[h])
  <2>1. CASE g = h
    <3>1. todo'[h] = Tail(todo[h]) /\ todo[h] \in Seq(Keys) /\ todo[h] # <<>>
      BY <1>9, <2>1 DEF GetMiss, HasRow, TypeOK, Threads
    <3>2. steady[h] \subseteq Listed(todo[h]) /\ steady[h] \subseteq DOMAIN table
      BY <1>9, <2>1 DEF GetMiss, HasRow, NoKeyPassedOver, TypeOK
    <3>3. steady'[h] = {} \/ (steady'[h] = steady[h] /\ Head(todo[h]) \notin DOMAIN table)
      BY <1>9, <2>1 DEF GetMiss, HasRow, TypeOK
    <3>4. Listed(todo[h]) \subseteq Listed(todo'[h]) \cup {Head(todo[h])}
      BY <3>1, ListedTail
    <3>5. QED BY <3>2, <3>3, <3>4
  <2>2. CASE g # h
    BY <1>1, <1>9, <2>2 DEF GetMiss, HasRow, TypeOK, Threads
  <2>3. QED BY <2>1, <2>2
<1>10. ASSUME NEW g \in Handlers, PutUpsert(g)
       PROVE  steady'[h] \subseteq Listed(todo'[h])
  <2>1. g # h
    BY <1>10 DEF PutUpsert, TypeOK, Threads
  <2>2. pc[h] \in {"get", "hit", "miss"} /\ todo'[h] = todo[h]
    BY <1>10, <2>1 DEF PutUpsert, TypeOK, Threads
  <2>3. QED BY <1>1, <1>2, <1>10, <2>2 DEF PutUpsert
<1>11. ASSUME NEW g \in Threads, PruneAge(g)
       PROVE  steady'[h] \subseteq Listed(todo'[h])
  BY <1>1, <1>2, <1>11 DEF PruneAge, TypeOK, Threads
<1>12. ASSUME NEW g \in Threads, PruneRows(g)
       PROVE  steady'[h] \subseteq Listed(todo'[h])
  <2>1. g # h
    BY <1>12 DEF PruneRows, TypeOK, Threads
  <2>2. pc[h] \in {"get", "hit", "miss"} /\ todo'[h] = todo[h]
    BY <1>12, <2>1 DEF PruneRows, TypeOK, Threads
  <2>3. QED BY <1>1, <1>2, <1>12, <2>2 DEF PruneRows
<1>13. QED
  BY <1>3, <1>4, <1>5, <1>6, <1>7, <1>8, <1>9, <1>10, <1>11, <1>12 DEF Next, Step, Locked

\* A lookup never passes over a key whose row was there throughout, for any
\* number of goroutines and any key lists.
THEOREM LookupComplete == Spec => []NoKeyPassedOver
<1>1. Init => NoKeyPassedOver
  BY DEF Init, NoKeyPassedOver, Threads
<1>2. QED BY <1>1, LookupStep, StoreInvariant, PTL DEF Spec

-----------------------------------------------------------------------------
(* Evictions. *)

\* The cutoff truncates the current second, so it is never later than
\* maxAgeSeconds before now.
LEMMA CutoffBound ==
    ASSUME NEW c \in Nat, NEW t \in Nat \ {0}, NEW a \in Nat
    PROVE  (c \div t - a) * t <= c - a * t
<1>1. c \div t \in Nat /\ (c \div t) * t <= c
  OBVIOUS
<1>2. \A q \in Nat : (q - a) * t = q * t - a * t
  OBVIOUS
<1>3. QED BY <1>1, <1>2

\* No row is evicted without a reason, for every limit and every clock.
THEOREM EvictionSound == Spec => EvictionJustified
<1> DEFINE Justified ==
      \A k \in DOMAIN table \ DOMAIN table' :
         \/ pc' = pc /\ DOMAIN table' = {}
         \/ /\ MaxAgeSeconds > 0
            /\ clock - table[k].created_at > MaxAgeSeconds * TicksPerSecond
         \/ /\ MaxRows > 0
            /\ Cardinality(DOMAIN table') = MaxRows
            /\ \A j \in DOMAIN table' : table[j].created_at >= table[k].created_at
<1>1. StoreInv /\ [Next]_vars => [Justified]_vars
  <2> SUFFICES ASSUME StoreInv, Next PROVE Justified
    OBVIOUS
  <2> USE StoreAssumption
  <2>1. CASE DOMAIN table \subseteq DOMAIN table'
    BY <2>1
  <2>2. CASE Clear \/ ClearElsewhere
    BY <2>1, <2>2 DEF Clear, ClearElsewhere, Exec, Only
  <2>3. ASSUME NEW g \in Threads, PruneAge(g) PROVE Justified
    <3>1. CASE MaxAgeSeconds > 0 /\ table' = Only(DOMAIN table \ Expired)
      <4> SUFFICES ASSUME NEW k \in DOMAIN table \ DOMAIN table'
                   PROVE  clock - table[k].created_at > MaxAgeSeconds * TicksPerSecond
        BY <3>1
      <4>1. table[k].created_at < Cutoff
        BY <3>1 DEF Expired, Only
      <4>2. clock \in Nat /\ table[k].created_at \in Nat
        BY DEF StoreInv, TypeOK, Row
      <4>3. Cutoff <= clock - MaxAgeSeconds * TicksPerSecond /\ Cutoff \in Int
        BY <4>2, CutoffBound DEF Cutoff
      <4>4. MaxAgeSeconds * TicksPerSecond \in Int
        OBVIOUS
      <4>5. QED BY <4>1, <4>2, <4>3, <4>4
    <3>2. QED BY <2>1, <2>3, <3>1 DEF PruneAge, PruneByAge, Exec
  <2>4. ASSUME NEW g \in Threads, PruneRows(g) PROVE Justified
    <3>1. CASE \E K \in SUBSET DOMAIN table : MaxRows > 0 /\ Newest(K) /\ table' = Only(K)
      BY <3>1 DEF Newest, Only
    <3>2. QED BY <2>1, <2>4, <3>1 DEF PruneRows, PruneByRows
  <2>5. ASSUME NEW g \in Handlers, PutUpsert(g) PROVE Justified
    BY <2>1, <2>5 DEF PutUpsert, Exec, Upsert
  <2>6. CASE Open \/ Close \/ Exit \/ Tick
    BY <2>1, <2>6 DEF Open, Close, Exit, Tick
  <2>7. ASSUME NEW g \in Handlers,
               \/ BeginPuts(g) \/ BeginLookup(g) \/ EndPuts(g) \/ EndLookup(g)
               \/ Return(g) \/ GetHit(g) \/ GetMiss(g)
        PROVE  Justified
    BY <2>1, <2>7 DEF BeginPuts, BeginLookup, EndPuts, EndLookup, Return, GetHit, HasRow, GetMiss
  <2>8. QED
    BY <2>2, <2>3, <2>4, <2>5, <2>6, <2>7 DEF Next, Step, Locked
<1>2. QED BY <1>1, StoreInvariant, PTL DEF Spec, EvictionJustified

-----------------------------------------------------------------------------
(* The store implements the lossy map ReasoningCache. *)

Rows == [k \in DOMAIN table |-> table[k].reasoning]
Answer == [g \in Handlers |-> IF pc[g] = "hit" THEN value[g] ELSE NoReasoning]

\* Deleting rows is a step of the map that forgets them.
LEMMA DeletionForgets ==
    ASSUME NEW K, K \subseteq DOMAIN table, table' = Only(K), Answer' = Answer
    PROVE  Cache!Forget
<1>1. Rows' = Cache!Kept(Rows, K)
  BY DEF Rows, Only, Cache!Kept
<1>2. K \in SUBSET DOMAIN Rows
  BY DEF Rows
<1>3. QED BY <1>1, <1>2 DEF Cache!Forget, Rows, Answer

\* An upsert is a write of the map.
LEMMA UpsertWrites ==
    ASSUME NEW k \in Keys, NEW r \in Reasonings, table' = Upsert(k, r), Answer' = Answer
    PROVE  Cache!Write(k, r)
<1>1. Rows' = Cache!Written(Rows, k, r)
  BY DEF Rows, Upsert, Cache!Written
<1>2. QED BY <1>1 DEF Cache!Write, Rows, Answer

\* The file found at the start is a lossy map with no lookup answered.
LEMMA RefinementInit == Init => Cache!CacheInit
<1> SUFFICES ASSUME Init PROVE Cache!CacheInit
  OBVIOUS
<1>1. PICK K \in SUBSET Keys : table \in [K -> [reasoning : Reasonings, created_at : {0}]]
  BY DEF Init
<1>2. Rows \in [K -> Reasonings]
  BY <1>1 DEF Rows
<1>3. Answer = [g \in Handlers |-> NoReasoning]
  BY DEF Init, Answer, Threads
<1>4. QED BY <1>2, <1>3 DEF Cache!CacheInit, Rows, Answer

\* Every step of the store writes one key, forgets some, serves a reader, drops
\* answers, or changes nothing of the map.
LEMMA RefinementStep ==
    StoreInv /\ [Next]_vars => [Cache!CacheNext]_(Cache!cacheVars)
<1> SUFFICES ASSUME StoreInv, [Next]_vars
             PROVE  Cache!CacheNext \/ (Rows' = Rows /\ Answer' = Answer)
  BY DEF Rows, Answer, Cache!cacheVars
<1> DEFINE Goal == Cache!CacheNext \/ (Rows' = Rows /\ Answer' = Answer)
<1> USE StoreAssumption
<1>1. ASSUME table' = table, Answer' = Answer PROVE Goal
  BY <1>1 DEF Rows
<1>2. ASSUME NEW K, K \subseteq DOMAIN table, table' = Only(K), Answer' = Answer
      PROVE  Goal
  BY <1>2, DeletionForgets DEF Cache!CacheNext
<1>3. ASSUME table' = table, NEW G \in SUBSET Handlers,
             Answer' = [g \in Handlers |-> IF g \in G THEN NoReasoning ELSE Answer[g]]
      PROVE  Goal
  <2>1. Cache!Reset(G)
    BY <1>3 DEF Cache!Reset, Rows, Answer
  <2>2. QED BY <2>1 DEF Cache!CacheNext
<1>4. CASE Open \/ Close \/ Tick \/ UNCHANGED vars
  <2>1. table' = table /\ Answer' = Answer
    BY <1>4 DEF Open, Close, Tick, vars, Answer, StoreInv, TypeOK, Threads
  <2>2. QED BY <1>1, <2>1
<1>5. CASE Clear \/ ClearElsewhere
  <2>1. Answer' = Answer
    BY <1>5 DEF Clear, ClearElsewhere, Answer
  <2>2. table' = table \/ table' = Only({})
    BY <1>5 DEF Clear, ClearElsewhere, Exec
  <2>3. QED BY <1>1, <1>2, <2>1, <2>2
<1>6. CASE Exit
  <2>1. Answer' = [g \in Handlers |-> IF g \in Handlers THEN NoReasoning ELSE Answer[g]]
    BY <1>6 DEF Exit, Answer, Threads
  <2>2. QED BY <1>3, <1>6, <2>1 DEF Exit
<1>7. ASSUME NEW g \in Handlers, BeginPuts(g) \/ Return(g) PROVE Goal
  <2>1. Answer' = [h \in Handlers |-> IF h \in {g} THEN NoReasoning ELSE Answer[h]]
    BY <1>7 DEF BeginPuts, Return, Answer, StoreInv, TypeOK, Threads
  <2>2. table' = table /\ {g} \in SUBSET Handlers
    BY <1>7 DEF BeginPuts, Return
  <2>3. QED BY <1>3, <2>1, <2>2
<1>8. ASSUME NEW g \in Handlers,
             BeginLookup(g) \/ EndPuts(g) \/ EndLookup(g) \/ GetMiss(g)
      PROVE  Goal
  <2>1. table' = table /\ Answer' = Answer
    BY <1>8 DEF BeginLookup, EndPuts, EndLookup, GetMiss, Answer, StoreInv, TypeOK, Threads
  <2>2. QED BY <1>1, <2>1
<1>9. ASSUME NEW g \in Handlers, GetHit(g) PROVE Goal
  <2>1. PICK k \in Keys : k = Head(todo[g]) /\ k \in DOMAIN table
    BY <1>9 DEF GetHit, HasRow, StoreInv, TypeOK
  <2>2. Answer' = [Answer EXCEPT ![g] = Rows[k]]
    BY <1>9, <2>1 DEF GetHit, HasRow, Answer, Rows, StoreInv, TypeOK, Threads
  <2>3. Cache!Serve(g, k)
    BY <1>9, <2>1, <2>2 DEF GetHit, HasRow, Cache!Serve, Answer, Rows
  <2>4. QED BY <2>3 DEF Cache!CacheNext
<1>10. ASSUME NEW g \in Handlers, PutUpsert(g) PROVE Goal
  <2>1. Answer' = Answer
    BY <1>10 DEF PutUpsert, Answer, StoreInv, TypeOK, Threads
  <2>2. Head(todo[g]) \in Keys /\ value[g] \in Reasonings
    BY <1>10 DEF PutUpsert, StoreInv, TypeOK, Discipline, Threads
  <2>3. CASE table' = Upsert(Head(todo[g]), value[g])
    BY <2>1, <2>2, <2>3, UpsertWrites DEF Cache!CacheNext
  <2>4. CASE table' = table
    BY <1>1, <2>1, <2>4
  <2>5. QED BY <1>10, <2>3, <2>4 DEF PutUpsert, Exec
<1>11. ASSUME NEW g \in Threads, PruneAge(g) PROVE Goal
  <2>1. Answer' = Answer
    BY <1>11 DEF PruneAge, Answer, StoreInv, TypeOK, Threads
  <2>2. table' = table \/ table' = Only(DOMAIN table \ Expired)
    BY <1>11 DEF PruneAge, PruneByAge, Exec
  <2>3. QED BY <1>1, <1>2, <2>1, <2>2
<1>12. ASSUME NEW g \in Threads, PruneRows(g) PROVE Goal
  <2>1. Answer' = Answer
    BY <1>12 DEF PruneRows, Answer, StoreInv, TypeOK, Threads
  <2>2. table' = table \/ \E K \in SUBSET DOMAIN table : table' = Only(K)
    BY <1>12 DEF PruneRows, PruneByRows
  <2>3. QED BY <1>1, <1>2, <2>1, <2>2
<1>13. QED
  BY <1>4, <1>5, <1>6, <1>7, <1>8, <1>9, <1>10, <1>11, <1>12 DEF Next, Step, Locked

\* Every behaviour of the store is a behaviour of the lossy map, for any
\* goroutines, limits, failures and crashes: what Conversation assumes of the
\* cache is what the store provides.
THEOREM StoreImplementsCache == Spec => ImplementsCache
  BY RefinementInit, RefinementStep, StoreInvariant, PTL
     DEF Spec, ImplementsCache, Cache!CacheSpec

=============================================================================
