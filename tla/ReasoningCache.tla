---------------------------- MODULE ReasoningCache ----------------------------
(***************************************************************************)
(* What the reasoning cache promises to the rest of the proxy: a lossy map *)
(* from keys to reasoning.  A write may or may not take effect, a row may  *)
(* vanish at any moment (age, row limit, clearing), and a read returns     *)
(* either nothing or what was last written under that very key.            *)
(* ReasoningStore implements it; Conversation is written against it.       *)
(***************************************************************************)

CONSTANTS Keys,        \* the cache keys
          Reasonings,  \* the reasoning_content strings
          Readers,     \* the goroutines that look reasoning up
          NoReasoning  \* the answer of a lookup that found nothing

VARIABLES cache,   \* the rows: a function from the keys present
          answer   \* what each reader's last lookup has returned so far

cacheVars == <<cache, answer>>

-----------------------------------------------------------------------------
(* State functions shared with the modules that use the cache. *)

\* The cache c after the upsert of reasoning r under key k.
Written(c, k, r) ==
    [x \in DOMAIN c \cup {k} |-> IF x = k THEN r ELSE c[x]]

\* The cache c with only the keys of K left.
Kept(c, K) == [x \in DOMAIN c \cap K |-> c[x]]

-----------------------------------------------------------------------------

CacheInit == /\ cache \in UNION {[K -> Reasonings] : K \in SUBSET Keys}
             /\ answer = [g \in Readers |-> NoReasoning]

Write(k, r) == /\ cache' = Written(cache, k, r)
               /\ UNCHANGED answer

Forget == /\ \E K \in SUBSET DOMAIN cache : cache' = Kept(cache, K)
          /\ UNCHANGED answer

\* A reader is served the row of one key.
Serve(g, k) == /\ k \in DOMAIN cache
               /\ answer' = [answer EXCEPT ![g] = cache[k]]
               /\ UNCHANGED cache

\* Readers drop their answers: a new lookup starts, or the process ends.
Reset(G) == /\ answer' = [g \in Readers |-> IF g \in G THEN NoReasoning
                                                       ELSE answer[g]]
            /\ UNCHANGED cache

CacheNext == \/ \E k \in Keys, r \in Reasonings : Write(k, r)
             \/ Forget
             \/ \E g \in Readers, k \in Keys : Serve(g, k)
             \/ \E G \in SUBSET Readers : Reset(G)

CacheSpec == CacheInit /\ [][CacheNext]_cacheVars

=============================================================================
