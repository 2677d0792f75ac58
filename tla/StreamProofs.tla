------------------------------ MODULE StreamProofs ------------------------------
(***************************************************************************)
(* Proofs about Stream: what the proxy accumulates and what the client     *)
(* assembles from the rewritten deltas, for any upstream.                  *)
(***************************************************************************)
EXTENDS Stream, TransformProofs

-----------------------------------------------------------------------------
(* Folds.  FoldLeft is defined by a recursion over sets of positions; these *)
(* lemmas give it as a run along the sequence, once for each operator that *)
(* Stream folds, since a theorem has no operator for a parameter.          *)

\* The function that FoldLeft iterates for MergeDelta.
MergeIter(base, s, n, iter) ==
    iter = [I \in SUBSET (1..n) |-> IF I = {} THEN base
                                    ELSE MergeDelta(iter[I \ {Max(I)}], s[Max(I)])]

\* It exists.
LEMMA MergeIterExists ==
    ASSUME NEW base, NEW s, NEW N \in Nat
    PROVE  \E iter : MergeIter(base, s, N, iter)
<1> DEFINE T == {n \in 0..N : \E iter : MergeIter(base, s, n, iter)}
<1>1. 0 \in T
  <2> DEFINE iter == [I \in SUBSET (1..0) |-> base]
  <2>1. SUBSET (1..0) = {{}}
    OBVIOUS
  <2>2. MergeIter(base, s, 0, iter)
    BY <2>1 DEF MergeIter
  <2>3. QED BY <2>2
<1>2. ASSUME NEW n \in 1..N, n - 1 \in T PROVE n \in T
  <2>1. PICK f : MergeIter(base, s, n - 1, f)
    BY <1>2
  <2> DEFINE iter == [I \in SUBSET (1..n) |->
                        IF n \in I THEN MergeDelta(f[I \ {n}], s[n]) ELSE f[I]]
  <2>2. ASSUME NEW I \in SUBSET (1..n)
        PROVE  iter[I] = IF I = {} THEN base
                         ELSE MergeDelta(iter[I \ {Max(I)}], s[Max(I)])
    <3>1. CASE n \in I
      <4>1. n \in Nat /\ I \subseteq 1..n /\ \A j \in I : j <= n
        OBVIOUS
      <4>2. Max(I) = n
        BY <3>1, <4>1, MaxUnique
      <4>3. iter[I \ {n}] = f[I \ {n}]
        OBVIOUS
      <4>4. QED BY <3>1, <4>2, <4>3
    <3>2. CASE n \notin I
      <4>1. I \in SUBSET (1..(n - 1)) /\ n - 1 \in Nat
        BY <3>2
      <4>2. CASE I = {}
        BY <2>1, <3>2, <4>1, <4>2 DEF MergeIter
      <4>3. CASE I # {}
        <5>1. Max(I) \in I
          BY <4>1, <4>3, MaxIn
        <5>2. iter[I \ {Max(I)}] = f[I \ {Max(I)}] /\ iter[I] = f[I]
          BY <3>2
        <5>3. f[I] = MergeDelta(f[I \ {Max(I)}], s[Max(I)])
          BY <2>1, <4>1, <4>3 DEF MergeIter
        <5>4. QED BY <4>3, <5>2, <5>3
      <4>4. QED BY <4>2, <4>3
    <3>3. QED BY <3>1, <3>2
  <2>3. iter = [I \in SUBSET (1..n) |-> iter[I]]
    OBVIOUS
  <2> HIDE DEF iter
  <2>4. MergeIter(base, s, n, iter)
    BY <2>2, <2>3 DEF MergeIter
  <2>5. QED BY <2>4
<1>3. QED
  <2> HIDE DEF T
  <2>1. N \in T
    BY <1>1, <1>2, InductionTo
  <2>2. QED BY <2>1 DEF T

\* What MergeDelta makes of s, element by element.
MergeRun(base, s, run) ==
    run[0] = base /\ \A n \in 1..Len(s) : run[n] = MergeDelta(run[n - 1], s[n])

\* A fold of MergeDelta is the last of a run of single deltas.
LEMMA MergeRuns ==
    ASSUME NEW base, NEW S, NEW s \in Seq(S)
    PROVE  \E run : MergeRun(base, s, run) /\ FoldLeft(MergeDelta, base, s) = run[Len(s)]
<1> DEFINE iter == CHOOSE iter : MergeIter(base, s, Len(s), iter)
           run == [n \in 0..Len(s) |-> iter[1..n]]
<1>1. Len(s) \in Nat /\ DOMAIN s = 1..Len(s)
  OBVIOUS
<1>2. MergeIter(base, s, Len(s), iter)
  BY <1>1, MergeIterExists
<1>3. FoldLeft(MergeDelta, base, s) = iter[1..Len(s)]
  BY <1>1, <1>2 DEF FoldLeft, MapThenFoldSet, MergeIter
<1> HIDE DEF iter
<1>4. ASSUME NEW n \in 1..Len(s) PROVE run[n] = MergeDelta(run[n - 1], s[n])
  <2>1. n \in Nat /\ n \in 1..n /\ (1..n) \ {n} = 1..(n - 1) /\ \A j \in 1..n : j <= n
    OBVIOUS
  <2>2. Max(1..n) = n
    BY <2>1, MaxUnique
  <2>3. 1..n \in SUBSET (1..Len(s)) /\ 1..n # {}
    <3>1. \A j \in 1..n : j \in 1..Len(s)
      BY <1>1, <2>1
    <3>2. QED BY <2>1, <3>1
  <2>4. iter[1..n] = MergeDelta(iter[1..(n - 1)], s[n])
    BY <1>2, <2>1, <2>2, <2>3 DEF MergeIter
  <2>5. QED BY <1>1, <2>4
<1>5. run[0] = base
  <2>1. 1..0 = {} /\ {} \in SUBSET (1..Len(s))
    OBVIOUS
  <2>2. iter[{}] = base
    BY <1>2, <2>1 DEF MergeIter
  <2>3. QED BY <1>1, <2>1, <2>2
<1>6. run[Len(s)] = iter[1..Len(s)]
  BY <1>1
<1> HIDE DEF run
<1>7. QED BY <1>3, <1>4, <1>5, <1>6 DEF MergeRun

\* The function that FoldLeft iterates for MergeCall.
CallIter(base, s, n, iter) ==
    iter = [I \in SUBSET (1..n) |-> IF I = {} THEN base
                                    ELSE MergeCall(iter[I \ {Max(I)}], s[Max(I)])]

\* It exists.
LEMMA CallIterExists ==
    ASSUME NEW base, NEW s, NEW N \in Nat
    PROVE  \E iter : CallIter(base, s, N, iter)
<1> DEFINE T == {n \in 0..N : \E iter : CallIter(base, s, n, iter)}
<1>1. 0 \in T
  <2> DEFINE iter == [I \in SUBSET (1..0) |-> base]
  <2>1. SUBSET (1..0) = {{}}
    OBVIOUS
  <2>2. CallIter(base, s, 0, iter)
    BY <2>1 DEF CallIter
  <2>3. QED BY <2>2
<1>2. ASSUME NEW n \in 1..N, n - 1 \in T PROVE n \in T
  <2>1. PICK f : CallIter(base, s, n - 1, f)
    BY <1>2
  <2> DEFINE iter == [I \in SUBSET (1..n) |->
                        IF n \in I THEN MergeCall(f[I \ {n}], s[n]) ELSE f[I]]
  <2>2. ASSUME NEW I \in SUBSET (1..n)
        PROVE  iter[I] = IF I = {} THEN base
                         ELSE MergeCall(iter[I \ {Max(I)}], s[Max(I)])
    <3>1. CASE n \in I
      <4>1. n \in Nat /\ I \subseteq 1..n /\ \A j \in I : j <= n
        OBVIOUS
      <4>2. Max(I) = n
        BY <3>1, <4>1, MaxUnique
      <4>3. iter[I \ {n}] = f[I \ {n}]
        OBVIOUS
      <4>4. QED BY <3>1, <4>2, <4>3
    <3>2. CASE n \notin I
      <4>1. I \in SUBSET (1..(n - 1)) /\ n - 1 \in Nat
        BY <3>2
      <4>2. CASE I = {}
        BY <2>1, <3>2, <4>1, <4>2 DEF CallIter
      <4>3. CASE I # {}
        <5>1. Max(I) \in I
          BY <4>1, <4>3, MaxIn
        <5>2. iter[I \ {Max(I)}] = f[I \ {Max(I)}] /\ iter[I] = f[I]
          BY <3>2
        <5>3. f[I] = MergeCall(f[I \ {Max(I)}], s[Max(I)])
          BY <2>1, <4>1, <4>3 DEF CallIter
        <5>4. QED BY <4>3, <5>2, <5>3
      <4>4. QED BY <4>2, <4>3
    <3>3. QED BY <3>1, <3>2
  <2>3. iter = [I \in SUBSET (1..n) |-> iter[I]]
    OBVIOUS
  <2> HIDE DEF iter
  <2>4. CallIter(base, s, n, iter)
    BY <2>2, <2>3 DEF CallIter
  <2>5. QED BY <2>4
<1>3. QED
  <2> HIDE DEF T
  <2>1. N \in T
    BY <1>1, <1>2, InductionTo
  <2>2. QED BY <2>1 DEF T

\* What MergeCall makes of s, element by element.
CallRun(base, s, run) ==
    run[0] = base /\ \A n \in 1..Len(s) : run[n] = MergeCall(run[n - 1], s[n])

\* The same for MergeCall.
LEMMA CallRuns ==
    ASSUME NEW base, NEW S, NEW s \in Seq(S)
    PROVE  \E run : CallRun(base, s, run) /\ FoldLeft(MergeCall, base, s) = run[Len(s)]
<1> DEFINE iter == CHOOSE iter : CallIter(base, s, Len(s), iter)
           run == [n \in 0..Len(s) |-> iter[1..n]]
<1>1. Len(s) \in Nat /\ DOMAIN s = 1..Len(s)
  OBVIOUS
<1>2. CallIter(base, s, Len(s), iter)
  BY <1>1, CallIterExists
<1>3. FoldLeft(MergeCall, base, s) = iter[1..Len(s)]
  BY <1>1, <1>2 DEF FoldLeft, MapThenFoldSet, CallIter
<1> HIDE DEF iter
<1>4. ASSUME NEW n \in 1..Len(s) PROVE run[n] = MergeCall(run[n - 1], s[n])
  <2>1. n \in Nat /\ n \in 1..n /\ (1..n) \ {n} = 1..(n - 1) /\ \A j \in 1..n : j <= n
    OBVIOUS
  <2>2. Max(1..n) = n
    BY <2>1, MaxUnique
  <2>3. 1..n \in SUBSET (1..Len(s)) /\ 1..n # {}
    <3>1. \A j \in 1..n : j \in 1..Len(s)
      BY <1>1, <2>1
    <3>2. QED BY <2>1, <3>1
  <2>4. iter[1..n] = MergeCall(iter[1..(n - 1)], s[n])
    BY <1>2, <2>1, <2>2, <2>3 DEF CallIter
  <2>5. QED BY <1>1, <2>4
<1>5. run[0] = base
  <2>1. 1..0 = {} /\ {} \in SUBSET (1..Len(s))
    OBVIOUS
  <2>2. iter[{}] = base
    BY <1>2, <2>1 DEF CallIter
  <2>3. QED BY <1>1, <2>1, <2>2
<1>6. run[Len(s)] = iter[1..Len(s)]
  BY <1>1
<1> HIDE DEF run
<1>7. QED BY <1>3, <1>4, <1>5, <1>6 DEF CallRun

\* The function that FoldLeft iterates for Rewrite.
RewriteIter(base, s, n, iter) ==
    iter = [I \in SUBSET (1..n) |-> IF I = {} THEN base
                                    ELSE Rewrite(iter[I \ {Max(I)}], s[Max(I)])]

\* It exists.
LEMMA RewriteIterExists ==
    ASSUME NEW base, NEW s, NEW N \in Nat
    PROVE  \E iter : RewriteIter(base, s, N, iter)
<1> DEFINE T == {n \in 0..N : \E iter : RewriteIter(base, s, n, iter)}
<1>1. 0 \in T
  <2> DEFINE iter == [I \in SUBSET (1..0) |-> base]
  <2>1. SUBSET (1..0) = {{}}
    OBVIOUS
  <2>2. RewriteIter(base, s, 0, iter)
    BY <2>1 DEF RewriteIter
  <2>3. QED BY <2>2
<1>2. ASSUME NEW n \in 1..N, n - 1 \in T PROVE n \in T
  <2>1. PICK f : RewriteIter(base, s, n - 1, f)
    BY <1>2
  <2> DEFINE iter == [I \in SUBSET (1..n) |->
                        IF n \in I THEN Rewrite(f[I \ {n}], s[n]) ELSE f[I]]
  <2>2. ASSUME NEW I \in SUBSET (1..n)
        PROVE  iter[I] = IF I = {} THEN base
                         ELSE Rewrite(iter[I \ {Max(I)}], s[Max(I)])
    <3>1. CASE n \in I
      <4>1. n \in Nat /\ I \subseteq 1..n /\ \A j \in I : j <= n
        OBVIOUS
      <4>2. Max(I) = n
        BY <3>1, <4>1, MaxUnique
      <4>3. iter[I \ {n}] = f[I \ {n}]
        OBVIOUS
      <4>4. QED BY <3>1, <4>2, <4>3
    <3>2. CASE n \notin I
      <4>1. I \in SUBSET (1..(n - 1)) /\ n - 1 \in Nat
        BY <3>2
      <4>2. CASE I = {}
        BY <2>1, <3>2, <4>1, <4>2 DEF RewriteIter
      <4>3. CASE I # {}
        <5>1. Max(I) \in I
          BY <4>1, <4>3, MaxIn
        <5>2. iter[I \ {Max(I)}] = f[I \ {Max(I)}] /\ iter[I] = f[I]
          BY <3>2
        <5>3. f[I] = Rewrite(f[I \ {Max(I)}], s[Max(I)])
          BY <2>1, <4>1, <4>3 DEF RewriteIter
        <5>4. QED BY <4>3, <5>2, <5>3
      <4>4. QED BY <4>2, <4>3
    <3>3. QED BY <3>1, <3>2
  <2>3. iter = [I \in SUBSET (1..n) |-> iter[I]]
    OBVIOUS
  <2> HIDE DEF iter
  <2>4. RewriteIter(base, s, n, iter)
    BY <2>2, <2>3 DEF RewriteIter
  <2>5. QED BY <2>4
<1>3. QED
  <2> HIDE DEF T
  <2>1. N \in T
    BY <1>1, <1>2, InductionTo
  <2>2. QED BY <2>1 DEF T

\* What Rewrite makes of s, element by element.
RewriteRun(base, s, run) ==
    run[0] = base /\ \A n \in 1..Len(s) : run[n] = Rewrite(run[n - 1], s[n])

\* The same for Rewrite.
LEMMA RewriteRuns ==
    ASSUME NEW base, NEW S, NEW s \in Seq(S)
    PROVE  \E run : RewriteRun(base, s, run) /\ FoldLeft(Rewrite, base, s) = run[Len(s)]
<1> DEFINE iter == CHOOSE iter : RewriteIter(base, s, Len(s), iter)
           run == [n \in 0..Len(s) |-> iter[1..n]]
<1>1. Len(s) \in Nat /\ DOMAIN s = 1..Len(s)
  OBVIOUS
<1>2. RewriteIter(base, s, Len(s), iter)
  BY <1>1, RewriteIterExists
<1>3. FoldLeft(Rewrite, base, s) = iter[1..Len(s)]
  BY <1>1, <1>2 DEF FoldLeft, MapThenFoldSet, RewriteIter
<1> HIDE DEF iter
<1>4. ASSUME NEW n \in 1..Len(s) PROVE run[n] = Rewrite(run[n - 1], s[n])
  <2>1. n \in Nat /\ n \in 1..n /\ (1..n) \ {n} = 1..(n - 1) /\ \A j \in 1..n : j <= n
    OBVIOUS
  <2>2. Max(1..n) = n
    BY <2>1, MaxUnique
  <2>3. 1..n \in SUBSET (1..Len(s)) /\ 1..n # {}
    <3>1. \A j \in 1..n : j \in 1..Len(s)
      BY <1>1, <2>1
    <3>2. QED BY <2>1, <3>1
  <2>4. iter[1..n] = Rewrite(iter[1..(n - 1)], s[n])
    BY <1>2, <2>1, <2>2, <2>3 DEF RewriteIter
  <2>5. QED BY <1>1, <2>4
<1>5. run[0] = base
  <2>1. 1..0 = {} /\ {} \in SUBSET (1..Len(s))
    OBVIOUS
  <2>2. iter[{}] = base
    BY <1>2, <2>1 DEF RewriteIter
  <2>3. QED BY <1>1, <2>1, <2>2
<1>6. run[Len(s)] = iter[1..Len(s)]
  BY <1>1
<1> HIDE DEF run
<1>7. QED BY <1>3, <1>4, <1>5, <1>6 DEF RewriteRun

\* The function that FoldLeft iterates for Scan.
ScanIter(base, s, n, iter) ==
    iter = [I \in SUBSET (1..n) |-> IF I = {} THEN base
                                    ELSE Scan(iter[I \ {Max(I)}], s[Max(I)])]

\* It exists.
LEMMA ScanIterExists ==
    ASSUME NEW base, NEW s, NEW N \in Nat
    PROVE  \E iter : ScanIter(base, s, N, iter)
<1> DEFINE T == {n \in 0..N : \E iter : ScanIter(base, s, n, iter)}
<1>1. 0 \in T
  <2> DEFINE iter == [I \in SUBSET (1..0) |-> base]
  <2>1. SUBSET (1..0) = {{}}
    OBVIOUS
  <2>2. ScanIter(base, s, 0, iter)
    BY <2>1 DEF ScanIter
  <2>3. QED BY <2>2
<1>2. ASSUME NEW n \in 1..N, n - 1 \in T PROVE n \in T
  <2>1. PICK f : ScanIter(base, s, n - 1, f)
    BY <1>2
  <2> DEFINE iter == [I \in SUBSET (1..n) |->
                        IF n \in I THEN Scan(f[I \ {n}], s[n]) ELSE f[I]]
  <2>2. ASSUME NEW I \in SUBSET (1..n)
        PROVE  iter[I] = IF I = {} THEN base
                         ELSE Scan(iter[I \ {Max(I)}], s[Max(I)])
    <3>1. CASE n \in I
      <4>1. n \in Nat /\ I \subseteq 1..n /\ \A j \in I : j <= n
        OBVIOUS
      <4>2. Max(I) = n
        BY <3>1, <4>1, MaxUnique
      <4>3. iter[I \ {n}] = f[I \ {n}]
        OBVIOUS
      <4>4. QED BY <3>1, <4>2, <4>3
    <3>2. CASE n \notin I
      <4>1. I \in SUBSET (1..(n - 1)) /\ n - 1 \in Nat
        BY <3>2
      <4>2. CASE I = {}
        BY <2>1, <3>2, <4>1, <4>2 DEF ScanIter
      <4>3. CASE I # {}
        <5>1. Max(I) \in I
          BY <4>1, <4>3, MaxIn
        <5>2. iter[I \ {Max(I)}] = f[I \ {Max(I)}] /\ iter[I] = f[I]
          BY <3>2
        <5>3. f[I] = Scan(f[I \ {Max(I)}], s[Max(I)])
          BY <2>1, <4>1, <4>3 DEF ScanIter
        <5>4. QED BY <4>3, <5>2, <5>3
      <4>4. QED BY <4>2, <4>3
    <3>3. QED BY <3>1, <3>2
  <2>3. iter = [I \in SUBSET (1..n) |-> iter[I]]
    OBVIOUS
  <2> HIDE DEF iter
  <2>4. ScanIter(base, s, n, iter)
    BY <2>2, <2>3 DEF ScanIter
  <2>5. QED BY <2>4
<1>3. QED
  <2> HIDE DEF T
  <2>1. N \in T
    BY <1>1, <1>2, InductionTo
  <2>2. QED BY <2>1 DEF T

\* What Scan makes of s, element by element.
ScanRun(base, s, run) ==
    run[0] = base /\ \A n \in 1..Len(s) : run[n] = Scan(run[n - 1], s[n])

\* The same for Scan.
LEMMA ScanRuns ==
    ASSUME NEW base, NEW S, NEW s \in Seq(S)
    PROVE  \E run : ScanRun(base, s, run) /\ FoldLeft(Scan, base, s) = run[Len(s)]
<1> DEFINE iter == CHOOSE iter : ScanIter(base, s, Len(s), iter)
           run == [n \in 0..Len(s) |-> iter[1..n]]
<1>1. Len(s) \in Nat /\ DOMAIN s = 1..Len(s)
  OBVIOUS
<1>2. ScanIter(base, s, Len(s), iter)
  BY <1>1, ScanIterExists
<1>3. FoldLeft(Scan, base, s) = iter[1..Len(s)]
  BY <1>1, <1>2 DEF FoldLeft, MapThenFoldSet, ScanIter
<1> HIDE DEF iter
<1>4. ASSUME NEW n \in 1..Len(s) PROVE run[n] = Scan(run[n - 1], s[n])
  <2>1. n \in Nat /\ n \in 1..n /\ (1..n) \ {n} = 1..(n - 1) /\ \A j \in 1..n : j <= n
    OBVIOUS
  <2>2. Max(1..n) = n
    BY <2>1, MaxUnique
  <2>3. 1..n \in SUBSET (1..Len(s)) /\ 1..n # {}
    <3>1. \A j \in 1..n : j \in 1..Len(s)
      BY <1>1, <2>1
    <3>2. QED BY <2>1, <3>1
  <2>4. iter[1..n] = Scan(iter[1..(n - 1)], s[n])
    BY <1>2, <2>1, <2>2, <2>3 DEF ScanIter
  <2>5. QED BY <1>1, <2>4
<1>5. run[0] = base
  <2>1. 1..0 = {} /\ {} \in SUBSET (1..Len(s))
    OBVIOUS
  <2>2. iter[{}] = base
    BY <1>2, <2>1 DEF ScanIter
  <2>3. QED BY <1>1, <2>1, <2>2
<1>6. run[Len(s)] = iter[1..Len(s)]
  BY <1>1
<1> HIDE DEF run
<1>7. QED BY <1>3, <1>4, <1>5, <1>6 DEF ScanRun

-----------------------------------------------------------------------------
(* IngestChunk. *)

\* There is one run only.
LEMMA IngestIs ==
    ASSUME NEW base, NEW S, NEW s \in Seq(S), NEW run, MergeRun(base, s, run)
    PROVE  IngestChunk(base, s) = run[Len(s)]
<1>1. PICK other : MergeRun(base, s, other) /\ IngestChunk(base, s) = other[Len(s)]
  BY MergeRuns DEF IngestChunk
<1> DEFINE T == {n \in 0..Len(s) : run[n] = other[n]}
<1>2. 0 \in T
  BY <1>1 DEF MergeRun
<1>3. ASSUME NEW n \in 1..Len(s), n - 1 \in T PROVE n \in T
  <2>1. run[n] = MergeDelta(run[n - 1], s[n]) /\ other[n] = MergeDelta(other[n - 1], s[n])
    BY <1>1 DEF MergeRun
  <2>2. QED BY <1>3, <2>1
<1>4. Len(s) \in Nat
  OBVIOUS
<1> HIDE DEF T
<1>5. Len(s) \in T
  BY SMTT(30), <1>2, <1>3, <1>4, InductionTo
<1>6. QED BY <1>1, <1>5 DEF T

\* No delta changes nothing, and one delta is merged.
LEMMA IngestOne ==
    ASSUME NEW base, NEW d
    PROVE  IngestChunk(base, <<>>) = base /\ IngestChunk(base, <<d>>) = MergeDelta(base, d)
<1> DEFINE run == [n \in {0, 1} |-> IF n = 0 THEN base ELSE MergeDelta(base, d)]
<1>1. MergeRun(base, <<>>, run) /\ MergeRun(base, <<d>>, run)
  BY DEF MergeRun
<1>2. <<>> \in Seq({d}) /\ <<d>> \in Seq({d}) /\ run[0] = base /\ run[1] = MergeDelta(base, d)
      /\ Len(<<>>) = 0 /\ Len(<<d>>) = 1
  OBVIOUS
<1> HIDE DEF run
<1>3. IngestChunk(base, <<>>) = run[Len(<<>>)] /\ IngestChunk(base, <<d>>) = run[Len(<<d>>)]
  BY <1>1, <1>2, IngestIs
<1>4. QED BY <1>2, <1>3

\* Two chunks are ingested one after the other.
LEMMA IngestJoin ==
    ASSUME NEW base, NEW S, NEW s \in Seq(S), NEW t \in Seq(S)
    PROVE  IngestChunk(base, s \o t) = IngestChunk(IngestChunk(base, s), t)
<1>1. PICK one : MergeRun(base, s, one) /\ IngestChunk(base, s) = one[Len(s)]
  BY MergeRuns DEF IngestChunk
<1>2. PICK two : /\ MergeRun(IngestChunk(base, s), t, two)
                 /\ IngestChunk(IngestChunk(base, s), t) = two[Len(t)]
  BY MergeRuns DEF IngestChunk
<1> DEFINE run == [n \in 0..(Len(s) + Len(t)) |-> IF n <= Len(s) THEN one[n] ELSE two[n - Len(s)]]
<1>3. /\ s \o t \in Seq(S) /\ Len(s \o t) = Len(s) + Len(t) /\ Len(s) \in Nat /\ Len(t) \in Nat
      /\ \A j \in 1..Len(s) : (s \o t)[j] = s[j]
      /\ \A j \in (Len(s) + 1)..(Len(s) + Len(t)) : (s \o t)[j] = t[j - Len(s)]
  BY JoinIs
<1> DEFINE all == s \o t
<1> HIDE DEF all
<1>4. ASSUME NEW n \in 1..(Len(s) + Len(t)) PROVE run[n] = MergeDelta(run[n - 1], all[n])
  <2>1. CASE n <= Len(s)
    <3>1. all[n] = s[n] /\ n \in 1..Len(s)
      BY <1>3, <2>1 DEF all
    <3>2. one[n] = MergeDelta(one[n - 1], s[n])
      BY <1>1, <3>1 DEF MergeRun
    <3>3. run[n] = one[n] /\ run[n - 1] = one[n - 1]
      BY <1>3, <2>1
    <3>4. QED BY <3>1, <3>2, <3>3
  <2>2. CASE n > Len(s)
    <3>1. all[n] = t[n - Len(s)] /\ n - Len(s) \in 1..Len(t)
      BY <1>3, <2>2 DEF all
    <3>2. two[n - Len(s)] = MergeDelta(two[(n - Len(s)) - 1], t[n - Len(s)])
      BY <1>2, <3>1 DEF MergeRun
    <3>3. run[n] = two[n - Len(s)]
      BY <1>3, <2>2
    <3>4. run[n - 1] = two[(n - Len(s)) - 1]
      <4>1. CASE n - 1 > Len(s)
        BY <1>3, <4>1
      <4>2. CASE n - 1 = Len(s)
        <5>1. run[n - 1] = one[Len(s)] /\ (n - Len(s)) - 1 = 0
          BY <1>3, <4>2
        <5>2. QED BY <1>1, <1>2, <5>1 DEF MergeRun
      <4>3. QED BY <1>3, <2>2, <4>1, <4>2
    <3>5. QED BY <3>1, <3>2, <3>3, <3>4
  <2>3. QED BY <1>3, <2>1, <2>2
<1>5. run[0] = base
  BY <1>1, <1>3 DEF MergeRun
<1>6. run[Len(s) + Len(t)] = two[Len(t)]
  <2>1. CASE Len(t) = 0
    BY <1>1, <1>2, <1>3, <2>1 DEF MergeRun
  <2>2. CASE Len(t) > 0
    BY <1>3, <2>2
  <2>3. QED BY <1>3, <2>1, <2>2
<1> HIDE DEF run
<1>7. MergeRun(base, all, run) /\ all \in Seq(S) /\ Len(all) = Len(s) + Len(t)
  BY <1>3, <1>4, <1>5 DEF MergeRun, all
<1>8. IngestChunk(base, all) = two[Len(t)]
  BY <1>6, <1>7, IngestIs
<1>9. QED BY <1>2, <1>8 DEF all

-----------------------------------------------------------------------------
(* What is shown of a content: its mirrored blocks and what is kept of it.   *)

Unread == [out |-> <<>>, inside |-> FALSE]

Seen(content) == FoldLeft(Scan, Unread, content)

\* The scan of a longer content goes on where that of the shorter one is.
LEMMA SeenAppend ==
    ASSUME NEW S, NEW w \in Seq(S), NEW x
    PROVE  Seen(<<>>) = Unread /\ Seen(Append(w, x)) = Scan(Seen(w), x)
<1> DEFINE n == Len(w)
           all == Append(w, x)
<1>1. /\ n \in Nat /\ all \in Seq(S \cup {x}) /\ Len(all) = n + 1 /\ all[n + 1] = x
      /\ \A j \in 1..n : all[j] = w[j]
  OBVIOUS
<1>2. PICK short : ScanRun(Unread, w, short) /\ Seen(w) = short[Len(w)]
  BY ScanRuns DEF Seen
<1>3. PICK long : ScanRun(Unread, all, long) /\ Seen(all) = long[Len(all)]
  BY <1>1, ScanRuns DEF Seen
<1> DEFINE T == {k \in 0..n : long[k] = short[k]}
<1>4. 0 \in T
  BY <1>1, <1>2, <1>3 DEF ScanRun
<1>5. ASSUME NEW k \in 1..n, k - 1 \in T PROVE k \in T
  <2>1. long[k] = Scan(long[k - 1], all[k])
    <3>1. k \in 1..Len(all)
      BY <1>1
    <3> HIDE DEF all
    <3>2. QED BY <1>3, <3>1 DEF ScanRun
  <2>2. short[k] = Scan(short[k - 1], w[k]) /\ all[k] = w[k]
    BY <1>1, <1>2 DEF ScanRun
  <2>3. QED BY <1>5, <2>1, <2>2
<1>6. n \in T
  <2> HIDE DEF T, n
  <2>1. QED BY <1>1, <1>4, <1>5, InductionTo
<1>7. long[n + 1] = Scan(long[n], x)
  <2>1. n + 1 \in 1..Len(all) /\ (n + 1) - 1 = n
    BY <1>1
  <2> HIDE DEF all, n
  <2>2. long[n + 1] = Scan(long[(n + 1) - 1], all[n + 1])
    BY <1>3, <2>1 DEF ScanRun
  <2>3. QED BY <1>1, <2>1, <2>2
<1>8. Seen(<<>>) = Unread
  <2>1. PICK run : ScanRun(Unread, <<>>, run) /\ Seen(<<>>) = run[Len(<<>>)]
    <3>1. <<>> \in Seq({})
      OBVIOUS
    <3>2. QED BY <3>1, ScanRuns DEF Seen
  <2>2. QED BY <2>1 DEF ScanRun
<1>9. QED
  <2> HIDE DEF all
  <2>1. QED BY <1>1, <1>2, <1>3, <1>6, <1>7, <1>8 DEF all

\* What one segment does to a scan inside a block and outside of one.
LEMMA ScanIs ==
    ASSUME NEW out, NEW x
    PROVE  /\ Scan([out |-> out, inside |-> TRUE], x) = [out |-> out, inside |-> x # "close"]
           /\ Scan([out |-> out, inside |-> FALSE], x) =
                 [out |-> Append(out, IF x = "open" THEN "think" ELSE x), inside |-> x = "open"]
BY DEF Scan

\* The segments of content outside its blocks are c.
Keeps(content, c) ==
    \E kept : /\ kept[0] = <<>> /\ kept[Len(content)] = c
              /\ \A n \in 1..Len(content) :
                    kept[n] = IF content[n] = "think" THEN kept[n - 1]
                              ELSE Append(kept[n - 1], content[n])

\* What is outside the blocks of a content grows with the content.
LEMMA KeepsAppend ==
    ASSUME NEW S, NEW content \in Seq(S), NEW c, Keeps(content, c), NEW x
    PROVE  Keeps(Append(content, x), IF x = "think" THEN c ELSE Append(c, x))
<1> DEFINE n == Len(content)
           all == Append(content, x)
           result == IF x = "think" THEN c ELSE Append(c, x)
<1>1. /\ n \in Nat /\ Len(all) = n + 1 /\ all[n + 1] = x
      /\ \A j \in 1..n : all[j] = content[j]
  OBVIOUS
<1>2. PICK kept : /\ kept[0] = <<>> /\ kept[n] = c
                  /\ \A k \in 1..n : kept[k] = IF content[k] = "think" THEN kept[k - 1]
                                               ELSE Append(kept[k - 1], content[k])
  BY DEF Keeps
<1> DEFINE more == [k \in 0..(n + 1) |-> IF k = n + 1 THEN result ELSE kept[k]]
<1> HIDE DEF all, n
<1>3. ASSUME NEW k \in 1..(n + 1)
      PROVE  more[k] = IF all[k] = "think" THEN more[k - 1] ELSE Append(more[k - 1], all[k])
  <2>1. CASE k = n + 1
    <3>1. more[k] = result /\ more[k - 1] = kept[n]
      BY <1>1, <2>1
    <3>2. QED BY <1>1, <1>2, <2>1, <3>1
  <2>2. CASE k \in 1..n
    <3>1. more[k] = kept[k] /\ more[k - 1] = kept[k - 1]
      BY <1>1, <2>2
    <3>2. QED BY <1>1, <1>2, <2>2, <3>1
  <2>3. QED BY <1>1, <2>1, <2>2
<1>4. more[0] = <<>> /\ more[n + 1] = result
  BY <1>1, <1>2
<1> HIDE DEF more, result
<1>5. Keeps(all, result)
  BY <1>1, <1>3, <1>4 DEF Keeps
<1>6. QED BY <1>5 DEF all, result, n

\* The first segment outside the blocks has only blocks in front of it.
LEMMA KeepsFirst ==
    ASSUME NEW S, NEW content \in Seq(S), NEW c, Keeps(content, c), c # <<>>
    PROVE  \E p \in 1..Len(content) : /\ content[p] = c[1] /\ content[p] # "think"
                                      /\ \A i \in 1..(p - 1) : content[i] = "think"
<1> DEFINE N == Len(content)
           First(n, p) == /\ content[p] # "think"
                          /\ \A i \in 1..(p - 1) : content[i] = "think"
<1>1. PICK kept : /\ kept[0] = <<>> /\ kept[N] = c
                  /\ \A n \in 1..N : kept[n] = IF content[n] = "think" THEN kept[n - 1]
                                               ELSE Append(kept[n - 1], content[n])
  BY DEF Keeps
<1>2. N \in Nat /\ N \in 0..N
  OBVIOUS
<1> DEFINE T == {n \in 0..N :
                   \/ kept[n] = <<>> /\ \A i \in 1..n : content[i] = "think"
                   \/ /\ kept[n] \in Seq(S) /\ kept[n] # <<>>
                      /\ \E p \in 1..n : content[p] = kept[n][1] /\ First(n, p)}
<1>3. 0 \in T
  BY <1>1
<1>4. ASSUME NEW n \in 1..N, n - 1 \in T PROVE n \in T
  <2>1. kept[n] = IF content[n] = "think" THEN kept[n - 1] ELSE Append(kept[n - 1], content[n])
    BY <1>1
  <2>2. content[n] \in S /\ n \in 0..N /\ n \in 1..n
    OBVIOUS
  <2>3. CASE kept[n - 1] = <<>> /\ \A i \in 1..(n - 1) : content[i] = "think"
    <3>1. CASE content[n] = "think"
      <4>1. \A i \in 1..n : content[i] = "think"
        BY <2>3, <3>1
      <4>2. QED BY <2>1, <2>2, <2>3, <3>1, <4>1
    <3>2. CASE content[n] # "think"
      <4>1. kept[n] = <<content[n]>>
        BY <2>1, <2>3, <3>2
      <4>2. kept[n] \in Seq(S) /\ kept[n] # <<>> /\ kept[n][1] = content[n]
        BY <2>2, <4>1
      <4>3. QED BY <2>2, <2>3, <3>2, <4>2
    <3>3. QED BY <3>1, <3>2
  <2>4. CASE /\ kept[n - 1] \in Seq(S) /\ kept[n - 1] # <<>>
             /\ \E p \in 1..(n - 1) : content[p] = kept[n - 1][1] /\ First(n - 1, p)
    <3>1. PICK p \in 1..(n - 1) : content[p] = kept[n - 1][1] /\ First(n - 1, p)
      BY <2>4
    <3>2. p \in 1..n
      BY <3>1
    <3>3. kept[n] \in Seq(S) /\ kept[n] # <<>> /\ kept[n][1] = kept[n - 1][1]
      BY <2>1, <2>2, <2>4
    <3>4. QED BY <2>2, <3>1, <3>2, <3>3
  <2>5. QED BY <1>4, <2>3, <2>4
<1> HIDE DEF T
<1>5. N \in T
  <2> HIDE DEF N
  <2>1. QED BY <1>2, <1>3, <1>4, InductionTo
<1>6. QED BY <1>1, <1>5 DEF T

\* No white space is right behind a block, and no newline in front of all.
Neat(b) == \A n \in DOMAIN b : b[n] \in White => IF n = 1 THEN b[1] # "nl"
                                                 ELSE b[n - 1] # "think"

\* What is outside the blocks is then what the proxy makes of the content.
LEMMA KeepsIs ==
    ASSUME NEW S, NEW content \in Seq(S), NEW c \in Seq(S), Keeps(content, c), Neat(content)
    PROVE  StripCursorThinkingBlocks(content) = c
<1>1. PICK kept : /\ kept[0] = <<>> /\ kept[Len(content)] = c
                  /\ \A n \in 1..Len(content) :
                        kept[n] = IF content[n] = "think" THEN kept[n - 1]
                                  ELSE Append(kept[n - 1], content[n])
  BY DEF Keeps
<1>2. PICK other : /\ other[0] = <<>>
                   /\ \A n \in 1..Len(content) :
                         other[n] = IF Matched(content, n) THEN other[n - 1]
                                    ELSE Append(other[n - 1], content[n])
                   /\ StripCursorThinkingBlocks(content) = TrimLeft(other[Len(content)])
  BY StripScans
<1>3. ASSUME NEW n \in 1..Len(content) PROVE Matched(content, n) = (content[n] = "think")
  <2>1. content[n] = "think" => Matched(content, n)
    BY DEF Matched
  <2>2. ASSUME NEW j \in 1..n, content[j] = "think", j # n,
               \A l \in (j + 1)..n : content[l] \in White
        PROVE  FALSE
    <3>1. j + 1 \in (j + 1)..n /\ j + 1 \in DOMAIN content /\ j + 1 # 1 /\ (j + 1) - 1 = j
      BY <2>2
    <3>2. content[j + 1] \in White
      BY <2>2, <3>1
    <3>3. QED BY <2>2, <3>1, <3>2 DEF Neat
  <2>3. QED BY <2>1, <2>2 DEF Matched
<1> DEFINE T == {n \in 0..Len(content) : kept[n] = other[n]}
<1>4. 0 \in T
  BY <1>1, <1>2
<1>5. ASSUME NEW n \in 1..Len(content), n - 1 \in T PROVE n \in T
  <2>1. kept[n - 1] = other[n - 1]
    BY <1>5
  <2>2. kept[n] = other[n]
    BY <1>1, <1>2, <1>3, <2>1
  <2>3. QED BY <2>2
<1>6. Len(content) \in Nat
  OBVIOUS
<1>7. other[Len(content)] = c
  <2> HIDE DEF T
  <2>1. \A n \in 0..Len(content) : n \in T
    BY <1>4, <1>5, <1>6, InductionTo
  <2>2. QED BY <1>1, <1>6, <2>1 DEF T
<1>8. c # <<>> => c[1] # "nl"
  <2> SUFFICES ASSUME c # <<>>, c[1] = "nl" PROVE FALSE
    OBVIOUS
  <2>1. PICK p \in 1..Len(content) : /\ content[p] = c[1]
                                     /\ \A i \in 1..(p - 1) : content[i] = "think"
    BY KeepsFirst
  <2>2. content[p] \in White /\ p \in DOMAIN content
    BY <2>1 DEF White
  <2>3. CASE p = 1
    BY <2>1, <2>2, <2>3 DEF Neat
  <2>4. CASE p # 1
    <3>1. content[p - 1] = "think"
      BY <2>1, <2>4
    <3>2. QED BY <2>2, <2>4, <3>1 DEF Neat
  <2>5. QED BY <2>3, <2>4
<1>9. TrimLeft(c) = c
  BY <1>8, TrimLeftTrims
<1>10. QED BY <1>2, <1>7, <1>9

\* A notice that is the first segment outside the blocks comes out first.
LEMMA KeepsNotice ==
    ASSUME NEW S, NEW content \in Seq(S), NEW c, Keeps(content, c), c # <<>>, c[1] = "notice"
    PROVE  LET stripped == StripCursorThinkingBlocks(content)
           IN  stripped # <<>> /\ stripped[1] = "notice"
<1>1. PICK p \in 1..Len(content) : /\ content[p] = c[1]
                                   /\ \A i \in 1..(p - 1) : content[i] = "think"
  BY KeepsFirst
<1>2. ASSUME NEW i \in 1..(p - 1) PROVE Matched(content, i)
  <2>1. content[i] = "think" /\ i \in 1..i
    BY <1>1
  <2>2. QED BY <2>1 DEF Matched
<1>3. QED BY <1>1, <1>2, StripKeepsNotice

\* Every block of content is closed.
Closed(content) == \A j \in DOMAIN content : content[j] = "open" =>
                      \E l \in j..Len(content) : content[l] = "close"

\* A content stays closed with anything but an opening, and becomes so with a
\* closing.
LEMMA ClosedAppend ==
    ASSUME NEW S, NEW w \in Seq(S), NEW x
    PROVE  /\ Closed(Append(w, "close"))
           /\ Closed(w) /\ x # "open" => Closed(Append(w, x))
<1>1. ASSUME NEW y, y # "open", y = "close" \/ Closed(w) PROVE Closed(Append(w, y))
  <2> DEFINE all == Append(w, y)
             n == Len(w) + 1
  <2>1. /\ all \in Seq(S \cup {y}) /\ Len(all) = n /\ n \in Nat /\ all[n] = y
        /\ \A j \in 1..(n - 1) : all[j] = w[j]
    OBVIOUS
  <2> SUFFICES ASSUME NEW j \in DOMAIN all, all[j] = "open"
               PROVE  \E l \in j..n : all[l] = "close"
    BY <2>1 DEF Closed
  <2>2. j \in 1..(n - 1) /\ n \in j..n
    BY <1>1, <2>1
  <2>3. CASE y = "close"
    BY <2>1, <2>2, <2>3
  <2>4. CASE Closed(w)
    <3>1. j \in DOMAIN w /\ w[j] = "open"
      BY <2>1, <2>2
    <3>2. PICK l \in j..Len(w) : w[l] = "close"
      BY <2>4, <3>1 DEF Closed
    <3>3. l \in j..n /\ l \in 1..(n - 1)
      BY <2>2, <3>2
    <3>4. QED BY <2>1, <3>2, <3>3
  <2>5. QED BY <1>1, <2>3, <2>4
<1>2. QED BY <1>1

\* c is what the proxy keeps of the content w, and whether w ends inside a block.
Shows(w, c, inside) ==
    /\ w \in Texts /\ c \in Texts
    /\ inside \/ Closed(w)
    /\ Seen(w).out \in Seq(ToSet(Seen(w).out)) /\ Keeps(Seen(w).out, c)
    /\ Seen(w) = [out |-> Seen(w).out, inside |-> inside]

\* No segment of the upstream's text is a mark of the proxy's.
CleanText == Segments \cap {"open", "close", "think", "notice"} = {}

\* What one more segment does to what a content shows.
LEMMA ShowsSegment ==
    ASSUME CleanText, NEW w, NEW c, NEW inside \in BOOLEAN, Shows(w, c, inside)
    PROVE  /\ ~inside => Shows(Append(w, "open"), c, TRUE)
           /\ inside => \A x \in Segments : Shows(Append(w, x), c, TRUE)
           /\ inside => Shows(Append(w, "close"), c, FALSE)
           /\ ~inside => \A x \in Segments \cup {"notice"} : Shows(Append(w, x), Append(c, x), FALSE)
<1> DEFINE out == Seen(w).out
           All == Segments \cup {"notice", "nl", "open", "close"}
           Q == ToSet(out)
<1>1. w \in Seq(All) /\ c \in Seq(All) /\ out \in Seq(Q) /\ Keeps(out, c)
      /\ Seen(w) = [out |-> out, inside |-> inside]
  BY DEF Shows, Texts
<1> HIDE DEF out, Q
<1>2. \A x : Seen(Append(w, x)) = Scan([out |-> out, inside |-> inside], x)
  BY <1>1, SeenAppend
<1>3. ASSUME NEW y, NEW e, Keeps(Append(out, y), e)
      PROVE  Append(out, y) \in Seq(ToSet(Append(out, y)))
  <2>1. Append(out, y) \in Seq(Q \cup {y})
    BY <1>1
  <2> DEFINE s == Append(out, y)
  <2> HIDE DEF s
  <2>2. s \in Seq(ToSet(s))
    BY <2>1 DEF s, ToSet
  <2>3. QED BY <2>2 DEF s
<1>6. ASSUME ~inside PROVE Shows(Append(w, "open"), c, TRUE)
  <2>1. Seen(Append(w, "open")) = [out |-> Append(out, "think"), inside |-> TRUE]
    BY <1>2, <1>6 DEF Scan
  <2>2. Keeps(Append(out, "think"), c)
    BY <1>1, KeepsAppend
  <2>3. Append(w, "open") \in Seq(All)
    BY <1>1
  <2>4. Append(out, "think") \in Seq(ToSet(Append(out, "think")))
    BY <1>3, <2>2
  <2> DEFINE more == Append(out, "think")
             longer == Append(w, "open")
  <2> HIDE DEF more, longer
  <2>5. /\ Seen(longer) = [out |-> more, inside |-> TRUE] /\ Keeps(more, c)
        /\ longer \in Seq(All) /\ more \in Seq(ToSet(more))
    BY <2>1, <2>2, <2>3, <2>4 DEF more, longer
  <2>6. Seen(longer).out = more
    BY <2>5
  <2>7. Shows(longer, c, TRUE)
    BY <1>1, <2>5, <2>6 DEF Shows, Texts
  <2>8. QED BY <2>7 DEF longer
<1>7. ASSUME inside, NEW x \in Segments PROVE Shows(Append(w, x), c, TRUE)
  <2>1. Seen(Append(w, x)) = [out |-> out, inside |-> TRUE]
    BY <1>2, <1>7 DEF Scan, CleanText
  <2>2. Append(w, x) \in Seq(All)
    BY <1>1
  <2>3. QED BY <1>1, <2>1, <2>2 DEF Shows, Texts, Q
<1>8. ASSUME inside PROVE Shows(Append(w, "close"), c, FALSE)
  <2>1. Seen(Append(w, "close")) = [out |-> out, inside |-> FALSE]
    BY <1>2, <1>8 DEF Scan
  <2>2. Append(w, "close") \in Seq(All)
    BY <1>1
  <2>3. Closed(Append(w, "close"))
    BY <1>1, ClosedAppend
  <2>4. QED BY <1>1, <2>1, <2>2, <2>3 DEF Shows, Texts, Q
<1>9. ASSUME ~inside, NEW x \in Segments \cup {"notice"}
      PROVE  Shows(Append(w, x), Append(c, x), FALSE)
  <2>1. Seen(Append(w, x)) = [out |-> Append(out, x), inside |-> FALSE]
    BY <1>2, <1>9 DEF Scan, CleanText
  <2>2. Keeps(Append(out, x), Append(c, x))
    BY <1>1, <1>9, KeepsAppend DEF CleanText
  <2>3. Append(w, x) \in Seq(All) /\ Append(c, x) \in Seq(All)
    BY <1>1
  <2>4. x # "open" /\ Closed(w)
    BY <1>9 DEF CleanText, Shows
  <2>5. Closed(Append(w, x))
    BY <1>1, <2>4, ClosedAppend
  <2>6. Append(out, x) \in Seq(ToSet(Append(out, x)))
    BY <1>3, <2>2
  <2> DEFINE more == Append(out, x)
             longer == Append(w, x)
  <2> HIDE DEF more, longer
  <2>7. /\ Seen(longer) = [out |-> more, inside |-> FALSE] /\ Keeps(more, Append(c, x))
        /\ longer \in Seq(All) /\ more \in Seq(ToSet(more)) /\ Closed(longer)
    BY <2>1, <2>2, <2>3, <2>5, <2>6 DEF more, longer
  <2>8. Seen(longer).out = more
    BY <2>7
  <2>9. Shows(longer, Append(c, x), FALSE)
    BY <2>3, <2>7, <2>8 DEF Shows, Texts
  <2>10. QED BY <2>9 DEF longer
<1>10. QED BY <1>6, <1>7, <1>8, <1>9

\* Concatenation is associative.
LEMMA JoinAssoc ==
    ASSUME NEW S, NEW s \in Seq(S), NEW t \in Seq(S), NEW u \in Seq(S)
    PROVE  s \o (t \o u) = (s \o t) \o u
OBVIOUS

\* Appending to the second part is appending to the whole.
LEMMA JoinAppend ==
    ASSUME NEW S, NEW s \in Seq(S), NEW t \in Seq(S), NEW x \in S
    PROVE  s \o Append(t, x) = Append(s \o t, x)
<1> DEFINE l == s \o Append(t, x)
           r == Append(s \o t, x)
<1>1. l \in Seq(S) /\ r \in Seq(S) /\ Len(l) = Len(s) + Len(t) + 1 /\ Len(r) = Len(l)
  OBVIOUS
<1>2. ASSUME NEW i \in 1..Len(l) PROVE l[i] = r[i]
  OBVIOUS
<1> HIDE DEF l, r
<1>3. l = r
  BY <1>1, <1>2
<1>4. QED BY <1>3 DEF l, r

\* What is appended to a content outside a block shows, what is inside does not.
LEMMA ShowsText ==
    ASSUME CleanText, NEW w, NEW c, NEW inside \in BOOLEAN, Shows(w, c, inside),
           NEW t \in Seq(Segments)
    PROVE  Shows(w \o t, IF inside THEN c ELSE c \o t, inside)
<1> DEFINE N == Len(t)
           now(k) == SubSeq(t, 1, k)
           T == {k \in 0..N : Shows(w \o now(k), IF inside THEN c ELSE c \o now(k), inside)}
           All == Segments \cup {"notice", "nl", "open", "close"}
<1>1. N \in Nat /\ w \in Seq(All) /\ c \in Seq(All) /\ t \in Seq(All)
  BY DEF Shows, Texts
<1>2. now(0) = <<>> /\ now(N) = t
  OBVIOUS
<1>3. w \o <<>> = w /\ c \o <<>> = c
  BY <1>1
<1>4. 0 \in T
  <2> HIDE DEF now
  <2>1. Shows(w \o now(0), IF inside THEN c ELSE c \o now(0), inside)
    BY <1>2, <1>3
  <2>2. QED BY <1>1, <2>1
<1>5. ASSUME NEW k \in 1..N, k - 1 \in T PROVE k \in T
  <2>1. t[k] \in Segments /\ now(k - 1) \in Seq(All) /\ k \in 0..N
    BY <1>1
  <2>2. now(k) = Append(now(k - 1), t[k])
    BY <1>1
  <2>3. w \o now(k) = Append(w \o now(k - 1), t[k]) /\ c \o now(k) = Append(c \o now(k - 1), t[k])
    <3> HIDE DEF now
    <3>1. \A x \in All : /\ w \o Append(now(k - 1), x) = Append(w \o now(k - 1), x)
                         /\ c \o Append(now(k - 1), x) = Append(c \o now(k - 1), x)
      BY SMTT(30), <1>1, <2>1, JoinAppend
    <3>2. QED BY <2>1, <2>2, <3>1
  <2> HIDE DEF now
  <2>4. Shows(w \o now(k - 1), IF inside THEN c ELSE c \o now(k - 1), inside)
    BY <1>5
  <2>5. Shows(w \o now(k), IF inside THEN c ELSE c \o now(k), inside)
    <3>1. CASE inside
      BY <2>1, <2>3, <2>4, <3>1, ShowsSegment
    <3>2. CASE ~inside
      BY <2>1, <2>3, <2>4, <3>2, ShowsSegment
    <3>3. QED BY <3>1, <3>2
  <2>6. QED BY <2>1, <2>5
<1>6. N \in T
  <2> HIDE DEF T, now, N
  <2>1. \A k \in 0..N : k \in T
    BY <1>1, <1>4, <1>5, InductionTo
  <2>2. QED BY <1>1, <2>1
<1> HIDE DEF now
<1>7. QED BY <1>2, <1>6

\* The newlines that belong to a notice show with it.
LEMMA ShowsNotice ==
    ASSUME CleanText, NEW w, NEW c, Shows(w, c, FALSE)
    PROVE  Shows(w \o RecoveryNoticeContent, c \o RecoveryNoticeContent, FALSE)
<1> DEFINE All == Segments \cup {"notice", "nl", "open", "close"}
           u == Append(w, "notice")
           e == Append(c, "notice")
           out == Seen(u).out
           before == Seen(w).out
<1>1. w \in Seq(All) /\ c \in Seq(All)
  BY DEF Shows, Texts
<1>2. w \o RecoveryNoticeContent = Append(u, "nl") /\ c \o RecoveryNoticeContent = Append(e, "nl")
      /\ Append(u, "nl") \in Seq(All) /\ Append(e, "nl") \in Seq(All)
  BY <1>1 DEF RecoveryNoticeContent
<1>3. Shows(u, e, FALSE)
  BY ShowsSegment
<1>4. before \in Seq(ToSet(before)) /\ Seen(w) = [out |-> before, inside |-> FALSE]
  BY DEF Shows
<1>5. out = Append(before, "notice") /\ Seen(u) = [out |-> out, inside |-> FALSE]
  <2>1. Seen(u) = Scan([out |-> before, inside |-> FALSE], "notice")
    BY <1>1, <1>4, SeenAppend
  <2> HIDE DEF u, before
  <2>2. Seen(u) = [out |-> Append(before, "notice"), inside |-> FALSE]
    BY <2>1, ScanIs
  <2>3. QED BY <2>2
<1>6. out \in Seq(ToSet(out)) /\ Keeps(out, e)
  BY <1>3 DEF Shows
<1>7. Seen(Append(u, "nl")) = [out |-> Append(out, "nl"), inside |-> FALSE]
  <2>1. Seen(Append(u, "nl")) = Scan(Seen(u), "nl")
    <3>1. u \in Seq(All)
      BY <1>1
    <3>2. QED BY <3>1, SeenAppend
  <2> HIDE DEF u, out
  <2>2. Seen(Append(u, "nl")) = Scan([out |-> out, inside |-> FALSE], "nl")
    BY <1>5, <2>1
  <2>3. QED BY <2>2, ScanIs
<1> HIDE DEF u, e, out
<1>10. Keeps(Append(out, "nl"), Append(e, "nl"))
  BY <1>6, KeepsAppend
<1>11. Append(out, "nl") \in Seq(ToSet(Append(out, "nl")))
  <2> DEFINE s == Append(out, "nl")
             Q == ToSet(out) \cup {"nl"}
  <2>1. s \in Seq(Q)
    BY <1>6
  <2> HIDE DEF s, Q
  <2>2. s \in Seq(ToSet(s))
    BY <2>1 DEF ToSet
  <2>3. QED BY <2>2 DEF s
<1>12. Closed(Append(u, "nl"))
  <2>1. u \in Seq(All) /\ Closed(u)
    BY <1>1, <1>3 DEF Shows, u
  <2>2. QED BY <2>1, ClosedAppend
<1> DEFINE more == Append(out, "nl")
           longer == Append(u, "nl")
           kept == Append(e, "nl")
<1> HIDE DEF more, longer, kept
<1>13. /\ Seen(longer) = [out |-> more, inside |-> FALSE] /\ Keeps(more, kept)
       /\ longer \in Seq(All) /\ kept \in Seq(All) /\ more \in Seq(ToSet(more)) /\ Closed(longer)
  BY <1>2, <1>7, <1>10, <1>11, <1>12 DEF more, longer, kept
<1>14. Seen(longer).out = more
  BY <1>13
<1>15. Shows(longer, kept, FALSE)
  BY <1>13, <1>14 DEF Shows, Texts
<1>16. QED BY <1>2, <1>15 DEF longer, kept

\* What shows is what is sent back, unless white space is in the way.
LEMMA ShowsIs ==
    ASSUME NEW w, NEW c, NEW inside, Shows(w, c, inside), Neat(Blocks(w))
    PROVE  StripCursorThinkingBlocks(Blocks(w)) = c
<1> DEFINE out == Seen(w).out
           R == ToSet(out) \cup ToSet(c)
<1>1. Blocks(w) = out
  BY DEF Blocks, Seen, Unread
<1>2. out \in Seq(ToSet(out)) /\ c \in Texts /\ Keeps(out, c)
  BY DEF Shows
<1>3. out \in Seq(R) /\ c \in Seq(R)
  <2> HIDE DEF out
  <2>1. c \in Seq(ToSet(c))
    BY <1>2 DEF Texts, ToSet
  <2>2. QED BY <1>2, <2>1
<1> HIDE DEF out, R
<1>4. StripCursorThinkingBlocks(out) = c
  BY <1>1, <1>2, <1>3, KeepsIs
<1>5. QED BY <1>1, <1>4

\* A notice in front of what shows is in front of what is sent back.
LEMMA NoticeComesBack ==
    ASSUME NEW w, NEW c, NEW inside, Shows(w, c, inside), c # <<>>, c[1] = "notice"
    PROVE  LET back == StripCursorThinkingBlocks(Blocks(w))
           IN  back # <<>> /\ back[1] = "notice"
<1>1. Blocks(w) = Seen(w).out
  BY DEF Blocks, Seen, Unread
<1>2. Seen(w).out \in Seq(ToSet(Seen(w).out)) /\ Keeps(Seen(w).out, c)
  BY DEF Shows
<1>3. QED BY <1>1, <1>2, KeepsNotice

-----------------------------------------------------------------------------
(* Deltas and choices. *)

Deltas == UNION {ToSet(chunk) : chunk \in Chunks}

Pieces == UNION {ToSet(d.calls) : d \in Deltas}

\* ... of choice i.
PiecesOf(i) == UNION {ToSet(d.calls) : d \in {e \in Deltas : e.index = i}}

\* The deltas that are written to the client.
Wires == {d \in [index : Indices, content : {Absent, Null} \cup Texts, reasoning : Fields,
                 tools : BOOLEAN, calls : Seq(Pieces), finish : BOOLEAN] :
             d.calls \in Seq(PiecesOf(d.index)) /\ (d.calls # <<>> => d.tools)}

\* The deltas of a chunk are deltas as they are written.
LEMMA ChunkIs ==
    ASSUME StreamAssumption, NEW chunk \in Chunks
    PROVE  chunk \in Seq(Wires) /\ \A j \in DOMAIN chunk : chunk[j].content \in Fields
<1>1. chunk \in Seq(ToSet(chunk)) /\ \A d \in ToSet(chunk) : IsDelta(d)
  BY DEF StreamAssumption
<1>2. Fields \subseteq {Absent, Null} \cup Texts
  <2>1. Seq(Segments) \subseteq Seq(Segments \cup {"notice", "nl", "open", "close"})
    OBVIOUS
  <2>2. QED BY <2>1 DEF Fields, Texts
<1>3. ASSUME NEW d \in ToSet(chunk) PROVE d \in Wires /\ d.content \in Fields
  <2>1. /\ d \in [index : Indices, content : Fields, reasoning : Fields, tools : BOOLEAN,
                  calls : Seq(ToSet(d.calls)), finish : BOOLEAN]
        /\ d.calls # <<>> => d.tools
    BY <1>1 DEF IsDelta
  <2>2. ToSet(d.calls) \subseteq Pieces
    BY DEF Pieces, Deltas
  <2>3. d.calls \in Seq(ToSet(d.calls))
    BY <2>1
  <2>4. d.calls \in Seq(Pieces) /\ d.calls \in Seq(PiecesOf(d.index))
    <3>1. ToSet(d.calls) \subseteq PiecesOf(d.index)
      BY DEF PiecesOf, Deltas
    <3>2. QED BY <2>2, <2>3, <3>1
  <2>5. d = [index |-> d.index, content |-> d.content, reasoning |-> d.reasoning,
             tools |-> d.tools, calls |-> d.calls, finish |-> d.finish]
    BY <2>1
  <2>6. QED BY <1>2, <2>1, <2>4, <2>5 DEF Wires
<1>4. ToSet(chunk) \subseteq Wires
  BY <1>3
<1>5. \A j \in DOMAIN chunk : chunk[j] \in ToSet(chunk)
  BY DEF ToSet
<1>6. QED BY <1>1, <1>3, <1>4, <1>5

\* The pieces of tool calls have positions counted from 1.
LEMMA PiecesAre == StreamAssumption => \A p \in Pieces : p.at \in Nat \ {0}
BY DEF StreamAssumption, Pieces, Deltas, IsDelta

\* Text is the text of a field that has one.
LEMMA TextIs ==
    ASSUME StreamAssumption
    PROVE  /\ \A t \in Texts : IsText(t) /\ Text(t) = t
           /\ \A f \in {Absent, Null} \cup Texts : Text(f) \in Texts
           /\ \A f \in Fields : Text(f) \in Seq(Segments)
           /\ <<>> \in Texts /\ Seq(Segments) \subseteq Texts
           /\ \A s \in Texts, t \in Texts : s \o t \in Texts
           /\ \A s \in Seq(Segments), t \in Seq(Segments) : s \o t \in Seq(Segments)
<1>1. /\ <<>> \in Texts /\ Seq(Segments) \subseteq Texts /\ <<>> \in Seq(Segments)
      /\ \A s \in Texts, t \in Texts : s \o t \in Texts
      /\ \A s \in Seq(Segments), t \in Seq(Segments) : s \o t \in Seq(Segments)
  BY DEF Texts
<1>2. {Absent, Null} \cap Texts = {}
  BY DEF StreamAssumption
<1>3. QED BY <1>1, <1>2 DEF Text, IsText, Fields

\* The greater of two numbers.
LEMMA MaxOfTwo ==
    ASSUME NEW a \in Nat, NEW b \in Nat
    PROVE  Max({a, b}) \in Nat /\ a <= Max({a, b}) /\ b <= Max({a, b})
<1>1. \E x \in {a, b} : \A y \in {a, b} : x >= y
  BY a >= b \/ b >= a
<1>2. Max({a, b}) \in {a, b} /\ \A y \in {a, b} : Max({a, b}) >= y
  BY <1>1 DEF Max
<1>3. QED BY <1>2

IsSequence(s) == s \in Seq(ToSet(s))

\* A piece of a tool call changes the call at its place; those before it that
\* are not there yet are new, and no call is lost.
LEMMA MergeCallIs ==
    ASSUME NEW calls, IsSequence(calls), NEW p, p.at \in Nat \ {0}
    PROVE  /\ IsSequence(MergeCall(calls, p))
           /\ p.at \in DOMAIN MergeCall(calls, p)
           /\ DOMAIN calls \subseteq DOMAIN MergeCall(calls, p)
           /\ \A i \in DOMAIN calls : i # p.at => MergeCall(calls, p)[i] = calls[i]
           /\ \A i \in DOMAIN MergeCall(calls, p) \ DOMAIN calls :
                 i # p.at => MergeCall(calls, p)[i] = NewCall
           /\ LET old == IF p.at \in DOMAIN calls THEN calls[p.at] ELSE NewCall
              IN  MergeCall(calls, p)[p.at].id = IF p.id = Absent THEN old.id ELSE p.id
<1> DEFINE n == Max({p.at, Len(calls)})
           padded == [i \in 1..n |-> IF i <= Len(calls) THEN calls[i] ELSE NewCall]
           m == MergeCall(calls, p)
<1>1. Len(calls) \in Nat /\ DOMAIN calls = 1..Len(calls)
  BY DEF IsSequence
<1>2. n \in Nat /\ p.at <= n /\ Len(calls) <= n
  BY <1>1, MaxOfTwo
<1> HIDE DEF n
<1>3. m = [padded EXCEPT ![p.at] = [id   |-> IF p.id = Absent THEN @.id ELSE p.id,
                                    name |-> @.name \o p.name,
                                    args |-> @.args \o p.args]]
  BY DEF MergeCall, n
<1>4. p.at \in 1..n
  BY <1>2
<1>5. DOMAIN m = 1..n /\ \A i \in 1..n : i # p.at => m[i] = padded[i]
  BY <1>3
<1>6. m[p.at].id = IF p.id = Absent THEN padded[p.at].id ELSE p.id
  <2> DEFINE call == [id   |-> IF p.id = Absent THEN padded[p.at].id ELSE p.id,
                      name |-> padded[p.at].name \o p.name,
                      args |-> padded[p.at].args \o p.args]
  <2>1. call.id = IF p.id = Absent THEN padded[p.at].id ELSE p.id
    OBVIOUS
  <2>2. m = [padded EXCEPT ![p.at] = call]
    BY <1>3
  <2>3. p.at \in DOMAIN padded
    BY <1>4
  <2> HIDE DEF call, m, padded
  <2>4. m[p.at] = call
    BY <2>2, <2>3
  <2>5. QED BY <2>1, <2>4
<1>7. m = [i \in 1..n |-> m[i]]
  BY <1>3
<1> HIDE DEF m
<1>8. m \in Seq(ToSet(m))
  <2>1. \A i \in 1..n : m[i] \in ToSet(m)
    BY <1>5 DEF ToSet
  <2>2. QED BY <1>2, <1>7, <2>1
<1>9. QED BY <1>1, <1>2, <1>4, <1>5, <1>6, <1>8 DEF IsSequence, m

\* The calls of a choice after those of a delta.
LEMMA CallsFold ==
    ASSUME StreamAssumption, NEW calls, IsSequence(calls), NEW pieces \in Seq(Pieces)
    PROVE  LET after == FoldLeft(MergeCall, calls, pieces)
           IN  /\ IsSequence(after)
               /\ DOMAIN calls \subseteq DOMAIN after
               /\ pieces = <<>> => after = calls
               /\ pieces # <<>> => after # <<>>
<1>1. PICK run : CallRun(calls, pieces, run) /\ FoldLeft(MergeCall, calls, pieces) = run[Len(pieces)]
  BY CallRuns
<1> DEFINE T == {n \in 0..Len(pieces) : /\ IsSequence(run[n]) /\ DOMAIN calls \subseteq DOMAIN run[n]
                                        /\ n # 0 => DOMAIN run[n] # {}}
<1>2. Len(pieces) \in Nat
  OBVIOUS
<1>3. 0 \in T
  BY <1>1, <1>2 DEF CallRun
<1>4. ASSUME NEW n \in 1..Len(pieces), n - 1 \in T PROVE n \in T
  <2>1. run[n] = MergeCall(run[n - 1], pieces[n]) /\ pieces[n] \in Pieces
    BY <1>1 DEF CallRun
  <2>2. pieces[n].at \in Nat \ {0}
    BY <2>1, PiecesAre
  <2>3. IsSequence(run[n - 1]) /\ DOMAIN calls \subseteq DOMAIN run[n - 1]
    BY <1>4
  <2>4. /\ IsSequence(run[n]) /\ DOMAIN run[n - 1] \subseteq DOMAIN run[n]
        /\ pieces[n].at \in DOMAIN run[n]
    BY <2>1, <2>2, <2>3, MergeCallIs
  <2>5. QED BY <1>2, <2>3, <2>4
<1> HIDE DEF T
<1>5. \A n \in 0..Len(pieces) : n \in T
  BY <1>2, <1>3, <1>4, InductionTo
<1>6. Len(pieces) \in T
  BY <1>2, <1>5
<1>7. pieces = <<>> => run[Len(pieces)] = calls
  BY <1>1 DEF CallRun
<1>8. pieces # <<>> => Len(pieces) # 0
  OBVIOUS
<1>9. IsSequence(run[Len(pieces)]) /\ DOMAIN calls \subseteq DOMAIN run[Len(pieces)]
      /\ (pieces # <<>> => DOMAIN run[Len(pieces)] # {})
  BY <1>6, <1>8 DEF T
<1>10. pieces # <<>> => run[Len(pieces)] # <<>>
  BY <1>9
<1>11. QED BY <1>1, <1>7, <1>9, <1>10

IsChoice(c) == /\ c \in [content : Texts, calls : {c.calls}, reasoning : Fields, finished : BOOLEAN]
               /\ IsSequence(c.calls)

AreChoices(cs) == DOMAIN cs = Indices /\ \A i \in Indices : IsChoice(cs[i])

\* What a delta does to the choices.
LEMMA MergeDeltaIs ==
    ASSUME StreamAssumption, NEW cs, AreChoices(cs), NEW d \in Wires
    PROVE  LET m == MergeDelta(cs, d)
               c == cs[d.index]
           IN  /\ AreChoices(m)
               /\ \A i \in Indices : i # d.index => m[i] = cs[i]
               /\ m[d.index].content = c.content \o Text(d.content)
               /\ m[d.index].calls = FoldLeft(MergeCall, c.calls, d.calls)
               /\ m[d.index].reasoning = IF IsText(d.reasoning) THEN Text(c.reasoning) \o d.reasoning
                                                                ELSE c.reasoning
               /\ m[d.index].finished = (c.finished \/ d.finish)
<1> DEFINE m == MergeDelta(cs, d)
           c == cs[d.index]
           new == [content   |-> c.content \o Text(d.content),
                   calls     |-> FoldLeft(MergeCall, c.calls, d.calls),
                   reasoning |-> IF IsText(d.reasoning) THEN Text(c.reasoning) \o d.reasoning
                                                        ELSE c.reasoning,
                   finished  |-> c.finished \/ d.finish]
<1>1. /\ d.index \in Indices /\ d.content \in {Absent, Null} \cup Texts /\ d.reasoning \in Fields
      /\ d.calls \in Seq(Pieces) /\ d.finish \in BOOLEAN
  BY DEF Wires
<1>2. IsChoice(c) /\ c.content \in Texts /\ c.reasoning \in Fields /\ c.finished \in BOOLEAN
  BY <1>1 DEF AreChoices, IsChoice
<1>3. m = [cs EXCEPT ![d.index] = new]
  BY DEF MergeDelta
<1> HIDE DEF new
<1>4. m[d.index] = new /\ DOMAIN m = Indices /\ \A i \in Indices : i # d.index => m[i] = cs[i]
  BY <1>1, <1>3 DEF AreChoices
<1>5. IsChoice(new)
  <2>1. c.content \o Text(d.content) \in Texts
    BY <1>1, <1>2, TextIs
  <2>2. IsSequence(FoldLeft(MergeCall, c.calls, d.calls))
    BY <1>1, <1>2, CallsFold DEF IsChoice
  <2>3. IsText(d.reasoning) => Text(c.reasoning) \o d.reasoning \in Fields
    <3> SUFFICES ASSUME IsText(d.reasoning)
                 PROVE  Text(c.reasoning) \o d.reasoning \in Seq(Segments)
      BY DEF Fields
    <3>1. d.reasoning \in Seq(Segments)
      BY <1>1 DEF Fields, IsText
    <3>2. Text(c.reasoning) \in Seq(Segments)
      BY <1>2, TextIs
    <3>3. QED BY <3>1, <3>2
  <2>4. QED BY <1>1, <1>2, <2>1, <2>2, <2>3 DEF IsChoice, new
<1>6. AreChoices(m)
  BY <1>4, <1>5 DEF AreChoices
<1>7. /\ m[d.index].content = c.content \o Text(d.content)
      /\ m[d.index].calls = FoldLeft(MergeCall, c.calls, d.calls)
      /\ m[d.index].reasoning = IF IsText(d.reasoning) THEN Text(c.reasoning) \o d.reasoning
                                                       ELSE c.reasoning
      /\ m[d.index].finished = (c.finished \/ d.finish)
  <2>1. /\ new.content = c.content \o Text(d.content)
        /\ new.calls = FoldLeft(MergeCall, c.calls, d.calls)
        /\ new.reasoning = IF IsText(d.reasoning) THEN Text(c.reasoning) \o d.reasoning
                                                  ELSE c.reasoning
    BY DEF new
  <2>2. new.finished = (c.finished \/ d.finish)
    BY Zenon DEF new
  <2> HIDE DEF m, c
  <2>3. QED BY <1>4, <2>1, <2>2
<1> HIDE DEF m, c
<1>8. AreChoices(m) /\ \A i \in Indices : i # d.index => m[i] = cs[i]
  BY <1>4, <1>6
<1>9. QED BY ONLY <1>7, <1>8 DEF m, c

-----------------------------------------------------------------------------
(* One delta, rewritten. *)

Thinks(d) == IsText(d.reasoning) /\ d.reasoning # <<>>
Closes(opened, d) == (Thinks(d) \/ d.index \in opened) /\ EndsBlock(d)
Opening(opened, d) == IF Thinks(d) /\ d.index \notin opened THEN <<"open">> ELSE <<>>
Thought(d) == IF Thinks(d) THEN d.reasoning ELSE <<>>
Closing(opened, d) == IF Closes(opened, d) THEN <<"close">> ELSE <<>>
Block(opened, d) == Opening(opened, d) \o Thought(d) \o Closing(opened, d)

\* The block of a delta: an opening, its reasoning and a closing.
LEMMA BlockParts ==
    ASSUME NEW opened, NEW d \in Wires, NEW Q, Segments \subseteq Q, "open" \in Q, "close" \in Q
    PROVE  /\ Opening(opened, d) \in Seq(Q) /\ Thought(d) \in Seq(Segments) /\ Thought(d) \in Seq(Q)
           /\ Closing(opened, d) \in Seq(Q) /\ Block(opened, d) \in Seq(Q)
           /\ Block(opened, d) = (Opening(opened, d) \o Thought(d)) \o Closing(opened, d)
<1>1. <<"open">> \in Seq(Q) /\ <<"close">> \in Seq(Q) /\ <<>> \in Seq(Q) /\ <<>> \in Seq(Segments)
  OBVIOUS
<1>2. Opening(opened, d) \in Seq(Q) /\ Closing(opened, d) \in Seq(Q)
  BY <1>1 DEF Opening, Closing
<1>3. Thought(d) \in Seq(Segments)
  BY <1>1 DEF Thought, Thinks, IsText, Wires, Fields
<1>4. Thought(d) \in Seq(Q)
  BY <1>3
<1>5. QED BY <1>2, <1>3, <1>4 DEF Block

\* A delta with another content is a delta as they are written.
LEMMA WireContent ==
    ASSUME NEW d \in Wires, NEW content \in Texts
    PROVE  LET w == [d EXCEPT !.content = content]
           IN  /\ w \in Wires /\ w.content = content
               /\ w.index = d.index /\ w.calls = d.calls
               /\ w.reasoning = d.reasoning /\ w.finish = d.finish
<1> DEFINE w == [d EXCEPT !.content = content]
           T == {Absent, Null} \cup Texts
           C == Seq(Pieces)
           F == Fields
           D == [index : Indices, content : T, reasoning : F, tools : BOOLEAN, calls : C,
                 finish : BOOLEAN]
<1>1. d \in D /\ d.calls \in Seq(PiecesOf(d.index)) /\ (d.calls # <<>> => d.tools)
  BY DEF Wires
<1>2. content \in T
  OBVIOUS
<1> HIDE DEF T, C, F
<1>3. /\ w.content = content /\ w.index = d.index /\ w.calls = d.calls
      /\ w.reasoning = d.reasoning /\ w.finish = d.finish /\ w.tools = d.tools
  BY <1>1
<1>4. w \in D
  BY <1>1, <1>2
<1> HIDE DEF w
<1>5. w \in Wires
  BY <1>1, <1>3, <1>4 DEF Wires, T, C, F
<1>6. QED BY <1>3, <1>5 DEF w

\* Only the content of a delta is rewritten.
LEMMA MirrorIs ==
    ASSUME StreamAssumption, NEW opened, NEW d \in Wires
    PROVE  LET m == Mirror(opened, d)
           IN  /\ m.delta \in Wires
               /\ m.delta.index = d.index /\ m.delta.calls = d.calls
               /\ m.delta.reasoning = d.reasoning /\ m.delta.finish = d.finish
               /\ Text(m.delta.content) = Block(opened, d) \o Text(d.content)
               /\ m.opened = IF Closes(opened, d) THEN opened \ {d.index}
                             ELSE IF Thinks(d) THEN opened \cup {d.index} ELSE opened
               /\ Block(opened, d) \in Texts /\ Text(d.content) \in Texts
<1> DEFINE block == Block(opened, d)
           m == Mirror(opened, d)
<1>1. /\ m.opened = IF Closes(opened, d) THEN opened \ {d.index}
                    ELSE IF Thinks(d) THEN opened \cup {d.index} ELSE opened
      /\ m.delta = IF block = <<>> THEN d ELSE [d EXCEPT !.content = block \o Text(@)]
  BY DEF Mirror, Thinks, Closes, Block, Opening, Thought, Closing
<1>2. d.content \in {Absent, Null} \cup Texts /\ d.reasoning \in Fields
  BY DEF Wires
<1>3. Text(d.content) \in Texts
  BY <1>2, TextIs
<1>4. block \in Texts
  BY BlockParts DEF Texts
<1> HIDE DEF block, m
<1>5. CASE block = <<>>
  <2>1. m.delta = d /\ <<>> \o Text(d.content) = Text(d.content)
    BY <1>1, <1>3, <1>5 DEF Texts
  <2>2. QED BY <1>1, <1>3, <1>4, <1>5, <2>1 DEF block, m
<1>6. CASE block # <<>>
  <2>1. block \o Text(d.content) \in Texts
    BY <1>3, <1>4, TextIs
  <2>2. m.delta = [d EXCEPT !.content = block \o Text(d.content)]
    BY <1>1, <1>6
  <2>3. m.delta \in Wires /\ m.delta.content = block \o Text(d.content)
        /\ m.delta.index = d.index /\ m.delta.calls = d.calls
        /\ m.delta.reasoning = d.reasoning /\ m.delta.finish = d.finish
    <3> DEFINE content == block \o Text(d.content)
    <3>1. content \in Texts /\ m.delta = [d EXCEPT !.content = content]
      BY <2>1, <2>2
    <3> HIDE DEF content
    <3>2. /\ m.delta \in Wires /\ m.delta.content = content
          /\ m.delta.index = d.index /\ m.delta.calls = d.calls
          /\ m.delta.reasoning = d.reasoning /\ m.delta.finish = d.finish
      BY <3>1, WireContent
    <3>3. QED BY <3>2 DEF content
  <2>4. Text(m.delta.content) = block \o Text(d.content)
    BY <2>1, <2>3, TextIs
  <2>5. QED BY <1>1, <1>3, <1>4, <2>3, <2>4 DEF block, m
<1>7. QED BY <1>5, <1>6

\* A choice is inside a block only while it has reasoning and is not finished.
Opened(cs, opened) == /\ opened \subseteq Indices
                      /\ \A i \in opened : Text(cs[i].reasoning) # <<>> /\ ~cs[i].finished

\* Thinking is mirrored, or it is not.
Step(opened, d) == IF Display THEN Mirror(opened, d) ELSE [opened |-> opened, delta |-> d]

\* After a delta the open blocks still belong to choices with reasoning that
\* have not ended.
LEMMA OpenedStep ==
    ASSUME StreamAssumption, NEW cs, AreChoices(cs), NEW opened, Opened(cs, opened), ~Display => opened = {},
           NEW d \in Wires, cs[d.index].finished => ~Thinks(d)
    PROVE  /\ Opened(MergeDelta(cs, d), Step(opened, d).opened)
           /\ ~Display => Step(opened, d).opened = {}
<1> DEFINE m == MergeDelta(cs, d)
           after == Step(opened, d).opened
<1>1. d.index \in Indices /\ d.reasoning \in Fields /\ d.finish \in BOOLEAN
  BY DEF Wires
<1>2. /\ \A i \in Indices : i # d.index => m[i] = cs[i]
      /\ m[d.index].reasoning = IF IsText(d.reasoning) THEN Text(cs[d.index].reasoning) \o d.reasoning
                                                       ELSE cs[d.index].reasoning
      /\ m[d.index].finished = (cs[d.index].finished \/ d.finish)
  BY ZenonT(30), MergeDeltaIs
<1>3. CASE ~Display
  BY <1>3 DEF Step, Opened
<1>4. CASE Display
  <2>1. after = IF Closes(opened, d) THEN opened \ {d.index}
                ELSE IF Thinks(d) THEN opened \cup {d.index} ELSE opened
    BY <1>4, MirrorIs DEF Step
  <2> HIDE DEF m, after
  <2>2. after \subseteq Indices
    BY <1>1, <2>1 DEF Opened
  <2>3. ASSUME NEW i \in after PROVE Text(m[i].reasoning) # <<>> /\ ~m[i].finished
    <3>1. CASE i # d.index
      <4>1. i \in opened /\ m[i] = cs[i]
        BY <1>2, <2>1, <2>2, <3>1
      <4>2. QED BY <4>1 DEF Opened
    <3>2. CASE i = d.index
      <4>1. ~Closes(opened, d) /\ (Thinks(d) \/ d.index \in opened)
        BY <2>1, <3>2
      <4>2. ~d.finish /\ ~m[i].finished
        <5>1. ~d.finish
          BY <3>2, <4>1 DEF Closes, EndsBlock
        <5>2. ~cs[i].finished
          BY <3>2, <4>1 DEF Opened
        <5>3. QED BY <1>2, <3>2, <5>1, <5>2
      <4>3. Text(cs[i].reasoning) \in Seq(Segments) /\ (IsText(d.reasoning) => d.reasoning \in Seq(Segments))
        <5>1. cs[i].reasoning \in Fields
          BY <1>1, <3>2 DEF AreChoices, IsChoice
        <5>2. QED BY <1>1, <5>1, TextIs DEF Fields, IsText
      <4>4. Text(cs[i].reasoning) # <<>> \/ (IsText(d.reasoning) /\ d.reasoning # <<>>)
        BY <3>2, <4>1 DEF Opened, Thinks
      <4>5. CASE IsText(d.reasoning)
        <5>1. m[i].reasoning = Text(cs[i].reasoning) \o d.reasoning
          BY <1>2, <3>2, <4>5
        <5>2. \A s \in Seq(Segments), t \in Seq(Segments) : s # <<>> \/ t # <<>> => s \o t # <<>>
          OBVIOUS
        <5>3. m[i].reasoning # <<>> /\ m[i].reasoning \in Texts
          BY <4>3, <4>4, <4>5, <5>1, <5>2, TextIs
        <5>4. QED BY <4>2, <5>3, TextIs
      <4>6. CASE ~IsText(d.reasoning)
        <5>1. m[i].reasoning = cs[i].reasoning
          BY <1>2, <3>2, <4>6
        <5>2. QED BY <4>2, <4>4, <4>6, <5>1
      <4>7. QED BY <4>5, <4>6
    <3>3. QED BY <3>1, <3>2
  <2>4. Opened(m, after)
    BY <2>2, <2>3 DEF Opened
  <2>5. QED BY <1>4, <2>4 DEF m, after
<1>5. QED BY <1>3, <1>4

\* The text of a delta: the upstream's, or the notice and the upstream's.
Plain(u) == u \in Seq(Segments) \/ \E t \in Seq(Segments) : u = RecoveryNoticeContent \o t

\* Content of the upstream, with or without the notice, shows as it is.
LEMMA ShowsMore ==
    ASSUME CleanText, NEW w, NEW c, Shows(w, c, FALSE), NEW u, Plain(u)
    PROVE  Shows(w \o u, c \o u, FALSE)
<1>1. CASE u \in Seq(Segments)
  BY <1>1, ShowsText
<1>2. CASE \E t \in Seq(Segments) : u = RecoveryNoticeContent \o t
  <2>1. PICK t \in Seq(Segments) : u = RecoveryNoticeContent \o t
    BY <1>2
  <2> DEFINE All == Segments \cup {"notice", "nl", "open", "close"}
             n == RecoveryNoticeContent
  <2>2. w \in Seq(All) /\ c \in Seq(All) /\ n \in Seq(All) /\ t \in Seq(All)
    BY DEF Shows, Texts, RecoveryNoticeContent
  <2>3. w \o (n \o t) = (w \o n) \o t /\ c \o (n \o t) = (c \o n) \o t
    <3> HIDE DEF n, All
    <3>1. QED BY SMTT(30), <2>2
  <2>4. Shows((w \o n) \o t, (c \o n) \o t, FALSE)
    BY ShowsNotice, ShowsText
  <2>5. QED BY <2>1, <2>3, <2>4
<1>3. QED BY <1>1, <1>2 DEF Plain

\* A rewritten delta shows its text, and leaves a block open if the adapter does.
LEMMA MirrorShows ==
    ASSUME StreamAssumption, CleanText, NEW w, NEW c, NEW opened, NEW d \in Wires,
           Shows(w, c, d.index \in opened), Plain(Text(d.content))
    PROVE  Shows(w \o Text(Mirror(opened, d).delta.content), c \o Text(d.content),
                 d.index \in Mirror(opened, d).opened)
<1> DEFINE u == Text(d.content)
           A == Opening(opened, d)
           B == Thought(d)
           C == Closing(opened, d)
           All == Segments \cup {"notice", "nl", "open", "close"}
           inside == Thinks(d) \/ d.index \in opened
<1>0. Segments \subseteq All /\ "open" \in All /\ "close" \in All /\ Texts = Seq(All)
  BY DEF Texts
<1> HIDE DEF All
<1>1. A \in Seq(All) /\ B \in Seq(Segments) /\ B \in Seq(All) /\ C \in Seq(All)
      /\ Block(opened, d) = (A \o B) \o C
  BY <1>0, BlockParts
<1>2. /\ Text(Mirror(opened, d).delta.content) = ((A \o B) \o C) \o u
      /\ Mirror(opened, d).opened = IF Closes(opened, d) THEN opened \ {d.index}
                                    ELSE IF Thinks(d) THEN opened \cup {d.index} ELSE opened
      /\ u \in Seq(All)
  <2> HIDE DEF A, B, C
  <2>1. Text(Mirror(opened, d).delta.content) = Block(opened, d) \o Text(d.content)
    BY ZenonT(60), MirrorIs
  <2>2. Mirror(opened, d).opened = IF Closes(opened, d) THEN opened \ {d.index}
                                   ELSE IF Thinks(d) THEN opened \cup {d.index} ELSE opened
    BY ZenonT(60), MirrorIs
  <2>3. Text(d.content) \in Texts
    BY MirrorIs
  <2>4. QED BY <1>0, <1>1, <2>1, <2>2, <2>3
<1>1u. u \in Seq(All)
  BY <1>2
<1>3. w \in Seq(All) /\ c \in Seq(All)
  BY <1>0 DEF Shows
<1>p. /\ A = IF Thinks(d) /\ d.index \notin opened THEN <<"open">> ELSE <<>>
      /\ ~Thinks(d) => B = <<>>
      /\ C = IF Closes(opened, d) THEN <<"close">> ELSE <<>>
  BY DEF Opening, Thought, Closing
<1> HIDE DEF A, B, C, u
<1>4. w \o (((A \o B) \o C) \o u) = (((w \o A) \o B) \o C) \o u
  <2> DEFINE D == A \o B
             E == D \o C
  <2>1. D \in Seq(All)
    BY <1>1
  <2>2. w \o D = (w \o A) \o B
    <3>1. w \in Seq(All) /\ A \in Seq(All) /\ B \in Seq(All)
      BY <1>1, <1>3
    <3>2. QED BY ONLY SMTT(30), <3>1
  <2> HIDE DEF D
  <2>3. E \in Seq(All)
    BY <1>1, <2>1
  <2>4. w \o E = (w \o D) \o C
    <3>1. w \in Seq(All) /\ D \in Seq(All) /\ C \in Seq(All)
      BY <1>1, <1>3, <2>1
    <3>2. QED BY ONLY SMTT(30), <3>1
  <2> HIDE DEF E
  <2>5. w \o (E \o u) = (w \o E) \o u
    <3>1. w \in Seq(All) /\ E \in Seq(All) /\ u \in Seq(All)
      BY <1>1u, <1>3, <2>3
    <3>2. QED BY ONLY SMTT(30), <3>1
  <2>6. QED BY <2>2, <2>4, <2>5 DEF D, E
<1>5. \A x \in {"open", "close"} : w \o <<x>> = Append(w, x) /\ \A v \in Seq(All) : v \o <<x>> = Append(v, x)
  BY <1>3
<1>6. Shows(w \o A, c, inside)
  <2>1. CASE Thinks(d) /\ d.index \notin opened
    <3>1. A = <<"open">> /\ w \o A = Append(w, "open")
      BY <1>5, <1>p, <2>1
    <3>2. (d.index \in opened) = FALSE /\ inside = TRUE
      BY <2>1
    <3>3. Shows(w, c, FALSE)
      BY <3>2
    <3>4. Shows(Append(w, "open"), c, TRUE)
      BY <3>3, ShowsSegment
    <3>5. QED BY <3>1, <3>2, <3>4
  <2>2. CASE ~(Thinks(d) /\ d.index \notin opened)
    <3>0. A = <<>>
      BY <1>p, <2>2
    <3>1. w \o A = w
      BY <1>3, <3>0
    <3>2. inside <=> d.index \in opened
      BY <2>2
    <3>3. QED BY <3>1, <3>2
  <2>3. QED BY <2>1, <2>2
<1>7. (w \o A) \o B \in Seq(All) /\ (~inside => B = <<>>)
  BY <1>1, <1>3, <1>p
<1>8. Shows((w \o A) \o B, c, inside)
  <2>1. CASE inside
    <3>1. Shows((w \o A) \o B, c, TRUE)
      <4>1. Shows(w \o A, c, TRUE)
        BY <1>6, <2>1
      <4>2. QED BY <1>1, <4>1, ShowsText
    <3>2. QED BY <2>1, <3>1
  <2>2. CASE ~inside
    <3>1. (w \o A) \o B = w \o A
      BY <1>1, <1>3, <1>7, <2>2
    <3>2. QED BY <1>6, <3>1
  <2>3. QED BY <2>1, <2>2
<1>9. CASE inside /\ ~Closes(opened, d)
  <2>1. u = <<>> /\ C = <<>>
    BY <1>9, <1>p DEF Closes, EndsBlock, Text, u
  <2>2. (((w \o A) \o B) \o C) \o u = (w \o A) \o B /\ c \o u = c
    BY <1>3, <1>7, <2>1
  <2>3. d.index \in Mirror(opened, d).opened
    BY <1>2, <1>9
  <2>4. Shows((w \o A) \o B, c, TRUE)
    BY <1>8, <1>9
  <2>5. Shows(w \o (((A \o B) \o C) \o u), c \o u, TRUE)
    BY <1>4, <2>2, <2>4
  <2>6. (d.index \in Mirror(opened, d).opened) = TRUE
    BY <2>3
  <2>7. QED BY <1>2, <2>5, <2>6 DEF u
<1>10. CASE ~(inside /\ ~Closes(opened, d))
  <2>1. Shows(((w \o A) \o B) \o C, c, FALSE)
    <3>1. CASE Closes(opened, d)
      <4>1. inside /\ C = <<"close">>
        BY <1>p, <3>1 DEF Closes
      <4>2. ((w \o A) \o B) \o C = Append((w \o A) \o B, "close")
        BY <1>5, <1>7, <4>1
      <4>3. Shows((w \o A) \o B, c, TRUE)
        BY <1>8, <4>1
      <4>4. QED BY <4>2, <4>3, ShowsSegment
    <3>2. CASE ~Closes(opened, d)
      <4>1. ~inside /\ C = <<>>
        BY <1>10, <1>p, <3>2
      <4>2. ((w \o A) \o B) \o C = (w \o A) \o B
        BY <1>7, <4>1
      <4>3. Shows((w \o A) \o B, c, FALSE)
        BY <1>8, <4>1
      <4>4. QED BY <4>2, <4>3
    <3>3. QED BY <3>1, <3>2
  <2>2. Shows((((w \o A) \o B) \o C) \o u, c \o u, FALSE)
    BY <2>1, ShowsMore DEF u
  <2>3. d.index \notin Mirror(opened, d).opened
    BY <1>2, <1>10 DEF Closes
  <2>4. Shows(w \o (((A \o B) \o C) \o u), c \o u, FALSE)
    BY <1>4, <2>2
  <2>5. (d.index \in Mirror(opened, d).opened) = FALSE
    BY <2>3
  <2>6. QED BY <1>2, <2>4, <2>5 DEF u
<1>11. QED BY <1>9, <1>10

-----------------------------------------------------------------------------
(* The notice. *)

NoticeAt(content) == {j \in DOMAIN content : content[j] = "notice"}

\* The notices in a concatenation.
LEMMA NoticeJoin ==
    ASSUME NEW S, NEW s \in Seq(S), NEW t \in Seq(S)
    PROVE  NoticeAt(s \o t) = NoticeAt(s) \cup {Len(s) + j : j \in NoticeAt(t)}
<1>1. /\ s \o t \in Seq(S) /\ Len(s \o t) = Len(s) + Len(t) /\ Len(s) \in Nat /\ Len(t) \in Nat
      /\ \A j \in 1..Len(s) : (s \o t)[j] = s[j]
      /\ \A j \in (Len(s) + 1)..(Len(s) + Len(t)) : (s \o t)[j] = t[j - Len(s)]
  BY JoinIs
<1> DEFINE all == s \o t
<1>2. DOMAIN all = 1..(Len(s) + Len(t)) /\ DOMAIN s = 1..Len(s) /\ DOMAIN t = 1..Len(t)
  BY <1>1
<1> HIDE DEF all
<1>3. ASSUME NEW j \in NoticeAt(all) PROVE j \in NoticeAt(s) \cup {Len(s) + k : k \in NoticeAt(t)}
  <2>1. j \in 1..(Len(s) + Len(t)) /\ all[j] = "notice"
    BY <1>2 DEF NoticeAt
  <2>2. CASE j <= Len(s)
    <3>1. j \in 1..Len(s) /\ s[j] = "notice"
      BY <1>1, <2>1, <2>2 DEF all
    <3>2. QED BY <1>2, <3>1 DEF NoticeAt
  <2>3. CASE j > Len(s)
    <3>1. j - Len(s) \in 1..Len(t) /\ t[j - Len(s)] = "notice" /\ j = Len(s) + (j - Len(s))
      BY <1>1, <2>1, <2>3 DEF all
    <3>2. j - Len(s) \in NoticeAt(t)
      BY <1>2, <3>1 DEF NoticeAt
    <3>3. QED BY <3>1, <3>2
  <2>4. j <= Len(s) \/ j > Len(s)
    BY <1>1, <2>1
  <2>5. QED BY <2>2, <2>3, <2>4
<1>4. NoticeAt(s) \subseteq NoticeAt(all)
  BY <1>1, <1>2 DEF NoticeAt, all
<1>5. ASSUME NEW k \in NoticeAt(t) PROVE Len(s) + k \in NoticeAt(all)
  <2>1. k \in 1..Len(t) /\ t[k] = "notice"
    BY <1>2 DEF NoticeAt
  <2>2. Len(s) + k \in (Len(s) + 1)..(Len(s) + Len(t)) /\ (Len(s) + k) - Len(s) = k
    BY <1>1, <2>1
  <2>3. all[Len(s) + k] = "notice" /\ Len(s) + k \in DOMAIN all
    BY <1>1, <1>2, <2>1, <2>2 DEF all
  <2>4. QED BY <2>3 DEF NoticeAt
<1>6. QED BY <1>3, <1>4, <1>5 DEF all

\* Text without the notice adds none, and the notice is one.
LEMMA NoticeCounts ==
    ASSUME StreamAssumption, CleanText, NEW w \in Texts, NEW opened, NEW d \in Wires
    PROVE  LET b == w \o Block(opened, d)
           IN  /\ NoticeAt(w \o (Block(opened, d) \o Text(d.content))) = NoticeAt(b \o Text(d.content))
               /\ NoticeAt(b) = NoticeAt(w) /\ b \in Texts
<1> DEFINE block == Block(opened, d)
           All == Segments \cup {"notice", "nl", "open", "close"}
           Q == Segments \cup {"open", "close"}
<1>1. w \in Seq(All) /\ block \in Seq(All) /\ Text(d.content) \in Seq(All)
  BY MirrorIs DEF Texts
<1>5. block \in Seq(Q)
  BY BlockParts
<1> HIDE DEF block
<1>6. NoticeAt(block) = {}
  <2>1. \A x \in Q : x # "notice"
    BY DEF CleanText
  <2>2. QED BY <1>5, <2>1 DEF NoticeAt
<1>7. NoticeAt(w \o block) = NoticeAt(w) /\ w \o block \in Seq(All)
  <2>1. NoticeAt(w \o block) = NoticeAt(w) \cup {Len(w) + j : j \in NoticeAt(block)}
    BY <1>1, NoticeJoin
  <2>2. QED BY <1>1, <1>6, <2>1
<1>8. w \o (block \o Text(d.content)) = (w \o block) \o Text(d.content)
  <2> DEFINE v == Text(d.content)
  <2> HIDE DEF v, All
  <2>1. w \o (block \o v) = (w \o block) \o v
    BY <1>1 DEF v
  <2>2. QED BY <2>1 DEF v
<1>9. QED BY <1>7, <1>8 DEF block, Texts

-----------------------------------------------------------------------------
(* A line, delta by delta. *)

\* How the deltas of a chunk are rewritten.
Rewritten(opened, s) == IF Display THEN FoldLeft(Rewrite, [opened |-> opened, out |-> <<>>], s)
                                   ELSE [opened |-> opened, out |-> s]

\* Delta by delta: what the proxy accumulates, what the client has assembled
\* once it has the rewritten delta, and the choices inside a block.
IsPassage(cs0, w0, opened0, s, cs, w, op) ==
    /\ cs[0] = cs0 /\ w[0] = w0 /\ op[0] = opened0
    /\ \A n \in 1..Len(s) : /\ cs[n] = MergeDelta(cs[n - 1], s[n])
                            /\ op[n] = Step(op[n - 1], s[n]).opened
                            /\ w[n] = MergeDelta(w[n - 1], Step(op[n - 1], s[n]).delta)

HasPassage(cs0, w0, opened0, s) ==
    \E cs, w, op : /\ IsPassage(cs0, w0, opened0, s, cs, w, op)
                   /\ cs[Len(s)] = IngestChunk(cs0, s)
                   /\ op[Len(s)] = Rewritten(opened0, s).opened
                   /\ w[Len(s)] = IngestChunk(w0, Rewritten(opened0, s).out)

\* Joining one element is appending it.
LEMMA JoinOne ==
    ASSUME NEW S, NEW s \in Seq(S), NEW x \in S
    PROVE  s \o <<x>> = Append(s, x) /\ Append(s, x) \in Seq(S) /\ <<x>> \in Seq(S) /\ <<>> \in Seq(S)
OBVIOUS

\* A chunk has a passage, and its end is what the folds compute.
LEMMA Passages ==
    ASSUME StreamAssumption, NEW s \in Seq(Wires), NEW opened0, NEW cs0, NEW w0
    PROVE  /\ Rewritten(opened0, s).out \in Seq(Wires)
           /\ HasPassage(cs0, w0, opened0, s)
<1>1. Len(s) \in Nat /\ \A n \in 1..Len(s) : s[n] \in Wires
  OBVIOUS
<1>2. PICK cs : MergeRun(cs0, s, cs) /\ IngestChunk(cs0, s) = cs[Len(s)]
  BY MergeRuns DEF IngestChunk
<1>j. \A v : \A a \in Seq(Wires), b \in Seq(Wires) :
         IngestChunk(v, a \o b) = IngestChunk(IngestChunk(v, a), b)
  BY IngestJoin
<1>3. CASE ~Display
  <2>1. PICK w : MergeRun(w0, s, w) /\ IngestChunk(w0, s) = w[Len(s)]
    BY MergeRuns DEF IngestChunk
  <2> DEFINE op == [n \in 0..Len(s) |-> opened0]
  <2>2. \A o, d : Step(o, d) = [opened |-> o, delta |-> d]
    BY <1>3 DEF Step
  <2>3. Rewritten(opened0, s) = [opened |-> opened0, out |-> s]
    BY <1>3 DEF Rewritten
  <2>4. op[0] = opened0 /\ op[Len(s)] = opened0 /\ \A n \in 1..Len(s) : op[n] = op[n - 1]
    BY <1>1
  <2> HIDE DEF op
  <2>5. IsPassage(cs0, w0, opened0, s, cs, w, op)
    BY <1>2, <2>1, <2>2, <2>4 DEF IsPassage, MergeRun
  <2>6. HasPassage(cs0, w0, opened0, s)
    BY <1>2, <2>1, <2>3, <2>4, <2>5 DEF HasPassage
  <2>7. QED BY <2>3, <2>6
<1>4. CASE Display
  <2> DEFINE base == [opened |-> opened0, out |-> <<>>]
  <2>1. PICK run : RewriteRun(base, s, run) /\ FoldLeft(Rewrite, base, s) = run[Len(s)]
    BY RewriteRuns
  <2> DEFINE w == [n \in 0..Len(s) |-> IngestChunk(w0, run[n].out)]
             op == [n \in 0..Len(s) |-> run[n].opened]
             T == {n \in 0..Len(s) : run[n].out \in Seq(Wires)}
  <2>2. Rewritten(opened0, s) = run[Len(s)] /\ run[0].out = <<>> /\ run[0].opened = opened0
    BY <1>4, <2>1 DEF Rewritten, RewriteRun
  <2>3. ASSUME NEW n \in 1..Len(s)
        PROVE  /\ run[n].opened = Step(run[n - 1].opened, s[n]).opened
               /\ run[n].out = Append(run[n - 1].out, Step(run[n - 1].opened, s[n]).delta)
    <3>1. \A r, d : Rewrite(r, d) = [opened |-> Mirror(r.opened, d).opened,
                                    out    |-> Append(r.out, Mirror(r.opened, d).delta)]
      BY DEF Rewrite
    <3>2. \A o, d : Step(o, d) = Mirror(o, d)
      BY <1>4 DEF Step
    <3> HIDE DEF base
    <3>3. run[n] = Rewrite(run[n - 1], s[n])
      BY <2>1 DEF RewriteRun
    <3>4. QED BY <3>1, <3>2, <3>3
  <2>4. ASSUME NEW o, NEW d \in Wires PROVE Step(o, d).delta \in Wires
    BY <1>4, MirrorIs DEF Step
  <2>5. 0 \in T
    <3>1. <<>> \in Seq(Wires) /\ 0 \in 0..Len(s)
      BY <1>1
    <3>2. QED BY <2>2, <3>1
  <2>6. ASSUME NEW n \in 1..Len(s), n - 1 \in T PROVE n \in T
    <3>1. run[n - 1].out \in Seq(Wires) /\ Step(run[n - 1].opened, s[n]).delta \in Wires
      BY <1>1, <2>4, <2>6
    <3> DEFINE a == run[n - 1].out
               d == Step(run[n - 1].opened, s[n]).delta
    <3>2. run[n].out = Append(a, d)
      BY <2>3
    <3>3. Append(a, d) \in Seq(Wires)
      <4> HIDE DEF a, d
      <4>1. a \in Seq(Wires) /\ d \in Wires
        BY <3>1 DEF a, d
      <4>2. QED BY <4>1
    <3> HIDE DEF a, d
    <3>4. run[n].out \in Seq(Wires)
      BY <3>2, <3>3
    <3>5. QED BY <1>1, <3>4
  <2>7. \A n \in 0..Len(s) : run[n].out \in Seq(Wires)
    <3> HIDE DEF T
    <3>1. \A n \in 0..Len(s) : n \in T
      BY <1>1, <2>5, <2>6, InductionTo
    <3>2. QED BY <3>1 DEF T
  <2>8. ASSUME NEW n \in 1..Len(s)
        PROVE  w[n] = MergeDelta(w[n - 1], Step(run[n - 1].opened, s[n]).delta)
    <3> DEFINE so == run[n - 1].out
               d == Step(run[n - 1].opened, s[n]).delta
    <3>1. so \in Seq(Wires) /\ d \in Wires /\ run[n].out = Append(so, d)
      <4>1. n - 1 \in 0..Len(s) /\ s[n] \in Wires
        BY <1>1
      <4>2. QED BY <2>3, <2>4, <2>7, <4>1
    <3> HIDE DEF so, d
    <3>2. run[n].out = so \o <<d>> /\ <<d>> \in Seq(Wires)
      BY <3>1, JoinOne
    <3>3. IngestChunk(w0, run[n].out) = MergeDelta(IngestChunk(w0, so), d)
      <4>1. IngestChunk(w0, so \o <<d>>) = IngestChunk(IngestChunk(w0, so), <<d>>)
        <5>1. so \in Seq(Wires) /\ <<d>> \in Seq(Wires)
          BY <3>1, <3>2
        <5>2. QED BY ONLY ZenonT(30), <1>j, <5>1
      <4>2. QED BY <3>2, <4>1, IngestOne
    <3>4. w[n] = IngestChunk(w0, run[n].out) /\ w[n - 1] = IngestChunk(w0, so)
      BY <1>1 DEF so
    <3>5. QED BY <3>3, <3>4 DEF d
  <2>9. w[0] = w0 /\ op[0] = opened0
    <3>1. 0 \in 0..Len(s)
      BY <1>1
    <3>2. IngestChunk(w0, <<>>) = w0
      <4> HIDE DEF w, op, T, base
      <4>1. QED BY IngestOne
    <3>3. QED BY <2>2, <3>1, <3>2
  <2>10. /\ \A n \in 1..Len(s) : op[n] = run[n].opened /\ op[n - 1] = run[n - 1].opened
         /\ op[Len(s)] = run[Len(s)].opened /\ w[Len(s)] = IngestChunk(w0, run[Len(s)].out)
    BY <1>1
  <2> HIDE DEF w, op
  <2>11. IsPassage(cs0, w0, opened0, s, cs, w, op)
    BY <1>2, <2>3, <2>8, <2>9, <2>10 DEF IsPassage, MergeRun
  <2>12. Rewritten(opened0, s).out \in Seq(Wires)
    BY <1>1, <2>2, <2>7
  <2>13. HasPassage(cs0, w0, opened0, s)
    BY <1>2, <2>2, <2>10, <2>11 DEF HasPassage
  <2>14. QED BY <2>12, <2>13
<1>5. QED BY <1>3, <1>4

\* The notice goes to delta pos of a chunk, which becomes s, or to none.
NoticeGoes(chunk, s, pos) ==
    /\ s # chunk <=> pos \in 1..Len(s) /\ notice # <<>>
    /\ \A n \in 1..Len(s) :
          IF n = pos /\ notice # <<>>
          THEN \E t \in Seq(Segments) : s[n].content = RecoveryNoticeContent \o t
          ELSE /\ s[n].content \in Fields
               /\ n < pos => ~Carries(s[n])

HasNoticeGone(chunk, s) == \E pos \in 1..(Len(s) + 1) : NoticeGoes(chunk, s, pos)

\* The chunk with the notice: the first delta that carries anything gets it.
LEMMA InjectedIs ==
    ASSUME StreamAssumption, NEW chunk \in Chunks, notice \in {<<>>, RecoveryNoticeContent}
    PROVE  LET s == InjectRecoveryNotice(chunk)
           IN  /\ s \in Seq(Wires) /\ Len(s) = Len(chunk)
               /\ \A n \in 1..Len(s) : s[n].index = chunk[n].index /\ s[n].finish = chunk[n].finish
               /\ HasNoticeGone(chunk, s)
<1> DEFINE s == InjectRecoveryNotice(chunk)
           I == {n \in 1..Len(chunk) : Carries(chunk[n])}
           i == SelectInSeq(chunk, Carries)
<1>1. chunk \in Seq(Wires) /\ (\A n \in 1..Len(chunk) : chunk[n].content \in Fields)
  BY ChunkIs
<1>2. Len(chunk) \in Nat /\ \A n \in 1..Len(chunk) : chunk[n] \in Wires
  BY <1>1
<1>3. i = IF I # {} THEN Min(I) ELSE 0
  BY DEF SelectInSeq
<1>4. /\ I = {} => i = 0
      /\ I # {} => i \in I /\ \A n \in I : i <= n
  <2>1. I \subseteq Nat
    OBVIOUS
  <2>2. ASSUME I # {} PROVE Min(I) \in I /\ \A n \in I : Min(I) <= n
    <3> HIDE DEF I
    <3>1. \E x \in I : \A y \in I : x <= y
      BY <2>1, <2>2, LeastNatural
    <3>2. QED BY <3>1 DEF Min
  <2>3. QED BY <1>3, <2>2
<1> HIDE DEF i, I
<1>5. CASE notice = <<>> \/ I = {}
  <2>1. s = chunk
    BY <1>4, <1>5 DEF InjectRecoveryNotice, i
  <2> DEFINE pos == IF I = {} THEN Len(chunk) + 1 ELSE i
  <2>2. pos \in 1..(Len(chunk) + 1) /\ (notice = <<>> \/ pos = Len(chunk) + 1)
    BY <1>2, <1>4, <1>5 DEF I
  <2>3. \A n \in 1..Len(chunk) : n < pos => ~Carries(chunk[n])
    <3>1. CASE I = {}
      BY <3>1 DEF I
    <3>2. CASE I # {}
      <4>1. \A n \in 1..Len(chunk) : n < i => n \notin I
        BY <1>2, <1>4, <3>2 DEF I
      <4>2. QED BY <3>2, <4>1 DEF I
    <3>3. QED BY <3>1, <3>2
  <2> HIDE DEF pos, s
  <2>4. pos \in 1..Len(chunk) => notice = <<>>
    BY <1>2, <2>2
  <2>5. \A n \in 1..Len(chunk) : ~(n = pos /\ notice # <<>>)
    BY <2>4
  <2>6. NoticeGoes(chunk, s, pos)
    BY <1>1, <1>2, <2>1, <2>3, <2>4, <2>5 DEF NoticeGoes
  <2>7. HasNoticeGone(chunk, s)
    BY <2>1, <2>2, <2>6 DEF HasNoticeGone
  <2>8. QED BY <1>1, <1>2, <2>1, <2>7 DEF s
<1>6. CASE notice # <<>> /\ I # {}
  <2>1. /\ i \in 1..Len(chunk) /\ Carries(chunk[i]) /\ notice = RecoveryNoticeContent
        /\ \A n \in 1..Len(chunk) : n < i => ~Carries(chunk[n])
    <3>1. \A n \in 1..Len(chunk) : n < i => n \notin I
      BY <1>2, <1>4, <1>6 DEF I
    <3>2. QED BY <1>4, <1>6, <3>1 DEF I
  <2>2. s = [chunk EXCEPT ![i].content = notice \o Text(@)]
    BY <1>2, <1>6, <2>1 DEF InjectRecoveryNotice, i
  <2> DEFINE t == Text(chunk[i].content)
             new == notice \o t
  <2>3. t \in Seq(Segments) /\ t \in Texts
    BY <1>1, <2>1, TextIs
  <2>4. new \in Texts /\ new # t /\ RecoveryNoticeContent \in Texts
    <3>1. RecoveryNoticeContent \in Texts
      BY DEF RecoveryNoticeContent, Texts
    <3>2. new \in Texts
      BY <2>1, <2>3, <3>1, TextIs
    <3> HIDE DEF t
    <3>3. Len(new) = Len(t) + 2
      BY <2>1, <2>3 DEF RecoveryNoticeContent, Texts
    <3>4. QED BY <2>3, <3>1, <3>2, <3>3
  <2>5. new # chunk[i].content
    <3>1. chunk[i].content \in Texts => chunk[i].content = t
      BY TextIs
    <3>2. QED BY <2>4, <3>1
  <2> HIDE DEF new, t
  <2>6. s = [chunk EXCEPT ![i] = [chunk[i] EXCEPT !.content = new]]
    BY <2>2 DEF new, t
  <2>7. [chunk[i] EXCEPT !.content = new] \in Wires
    BY <1>2, <2>1, <2>4 DEF Wires
  <2> DEFINE d == [chunk[i] EXCEPT !.content = new]
  <2>8. d.content = new /\ d.index = chunk[i].index /\ d.finish = chunk[i].finish
    BY <1>2, <2>1 DEF Wires
  <2> HIDE DEF d, s
  <2>9. s = [chunk EXCEPT ![i] = d] /\ d \in Wires
    BY <2>6, <2>7 DEF d
  <2>10. s \in Seq(Wires) /\ Len(s) = Len(chunk) /\ s[i] = d
         /\ \A n \in 1..Len(s) : n # i => s[n] = chunk[n]
    BY <1>1, <2>1, <2>9
  <2>11. s # chunk
    BY <2>5, <2>8, <2>10
  <2>12. \A n \in 1..Len(s) : IF n = i /\ notice # <<>>
                           THEN \E q \in Seq(Segments) : s[n].content = RecoveryNoticeContent \o q
                           ELSE /\ s[n].content \in Fields
                                /\ n < i => ~Carries(s[n])
    BY <1>1, <1>6, <2>1, <2>3, <2>8, <2>10 DEF new
  <2>13. \A n \in 1..Len(s) : s[n].index = chunk[n].index /\ s[n].finish = chunk[n].finish
    BY <2>8, <2>10
  <2>14. i \in 1..(Len(s) + 1) /\ i \in 1..Len(s)
    BY <1>2, <2>1, <2>10
  <2>15. NoticeGoes(chunk, s, i)
    BY <1>6, <2>11, <2>12, <2>14 DEF NoticeGoes
  <2>16. HasNoticeGone(chunk, s)
    BY <2>14, <2>15 DEF HasNoticeGone
  <2>17. QED BY <2>10, <2>13, <2>16 DEF s
<1>7. QED BY <1>5, <1>6

====
