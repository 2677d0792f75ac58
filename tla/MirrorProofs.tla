------------------------------ MODULE MirrorProofs ------------------------------
(***************************************************************************)
(* What the client of a streamed answer has, and what of it is found in    *)
(* the cache, in every behaviour of Stream.                                *)
(***************************************************************************)
EXTENDS StreamProofs, FiniteSetTheorems

-----------------------------------------------------------------------------
(* Sets as sequences. *)

\* An injection from 1..Cardinality(S) into S reaches every element.
LEMMA Enumerates ==
    ASSUME NEW S, IsFiniteSet(S), NEW f \in [1..Cardinality(S) -> S],
           \A a, b \in 1..Cardinality(S) : f[a] = f[b] => a = b
    PROVE  Cardinality(S) \in Nat /\ \A x \in S : \E n \in 1..Cardinality(S) : f[n] = x
<1> DEFINE N == Cardinality(S)
           T == {f[n] : n \in 1..N}
<1>1. N \in Nat
  BY FS_CardinalityType
<1> HIDE DEF N
<1>2. f \in Bijection(1..N, T)
  <2>1. f \in [1..N -> T]
    BY DEF N
  <2>2. \A a, b \in 1..N : f[a] = f[b] => a = b
    BY DEF N
  <2>3. QED BY <2>1, <2>2 DEF Bijection, Injection, Surjection, IsInjective
<1>3. Cardinality(T) = N
  BY <1>1, <1>2, FS_CountingElements DEF ExistsBijection
<1>4. T \in SUBSET S
  BY DEF N
<1>5. T = S
  BY <1>3, <1>4, FS_Subset DEF N
<1>6. QED BY <1>1, <1>5 DEF N

\* SetToSeq enumerates a finite set, each element once.
LEMMA SetToSeqIs ==
    ASSUME NEW S, IsFiniteSet(S)
    PROVE  /\ SetToSeq(S) \in Seq(S) /\ DOMAIN SetToSeq(S) = 1..Cardinality(S)
           /\ \A x \in S : \E n \in DOMAIN SetToSeq(S) : SetToSeq(S)[n] = x
           /\ \A a, b \in DOMAIN SetToSeq(S) : SetToSeq(S)[a] = SetToSeq(S)[b] => a = b
<1>1. PICK n \in Nat : ExistsBijection(1..n, S)
  BY FS_NatBijection
<1>2. Cardinality(S) = n
  BY <1>1, FS_CountingElements
<1>3. \E f \in [1..Cardinality(S) -> S] : IsInjective(f)
  BY <1>1, <1>2 DEF ExistsBijection, Bijection, Injection, IsInjective
<1> DEFINE f == SetToSeq(S)
<1>4. f \in [1..Cardinality(S) -> S] /\ IsInjective(f)
  BY <1>3 DEF SetToSeq
<1> HIDE DEF f
<1>5. f \in Seq(S) /\ DOMAIN f = 1..Cardinality(S)
  BY <1>1, <1>2, <1>4
<1>6. \A a, b \in 1..Cardinality(S) : f[a] = f[b] => a = b
  BY <1>4, <1>5 DEF IsInjective
<1>7. QED BY <1>4, <1>5, <1>6, Enumerates DEF f

\* [DONE] closes the blocks that are open, each once.
LEMMA FlushIs ==
    ASSUME StreamAssumption, open \subseteq Indices
    PROVE  /\ FlushChunk \in Seq({ContentDelta(i, <<"close">>) : i \in open})
           /\ \A i \in open : \E n \in DOMAIN FlushChunk : FlushChunk[n] = ContentDelta(i, <<"close">>)
           /\ \A a, b \in DOMAIN FlushChunk : FlushChunk[a] = FlushChunk[b] => a = b
<1> DEFINE S == {ContentDelta(i, <<"close">>) : i \in open}
           F == [i \in open |-> ContentDelta(i, <<"close">>)]
<1>1. IsFiniteSet(open)
  BY FS_Subset DEF StreamAssumption
<1>2. F \in Bijection(open, S)
  BY DEF Bijection, Injection, Surjection, IsInjective, ContentDelta
<1>3. IsFiniteSet(S)
  BY <1>1, <1>2, FS_Bijection DEF ExistsBijection
<1>4. FlushChunk = SetToSeq(S)
  BY DEF FlushChunk
<1> HIDE DEF S
<1>5. /\ FlushChunk \in Seq(S)
      /\ \A x \in S : \E n \in DOMAIN FlushChunk : FlushChunk[n] = x
      /\ \A a, b \in DOMAIN FlushChunk : FlushChunk[a] = FlushChunk[b] => a = b
  BY <1>3, <1>4, SetToSeqIs
<1>6. QED BY <1>5 DEF S

\* A delta need not have tool calls.
LEMMA NoPieces == <<>> \in Seq(Pieces) /\ \A i : <<>> \in Seq(PiecesOf(i))
OBVIOUS

\* The deltas the proxy makes up have text for content and nothing else.
LEMMA MadeUp ==
    ASSUME StreamAssumption, open \subseteq Indices, notice \in {<<>>, RecoveryNoticeContent}
    PROVE  FlushChunk \in Seq(Wires) /\ RecoveryNoticeChunk \in Seq(Wires)
<1>1. ASSUME NEW i \in Indices, NEW content \in Texts PROVE ContentDelta(i, content) \in Wires
  BY NoPieces DEF ContentDelta, Wires, Fields
<1>2. <<"close">> \in Texts /\ RecoveryNoticeContent \in Texts
  BY DEF RecoveryNoticeContent, Texts
<1>3. {ContentDelta(i, <<"close">>) : i \in open} \subseteq Wires
  BY <1>1, <1>2
<1>4. FlushChunk \in Seq(Wires)
  BY <1>3, FlushIs
<1>5. notice # <<>> => ContentDelta(0, notice) \in Wires
  BY <1>1, <1>2 DEF StreamAssumption
<1>6. QED BY <1>4, <1>5 DEF RecoveryNoticeChunk

-----------------------------------------------------------------------------
(* Types. *)

\* Until the end of the chunk nothing is finished that has more deltas in it.
Onward(s, cs, n) == \A j \in (n + 1)..Len(s) : ~cs[s[j].index].finished

\* When a delta has been merged, the later ones are still for choices that have
\* not ended.
LEMMA OnwardStep ==
    ASSUME StreamAssumption, NEW s \in Seq(Wires),
           \A i, j \in DOMAIN s : i < j /\ s[i].finish => s[j].index # s[i].index,
           NEW n \in 1..Len(s), NEW cs, AreChoices(cs), Onward(s, cs, n - 1)
    PROVE  Onward(s, MergeDelta(cs, s[n]), n) /\ ~cs[s[n].index].finished
<1> DEFINE m == MergeDelta(cs, s[n])
<1>1. Len(s) \in Nat /\ DOMAIN s = 1..Len(s) /\ \A j \in 1..Len(s) : s[j] \in Wires /\ s[j].index \in Indices
  <2>1. \A d \in Wires : d.index \in Indices
    BY DEF Wires
  <2>2. QED BY <2>1
<1>2. /\ \A i \in Indices : i # s[n].index => m[i] = cs[i]
      /\ m[s[n].index].finished = (cs[s[n].index].finished \/ s[n].finish)
  <2>1. s[n] \in Wires
    BY <1>1
  <2>2. QED BY ONLY ZenonT(40), StreamAssumption, AreChoices(cs), <2>1, MergeDeltaIs
<1> HIDE DEF m
<1>3. ~cs[s[n].index].finished
  BY <1>1 DEF Onward
<1>4. ASSUME NEW j \in (n + 1)..Len(s) PROVE ~m[s[j].index].finished
  <2>1. j \in 1..Len(s) /\ n \in 1..Len(s) /\ n < j /\ j \in ((n - 1) + 1)..Len(s)
    BY <1>1
  <2>2. ~cs[s[j].index].finished
    BY <2>1 DEF Onward
  <2>3. CASE s[j].index = s[n].index
    <3>1. ~s[n].finish
      BY <1>1, <2>1, <2>3
    <3>2. QED BY <1>2, <2>2, <2>3, <3>1
  <2>4. CASE s[j].index # s[n].index
    BY <1>1, <1>2, <2>1, <2>2, <2>4
  <2>5. QED BY <2>3, <2>4
<1>5. QED BY <1>3, <1>4 DEF Onward, m

\* A chunk that may arrive: the upstream has finished none of its choices.
LEMMA ArrivesIs ==
    ASSUME StreamAssumption, NEW chunk \in Chunks, notice \in {<<>>, RecoveryNoticeContent},
           \A i \in DOMAIN chunk : ~choices[chunk[i].index].finished
    PROVE  LET s == InjectRecoveryNotice(chunk)
           IN  /\ s \in Seq(Wires) /\ Onward(s, choices, 0)
               /\ \A i, j \in DOMAIN s : i < j /\ s[i].finish => s[j].index # s[i].index
<1> DEFINE s == InjectRecoveryNotice(chunk)
<1>1. /\ s \in Seq(Wires) /\ Len(s) = Len(chunk)
      /\ \A n \in 1..Len(s) : s[n].index = chunk[n].index /\ s[n].finish = chunk[n].finish
  BY InjectedIs
<1>2. chunk \in Seq(Wires)
  BY ChunkIs
<1> HIDE DEF s
<1>3. DOMAIN s = 1..Len(s) /\ DOMAIN chunk = 1..Len(s)
  BY <1>1, <1>2
<1>4. \A i, j \in DOMAIN chunk : i < j /\ chunk[i].finish => chunk[j].index # chunk[i].index
  BY DEF StreamAssumption
<1>5. \A j \in (0 + 1)..Len(s) : j \in 1..Len(s)
  OBVIOUS
<1>6. QED BY <1>1, <1>3, <1>4, <1>5 DEF Onward, s

\* What the choices are after a chunk, and which of them are inside a block.
LEMMA ArrivedTypes ==
    ASSUME StreamAssumption, NEW s \in Seq(Wires),
           \A i, j \in DOMAIN s : i < j /\ s[i].finish => s[j].index # s[i].index,
           NEW cs0, AreChoices(cs0), Onward(s, cs0, 0),
           NEW opened0, Opened(cs0, opened0), ~Display => opened0 = {}
    PROVE  /\ AreChoices(IngestChunk(cs0, s))
           /\ Opened(IngestChunk(cs0, s), Rewritten(opened0, s).opened)
           /\ ~Display => Rewritten(opened0, s).opened = {}
           /\ Rewritten(opened0, s).out \in Seq(Wires)
<1>1. PICK cs, w, op : /\ IsPassage(cs0, cs0, opened0, s, cs, w, op)
                       /\ cs[Len(s)] = IngestChunk(cs0, s)
                       /\ op[Len(s)] = Rewritten(opened0, s).opened
  <2>1. HasPassage(cs0, cs0, opened0, s)
    BY Passages
  <2>2. QED BY <2>1 DEF HasPassage
<1>2. Rewritten(opened0, s).out \in Seq(Wires)
  BY Passages
<1> DEFINE P(n) == /\ AreChoices(cs[n]) /\ Opened(cs[n], op[n])
                   /\ ~Display => op[n] = {}
                   /\ Onward(s, cs[n], n)
           T == {n \in 0..Len(s) : P(n)}
<1>3. Len(s) \in Nat /\ \A n \in 1..Len(s) : s[n] \in Wires
  OBVIOUS
<1>4. 0 \in T
  BY <1>1, <1>3 DEF IsPassage
<1>5. ASSUME NEW n \in 1..Len(s), n - 1 \in T PROVE n \in T
  <2>1. P(n - 1)
    BY <1>5
  <2>2. cs[n] = MergeDelta(cs[n - 1], s[n]) /\ op[n] = Step(op[n - 1], s[n]).opened
    BY <1>1 DEF IsPassage
  <2>3. AreChoices(cs[n])
    <3>1. AreChoices(cs[n - 1]) /\ s[n] \in Wires
      BY <1>3, <2>1
    <3>2. AreChoices(MergeDelta(cs[n - 1], s[n]))
      BY <3>1, MergeDeltaIs
    <3>3. QED BY <2>2, <3>2
  <2>4. Onward(s, cs[n], n) /\ ~cs[n - 1][s[n].index].finished
    BY <2>1, <2>2, OnwardStep
  <2>5. Opened(cs[n], op[n]) /\ (~Display => op[n] = {})
    BY <1>3, <2>1, <2>2, <2>4, OpenedStep
  <2>6. n \in 0..Len(s)
    BY <1>3
  <2>7. QED BY <2>3, <2>4, <2>5, <2>6
<1>6. Len(s) \in T
  <2> HIDE DEF T
  <2>1. \A n \in 0..Len(s) : n \in T
    BY <1>3, <1>4, <1>5, InductionTo
  <2>2. QED BY <1>3, <2>1
<1>7. QED BY <1>1, <1>2, <1>6

\* A recording raises stages and does not touch anything else.
LEMMA StoreStages ==
    ASSUME stored \in [Indices \X Contexts -> 0..2], NEW cs, NEW stage \in [Indices -> 0..2],
           Store(cs, stage)
    PROVE  /\ stored' \in [Indices \X Contexts -> 0..2]
           /\ \A p \in Indices \X Contexts :
                 stored'[p] = IF cs[p[1]].reasoning # Absent /\ stage[p[1]] > stored[p]
                              THEN stage[p[1]] ELSE stored[p]
<1> DEFINE due == {p \in Indices \X Contexts : cs[p[1]].reasoning # Absent /\ stage[p[1]] > stored[p]}
<1>1. stored' = [p \in Indices \X Contexts |-> IF p \in due THEN stage[p[1]] ELSE stored[p]]
  BY DEF Store
<1>2. \A p \in Indices \X Contexts : p[1] \in Indices
  OBVIOUS
<1>3. QED BY <1>1, <1>2

\* The stages a recording asks for are stages.
LEMMA Stages ==
    /\ \A cs : [i \in Indices |-> ReadyStage(cs[i])] \in [Indices -> 0..2]
    /\ FinalStage \in [Indices -> 0..2]
BY DEF ReadyStage, FinalStage

Types == /\ AreChoices(choices) /\ AreChoices(client)
         /\ line \in Seq(Wires) /\ buffer \in Seq(Wires)
         /\ notice \in {<<>>, RecoveryNoticeContent}
         /\ Opened(choices, open) /\ (~Display => open = {})

TypeInv == TypeOK /\ Types

\* Ingesting deltas keeps the choices well formed.
LEMMA IngestTypes ==
    ASSUME StreamAssumption, NEW cs, AreChoices(cs), NEW s \in Seq(Wires)
    PROVE  AreChoices(IngestChunk(cs, s))
<1>1. PICK run : MergeRun(cs, s, run) /\ IngestChunk(cs, s) = run[Len(s)]
  BY MergeRuns DEF IngestChunk
<1> DEFINE T == {n \in 0..Len(s) : AreChoices(run[n])}
<1>2. Len(s) \in Nat
  OBVIOUS
<1>3. 0 \in T
  BY <1>1, <1>2 DEF MergeRun
<1>4. ASSUME NEW n \in 1..Len(s), n - 1 \in T PROVE n \in T
  <2>1. run[n] = MergeDelta(run[n - 1], s[n]) /\ AreChoices(run[n - 1]) /\ s[n] \in Wires /\ n \in 0..Len(s)
    BY <1>1, <1>2, <1>4 DEF MergeRun
  <2>2. AreChoices(MergeDelta(run[n - 1], s[n]))
    BY <2>1, MergeDeltaIs
  <2>3. QED BY <2>1, <2>2
<1> HIDE DEF T
<1>5. \A n \in 0..Len(s) : n \in T
  BY <1>2, <1>3, <1>4, InductionTo
<1>6. QED BY <1>1, <1>2, <1>5 DEF T

\* The choices of a new stream are well formed.
LEMMA NewChoices == StreamAssumption => AreChoices([i \in Indices |-> NewChoice])
<1> SUFFICES ASSUME StreamAssumption PROVE AreChoices([i \in Indices |-> NewChoice])
  OBVIOUS
<1>1. <<>> \in Texts /\ <<>> \in Seq(ToSet(<<>>))
  BY TextIs
<1>2. IsChoice(NewChoice)
  BY <1>1 DEF IsChoice, NewChoice, IsSequence, Fields
<1>3. QED BY <1>2 DEF AreChoices

\* TypeInv holds at the start.
LEMMA TypeInit == Init => TypeInv
<1> SUFFICES ASSUME Init PROVE TypeInv
  OBVIOUS
<1>1. StreamAssumption
  BY StreamAssumption
<1>2. AreChoices(choices) /\ AreChoices(client) /\ DOMAIN choices = Indices /\ DOMAIN client = Indices
  BY <1>1, NewChoices DEF Init
<1>3. stored \in [Indices \X Contexts -> 0..2]
  BY DEF Init
<1>4. /\ line \in Seq(Wires) /\ buffer \in Seq(Wires) /\ open = {} /\ notice \in {<<>>, RecoveryNoticeContent}
      /\ phase = "reading" /\ received = 0 /\ line = <<>>
  BY DEF Init
<1>5. MaxChunks \in Nat /\ received \in 0..MaxChunks
  BY <1>1, <1>4 DEF StreamAssumption
<1>6. QED BY <1>2, <1>3, <1>4, <1>5 DEF TypeInv, TypeOK, Types, Opened

\* Every step keeps TypeInv.
LEMMA TypeStep == TypeInv /\ [Next]_vars => TypeInv'
<1> SUFFICES ASSUME TypeInv, [Next]_vars PROVE TypeInv'
  OBVIOUS
<1>0. StreamAssumption
  BY StreamAssumption
<1>t. /\ AreChoices(choices) /\ AreChoices(client)
      /\ line \in Seq(Wires) /\ buffer \in Seq(Wires)
      /\ notice \in {<<>>, RecoveryNoticeContent}
      /\ Opened(choices, open) /\ (~Display => open = {})
      /\ phase \in {"reading", "writing", "ending", "closed", "crashed"}
      /\ received \in 0..MaxChunks
      /\ stored \in [Indices \X Contexts -> 0..2]
      /\ phase # "writing" => line = <<>>
  BY DEF TypeInv, TypeOK, Types
<1>c. \A cs : AreChoices(cs) => DOMAIN cs = Indices
  BY DEF AreChoices
<1>w. /\ <<>> \in Seq(Wires) /\ \A s \in Seq(Wires), t \in Seq(Wires) : s \o t \in Seq(Wires)
      /\ \A s \in Seq(Wires) : \A n \in 1..Len(s) : SubSeq(s, 1, n) \in Seq(Wires) /\ SubSeq(s, n + 1, Len(s)) \in Seq(Wires)
  OBVIOUS
<1>o. /\ (Opened(choices, open))' <=> Opened(choices', open')
      /\ (AreChoices(choices))' <=> AreChoices(choices')
      /\ (AreChoices(client))' <=> AreChoices(client')
  BY DEF Opened, AreChoices
<1>1. ASSUME NEW chunk \in Chunks, Data(chunk) PROVE TypeInv'
  <2> DEFINE s == InjectRecoveryNotice(chunk)
             r == Rewritten(open, s)
  <2>1. /\ phase = "reading" /\ received < MaxChunks
        /\ \A i \in DOMAIN chunk : ~choices[chunk[i].index].finished
        /\ received' = received + 1
        /\ choices' = IngestChunk(choices, s)
        /\ Store(choices', [i \in Indices |-> ReadyStage(choices'[i])])
        /\ notice' = IF s # chunk THEN <<>> ELSE notice
        /\ open' = r.opened
        /\ line' = r.out
        /\ phase' = "writing"
        /\ buffer' = buffer /\ client' = client
    BY <1>1 DEF Data, Rewritten, RewriteChunk
  <2>2. /\ s \in Seq(Wires) /\ Onward(s, choices, 0)
        /\ \A i, j \in DOMAIN s : i < j /\ s[i].finish => s[j].index # s[i].index
    BY <1>0, <1>t, <2>1, ArrivesIs
  <2> HIDE DEF s
  <2>3. AreChoices(choices') /\ Opened(choices', open') /\ (~Display => open' = {}) /\ line' \in Seq(Wires)
    BY <1>0, <1>t, <2>1, <2>2, ArrivedTypes
  <2>4. stored' \in [Indices \X Contexts -> 0..2]
    BY <1>t, <2>1, Stages, StoreStages
  <2>5. received' \in 0..MaxChunks
    BY <1>0, <1>t, <2>1 DEF StreamAssumption
  <2>6. QED BY <1>c, <1>o, <1>t, <2>1, <2>3, <2>4, <2>5 DEF TypeInv, TypeOK, Types, Opened
<1>2. ASSUME Done PROVE TypeInv'
  <2>1. /\ Store(choices, FinalStage) /\ line' = FlushChunk \o RecoveryNoticeChunk
        /\ open' = {} /\ notice' = <<>> /\ phase' = "writing"
        /\ received' = received /\ choices' = choices /\ buffer' = buffer /\ client' = client
    BY <1>2 DEF Done
  <2>2. stored' \in [Indices \X Contexts -> 0..2]
    BY <1>t, <2>1, Stages, StoreStages
  <2>3. line' \in Seq(Wires)
    <3>1. open \subseteq Indices
      BY <1>t DEF Opened
    <3>2. QED BY <1>0, <1>t, <1>w, <2>1, <3>1, MadeUp
  <2>4. QED BY <1>c, <1>o, <1>t, <2>1, <2>2, <2>3 DEF TypeInv, TypeOK, Types, Opened
<1>3. ASSUME Write PROVE TypeInv'
  <2>1. /\ line' = <<>> /\ phase' \in {"closed", "reading", "ending"}
        /\ received' = received /\ choices' = choices /\ stored' = stored /\ notice' = notice /\ open' = open
        /\ buffer' \in {<<>>, buffer \o line, buffer}
        /\ client' \in {client, IngestChunk(client, buffer \o line)}
    BY <1>3 DEF Write
  <2>2. AreChoices(client')
    <3>1. buffer \o line \in Seq(Wires)
      BY <1>t, <1>w
    <3>2. AreChoices(IngestChunk(client, buffer \o line))
      BY <1>0, <1>t, <3>1, IngestTypes
    <3>3. QED BY <1>t, <2>1, <3>2
  <2>3. buffer' \in Seq(Wires) /\ line' \in Seq(Wires)
    BY <1>t, <1>w, <2>1
  <2>4. QED BY <1>c, <1>o, <1>t, <2>1, <2>2, <2>3 DEF TypeInv, TypeOK, Types, Opened
<1>4. ASSUME Transmit PROVE TypeInv'
  <2>1. PICK n \in 1..Len(buffer) : /\ client' = IngestChunk(client, SubSeq(buffer, 1, n))
                                    /\ buffer' = SubSeq(buffer, n + 1, Len(buffer))
    BY <1>4 DEF Transmit
  <2>2. UNCHANGED <<phase, received, choices, stored, rows, notice, open, line, done, lost>>
    BY <1>4 DEF Transmit
  <2>3. AreChoices(client') /\ buffer' \in Seq(Wires)
    BY <1>0, <1>t, <1>w, <2>1, IngestTypes
  <2>4. QED BY <1>c, <1>o, <1>t, <2>2, <2>3 DEF TypeInv, TypeOK, Types, Opened
<1>5. ASSUME Hangup PROVE TypeInv'
  <2>1. buffer' = <<>> /\ UNCHANGED <<phase, received, choices, stored, rows, notice, open, line, done, client>>
    BY <1>5 DEF Hangup
  <2>2. QED BY <1>c, <1>o, <1>t, <1>w, <2>1 DEF TypeInv, TypeOK, Types, Opened
<1>6. ASSUME ReadEnds PROVE TypeInv'
  <2>1. /\ phase = "reading" /\ phase' = "ending"
        /\ UNCHANGED <<received, choices, stored, rows, notice, open, line, buffer, done, client, lost>>
    BY <1>6 DEF ReadEnds
  <2>2. QED BY <1>c, <1>o, <1>t, <2>1 DEF TypeInv, TypeOK, Types, Opened
<1>7. ASSUME StoreRest PROVE TypeInv'
  <2>1. /\ phase = "ending" /\ phase' = "closed" /\ Store(choices, FinalStage)
        /\ UNCHANGED <<received, choices, notice, open, line, buffer, done, client, lost>>
    BY <1>7 DEF StoreRest
  <2>2. stored' \in [Indices \X Contexts -> 0..2]
    BY <1>t, <2>1, Stages, StoreStages
  <2>3. QED BY <1>c, <1>o, <1>t, <2>1, <2>2 DEF TypeInv, TypeOK, Types, Opened
<1>8. ASSUME Crash PROVE TypeInv'
  <2>1. /\ phase' = "crashed" /\ line' = <<>>
        /\ UNCHANGED <<received, choices, stored, rows, notice, open, buffer, done, client, lost>>
    BY <1>8 DEF Crash
  <2>2. QED BY <1>c, <1>o, <1>t, <1>w, <2>1 DEF TypeInv, TypeOK, Types, Opened
<1>9. CASE UNCHANGED vars
  BY <1>c, <1>o, <1>t, <1>9 DEF TypeInv, TypeOK, Types, Opened, vars
<1>10. QED
  BY <1>1, <1>2, <1>3, <1>4, <1>5, <1>6, <1>7, <1>8, <1>9 DEF Next

\* TypeOK: a choice is inside a mirrored block only while it has reasoning and
\* is not finished, for any upstream (display.go:52-76).
THEOREM StreamTypes == Spec => []TypeOK
<1>1. Spec => []TypeInv
  BY TypeInit, TypeStep, PTL DEF Spec
<1>2. TypeInv => TypeOK
  BY DEF TypeInv
<1>3. QED BY <1>1, <1>2, PTL

-----------------------------------------------------------------------------
(* What the client assembles. *)

\* Text of the upstream has no notice in it; the notice in front of it is the
\* only one.
LEMMA NoticeText ==
    ASSUME CleanText, NEW t \in Seq(Segments)
    PROVE  /\ NoticeAt(t) = {}
           /\ NoticeAt(RecoveryNoticeContent \o t) = {1}
           /\ RecoveryNoticeContent \o t # <<>> /\ (RecoveryNoticeContent \o t)[1] = "notice"
<1> DEFINE S == Segments \cup {"notice", "nl"}
           n == RecoveryNoticeContent
<1>1. n \in Seq(S) /\ t \in Seq(S) /\ Len(n) = 2 /\ n[1] = "notice" /\ n[2] = "nl" /\ DOMAIN n = {1, 2}
  BY DEF RecoveryNoticeContent
<1>2. NoticeAt(t) = {}
  BY DEF NoticeAt, CleanText
<1>3. NoticeAt(n) = {1}
  BY <1>1 DEF NoticeAt
<1> HIDE DEF n, S
<1>4. NoticeAt(n \o t) = {1}
  <2>1. NoticeAt(n \o t) = NoticeAt(n) \cup {Len(n) + j : j \in NoticeAt(t)}
    BY ZenonT(30), <1>1, NoticeJoin
  <2>2. QED BY <1>2, <1>3, <2>1
<1>5. n \o t \in Seq(S) /\ Len(n \o t) = 2 + Len(t) /\ (n \o t)[1] = n[1] /\ Len(t) \in Nat
  <2>1. /\ n \o t \in Seq(S) /\ Len(n \o t) = Len(n) + Len(t) /\ Len(t) \in Nat
        /\ \A j \in 1..Len(n) : (n \o t)[j] = n[j]
    <3>1. n \in Seq(S) /\ t \in Seq(S)
      BY <1>1
    <3>2. QED BY <3>1, JoinIs
  <2>2. 1 \in 1..Len(n)
    BY <1>1
  <2>3. QED BY <1>1, <2>1, <2>2
<1>6. n \o t # <<>>
  <2>1. Len(n \o t) # 0
    BY <1>1, <1>5
  <2>2. QED BY <2>1
<1>7. QED BY <1>1, <1>2, <1>4, <1>5, <1>6 DEF n

\* Mirroring changes a delta's content and nothing else of it.
LEMMA MirrorKeeps ==
    ASSUME NEW opened, NEW d \in Wires, NEW e, e = Mirror(opened, d).delta
    PROVE  e.index = d.index /\ e.calls = d.calls /\ e.reasoning = d.reasoning /\ e.finish = d.finish
<1> DEFINE content == Block(opened, d) \o Text(d.content)
<1>1. e = IF Block(opened, d) = <<>> THEN d ELSE [d EXCEPT !.content = content]
  BY DEF Mirror, Block, Opening, Thought, Closing, Thinks, Closes
<1> HIDE DEF content
<1>2. QED BY <1>1 DEF Wires

\* A rewritten delta, mirrored or not.
LEMMA StepIs ==
    ASSUME StreamAssumption, NEW opened, NEW d \in Wires
    PROVE  LET e == Step(opened, d).delta
           IN  /\ e \in Wires /\ e.index = d.index /\ e.calls = d.calls
               /\ e.reasoning = d.reasoning /\ e.finish = d.finish
               /\ \A i : i # d.index => (i \in Step(opened, d).opened) = (i \in opened)
<1>1. CASE ~Display
  BY <1>1 DEF Step
<1>2. CASE Display
  <2> DEFINE e == Mirror(opened, d).delta
             o == Mirror(opened, d).opened
  <2>1. /\ e \in Wires /\ e.index = d.index /\ e.calls = d.calls
        /\ e.reasoning = d.reasoning /\ e.finish = d.finish
    <3>1. e \in Wires
      BY MirrorIs
    <3>2. QED BY <3>1, MirrorKeeps
  <2>2. o = IF Closes(opened, d) THEN opened \ {d.index}
            ELSE IF Thinks(d) THEN opened \cup {d.index} ELSE opened
    BY MirrorIs
  <2>3. Step(opened, d) = Mirror(opened, d)
    BY <1>2 DEF Step
  <2> HIDE DEF e, o
  <2>4. \A i : i # d.index => (i \in o) = (i \in opened)
    BY <2>2
  <2>5. QED BY <2>1, <2>3, <2>4 DEF e, o
<1>3. QED BY <1>1, <1>2

\* Shows, inside a block if choice i is among op.
ShowsIn(w, c, i, op) == IF i \in op THEN Shows(w, c, TRUE) ELSE Shows(w, c, FALSE)

\* MirrorShows for a choice that is inside a block or not.
LEMMA MirrorShowsIn ==
    ASSUME StreamAssumption, CleanText, NEW w, NEW c, NEW opened, NEW d \in Wires,
           ShowsIn(w, c, d.index, opened), Plain(Text(d.content))
    PROVE  ShowsIn(w \o Text(Mirror(opened, d).delta.content), c \o Text(d.content),
                   d.index, Mirror(opened, d).opened)
<1> DEFINE v == w \o Text(Mirror(opened, d).delta.content)
           e == c \o Text(d.content)
           o == Mirror(opened, d).opened
<1>1. Shows(w, c, d.index \in opened)
  <2>1. CASE d.index \in opened
    <3>1. (d.index \in opened) = TRUE /\ Shows(w, c, TRUE)
      BY <2>1 DEF ShowsIn
    <3>2. QED BY <3>1
  <2>2. CASE d.index \notin opened
    <3>1. (d.index \in opened) = FALSE
      BY <2>2
    <3>2. Shows(w, c, FALSE)
      BY <2>2 DEF ShowsIn
    <3>3. QED BY <3>1, <3>2
  <2>3. QED BY <2>1, <2>2
<1>2. Shows(v, e, d.index \in o)
  BY <1>1, MirrorShows
<1> HIDE DEF v, e, o
<1>3. CASE d.index \in o
  <2>1. (d.index \in o) = TRUE
    BY <1>3
  <2>2. Shows(v, e, TRUE)
    BY <1>2, <2>1
  <2>3. ShowsIn(v, e, d.index, o)
    BY <1>3, <2>2 DEF ShowsIn
  <2>4. QED BY <2>3 DEF v, e, o
<1>4. CASE d.index \notin o
  <2>1. (d.index \in o) = FALSE
    BY <1>4
  <2>2. Shows(v, e, FALSE)
    BY <1>2, <2>1
  <2>3. ShowsIn(v, e, d.index, o)
    BY <1>4, <2>2 DEF ShowsIn
  <2>4. QED BY <2>3 DEF v, e, o
<1>5. QED BY <1>3, <1>4

\* The content of a mirrored delta: its block and then its own text.
LEMMA MirrorContent ==
    ASSUME StreamAssumption, NEW opened, NEW d \in Wires
    PROVE  Text(Mirror(opened, d).delta.content) = Block(opened, d) \o Text(d.content)
BY ZenonT(60), MirrorIs

\* v has the notices of w and, after them, those of u.
MoreNotices(w, v, u) == \E b \in Texts : NoticeAt(b) = NoticeAt(w) /\ NoticeAt(v) = NoticeAt(b \o u)

\* What it adds to the notices.
LEMMA MirrorNotices ==
    ASSUME StreamAssumption, CleanText, NEW w \in Texts, NEW opened, NEW d \in Wires
    PROVE  MoreNotices(w, w \o Text(Mirror(opened, d).delta.content), Text(d.content))
<1>1. Text(Mirror(opened, d).delta.content) = Block(opened, d) \o Text(d.content)
  BY MirrorContent
<1> DEFINE b == w \o Block(opened, d)
<1>2. /\ NoticeAt(w \o (Block(opened, d) \o Text(d.content))) = NoticeAt(b \o Text(d.content))
      /\ NoticeAt(b) = NoticeAt(w) /\ b \in Texts
  BY NoticeCounts
<1> HIDE DEF b
<1>3. QED BY <1>1, <1>2 DEF MoreNotices

\* The same for a delta that is mirrored or not.
LEMMA StepShows ==
    ASSUME StreamAssumption, CleanText, NEW opened, ~Display => opened = {}, NEW d \in Wires,
           Plain(Text(d.content)), NEW w, NEW c, ShowsIn(w, c, d.index, opened)
    PROVE  /\ ShowsIn(w \o Text(Step(opened, d).delta.content), c \o Text(d.content),
                      d.index, Step(opened, d).opened)
           /\ MoreNotices(w, w \o Text(Step(opened, d).delta.content), Text(d.content))
<1>1. w \in Texts
  BY DEF ShowsIn, Shows
<1>2. CASE ~Display
  <2>1. Step(opened, d).opened = {} /\ Step(opened, d).delta = d /\ opened = {}
    BY <1>2 DEF Step
  <2>2. Shows(w, c, FALSE)
    BY <2>1 DEF ShowsIn
  <2> DEFINE u == Text(d.content)
  <2> HIDE DEF u
  <2>3. Shows(w \o u, c \o u, FALSE)
    BY <2>2, ShowsMore DEF u
  <2>4. ShowsIn(w \o u, c \o u, d.index, {})
    BY <2>3 DEF ShowsIn
  <2>5. QED BY <1>1, <2>1, <2>4 DEF u, MoreNotices
<1>3. CASE Display
  <2>1. Step(opened, d) = Mirror(opened, d)
    BY <1>3 DEF Step
  <2>2. ShowsIn(w \o Text(Mirror(opened, d).delta.content), c \o Text(d.content),
                d.index, Mirror(opened, d).opened)
    BY MirrorShowsIn
  <2>3. QED BY <1>1, <2>1, <2>2, MirrorNotices
<1>4. QED BY <1>2, <1>3

\* Where the notices are after a text without any, and after one that begins
\* with one.
LEMMA NoticeMore ==
    ASSUME NEW w, NEW v, NEW u \in Texts, MoreNotices(w, v, u)
    PROVE  /\ NoticeAt(u) = {} => NoticeAt(v) = NoticeAt(w)
           /\ NoticeAt(u) = {1} /\ NoticeAt(w) = {} => \E j : NoticeAt(v) = {j}
<1>1. PICK b \in Texts : NoticeAt(b) = NoticeAt(w) /\ NoticeAt(v) = NoticeAt(b \o u)
  BY DEF MoreNotices
<1>2. NoticeAt(b \o u) = NoticeAt(b) \cup {Len(b) + j : j \in NoticeAt(u)}
  BY NoticeJoin DEF Texts
<1>3. NoticeAt(u) = {} => NoticeAt(v) = NoticeAt(w)
  BY <1>1, <1>2
<1>4. NoticeAt(u) = {1} /\ NoticeAt(w) = {} => NoticeAt(v) = {Len(b) + 1}
  BY <1>1, <1>2
<1>5. QED BY <1>3, <1>4

Showing(cs, w, op) == \A i \in Indices : ShowsIn(w[i].content, cs[i].content, i, op)

Agrees(cs, w) == \A i \in Indices : /\ w[i].calls = cs[i].calls
                                    /\ w[i].reasoning = cs[i].reasoning
                                    /\ w[i].finished = cs[i].finished

\* The notice is in front of one message, and nowhere else.
OneNotice(cs, w) ==
    \E i \in Indices : /\ cs[i].content # <<>> /\ cs[i].content[1] = "notice"
                       /\ \E j : NoticeAt(w[i].content) = {j}
                       /\ \A k \in Indices : k # i => NoticeAt(w[k].content) = {}

\* Nobody has been answered yet.
NoAnswer(cs, w) == \A i \in Indices : /\ cs[i].content = <<>> /\ cs[i].calls = <<>>
                                      /\ NoticeAt(w[i].content) = {}

\* What the client assembles, w, is what the proxy accumulates, cs, but for the
\* blocks, of which those of op are open, and for a notice still to come.
Mirrors(cs, w, op, pending) ==
    /\ AreChoices(cs) /\ AreChoices(w)
    /\ Opened(cs, op) /\ (~Display => op = {})
    /\ Showing(cs, w, op) /\ Agrees(cs, w)
    /\ pending => NoAnswer(cs, w)
    /\ ~pending /\ Recovered => OneNotice(cs, w)

\* The text of a delta as it comes: the notice is in it, or it may go on pending.
Comes(d, pending, later) ==
    \/ /\ Text(d.content) \in Seq(Segments) /\ later = pending
       /\ pending => ~Carries(d)
    \/ /\ pending /\ ~later
       /\ \E t \in Seq(Segments) : d.content = RecoveryNoticeContent \o t

\* One delta, rewritten, keeps the client in step with the proxy.
LEMMA MirrorsStep ==
    ASSUME StreamAssumption, CleanText, NEW cs, NEW w, NEW op, NEW pending \in BOOLEAN, NEW later \in BOOLEAN,
           Mirrors(cs, w, op, pending), NEW d \in Wires, cs[d.index].finished => ~Thinks(d), Comes(d, pending, later)
    PROVE  Mirrors(MergeDelta(cs, d), MergeDelta(w, Step(op, d).delta), Step(op, d).opened, later)
<1> DEFINE m == MergeDelta(cs, d)
           e == Step(op, d).delta
           v == MergeDelta(w, e)
           o == Step(op, d).opened
           i == d.index
           u == Text(d.content)
<1>1. /\ AreChoices(cs) /\ AreChoices(w) /\ Opened(cs, op) /\ (~Display => op = {})
      /\ Showing(cs, w, op) /\ Agrees(cs, w)
      /\ pending => NoAnswer(cs, w)
      /\ ~pending /\ Recovered => OneNotice(cs, w)
  BY DEF Mirrors
<1>2. i \in Indices
  BY DEF Wires
<1>3. /\ e \in Wires /\ e.index = i /\ e.calls = d.calls /\ e.reasoning = d.reasoning /\ e.finish = d.finish
      /\ \A k : k # i => (k \in o) = (k \in op)
  BY StepIs
<1>4. /\ AreChoices(m) /\ \A k \in Indices : k # i => m[k] = cs[k]
      /\ m[i].content = cs[i].content \o u
      /\ m[i].calls = FoldLeft(MergeCall, cs[i].calls, d.calls)
      /\ m[i].reasoning = IF IsText(d.reasoning) THEN Text(cs[i].reasoning) \o d.reasoning
                                                 ELSE cs[i].reasoning
      /\ m[i].finished = (cs[i].finished \/ d.finish)
  BY ZenonT(30), <1>1, MergeDeltaIs
<1> HIDE DEF e
<1>5. /\ AreChoices(v) /\ \A k \in Indices : k # i => v[k] = w[k]
      /\ v[i].content = w[i].content \o Text(e.content)
      /\ v[i].calls = FoldLeft(MergeCall, w[i].calls, d.calls)
      /\ v[i].reasoning = IF IsText(d.reasoning) THEN Text(w[i].reasoning) \o d.reasoning
                                                 ELSE w[i].reasoning
      /\ v[i].finished = (w[i].finished \/ d.finish)
  <2>1. /\ AreChoices(v) /\ \A k \in Indices : k # e.index => v[k] = w[k]
        /\ v[e.index].content = w[e.index].content \o Text(e.content)
        /\ v[e.index].calls = FoldLeft(MergeCall, w[e.index].calls, e.calls)
        /\ v[e.index].reasoning = IF IsText(e.reasoning) THEN Text(w[e.index].reasoning) \o e.reasoning
                                                         ELSE w[e.index].reasoning
        /\ v[e.index].finished = (w[e.index].finished \/ e.finish)
    BY ZenonT(30), <1>1, <1>3, MergeDeltaIs
  <2> HIDE DEF v, i
  <2>2. QED BY <1>3, <2>1
<1>6. Opened(m, o) /\ (~Display => o = {})
  BY <1>1, OpenedStep
<1>7. /\ Plain(u)
      /\ \/ u \in Seq(Segments) /\ NoticeAt(u) = {}
         \/ NoticeAt(u) = {1} /\ u # <<>> /\ u[1] = "notice" /\ pending /\ ~later
  <2>1. CASE u \in Seq(Segments)
    BY <2>1, NoticeText DEF Plain
  <2>2. CASE ~(u \in Seq(Segments))
    <3>1. PICK t \in Seq(Segments) : d.content = RecoveryNoticeContent \o t /\ pending /\ ~later
      BY <2>2 DEF Comes
    <3>2. RecoveryNoticeContent \o t \in Texts
      <4>1. RecoveryNoticeContent \in Texts /\ t \in Texts
        BY TextIs DEF RecoveryNoticeContent, Texts
      <4>2. QED BY <4>1, TextIs
    <3>3. u = RecoveryNoticeContent \o t
      BY <3>1, <3>2, TextIs
    <3>4. QED BY <3>1, <3>3, NoticeText DEF Plain
  <2>3. QED BY <2>1, <2>2
<1>8. /\ ShowsIn(v[i].content, m[i].content, i, o)
      /\ NoticeAt(u) = {} => NoticeAt(v[i].content) = NoticeAt(w[i].content)
      /\ NoticeAt(u) = {1} /\ NoticeAt(w[i].content) = {} => \E j : NoticeAt(v[i].content) = {j}
  <2>1. ShowsIn(w[i].content, cs[i].content, d.index, op)
    BY <1>1, <1>2 DEF Showing
  <2> DEFINE c == cs[i].content
             y == w[i].content
  <2> HIDE DEF c, y
  <2>2. ShowsIn(y, c, d.index, op) /\ (~Display => op = {}) /\ Plain(Text(d.content))
    BY <1>1, <1>7, <2>1 DEF c, y
  <2>3. ShowsIn(y \o Text(Step(op, d).delta.content), c \o Text(d.content),
                d.index, Step(op, d).opened)
    BY <2>2, StepShows
  <2>4. MoreNotices(y, y \o Text(Step(op, d).delta.content), Text(d.content))
    BY <2>2, StepShows
  <2> DEFINE x == y \o Text(Step(op, d).delta.content)
  <2>5. v[i].content = x /\ m[i].content = c \o u /\ y = w[i].content
    BY <1>4, <1>5 DEF c, y, e
  <2>6. u \in Texts
    BY MirrorIs
  <2> HIDE DEF x, m, v, u
  <2>7. MoreNotices(y, x, u)
    BY <2>4 DEF x, u
  <2>8. /\ NoticeAt(u) = {} => NoticeAt(x) = NoticeAt(y)
        /\ NoticeAt(u) = {1} /\ NoticeAt(y) = {} => \E j : NoticeAt(x) = {j}
    BY <2>6, <2>7, NoticeMore
  <2>9. ShowsIn(x, c \o u, i, o)
    BY <2>3 DEF x, u
  <2>10. QED BY <2>5, <2>8, <2>9
<1>c. cs[i].content \in Texts /\ u \in Texts
  BY <1>1, <1>2, MirrorIs DEF AreChoices, IsChoice
<1> HIDE DEF m, v, o, u, i
<1>9. Showing(m, v, o)
  <2> SUFFICES ASSUME NEW k \in Indices PROVE ShowsIn(v[k].content, m[k].content, k, o)
    BY DEF Showing
  <2>1. CASE k = i
    BY <1>8, <2>1
  <2>2. CASE k # i
    <3>1. v[k] = w[k] /\ m[k] = cs[k] /\ (k \in o) = (k \in op)
      BY <1>3, <1>4, <1>5, <2>2 DEF i, o
    <3>2. ShowsIn(w[k].content, cs[k].content, k, op)
      BY <1>1 DEF Showing
    <3>3. QED BY <3>1, <3>2 DEF ShowsIn
  <2>3. QED BY <2>1, <2>2
<1>10. /\ cs[i].content = <<>> => m[i].content = u
       /\ cs[i].content # <<>> => m[i].content # <<>> /\ m[i].content[1] = cs[i].content[1]
  <2> DEFINE All == Segments \cup {"notice", "nl", "open", "close"}
             c == cs[i].content
  <2>1. c \in Seq(All) /\ u \in Seq(All)
    BY <1>c DEF Texts
  <2>2. m[i].content = c \o u
    BY <1>4
  <2> HIDE DEF c, All
  <2>3. c = <<>> => c \o u = u
    BY <2>1
  <2>4. c # <<>> => Len(c) >= 1 /\ c \o u # <<>> /\ (c \o u)[1] = c[1]
    BY <2>1
  <2>5. QED BY <2>2, <2>3, <2>4 DEF c
<1>12. Agrees(m, v)
  BY <1>1, <1>2, <1>4, <1>5 DEF Agrees
<1>13. ASSUME later PROVE NoAnswer(m, v)
  <2>1. pending /\ ~Carries(d)
    BY <1>13 DEF Comes
  <2>2. NoAnswer(cs, w)
    BY <1>1, <2>1
  <2>3. d.content = Absent /\ d.calls = <<>> /\ u = <<>>
    <3>1. d.content = Absent /\ ~d.tools
      BY <2>1 DEF Carries
    <3>2. d.calls # <<>> => d.tools
      BY DEF Wires
    <3>3. QED BY <3>1, <3>2 DEF Text, IsText, u
  <2>4. m[i].content = <<>>
    BY <1>2, <1>10, <2>2, <2>3 DEF NoAnswer
  <2>5. m[i].calls = <<>>
    <3>1. cs[i].calls = <<>> /\ IsSequence(cs[i].calls) /\ <<>> \in Seq(Pieces)
      BY <1>1, <1>2, <2>2 DEF NoAnswer, AreChoices, IsChoice
    <3>2. FoldLeft(MergeCall, cs[i].calls, <<>>) = cs[i].calls
      BY <3>1, CallsFold
    <3>3. QED BY <1>4, <2>3, <3>1, <3>2
  <2>6. NoticeAt(v[i].content) = {}
    <3>1. NoticeAt(u) = {}
      BY <2>3 DEF NoticeAt
    <3>2. QED BY <1>2, <1>8, <2>2, <3>1 DEF NoAnswer
  <2>7. QED BY <1>4, <1>5, <2>2, <2>4, <2>5, <2>6 DEF NoAnswer
<1>14. ASSUME ~later, Recovered PROVE OneNotice(m, v)
  <2>1. CASE NoticeAt(u) = {1} /\ u # <<>> /\ u[1] = "notice" /\ pending
    <3>1. NoAnswer(cs, w)
      BY <1>1, <2>1
    <3>2. m[i].content = u
      BY <1>2, <1>10, <3>1 DEF NoAnswer
    <3>3. \E j : NoticeAt(v[i].content) = {j}
      BY <1>2, <1>8, <2>1, <3>1 DEF NoAnswer
    <3>4. \A k \in Indices : k # i => NoticeAt(v[k].content) = {}
      BY <1>5, <3>1 DEF NoAnswer
    <3>5. QED BY <1>2, <2>1, <3>2, <3>3, <3>4 DEF OneNotice
  <2>2. CASE u \in Seq(Segments) /\ NoticeAt(u) = {} /\ ~pending
    <3>1. OneNotice(cs, w)
      BY <1>1, <1>14, <2>2
    <3>2. PICK k \in Indices : /\ cs[k].content # <<>> /\ cs[k].content[1] = "notice"
                               /\ \E j : NoticeAt(w[k].content) = {j}
                               /\ \A l \in Indices : l # k => NoticeAt(w[l].content) = {}
      BY <3>1 DEF OneNotice
    <3>3. \A l \in Indices : NoticeAt(v[l].content) = NoticeAt(w[l].content)
      BY <1>5, <1>8, <2>2
    <3>4. m[k].content # <<>> /\ m[k].content[1] = "notice"
      BY <1>4, <1>10, <3>2
    <3>5. QED BY <3>2, <3>3, <3>4 DEF OneNotice
  <2>3. (u \in Seq(Segments) /\ ~pending) \/ NoticeAt(u) = {1}
    <3>1. CASE NoticeAt(u) = {1}
      BY <3>1
    <3>2. CASE u \in Seq(Segments) /\ NoticeAt(u) = {}
      <4>1. ~pending
        <5> SUFFICES ASSUME pending PROVE FALSE
          OBVIOUS
        <5>1. PICK t \in Seq(Segments) : d.content = RecoveryNoticeContent \o t
          BY <1>14 DEF Comes
        <5>2. RecoveryNoticeContent \o t \in Texts
          <6>1. RecoveryNoticeContent \in Texts /\ t \in Texts
            BY TextIs DEF RecoveryNoticeContent, Texts
          <6>2. QED BY <6>1, TextIs
        <5>3. u = RecoveryNoticeContent \o t
          BY <5>1, <5>2, TextIs DEF u
        <5>4. QED BY <3>2, <5>3, NoticeText
      <4>2. QED BY <3>2, <4>1
    <3>3. QED BY <1>7, <3>1, <3>2
  <2>4. QED BY <1>7, <2>1, <2>2, <2>3
<1>15. QED
  BY <1>4, <1>5, <1>6, <1>9, <1>12, <1>13, <1>14 DEF Mirrors, m, v, o, e

-----------------------------------------------------------------------------
(* What a line does to it. *)

\* So does a whole chunk.
LEMMA MirrorsChunk ==
    ASSUME StreamAssumption, CleanText, NEW chunk \in Chunks, notice \in {<<>>, RecoveryNoticeContent},
           \A i \in DOMAIN chunk : ~choices[chunk[i].index].finished,
           NEW w0, Mirrors(choices, w0, open, notice # <<>>),
           NEW s, s = InjectRecoveryNotice(chunk)
    PROVE  Mirrors(IngestChunk(choices, s), IngestChunk(w0, Rewritten(open, s).out),
                   Rewritten(open, s).opened, notice # <<>> /\ s = chunk)
<1>1. /\ s \in Seq(Wires) /\ Onward(s, choices, 0)
      /\ \A i, j \in DOMAIN s : i < j /\ s[i].finish => s[j].index # s[i].index
  BY ArrivesIs
<1>2. PICK pos \in 1..(Len(s) + 1) : NoticeGoes(chunk, s, pos)
  <2>1. HasNoticeGone(chunk, s)
    BY InjectedIs
  <2>2. QED BY <2>1 DEF HasNoticeGone
<1>3. PICK cs, w, op : /\ IsPassage(choices, w0, open, s, cs, w, op)
                       /\ cs[Len(s)] = IngestChunk(choices, s)
                       /\ op[Len(s)] = Rewritten(open, s).opened
                       /\ w[Len(s)] = IngestChunk(w0, Rewritten(open, s).out)
  <2>1. HasPassage(choices, w0, open, s)
    BY <1>1, Passages
  <2>2. QED BY <2>1 DEF HasPassage
<1> DEFINE pend(n) == notice # <<>> /\ n < pos
           P(n) == Mirrors(cs[n], w[n], op[n], pend(n)) /\ Onward(s, cs[n], n)
           T == {n \in 0..Len(s) : P(n)}
<1>4. Len(s) \in Nat /\ \A n \in 1..Len(s) : s[n] \in Wires
  BY <1>1
<1>5. 0 \in T
  <2>1. pend(0) = (notice # <<>>)
    BY <1>4
  <2>2. cs[0] = choices /\ w[0] = w0 /\ op[0] = open
    BY <1>3 DEF IsPassage
  <2> HIDE DEF pend
  <2>3. QED BY <1>1, <1>4, <2>1, <2>2
<1>6. ASSUME NEW n \in 1..Len(s), n - 1 \in T PROVE n \in T
  <2>1. Mirrors(cs[n - 1], w[n - 1], op[n - 1], pend(n - 1)) /\ Onward(s, cs[n - 1], n - 1)
    BY <1>6
  <2>2. /\ cs[n] = MergeDelta(cs[n - 1], s[n]) /\ op[n] = Step(op[n - 1], s[n]).opened
        /\ w[n] = MergeDelta(w[n - 1], Step(op[n - 1], s[n]).delta)
    BY <1>3 DEF IsPassage
  <2>3. AreChoices(cs[n - 1])
    BY <2>1 DEF Mirrors
  <2>4. Onward(s, cs[n], n) /\ ~cs[n - 1][s[n].index].finished
    BY <1>1, <2>1, <2>2, <2>3, OnwardStep
  <2>5. Comes(s[n], pend(n - 1), pend(n))
    <3>1. CASE n = pos /\ notice # <<>>
      <4>1. pend(n - 1) /\ ~pend(n)
        BY <1>4, <3>1
      <4>2. \E t \in Seq(Segments) : s[n].content = RecoveryNoticeContent \o t
        BY <1>2, <3>1 DEF NoticeGoes
      <4>3. QED BY <4>1, <4>2 DEF Comes
    <3>2. CASE ~(n = pos /\ notice # <<>>)
      <4>1. s[n].content \in Fields /\ (n < pos => ~Carries(s[n]))
        BY <1>2, <3>2 DEF NoticeGoes
      <4>2. Text(s[n].content) \in Seq(Segments)
        BY <4>1, TextIs
      <4>3. pend(n) = pend(n - 1) /\ (pend(n - 1) => n < pos)
        BY <1>4, <3>2
      <4> HIDE DEF pend
      <4>4. QED BY <4>1, <4>2, <4>3 DEF Comes
    <3>3. QED BY <3>1, <3>2
  <2>6. pend(n - 1) \in BOOLEAN /\ pend(n) \in BOOLEAN /\ s[n] \in Wires /\ n \in 0..Len(s)
    BY <1>4
  <2> HIDE DEF pend
  <2>7. Mirrors(MergeDelta(cs[n - 1], s[n]), MergeDelta(w[n - 1], Step(op[n - 1], s[n]).delta),
                Step(op[n - 1], s[n]).opened, pend(n))
    BY <2>1, <2>4, <2>5, <2>6, MirrorsStep
  <2>8. QED BY <2>2, <2>4, <2>6, <2>7
<1>7. Len(s) \in T
  <2> HIDE DEF T
  <2>1. \A n \in 0..Len(s) : n \in T
    BY <1>4, <1>5, <1>6, InductionTo
  <2>2. QED BY <1>4, <2>1
<1>8. pend(Len(s)) = (notice # <<>> /\ s = chunk)
  BY <1>2, <1>4 DEF NoticeGoes
<1> HIDE DEF pend
<1>9. QED BY <1>3, <1>7, <1>8

\* A made-up delta changes the content of one choice.
LEMMA ContentDeltaIs ==
    ASSUME StreamAssumption, NEW cs, AreChoices(cs), NEW i \in Indices, NEW content \in Texts,
           NEW d, d = ContentDelta(i, content), NEW m, m = MergeDelta(cs, d)
    PROVE  /\ d \in Wires /\ d.index = i /\ d.content = content /\ d.calls = <<>> /\ ~d.finish /\ ~Thinks(d)
           /\ AreChoices(m) /\ \A k \in Indices : k # i => m[k] = cs[k]
           /\ m[i].content = cs[i].content \o content
           /\ m[i].calls = cs[i].calls /\ m[i].reasoning = cs[i].reasoning /\ m[i].finished = cs[i].finished
<1>1. /\ d \in Wires /\ d.index = i /\ d.content = content /\ d.calls = <<>> /\ d.finish = FALSE
      /\ d.reasoning = Absent
  BY NoPieces DEF ContentDelta, Wires, Fields
<1>2. ~IsText(d.reasoning) /\ Text(d.content) = content
  BY <1>1, TextIs DEF IsText
<1>3. IsSequence(cs[i].calls) /\ cs[i].finished \in BOOLEAN
  BY DEF AreChoices, IsChoice
<1>4. FoldLeft(MergeCall, cs[i].calls, <<>>) = cs[i].calls
  <2>1. <<>> \in Seq(Pieces)
    OBVIOUS
  <2>2. QED BY <1>3, <2>1, CallsFold
<1>5. /\ AreChoices(m) /\ \A k \in Indices : k # i => m[k] = cs[k]
      /\ m[i].content = cs[i].content \o Text(d.content)
      /\ m[i].calls = FoldLeft(MergeCall, cs[i].calls, d.calls)
      /\ m[i].reasoning = IF IsText(d.reasoning) THEN Text(cs[i].reasoning) \o d.reasoning
                                                 ELSE cs[i].reasoning
      /\ m[i].finished = (cs[i].finished \/ d.finish)
  <2> DEFINE n == MergeDelta(cs, d)
  <2>1. /\ AreChoices(n) /\ \A k \in Indices : k # d.index => n[k] = cs[k]
        /\ n[d.index].content = cs[d.index].content \o Text(d.content)
        /\ n[d.index].calls = FoldLeft(MergeCall, cs[d.index].calls, d.calls)
        /\ n[d.index].reasoning = IF IsText(d.reasoning) THEN Text(cs[d.index].reasoning) \o d.reasoning
                                                         ELSE cs[d.index].reasoning
        /\ n[d.index].finished = (cs[d.index].finished \/ d.finish)
    BY ZenonT(60), <1>1, MergeDeltaIs
  <2>2. m = n
    OBVIOUS
  <2> HIDE DEF n
  <2>3. QED BY <1>1, <2>1, <2>2
<1>6. QED BY <1>1, <1>2, <1>3, <1>4, <1>5 DEF Thinks

\* A block is closed.
LEMMA MirrorsClose ==
    ASSUME StreamAssumption, CleanText, NEW cs, NEW w, NEW op, NEW pending \in BOOLEAN,
           Mirrors(cs, w, op, pending), NEW i \in op
    PROVE  Mirrors(cs, MergeDelta(w, ContentDelta(i, <<"close">>)), op \ {i}, pending)
<1> DEFINE d == ContentDelta(i, <<"close">>)
           v == MergeDelta(w, d)
           All == Segments \cup {"notice", "nl", "open", "close"}
<1>1. /\ AreChoices(cs) /\ AreChoices(w) /\ Opened(cs, op) /\ (~Display => op = {})
      /\ Showing(cs, w, op) /\ Agrees(cs, w)
      /\ pending => NoAnswer(cs, w)
      /\ ~pending /\ Recovered => OneNotice(cs, w)
  BY DEF Mirrors
<1>2. i \in Indices /\ <<"close">> \in Texts
  BY <1>1 DEF Opened, Texts
<1>3. /\ AreChoices(v) /\ \A k \in Indices : k # i => v[k] = w[k]
      /\ v[i].content = w[i].content \o <<"close">>
      /\ v[i].calls = w[i].calls /\ v[i].reasoning = w[i].reasoning /\ v[i].finished = w[i].finished
  <2> DEFINE close == <<"close">>
  <2>1. d = ContentDelta(i, close) /\ v = MergeDelta(w, d) /\ close \in Texts
    BY <1>2
  <2> HIDE DEF v, d, close
  <2>2. /\ AreChoices(v) /\ \A k \in Indices : k # i => v[k] = w[k]
        /\ v[i].content = w[i].content \o close
        /\ v[i].calls = w[i].calls /\ v[i].reasoning = w[i].reasoning /\ v[i].finished = w[i].finished
    <3>1. AreChoices(w) /\ i \in Indices
      BY <1>1, <1>2
    <3>2. AreChoices(v) /\ \A k \in Indices : k # i => v[k] = w[k]
      BY <2>1, <3>1, ContentDeltaIs
    <3>3. v[i].content = w[i].content \o close
      BY SMTT(30), <2>1, <3>1, ContentDeltaIs
    <3>4. v[i].calls = w[i].calls /\ v[i].reasoning = w[i].reasoning /\ v[i].finished = w[i].finished
      BY <2>1, <3>1, ContentDeltaIs
    <3>5. QED BY <3>2, <3>3, <3>4
  <2>3. QED BY <2>2 DEF close
<1> HIDE DEF v, d
<1>4. Shows(w[i].content, cs[i].content, TRUE)
  BY <1>1, <1>2 DEF Showing, ShowsIn
<1>5. w[i].content \in Seq(All)
  BY <1>4 DEF Shows, Texts
<1>6. v[i].content = Append(w[i].content, "close")
  BY <1>3, <1>5
<1>7. Shows(v[i].content, cs[i].content, FALSE)
  BY <1>4, <1>6, ShowsSegment
<1>8. NoticeAt(v[i].content) = NoticeAt(w[i].content)
  <2> DEFINE c == w[i].content
  <2> HIDE DEF c
  <2>1. NoticeAt(Append(c, "close")) = NoticeAt(c)
    <3>1. c \in Seq(All)
      BY <1>5 DEF c
    <3>2. /\ Len(c) \in Nat /\ DOMAIN c = 1..Len(c) /\ DOMAIN Append(c, "close") = 1..(Len(c) + 1)
          /\ Append(c, "close")[Len(c) + 1] = "close"
          /\ \A j \in 1..Len(c) : Append(c, "close")[j] = c[j]
      BY <3>1
    <3>3. QED BY <3>2 DEF NoticeAt
  <2>2. QED BY <1>6, <2>1 DEF c
<1>9. Showing(cs, v, op \ {i})
  BY <1>1, <1>2, <1>3, <1>7 DEF Showing, ShowsIn
<1>10. \A k \in Indices : NoticeAt(v[k].content) = NoticeAt(w[k].content)
  BY <1>3, <1>8
<1>11. Agrees(cs, v)
  BY <1>1, <1>2, <1>3 DEF Agrees
<1>12. pending => NoAnswer(cs, v)
  BY <1>1, <1>10 DEF NoAnswer
<1>13. ~pending /\ Recovered => OneNotice(cs, v)
  BY <1>1, <1>10 DEF OneNotice
<1>14. Opened(cs, op \ {i}) /\ (~Display => op \ {i} = {})
  BY <1>1 DEF Opened
<1>15. QED BY <1>1, <1>3, <1>9, <1>11, <1>12, <1>13, <1>14 DEF Mirrors, v, d

\* [DONE] closes all of them.
LEMMA MirrorsFlush ==
    ASSUME StreamAssumption, CleanText, NEW w0, NEW pending \in BOOLEAN, Mirrors(choices, w0, open, pending)
    PROVE  Mirrors(choices, IngestChunk(w0, FlushChunk), {}, pending)
<1> DEFINE s == FlushChunk
<1>1. open \subseteq Indices
  BY DEF Mirrors, Opened
<1>2. /\ s \in Seq({ContentDelta(i, <<"close">>) : i \in open})
      /\ \A i \in open : \E n \in DOMAIN s : s[n] = ContentDelta(i, <<"close">>)
      /\ \A a, b \in DOMAIN s : s[a] = s[b] => a = b
  BY <1>1, FlushIs
<1>3. PICK w : MergeRun(w0, s, w) /\ IngestChunk(w0, s) = w[Len(s)]
  BY <1>2, MergeRuns DEF IngestChunk
<1> HIDE DEF s
<1> DEFINE left(n) == {i \in open : \A k \in 1..n : s[k] # ContentDelta(i, <<"close">>)}
           T == {n \in 0..Len(s) : Mirrors(choices, w[n], left(n), pending)}
<1>4. Len(s) \in Nat /\ DOMAIN s = 1..Len(s) /\ \A n \in 1..Len(s) : \E i \in open : s[n] = ContentDelta(i, <<"close">>)
  BY <1>2
<1>5. 0 \in T
  <2>1. left(0) = open
    OBVIOUS
  <2>2. w[0] = w0
    BY <1>3 DEF MergeRun
  <2> HIDE DEF left
  <2>3. QED BY <1>4, <2>1, <2>2
<1>6. ASSUME NEW n \in 1..Len(s), n - 1 \in T PROVE n \in T
  <2>1. PICK i \in open : s[n] = ContentDelta(i, <<"close">>)
    BY <1>4
  <2>2. i \in left(n - 1)
    <3>1. \A k \in 1..(n - 1) : k \in 1..Len(s) /\ k # n
      BY <1>4
    <3>2. QED BY <1>2, <1>4, <2>1, <3>1
  <2>3. left(n) = left(n - 1) \ {i}
    <3>1. \A a, b : ContentDelta(a, <<"close">>) = ContentDelta(b, <<"close">>) => a = b
      BY DEF ContentDelta
    <3>2. \A k : k \in 1..n <=> k \in 1..(n - 1) \/ k = n
      BY <1>4
    <3>3. QED BY <2>1, <3>1, <3>2
  <2>4. Mirrors(choices, w[n - 1], left(n - 1), pending) /\ n \in 0..Len(s)
    BY <1>4, <1>6
  <2>5. w[n] = MergeDelta(w[n - 1], ContentDelta(i, <<"close">>))
    BY <1>3, <2>1 DEF MergeRun
  <2> HIDE DEF left
  <2>6. Mirrors(choices, w[n], left(n - 1) \ {i}, pending)
    BY <2>2, <2>4, <2>5, MirrorsClose
  <2>7. QED BY <2>3, <2>4, <2>6
<1>7. Len(s) \in T
  <2> HIDE DEF T
  <2>1. \A n \in 0..Len(s) : n \in T
    BY <1>4, <1>5, <1>6, InductionTo
  <2>2. QED BY <1>4, <2>1
<1>8. left(Len(s)) = {}
  BY <1>2, <1>4
<1> HIDE DEF left
<1>9. QED BY <1>3, <1>7, <1>8 DEF s

\* The notice that nobody was answered with comes at the end.
LEMMA MirrorsLate ==
    ASSUME StreamAssumption, CleanText, NEW w, Mirrors(choices, w, {}, TRUE),
           NEW d, d = ContentDelta(0, RecoveryNoticeContent)
    PROVE  Mirrors(MergeDelta(choices, d), MergeDelta(w, d), {}, FALSE)
<1>1. AreChoices(choices) /\ 0 \in Indices /\ RecoveryNoticeContent \in Texts
  BY DEF Mirrors, StreamAssumption, RecoveryNoticeContent, Texts
<1>2. d \in Wires /\ d.content = RecoveryNoticeContent /\ ~Thinks(d)
  BY <1>1, ContentDeltaIs
<1>3. Step({}, d).opened = {} /\ Step({}, d).delta = d
  <2>1. CASE Display
    <3>1. ~(IsText(d.reasoning) /\ d.reasoning # <<>>) /\ d.index \notin {}
      BY <1>2 DEF Thinks
    <3>2. <<>> \o <<>> \o <<>> = <<>>
      OBVIOUS
    <3>3. Mirror({}, d).opened = {} /\ Mirror({}, d).delta = d
      BY <3>1, <3>2 DEF Mirror
    <3>4. QED BY <2>1, <3>3 DEF Step
  <2>2. CASE ~Display
    BY <2>2 DEF Step
  <2>3. QED BY <2>1, <2>2
<1>4. Comes(d, TRUE, FALSE)
  <2>1. <<>> \in Seq(Segments) /\ RecoveryNoticeContent = RecoveryNoticeContent \o <<>>
    BY DEF RecoveryNoticeContent
  <2>2. QED BY <1>2, <2>1 DEF Comes
<1>5. Mirrors(MergeDelta(choices, d), MergeDelta(w, Step({}, d).delta), Step({}, d).opened, FALSE)
  BY <1>2, <1>4, MirrorsStep
<1>6. QED BY <1>3, <1>5

-----------------------------------------------------------------------------
(* The ends of the choices. *)

\* A choice is finished after deltas when it was or one of them finishes it, and
\* is as it was when none is for it.
LEMMA IngestFinish ==
    ASSUME StreamAssumption, NEW cs, AreChoices(cs), NEW s \in Seq(Wires), NEW i \in Indices
    PROVE  /\ IngestChunk(cs, s)[i].finished <=>
                 cs[i].finished \/ \E n \in 1..Len(s) : s[n].index = i /\ s[n].finish
           /\ (\A n \in 1..Len(s) : s[n].index # i) => IngestChunk(cs, s)[i] = cs[i]
<1>1. PICK run : MergeRun(cs, s, run) /\ IngestChunk(cs, s) = run[Len(s)]
  BY MergeRuns DEF IngestChunk
<1> DEFINE P(n) == /\ AreChoices(run[n])
                   /\ run[n][i].finished <=> cs[i].finished \/ \E m \in 1..n : s[m].index = i /\ s[m].finish
                   /\ (\A m \in 1..n : s[m].index # i) => run[n][i] = cs[i]
           T == {n \in 0..Len(s) : P(n)}
<1>2. Len(s) \in Nat
  OBVIOUS
<1>3. 0 \in T
  BY <1>1, <1>2 DEF MergeRun
<1>4. ASSUME NEW n \in 1..Len(s), n - 1 \in T PROVE n \in T
  <2>1. P(n - 1) /\ n \in 0..Len(s) /\ s[n] \in Wires
    BY <1>2, <1>4
  <2>2. run[n] = MergeDelta(run[n - 1], s[n])
    BY <1>1 DEF MergeRun
  <2>3. s[n].index \in Indices
    BY <2>1 DEF Wires
  <2>4. /\ AreChoices(run[n]) /\ \A k \in Indices : k # s[n].index => run[n][k] = run[n - 1][k]
        /\ run[n][s[n].index].finished = (run[n - 1][s[n].index].finished \/ s[n].finish)
    <3> DEFINE c == run[n - 1]
               d == s[n]
               m == MergeDelta(c, d)
    <3>1. AreChoices(c) /\ d \in Wires
      BY <2>1
    <3> HIDE DEF c, d
    <3>2. /\ AreChoices(m) /\ \A k \in Indices : k # d.index => m[k] = c[k]
          /\ m[d.index].finished = (c[d.index].finished \/ d.finish)
      BY <3>1, MergeDeltaIs
    <3>3. run[n] = m
      BY <2>2 DEF c, d
    <3> HIDE DEF m
    <3>4. /\ AreChoices(run[n]) /\ \A k \in Indices : k # d.index => run[n][k] = c[k]
          /\ run[n][d.index].finished = (c[d.index].finished \/ d.finish)
      BY <3>2, <3>3
    <3>5. QED BY <3>4 DEF c, d
  <2>5. \A m : m \in 1..n <=> m \in 1..(n - 1) \/ m = n
    BY <1>2
  <2>6. CASE s[n].index = i
    <3>1. run[n][i].finished = (run[n - 1][i].finished \/ s[n].finish)
      BY <2>4, <2>6
    <3>2. run[n][i].finished <=> cs[i].finished \/ \E m \in 1..n : s[m].index = i /\ s[m].finish
      BY <2>1, <2>5, <2>6, <3>1
    <3>3. ~(\A m \in 1..n : s[m].index # i)
      BY <2>5, <2>6
    <3>4. QED BY <2>1, <2>4, <3>2, <3>3
  <2>7. CASE s[n].index # i
    <3>1. run[n][i] = run[n - 1][i]
      BY <2>4, <2>7
    <3>2. QED BY <2>1, <2>4, <2>5, <2>7, <3>1
  <2>8. QED BY <2>6, <2>7
<1>5. Len(s) \in T
  <2> HIDE DEF T
  <2>1. \A n \in 0..Len(s) : n \in T
    BY <1>2, <1>3, <1>4, InductionTo
  <2>2. QED BY <1>2, <2>1
<1>6. QED BY <1>1, <1>5

\* Delta n of s is for a choice that has ended by then.
Belated(cs, s, n) == \/ cs[s[n].index].finished
                     \/ \E m \in 1..(n - 1) : s[m].index = s[n].index /\ s[m].finish

\* Nothing comes for a choice that has ended, except for those of late.
InTime(cs, s, late) == \A n \in 1..Len(s) : Belated(cs, s, n) => s[n].index \in late

\* Deltas come in time when the first part does and the second does after it.
LEMMA InTimeJoin ==
    ASSUME StreamAssumption, NEW cs, AreChoices(cs), NEW s \in Seq(Wires), NEW t \in Seq(Wires), NEW late
    PROVE  InTime(cs, s \o t, late) <=> InTime(cs, s, late) /\ InTime(IngestChunk(cs, s), t, late)
<1> DEFINE all == s \o t
           w == IngestChunk(cs, s)
<1>1. /\ all \in Seq(Wires) /\ Len(all) = Len(s) + Len(t) /\ Len(s) \in Nat /\ Len(t) \in Nat
      /\ \A n \in 1..Len(s) : all[n] = s[n]
      /\ \A n \in 1..Len(t) : all[Len(s) + n] = t[n]
  <2>1. /\ all \in Seq(Wires) /\ Len(all) = Len(s) + Len(t) /\ Len(s) \in Nat /\ Len(t) \in Nat
    BY JoinIs
  <2>2. \A n \in 1..Len(s) : all[n] = s[n]
    BY JoinIs
  <2>3. ASSUME NEW n \in 1..Len(t) PROVE all[Len(s) + n] = t[n]
    OBVIOUS
  <2>4. QED BY <2>1, <2>2, <2>3
<1> HIDE DEF all
<1>2. \A n \in 1..Len(t) : t[n].index \in Indices
  <2>1. \A d \in Wires : d.index \in Indices
    BY DEF Wires
  <2>2. \A n \in 1..Len(t) : t[n] \in Wires
    OBVIOUS
  <2>3. QED BY <2>1, <2>2
<1>3. \A i \in Indices : w[i].finished <=> cs[i].finished \/ \E n \in 1..Len(s) : s[n].index = i /\ s[n].finish
  BY IngestFinish
<1> HIDE DEF w
<1>4. ASSUME NEW n \in 1..Len(s) PROVE Belated(cs, all, n) <=> Belated(cs, s, n)
  <2>1. all[n] = s[n] /\ \A m \in 1..(n - 1) : all[m] = s[m]
    <3>1. \A m \in 1..(n - 1) : m \in 1..Len(s)
      BY <1>1
    <3>2. \A m \in 1..Len(s) : all[m] = s[m]
      BY <1>1
    <3>3. QED BY <3>1, <3>2
  <2>2. QED BY <2>1 DEF Belated
<1>5. ASSUME NEW n \in 1..Len(t) PROVE Belated(cs, all, Len(s) + n) <=> Belated(w, t, n)
  <2> DEFINE i == t[n].index
             N == Len(s) + n
  <2>1. all[N] = t[n] /\ i \in Indices /\ N \in Nat
    BY <1>1, <1>2
  <2>2. ASSUME NEW m \in 1..(N - 1), all[m].index = i, all[m].finish PROVE Belated(w, t, n)
    <3>1. CASE m <= Len(s)
      <4>1. m \in 1..Len(s) /\ s[m].index = i /\ s[m].finish
        BY <1>1, <2>2, <3>1
      <4>2. QED BY <1>3, <2>1, <4>1 DEF Belated
    <3>2. CASE m > Len(s)
      <4>1. m - Len(s) \in 1..(n - 1) /\ m - Len(s) \in 1..Len(t) /\ m = Len(s) + (m - Len(s))
        BY <1>1, <2>2, <3>2
      <4>2. t[m - Len(s)].index = i /\ t[m - Len(s)].finish
        BY <1>1, <2>2, <4>1
      <4>3. QED BY <4>1, <4>2 DEF Belated
    <3>3. QED BY <1>1, <3>1, <3>2
  <2>3. cs[i].finished => Belated(w, t, n)
    BY <1>3, <2>1 DEF Belated
  <2>4. ASSUME NEW m \in 1..Len(s), s[m].index = i, s[m].finish PROVE Belated(cs, all, N)
    <3>1. m \in 1..(N - 1) /\ all[m].index = i /\ all[m].finish
      BY SMTT(30), <1>1, <2>4
    <3>2. QED BY <2>1, <3>1 DEF Belated
  <2>5. ASSUME NEW m \in 1..(n - 1), t[m].index = i, t[m].finish PROVE Belated(cs, all, N)
    <3>1. Len(s) + m \in 1..(N - 1) /\ all[Len(s) + m].index = i /\ all[Len(s) + m].finish
      BY <1>1, <2>5
    <3>2. QED BY <2>1, <3>1 DEF Belated
  <2>6. cs[i].finished => Belated(cs, all, N)
    BY <2>1 DEF Belated
  <2>7. Belated(cs, all, N) => Belated(w, t, n)
    <3> SUFFICES ASSUME Belated(cs, all, N) PROVE Belated(w, t, n)
      OBVIOUS
    <3>1. cs[i].finished \/ \E m \in 1..(N - 1) : all[m].index = i /\ all[m].finish
      BY <2>1 DEF Belated
    <3>2. QED BY <2>2, <2>3, <3>1
  <2>8. Belated(w, t, n) => Belated(cs, all, N)
    <3> SUFFICES ASSUME Belated(w, t, n) PROVE Belated(cs, all, N)
      OBVIOUS
    <3>1. w[i].finished \/ \E m \in 1..(n - 1) : t[m].index = i /\ t[m].finish
      BY DEF Belated
    <3>2. QED BY <1>3, <2>1, <2>4, <2>5, <2>6, <3>1
  <2>9. QED BY <2>7, <2>8
<1>6. ASSUME InTime(cs, all, late) PROVE InTime(cs, s, late) /\ InTime(w, t, late)
  <2>1. \A n \in 1..Len(s) : n \in 1..Len(all)
    BY <1>1
  <2>2. \A n \in 1..Len(t) : Len(s) + n \in 1..Len(all)
    BY <1>1
  <2>3. InTime(cs, s, late)
    BY <1>1, <1>4, <1>6, <2>1 DEF InTime
  <2>4. InTime(w, t, late)
    BY <1>1, <1>5, <1>6, <2>2 DEF InTime
  <2>5. QED BY <2>3, <2>4
<1>7. ASSUME InTime(cs, s, late), InTime(w, t, late) PROVE InTime(cs, all, late)
  <2> SUFFICES ASSUME NEW n \in 1..Len(all), Belated(cs, all, n) PROVE all[n].index \in late
    BY DEF InTime
  <2>1. CASE n <= Len(s)
    <3>1. n \in 1..Len(s)
      BY <1>1, <2>1
    <3>2. QED BY <1>1, <1>4, <1>7, <3>1 DEF InTime
  <2>2. CASE n > Len(s)
    <3>1. n - Len(s) \in 1..Len(t) /\ n = Len(s) + (n - Len(s))
      BY <1>1, <2>2
    <3>2. Belated(w, t, n - Len(s))
      BY <1>5, <3>1
    <3>3. all[n] = t[n - Len(s)]
      BY <1>1, <3>1
    <3>4. QED BY <1>7, <3>1, <3>2, <3>3 DEF InTime
  <2>3. QED BY <1>1, <2>1, <2>2
<1>8. QED BY <1>6, <1>7 DEF all, w

\* Rewriting a chunk leaves its deltas where they are.
LEMMA RewrittenIs ==
    ASSUME StreamAssumption, NEW opened, NEW s \in Seq(Wires), NEW t, t = Rewritten(opened, s).out
    PROVE  /\ t \in Seq(Wires) /\ Len(t) = Len(s)
           /\ \A n \in 1..Len(s) : t[n].index = s[n].index /\ t[n].finish = s[n].finish
<1>0. t \in Seq(Wires) /\ Len(s) \in Nat
  BY Passages
<1>1. CASE ~Display
  <2>1. t = s
    BY <1>1 DEF Rewritten
  <2>2. QED BY <1>0, <2>1
<1>2. CASE Display
  <2>1. PICK run : /\ RewriteRun([opened |-> opened, out |-> <<>>], s, run)
                   /\ FoldLeft(Rewrite, [opened |-> opened, out |-> <<>>], s) = run[Len(s)]
    BY RewriteRuns
  <2>2. t = run[Len(s)].out
    BY <1>2, <2>1 DEF Rewritten
  <2> DEFINE P(n) == /\ run[n].out \in Seq(Wires) /\ Len(run[n].out) = n
                     /\ \A k \in 1..n : run[n].out[k].index = s[k].index /\ run[n].out[k].finish = s[k].finish
             T == {n \in 0..Len(s) : P(n)}
  <2>3. 0 \in T
    <3>1. run[0].out = <<>>
      BY <2>1 DEF RewriteRun
    <3>2. <<>> \in Seq(Wires) /\ Len(<<>>) = 0
      OBVIOUS
    <3>3. 0 \in 0..Len(s) /\ \A k \in 1..0 : FALSE
      BY <1>0
    <3>4. P(0)
      BY <3>1, <3>2, <3>3
    <3>5. QED BY <3>3, <3>4
  <2>4. ASSUME NEW n \in 1..Len(s), n - 1 \in T PROVE n \in T
    <3> DEFINE a == run[n - 1].out
               d == Mirror(run[n - 1].opened, s[n]).delta
    <3>1. run[n].out = Append(a, d)
      <4>1. run[n] = Rewrite(run[n - 1], s[n])
        BY <2>1 DEF RewriteRun
      <4>2. \A before, x : Rewrite(before, x).out = Append(before.out, Mirror(before.opened, x).delta)
        BY DEF Rewrite
      <4>3. QED BY <4>1, <4>2
    <3>2. s[n] \in Wires /\ n \in 0..Len(s)
      BY <1>0
    <3>3. d \in Wires
      BY <3>2, MirrorIs
    <3>4. d.index = s[n].index /\ d.finish = s[n].finish
      BY <3>2, MirrorKeeps
    <3>5. a \in Seq(Wires) /\ Len(a) = n - 1
          /\ \A k \in 1..(n - 1) : a[k].index = s[k].index /\ a[k].finish = s[k].finish
      BY <2>4
    <3> HIDE DEF a, d
    <3>6. /\ Append(a, d) \in Seq(Wires) /\ Len(Append(a, d)) = n /\ Append(a, d)[n] = d
          /\ \A k \in 1..(n - 1) : Append(a, d)[k] = a[k]
      BY <3>3, <3>5
    <3>7. \A k \in 1..n : k \in 1..(n - 1) \/ k = n
      BY <1>0
    <3>8. P(n)
      BY <3>1, <3>4, <3>5, <3>6, <3>7
    <3>9. QED BY <3>2, <3>8
  <2>5. Len(s) \in T
    <3> HIDE DEF T
    <3>1. \A n \in 0..Len(s) : n \in T
      BY <1>0, <2>3, <2>4, InductionTo
    <3>2. QED BY <1>0, <3>1
  <2>6. QED BY <1>0, <2>2, <2>5
<1>3. QED BY <1>1, <1>2

-----------------------------------------------------------------------------
(* The inductive invariant: what the client assembles with what is on its way. *)

Silent(cs, i) == cs[i].content = <<>> /\ cs[i].calls = <<>>

\* What the client is to assemble of the choices cs: after [DONE] it gets the
\* notice of an answer without a message, which the proxy does not record.
ToldOf(cs, dn) == IF dn /\ Recovered /\ \A i \in Indices : Silent(cs, i)
                  THEN MergeDelta(cs, ContentDelta(0, RecoveryNoticeContent)) ELSE cs

\* The choices that notice may come late for.
ExemptOf(cs, dn) == {i \in Indices : dn /\ Silent(cs, i)}

\* With rest the client has all of cs, and nothing of rest comes too late.
Ahead(cs, w, rest, op, n, dn) ==
    /\ rest \in Seq(Wires)
    /\ IF n = <<>> THEN Mirrors(ToldOf(cs, dn), IngestChunk(w, rest), op, FALSE)
                   ELSE Mirrors(ToldOf(cs, dn), IngestChunk(w, rest), op, TRUE)
    /\ InTime(w, rest, ExemptOf(cs, dn))

\* Before [DONE] the client is to assemble what the proxy has, and nothing may
\* come late.
LEMMA Undone ==
    ASSUME NEW cs
    PROVE  ToldOf(cs, FALSE) = cs /\ ExemptOf(cs, FALSE) = {}
BY DEF ToldOf, ExemptOf

\* With more exceptions what is in time stays so.
LEMMA InTimeMore ==
    ASSUME NEW cs, NEW s, NEW late, NEW more, late \subseteq more, InTime(cs, s, late)
    PROVE  InTime(cs, s, more)
BY DEF InTime

\* At the start the client has everything there is.
LEMMA AheadInit ==
    ASSUME StreamAssumption, NEW cs, cs = [i \in Indices |-> NewChoice],
           NEW n, n = IF Recovered THEN RecoveryNoticeContent ELSE <<>>
    PROVE  Ahead(cs, cs, <<>>, {}, n, FALSE)
<1>1. AreChoices(cs)
  BY NewChoices
<1>2. \A i \in Indices : cs[i] = NewChoice
  OBVIOUS
<1>3. Shows(<<>>, <<>>, FALSE)
  <2>1. Seen(<<>>) = Unread
    <3>1. <<>> \in Seq({})
      OBVIOUS
    <3>2. QED BY <3>1, SeenAppend
  <2>2. <<>> \in Texts
    BY TextIs
  <2>3. Closed(<<>>)
    BY DEF Closed
  <2>4. Keeps(<<>>, <<>>)
    <3>1. [k \in {0} |-> <<>>][0] = <<>> /\ Len(<<>>) = 0 /\ \A k \in 1..0 : FALSE
      OBVIOUS
    <3>2. QED BY <3>1 DEF Keeps
  <2>5. <<>> \in Seq(ToSet(<<>>))
    OBVIOUS
  <2>6. QED BY <2>1, <2>2, <2>3, <2>4, <2>5 DEF Shows, Unread
<1>4. Showing(cs, cs, {})
  BY <1>2, <1>3 DEF Showing, ShowsIn, NewChoice
<1>5. Agrees(cs, cs) /\ Opened(cs, {})
  BY <1>2 DEF Agrees, Opened, NewChoice
<1>6. NoAnswer(cs, cs)
  BY <1>2 DEF NoAnswer, NewChoice, NoticeAt
<1>7. IngestChunk(cs, <<>>) = cs /\ ToldOf(cs, FALSE) = cs /\ <<>> \in Seq(Wires)
  BY IngestOne, Undone
<1>8. InTime(cs, <<>>, ExemptOf(cs, FALSE))
  BY DEF InTime
<1>9. n = <<>> <=> ~Recovered
  BY DEF RecoveryNoticeContent, StreamAssumption
<1>10. CASE n = <<>>
  <2>1. Mirrors(cs, cs, {}, FALSE)
    BY <1>1, <1>4, <1>5, <1>9, <1>10 DEF Mirrors
  <2>2. QED BY <1>7, <1>8, <1>10, <2>1 DEF Ahead
<1>11. CASE n # <<>>
  <2>1. Mirrors(cs, cs, {}, TRUE)
    BY <1>1, <1>4, <1>5, <1>6 DEF Mirrors
  <2>2. QED BY <1>7, <1>8, <1>11, <2>1 DEF Ahead
<1>12. QED BY <1>10, <1>11

\* A data line.
LEMMA AheadData ==
    ASSUME StreamAssumption, CleanText, NEW chunk \in Chunks, Types,
           \A i \in DOMAIN chunk : ~choices[chunk[i].index].finished,
           NEW rest, Ahead(choices, client, rest, open, notice, FALSE),
           NEW s, s = InjectRecoveryNotice(chunk), NEW n, n = IF s # chunk THEN <<>> ELSE notice
    PROVE  Ahead(IngestChunk(choices, s), client, rest \o Rewritten(open, s).out,
                 Rewritten(open, s).opened, n, FALSE)
<1> DEFINE w == IngestChunk(client, rest)
           cs == IngestChunk(choices, s)
           out == Rewritten(open, s).out
           op == Rewritten(open, s).opened
<1>1. notice \in {<<>>, RecoveryNoticeContent} /\ AreChoices(client)
  BY DEF Types
<1>2. /\ rest \in Seq(Wires) /\ InTime(client, rest, {})
      /\ IF notice = <<>> THEN Mirrors(choices, w, open, FALSE) ELSE Mirrors(choices, w, open, TRUE)
  BY Undone DEF Ahead
<1>3. /\ s \in Seq(Wires) /\ Onward(s, choices, 0)
      /\ \A i, j \in DOMAIN s : i < j /\ s[i].finish => s[j].index # s[i].index
  BY <1>1, ArrivesIs
<1>4. out \in Seq(Wires) /\ Len(out) = Len(s) /\ Len(s) \in Nat
      /\ \A k \in 1..Len(s) : out[k].index = s[k].index /\ out[k].finish = s[k].finish
  BY <1>3, RewrittenIs
<1>5. IngestChunk(client, rest \o out) = IngestChunk(w, out) /\ rest \o out \in Seq(Wires)
  BY <1>2, <1>4, IngestJoin, JoinIs
<1>6. Agrees(choices, w)
  BY <1>2 DEF Mirrors
<1>7. InTime(w, out, {})
  <2> SUFFICES ASSUME NEW k \in 1..Len(out), Belated(w, out, k) PROVE FALSE
    BY DEF InTime
  <2>1. k \in 1..Len(s) /\ k \in DOMAIN s /\ s[k] \in Wires /\ out[k].index = s[k].index
    BY <1>3, <1>4
  <2>2. s[k].index \in Indices
    BY <2>1 DEF Wires
  <2>3. ~w[s[k].index].finished
    <3>1. ~choices[s[k].index].finished
      BY <1>3, <1>4, <2>1 DEF Onward
    <3>2. QED BY <1>6, <2>2, <3>1 DEF Agrees
  <2>4. ASSUME NEW m \in 1..(k - 1), out[m].index = out[k].index, out[m].finish PROVE FALSE
    <3>1. m \in 1..Len(s) /\ m \in DOMAIN s /\ m < k
      BY <1>3, <1>4, <2>1
    <3>2. s[m].index = s[k].index /\ s[m].finish
      BY <1>4, <2>1, <2>4, <3>1
    <3>3. QED BY <1>3, <2>1, <3>1, <3>2
  <2>5. QED BY <2>1, <2>3, <2>4 DEF Belated
<1>8. InTime(client, rest \o out, {})
  BY <1>1, <1>2, <1>4, <1>7, InTimeJoin
<1>9. IF n = <<>> THEN Mirrors(cs, IngestChunk(w, out), op, FALSE) ELSE Mirrors(cs, IngestChunk(w, out), op, TRUE)
  <2> HIDE DEF w
  <2> DEFINE p == notice # <<>>
             l == notice # <<>> /\ s = chunk
  <2>1. Mirrors(choices, w, open, p)
    <3>1. CASE notice = <<>>
      <4>1. p = FALSE
        BY <3>1
      <4>2. QED BY <1>2, <3>1, <4>1
    <3>2. CASE notice # <<>>
      <4>1. p = TRUE
        BY <3>2
      <4>2. QED BY <1>2, <3>2, <4>1
    <3>3. QED BY <3>1, <3>2
  <2>2. Mirrors(cs, IngestChunk(w, out), op, l)
    <3>1. Mirrors(choices, w, open, notice # <<>>)
      BY <2>1
    <3>2. QED BY <1>1, <3>1, MirrorsChunk
  <2>3. n = <<>> <=> ~l
    OBVIOUS
  <2> HIDE DEF cs, out, op
  <2>4. CASE l
    <3>1. l = TRUE
      BY <2>4
    <3> HIDE DEF l
    <3>2. Mirrors(cs, IngestChunk(w, out), op, TRUE)
      BY <2>2, <3>1
    <3>3. QED BY <2>3, <2>4, <3>2
  <2>5. CASE ~l
    <3>1. l = FALSE
      BY <2>5
    <3> HIDE DEF l
    <3>2. Mirrors(cs, IngestChunk(w, out), op, FALSE)
      BY <2>2, <3>1
    <3>3. QED BY <2>3, <2>5, <3>2
  <2>6. QED BY <2>4, <2>5
<1> HIDE DEF cs, out, op
<1>10. QED BY <1>5, <1>8, <1>9, Undone DEF Ahead, cs, out, op

\* [DONE]: the open blocks are closed, and a notice still to be shown is.
LEMMA AheadDone ==
    ASSUME StreamAssumption, CleanText, Types, notice # <<>> => Recovered,
           NEW rest, Ahead(choices, client, rest, open, notice, FALSE)
    PROVE  Ahead(choices, client, rest \o (FlushChunk \o RecoveryNoticeChunk), {}, <<>>, TRUE)
<1> DEFINE s == FlushChunk
           t == RecoveryNoticeChunk
           w == IngestChunk(client, rest)
           v == IngestChunk(w, s)
           E == ExemptOf(choices, TRUE)
           d == ContentDelta(0, RecoveryNoticeContent)
<1>1. /\ notice \in {<<>>, RecoveryNoticeContent} /\ AreChoices(client) /\ AreChoices(choices)
      /\ Opened(choices, open)
  BY DEF Types
<1>2. /\ rest \in Seq(Wires) /\ InTime(client, rest, {})
      /\ notice = <<>> => Mirrors(choices, w, open, FALSE)
      /\ notice # <<>> => Mirrors(choices, w, open, TRUE)
  BY Undone DEF Ahead
<1>3. open \subseteq Indices
  BY <1>1 DEF Opened
<1>4. s \in Seq(Wires) /\ t \in Seq(Wires) /\ s \o t \in Seq(Wires) /\ rest \o (s \o t) \in Seq(Wires)
  <2>1. s \in Seq(Wires) /\ t \in Seq(Wires)
    BY <1>1, <1>3, MadeUp
  <2> HIDE DEF s, t
  <2>2. s \o t \in Seq(Wires)
    BY <2>1
  <2>3. QED BY <1>2, <2>1, <2>2, JoinIs
<1>5. AreChoices(w) /\ AreChoices(v)
  BY <1>1, <1>2, <1>4, IngestTypes
<1>6. IngestChunk(client, rest \o (s \o t)) = IngestChunk(v, t)
  <2> DEFINE u == s \o t
  <2>1. u \in Seq(Wires)
    BY <1>4
  <2> HIDE DEF u, s, t
  <2>2. IngestChunk(client, rest \o u) = IngestChunk(w, u)
    BY <1>2, <2>1, IngestJoin
  <2>3. IngestChunk(w, s \o t) = IngestChunk(v, t)
    BY <1>4, IngestJoin
  <2>4. QED BY <2>2, <2>3 DEF u
<1>7. /\ notice = <<>> => Mirrors(choices, v, {}, FALSE)
      /\ notice # <<>> => Mirrors(choices, v, {}, TRUE)
  BY <1>2, MirrorsFlush
<1>8. \A i \in open : ~w[i].finished
  <2>1. Agrees(choices, w)
    BY <1>2 DEF Mirrors
  <2>2. QED BY <1>1, <2>1 DEF Opened, Agrees
<1>9. InTime(w, s, E)
  <2> SUFFICES ASSUME NEW k \in 1..Len(s), Belated(w, s, k) PROVE FALSE
    BY DEF InTime
  <2>1. s \in Seq({ContentDelta(i, <<"close">>) : i \in open})
    BY <1>3, FlushIs
  <2> HIDE DEF s
  <2>2. \A m \in 1..Len(s) : \E i \in open : s[m] = ContentDelta(i, <<"close">>)
    BY <2>1
  <2>c. \A i : ContentDelta(i, <<"close">>).index = i /\ ContentDelta(i, <<"close">>).finish = FALSE
    BY DEF ContentDelta
  <2>3. \A m \in 1..Len(s) : s[m].index \in open /\ ~s[m].finish
    BY <2>2, <2>c
  <2>4. \A m \in 1..(k - 1) : m \in 1..Len(s)
    BY <2>1
  <2>5. QED BY <1>8, <2>3, <2>4 DEF Belated
<1>10. InTime(v, t, E) /\ /\ ToldOf(choices, TRUE) = IF notice = <<>> THEN choices ELSE MergeDelta(choices, d)
                          /\ Mirrors(ToldOf(choices, TRUE), IngestChunk(v, t), {}, FALSE)
  <2> HIDE DEF v, d
  <2>1. CASE notice = <<>>
    <3>1. t = <<>>
      BY <2>1 DEF RecoveryNoticeChunk
    <3>2. InTime(v, t, E)
      BY <3>1 DEF InTime
    <3>3. Mirrors(choices, v, {}, FALSE)
      BY <1>7, <2>1
    <3>4. ToldOf(choices, TRUE) = choices
      <4>1. Recovered => OneNotice(choices, v)
        BY <3>3 DEF Mirrors
      <4>2. Recovered => \E i \in Indices : ~Silent(choices, i)
        BY <4>1 DEF OneNotice, Silent
      <4>3. QED BY <4>2 DEF ToldOf
    <3>5. IngestChunk(v, t) = v
      BY <3>1, IngestOne
    <3>6. QED BY <2>1, <3>2, <3>3, <3>4, <3>5
  <2>2. CASE notice # <<>>
    <3>1. t = <<d>>
      BY <1>1, <2>2 DEF RecoveryNoticeChunk, d
    <3>2. Mirrors(choices, v, {}, TRUE)
      BY <1>7, <2>2
    <3>3. \A i \in Indices : Silent(choices, i)
      BY <3>2 DEF Mirrors, NoAnswer, Silent
    <3>4. ToldOf(choices, TRUE) = MergeDelta(choices, d)
      BY <2>2, <3>3 DEF ToldOf, d
    <3>5. IngestChunk(v, t) = MergeDelta(v, d)
      BY <3>1, IngestOne
    <3>6. Mirrors(MergeDelta(choices, d), MergeDelta(v, d), {}, FALSE)
      BY <3>2, MirrorsLate DEF d
    <3>7. InTime(v, t, E)
      <4>1. E = Indices /\ d.index = 0 /\ 0 \in Indices
        BY <3>3 DEF ExemptOf, ContentDelta, StreamAssumption, d
      <4> HIDE DEF E
      <4>2. \A k \in 1..Len(<<d>>) : <<d>>[k] = d
        OBVIOUS
      <4>3. \A k \in 1..Len(<<d>>) : <<d>>[k].index \in E
        BY <4>1, <4>2
      <4>4. QED BY <3>1, <4>3 DEF InTime
    <3>8. QED BY <2>2, <3>4, <3>5, <3>6, <3>7
  <2>3. QED BY <2>1, <2>2
<1>11. InTime(client, rest \o (s \o t), E)
  <2>1. InTime(client, rest, E)
    BY <1>2, InTimeMore
  <2> HIDE DEF s, t, E
  <2>2. InTime(w, s \o t, E)
    BY <1>4, <1>5, <1>9, <1>10, InTimeJoin
  <2>3. QED BY <1>1, <1>2, <1>4, <2>1, <2>2, InTimeJoin
<1>12. QED BY <1>4, <1>6, <1>10, <1>11 DEF Ahead

\* What has left the server has been assembled.
LEMMA AheadTransmit ==
    ASSUME StreamAssumption, Types, NEW n \in 1..Len(buffer), NEW dn,
           Ahead(choices, client, buffer \o line, open, notice, dn)
    PROVE  Ahead(choices, IngestChunk(client, SubSeq(buffer, 1, n)),
                 SubSeq(buffer, n + 1, Len(buffer)) \o line, open, notice, dn)
<1> DEFINE a == SubSeq(buffer, 1, n)
           b == SubSeq(buffer, n + 1, Len(buffer))
           w == IngestChunk(client, a)
<1>1. AreChoices(client) /\ line \in Seq(Wires) /\ buffer \in Seq(Wires)
  BY DEF Types
<1>2. a \in Seq(Wires) /\ b \in Seq(Wires) /\ buffer = a \o b
  BY <1>1
<1> HIDE DEF a, b
<1>3. b \o line \in Seq(Wires) /\ buffer \o line = a \o (b \o line)
  <2>1. b \o line \in Seq(Wires)
    BY <1>1, <1>2
  <2>2. QED BY SMTT(30), <1>1, <1>2, <2>1, JoinAssoc
<1>4. IngestChunk(client, buffer \o line) = IngestChunk(w, b \o line)
  <2> DEFINE u == b \o line
  <2>1. u \in Seq(Wires) /\ buffer \o line = a \o u
    BY <1>3
  <2> HIDE DEF u
  <2>2. IngestChunk(client, a \o u) = IngestChunk(w, u)
    BY <1>2, <2>1, IngestJoin
  <2>3. QED BY <2>1, <2>2 DEF u
<1>5. InTime(w, b \o line, ExemptOf(choices, dn))
  <2>1. InTime(client, a \o (b \o line), ExemptOf(choices, dn))
    BY <1>3 DEF Ahead
  <2>2. QED BY <1>1, <1>2, <1>3, <2>1, InTimeJoin
<1>6. QED BY <1>3, <1>4, <1>5 DEF Ahead, a, b

Tracked(rest) == /\ Ahead(choices, client, rest, open, notice, done)
                 /\ ~lost /\ phase # "crashed" => rest = buffer \o line

MirrorInv == /\ TypeInv
             /\ \E rest : Tracked(rest)
             /\ done \in BOOLEAN
             /\ phase \in {"reading", "ending"} => ~done
             /\ done => notice = <<>> /\ open = {}
             /\ lost => buffer = <<>>
             /\ notice # <<>> => Recovered

\* MirrorInv holds at the start.
LEMMA MirrorInit == CleanText /\ Init => MirrorInv
<1> SUFFICES ASSUME CleanText, Init PROVE MirrorInv
  OBVIOUS
<1>1. TypeInv
  BY TypeInit
<1>2. Ahead(choices, client, <<>>, {}, notice, FALSE)
  BY StreamAssumption, AheadInit DEF Init
<1>3. Tracked(<<>>)
  <2>1. open = {} /\ done = FALSE /\ buffer = <<>> /\ line = <<>>
    BY DEF Init
  <2>2. <<>> \o <<>> = <<>>
    OBVIOUS
  <2>3. QED BY <1>2, <2>1, <2>2 DEF Tracked
<1>4. QED BY <1>1, <1>3 DEF MirrorInv, Init

\* Every step keeps MirrorInv.
LEMMA MirrorStep == CleanText /\ MirrorInv /\ [Next]_vars => MirrorInv'
<1> SUFFICES ASSUME CleanText, MirrorInv, [Next]_vars PROVE MirrorInv'
  OBVIOUS
<1>0. StreamAssumption
  BY StreamAssumption
<1>t. TypeInv'
  BY TypeStep DEF MirrorInv
<1>i. /\ Types /\ done \in BOOLEAN
      /\ phase # "writing" => line = <<>>
      /\ line \in Seq(Wires) /\ buffer \in Seq(Wires)
      /\ phase \in {"reading", "ending"} => ~done
      /\ done => notice = <<>> /\ open = {}
      /\ lost => buffer = <<>>
      /\ notice # <<>> => Recovered
  BY DEF MirrorInv, TypeInv, TypeOK, Types
<1>r. PICK rest : Tracked(rest)
  BY DEF MirrorInv
<1>a. /\ Ahead(choices, client, rest, open, notice, done)
      /\ ~lost /\ phase # "crashed" => rest = buffer \o line
  BY <1>r DEF Tracked
<1>w. \A s \in Seq(Wires) : s \o <<>> = s
  OBVIOUS
<1>1. ASSUME NEW chunk \in Chunks, Data(chunk) PROVE MirrorInv'
  <2> DEFINE s == InjectRecoveryNotice(chunk)
  <2>1. /\ phase = "reading" /\ phase' = "writing"
        /\ \A i \in DOMAIN chunk : ~choices[chunk[i].index].finished
        /\ choices' = IngestChunk(choices, s)
        /\ notice' = IF s # chunk THEN <<>> ELSE notice
        /\ open' = Rewritten(open, s).opened
        /\ line' = Rewritten(open, s).out
        /\ buffer' = buffer /\ client' = client /\ done' = done /\ lost' = lost
    BY <1>1 DEF Data, Rewritten, RewriteChunk
  <2>2. done = FALSE /\ line = <<>>
    BY <1>i, <2>1
  <2> HIDE DEF s
  <2>3. Ahead(IngestChunk(choices, s), client, rest \o Rewritten(open, s).out,
              Rewritten(open, s).opened, notice', FALSE)
    <3>1. Ahead(choices, client, rest, open, notice, FALSE)
      BY <1>a, <2>2
    <3>2. s = InjectRecoveryNotice(chunk)
      BY DEF s
    <3>3. QED BY <1>0, <1>i, <2>1, <3>1, <3>2, AheadData
  <2>4. Tracked(rest \o line)'
    BY <1>a, <1>i, <1>w, <2>1, <2>2, <2>3 DEF Tracked
  <2>5. QED BY <1>i, <1>t, <2>1, <2>2, <2>4 DEF MirrorInv
<1>2. ASSUME Done PROVE MirrorInv'
  <2>1. /\ phase = "reading" /\ phase' = "writing" /\ line' = FlushChunk \o RecoveryNoticeChunk
        /\ open' = {} /\ notice' = <<>> /\ done' = TRUE
        /\ choices' = choices /\ buffer' = buffer /\ client' = client /\ lost' = lost
    BY <1>2 DEF Done
  <2>2. done = FALSE /\ line = <<>>
    BY <1>i, <2>1
  <2>3. Ahead(choices, client, rest \o (FlushChunk \o RecoveryNoticeChunk), {}, <<>>, TRUE)
    <3>1. Ahead(choices, client, rest, open, notice, FALSE)
      BY <1>a, <2>2
    <3>2. QED BY <1>0, <1>i, <3>1, AheadDone
  <2>4. Tracked(rest \o line)'
    BY <1>a, <1>i, <1>w, <2>1, <2>2, <2>3 DEF Tracked
  <2>5. QED BY <1>i, <1>t, <2>1, <2>4 DEF MirrorInv
<1>3. ASSUME Write PROVE MirrorInv'
  <2>1. /\ phase = "writing" /\ line' = <<>> /\ phase' \in {"closed", "reading", "ending"}
        /\ choices' = choices /\ notice' = notice /\ open' = open /\ done' = done /\ lost' = lost
        /\ client' = client
        /\ ~lost => buffer' = buffer \o line
        /\ lost => buffer' \in {<<>>, buffer}
        /\ phase' \in {"reading", "ending"} => ~done
    BY <1>3 DEF Write, Flusher
  <2>2. Tracked(rest)'
    <3>1. ~lost => rest = buffer' \o line'
      <4>1. buffer \o line \in Seq(Wires)
        BY <1>i
      <4>2. QED BY <1>a, <1>w, <2>1, <4>1
    <3>2. QED BY <1>a, <2>1, <3>1 DEF Tracked
  <2>3. QED BY <1>i, <1>t, <2>1, <2>2 DEF MirrorInv
<1>4. ASSUME Transmit PROVE MirrorInv'
  <2>1. PICK n \in 1..Len(buffer) : /\ client' = IngestChunk(client, SubSeq(buffer, 1, n))
                                    /\ buffer' = SubSeq(buffer, n + 1, Len(buffer))
    BY <1>4 DEF Transmit
  <2>2. /\ phase # "crashed"
        /\ UNCHANGED <<phase, received, choices, stored, rows, notice, open, line, done, lost>>
    BY <1>4 DEF Transmit
  <2>3. ~lost
    <3>1. buffer # <<>>
      BY <1>i, <2>1
    <3>2. QED BY <1>i, <3>1
  <2>4. Ahead(choices, client, buffer \o line, open, notice, done)
    BY <1>a, <2>2, <2>3
  <2>5. PICK r : r = SubSeq(buffer, n + 1, Len(buffer)) \o line
    OBVIOUS
  <2>6. Ahead(choices, client', r, open, notice, done)
    <3>1. Ahead(choices, IngestChunk(client, SubSeq(buffer, 1, n)),
                SubSeq(buffer, n + 1, Len(buffer)) \o line, open, notice, done)
      BY <1>0, <1>i, <2>4, AheadTransmit
    <3>2. QED BY <2>1, <2>5, <3>1
  <2>7. Tracked(r)'
    BY <2>1, <2>2, <2>5, <2>6 DEF Tracked
  <2>8. QED BY <1>i, <1>t, <2>2, <2>3, <2>7 DEF MirrorInv
<1>5. ASSUME Hangup PROVE MirrorInv'
  <2>1. lost' = TRUE /\ buffer' = <<>>
        /\ UNCHANGED <<phase, received, choices, stored, rows, notice, open, line, done, client>>
    BY <1>5 DEF Hangup
  <2>2. Tracked(rest)'
    BY <1>a, <2>1 DEF Tracked
  <2>3. QED BY <1>i, <1>t, <2>1, <2>2 DEF MirrorInv
<1>6. ASSUME ReadEnds PROVE MirrorInv'
  <2>1. /\ phase = "reading" /\ phase' = "ending"
        /\ UNCHANGED <<received, choices, stored, rows, notice, open, line, buffer, done, client, lost>>
    BY <1>6 DEF ReadEnds
  <2>2. Tracked(rest)'
    BY <1>a, <2>1 DEF Tracked
  <2>3. QED BY <1>i, <1>t, <2>1, <2>2 DEF MirrorInv
<1>7. ASSUME StoreRest PROVE MirrorInv'
  <2>1. /\ phase = "ending" /\ phase' = "closed"
        /\ UNCHANGED <<received, choices, notice, open, line, buffer, done, client, lost>>
    BY <1>7 DEF StoreRest
  <2>2. Tracked(rest)'
    BY <1>a, <2>1 DEF Tracked
  <2>3. QED BY <1>i, <1>t, <2>1, <2>2 DEF MirrorInv
<1>8. ASSUME Crash PROVE MirrorInv'
  <2>1. /\ phase' = "crashed" /\ line' = <<>>
        /\ UNCHANGED <<received, choices, stored, rows, notice, open, buffer, done, client, lost>>
    BY <1>8 DEF Crash
  <2>2. Tracked(rest)'
    BY <1>a, <2>1 DEF Tracked
  <2>3. QED BY <1>i, <1>t, <2>1, <2>2 DEF MirrorInv
<1>9. CASE UNCHANGED vars
  <2>1. Tracked(rest)'
    BY <1>a, <1>9 DEF Tracked, vars
  <2>2. QED BY <1>i, <1>t, <1>9, <2>1 DEF MirrorInv, vars
<1>10. QED
  BY <1>1, <1>2, <1>3, <1>4, <1>5, <1>6, <1>7, <1>8, <1>9 DEF Next

\* MirrorInv at a moment when the client has everything.
LEMMA Level ==
    ASSUME MirrorInv, UpToDate, phase \in {"reading", "ending", "closed"}
    PROVE  IF notice = <<>> THEN Mirrors(ToldOf(choices, done), client, open, FALSE)
                            ELSE Mirrors(ToldOf(choices, done), client, open, TRUE)
<1>1. PICK rest : Tracked(rest)
  BY DEF MirrorInv
<1>2. ~lost /\ buffer = <<>> /\ line = <<>>
  BY DEF UpToDate, MirrorInv, TypeInv, TypeOK
<1>3. rest = <<>>
  <2>1. <<>> \o <<>> = <<>>
    OBVIOUS
  <2>2. QED BY <1>1, <1>2, <2>1 DEF Tracked
<1>4. IngestChunk(client, rest) = client
  BY <1>3, IngestOne
<1>5. Ahead(choices, client, rest, open, notice, done)
  BY <1>1 DEF Tracked
<1>6. QED BY <1>4, <1>5 DEF Ahead

\* What the client sends back of a choice it has all of.
LEMMA SendsBack ==
    ASSUME NEW cs, NEW w0, NEW op, NEW pending \in BOOLEAN, Mirrors(cs, w0, op, pending),
           NEW i \in Indices, w0[i] = client[i], Unharmed(i)
    PROVE  SentBack(i).content = cs[i].content /\ SentBack(i).calls = cs[i].calls
<1>1. ShowsIn(client[i].content, cs[i].content, i, op)
  BY DEF Mirrors, Showing
<1>2. StripCursorThinkingBlocks(Blocks(client[i].content)) = cs[i].content
  <2> DEFINE w == client[i].content
             c == cs[i].content
  <2>1. \E inside \in BOOLEAN : Shows(w, c, inside)
    BY <1>1 DEF ShowsIn
  <2>2. Neat(Blocks(w))
    BY DEF Unharmed, Neat
  <2> HIDE DEF w, c
  <2>3. StripCursorThinkingBlocks(Blocks(w)) = c
    BY <2>1, <2>2, ShowsIs
  <2>4. QED BY <2>3 DEF w, c
<1>3. IsChoice(client[i])
  BY DEF Mirrors, AreChoices
<1>4. "content" \in DOMAIN client[i]
  BY <1>3 DEF IsChoice
<1>5. SentBack(i).calls = client[i].calls
  BY DEF SentBack
<1>6. client[i].calls = cs[i].calls
  BY DEF Mirrors, Agrees
<1>7. QED BY <1>2, <1>4, <1>5, <1>6 DEF SentBack

\* A message the client has with the notice in front comes back with the
\* notice in front, white space or not.
LEMMA SendsNotice ==
    ASSUME NEW cs, NEW w0, NEW op, NEW pending \in BOOLEAN, Mirrors(cs, w0, op, pending),
           NEW i \in Indices, w0[i] = client[i],
           cs[i].content # <<>>, cs[i].content[1] = "notice"
    PROVE  SentBack(i).content # <<>> /\ SentBack(i).content[1] = "notice"
<1>1. ShowsIn(client[i].content, cs[i].content, i, op)
  BY DEF Mirrors, Showing
<1> DEFINE w == client[i].content
           c == cs[i].content
           back == StripCursorThinkingBlocks(Blocks(w))
<1>2. \E inside \in BOOLEAN : Shows(w, c, inside)
  BY <1>1 DEF ShowsIn
<1>3. c # <<>> /\ c[1] = "notice"
  OBVIOUS
<1>4. "content" \in DOMAIN client[i]
  BY DEF Mirrors, AreChoices, IsChoice
<1>5. SentBack(i).content = back
  BY <1>4 DEF SentBack
<1> HIDE DEF w, c
<1>6. back # <<>> /\ back[1] = "notice"
  BY <1>2, <1>3, NoticeComesBack
<1>7. QED BY <1>5, <1>6

\* Mirrored thinking is transparent, for any upstream whose text has none of
\* the proxy's marks and however it is spread over any number of chunks:
\* whenever the client is up to date, what it sends back of a message without
\* white space right behind a mirrored block is what the proxy has accumulated
\* (display.go:39-116, transform.go:46, 130-132).
THEOREM MirrorTransparentHolds == CleanText => (Spec => []MirrorTransparent)
<1>1. CleanText => (Spec => []MirrorInv)
  <2> SUFFICES ASSUME CleanText PROVE Spec => []MirrorInv
    OBVIOUS
  <2>1. Init => MirrorInv
    BY MirrorInit
  <2>2. MirrorInv /\ [Next]_vars => MirrorInv'
    BY MirrorStep
  <2>3. QED BY <2>1, <2>2, PTL DEF Spec
<1>2. MirrorInv => MirrorTransparent
  <2> SUFFICES ASSUME MirrorInv, UpToDate, phase \in {"reading", "ending"}, NEW i \in Indices, Unharmed(i)
               PROVE  SentBack(i).content = choices[i].content
    BY DEF MirrorTransparent
  <2>1. done = FALSE
    BY DEF MirrorInv
  <2>2. ToldOf(choices, done) = choices
    BY <2>1, Undone
  <2>3. IF notice = <<>> THEN Mirrors(choices, client, open, FALSE)
                         ELSE Mirrors(choices, client, open, TRUE)
    BY <2>2, Level
  <2>4. \E pending \in BOOLEAN : Mirrors(choices, client, open, pending)
    BY <2>3
  <2>5. QED BY <2>4, SendsBack
<1>3. QED BY <1>1, <1>2, PTL

\* After [DONE] the client has every mirrored block closed and, of a recovered
\* request, the notice once and in front of a message, for any upstream whose
\* text has none of the proxy's marks (display.go:105-116, sse.go:56-66).
THEOREM DoneCompleteHolds == CleanText => (Spec => []DoneComplete)
<1>1. CleanText => (Spec => []MirrorInv)
  <2> SUFFICES ASSUME CleanText PROVE Spec => []MirrorInv
    OBVIOUS
  <2>1. Init => MirrorInv
    BY MirrorInit
  <2>2. MirrorInv /\ [Next]_vars => MirrorInv'
    BY MirrorStep
  <2>3. QED BY <2>1, <2>2, PTL DEF Spec
<1>2. MirrorInv => DoneComplete
  <2> SUFFICES ASSUME MirrorInv, UpToDate, done, phase = "closed"
               PROVE  /\ \A i \in Indices : Closed(client[i].content)
                      /\ Recovered =>
                            /\ \E i \in Indices : HasRecoveryNotice([role |-> "assistant",
                                                                     content |-> SentBack(i).content])
                            /\ Cardinality(UNION {{i} \X Notices(i) : i \in Indices}) = 1
    BY DEF DoneComplete, Closed
  <2> DEFINE told == ToldOf(choices, done)
  <2>1. notice = <<>> /\ open = {}
    BY DEF MirrorInv
  <2>2. Mirrors(told, client, {}, FALSE)
    BY <2>1, Level
  <2> HIDE DEF told
  <2>3. ASSUME NEW i \in Indices PROVE Closed(client[i].content)
    BY <2>2 DEF Mirrors, Showing, ShowsIn, Shows
  <2>4. ASSUME Recovered
        PROVE  /\ \E i \in Indices : HasRecoveryNotice([role |-> "assistant",
                                                        content |-> SentBack(i).content])
               /\ Cardinality(UNION {{i} \X Notices(i) : i \in Indices}) = 1
    <3>1. PICK i \in Indices : /\ told[i].content # <<>> /\ told[i].content[1] = "notice"
                               /\ \E j : NoticeAt(client[i].content) = {j}
                               /\ \A k \in Indices : k # i => NoticeAt(client[k].content) = {}
      BY <2>2, <2>4 DEF Mirrors, OneNotice
    <3>2. SentBack(i).content # <<>> /\ SentBack(i).content[1] = "notice"
      BY <2>2, <3>1, SendsNotice
    <3>3. HasRecoveryNotice([role |-> "assistant", content |-> SentBack(i).content])
      BY <3>2 DEF HasRecoveryNotice
    <3>4. PICK j : NoticeAt(client[i].content) = {j}
      BY <3>1
    <3>5. \A k \in Indices : Notices(k) = NoticeAt(client[k].content)
      BY DEF Notices, NoticeAt
    <3>6. UNION {{k} \X Notices(k) : k \in Indices} = {<<i, j>>}
      <4>1. \A k \in Indices : Notices(k) = IF k = i THEN {j} ELSE {}
        BY <3>1, <3>4, <3>5
      <4>2. \A k \in Indices : {k} \X Notices(k) = IF k = i THEN {<<i, j>>} ELSE {}
        BY <4>1
      <4>3. QED BY <4>2
    <3>7. QED BY <3>3, <3>6, FS_Singleton
  <2>5. QED BY <2>3, <2>4
<1>3. QED BY <1>1, <1>2, PTL

-----------------------------------------------------------------------------
(* The rows of an answer: what a recording writes. *)

\* The keys of a choice in context x.
KeysOf(x, c) == {k \in ToSet(KeysAt(x, c)) : IsKey(k)}

\* Choice i is written to context x.
Due(cs, stage, i, x) == cs[i].reasoning # Absent /\ stage[i] > stored[<<i, x>>]

\* The last of an order that does something does it.
LEMMA LastInOrder ==
    ASSUME NEW S, IsFiniteSet(S), NEW order \in SetToSeqs(S), NEW W \in SUBSET S, W # {},
           NEW I, I = {n \in 1..Len(order) : order[n] \in W}
    PROVE  I # {} /\ order[Max(I)] \in W
<1> DEFINE N == Cardinality(S)
<1>1. /\ order \in [1..N -> S]
      /\ \A a, b \in 1..N : order[a] = order[b] => a = b
  BY DEF SetToSeqs
<1>2. N \in Nat /\ \A x \in S : \E n \in 1..N : order[n] = x
  BY ONLY <1>1, IsFiniteSet(S), Enumerates
<1> HIDE DEF N
<1>3. Len(order) = N
  BY <1>1, <1>2
<1>4. I # {} /\ I \subseteq 1..N
  BY <1>2, <1>3
<1>5. Max(I) \in I
  BY <1>2, <1>4, MaxIs
<1>6. QED BY <1>4, <1>5

\* A choice that is due has key k, ...
Written(cs, stage, k) ==
    \E i \in Indices, x \in Contexts : Due(cs, stage, i, x) /\ k \in KeysOf(x, cs[i])

\* ... and R has its reasoning there.
WrittenBy(cs, stage, k, R) ==
    \E i \in Indices, x \in Contexts : /\ Due(cs, stage, i, x) /\ k \in KeysOf(x, cs[i])
                                       /\ R[k] = cs[i].reasoning

\* A recording writes every key of the choices that are due, each with the
\* reasoning of a choice that has it, and leaves the other rows alone.
LEMMA StoreRows ==
    ASSUME StreamAssumption, NEW cs, AreChoices(cs), NEW stage, Store(cs, stage)
    PROVE  /\ DOMAIN rows' = DOMAIN rows \cup {k \in DOMAIN rows' : Written(cs, stage, k)}
           /\ \A k : Written(cs, stage, k) => k \in DOMAIN rows' /\ WrittenBy(cs, stage, k, rows')
           /\ \A k \in DOMAIN rows' : Written(cs, stage, k) \/ (k \in DOMAIN rows /\ rows'[k] = rows[k])
<1> DEFINE due == {p \in Indices \X Contexts : /\ cs[p[1]].reasoning # Absent
                                               /\ stage[p[1]] > stored[p]}
           Keys(p) == {k \in ToSet(KeysAt(p[2], cs[p[1]])) : IsKey(k)}
           writes == UNION {{p[1]} \X Keys(p) : p \in due}
           written == {w[2] : w \in writes}
           Writer(order, k) == order[k.place][SelectLastInSeq(order[k.place],
                                                 LAMBDA i : <<i, k>> \in writes)]
<1>1. PICK order \in [Contexts -> SetToSeqs(Indices)] :
         rows' = [k \in DOMAIN rows \cup written |->
                     IF k \in written THEN cs[Writer(order, k)].reasoning ELSE rows[k]]
  BY DEF Store
<1>2. \A i, k : <<i, k>> \in writes <=>
                   i \in Indices /\ \E x \in Contexts : Due(cs, stage, i, x) /\ k \in KeysOf(x, cs[i])
  <2>1. ASSUME NEW i, NEW k, <<i, k>> \in writes
        PROVE  i \in Indices /\ \E x \in Contexts : Due(cs, stage, i, x) /\ k \in KeysOf(x, cs[i])
    <3>1. PICK p \in due : <<i, k>> \in {p[1]} \X Keys(p)
      BY <2>1
    <3>2. i = p[1] /\ k \in Keys(p)
      BY <3>1
    <3>3. p = <<p[1], p[2]>> /\ p[1] \in Indices /\ p[2] \in Contexts
      OBVIOUS
    <3>4. QED BY <3>2, <3>3 DEF Due, KeysOf
  <2>2. ASSUME NEW i \in Indices, NEW k, NEW x \in Contexts, Due(cs, stage, i, x), k \in KeysOf(x, cs[i])
        PROVE  <<i, k>> \in writes
    <3>1. <<i, x>> \in due /\ k \in Keys(<<i, x>>)
      BY <2>2 DEF Due, KeysOf
    <3>2. <<i, k>> \in {i} \X Keys(<<i, x>>)
      BY <3>1
    <3>3. {i} \X Keys(<<i, x>>) \in {{p[1]} \X Keys(p) : p \in due}
      BY <3>1
    <3>4. QED BY <3>2, <3>3
  <2>3. QED BY <2>1, <2>2
<1>3. \A k : k \in written <=> Written(cs, stage, k)
  <2>1. \A w \in writes : w = <<w[1], w[2]>>
    OBVIOUS
  <2> HIDE DEF writes
  <2>2. \A k : k \in written <=> \E i : <<i, k>> \in writes
    <3>1. ASSUME NEW k, k \in written PROVE \E i : <<i, k>> \in writes
      <4>1. PICK w \in writes : k = w[2]
        BY <3>1
      <4>2. <<w[1], k>> \in writes
        BY <2>1, <4>1
      <4>3. QED BY <4>2
    <3>2. ASSUME NEW i, NEW k, <<i, k>> \in writes PROVE k \in written
      <4>1. <<i, k>>[2] = k
        OBVIOUS
      <4>2. QED BY <3>2, <4>1
    <3>3. QED BY <3>1, <3>2
  <2>3. QED BY <1>2, <2>2 DEF Written
<1> HIDE DEF writes, written, due, Keys
<1>4. ASSUME NEW k \in written PROVE <<Writer(order, k), k>> \in writes
  <2> DEFINE W == {i \in Indices : <<i, k>> \in writes}
             o == order[k.place]
  <2>1. PICK i \in Indices, x \in Contexts : Due(cs, stage, i, x) /\ k \in KeysOf(x, cs[i])
    BY <1>3, <1>4 DEF Written
  <2>2. k.place = x
    <3>1. cs[i].calls \in Seq(ToSet(cs[i].calls))
      BY DEF AreChoices, IsChoice, IsSequence
    <3>2. QED BY <2>1, <3>1, KeysAtPlace DEF KeysOf
  <2>3. o \in SetToSeqs(Indices)
    BY <2>2
  <2>4. W # {}
    BY <1>2, <2>1
  <2>5. IsFiniteSet(Indices)
    BY DEF StreamAssumption
  <2>6. o \in [1..Cardinality(Indices) -> Indices]
    BY <2>3 DEF SetToSeqs
  <2> HIDE DEF o
  <2> DEFINE I == {n \in 1..Len(o) : o[n] \in W}
  <2>7. I # {} /\ o[Max(I)] \in W
    <3>1. W \in SUBSET Indices /\ I = {n \in 1..Len(o) : o[n] \in W}
      OBVIOUS
    <3> HIDE DEF W, I
    <3>2. QED BY <2>3, <2>4, <2>5, <3>1, LastInOrder
  <2>8. I = {n \in 1..Len(o) : <<o[n], k>> \in writes}
    BY <1>2
  <2> HIDE DEF I, W
  <2>9. SelectLastInSeq(o, LAMBDA j : <<j, k>> \in writes) = Max(I)
    BY <2>7, <2>8 DEF SelectLastInSeq
  <2>10. o[SelectLastInSeq(o, LAMBDA j : <<j, k>> \in writes)] \in W
    BY <2>7, <2>9
  <2>11. QED BY <2>10 DEF o, W
<1> HIDE DEF Writer
<1>5. DOMAIN rows' = DOMAIN rows \cup written
  BY <1>1
<1>6. \A k \in DOMAIN rows' : rows'[k] = IF k \in written THEN cs[Writer(order, k)].reasoning ELSE rows[k]
  BY <1>1
<1>7. ASSUME NEW k, Written(cs, stage, k) PROVE k \in DOMAIN rows' /\ WrittenBy(cs, stage, k, rows')
  <2>1. k \in written
    BY <1>3, <1>7
  <2>2. <<Writer(order, k), k>> \in writes /\ rows'[k] = cs[Writer(order, k)].reasoning
    BY <1>4, <1>5, <1>6, <2>1
  <2>3. QED BY <1>2, <1>5, <2>1, <2>2 DEF WrittenBy
<1>8. \A k \in DOMAIN rows' : Written(cs, stage, k) \/ (k \in DOMAIN rows /\ rows'[k] = rows[k])
  BY <1>3, <1>5, <1>6
<1>9. QED BY <1>3, <1>5, <1>7, <1>8

-----------------------------------------------------------------------------
(* What is recorded stays found. *)

\* Tool calls of different choices have different ids.
OwnIds == \A i, j \in Indices : \A p \in PiecesOf(i), q \in PiecesOf(j) :
             p.id = q.id /\ p.id \notin {Absent, NoId} => i = j

\* The id of a call came in a piece of it.
CallsOwn(i, calls) ==
    \A n \in DOMAIN calls :
       \/ calls[n].id = NoId
       \/ \E p \in PiecesOf(i) : p.at = n /\ p.id = calls[n].id /\ p.id # Absent

\* ... of every choice.
Owning(cs) == \A i \in Indices : CallsOwn(i, cs[i].calls)

\* The keys of choice i have rows in context x, and its signature the reasoning
\* of a choice that is recorded as final and has the same signature.
KeptAt(cs, st, R, i, x) ==
    /\ cs[i].reasoning # Absent
    /\ KeysOf(x, cs[i]) \subseteq DOMAIN R
    /\ \E j \in Indices : /\ st[<<j, x>>] = 2 /\ MessageSignature(cs[j]) = MessageSignature(cs[i])
                          /\ R[SignatureKey(x, cs[i])] = cs[j].reasoning

\* What is recorded as final is kept.
Kept(cs, st, R) == \A i \in Indices, x \in Contexts : st[<<i, x>>] = 2 => KeptAt(cs, st, R, i, x)

\* k is a key of choice i, and of others in the same context.
IsSignature(cs, i, x, k) ==
    /\ k \in KeysOf(x, cs[i])
    /\ \A j \in Indices : \A y : k \in KeysOf(y, cs[j]) =>
          y = x /\ MessageSignature(cs[j]) = MessageSignature(cs[i])

\* The signature of a choice is one of its keys, and a key of another choice
\* only if that has the same signature.
LEMMA SignatureIs ==
    ASSUME NEW cs, AreChoices(cs), NEW i \in Indices, NEW x, NEW k, k = SignatureKey(x, cs[i])
    PROVE  IsSignature(cs, i, x, k)
<1>1. \A j \in Indices : cs[j].calls \in Seq(ToSet(cs[j].calls))
  BY DEF AreChoices, IsChoice, IsSequence
<1>2. /\ k.place = x /\ k.alias = MessageSignature(cs[i])
      /\ k.alias[1] = "signature"
  BY DEF SignatureKey, MessageSignature
<1>3. k \in ToSet(KeysAt(x, cs[i]))
  <2> DEFINE keys == KeysAt(x, cs[i])
  <2>1. keys \in Seq(ToSet(keys)) /\ Len(keys) >= 1 /\ keys[1] = k
    BY <1>1, KeysAtPlace
  <2> HIDE DEF keys
  <2>2. 1 \in DOMAIN keys
    BY <2>1
  <2>3. QED BY <2>1, <2>2 DEF ToSet, keys
<1>4. IsKey(k)
  <2>1. <<"tool_call", NoId>>[1] # "signature" /\ <<"tool_name", "">>[1] # "signature"
    OBVIOUS
  <2>2. QED BY <1>2, <2>1 DEF IsKey
<1>5. ASSUME NEW j \in Indices, NEW y, k \in KeysOf(y, cs[j])
      PROVE  y = x /\ MessageSignature(cs[j]) = MessageSignature(cs[i])
  <2>1. k.place = y /\ k = SignatureKey(y, cs[j])
    BY SMTT(30), <1>1, <1>2, <1>5, KeysAtPlace DEF KeysOf
  <2>2. k.alias = MessageSignature(cs[j])
    BY <2>1 DEF SignatureKey
  <2>3. QED BY <1>2, <2>1, <2>2
<1>6. QED BY <1>3, <1>4, <1>5 DEF KeysOf, IsSignature

\* Choices with the same calls, all with an id, are the same.
LEMMA SameCalls ==
    ASSUME OwnIds, NEW cs, AreChoices(cs), Owning(cs), NEW i \in Indices, NEW j \in Indices,
           HasIdentifiedToolCalls(cs[j]), MessageSignature(cs[j]) = MessageSignature(cs[i])
    PROVE  i = j
<1>1. cs[j].calls = cs[i].calls
  BY DEF MessageSignature
<1>2. PICK n : n \in DOMAIN cs[j].calls
  BY DEF HasIdentifiedToolCalls, AreChoices, IsChoice, IsSequence
<1>3. cs[j].calls[n].id # NoId
  BY <1>2 DEF HasIdentifiedToolCalls
<1>4. PICK p \in PiecesOf(j) : p.id = cs[j].calls[n].id /\ p.id # Absent
  BY <1>2, <1>3 DEF Owning, CallsOwn
<1>5. PICK q \in PiecesOf(i) : q.id = cs[i].calls[n].id
  BY <1>1, <1>2, <1>3 DEF Owning, CallsOwn
<1>6. p.id = q.id /\ p.id \notin {Absent, NoId}
  BY <1>1, <1>3, <1>4, <1>5
<1>7. QED BY <1>6 DEF OwnIds

\* A recording keeps what is recorded and adds what is final.
LEMMA KeptStep ==
    ASSUME StreamAssumption, OwnIds, stored \in [Indices \X Contexts -> 0..2],
           NEW cs, AreChoices(cs), Owning(cs), NEW old, Kept(old, stored, rows),
           NEW stage \in [Indices -> 0..2],
           \A i \in Indices : stage[i] = 1 => HasIdentifiedToolCalls(cs[i]),
           \A i \in Indices, x \in Contexts : stored[<<i, x>>] = 2 => cs[i] = old[i],
           Store(cs, stage)
    PROVE  Kept(cs, stored', rows')
<1>1. /\ stored' \in [Indices \X Contexts -> 0..2]
      /\ \A p \in Indices \X Contexts :
            stored'[p] = IF cs[p[1]].reasoning # Absent /\ stage[p[1]] > stored[p]
                         THEN stage[p[1]] ELSE stored[p]
  BY StoreStages
<1>2. ASSUME NEW i \in Indices, NEW x \in Contexts
      PROVE  /\ stored[<<i, x>>] \in 0..2 /\ stage[i] \in 0..2
             /\ Due(cs, stage, i, x) => stored'[<<i, x>>] = stage[i]
             /\ ~Due(cs, stage, i, x) => stored'[<<i, x>>] = stored[<<i, x>>]
  BY <1>1 DEF Due
<1>3. /\ DOMAIN rows' = DOMAIN rows \cup {k \in DOMAIN rows' : Written(cs, stage, k)}
      /\ \A k : Written(cs, stage, k) => k \in DOMAIN rows' /\ WrittenBy(cs, stage, k, rows')
      /\ \A k \in DOMAIN rows' : Written(cs, stage, k) \/ (k \in DOMAIN rows /\ rows'[k] = rows[k])
  BY StoreRows
<1>4. PICK st, R : st = stored' /\ R = rows'
  OBVIOUS
<1> SUFFICES ASSUME NEW i \in Indices, NEW x \in Contexts, st[<<i, x>>] = 2
             PROVE  KeptAt(cs, st, R, i, x)
  BY <1>4 DEF Kept
<1> DEFINE k0 == SignatureKey(x, cs[i])
<1>5. k0 \in KeysOf(x, cs[i])
      /\ \A j \in Indices : \A y : k0 \in KeysOf(y, cs[j]) =>
            y = x /\ MessageSignature(cs[j]) = MessageSignature(cs[i])
  <2>1. k0 = SignatureKey(x, cs[i])
    OBVIOUS
  <2>2. IsSignature(cs, i, x, k0)
    <3> HIDE DEF k0
    <3>1. QED BY <2>1, SignatureIs
  <2> HIDE DEF k0
  <2>3. QED BY <2>2 DEF IsSignature
<1> HIDE DEF k0
<1>6. ASSUME Written(cs, stage, k0)
      PROVE  \E j \in Indices : /\ st[<<j, x>>] = 2 /\ MessageSignature(cs[j]) = MessageSignature(cs[i])
                                /\ R[k0] = cs[j].reasoning
  <2>1. PICK j \in Indices, y \in Contexts : /\ Due(cs, stage, j, y) /\ k0 \in KeysOf(y, cs[j])
                                             /\ R[k0] = cs[j].reasoning
    BY <1>3, <1>4, <1>6 DEF WrittenBy
  <2>2. y = x /\ MessageSignature(cs[j]) = MessageSignature(cs[i])
    BY <1>5, <2>1
  <2>3. st[<<j, x>>] = stage[j] /\ stage[j] \in {1, 2}
    <3>1. stage[j] > stored[<<j, x>>]
      BY <2>1, <2>2 DEF Due
    <3>2. QED BY <1>2, <1>4, <2>1, <2>2, <3>1
  <2>4. stage[j] # 1
    <3> SUFFICES ASSUME stage[j] = 1 PROVE FALSE
      OBVIOUS
    <3>1. i = j
      BY <2>2, SameCalls
    <3>2. st[<<i, x>>] = 1
      BY <2>3, <3>1
    <3>3. QED BY <3>2
  <2>5. QED BY <2>1, <2>2, <2>3, <2>4
<1>7. CASE Due(cs, stage, i, x)
  <2>1. \A k \in KeysOf(x, cs[i]) : Written(cs, stage, k)
    BY <1>7 DEF Written
  <2>2. KeysOf(x, cs[i]) \subseteq DOMAIN R
    BY <1>3, <1>4, <2>1
  <2>3. cs[i].reasoning # Absent
    BY <1>7 DEF Due
  <2>4. QED BY <1>5, <1>6, <2>1, <2>2, <2>3 DEF KeptAt, k0
<1>8. CASE ~Due(cs, stage, i, x)
  <2>1. stored[<<i, x>>] = 2
    BY <1>2, <1>4, <1>8
  <2>2. cs[i] = old[i] /\ KeptAt(old, stored, rows, i, x)
    BY <2>1 DEF Kept
  <2>3. cs[i].reasoning # Absent /\ KeysOf(x, cs[i]) \subseteq DOMAIN rows
    BY <2>2 DEF KeptAt
  <2>4. KeysOf(x, cs[i]) \subseteq DOMAIN R
    BY <1>3, <1>4, <2>3
  <2>5. CASE Written(cs, stage, k0)
    BY <1>6, <2>3, <2>4, <2>5 DEF KeptAt, k0
  <2>6. CASE ~Written(cs, stage, k0)
    <3>1. R[k0] = rows[k0]
      BY <1>3, <1>4, <1>5, <2>4, <2>6
    <3>2. PICK j \in Indices : /\ stored[<<j, x>>] = 2
                               /\ MessageSignature(old[j]) = MessageSignature(old[i])
                               /\ rows[SignatureKey(x, old[i])] = old[j].reasoning
      BY <2>2 DEF KeptAt
    <3>3. cs[j] = old[j]
      BY <3>2
    <3>4. st[<<j, x>>] = 2
      <4>1. ~Due(cs, stage, j, x)
        BY <1>2, <3>2 DEF Due
      <4>2. QED BY <1>2, <1>4, <3>2, <4>1
    <3>5. R[k0] = cs[j].reasoning
      BY <2>2, <3>1, <3>2, <3>3 DEF k0
    <3>6. QED BY <2>2, <2>3, <2>4, <3>2, <3>3, <3>4, <3>5 DEF KeptAt, k0
  <2>7. QED BY <2>5, <2>6
<1>9. QED BY <1>7, <1>8

-----------------------------------------------------------------------------
(* The ids of the tool calls. *)

\* The pieces of a tool call repeat its id or leave it out.
SteadyIds == \A i \in Indices : \A p, q \in PiecesOf(i) :
                p.at = q.at /\ Absent \notin {p.id, q.id} => p.id = q.id

\* No call of a loses its id.
IdsStay(a, b) == \A n \in DOMAIN a : a[n].id # NoId => n \in DOMAIN b /\ b[n].id = a[n].id

\* From cs to m no id and no reasoning is lost.
Stays(cs, m) ==
    \A i \in Indices : /\ IdsStay(cs[i].calls, m[i].calls)
                       /\ cs[i].reasoning # Absent => m[i].reasoning # Absent

\* What is not lost on either of two ways is not lost on both.
LEMMA StaysOn ==
    ASSUME NEW a, NEW b, NEW c, Stays(a, b), Stays(b, c) PROVE Stays(a, c)
<1> SUFFICES ASSUME NEW i \in Indices
             PROVE  /\ IdsStay(a[i].calls, c[i].calls)
                    /\ a[i].reasoning # Absent => c[i].reasoning # Absent
  BY DEF Stays
<1>1. IdsStay(a[i].calls, b[i].calls) /\ IdsStay(b[i].calls, c[i].calls)
  BY DEF Stays
<1>2. IdsStay(a[i].calls, c[i].calls)
  BY <1>1 DEF IdsStay
<1>3. QED BY <1>2 DEF Stays

\* A piece gives its id to the call at its place.
LEMMA PieceOwns ==
    ASSUME StreamAssumption, NEW i \in Indices, NEW calls, IsSequence(calls), CallsOwn(i, calls),
           NEW p \in PiecesOf(i)
    PROVE  /\ CallsOwn(i, MergeCall(calls, p))
           /\ SteadyIds => IdsStay(calls, MergeCall(calls, p))
<1> DEFINE m == MergeCall(calls, p)
           old == IF p.at \in DOMAIN calls THEN calls[p.at] ELSE NewCall
<1>1. p.at \in Nat \ {0}
  <2>1. p \in Pieces
    BY DEF PiecesOf, Pieces
  <2>2. QED BY <2>1, PiecesAre
<1>2. /\ p.at \in DOMAIN m /\ DOMAIN calls \subseteq DOMAIN m
      /\ \A n \in DOMAIN calls : n # p.at => m[n] = calls[n]
      /\ \A n \in DOMAIN m \ DOMAIN calls : n # p.at => m[n] = NewCall
      /\ m[p.at].id = IF p.id = Absent THEN old.id ELSE p.id
  BY <1>1, MergeCallIs
<1>3. NewCall.id = NoId
  BY DEF NewCall
<1> HIDE DEF m
<1>4. ASSUME NEW n \in DOMAIN m
      PROVE  \/ m[n].id = NoId
             \/ \E q \in PiecesOf(i) : q.at = n /\ q.id = m[n].id /\ q.id # Absent
  <2>1. CASE n = p.at /\ p.id # Absent
    BY <1>2, <2>1
  <2>2. CASE n = p.at /\ p.id = Absent
    <3>1. m[n].id = old.id
      BY <1>2, <2>2
    <3>2. CASE n \in DOMAIN calls
      BY <2>2, <3>1, <3>2 DEF CallsOwn
    <3>3. CASE n \notin DOMAIN calls
      BY <1>3, <2>2, <3>1, <3>3
    <3>4. QED BY <3>2, <3>3
  <2>3. CASE n # p.at
    <3>1. CASE n \in DOMAIN calls
      BY <1>2, <2>3, <3>1 DEF CallsOwn
    <3>2. CASE n \notin DOMAIN calls
      BY <1>2, <1>3, <2>3, <3>2
    <3>3. QED BY <3>1, <3>2
  <2>4. QED BY <2>1, <2>2, <2>3
<1>5. ASSUME SteadyIds, NEW n \in DOMAIN calls, calls[n].id # NoId
      PROVE  n \in DOMAIN m /\ m[n].id = calls[n].id
  <2>1. PICK q \in PiecesOf(i) : q.at = n /\ q.id = calls[n].id /\ q.id # Absent
    BY <1>5 DEF CallsOwn
  <2>2. n = p.at /\ p.id # Absent => p.id = q.id
    BY <1>5, <2>1 DEF SteadyIds
  <2>3. QED BY <1>2, <2>1, <2>2
<1>6. CallsOwn(i, m) /\ (SteadyIds => IdsStay(calls, m))
  BY <1>4, <1>5 DEF CallsOwn, IdsStay
<1>7. QED BY <1>6 DEF m

\* The same for the pieces of a delta.
LEMMA PiecesOwn ==
    ASSUME StreamAssumption, NEW i \in Indices, NEW calls, IsSequence(calls), CallsOwn(i, calls),
           NEW pieces \in Seq(PiecesOf(i)), NEW after, after = FoldLeft(MergeCall, calls, pieces)
    PROVE  CallsOwn(i, after) /\ (SteadyIds => IdsStay(calls, after))
<1>1. PICK run : CallRun(calls, pieces, run) /\ after = run[Len(pieces)]
  BY CallRuns
<1> DEFINE T == {n \in 0..Len(pieces) : /\ IsSequence(run[n]) /\ CallsOwn(i, run[n])
                                        /\ SteadyIds => IdsStay(calls, run[n])}
<1>2. Len(pieces) \in Nat
  OBVIOUS
<1>3. 0 \in T
  <2>1. run[0] = calls
    BY <1>1 DEF CallRun
  <2>2. IdsStay(calls, calls)
    BY DEF IdsStay
  <2>3. QED BY <1>2, <2>1, <2>2
<1>4. ASSUME NEW n \in 1..Len(pieces), n - 1 \in T PROVE n \in T
  <2>1. run[n] = MergeCall(run[n - 1], pieces[n]) /\ pieces[n] \in PiecesOf(i)
    BY <1>1 DEF CallRun
  <2>2. pieces[n].at \in Nat \ {0}
    <3>1. pieces[n] \in Pieces
      BY <2>1 DEF PiecesOf, Pieces
    <3>2. QED BY <3>1, PiecesAre
  <2>3. /\ IsSequence(run[n - 1]) /\ CallsOwn(i, run[n - 1])
        /\ SteadyIds => IdsStay(calls, run[n - 1])
    BY <1>4
  <2>4. IsSequence(run[n])
    BY <2>1, <2>2, <2>3, MergeCallIs
  <2>5. CallsOwn(i, run[n]) /\ (SteadyIds => IdsStay(run[n - 1], run[n]))
    BY <2>1, <2>3, PieceOwns
  <2>6. SteadyIds => IdsStay(calls, run[n])
    BY <2>3, <2>5 DEF IdsStay
  <2>7. n \in 0..Len(pieces)
    BY <1>2
  <2>8. QED BY <2>4, <2>5, <2>6, <2>7
<1> HIDE DEF T
<1>5. \A n \in 0..Len(pieces) : n \in T
  BY <1>2, <1>3, <1>4, InductionTo
<1>6. Len(pieces) \in T
  BY <1>2, <1>5
<1>7. QED BY <1>1, <1>6 DEF T

\* The same for a delta.
LEMMA DeltaOwns ==
    ASSUME StreamAssumption, NEW cs, AreChoices(cs), Owning(cs), NEW d \in Wires
    PROVE  /\ Owning(MergeDelta(cs, d))
           /\ SteadyIds => Stays(cs, MergeDelta(cs, d))
<1> DEFINE m == MergeDelta(cs, d)
           calls == cs[d.index].calls
<1>1. d.index \in Indices /\ d.calls \in Seq(PiecesOf(d.index)) /\ d.reasoning \in Fields
  BY DEF Wires
<1>2. /\ \A i \in Indices : i # d.index => m[i] = cs[i]
      /\ m[d.index].calls = FoldLeft(MergeCall, calls, d.calls)
      /\ m[d.index].reasoning = IF IsText(d.reasoning) THEN Text(cs[d.index].reasoning) \o d.reasoning
                                                       ELSE cs[d.index].reasoning
  BY ZenonT(30), MergeDeltaIs
<1>3. IsSequence(calls) /\ CallsOwn(d.index, calls) /\ cs[d.index].reasoning \in Fields
  BY <1>1 DEF AreChoices, IsChoice, Owning
<1> HIDE DEF m
<1>4. CallsOwn(d.index, m[d.index].calls) /\ (SteadyIds => IdsStay(calls, m[d.index].calls))
  <2> HIDE DEF calls
  <2>1. QED BY <1>1, <1>2, <1>3, PiecesOwn
<1>5. cs[d.index].reasoning # Absent => m[d.index].reasoning # Absent
  <2>1. CASE IsText(d.reasoning)
    <3>1. Text(cs[d.index].reasoning) \in Seq(Segments)
      BY <1>3, TextIs
    <3>2. d.reasoning \in Seq(Segments)
      BY <1>1, <2>1 DEF Fields, IsText
    <3>3. m[d.index].reasoning \in Seq(Segments)
      BY <1>2, <2>1, <3>1, <3>2
    <3>4. Absent \notin Seq(Segments)
      <4>1. Seq(Segments) \subseteq Texts
        BY DEF Texts
      <4>2. QED BY <4>1 DEF StreamAssumption
    <3>5. QED BY <3>3, <3>4
  <2>2. CASE ~IsText(d.reasoning)
    BY <1>2, <2>2
  <2>3. QED BY <2>1, <2>2
<1>6. \A a : IdsStay(a, a)
  BY DEF IdsStay
<1>7. Owning(m)
  BY <1>2, <1>4 DEF Owning
<1>8. SteadyIds => Stays(cs, m)
  BY <1>2, <1>4, <1>5, <1>6 DEF Stays
<1>9. QED BY <1>7, <1>8 DEF m

\* The same for any number of deltas.
LEMMA IngestOwns ==
    ASSUME StreamAssumption, NEW cs, AreChoices(cs), Owning(cs), NEW s \in Seq(Wires)
    PROVE  /\ Owning(IngestChunk(cs, s))
           /\ SteadyIds => Stays(cs, IngestChunk(cs, s))
<1>1. PICK run : MergeRun(cs, s, run) /\ IngestChunk(cs, s) = run[Len(s)]
  BY MergeRuns DEF IngestChunk
<1> DEFINE T == {n \in 0..Len(s) : /\ AreChoices(run[n]) /\ Owning(run[n])
                                   /\ SteadyIds => Stays(cs, run[n])}
<1>2. Len(s) \in Nat
  OBVIOUS
<1>3. 0 \in T
  <2>1. run[0] = cs
    BY <1>1 DEF MergeRun
  <2>2. Stays(cs, cs)
    BY DEF Stays, IdsStay
  <2>3. QED BY <1>2, <2>1, <2>2
<1>4. ASSUME NEW n \in 1..Len(s), n - 1 \in T PROVE n \in T
  <2>1. run[n] = MergeDelta(run[n - 1], s[n]) /\ s[n] \in Wires /\ n \in 0..Len(s)
    BY <1>1, <1>2 DEF MergeRun
  <2>2. AreChoices(run[n - 1]) /\ Owning(run[n - 1]) /\ (SteadyIds => Stays(cs, run[n - 1]))
    BY <1>4
  <2>3. AreChoices(run[n])
    <3>1. AreChoices(MergeDelta(run[n - 1], s[n]))
      BY <2>1, <2>2, MergeDeltaIs
    <3>2. QED BY <2>1, <3>1
  <2>4. Owning(run[n]) /\ (SteadyIds => Stays(run[n - 1], run[n]))
    BY <2>1, <2>2, DeltaOwns
  <2>5. SteadyIds => Stays(cs, run[n])
    BY <2>2, <2>4, StaysOn
  <2>6. QED BY <2>1, <2>3, <2>4, <2>5
<1> HIDE DEF T
<1>5. \A n \in 0..Len(s) : n \in T
  BY <1>2, <1>3, <1>4, InductionTo
<1>6. QED BY <1>1, <1>2, <1>5 DEF T

-----------------------------------------------------------------------------
(* The inductive invariant of the rows. *)

\* Every choice with reasoning is or is to be final.
Over == done \/ phase = "closed"

\* What is final is recorded, and only that is recorded as such.
Final == \A i \in Indices, x \in Contexts :
            /\ stored[<<i, x>>] = 2 => choices[i].finished \/ Over
            /\ choices[i].reasoning # Absent /\ (choices[i].finished \/ Over) => stored[<<i, x>>] = 2

RowsInv == /\ Kept(choices, stored, rows)
           /\ Final
           /\ Owning(choices) /\ Owning(client)

\* RowsInv holds at the start.
LEMMA RowsInit == Init => RowsInv
<1> SUFFICES ASSUME Init PROVE RowsInv
  OBVIOUS
<1>1. /\ choices = [i \in Indices |-> NewChoice] /\ client = [i \in Indices |-> NewChoice]
      /\ stored = [p \in Indices \X Contexts |-> 0] /\ done = FALSE /\ phase = "reading"
  BY DEF Init
<1>2. /\ \A i \in Indices : choices[i] = NewChoice /\ client[i] = NewChoice
      /\ \A i \in Indices, x \in Contexts : stored[<<i, x>>] = 0
  BY <1>1
<1>3. NewChoice.reasoning = Absent /\ NewChoice.calls = <<>> /\ NewChoice.finished = FALSE
  BY DEF NewChoice
<1>4. Kept(choices, stored, rows)
  BY <1>2 DEF Kept
<1>5. Final
  <2>1. \A i \in Indices : choices[i].reasoning = Absent
    BY <1>2, <1>3
  <2>2. \A i \in Indices, x \in Contexts : stored[<<i, x>>] # 2
    <3> SUFFICES ASSUME NEW i \in Indices, NEW x \in Contexts PROVE stored[<<i, x>>] # 2
      OBVIOUS
    <3>1. stored[<<i, x>>] = 0
      BY Zenon, <1>2
    <3>2. QED BY <3>1
  <2>3. QED BY <2>1, <2>2, Zenon DEF Final
<1>6. Owning(choices) /\ Owning(client)
  BY <1>2, <1>3 DEF Owning, CallsOwn
<1>7. QED BY <1>4, <1>5, <1>6 DEF RowsInv

\* A data line.
LEMMA RowsData ==
    ASSUME OwnIds, MirrorInv, RowsInv, NEW chunk \in Chunks, Data(chunk)
    PROVE  RowsInv'
<1>0. StreamAssumption
  BY StreamAssumption
<1> DEFINE s == InjectRecoveryNotice(chunk)
           cs == IngestChunk(choices, s)
           stage == [i \in Indices |-> ReadyStage(cs[i])]
<1>1. /\ phase = "reading" /\ phase' = "writing" /\ done' = done /\ client' = client
      /\ \A i \in DOMAIN chunk : ~choices[chunk[i].index].finished
      /\ choices' = cs
      /\ Store(cs, stage)
  BY DEF Data
<1>2. /\ AreChoices(choices) /\ notice \in {<<>>, RecoveryNoticeContent} /\ done = FALSE
      /\ stored \in [Indices \X Contexts -> 0..2]
  BY <1>1 DEF MirrorInv, TypeInv, TypeOK, Types
<1>3. s \in Seq(Wires) /\ Onward(s, choices, 0)
  BY <1>0, <1>1, <1>2, ArrivesIs
<1> HIDE DEF s
<1>4. AreChoices(cs) /\ Owning(cs)
  BY <1>0, <1>2, <1>3, IngestTypes, IngestOwns DEF RowsInv
<1>5. ASSUME NEW i \in Indices, choices[i].finished PROVE cs[i] = choices[i]
  <2>1. \A n \in 1..Len(s) : s[n].index # i
    BY <1>3, <1>5 DEF Onward
  <2>2. QED BY <1>0, <1>2, <1>3, <2>1, IngestFinish
<1>6. \A i \in Indices, x \in Contexts : stored[<<i, x>>] = 2 => choices[i].finished /\ cs[i] = choices[i]
  BY <1>1, <1>2, <1>5 DEF RowsInv, Final, Over
<1>7. /\ stage \in [Indices -> 0..2]
      /\ \A i \in Indices : /\ stage[i] = 1 => HasIdentifiedToolCalls(cs[i])
                            /\ stage[i] = 2 <=> cs[i].finished
  BY DEF ReadyStage
<1> HIDE DEF cs, stage
<1>8. Kept(choices, stored, rows)'
  <2>1. Kept(cs, stored', rows')
    BY <1>0, <1>1, <1>2, <1>4, <1>6, <1>7, KeptStep DEF RowsInv
  <2>2. QED BY <1>1, <2>1
<1>9. ASSUME NEW i \in Indices, NEW x \in Contexts
      PROVE  /\ stored'[<<i, x>>] = 2 => cs[i].finished
             /\ cs[i].reasoning # Absent /\ cs[i].finished => stored'[<<i, x>>] = 2
  <2>1. stored'[<<i, x>>] = IF cs[i].reasoning # Absent /\ stage[i] > stored[<<i, x>>]
                            THEN stage[i] ELSE stored[<<i, x>>]
    <3>1. \A p \in Indices \X Contexts :
             stored'[p] = IF cs[p[1]].reasoning # Absent /\ stage[p[1]] > stored[p]
                          THEN stage[p[1]] ELSE stored[p]
      BY <1>1, <1>2, <1>7, StoreStages
    <3>2. <<i, x>> \in Indices \X Contexts /\ <<i, x>>[1] = i
      OBVIOUS
    <3>3. QED BY <3>1, <3>2
  <2>2. stored[<<i, x>>] \in 0..2 /\ stage[i] \in 0..2
    BY <1>2, <1>7
  <2>3. QED BY <1>6, <1>7, <2>1, <2>2
<1>10. Final'
  <2>1. ~Over'
    BY <1>1, <1>2 DEF Over
  <2>2. QED BY <1>1, <1>9, <2>1 DEF Final
<1>11. Owning(choices)' /\ Owning(client)'
  BY <1>1, <1>4 DEF RowsInv
<1>12. QED BY <1>8, <1>10, <1>11 DEF RowsInv

\* The recording at the end of the stream.
LEMMA RowsEnd ==
    ASSUME OwnIds, MirrorInv, RowsInv, Store(choices, FinalStage),
           choices' = choices, client' = client, Over'
    PROVE  RowsInv'
<1>0. StreamAssumption
  BY StreamAssumption
<1>1. AreChoices(choices) /\ stored \in [Indices \X Contexts -> 0..2]
  BY DEF MirrorInv, TypeInv, TypeOK, Types
<1>2. /\ FinalStage \in [Indices -> 0..2]
      /\ \A i \in Indices : FinalStage[i] = 2
  BY DEF FinalStage
<1>3. Kept(choices, stored, rows)'
  <2>1. Kept(choices, stored, rows) /\ Owning(choices)
    BY DEF RowsInv
  <2>2. \A i \in Indices : FinalStage[i] # 1
    BY <1>2
  <2>3. Kept(choices, stored', rows')
    BY <1>0, <1>1, <1>2, <2>1, <2>2, KeptStep
  <2>4. QED BY <2>3
<1>4. ASSUME NEW i \in Indices, NEW x \in Contexts, choices[i].reasoning # Absent
      PROVE  stored'[<<i, x>>] = 2
  <2>1. \A p \in Indices \X Contexts :
           stored'[p] = IF choices[p[1]].reasoning # Absent /\ FinalStage[p[1]] > stored[p]
                        THEN FinalStage[p[1]] ELSE stored[p]
    BY <1>1, <1>2, StoreStages
  <2>2. <<i, x>> \in Indices \X Contexts /\ <<i, x>>[1] = i
    OBVIOUS
  <2>3. stored[<<i, x>>] \in 0..2
    BY <1>1
  <2>4. QED BY <1>2, <1>4, <2>1, <2>2, <2>3
<1>5. Final'
  BY <1>4 DEF Final
<1>6. QED BY <1>3, <1>5 DEF RowsInv

\* A step that records nothing.
LEMMA RowsRest ==
    ASSUME RowsInv, UNCHANGED <<choices, stored, rows>>, Over' <=> Over, Owning(client)'
    PROVE  RowsInv'
BY DEF RowsInv, Final

\* Every step keeps RowsInv.
LEMMA RowsStep == OwnIds /\ MirrorInv /\ RowsInv /\ [Next]_vars => RowsInv'
<1> SUFFICES ASSUME OwnIds, MirrorInv, RowsInv, [Next]_vars PROVE RowsInv'
  OBVIOUS
<1>0. Owning(client) /\ AreChoices(client) /\ buffer \in Seq(Wires)
  BY DEF RowsInv, MirrorInv, TypeInv, Types
<1>1. ASSUME NEW chunk \in Chunks, Data(chunk) PROVE RowsInv'
  BY <1>1, RowsData
<1>2. ASSUME Done PROVE RowsInv'
  BY <1>2, RowsEnd DEF Done, Over
<1>3. ASSUME Write PROVE RowsInv'
  <2>1. /\ UNCHANGED <<choices, stored, rows, done, client>> /\ phase = "writing"
        /\ phase' = "closed" => done
    BY <1>3 DEF Write, Flusher
  <2>2. Over' <=> Over
    BY <2>1 DEF Over
  <2>3. QED BY <1>0, <2>1, <2>2, RowsRest
<1>4. ASSUME Transmit PROVE RowsInv'
  <2>1. UNCHANGED <<choices, stored, rows, done, phase>>
    BY <1>4 DEF Transmit
  <2>2. PICK n \in 1..Len(buffer) : client' = IngestChunk(client, SubSeq(buffer, 1, n))
    BY <1>4 DEF Transmit
  <2>3. SubSeq(buffer, 1, n) \in Seq(Wires)
    BY <1>0
  <2>4. Owning(client')
    BY <1>0, <2>2, <2>3, StreamAssumption, IngestOwns
  <2>5. QED BY <2>1, <2>4, RowsRest DEF Over
<1>5. ASSUME Hangup PROVE RowsInv'
  BY <1>0, <1>5, RowsRest DEF Hangup, Over
<1>6. ASSUME ReadEnds PROVE RowsInv'
  BY <1>0, <1>6, RowsRest DEF ReadEnds, Over
<1>7. ASSUME StoreRest PROVE RowsInv'
  BY <1>7, RowsEnd DEF StoreRest, Over
<1>8. ASSUME Crash PROVE RowsInv'
  BY <1>0, <1>8, RowsRest DEF Crash, Over
<1>9. CASE UNCHANGED vars
  BY <1>0, <1>9, RowsRest DEF vars, Over
<1>10. QED BY <1>1, <1>2, <1>3, <1>4, <1>5, <1>6, <1>7, <1>8, <1>9 DEF Next

-----------------------------------------------------------------------------
(* What the client has can be found. *)

\* A message has a key for the id of each of its tool calls.
LEMMA CallKey ==
    ASSUME NEW m, m.calls \in Seq(ToSet(m.calls)), NEW x, NEW n \in DOMAIN m.calls, m.calls[n].id # NoId
    PROVE  [place |-> x, alias |-> <<"tool_call", m.calls[n].id>>] \in KeysOf(x, m)
<1> DEFINE a == Aliases(m)
           first == <<MessageSignature(m)>>
           ids == ToolCallIDs(m)
           more == ToolCallSignatures(m) \o ToolCallNames(m)
           t == <<"tool_call", m.calls[n].id>>
           k == [place |-> x, alias |-> t]
<1>1. PICK l \in Nat : DOMAIN m.calls = 1..l
  OBVIOUS
<1>2. t \in ToSet(a)
  <2>1. PICK S : first \in Seq(S) /\ ids \in Seq(S) /\ ToolCallSignatures(m) \in Seq(S) /\ ToolCallNames(m) \in Seq(S)
    <3> DEFINE S == ToSet(first) \cup ToSet(ids) \cup ToSet(ToolCallSignatures(m)) \cup ToSet(ToolCallNames(m))
    <3>1. first \in Seq(S)
      BY DEF ToSet
    <3>2. /\ ids = [i \in 1..l |-> ids[i]]
          /\ ToolCallSignatures(m) = [i \in 1..l |-> ToolCallSignatures(m)[i]]
          /\ ToolCallNames(m) = [i \in 1..l |-> ToolCallNames(m)[i]]
      BY <1>1 DEF ToolCallIDs, ToolCallSignatures, ToolCallNames
    <3>3. /\ ids \in [1..l -> S] /\ ToolCallSignatures(m) \in [1..l -> S]
          /\ ToolCallNames(m) \in [1..l -> S]
      BY <3>2 DEF ToSet
    <3>4. [1..l -> S] \subseteq Seq(S)
      OBVIOUS
    <3>5. QED BY <3>1, <3>3, <3>4
  <2>2. ids[n] = t /\ n \in DOMAIN ids
    BY DEF ToolCallIDs
  <2>3. a = ((first \o ids) \o ToolCallSignatures(m)) \o ToolCallNames(m)
    BY DEF Aliases
  <2>4. Len(first) = 1
    OBVIOUS
  <2> HIDE DEF a, first, ids, t
  <2>5. 1 + n \in 1..Len(first \o ids) /\ (first \o ids)[1 + n] = t /\ first \o ids \in Seq(S)
    <3>1. n \in 1..Len(ids) /\ Len(ids) \in Nat
      BY <2>1, <2>2
    <3>2. /\ first \o ids \in Seq(S) /\ Len(first \o ids) = Len(first) + Len(ids)
          /\ \A j \in (Len(first) + 1)..(Len(first) + Len(ids)) : (first \o ids)[j] = ids[j - Len(first)]
      BY <2>1, JoinIs
    <3>3. 1 + n \in (1 + 1)..(1 + Len(ids)) /\ (1 + n) - 1 = n
      BY <3>1
    <3>4. QED BY <2>2, <2>4, <3>1, <3>2, <3>3
  <2> DEFINE b == first \o ids
             c == b \o ToolCallSignatures(m)
  <2> HIDE DEF b
  <2>6. 1 + n \in 1..Len(c) /\ c[1 + n] = t /\ c \in Seq(S)
    BY <2>1, <2>5 DEF b
  <2> HIDE DEF c
  <2>7. 1 + n \in DOMAIN a /\ a[1 + n] = t
    BY <2>1, <2>3, <2>6 DEF b, c
  <2>8. QED BY <2>7 DEF ToSet
<1> HIDE DEF a, t
<1>3. k \in ToSet(KeysAt(x, m))
  <2>1. PICK j \in DOMAIN a : a[j] = t
    BY <1>2 DEF ToSet
  <2>2. KeysAt(x, m) = [i \in DOMAIN a |-> [place |-> x, alias |-> a[i]]]
    BY DEF KeysAt, a
  <2>3. QED BY <2>1, <2>2 DEF ToSet
<1>4. IsKey(k)
  <2>1. t # <<"tool_call", NoId>> /\ t # <<"tool_name", "">>
    BY DEF t
  <2>2. QED BY <2>1 DEF IsKey
<1>5. QED BY <1>3, <1>4 DEF KeysOf, t

\* A choice that is recorded as final is found by what has its signature.
LEMMA KeptFound ==
    ASSUME AreChoices(choices), RowsInv, NEW i \in Indices, \A x \in Contexts : stored[<<i, x>>] = 2,
           NEW m, MessageSignature(m) = MessageSignature(choices[i])
    PROVE  Found(m, Twins(i))
<1> SUFFICES ASSUME NEW x \in Contexts
             PROVE  SignatureKey(x, choices[i]) \in DOMAIN rows /\ rows[SignatureKey(x, choices[i])] \in Twins(i)
  BY DEF Found, SignatureKey
<1>1. KeptAt(choices, stored, rows, i, x)
  BY DEF RowsInv, Kept
<1>2. rows[SignatureKey(x, choices[i])] \in Twins(i)
  BY <1>1 DEF KeptAt, Twins
<1>3. SignatureKey(x, choices[i]) \in KeysOf(x, choices[i])
  <2>1. PICK k : k = SignatureKey(x, choices[i])
    OBVIOUS
  <2>2. IsSignature(choices, i, x, k)
    BY <2>1, SignatureIs
  <2>3. QED BY <2>1, <2>2 DEF IsSignature
<1>4. QED BY <1>1, <1>2, <1>3 DEF KeptAt

\* A choice with an answer is not the one a late notice goes to.
LEMMA AnswerIs ==
    ASSUME NEW i \in Indices, Answers(i)
    PROVE  ToldOf(choices, done) = choices /\ i \notin ExemptOf(choices, done)
<1>1. ~Silent(choices, i)
  BY DEF Silent, Answers
<1>2. QED BY <1>1 DEF ToldOf, ExemptOf

\* A choice the client has, with what is on its way, is as the proxy has it.
LEMMA ShownFound ==
    ASSUME MirrorInv, RowsInv, NEW i \in Indices, Answers(i), client[i].reasoning # Absent,
           NEW w, \E pending \in BOOLEAN : Mirrors(choices, w, open, pending), w[i] = client[i],
           choices[i].finished \/ Over, Unharmed(i)
    PROVE  Found(SentBack(i), Twins(i))
<1>1. AreChoices(choices)
  BY DEF MirrorInv, TypeInv, Types
<1>2. Agrees(choices, w)
  BY DEF Mirrors
<1>3. choices[i].reasoning # Absent
  BY <1>2 DEF Agrees
<1>4. \A x \in Contexts : stored[<<i, x>>] = 2
  BY <1>3 DEF RowsInv, Final
<1>5. SentBack(i).content = choices[i].content /\ SentBack(i).calls = choices[i].calls
  BY SendsBack
<1>6. MessageSignature(SentBack(i)) = MessageSignature(choices[i])
  BY <1>5 DEF MessageSignature
<1>7. QED BY <1>1, <1>4, <1>6, KeptFound

\* A choice the client has seen finished has nothing more on its way.
LEMMA EndedIs ==
    ASSUME StreamAssumption, AreChoices(client), NEW rest \in Seq(Wires), NEW late, InTime(client, rest, late),
           NEW i \in Indices, i \notin late, client[i].finished
    PROVE  IngestChunk(client, rest)[i] = client[i]
<1>1. ASSUME NEW n \in 1..Len(rest), rest[n].index = i PROVE FALSE
  <2>1. Belated(client, rest, n)
    BY <1>1 DEF Belated
  <2>2. rest[n].index \in late
    BY <2>1 DEF InTime
  <2>3. QED BY <1>1, <2>2
<1>2. QED BY <1>1, IngestFinish

\* Both invariants, in every behaviour.
LEMMA RowsHold == CleanText /\ OwnIds => (Spec => [](MirrorInv /\ RowsInv))
<1> SUFFICES ASSUME CleanText, OwnIds PROVE Spec => [](MirrorInv /\ RowsInv)
  OBVIOUS
<1>1. Init => MirrorInv /\ RowsInv
  BY MirrorInit, RowsInit
<1>2. MirrorInv /\ RowsInv /\ [Next]_vars => MirrorInv' /\ RowsInv'
  BY MirrorStep, RowsStep
<1>3. QED BY <1>1, <1>2, PTL DEF Spec

\* A choice the client has seen finished is in the cache with all of its
\* reasoning, before the stream ends, whatever the process does after and in
\* whatever order the choices are iterated, for any upstream whose tool calls
\* have ids of their own (accumulator.go:160-170, sse.go:73-76), unless white
\* space is right behind a mirrored block.
THEOREM RecordedBeforeShownHolds ==
    CleanText /\ OwnIds => (Spec => []RecordedBeforeShown)
<1>1. MirrorInv /\ RowsInv => RecordedBeforeShown
  <2> SUFFICES ASSUME MirrorInv, RowsInv, NEW i \in Indices,
                      client[i].finished, client[i].reasoning # Absent, Answers(i), Unharmed(i)
               PROVE  Found(SentBack(i), Twins(i))
    BY DEF RecordedBeforeShown
  <2>1. PICK rest : Tracked(rest)
    BY DEF MirrorInv
  <2> DEFINE w == IngestChunk(client, rest)
  <2>2. ToldOf(choices, done) = choices /\ i \notin ExemptOf(choices, done)
    BY AnswerIs
  <2>3. /\ rest \in Seq(Wires) /\ InTime(client, rest, ExemptOf(choices, done))
        /\ IF notice = <<>> THEN Mirrors(choices, w, open, FALSE) ELSE Mirrors(choices, w, open, TRUE)
    BY <2>1, <2>2 DEF Tracked, Ahead
  <2>4. AreChoices(client)
    BY DEF MirrorInv, TypeInv, Types
  <2>5. w[i] = client[i]
    BY <2>2, <2>3, <2>4, StreamAssumption, EndedIs
  <2> HIDE DEF w
  <2>6. \E pending \in BOOLEAN : Mirrors(choices, w, open, pending)
    BY <2>3
  <2>7. choices[i].finished
    <3>1. Agrees(choices, w)
      BY <2>6 DEF Mirrors
    <3>2. QED BY <2>5, <3>1 DEF Agrees
  <2>8. QED BY <2>5, <2>6, <2>7, ShownFound
<1>2. QED BY <1>1, RowsHold, PTL

\* What the client has seen of a choice with reasoning the proxy has.
LEMMA SeenIs ==
    ASSUME SteadyIds, MirrorInv, RowsInv, NEW i \in Indices, client[i].reasoning # Absent
    PROVE  choices[i].reasoning # Absent /\ IdsStay(client[i].calls, choices[i].calls)
<1>1. PICK rest : Tracked(rest)
  BY DEF MirrorInv
<1> DEFINE w == IngestChunk(client, rest)
           told == ToldOf(choices, done)
<1>2. rest \in Seq(Wires) /\ Agrees(told, w)
  BY <1>1 DEF Tracked, Ahead, Mirrors
<1>3. AreChoices(client) /\ AreChoices(choices) /\ Owning(client)
  BY DEF MirrorInv, TypeInv, Types, RowsInv
<1>4. Stays(client, w)
  BY <1>2, <1>3, StreamAssumption, IngestOwns
<1> HIDE DEF w, told
<1>5. told[i].calls = choices[i].calls /\ told[i].reasoning = choices[i].reasoning
  <2> DEFINE d == ContentDelta(0, RecoveryNoticeContent)
  <2>1. d \in Wires /\ d.index = 0 /\ d.calls = <<>> /\ d.reasoning = Absent
    <3>1. RecoveryNoticeContent \in Texts
      BY DEF RecoveryNoticeContent, Texts
    <3>2. QED BY <3>1, StreamAssumption, NoPieces DEF ContentDelta, Wires, Fields, StreamAssumption
  <2> HIDE DEF d
  <2>2. MergeDelta(choices, d)[i].calls = choices[i].calls
        /\ MergeDelta(choices, d)[i].reasoning = choices[i].reasoning
    <3> DEFINE m == MergeDelta(choices, d)
    <3>1. /\ \A k \in Indices : k # d.index => m[k] = choices[k]
          /\ m[d.index].calls = FoldLeft(MergeCall, choices[d.index].calls, d.calls)
          /\ m[d.index].reasoning = IF IsText(d.reasoning) THEN Text(choices[d.index].reasoning) \o d.reasoning
                                                           ELSE choices[d.index].reasoning
      <4>1. AreChoices(choices) /\ d \in Wires
        BY <1>3, <2>1
      <4>2. QED BY ONLY ZenonT(60), <4>1, StreamAssumption, MergeDeltaIs
    <3>2. 0 \in Indices /\ ~IsText(d.reasoning)
      BY <2>1, StreamAssumption DEF StreamAssumption, IsText
    <3>3. FoldLeft(MergeCall, choices[0].calls, <<>>) = choices[0].calls
      <4>1. IsSequence(choices[0].calls)
        BY <1>3, <3>2 DEF AreChoices, IsChoice
      <4>2. <<>> \in Seq(Pieces)
        BY NoPieces
      <4>3. QED BY <4>1, <4>2, StreamAssumption, CallsFold
    <3> HIDE DEF m
    <3>4. m[i].calls = choices[i].calls /\ m[i].reasoning = choices[i].reasoning
      BY <2>1, <3>1, <3>2, <3>3
    <3>5. QED BY <3>4 DEF m
  <2>3. told = choices \/ told = MergeDelta(choices, d)
    BY DEF told, ToldOf, d
  <2>4. QED BY <2>2, <2>3
<1>6. w[i].calls = choices[i].calls /\ w[i].reasoning = choices[i].reasoning
  BY <1>2, <1>5 DEF Agrees
<1>7. QED BY <1>4, <1>6 DEF Stays

\* However a stream ends but for a crash, the client's message is found under its
\* signature if nothing was lost on the way and no white space is right behind a
\* mirrored block, and under every tool call id it has seen in any case, for any
\* upstream whose tool calls have ids of their own that no later piece changes
\* (handler.go:316-321).
THEOREM CutStreamFoundHolds ==
    CleanText /\ OwnIds /\ SteadyIds => (Spec => []CutStreamFound)
<1> SUFFICES ASSUME CleanText, OwnIds, SteadyIds PROVE Spec => []CutStreamFound
  OBVIOUS
<1>1. MirrorInv /\ RowsInv => CutStreamFound
  <2> SUFFICES ASSUME MirrorInv, RowsInv, phase = "closed",
                      NEW i \in Indices, client[i].reasoning # Absent
               PROVE  /\ UpToDate /\ Answers(i) /\ Unharmed(i) => Found(SentBack(i), Twins(i))
                      /\ \A n \in DOMAIN client[i].calls : client[i].calls[n].id # NoId =>
                            \A x \in Contexts :
                               [place |-> x, alias |-> <<"tool_call", client[i].calls[n].id>>] \in DOMAIN rows
    BY DEF CutStreamFound
  <2>1. choices[i].reasoning # Absent /\ IdsStay(client[i].calls, choices[i].calls)
    BY SeenIs
  <2>2. Over
    BY DEF Over
  <2>3. ASSUME UpToDate, Answers(i), Unharmed(i) PROVE Found(SentBack(i), Twins(i))
    <3>1. IF notice = <<>> THEN Mirrors(choices, client, open, FALSE)
                           ELSE Mirrors(choices, client, open, TRUE)
      <4>1. ToldOf(choices, done) = choices
        BY <2>3, AnswerIs
      <4>2. QED BY <2>3, <4>1, Level
    <3>2. \E pending \in BOOLEAN : Mirrors(choices, client, open, pending)
      BY <3>1
    <3>3. QED BY <2>2, <2>3, <3>2, ShownFound
  <2>4. ASSUME NEW n \in DOMAIN client[i].calls, client[i].calls[n].id # NoId, NEW x \in Contexts
        PROVE  [place |-> x, alias |-> <<"tool_call", client[i].calls[n].id>>] \in DOMAIN rows
    <3>1. n \in DOMAIN choices[i].calls /\ choices[i].calls[n].id = client[i].calls[n].id
      BY <2>1, <2>4 DEF IdsStay
    <3>2. KeysOf(x, choices[i]) \subseteq DOMAIN rows
      BY <2>1, <2>2 DEF RowsInv, Final, Kept, KeptAt
    <3>3. choices[i].calls \in Seq(ToSet(choices[i].calls))
      BY DEF MirrorInv, TypeInv, Types, AreChoices, IsChoice, IsSequence
    <3>4. [place |-> x, alias |-> <<"tool_call", choices[i].calls[n].id>>] \in KeysOf(x, choices[i])
      BY <2>4, <3>1, <3>3, CallKey
    <3>5. QED BY <3>1, <3>2, <3>4
  <2>5. QED BY <2>3, <2>4
<1>2. QED BY <1>1, RowsHold, PTL

=============================================================================
