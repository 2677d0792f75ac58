---------------------------- MODULE TransformProofs ----------------------------
(***************************************************************************)
(* Lemmas about the rewriting of requests (Transform, ReasoningKeys): what *)
(* the operators on content and on histories return, for every input.      *)
(***************************************************************************)
EXTENDS Transform, WellFoundedInduction, TLAPS

-----------------------------------------------------------------------------
(* The least and the greatest element of a set of positions. *)

\* A set of numbers that is not empty has a least one.
LEMMA LeastNatural ==
    ASSUME NEW S, S \subseteq Nat, S # {} PROVE \E x \in S : \A y \in S : x <= y
<1>1. PICK x \in S : \A y \in S : ~(<<y, x>> \in OpToRel(<, Nat))
  BY WFMin, NatLessThanWellFounded
<1>2. \A y \in S : ~(y < x)
  BY <1>1 DEF OpToRel
<1>3. QED BY <1>2

\* Induction up to n, over the set of the numbers that have a property.
LEMMA InductionTo ==
    ASSUME NEW n \in Nat, NEW T, 0 \in T, \A i \in 1..n : i - 1 \in T => i \in T
    PROVE  \A i \in 0..n : i \in T
<1> DEFINE Bad == {i \in 0..n : i \notin T}
<1>1. ASSUME Bad # {} PROVE FALSE
  <2>1. PICK k \in Bad : \A j \in Bad : k <= j
    <3>1. Bad \subseteq Nat
      OBVIOUS
    <3> HIDE DEF Bad
    <3>2. QED BY <1>1, <3>1, LeastNatural
  <2>2. k \in 1..n /\ k - 1 \in 0..n /\ k - 1 < k
    BY <2>1
  <2>3. k - 1 \notin Bad
    <3> HIDE DEF Bad
    <3>1. QED BY <2>1, <2>2
  <2>4. QED BY <2>1, <2>2, <2>3
<1>2. QED BY <1>1

\* Min of a set of numbers belongs to it.
LEMMA MinIn == ASSUME NEW S, S \subseteq Nat, S # {} PROVE Min(S) \in S
BY LeastNatural DEF Min

\* Max of a set of positions belongs to it.
LEMMA MaxIn == ASSUME NEW n \in Nat, NEW S, S \subseteq 1..n, S # {} PROVE Max(S) \in S
<1> DEFINE T == {n - i : i \in S}
<1>1. PICK x \in T : \A y \in T : x <= y
  <2>1. T \subseteq Nat /\ T # {}
    <3>1. \A i \in S : n - i \in Nat
      <4>1. \A i \in 1..n : n - i \in Nat
        OBVIOUS
      <4>2. QED BY <4>1
    <3>2. QED BY <3>1
  <2>2. QED BY <2>1, LeastNatural
<1>2. PICK i \in S : x = n - i
  OBVIOUS
<1>3. \A j \in S : i >= j
  <2> SUFFICES ASSUME NEW j \in S PROVE i >= j
    OBVIOUS
  <2>1. n - j \in T /\ i \in 1..n /\ j \in 1..n
    OBVIOUS
  <2>2. n - i <= n - j
    BY <1>1, <1>2, <2>1
  <2>3. QED BY <2>1, <2>2
<1>4. QED BY <1>3 DEF Max

\* The leading system messages are a prefix.
LEMMA LeadingIsPrefix ==
    ASSUME NEW S, NEW messages \in Seq(S)
    PROVE  \E n \in 0..Len(messages) :
              /\ LeadingSystemMessages(messages) = SubSeq(messages, 1, n)
              /\ \A i \in 1..n : messages[i].role = "system"
<1> DEFINE P(n) == /\ \A i \in 1..n : messages[i].role = "system"
                   /\ n < Len(messages) => messages[n + 1].role # "system"
           A == {n \in 0..Len(messages) : n = Len(messages) \/ messages[n + 1].role # "system"}
<1>1. PICK n \in A : \A k \in A : n <= k
  <2>1. Len(messages) \in A /\ A \subseteq Nat
    OBVIOUS
  <2>2. QED BY <2>1, LeastNatural
<1>2. P(n)
  <2>1. ASSUME NEW i \in 1..n PROVE messages[i].role = "system"
    <3>1. i - 1 \in 0..Len(messages) /\ i - 1 < n /\ i - 1 # Len(messages) /\ (i - 1) + 1 = i
      OBVIOUS
    <3>2. i - 1 \notin A
      <4>1. \A k \in A : n <= k
        BY <1>1
      <4>2. ~(n <= i - 1)
        BY <3>1
      <4> HIDE DEF A
      <4>3. QED BY <4>1, <4>2
    <3>3. QED BY <3>1, <3>2
  <2>2. QED BY <2>1
<1>3. QED BY <1>2 DEF LeadingSystemMessages

\* What is left of a request is made of its messages and the instruction.
LEMMA BoundaryElements ==
    ASSUME NEW S, NEW messages \in Seq(S), RecoverySystem \in S, NEW i \in DOMAIN messages
    PROVE  FromBoundary(messages, i) \in Seq(S)
<1>1. LeadingSystemMessages(messages) \in Seq(S)
  BY LeadingIsPrefix
<1>2. SubSeq(messages, i, Len(messages)) \in Seq(S)
  OBVIOUS
<1> DEFINE I == {j \in 1..(i - 1) : IsUser(messages[j])}
           u == IF I # {} THEN Max(I) ELSE 0
<1>3. u # 0 => messages[u] \in S
  <2>1. I # {} => Max(I) \in I
    <3>1. i - 1 \in Nat /\ I \subseteq 1..(i - 1)
      OBVIOUS
    <3> HIDE DEF I
    <3>2. QED BY <3>1, MaxIn
  <2>2. QED BY <2>1
<1>4. (IF u = 0 THEN <<>> ELSE <<messages[u]>>) \in Seq(S)
  BY <1>3
<1>5. u = SelectLastInSubSeq(messages, 1, i - 1, IsUser)
  BY DEF SelectLastInSubSeq
<1> HIDE DEF u
<1>6. QED BY <1>1, <1>2, <1>4, <1>5 DEF FromBoundary

\* The same for the history before the last notice ...
LEMMA ActiveElements ==
    ASSUME NEW S, NEW messages \in Seq(S), RecoverySystem \in S
    PROVE  ActiveMessagesFromRecoveryBoundary(messages) \in Seq(S)
<1> DEFINE I == {j \in 1..Len(messages) : HasRecoveryNotice(messages[j])}
           r == IF I # {} THEN Max(I) ELSE 0
<1>1. r # 0 => r \in DOMAIN messages
  <2>1. /\ Len(messages) \in Nat /\ DOMAIN messages = 1..Len(messages)
        /\ I \subseteq 1..Len(messages)
    OBVIOUS
  <2> HIDE DEF I
  <2>2. QED BY <2>1, MaxIn
<1>2. r = SelectLastInSeq(messages, HasRecoveryNotice)
  BY DEF SelectLastInSeq
<1> HIDE DEF r
<1>3. QED BY <1>1, <1>2, BoundaryElements DEF ActiveMessagesFromRecoveryBoundary

\* ... and for a round of recovery.
LEMMA RecoveredElements ==
    ASSUME NEW S, NEW messages \in Seq(S), RecoverySystem \in S, NEW missing
    PROVE  RecoverMessagesFromMissingReasoning(messages, missing).messages \in Seq(S)
<1> DEFINE crossed == {i \in DOMAIN messages : /\ HasRecoveryNotice(messages[i])
                                               /\ \E j \in missing : j < i}
           I == {j \in 1..Len(messages) : IsUser(messages[j])}
           lastUser == IF I # {} THEN Max(I) ELSE 0
           leading == LeadingSystemMessages(messages)
<1>1. Len(messages) \in Nat /\ DOMAIN messages = 1..Len(messages)
  OBVIOUS
<1>2. crossed # {} => Max(crossed) \in DOMAIN messages
  <2>1. crossed \subseteq 1..Len(messages)
    BY <1>1
  <2> HIDE DEF crossed
  <2>2. QED BY <1>1, <2>1, MaxIn
<1>3. lastUser # 0 => lastUser \in DOMAIN messages
  <2>1. I \subseteq 1..Len(messages)
    OBVIOUS
  <2> HIDE DEF I
  <2>2. QED BY <1>1, <2>1, MaxIn
<1>4. leading \in Seq(S)
  <2>1. PICK n \in 0..Len(messages) : leading = SubSeq(messages, 1, n)
    BY LeadingIsPrefix
  <2> HIDE DEF leading
  <2>2. QED BY <2>1
<1>5. lastUser # 0 => leading \o <<RecoverySystem, messages[lastUser]>> \in Seq(S)
  BY <1>3, <1>4
<1>6. crossed # {} => FromBoundary(messages, Max(crossed)) \in Seq(S)
  BY <1>2, BoundaryElements
<1>7. lastUser = SelectLastInSeq(messages, IsUser)
  BY DEF SelectLastInSeq
<1>8. CASE crossed # {}
  BY <1>6, <1>8 DEF RecoverMessagesFromMissingReasoning
<1>9. CASE crossed = {} /\ lastUser = 0
  BY <1>7, <1>9 DEF RecoverMessagesFromMissingReasoning
<1>10. CASE crossed = {} /\ lastUser # 0
  BY <1>5, <1>7, <1>10 DEF RecoverMessagesFromMissingReasoning
<1>11. QED BY <1>8, <1>9, <1>10

-----------------------------------------------------------------------------
(* Content. *)

\* One step of a scan: from the position and the value so far, the next value.
Steps(n, X) == [(1..n) \X X -> X]

HasScan(n, X, x0, step) ==
    \E g \in [0..n -> X] : g[0] = x0 /\ \A i \in 1..n : g[i] = step[<<i, g[i - 1]>>]

\* A scan of n steps over a value of X has its results: the recursion of a
\* function on 0..n is well defined.
LEMMA ScanExists ==
    ASSUME NEW n \in Nat, NEW X, NEW x0 \in X, NEW step \in Steps(n, X)
    PROVE  HasScan(n, X, x0, step)
<1> DEFINE Scan(k, g) == g[0] = x0 /\ \A i \in 1..k : g[i] = step[<<i, g[i - 1]>>]
           Bad == {k \in 0..n : ~\E g \in [0..k -> X] : Scan(k, g)}
<1>1. ASSUME Bad # {} PROVE FALSE
  <2>1. PICK k \in Bad : \A j \in Bad : k <= j
    <3>1. Bad \subseteq Nat
      OBVIOUS
    <3> HIDE DEF Bad
    <3>2. QED BY <1>1, <3>1, LeastNatural
  <2>2. CASE k = 0
    <3>1. [i \in 0..0 |-> x0] \in [0..0 -> X] /\ Scan(0, [i \in 0..0 |-> x0])
      OBVIOUS
    <3>2. QED BY <2>1, <2>2, <3>1
  <2>3. CASE k # 0
    <3>1. k - 1 \in 0..n /\ k \in 1..n /\ k - 1 < k
      BY <2>1, <2>3
    <3>2. k - 1 \notin Bad
      <4> HIDE DEF Bad
      <4>1. QED BY <2>1, <3>1
    <3>3. PICK g \in [0..(k - 1) -> X] : Scan(k - 1, g)
      BY <3>1, <3>2
    <3> DEFINE h == [i \in 0..k |-> IF i = k THEN step[<<k, g[k - 1]>>] ELSE g[i]]
    <3>4. g[k - 1] \in X /\ step[<<k, g[k - 1]>>] \in X
      BY <3>1, <3>3 DEF Steps
    <3>5. h \in [0..k -> X]
      BY <3>1, <3>4
    <3>6. ASSUME NEW i \in 1..k PROVE h[i] = step[<<i, h[i - 1]>>]
      <4>1. /\ i - 1 \in 0..(k - 1) /\ i - 1 \in 0..k /\ i \in 0..k /\ i - 1 # k
            /\ i # k => i \in 1..(k - 1)
        BY <3>1
      <4>2. h[i - 1] = g[i - 1]
        BY <4>1
      <4>3. CASE i = k
        BY <4>1, <4>2, <4>3
      <4>4. CASE i # k
        <5>1. h[i] = g[i] /\ g[i] = step[<<i, g[i - 1]>>]
          BY <3>3, <4>1, <4>4
        <5>2. QED BY <4>2, <5>1
      <4>5. QED BY <4>3, <4>4
    <3>7. h[0] = x0
      BY <3>1, <3>3
    <3>8. QED BY <2>1, <3>1, <3>5, <3>6, <3>7
  <2>4. QED BY <2>2, <2>3
<1>2. n \in 0..n /\ n \notin Bad
  BY <1>1
<1>3. QED BY <1>2 DEF HasScan

\* Trimming leaves content that does not begin with a newline, and leaves
\* such content alone.
LEMMA TrimLeftTrims ==
    ASSUME NEW S, NEW content \in Seq(S)
    PROVE  /\ TrimLeft(content) \in Seq(S)
           /\ TrimLeft(content) # <<>> => TrimLeft(content)[1] # "nl"
           /\ content # <<>> /\ content[1] # "nl" => TrimLeft(content) = content
           /\ content = <<>> => TrimLeft(content) = <<>>
<1> DEFINE I == {i \in 1..Len(content) : content[i] # "nl"}
           first == IF I # {} THEN Min(I) ELSE 0
<1>1. first = SelectInSeq(content, LAMBDA s : s # "nl")
  BY DEF SelectInSeq
<1>2. ASSUME I # {} PROVE first \in I /\ \A i \in I : first <= i
  <2>1. I \subseteq Nat
    OBVIOUS
  <2> HIDE DEF I
  <2>2. QED BY <1>2, <2>1, LeastNatural DEF Min
<1>3. CASE I = {}
  <2>1. TrimLeft(content) = <<>>
    BY <1>1, <1>3 DEF TrimLeft
  <2>2. content # <<>> => 1 \in 1..Len(content)
    OBVIOUS
  <2>3. QED BY <1>3, <2>1, <2>2
<1>4. CASE I # {}
  <2>1. first \in 1..Len(content) /\ content[first] # "nl"
    BY <1>2, <1>4
  <2> HIDE DEF first
  <2>2. TrimLeft(content) = SubSeq(content, first, Len(content))
    <3>1. first # 0
      BY <2>1
    <3>2. QED BY <1>1, <3>1 DEF TrimLeft
  <2>3. SubSeq(content, first, Len(content)) \in Seq(S)
    BY <2>1
  <2>4. SubSeq(content, first, Len(content))[1] = content[first]
    BY <2>1
  <2>5. content[1] # "nl" => first = 1
    <3>1. content # <<>> /\ 1 \in 1..Len(content)
      BY <2>1
    <3>2. content[1] # "nl" => first <= 1
      BY <1>2, <1>4, <3>1
    <3>3. QED BY <2>1, <3>2
  <2>6. SubSeq(content, 1, Len(content)) = content
    OBVIOUS
  <2>7. QED BY <2>1, <2>2, <2>3, <2>4, <2>5, <2>6
<1>5. QED BY <1>3, <1>4

\* Taking off the thinking blocks is a scan that drops what is in a block.
LEMMA StripScans ==
    ASSUME NEW S, NEW content \in Seq(S)
    PROVE  \E kept \in [0..Len(content) -> Seq(S)] :
              /\ kept[0] = <<>>
              /\ \A n \in 1..Len(content) :
                    kept[n] = IF Matched(content, n) THEN kept[n - 1]
                              ELSE Append(kept[n - 1], content[n])
              /\ StripCursorThinkingBlocks(content) = TrimLeft(kept[Len(content)])
<1> DEFINE N == Len(content)
           F(g) == [n \in 0..N |-> IF n = 0 THEN <<>>
                                   ELSE IF Matched(content, n) THEN g[n - 1]
                                   ELSE Append(g[n - 1], content[n])]
           step == [p \in (1..N) \X Seq(S) |-> IF Matched(content, p[1]) THEN p[2]
                                               ELSE Append(p[2], content[p[1]])]
<1>1. N \in Nat /\ <<>> \in Seq(S) /\ step \in Steps(N, Seq(S))
  BY DEF Steps
<1>2. PICK g \in [0..N -> Seq(S)] :
          g[0] = <<>> /\ \A i \in 1..N : g[i] = step[<<i, g[i - 1]>>]
  <2> HIDE DEF step, N
  <2>1. HasScan(N, Seq(S), <<>>, step)
    BY <1>1, ScanExists
  <2>2. QED BY <2>1 DEF HasScan
<1>3. ASSUME NEW i \in 1..N
      PROVE  g[i] = IF Matched(content, i) THEN g[i - 1] ELSE Append(g[i - 1], content[i])
  <2>1. i - 1 \in 0..N /\ g[i - 1] \in Seq(S) /\ <<i, g[i - 1]>> \in (1..N) \X Seq(S)
    <3> HIDE DEF N
    <3>1. i - 1 \in 0..N
      BY <1>1
    <3>2. QED BY <1>2, <3>1
  <2>2. QED BY <1>2, <2>1
<1>4. g = F(g)
  <2>1. ASSUME NEW i \in 0..N PROVE g[i] = F(g)[i]
    <3>1. i = 0 \/ i \in 1..N
      BY <1>1
    <3>2. CASE i = 0
      BY <1>2, <3>2
    <3>3. CASE i \in 1..N
      <4>1. F(g)[i] = IF Matched(content, i) THEN g[i - 1] ELSE Append(g[i - 1], content[i])
        BY <1>1, <3>3
      <4>2. QED BY <1>3, <3>3, <4>1
    <3>4. QED BY <3>1, <3>2, <3>3
  <2>2. QED BY <2>1
<1> DEFINE kept == CHOOSE f : f = F(f)
<1>5. kept = F(kept)
  BY <1>4
<1>6. StripCursorThinkingBlocks(content) = TrimLeft(kept[N])
  BY DEF StripCursorThinkingBlocks
<1> HIDE DEF kept
<1>7. ASSUME NEW n \in 1..N
      PROVE  kept[n] = IF Matched(content, n) THEN kept[n - 1]
                       ELSE Append(kept[n - 1], content[n])
  <2>1. n \in 0..N /\ n # 0
    BY <1>1
  <2>2. kept[n] = F(kept)[n]
    BY <1>5
  <2>3. F(kept)[n] = IF Matched(content, n) THEN kept[n - 1]
                     ELSE Append(kept[n - 1], content[n])
    BY <2>1
  <2>4. QED BY <2>2, <2>3
<1>8. kept[0] = <<>>
  <2>1. kept[0] = F(kept)[0] /\ 0 \in 0..N
    BY <1>1, <1>5
  <2>2. QED BY <2>1
<1>9. \A n \in 0..N : kept[n] = g[n]
  <2> DEFINE T == {n \in 0..N : kept[n] = g[n]}
  <2>1. 0 \in T
    BY <1>1, <1>2, <1>8
  <2>2. ASSUME NEW n \in 1..N, n - 1 \in T PROVE n \in T
    BY <1>3, <1>7, <2>2
  <2> HIDE DEF T
  <2>3. \A n \in 0..N : n \in T
    BY <1>1, <2>1, <2>2, InductionTo
  <2>4. QED BY <2>3 DEF T
<1>10. kept \in [0..N -> Seq(S)]
  <2>1. kept = [n \in 0..N |-> kept[n]]
    BY <1>5
  <2>2. QED BY <1>9, <2>1
<1>11. QED BY <1>6, <1>7, <1>8, <1>10

\* What an upstream answer or a message that has been normalized looks like:
\* no mirrored thinking, no newline in front.
CleanContent(content) == /\ \A i \in DOMAIN content : content[i] # "think"
                         /\ content # <<>> => content[1] # "nl"

\* A stripped message is clean ...
LEMMA StripCleans ==
    ASSUME NEW S, NEW content \in Seq(S)
    PROVE  /\ StripCursorThinkingBlocks(content) \in Seq(S)
           /\ CleanContent(StripCursorThinkingBlocks(content))
<1>1. PICK kept \in [0..Len(content) -> Seq(S)] :
         /\ kept[0] = <<>>
         /\ \A n \in 1..Len(content) :
               kept[n] = IF Matched(content, n) THEN kept[n - 1]
                         ELSE Append(kept[n - 1], content[n])
         /\ StripCursorThinkingBlocks(content) = TrimLeft(kept[Len(content)])
  BY StripScans
<1> DEFINE Q == S \ {"think"}
           T == {n \in 0..Len(content) : kept[n] \in Seq(Q)}
<1>2. 0 \in T
  BY <1>1
<1>3. ASSUME NEW n \in 1..Len(content), n - 1 \in T PROVE n \in T
  <2>1. content[n] = "think" => Matched(content, n)
    BY DEF Matched
  <2>2. ~Matched(content, n) => content[n] \in Q
    BY <2>1
  <2>3. kept[n - 1] \in Seq(Q) /\ n \in 0..Len(content)
    BY <1>3
  <2>4. CASE Matched(content, n)
    BY <1>1, <2>3, <2>4
  <2>5. CASE ~Matched(content, n)
    <3>1. Append(kept[n - 1], content[n]) \in Seq(Q)
      BY <2>2, <2>3, <2>5
    <3>2. QED BY <1>1, <2>3, <2>5, <3>1
  <2>6. QED BY <2>4, <2>5
<1>4. Len(content) \in Nat /\ Len(content) \in 0..Len(content)
  OBVIOUS
<1>5. kept[Len(content)] \in Seq(Q)
  <2> HIDE DEF T
  <2>1. \A n \in 0..Len(content) : n \in T
    BY <1>2, <1>3, <1>4, InductionTo
  <2>2. QED BY <1>4, <2>1 DEF T
<1> HIDE DEF T
<1> DEFINE trimmed == TrimLeft(kept[Len(content)])
<1>6. trimmed \in Seq(Q) /\ (trimmed # <<>> => trimmed[1] # "nl")
  BY <1>5, TrimLeftTrims
<1> HIDE DEF trimmed
<1>7. trimmed \in Seq(S) /\ \A i \in DOMAIN trimmed : trimmed[i] # "think"
  BY <1>6
<1>8. StripCursorThinkingBlocks(content) = trimmed
  BY <1>1 DEF trimmed
<1>9. QED BY <1>6, <1>7, <1>8 DEF CleanContent

\* ... what is clean stays as it is; with a block in front of it, unless it
\* begins with white space.
LEMMA StripKeepsClean ==
    ASSUME NEW S, NEW content \in Seq(S), CleanContent(content)
    PROVE  /\ StripCursorThinkingBlocks(content) = content
           /\ content = <<>> \/ content[1] \notin White
                => StripCursorThinkingBlocks(<<"think">> \o content) = content
<1>1. ASSUME NEW front \in {<<>>, <<"think">>},
             front # <<>> /\ content # <<>> => content[1] \notin White
      PROVE  StripCursorThinkingBlocks(front \o content) = content
  <2> DEFINE all == front \o content
             k == Len(front)
             R == S \cup {"think"}
             N == Len(all)
  <2>1. k \in 0..1 /\ N = k + Len(content) /\ all \in Seq(R) /\ N \in Nat
    <3>1. content \in Seq(R)
      OBVIOUS
    <3>2. front \in Seq(R) /\ k \in 0..1
      <4>1. CASE front = <<>>
        BY <4>1
      <4>2. CASE front = <<"think">>
        BY <4>2
      <4>3. QED BY <1>1, <4>1, <4>2
    <3>3. QED BY <3>1, <3>2
  <2>2. \A n \in 1..Len(content) : all[k + n] = content[n]
    BY <1>1
  <2>3. k = 1 => all[1] = "think"
    <3>1. CASE front = <<>>
      BY <3>1
    <3>2. CASE front = <<"think">>
      BY <3>2
    <3>3. QED BY <1>1, <3>1, <3>2
  <2> HIDE DEF all, k
  <2>4. PICK kept \in [0..N -> Seq(R)] :
           /\ kept[0] = <<>>
           /\ \A n \in 1..N : kept[n] = IF Matched(all, n) THEN kept[n - 1]
                                        ELSE Append(kept[n - 1], all[n])
           /\ StripCursorThinkingBlocks(all) = TrimLeft(kept[N])
    BY <2>1, StripScans
  <2>5. kept[k] = <<>>
    <3>1. CASE k = 0
      BY <2>4, <3>1
    <3>2. CASE k = 1
      <4>1. Matched(all, 1)
        BY <2>3, <3>2 DEF Matched
      <4>2. 1 \in 1..N
        BY <2>1, <3>2
      <4>3. kept[1] = kept[0]
        BY <2>4, <4>1, <4>2
      <4>4. QED BY <2>4, <3>2, <4>3
    <3>3. QED BY <2>1, <3>1, <3>2
  <2>6. ASSUME NEW n \in 1..Len(content) PROVE ~Matched(all, k + n)
    <3> SUFFICES ASSUME NEW j \in 1..(k + n), all[j] = "think",
                        \A l \in (j + 1)..(k + n) : all[l] \in White
                 PROVE  FALSE
      BY DEF Matched
    <3>1. content[1] = all[k + 1] /\ 1 \in 1..Len(content) /\ content # <<>>
      BY <2>2
    <3>2. CASE j <= k
      <4>1. k + 1 \in (j + 1)..(k + n) /\ front # <<>>
        BY <2>1, <3>2 DEF k
      <4>2. QED BY <1>1, <3>1, <4>1
    <3>3. CASE j > k
      <4>1. j - k \in 1..Len(content) /\ k + (j - k) = j
        BY <2>1, <3>3
      <4>2. content[j - k] = "think"
        BY <2>2, <4>1
      <4>3. QED BY <4>1, <4>2 DEF CleanContent
    <3>4. QED BY <2>1, <3>2, <3>3
  <2> DEFINE T == {n \in 0..Len(content) : kept[k + n] = SubSeq(content, 1, n)}
  <2>7. 0 \in T
    BY <2>1, <2>5
  <2>8. ASSUME NEW n \in 1..Len(content), n - 1 \in T PROVE n \in T
    <3>1. kept[k + (n - 1)] = SubSeq(content, 1, n - 1)
      BY <2>8
    <3>2. k + n \in 1..N /\ (k + n) - 1 = k + (n - 1)
      BY <2>1
    <3>3. kept[k + n] = Append(kept[k + (n - 1)], all[k + n])
      BY <2>4, <2>6, <3>2
    <3>4. Append(SubSeq(content, 1, n - 1), content[n]) = SubSeq(content, 1, n)
      OBVIOUS
    <3>5. kept[k + n] = SubSeq(content, 1, n)
      BY <2>2, <3>1, <3>3, <3>4
    <3>6. QED BY <3>5
  <2>9. kept[N] = content
    <3> HIDE DEF T
    <3>1. Len(content) \in Nat /\ Len(content) \in 0..Len(content)
      OBVIOUS
    <3>2. Len(content) \in T
      BY <2>7, <2>8, <3>1, InductionTo
    <3>3. kept[k + Len(content)] = SubSeq(content, 1, Len(content))
      BY <3>2 DEF T
    <3>4. QED BY <2>1, <3>3
  <2>10. TrimLeft(content) = content
    BY TrimLeftTrims DEF CleanContent
  <2>11. QED BY <2>4, <2>9, <2>10 DEF all
<1>2. <<>> \o content = content
  OBVIOUS
<1>3. QED BY <1>1, <1>2

\* A notice stays in front when all that precedes it is taken off.
LEMMA StripKeepsNotice ==
    ASSUME NEW S, NEW content \in Seq(S), NEW p \in 1..Len(content),
           content[p] = "notice", \A i \in 1..(p - 1) : Matched(content, i)
    PROVE  LET stripped == StripCursorThinkingBlocks(content)
           IN  stripped # <<>> /\ stripped[1] = "notice"
<1>1. PICK kept \in [0..Len(content) -> Seq(S)] :
         /\ kept[0] = <<>>
         /\ \A n \in 1..Len(content) :
               kept[n] = IF Matched(content, n) THEN kept[n - 1]
                         ELSE Append(kept[n - 1], content[n])
         /\ StripCursorThinkingBlocks(content) = TrimLeft(kept[Len(content)])
  BY StripScans
<1>2. Len(content) \in Nat /\ Len(content) \in 0..Len(content)
  OBVIOUS
<1>3. ~Matched(content, p)
  <2> SUFFICES ASSUME NEW j \in 1..p, content[j] = "think",
                      \A l \in (j + 1)..p : content[l] \in White
               PROVE  FALSE
    BY DEF Matched
  <2>1. j < p
    OBVIOUS
  <2>2. p \in (j + 1)..p
    BY <2>1
  <2>3. QED BY <2>2 DEF White
<1>4. kept[p - 1] = <<>>
  <2> DEFINE T == {n \in 0..Len(content) : n < p => kept[n] = <<>>}
  <2>1. 0 \in T
    BY <1>1
  <2>2. ASSUME NEW n \in 1..Len(content), n - 1 \in T PROVE n \in T
    <3>1. CASE n < p
      <4>1. Matched(content, n) /\ kept[n - 1] = <<>>
        BY <2>2, <3>1
      <4>2. QED BY <1>1, <4>1
    <3>2. CASE ~(n < p)
      BY <3>2
    <3>3. QED BY <3>1, <3>2
  <2> HIDE DEF T
  <2>3. \A n \in 0..Len(content) : n \in T
    BY <1>2, <2>1, <2>2, InductionTo
  <2>4. p - 1 \in 0..Len(content) /\ p - 1 < p
    BY <1>2
  <2>5. QED BY <2>3, <2>4 DEF T
<1> DEFINE U == {n \in 0..Len(content) : n >= p => kept[n] # <<>> /\ kept[n][1] = "notice"}
<1>5. 0 \in U
  OBVIOUS
<1>6. ASSUME NEW n \in 1..Len(content), n - 1 \in U PROVE n \in U
  <2>1. n - 1 \in 0..Len(content) /\ kept[n - 1] \in Seq(S) /\ n \in 0..Len(content)
    BY <1>1
  <2>2. kept[n] = IF Matched(content, n) THEN kept[n - 1] ELSE Append(kept[n - 1], content[n])
    BY <1>1
  <2>3. CASE n < p
    BY <2>1, <2>3
  <2>4. CASE n = p
    <3>1. kept[n] = <<content[p]>>
      <4>1. kept[n] = Append(kept[p - 1], content[p])
        BY <1>3, <2>2, <2>4
      <4>2. Append(<<>>, content[p]) = <<content[p]>>
        OBVIOUS
      <4>3. QED BY <1>4, <4>1, <4>2
    <3>2. QED BY <2>1, <3>1
  <2>5. CASE n > p
    <3>1. kept[n - 1] # <<>> /\ kept[n - 1][1] = "notice"
      BY <1>6, <2>5
    <3>2. Append(kept[n - 1], content[n]) # <<>>
             /\ Append(kept[n - 1], content[n])[1] = "notice"
      BY <2>1, <3>1
    <3>3. QED BY <2>1, <2>2, <3>1, <3>2
  <2>6. QED BY <2>3, <2>4, <2>5
<1> HIDE DEF U
<1>7. Len(content) \in U
  BY <1>2, <1>5, <1>6, InductionTo
<1>8. kept[Len(content)] # <<>> /\ kept[Len(content)][1] = "notice"
  BY <1>2, <1>7 DEF U
<1>9. TrimLeft(kept[Len(content)]) = kept[Len(content)]
  BY <1>1, <1>2, <1>8, TrimLeftTrims
<1>10. QED BY <1>1, <1>8, <1>9

\* A notice is in front of a normalized answer, mirrored thinking or not.
LEMMA NoticeShows ==
    ASSUME NEW S, NEW content \in Seq(S)
    PROVE  LET shown == StripCursorThinkingBlocks(RecoveryNoticeContent \o content)
               mirrored == StripCursorThinkingBlocks(<<"think">> \o (RecoveryNoticeContent \o content))
           IN  /\ shown # <<>> /\ shown[1] = "notice"
               /\ mirrored # <<>> /\ mirrored[1] = "notice"
<1> DEFINE a == RecoveryNoticeContent \o content
           b == <<"think">> \o a
           R == S \cup {"think", "nl", "notice"}
<1>1. a \in Seq(R) /\ b \in Seq(R)
  <2>1. content \in Seq(R) /\ <<"think">> \in Seq(R) /\ RecoveryNoticeContent \in Seq(R)
    BY DEF RecoveryNoticeContent
  <2>2. QED BY <2>1
<1>2. /\ 1 \in 1..Len(a) /\ a[1] = "notice" /\ 2 \in 1..Len(b) /\ b[2] = "notice" /\ b[1] = "think"
  BY DEF RecoveryNoticeContent
<1> HIDE DEF a, b
<1>3. \A i \in 1..(2 - 1) : Matched(b, i)
  BY <1>2 DEF Matched
<1>4. \A i \in 1..(1 - 1) : Matched(a, i)
  OBVIOUS
<1> DEFINE x == StripCursorThinkingBlocks(a)
           y == StripCursorThinkingBlocks(b)
<1>5. x # <<>> /\ x[1] = "notice"
  BY <1>1, <1>2, <1>4, StripKeepsNotice
<1>6. y # <<>> /\ y[1] = "notice"
  BY <1>1, <1>2, <1>3, StripKeepsNotice
<1>7. QED BY <1>5, <1>6 DEF a, b, x, y

-----------------------------------------------------------------------------
(* Positions: the last user message, the last notice, the leading system   *)
(* messages.                                                               *)

\* Max is in the set, and no element exceeds it.
LEMMA MaxIs ==
    ASSUME NEW n \in Nat, NEW S, S \subseteq 1..n, S # {}
    PROVE  Max(S) \in S /\ \A j \in S : j <= Max(S)
<1>1. Max(S) \in S
  BY MaxIn
<1>2. \E x \in S : \A j \in S : x >= j
  <2> DEFINE T == {n - i : i \in S}
  <2>1. PICK x \in T : \A y \in T : x <= y
    <3>1. T \subseteq Nat /\ T # {}
      <4>1. \A i \in 1..n : n - i \in Nat
        OBVIOUS
      <4>2. QED BY <4>1
    <3>2. QED BY <3>1, LeastNatural
  <2>2. PICK i \in S : x = n - i
    OBVIOUS
  <2>3. ASSUME NEW j \in S PROVE i >= j
    <3>1. n - j \in T /\ i \in 1..n /\ j \in 1..n
      OBVIOUS
    <3>2. n - i <= n - j
      BY <2>1, <2>2, <3>1
    <3>3. QED BY <3>1, <3>2
  <2>4. QED BY <2>3
<1>3. \A j \in S : Max(S) >= j
  BY <1>2 DEF Max
<1>4. \A j \in S : j \in Nat
  OBVIOUS
<1>5. QED BY <1>1, <1>3, <1>4

\* An element that no other exceeds is the greatest.
LEMMA MaxUnique ==
    ASSUME NEW n \in Nat, NEW S, S \subseteq 1..n, NEW k \in S, \A j \in S : j <= k
    PROVE  Max(S) = k
<1>1. Max(S) \in S /\ k <= Max(S)
  BY MaxIs
<1>2. Max(S) <= k /\ Max(S) \in 1..n /\ k \in 1..n
  BY <1>1
<1>3. QED BY <1>1, <1>2

\* The position of the last message of a kind, or 0.
LastUserAt(s) == SelectLastInSeq(s, IsUser)
LastNoticeAt(s) == SelectLastInSeq(s, HasRecoveryNotice)

\* The position of the last user message.
LEMMA LastUserPosition ==
    ASSUME NEW S, NEW s \in Seq(S)
    PROVE  LET u == LastUserAt(s)
           IN  /\ u \in 0..Len(s)
               /\ u = 0 => \A i \in DOMAIN s : ~IsUser(s[i])
               /\ u # 0 => IsUser(s[u]) /\ \A i \in (u + 1)..Len(s) : ~IsUser(s[i])
<1> DEFINE I == {j \in 1..Len(s) : IsUser(s[j])}
           u == IF I # {} THEN Max(I) ELSE 0
<1>1. u = LastUserAt(s)
  BY DEF LastUserAt, SelectLastInSeq
<1>2. Len(s) \in Nat /\ DOMAIN s = 1..Len(s)
  OBVIOUS
<1>3. CASE I = {}
  BY <1>1, <1>2, <1>3
<1>4. CASE I # {}
  <2>1. u \in I /\ \A j \in I : j <= u
    <3>1. I \subseteq 1..Len(s)
      OBVIOUS
    <3> HIDE DEF I
    <3>2. QED BY <1>2, <1>4, <3>1, MaxIs
  <2> HIDE DEF u
  <2>2. u \in 1..Len(s) /\ IsUser(s[u])
    BY <2>1
  <2>3. ASSUME NEW i \in (u + 1)..Len(s), IsUser(s[i]) PROVE FALSE
    <3>1. i \in I /\ i > u
      BY <1>2, <2>2, <2>3
    <3>2. i <= u
      BY <2>1, <3>1
    <3>3. QED BY <2>2, <3>1, <3>2
  <2>4. QED BY <1>1, <2>2, <2>3
<1>5. QED BY <1>3, <1>4

\* A user message that no other follows is the last one.
LEMMA LastUserUnique ==
    ASSUME NEW S, NEW s \in Seq(S), NEW k \in DOMAIN s, IsUser(s[k]),
           \A i \in (k + 1)..Len(s) : ~IsUser(s[i])
    PROVE  LastUserAt(s) = k
<1> DEFINE u == LastUserAt(s)
<1>1. /\ u \in 0..Len(s)
      /\ u = 0 => \A i \in DOMAIN s : ~IsUser(s[i])
      /\ u # 0 => IsUser(s[u]) /\ \A i \in (u + 1)..Len(s) : ~IsUser(s[i])
  BY LastUserPosition
<1> HIDE DEF u
<1>2. u # 0 /\ k \in 1..Len(s)
  BY <1>1
<1>3. ~(u < k)
  <2>1. u < k => k \in (u + 1)..Len(s)
    BY <1>1, <1>2
  <2>2. QED BY <1>1, <1>2, <2>1
<1>4. ~(k < u)
  <2>1. k < u => u \in (k + 1)..Len(s)
    BY <1>1, <1>2
  <2>2. QED BY <1>1, <1>2, <2>1
<1>5. u = k
  BY <1>1, <1>2, <1>3, <1>4
<1>6. QED BY <1>5 DEF u

\* The position of the last recovery notice.
LEMMA LastNoticePosition ==
    ASSUME NEW S, NEW s \in Seq(S)
    PROVE  LET b == LastNoticeAt(s)
           IN  /\ b \in 0..Len(s)
               /\ b = 0 => \A i \in DOMAIN s : ~HasRecoveryNotice(s[i])
               /\ b # 0 => /\ HasRecoveryNotice(s[b])
                           /\ \A i \in (b + 1)..Len(s) : ~HasRecoveryNotice(s[i])
<1> DEFINE I == {j \in 1..Len(s) : HasRecoveryNotice(s[j])}
           b == IF I # {} THEN Max(I) ELSE 0
<1>1. b = LastNoticeAt(s)
  BY DEF LastNoticeAt, SelectLastInSeq
<1>2. Len(s) \in Nat /\ DOMAIN s = 1..Len(s)
  OBVIOUS
<1>3. CASE I = {}
  BY <1>1, <1>2, <1>3
<1>4. CASE I # {}
  <2>1. b \in I /\ \A j \in I : j <= b
    <3>1. I \subseteq 1..Len(s)
      OBVIOUS
    <3> HIDE DEF I
    <3>2. QED BY <1>2, <1>4, <3>1, MaxIs
  <2> HIDE DEF b
  <2>2. b \in 1..Len(s) /\ HasRecoveryNotice(s[b])
    BY <2>1
  <2>3. ASSUME NEW i \in (b + 1)..Len(s), HasRecoveryNotice(s[i]) PROVE FALSE
    <3>1. i \in I /\ i > b
      BY <1>2, <2>2, <2>3
    <3>2. i <= b
      BY <2>1, <3>1
    <3>3. QED BY <2>2, <3>1, <3>2
  <2>4. QED BY <1>1, <2>2, <2>3
<1>5. QED BY <1>3, <1>4

\* A notice that no other follows is the last one.
LEMMA LastNoticeUnique ==
    ASSUME NEW S, NEW s \in Seq(S), NEW k \in DOMAIN s, HasRecoveryNotice(s[k]),
           \A i \in (k + 1)..Len(s) : ~HasRecoveryNotice(s[i])
    PROVE  LastNoticeAt(s) = k
<1> DEFINE u == LastNoticeAt(s)
<1>1. /\ u \in 0..Len(s)
      /\ u = 0 => \A i \in DOMAIN s : ~HasRecoveryNotice(s[i])
      /\ u # 0 => HasRecoveryNotice(s[u]) /\ \A i \in (u + 1)..Len(s) : ~HasRecoveryNotice(s[i])
  BY LastNoticePosition
<1> HIDE DEF u
<1>2. u # 0 /\ k \in 1..Len(s)
  BY <1>1
<1>3. ~(u < k)
  <2>1. u < k => k \in (u + 1)..Len(s)
    BY <1>1, <1>2
  <2>2. QED BY <1>1, <1>2, <2>1
<1>4. ~(k < u)
  <2>1. k < u => u \in (k + 1)..Len(s)
    BY <1>1, <1>2
  <2>2. QED BY <1>1, <1>2, <2>1
<1>5. u = k
  BY <1>1, <1>2, <1>3, <1>4
<1>6. QED BY <1>5 DEF u

\* The leading system messages depend only on the messages up to the first
\* that is not one.
LEMMA LeadingIs ==
    ASSUME NEW S, NEW s \in Seq(S), NEW n \in 0..Len(s),
           \A i \in 1..n : s[i].role = "system",
           n < Len(s) => s[n + 1].role # "system"
    PROVE  LeadingSystemMessages(s) = SubSeq(s, 1, n)
<1> DEFINE P(k) == /\ \A i \in 1..k : s[i].role = "system"
                   /\ k < Len(s) => s[k + 1].role # "system"
           m == CHOOSE k \in 0..Len(s) : P(k)
<1>1. m \in 0..Len(s) /\ P(m)
  <2>1. P(n)
    OBVIOUS
  <2> HIDE DEF P
  <2>2. QED BY <2>1
<1>2. LeadingSystemMessages(s) = SubSeq(s, 1, m)
  BY DEF LeadingSystemMessages
<1> HIDE DEF m
<1>3. ~(m < n)
  <2>1. m < n => m + 1 \in 1..n /\ m < Len(s)
    BY <1>1
  <2>2. QED BY <1>1, <2>1
<1>4. ~(n < m)
  <2>1. n < m => n + 1 \in 1..m /\ n < Len(s)
    BY <1>1
  <2>2. QED BY <1>1, <2>1
<1>5. m = n
  BY <1>1, <1>3, <1>4
<1>6. QED BY <1>2, <1>5

-----------------------------------------------------------------------------
(* What a request consists of when its history is retired.                 *)

\* The last user message, if there is one.
ContextOf(s) == IF LastUserAt(s) = 0 THEN <<>> ELSE <<s[LastUserAt(s)]>>

\* What stands for the history s that is retired.
RetiredFront(s) == LeadingSystemMessages(s) \o <<RecoverySystem>> \o ContextOf(s)

\* The last user message before i is the last one of the messages before i.
LEMMA ContextUser ==
    ASSUME NEW S, NEW messages \in Seq(S), NEW i \in DOMAIN messages
    PROVE  SelectLastInSubSeq(messages, 1, i - 1, IsUser) = LastUserAt(SubSeq(messages, 1, i - 1))
<1> DEFINE s == SubSeq(messages, 1, i - 1)
           I == {j \in 1..(i - 1) : IsUser(messages[j])}
           J == {j \in 1..Len(s) : IsUser(s[j])}
<1>1. Len(s) = i - 1 /\ \A j \in 1..(i - 1) : s[j] = messages[j]
  OBVIOUS
<1> HIDE DEF s
<1>2. I = J
  BY <1>1
<1>3. SelectLastInSubSeq(messages, 1, i - 1, IsUser) = IF I # {} THEN Max(I) ELSE 0
  BY DEF SelectLastInSubSeq
<1>4. LastUserAt(s) = IF J # {} THEN Max(J) ELSE 0
  BY DEF LastUserAt, SelectLastInSeq
<1> HIDE DEF I, J
<1>5. QED BY <1>2, <1>3, <1>4 DEF s

\* The leading system messages end before any message of another role.
LEMMA LeadingOfPrefix ==
    ASSUME NEW S, NEW messages \in Seq(S), NEW i \in DOMAIN messages,
           messages[i].role # "system"
    PROVE  LeadingSystemMessages(messages) = LeadingSystemMessages(SubSeq(messages, 1, i - 1))
<1> DEFINE s == SubSeq(messages, 1, i - 1)
<1>1. /\ s \in Seq(S) /\ Len(s) = i - 1 /\ \A j \in 1..(i - 1) : s[j] = messages[j]
      /\ i \in 1..Len(messages)
  OBVIOUS
<1> DEFINE A == {n \in 0..Len(messages) : n < Len(messages) /\ messages[n + 1].role # "system"}
<1>2. PICK n \in A : \A k \in A : n <= k
  <2>1. i - 1 \in A /\ A \subseteq Nat
    BY <1>1
  <2> HIDE DEF A
  <2>2. QED BY <2>1, LeastNatural
<1>3. n <= i - 1
  <2>1. i - 1 \in A
    BY <1>1
  <2> HIDE DEF A
  <2>2. QED BY <1>2, <2>1
<1>4. ASSUME NEW j \in 1..n PROVE messages[j].role = "system"
  <2>1. j - 1 \in 0..Len(messages) /\ j - 1 < n /\ j - 1 < Len(messages) /\ (j - 1) + 1 = j
    BY <1>1, <1>3
  <2>2. j - 1 \notin A
    <3>1. n \in Nat
      BY <1>2
    <3> HIDE DEF A
    <3>2. QED BY <1>2, <2>1, <3>1
  <2>3. QED BY <2>1, <2>2
<1>5. n \in 0..Len(messages) /\ n \in 0..(i - 1) /\ messages[n + 1].role # "system"
  BY <1>1, <1>2, <1>3
<1> HIDE DEF s, A
<1>6. LeadingSystemMessages(messages) = SubSeq(messages, 1, n)
  BY <1>4, <1>5, LeadingIs
<1>7. LeadingSystemMessages(s) = SubSeq(s, 1, n)
  <2>1. \A j \in 1..n : s[j].role = "system"
    BY SMTT(30), <1>1, <1>4, <1>5
  <2>2. n < Len(s) => s[n + 1].role # "system"
    BY <1>1, <1>5
  <2>3. n \in 0..Len(s)
    BY <1>1, <1>5
  <2>4. QED BY <1>1, <2>1, <2>2, <2>3, LeadingIs
<1>8. SubSeq(s, 1, n) = SubSeq(messages, 1, n)
  BY <1>1, <1>5
<1>9. QED BY <1>6, <1>7, <1>8 DEF s

\* FromBoundary keeps the messages from i on and puts the retired front for
\* those before.
LEMMA BoundaryIs ==
    ASSUME NEW S, NEW messages \in Seq(S), NEW i \in DOMAIN messages,
           messages[i].role # "system"
    PROVE  FromBoundary(messages, i) = RetiredFront(SubSeq(messages, 1, i - 1))
                                         \o SubSeq(messages, i, Len(messages))
<1> DEFINE s == SubSeq(messages, 1, i - 1)
           u == SelectLastInSubSeq(messages, 1, i - 1, IsUser)
           context == IF u = 0 THEN <<>> ELSE <<messages[u]>>
           rest == SubSeq(messages, i, Len(messages))
<1>1. u = LastUserAt(s)
  BY ContextUser
<1>2. context = ContextOf(s)
  <2>1. s \in Seq(S) /\ Len(s) = i - 1 /\ \A j \in 1..(i - 1) : s[j] = messages[j]
    OBVIOUS
  <2> HIDE DEF s, u
  <2>2. u \in 0..Len(s)
    BY <1>1, <2>1, LastUserPosition
  <2>3. u # 0 => s[u] = messages[u]
    BY <2>1, <2>2
  <2>4. QED BY <1>1, <2>3 DEF ContextOf
<1>3. LeadingSystemMessages(messages) = LeadingSystemMessages(s)
  BY LeadingOfPrefix
<1>4. FromBoundary(messages, i) = LeadingSystemMessages(messages) \o <<RecoverySystem>>
                                    \o context \o rest
  BY DEF FromBoundary
<1> HIDE DEF s, context, rest
<1>5. QED BY <1>2, <1>3, <1>4 DEF RetiredFront, s, rest

\* What stands for a retired history: system messages and a user message.
LEMMA FrontShape ==
    ASSUME NEW S, NEW s \in Seq(S)
    PROVE  /\ RetiredFront(s) \in Seq(S \cup {RecoverySystem})
           /\ \A i \in DOMAIN RetiredFront(s) : RetiredFront(s)[i].role \in {"system", "user"}
           /\ RetiredFront(s) # <<>>
<1> DEFINE R == S \cup {RecoverySystem}
           Q == {m \in R : m.role \in {"system", "user"}}
<1>1. PICK n \in 0..Len(s) : /\ LeadingSystemMessages(s) = SubSeq(s, 1, n)
                             /\ \A i \in 1..n : s[i].role = "system"
  BY LeadingIsPrefix
<1>2. SubSeq(s, 1, n) \in Seq(Q)
  <2>1. \A i \in 1..n : s[i] \in Q
    BY <1>1
  <2> HIDE DEF Q
  <2>2. SubSeq(s, 1, n) = [i \in 1..n |-> s[i]]
    OBVIOUS
  <2>3. QED BY <2>1, <2>2
<1>3. <<RecoverySystem>> \in Seq(Q)
  BY DEF RecoverySystem
<1>4. ContextOf(s) \in Seq(Q)
  <2>1. LastUserAt(s) # 0 => LastUserAt(s) \in 1..Len(s) /\ IsUser(s[LastUserAt(s)])
    BY LastUserPosition
  <2>2. LastUserAt(s) # 0 => s[LastUserAt(s)] \in Q
    BY <2>1 DEF IsUser
  <2> DEFINE u == LastUserAt(s)
  <2> HIDE DEF u, Q
  <2>3. u # 0 => <<s[u]>> \in Seq(Q)
    BY <2>2 DEF u
  <2>4. <<>> \in Seq(Q)
    OBVIOUS
  <2>5. ContextOf(s) = IF u = 0 THEN <<>> ELSE <<s[u]>>
    BY DEF ContextOf, u
  <2>6. QED BY <2>3, <2>4, <2>5
<1>5. RetiredFront(s) = SubSeq(s, 1, n) \o <<RecoverySystem>> \o ContextOf(s)
  BY <1>1 DEF RetiredFront
<1>6. RetiredFront(s) \in Seq(Q) /\ RetiredFront(s) # <<>>
  <2> HIDE DEF Q
  <2>1. SubSeq(s, 1, n) \o <<RecoverySystem>> \in Seq(Q)
        /\ Len(SubSeq(s, 1, n) \o <<RecoverySystem>>) >= 1
    BY <1>2, <1>3
  <2> DEFINE x == SubSeq(s, 1, n) \o <<RecoverySystem>>
  <2> HIDE DEF x
  <2>2. x \in Seq(Q) /\ Len(x) >= 1
    BY <2>1 DEF x
  <2>3. x \o ContextOf(s) \in Seq(Q) /\ Len(x \o ContextOf(s)) = Len(x) + Len(ContextOf(s))
    BY <1>4, <2>2
  <2>4. Len(ContextOf(s)) \in Nat
    BY <1>4
  <2>5. x \o ContextOf(s) # <<>>
    BY <2>2, <2>3, <2>4
  <2>6. QED BY <1>5, <2>3, <2>5 DEF x
<1> DEFINE f == RetiredFront(s)
<1> HIDE DEF f
<1>7. f \in Seq(Q)
  BY <1>6 DEF f
<1>8. f \in Seq(R) /\ \A i \in DOMAIN f : f[i].role \in {"system", "user"}
  BY <1>7
<1>9. QED BY <1>1, <1>5, <1>6, <1>8 DEF f

\* A retired front is system messages, the recovery instruction and the context.
LEMMA FrontParts ==
    ASSUME NEW S, NEW s \in Seq(S)
    PROVE  \E n \in 0..Len(s) : /\ RetiredFront(s) = SubSeq(s, 1, n) \o <<RecoverySystem>> \o ContextOf(s)
                                /\ \A i \in 1..n : s[i].role = "system"
<1>1. PICK n \in 0..Len(s) : /\ LeadingSystemMessages(s) = SubSeq(s, 1, n)
                             /\ \A i \in 1..n : s[i].role = "system"
  BY LeadingIsPrefix
<1>2. RetiredFront(s) = SubSeq(s, 1, n) \o <<RecoverySystem>> \o ContextOf(s)
  BY <1>1 DEF RetiredFront
<1>3. QED BY <1>1, <1>2

\* The active messages: all, or the retired front and what follows from the last
\* notice on.
LEMMA ActiveIs ==
    ASSUME NEW S, NEW messages \in Seq(S)
    PROVE  LET b == LastNoticeAt(messages)
           IN  ActiveMessagesFromRecoveryBoundary(messages) =
                 IF b = 0 THEN messages
                 ELSE RetiredFront(SubSeq(messages, 1, b - 1)) \o SubSeq(messages, b, Len(messages))
<1> DEFINE b == LastNoticeAt(messages)
<1>1. /\ b \in 0..Len(messages)
      /\ b # 0 => HasRecoveryNotice(messages[b])
  BY LastNoticePosition
<1>2. b # 0 => b \in DOMAIN messages /\ messages[b].role # "system"
  BY <1>1 DEF HasRecoveryNotice
<1>3. ActiveMessagesFromRecoveryBoundary(messages) =
        IF b = 0 THEN messages ELSE FromBoundary(messages, b)
  BY DEF ActiveMessagesFromRecoveryBoundary, LastNoticeAt
<1> HIDE DEF b
<1>4. b # 0 => FromBoundary(messages, b) = RetiredFront(SubSeq(messages, 1, b - 1))
                                             \o SubSeq(messages, b, Len(messages))
  BY <1>2, BoundaryIs
<1>5. ActiveMessagesFromRecoveryBoundary(messages) =
                 IF b = 0 THEN messages
                 ELSE RetiredFront(SubSeq(messages, 1, b - 1)) \o SubSeq(messages, b, Len(messages))
  BY <1>3, <1>4
<1>6. QED BY <1>5 DEF b

\* The elements of a part, and of two parts put together.
LEMMA PartIs ==
    ASSUME NEW S, NEW s \in Seq(S), NEW b \in 1..(Len(s) + 1), NEW e \in (b - 1)..Len(s)
    PROVE  /\ SubSeq(s, b, e) \in Seq(S) /\ Len(SubSeq(s, b, e)) = e - b + 1
           /\ \A j \in 1..(e - b + 1) : SubSeq(s, b, e)[j] = s[j + b - 1]
OBVIOUS

\* A sequence is a sequence over any set that holds its elements.
LEMMA SequenceOver ==
    ASSUME NEW S, NEW s \in Seq(S), NEW T, ToSet(s) \subseteq T PROVE s \in Seq(T)
<1>1. PICK n \in Nat : s \in [1..n -> S]
  OBVIOUS
<1>2. \A i \in 1..n : s[i] \in T
  BY <1>1 DEF ToSet
<1>3. QED BY <1>1, <1>2

\* The elements of a concatenation.
LEMMA JoinIs ==
    ASSUME NEW S, NEW s \in Seq(S), NEW t \in Seq(S)
    PROVE  /\ s \o t \in Seq(S) /\ Len(s \o t) = Len(s) + Len(t)
           /\ \A j \in 1..Len(s) : (s \o t)[j] = s[j]
           /\ \A j \in (Len(s) + 1)..(Len(s) + Len(t)) : (s \o t)[j] = t[j - Len(s)]
OBVIOUS

\* A part of a part.
LEMMA PartOfPart ==
    ASSUME NEW S, NEW messages \in Seq(S), NEW n \in 0..Len(messages), NEW b \in 1..(n + 1),
           NEW e \in 0..n
    PROVE  SubSeq(SubSeq(messages, 1, n), b, e) = SubSeq(messages, b, e)
<1> DEFINE s == SubSeq(messages, 1, n)
           x == SubSeq(s, b, e)
           y == SubSeq(messages, b, e)
<1>1. s \in Seq(S) /\ Len(s) = n /\ \A j \in 1..n : s[j] = messages[j]
  OBVIOUS
<1> HIDE DEF s
<1>2. /\ x \in Seq(S) /\ y \in Seq(S) /\ Len(x) = Len(y)
      /\ \A j \in 1..Len(x) : x[j] = s[j + b - 1] /\ j + b - 1 \in 1..n
      /\ \A j \in 1..Len(x) : y[j] = messages[j + b - 1]
  BY <1>1
<1>3. \A j \in 1..Len(x) : x[j] = y[j]
  BY <1>1, <1>2
<1> HIDE DEF x, y
<1>4. x = y
  BY <1>2, <1>3
<1>5. QED BY <1>4 DEF s, x, y

\* A front and a tail of a history.
IsSplice(a, front, messages, b) ==
    LET k == Len(front)
    IN  /\ a = front \o SubSeq(messages, b, Len(messages))
        /\ Len(a) = k + Len(messages) - b + 1
        /\ \A i \in 1..k : a[i] = front[i]
        /\ \A i \in (k + 1)..Len(a) :
              /\ i - k + b - 1 \in b..Len(messages)
              /\ a[i] = messages[i - k + b - 1]
              /\ SubSeq(a, 1, i - 1) = front \o SubSeq(messages, b, i - k + b - 2)

\* Putting another front before the messages from b on moves every later one by
\* the difference.
LEMMA Splice ==
    ASSUME NEW R, NEW front \in Seq(R), NEW S, NEW messages \in Seq(S), NEW b \in DOMAIN messages
    PROVE  /\ IsSplice(front \o SubSeq(messages, b, Len(messages)), front, messages, b)
           /\ front \o SubSeq(messages, b, Len(messages)) \in Seq(R \cup S)
<1> DEFINE rest == SubSeq(messages, b, Len(messages))
           a == front \o rest
           k == Len(front)
<1>1. /\ rest \in Seq(S) /\ Len(rest) = Len(messages) - b + 1 /\ b \in 1..Len(messages)
      /\ k \in Nat /\ \A i \in 1..Len(rest) : rest[i] = messages[i + b - 1]
  OBVIOUS
<1> HIDE DEF rest, a, k
<1>2. /\ a \in Seq(R \cup S) /\ Len(a) = k + Len(rest)
      /\ \A i \in 1..k : a[i] = front[i]
      /\ \A i \in (k + 1)..Len(a) : a[i] = rest[i - k]
  <2>1. front \in Seq(R \cup S) /\ rest \in Seq(R \cup S)
    BY <1>1
  <2>2. a = front \o rest
    BY DEF a
  <2>3. k = Len(front)
    BY DEF k
  <2>4. QED BY <2>1, <2>2, <2>3
<1>3. ASSUME NEW i \in (k + 1)..Len(a)
      PROVE  /\ i - k + b - 1 \in b..Len(messages)
             /\ a[i] = messages[i - k + b - 1]
             /\ SubSeq(a, 1, i - 1) = front \o SubSeq(messages, b, i - k + b - 2)
  <2>1. i - k \in 1..Len(rest) /\ a[i] = rest[i - k]
    BY <1>1, <1>2
  <2>2. a[i] = messages[i - k + b - 1] /\ i - k + b - 1 \in b..Len(messages)
    <3> DEFINE d == i - k
    <3>1. i \in Int /\ d \in 1..Len(rest) /\ d + b - 1 = i - k + b - 1
      BY <1>1, <2>1
    <3>2. a[i] = messages[d + b - 1] /\ d + b - 1 \in b..Len(messages)
      <4> HIDE DEF d
      <4>1. d \in 1..(Len(messages) - b + 1)
        BY <1>1, <3>1
      <4>2. a[i] = rest[d]
        BY <2>1 DEF d
      <4>3. rest[d] = messages[d + b - 1]
        BY <1>1, <3>1
      <4>4. b \in Int /\ Len(messages) \in Int /\ d \in Int
        BY <1>1, <4>1
      <4>5. d + b - 1 \in b..Len(messages)
        BY <4>1, <4>4
      <4>6. QED BY <4>2, <4>3, <4>5
    <3>3. QED BY <3>1, <3>2
  <2> DEFINE e == i - k + b - 2
             part == SubSeq(messages, b, e)
             x == SubSeq(a, 1, i - 1)
             y == front \o part
  <2>3. /\ part \in Seq(S) /\ Len(part) = i - k - 1
        /\ \A j \in 1..(i - k - 1) : part[j] = messages[j + b - 1]
    <3>1. e \in (b - 1)..Len(messages) /\ e - b + 1 = i - k - 1 /\ i - k - 1 \in Nat
      <4>1. i \in Int /\ k \in Nat /\ b \in Nat /\ Len(messages) \in Nat /\ i >= k + 1
        BY <1>1
      <4>2. QED BY SMTT(30), <2>2, <4>1
    <3> HIDE DEF e
    <3>2. /\ part \in Seq(S) /\ Len(part) = e - b + 1
          /\ \A j \in 1..(e - b + 1) : part[j] = messages[j + b - 1]
      <4>1. b \in 1..(Len(messages) + 1)
        BY <1>1
      <4>2. QED BY <3>1, <4>1, PartIs
    <3>3. QED BY <3>1, <3>2
  <2>4. x \in Seq(R \cup S) /\ Len(x) = i - 1 /\ \A j \in 1..(i - 1) : x[j] = a[j]
    BY <1>1, <1>2
  <2> HIDE DEF part
  <2>5. /\ y \in Seq(R \cup S) /\ Len(y) = i - 1
        /\ \A j \in 1..k : y[j] = front[j]
        /\ \A j \in (k + 1)..(i - 1) : y[j] = part[j - k]
    <3>1. front \in Seq(R \cup S) /\ part \in Seq(R \cup S) /\ k = Len(front)
      BY <2>3 DEF k
    <3>2. /\ y \in Seq(R \cup S) /\ Len(y) = Len(front) + Len(part)
          /\ \A j \in 1..Len(front) : y[j] = front[j]
          /\ \A j \in (Len(front) + 1)..(Len(front) + Len(part)) : y[j] = part[j - Len(front)]
      BY <3>1, JoinIs
    <3>3. k + Len(part) = i - 1
      BY <1>1, <2>3
    <3> HIDE DEF y
    <3>4. QED BY <3>1, <3>2, <3>3
  <2> HIDE DEF x, y
  <2>6. ASSUME NEW j \in 1..(i - 1) PROVE x[j] = y[j]
    <3>1. CASE j <= k
      BY <1>1, <1>2, <2>4, <2>5, <3>1
    <3>2. CASE j > k
      <4>1. j \in (k + 1)..(i - 1) /\ j \in (k + 1)..Len(a) /\ j - k \in 1..(i - k - 1)
            /\ j - k \in 1..Len(rest)
        BY <1>1, <1>2, <3>2
      <4>2. y[j] = messages[j - k + b - 1]
        BY <2>3, <2>5, <4>1
      <4>3. x[j] = messages[j - k + b - 1]
        BY <1>1, <1>2, <2>4, <4>1
      <4>4. QED BY <4>2, <4>3
    <3>3. QED BY <1>1, <3>1, <3>2
  <2>7. x = y
    BY <2>4, <2>5, <2>6
  <2>8. QED BY <2>2, <2>7 DEF x, y, part
<1>4. Len(a) = k + Len(messages) - b + 1
  BY <1>1, <1>2
<1>5. QED BY <1>2, <1>3, <1>4 DEF IsSplice, a, k, rest

\* Where an answer of what is left of a request comes from: it is a message of
\* the history, and what precedes it is what was left of the history then.
LEMMA PlaceOfAnswer ==
    ASSUME NEW S, NEW messages \in Seq(S),
           NEW i \in DOMAIN ActiveMessagesFromRecoveryBoundary(messages),
           ActiveMessagesFromRecoveryBoundary(messages)[i].role = "assistant"
    PROVE  \E j \in DOMAIN messages :
              /\ ActiveMessagesFromRecoveryBoundary(messages)[i] = messages[j]
              /\ SubSeq(ActiveMessagesFromRecoveryBoundary(messages), 1, i - 1) =
                   IF HasRecoveryNotice(messages[j])
                   THEN RetiredFront(SubSeq(messages, 1, j - 1))
                   ELSE ActiveMessagesFromRecoveryBoundary(SubSeq(messages, 1, j - 1))
<1> DEFINE a == ActiveMessagesFromRecoveryBoundary(messages)
           b == LastNoticeAt(messages)
           front == RetiredFront(SubSeq(messages, 1, b - 1))
           k == Len(front)
<1>1. /\ b \in 0..Len(messages)
      /\ b = 0 => \A j \in DOMAIN messages : ~HasRecoveryNotice(messages[j])
      /\ b # 0 => /\ HasRecoveryNotice(messages[b])
                  /\ \A j \in (b + 1)..Len(messages) : ~HasRecoveryNotice(messages[j])
  BY LastNoticePosition
<1>2. a = IF b = 0 THEN messages ELSE front \o SubSeq(messages, b, Len(messages))
  BY ActiveIs
<1>3. CASE b = 0
  <2> DEFINE s == SubSeq(messages, 1, i - 1)
  <2>1. a = messages /\ i \in DOMAIN messages
    BY <1>2, <1>3
  <2>2. s \in Seq(S) /\ Len(s) \in Nat /\ \A j \in DOMAIN s : ~HasRecoveryNotice(s[j])
    BY <1>1, <1>3, <2>1
  <2> HIDE DEF s
  <2>3. LastNoticeAt(s) = 0
    <3>1. LastNoticeAt(s) \in 0..Len(s)
          /\ (LastNoticeAt(s) # 0 => HasRecoveryNotice(s[LastNoticeAt(s)]))
      BY <2>2, LastNoticePosition
    <3> DEFINE n == LastNoticeAt(s)
    <3> HIDE DEF n
    <3>2. n \in 0..Len(s) /\ (n # 0 => HasRecoveryNotice(s[n]))
      BY <3>1 DEF n
    <3>3. n # 0 => n \in DOMAIN s
      BY <2>2, <3>2
    <3>4. QED BY <2>2, <3>2, <3>3 DEF n
  <2>4. ActiveMessagesFromRecoveryBoundary(s) = s
    BY <2>2, <2>3, ActiveIs
  <2>5. ~HasRecoveryNotice(messages[i])
    BY <1>1, <1>3, <2>1
  <2>6. QED BY <2>1, <2>4, <2>5 DEF s
<1>4. CASE b # 0
  <2> DEFINE R == S \cup {RecoverySystem}
             j == i - k + b - 1
             s == SubSeq(messages, 1, j - 1)
  <2>1. b \in DOMAIN messages
    BY <1>1, <1>4
  <2>2. SubSeq(messages, 1, b - 1) \in Seq(S)
    BY <2>1
  <2>3. front \in Seq(R) /\ \A n \in DOMAIN front : front[n].role \in {"system", "user"}
    <3> DEFINE retired == SubSeq(messages, 1, b - 1)
    <3> HIDE DEF retired
    <3>1. retired \in Seq(S)
      BY <2>2 DEF retired
    <3>2. RetiredFront(retired) \in Seq(R)
          /\ \A n \in DOMAIN RetiredFront(retired) :
                RetiredFront(retired)[n].role \in {"system", "user"}
      BY <3>1, FrontShape
    <3>3. QED BY <3>2 DEF retired
  <2> HIDE DEF front
  <2>4. a = front \o SubSeq(messages, b, Len(messages))
    BY <1>2, <1>4
  <2>5. /\ a \in Seq(R \cup S) /\ k = Len(front)
        /\ \A n \in 1..k : a[n] = front[n]
        /\ \A n \in (k + 1)..Len(a) :
              /\ n - k + b - 1 \in b..Len(messages)
              /\ a[n] = messages[n - k + b - 1]
              /\ SubSeq(a, 1, n - 1) = front \o SubSeq(messages, b, n - k + b - 2)
    <3> HIDE DEF a, R, b
    <3>1. IsSplice(a, front, messages, b) /\ a \in Seq(R \cup S)
      BY <2>1, <2>3, <2>4, Splice
    <3>2. QED BY <3>1 DEF IsSplice
  <2>6. k \in Nat /\ DOMAIN front = 1..k
    BY <2>3
  <2>7. i \in 1..Len(a) /\ a[i].role = "assistant"
    BY <2>5
  <2> HIDE DEF a, k
  <2>8. i > k
    <3>1. i \in 1..k => a[i].role \in {"system", "user"}
      BY <2>3, <2>5, <2>6
    <3>2. QED BY <2>6, <2>7, <3>1
  <2>9. /\ j \in b..Len(messages) /\ a[i] = messages[j]
        /\ SubSeq(a, 1, i - 1) = front \o SubSeq(messages, b, j - 1)
    <3>1. i \in (k + 1)..Len(a)
      BY <2>6, <2>7, <2>8
    <3>2. j - 1 = i - k + b - 2
      BY <2>1, <2>6, <2>7
    <3>3. QED BY <2>5, <3>1, <3>2
  <2> HIDE DEF j
  <2>10. j \in DOMAIN messages /\ b \in 1..Len(messages)
    BY <2>1, <2>9
  <2>11. CASE j = b
    <3>1. SubSeq(messages, b, j - 1) = <<>>
      BY <2>10, <2>11
    <3>2. SubSeq(a, 1, i - 1) = front
      <4>1. front \o <<>> = front
        BY <2>3
      <4>2. QED BY <2>9, <3>1, <4>1
    <3>3. HasRecoveryNotice(messages[j])
      BY <1>1, <1>4, <2>11
    <3>4. front = RetiredFront(SubSeq(messages, 1, j - 1))
      BY <2>11 DEF front
    <3>5. QED BY <2>9, <2>10, <3>2, <3>3, <3>4 DEF a
  <2>12. CASE j # b
    <3>1. j \in (b + 1)..Len(messages)
      BY <2>9, <2>10, <2>12
    <3>2. ~HasRecoveryNotice(messages[j])
      BY <1>1, <1>4, <3>1
    <3>3. /\ s \in Seq(S) /\ Len(s) = j - 1 /\ b \in DOMAIN s
          /\ \A n \in DOMAIN s : s[n] = messages[n] /\ n \in 1..(j - 1)
      BY <2>10, <3>1
    <3>4. SubSeq(s, 1, b - 1) = SubSeq(messages, 1, b - 1)
      BY <2>10, <3>1, PartOfPart
    <3>5. SubSeq(s, b, Len(s)) = SubSeq(messages, b, j - 1)
      <4> DEFINE n == j - 1
      <4>1. n \in 0..Len(messages) /\ b \in 1..(n + 1) /\ n \in 0..n
        BY <2>10, <3>1
      <4> HIDE DEF n
      <4>2. SubSeq(SubSeq(messages, 1, n), b, n) = SubSeq(messages, b, n)
        BY <4>1, PartOfPart
      <4>3. QED BY <3>3, <4>2 DEF n
    <3> HIDE DEF s
    <3>6. LastNoticeAt(s) = b
      <4>1. HasRecoveryNotice(s[b])
        BY <1>1, <1>4, <3>3
      <4>2. ASSUME NEW n \in (b + 1)..Len(s) PROVE ~HasRecoveryNotice(s[n])
        <5>1. n \in DOMAIN s /\ n \in (b + 1)..Len(messages)
          BY <2>10, <3>3
        <5>2. QED BY <1>1, <1>4, <3>3, <5>1
      <4>3. QED BY <3>3, <4>1, <4>2, LastNoticeUnique
    <3>7. ActiveMessagesFromRecoveryBoundary(s) =
            RetiredFront(SubSeq(s, 1, b - 1)) \o SubSeq(s, b, Len(s))
      BY <1>4, <3>3, <3>6, ActiveIs
    <3>8. SubSeq(a, 1, i - 1) = ActiveMessagesFromRecoveryBoundary(s)
      BY <2>9, <3>4, <3>5, <3>7 DEF front
    <3>9. QED BY <2>9, <2>10, <3>2, <3>8 DEF a, s
  <2>13. QED BY <2>11, <2>12
<1>5. QED BY <1>3, <1>4

\* What is left of a request has no answer in front of a notice.
LEMMA NoticeFirst ==
    ASSUME NEW S, NEW messages \in Seq(S),
           NEW i \in DOMAIN ActiveMessagesFromRecoveryBoundary(messages),
           HasRecoveryNotice(ActiveMessagesFromRecoveryBoundary(messages)[i]),
           NEW j \in 1..(i - 1)
    PROVE  ActiveMessagesFromRecoveryBoundary(messages)[j].role # "assistant"
<1> DEFINE a == ActiveMessagesFromRecoveryBoundary(messages)
           b == LastNoticeAt(messages)
           s == SubSeq(messages, 1, b - 1)
           front == RetiredFront(s)
           k == Len(front)
           R == S \cup {RecoverySystem}
<1>1. /\ b \in 0..Len(messages)
      /\ b = 0 => \A n \in DOMAIN messages : ~HasRecoveryNotice(messages[n])
      /\ b # 0 => \A n \in (b + 1)..Len(messages) : ~HasRecoveryNotice(messages[n])
  BY LastNoticePosition
<1>2. a = IF b = 0 THEN messages ELSE front \o SubSeq(messages, b, Len(messages))
  BY ActiveIs
<1>3. b # 0
  BY <1>1, <1>2
<1>4. b \in DOMAIN messages /\ s \in Seq(S)
  BY <1>1, <1>3
<1> HIDE DEF s, R
<1>5. front \in Seq(R) /\ \A n \in DOMAIN front : front[n].role \in {"system", "user"}
  BY <1>4, FrontShape DEF R
<1> HIDE DEF front, a, b
<1>6. IsSplice(a, front, messages, b) /\ a \in Seq(R \cup S)
  BY <1>2, <1>3, <1>4, <1>5, Splice
<1>7. /\ \A n \in 1..k : a[n] = front[n]
      /\ \A n \in (k + 1)..Len(a) : /\ n - k + b - 1 \in b..Len(messages)
                                    /\ a[n] = messages[n - k + b - 1]
  BY <1>6 DEF IsSplice
<1>8. /\ k \in Nat /\ DOMAIN front = 1..k /\ i \in 1..Len(a) /\ j \in 1..(i - 1) /\ Len(a) \in Nat
      /\ HasRecoveryNotice(a[i])
  BY <1>5, <1>6 DEF a
<1> HIDE DEF k
<1>9. i = k + 1
  <2>1. i > k
    <3>1. i \in 1..k => a[i].role \in {"system", "user"}
      BY <1>5, <1>7, <1>8
    <3>2. QED BY <1>8, <3>1 DEF HasRecoveryNotice
  <2>2. ASSUME i > k + 1 PROVE FALSE
    <3>1. i \in (k + 1)..Len(a)
      BY <1>8, <2>2
    <3>2. i - k + b - 1 \in b..Len(messages) /\ a[i] = messages[i - k + b - 1]
      BY <1>7, <3>1
    <3>3. i - k + b - 1 \in (b + 1)..Len(messages)
      BY <1>1, <1>8, <2>2, <3>2
    <3>4. QED BY <1>1, <1>3, <1>8, <3>2, <3>3
  <2>3. QED BY <1>8, <2>1, <2>2
<1>10. j \in 1..k
  BY <1>8, <1>9
<1>11. a[j].role \in {"system", "user"}
  BY <1>5, <1>7, <1>8, <1>10
<1>12. QED BY <1>11 DEF a

\* The last user message of what is left is that of the history.
LEMMA LastUserOfActive ==
    ASSUME NEW S, NEW messages \in Seq(S),
           LastUserAt(ActiveMessagesFromRecoveryBoundary(messages)) # 0
    PROVE  LET a == ActiveMessagesFromRecoveryBoundary(messages)
           IN  /\ LastUserAt(messages) # 0
               /\ a[LastUserAt(a)] = messages[LastUserAt(messages)]
<1> DEFINE a == ActiveMessagesFromRecoveryBoundary(messages)
           b == LastNoticeAt(messages)
           s == SubSeq(messages, 1, b - 1)
           front == RetiredFront(s)
           k == Len(front)
           R == S \cup {RecoverySystem}
           u == LastUserAt(a)
<1>1. b \in 0..Len(messages)
  BY LastNoticePosition
<1>2. a = IF b = 0 THEN messages ELSE front \o SubSeq(messages, b, Len(messages))
  BY ActiveIs
<1>3. CASE b = 0
  BY <1>2, <1>3
<1>4. CASE b # 0
  <2>1. /\ b \in DOMAIN messages /\ b \in 1..Len(messages) /\ s \in Seq(S) /\ Len(s) = b - 1
        /\ \A n \in 1..(b - 1) : s[n] = messages[n]
    BY <1>1, <1>4
  <2> HIDE DEF s, R
  <2>2. front \in Seq(R)
    BY <2>1, FrontShape DEF R
  <2>3. PICK m \in 0..Len(s) : /\ front = SubSeq(s, 1, m) \o <<RecoverySystem>> \o ContextOf(s)
                               /\ \A n \in 1..m : s[n].role = "system"
    <3>1. \E m \in 0..Len(s) :
             /\ RetiredFront(s) = SubSeq(s, 1, m) \o <<RecoverySystem>> \o ContextOf(s)
             /\ \A n \in 1..m : s[n].role = "system"
      BY <2>1, FrontParts
    <3>2. QED BY <3>1
  <2> HIDE DEF front, a, b
  <2>4. IsSplice(a, front, messages, b) /\ a \in Seq(R \cup S)
    BY <1>2, <1>4, <2>1, <2>2, Splice
  <2>5. /\ Len(a) = k + Len(messages) - b + 1
        /\ \A n \in 1..k : a[n] = front[n]
        /\ \A n \in (k + 1)..Len(a) : /\ n - k + b - 1 \in b..Len(messages)
                                      /\ a[n] = messages[n - k + b - 1]
    BY <2>4 DEF IsSplice
  <2>6. /\ u \in 0..Len(a)
        /\ u # 0 => IsUser(a[u]) /\ \A i \in (u + 1)..Len(a) : ~IsUser(a[i])
    BY <2>4, LastUserPosition
  <2>7. u # 0
    BY DEF a
  <2>8. k \in Nat /\ Len(a) \in Nat /\ Len(messages) \in Nat
    BY <2>2, <2>4
  <2> HIDE DEF u, k
  <2>9. u \in 1..Len(a) /\ IsUser(a[u]) /\ \A i \in (u + 1)..Len(a) : ~IsUser(a[i])
    BY <2>6, <2>7, <2>8
  <2>10. CASE u > k
    <3> DEFINE v == u - k + b - 1
    <3>1. v \in b..Len(messages) /\ a[u] = messages[v]
      BY <2>5, <2>8, <2>9, <2>10
    <3>2. ASSUME NEW n \in (v + 1)..Len(messages), IsUser(messages[n]) PROVE FALSE
      <4> DEFINE w == n - b + 1 + k
      <4>1. w \in (u + 1)..Len(a) /\ w \in (k + 1)..Len(a) /\ w - k + b - 1 = n
        <5>1. Len(a) = k + Len(messages) - b + 1
          BY <2>5
        <5>2. n \in Int /\ b \in Int /\ u \in Int /\ n <= Len(messages) /\ n > v
          BY <2>1, <2>9, <3>1
        <5>3. QED BY <2>8, <2>10, <5>1, <5>2
      <4> HIDE DEF w
      <4>2. a[w] = messages[n]
        BY <2>5, <4>1
      <4>3. QED BY <2>9, <3>2, <4>1, <4>2
    <3> HIDE DEF v
    <3>3. v \in DOMAIN messages /\ IsUser(messages[v])
      BY <2>1, <2>9, <3>1
    <3>4. LastUserAt(messages) = v
      BY <3>2, <3>3, LastUserUnique
    <3>5. QED BY <2>1, <3>1, <3>3, <3>4 DEF a, u
  <2>11. CASE u <= k
    <3>1. a[u] = front[u] /\ u \in 1..k
      BY <2>5, <2>8, <2>9, <2>11
    <3>2. ASSUME NEW n \in b..Len(messages), IsUser(messages[n]) PROVE FALSE
      <4> DEFINE w == n - b + 1 + k
      <4>1. w \in (u + 1)..Len(a) /\ w \in (k + 1)..Len(a) /\ w - k + b - 1 = n
        <5>1. Len(a) = k + Len(messages) - b + 1
          BY <2>5
        <5>2. n \in Int /\ b \in Int /\ u \in Int /\ n <= Len(messages) /\ n >= b
          BY <2>1, <2>9
        <5>3. QED BY <2>8, <2>11, <5>1, <5>2
      <4> HIDE DEF w
      <4>2. a[w] = messages[n]
        BY <2>5, <4>1
      <4>3. QED BY <2>9, <3>2, <4>1, <4>2
    <3> DEFINE t == LastUserAt(s)
               leading == SubSeq(s, 1, m)
    <3>3. t \in 0..Len(s) /\ (t # 0 => IsUser(s[t]) /\ \A i \in (t + 1)..Len(s) : ~IsUser(s[i]))
      BY <2>1, LastUserPosition
    <3>4. front = leading \o <<RecoverySystem>> \o ContextOf(s) /\ leading \in Seq(S)
          /\ Len(leading) = m /\ \A n \in 1..m : leading[n].role = "system"
      BY <2>1, <2>3
    <3> HIDE DEF leading, t
    <3>5. t # 0 /\ front[u] = s[t]
      <4>1. IsUser(front[u]) /\ u \in 1..Len(front)
        BY <2>9, <3>1 DEF k
      <4> DEFINE x == leading \o <<RecoverySystem>>
      <4>2. /\ x \in Seq(R) /\ Len(x) = m + 1
            /\ \A n \in 1..(m + 1) : x[n].role = "system"
        <5>1. x \in Seq(R) /\ Len(x) = m + 1 /\ x[m + 1] = RecoverySystem
              /\ \A n \in 1..m : x[n] = leading[n]
          BY <3>4 DEF R
        <5> HIDE DEF x
        <5>2. \A n \in 1..(m + 1) : n = m + 1 \/ n \in 1..m
          OBVIOUS
        <5>3. QED BY <3>4, <5>1, <5>2 DEF RecoverySystem
      <4> HIDE DEF x
      <4>3. front = x \o ContextOf(s)
        BY <3>4 DEF x
      <4>4. CASE t = 0
        <5>1. ContextOf(s) = <<>>
          BY <4>4 DEF ContextOf, t
        <5>2. front = x
          BY <4>2, <4>3, <5>1
        <5>3. QED BY <4>1, <4>2, <5>2 DEF IsUser
      <4>5. CASE t # 0
        <5>1. ContextOf(s) = <<s[t]>>
          BY <4>5 DEF ContextOf, t
        <5>2. Len(front) = m + 2 /\ front[m + 2] = s[t] /\ \A n \in 1..(m + 1) : front[n] = x[n]
          BY <4>2, <4>3, <5>1
        <5>3. u # m + 2 => front[u].role = "system"
          BY <4>1, <4>2, <5>2
        <5>4. QED BY <4>1, <4>5, <5>2, <5>3 DEF IsUser
      <4>6. QED BY <4>4, <4>5
    <3>6. t \in 1..(b - 1) /\ IsUser(messages[t]) /\ s[t] = messages[t] /\ t \in DOMAIN messages
      BY <2>1, <3>3, <3>5
    <3>7. ASSUME NEW n \in (t + 1)..Len(messages) PROVE ~IsUser(messages[n])
      <4>1. CASE n < b
        <5>1. n \in (t + 1)..Len(s) /\ n \in 1..(b - 1)
          BY <2>1, <3>6, <4>1
        <5>2. QED BY <2>1, <3>3, <3>5, <5>1
      <4>2. CASE n >= b
        <5>1. n \in b..Len(messages)
          BY <2>1, <4>2
        <5>2. QED BY <3>2, <5>1
      <4>3. QED BY <2>1, <3>6, <4>1, <4>2
    <3>8. LastUserAt(messages) = t
      BY <3>6, <3>7, LastUserUnique
    <3>9. QED BY <3>1, <3>5, <3>6, <3>8 DEF a, u
  <2>12. QED BY <2>8, <2>9, <2>10, <2>11
<1>5. QED BY <1>3, <1>4

\* A user message after a message of another kind is a turn by itself.
LEMMA TurnOfTail ==
    ASSUME NEW S, NEW front \in Seq(S), NEW u, IsUser(u), front # <<>>,
           ~IsUser(front[Len(front)])
    PROVE  TurnContextSignature(front \o <<u>>) = TurnContextSignature(<<u>>)
<1> DEFINE R == S \cup {u}
           Alone(prior) == SubSeq(prior, TurnStart(prior), Len(prior)) = <<u>>
<1>1. ASSUME NEW prior \in Seq(R), prior # <<>>, prior[Len(prior)] = u,
             Len(prior) # 1 => ~IsUser(prior[Len(prior) - 1])
      PROVE  Alone(prior)
  <2> DEFINE n == Len(prior)
             P(s) == /\ \A i \in s..n : IsUser(prior[i])
                     /\ s = 1 \/ ~IsUser(prior[s - 1])
  <2>1. n \in DOMAIN prior /\ n \in 1..n /\ IsUser(prior[n]) /\ n \in Nat
    BY <1>1
  <2>2. LastUserAt(prior) = n
    <3>1. \A i \in (n + 1)..n : ~IsUser(prior[i])
      OBVIOUS
    <3> HIDE DEF R
    <3>2. QED BY <2>1, <3>1, LastUserUnique
  <2>3. TurnStart(prior) = CHOOSE s \in 1..n : P(s)
    <3>1. n # 0
      BY <2>1
    <3>2. SelectLastInSeq(prior, IsUser) = n
      BY <2>2 DEF LastUserAt
    <3> HIDE DEF n
    <3>3. QED BY <3>1, <3>2 DEF TurnStart
  <2>4. P(n)
    BY <1>1, <2>1
  <2>5. ASSUME NEW s \in 1..n, P(s) PROVE s = n
    <3>1. CASE s < n
      <4>1. n - 1 \in s..n /\ n # 1
        <5> HIDE DEF n
        <5>1. QED BY <2>1, <3>1
      <4>2. IsUser(prior[n - 1])
        BY <2>5, <4>1
      <4>3. QED BY <1>1, <4>1, <4>2
    <3>2. QED BY <3>1
  <2> HIDE DEF P
  <2>6. TurnStart(prior) = n
    BY <2>1, <2>3, <2>4, <2>5
  <2>7. SubSeq(prior, n, n) = <<u>>
    <3> DEFINE x == SubSeq(prior, n, n)
    <3>1. n \in 1..(Len(prior) + 1) /\ n \in (n - 1)..Len(prior)
      BY <2>1
    <3>2. x \in Seq(R) /\ Len(x) = n - n + 1 /\ \A j \in 1..(n - n + 1) : x[j] = prior[j + n - 1]
      <4> HIDE DEF R
      <4>1. QED BY <1>1, <3>1, PartIs
    <3> HIDE DEF x
    <3>3. Len(x) = 1 /\ x[1] = prior[n]
      BY <2>1, <3>2
    <3>4. x = <<u>>
      BY <1>1, <3>2, <3>3
    <3>5. QED BY <3>4 DEF x
  <2>8. QED BY <2>6, <2>7
<1>2. Alone(front \o <<u>>)
  <2> DEFINE prior == front \o <<u>>
  <2>1. /\ prior \in Seq(R) /\ Len(prior) = Len(front) + 1 /\ prior[Len(prior)] = u
        /\ prior[Len(front)] = front[Len(front)] /\ Len(front) \in Nat
    OBVIOUS
  <2> HIDE DEF prior, R, Alone
  <2>2. prior # <<>> /\ Len(prior) - 1 = Len(front)
    BY <2>1
  <2>3. Alone(prior)
    BY <1>1, <2>1, <2>2
  <2>4. QED BY <2>3 DEF prior
<1>3. Alone(<<u>>)
  <2>1. <<u>> \in Seq(R) /\ <<u>> # <<>> /\ <<u>>[Len(<<u>>)] = u /\ Len(<<u>>) = 1
    OBVIOUS
  <2> HIDE DEF R, Alone
  <2>2. QED BY <1>1, <2>1
<1>4. QED BY <1>2, <1>3 DEF TurnContextSignature

-----------------------------------------------------------------------------
(* The keys of a message. *)

\* The key of the signature of m at a place.
SignatureKey(place, m) == [place |-> place, alias |-> MessageSignature(m)]

\* Only the signature of a message is tagged as one, and it comes first.
SignatureFirst(m, s) ==
    /\ s \in Seq(ToSet(s)) /\ Len(s) >= 1 /\ s[1] = MessageSignature(m)
    /\ \A i \in 2..Len(s) : s[i][1] # "signature"

\* More aliases that are no signatures keep the signature in front.
LEMMA SignatureJoined ==
    ASSUME NEW m, NEW s, SignatureFirst(m, s),
           NEW B, \A b \in B : b[1] # "signature", NEW t \in Seq(B)
    PROVE  SignatureFirst(m, s \o t)
<1> DEFINE S == ToSet(s) \cup B
<1>1. s \in Seq(S) /\ t \in Seq(S) /\ Len(s) >= 1 /\ s[1] = MessageSignature(m)
  BY DEF SignatureFirst
<1> HIDE DEF S
<1>2. /\ s \o t \in Seq(S) /\ Len(s \o t) = Len(s) + Len(t)
      /\ \A j \in 1..Len(s) : (s \o t)[j] = s[j]
      /\ \A j \in (Len(s) + 1)..(Len(s) + Len(t)) : (s \o t)[j] = t[j - Len(s)]
  BY <1>1, JoinIs
<1>3. Len(s) \in Nat /\ Len(t) \in Nat /\ \A j \in 1..Len(t) : t[j] \in B
  BY <1>1
<1> DEFINE x == s \o t
<1> HIDE DEF x
<1>4. ASSUME NEW i \in 2..Len(x) PROVE x[i][1] # "signature"
  <2>1. CASE i \in 2..Len(s)
    <3>1. x[i] = s[i]
      BY <1>2, <1>3, <2>1 DEF x
    <3>2. QED BY <2>1, <3>1 DEF SignatureFirst
  <2>2. CASE i > Len(s)
    <3>1. i \in (Len(s) + 1)..(Len(s) + Len(t)) /\ i - Len(s) \in 1..Len(t)
      BY <1>2, <1>3, <2>2 DEF x
    <3>2. x[i] = t[i - Len(s)] /\ t[i - Len(s)] \in B
      BY <1>2, <1>3, <3>1 DEF x
    <3>3. QED BY <3>2
  <2>3. QED BY <1>3, <2>1, <2>2
<1>5. x \in Seq(ToSet(x))
  <2>1. ToSet(x) \subseteq ToSet(x)
    OBVIOUS
  <2>2. QED BY <1>2, <2>1, SequenceOver DEF x
<1>6. Len(x) >= 1 /\ x[1] = MessageSignature(m)
  BY <1>1, <1>2, <1>3 DEF x
<1>7. SignatureFirst(m, x)
  BY <1>4, <1>5, <1>6 DEF SignatureFirst
<1>8. QED BY <1>7 DEF x

\* The first alias of a message is its signature, and no other alias is one.
LEMMA AliasesAre ==
    ASSUME NEW m, m.calls \in Seq(ToSet(m.calls)) PROVE SignatureFirst(m, Aliases(m))
<1>1. PICK k \in Nat : DOMAIN m.calls = 1..k
  OBVIOUS
<1> DEFINE B == {ToolCallIDs(m)[i] : i \in 1..k} \cup {ToolCallSignatures(m)[i] : i \in 1..k}
                \cup {ToolCallNames(m)[i] : i \in 1..k}
<1>2. \A b \in B : b[1] # "signature"
  <2>1. \A i \in 1..k : /\ ToolCallIDs(m)[i][1] = "tool_call"
                        /\ ToolCallSignatures(m)[i][1] = "tool_call_signature"
                        /\ ToolCallNames(m)[i][1] = "tool_name"
    BY <1>1 DEF ToolCallIDs, ToolCallSignatures, ToolCallNames
  <2>2. QED BY <2>1
<1>3. /\ ToolCallIDs(m) \in Seq(B) /\ ToolCallSignatures(m) \in Seq(B)
      /\ ToolCallNames(m) \in Seq(B)
  <2>1. /\ ToolCallIDs(m) = [i \in 1..k |-> ToolCallIDs(m)[i]]
        /\ ToolCallSignatures(m) = [i \in 1..k |-> ToolCallSignatures(m)[i]]
        /\ ToolCallNames(m) = [i \in 1..k |-> ToolCallNames(m)[i]]
    BY <1>1 DEF ToolCallIDs, ToolCallSignatures, ToolCallNames
  <2>2. \A i \in 1..k : /\ ToolCallIDs(m)[i] \in B /\ ToolCallSignatures(m)[i] \in B
                        /\ ToolCallNames(m)[i] \in B
    OBVIOUS
  <2> HIDE DEF B
  <2>3. \A f : f = [i \in 1..k |-> f[i]] /\ (\A i \in 1..k : f[i] \in B) => f \in Seq(B)
    <3>1. \A f : f = [i \in 1..k |-> f[i]] /\ (\A i \in 1..k : f[i] \in B) => f \in [1..k -> B]
      OBVIOUS
    <3>2. [1..k -> B] \subseteq Seq(B)
      OBVIOUS
    <3>3. QED BY <3>1, <3>2
  <2>4. ToolCallIDs(m) \in Seq(B)
    BY <2>1, <2>2, <2>3, Zenon
  <2>5. ToolCallSignatures(m) \in Seq(B)
    BY <2>1, <2>2, <2>3, Zenon
  <2>6. ToolCallNames(m) \in Seq(B)
    BY <2>1, <2>2, <2>3, Zenon
  <2>7. QED BY <2>4, <2>5, <2>6
<1> HIDE DEF B
<1>4. SignatureFirst(m, <<MessageSignature(m)>>)
  BY DEF SignatureFirst, ToSet
<1>5. SignatureFirst(m, <<MessageSignature(m)>> \o ToolCallIDs(m))
  BY <1>2, <1>3, <1>4, SignatureJoined
<1>6. SignatureFirst(m, (<<MessageSignature(m)>> \o ToolCallIDs(m)) \o ToolCallSignatures(m))
  BY <1>2, <1>3, <1>5, SignatureJoined
<1>7. SignatureFirst(m, ((<<MessageSignature(m)>> \o ToolCallIDs(m)) \o ToolCallSignatures(m))
                          \o ToolCallNames(m))
  BY <1>2, <1>3, <1>6, SignatureJoined
<1>8. QED BY <1>7 DEF Aliases

\* The keys of a message at a place.
LEMMA KeysAtPlace ==
    ASSUME NEW m, m.calls \in Seq(ToSet(m.calls)), NEW place,
           NEW keys, keys = KeysAt(place, m)
    PROVE  /\ keys \in Seq(ToSet(keys)) /\ Len(keys) >= 1 /\ keys[1] = SignatureKey(place, m)
           /\ \A k \in ToSet(keys) : /\ k.place = place
                                     /\ k.alias[1] = "signature" => k = SignatureKey(place, m)
<1> DEFINE a == Aliases(m)
<1>1. SignatureFirst(m, a)
  BY AliasesAre
<1> HIDE DEF a
<1>2. PICK n \in Nat : DOMAIN a = 1..n /\ Len(a) = n /\ n >= 1
  BY <1>1 DEF SignatureFirst
<1>3. keys = [i \in 1..n |-> [place |-> place, alias |-> a[i]]]
  BY <1>2 DEF KeysAt, a
<1>4. \A i \in 1..n : keys[i] = [place |-> place, alias |-> a[i]]
  BY <1>3
<1>5. keys \in Seq(ToSet(keys)) /\ Len(keys) = n
  <2>1. \A i \in 1..n : keys[i] \in ToSet(keys)
    BY <1>3 DEF ToSet
  <2>2. keys = [i \in 1..n |-> keys[i]]
    BY <1>3
  <2>3. QED BY <2>1, <2>2
<1>6. keys[1] = SignatureKey(place, m)
  BY <1>1, <1>2, <1>4 DEF SignatureFirst, SignatureKey
<1>7. ASSUME NEW i \in 1..n
      PROVE  keys[i].place = place /\ (keys[i].alias[1] = "signature" => keys[i] = SignatureKey(place, m))
  <2>1. keys[i].place = place /\ keys[i].alias = a[i]
    <3>1. keys[i] = [place |-> place, alias |-> a[i]]
      BY <1>4
    <3>2. QED BY <3>1
  <2>2. i # 1 => a[i][1] # "signature"
    BY <1>1, <1>2 DEF SignatureFirst
  <2>3. QED BY <1>6, <2>1, <2>2
<1>8. QED BY <1>2, <1>5, <1>6, <1>7 DEF ToSet

=============================================================================
