---------------------------- MODULE RecoveryProofs ----------------------------
(***************************************************************************)
(* Proofs about what Conversation keeps of a request and what it cuts off: *)
(* recovery, the notice, and finding again what was recorded.              *)
(***************************************************************************)
EXTENDS ConversationProofs

\* What is left of the history messages when a request starts.
LeftOf(mode, messages) ==
    IF ThinkingEnabled /\ mode = "recover"
    THEN ActiveMessagesFromRecoveryBoundary(messages) ELSE messages

\* Message m is message x, or x with its reasoning restored.
SameBut(m, x) == \/ m = x
                 \/ /\ x.role = "assistant" /\ x.reasoning = NoReasoning
                    /\ \E q : m = [x EXCEPT !.reasoning = q]

\* Normalizing x again would not change it.
Settled(x) == /\ IsMessage(x) /\ IsContent(x.content)
              /\ Normalized(x, KeepReasoning) = x

\* A request that was recovered: instructions and the last user message.
Recovered(mode, r) ==
    /\ mode = "recover" /\ ThinkingEnabled
    /\ r.notice = RecoveryNoticeContent /\ r.missing = {}
    /\ \E i \in DOMAIN r.pre : r.pre[i].role = "assistant"
    /\ LastUserAt(r.pre) # 0 /\ IsUser(r.pre[LastUserAt(r.pre)])
    /\ \E front \in Seq(ToSet(r.src)) :
          /\ front # <<>> /\ \A i \in DOMAIN front : front[i].role = "system"
          /\ r.src = front \o <<r.pre[LastUserAt(r.pre)]>>

\* A request r of a client that holds the messages s.
Shaped(mode, s, r) ==
    /\ r.phase = "idle" => r.out = <<>>
    /\ r.phase # "idle" =>
          /\ r.pre = NormalizedAll(s, KeepReasoning)
          /\ \A i \in DOMAIN r.src : Settled(r.src[i])
          /\ Len(r.out) <= Len(r.src)
          /\ r.phase = "forwarded" => Len(r.out) = Len(r.src)
          /\ \A i \in DOMAIN r.out : SameBut(r.out[i], r.src[i])
          /\ r.missing # {} => ThinkingEnabled
          /\ r.missing \subseteq {i \in DOMAIN r.out : r.src[i].role = "assistant"}
          /\ \/ r.notice = <<>> /\ r.src = LeftOf(mode, r.pre)
             \/ Recovered(mode, r)

\* A client holds messages, and the answers among them are of the responses N.
Holding(N, s) == /\ s \in Seq(ToSet(s))
                 /\ \A i \in DOMAIN s : /\ IsMessage(s[i]) /\ IsContent(s[i].content)
                                        /\ s[i].from # 0 => s[i].from \in N

AllShaped == \A c \in Clients : /\ Holding(DOMAIN responses, conv[c])
                                /\ Shaped(strategy, conv[c], req[c])

-----------------------------------------------------------------------------
(* Messages. *)

\* Messages that differ in their reasoning alone are the same to the cache keys
\* and to recovery.
LEMMA SameFields ==
    ASSUME NEW x, IsMessage(x), NEW m, SameBut(m, x)
    PROVE  /\ m.role = x.role /\ m.content = x.content /\ m.calls = x.calls /\ m.from = x.from
           /\ HasRecoveryNotice(m) = HasRecoveryNotice(x)
           /\ CanonicalScopeMessage(m) = CanonicalScopeMessage(x)
           /\ MessageSignature(m) = MessageSignature(x)
           /\ x.role # "assistant" => m = x
<1>1. /\ m.role = x.role /\ m.content = x.content /\ m.calls = x.calls /\ m.from = x.from
      /\ x.role # "assistant" => m = x
  BY DEF SameBut, IsMessage
<1>2. HasRecoveryNotice(m) = HasRecoveryNotice(x)
  BY <1>1 DEF HasRecoveryNotice
<1>3. QED BY <1>1, <1>2 DEF CanonicalScopeMessage, MessageSignature

\* A normalized message is settled.
LEMMA NormalizedTwice ==
    ASSUME NEW m, IsMessage(m), IsContent(m.content)
    PROVE  /\ Settled(Normalized(m, KeepReasoning))
           /\ Normalized(m, KeepReasoning).from = m.from
<1> DEFINE n == Normalized(m, KeepReasoning)
           p == Normalized(n, KeepReasoning)
           text == StripCursorThinkingBlocks(m.content)
<1>1. KeepReasoning \in BOOLEAN
  BY DEF KeepReasoning
<1>2. /\ DOMAIN n = {"role", "content", "calls", "reasoning", "from"}
      /\ n.role = IF m.role = "function" THEN "tool" ELSE m.role
      /\ n.content = IF m.role = "assistant" THEN text ELSE m.content
      /\ n.calls = (IF m.role = "assistant" THEN m.calls ELSE <<>>) /\ n.from = m.from
      /\ n.reasoning = IF m.role = "assistant" /\ KeepReasoning THEN m.reasoning ELSE NoReasoning
  BY DEF Normalized, IsMessage
<1>3. text \in Seq(ToSet(m.content)) /\ CleanContent(text)
  BY StripCleans DEF IsContent
<1>4. IsContent(text)
  <2> HIDE DEF text
  <2>1. QED BY <1>3, SequenceOver DEF IsContent
<1>5. StripCursorThinkingBlocks(text) = text
  BY <1>3, StripKeepsClean
<1> HIDE DEF n, text
<1>6. IsMessage(n) /\ IsContent(n.content)
  <2>1. <<>> \in Seq(ToSet(<<>>))
    OBVIOUS
  <2>2. QED BY <1>2, <1>4, <2>1 DEF IsMessage
<1>7. /\ DOMAIN p = DOMAIN n
      /\ p = [k \in DOMAIN n |-> p[k]] /\ n = [k \in DOMAIN n |-> n[k]]
  <2>1. n = [k \in DOMAIN n |-> n[k]]
    BY DEF Normalized, n
  <2> HIDE DEF n
  <2>2. DOMAIN p = DOMAIN n /\ p = [k \in DOMAIN n |-> p[k]]
    BY DEF Normalized
  <2>3. QED BY <2>1, <2>2
<1>8. /\ p.role = n.role /\ p.calls = n.calls /\ p.from = n.from
      /\ p.reasoning = n.reasoning
  BY <1>2 DEF Normalized
<1>9. p.content = n.content
  BY <1>2, <1>5 DEF Normalized
<1> HIDE DEF p
<1>10. \A k \in DOMAIN n : p[k] = n[k]
  BY <1>2, <1>8, <1>9
<1>11. p = n
  BY <1>7, <1>10
<1>12. QED BY <1>2, <1>6, <1>11 DEF Settled, n, p

\* Normalizing the recovery instruction again changes nothing.
LEMMA SystemSettled == Settled(RecoverySystem)
<1>1. /\ IsMessage(RecoverySystem) /\ RecoverySystem.role = "system"
      /\ RecoverySystem.reasoning = NoReasoning /\ RecoverySystem.calls = <<>>
      /\ RecoverySystem = [k \in DOMAIN RecoverySystem |-> RecoverySystem[k]]
  BY SystemPlain DEF RecoverySystem, Plain
<1>2. IsContent(RecoverySystem.content)
  <2>1. RecoverySystem.content = <<RecoverySystemText>>
        /\ ToSet(<<RecoverySystemText>>) = {RecoverySystemText}
    BY DEF RecoverySystem, ToSet
  <2>2. QED BY <2>1 DEF IsContent
<1> DEFINE x == RecoverySystem
           p == Normalized(x, KeepReasoning)
<1> HIDE DEF x
<1>3. /\ DOMAIN p = DOMAIN x /\ p = [k \in DOMAIN x |-> p[k]]
      /\ \A k \in DOMAIN x : p[k] = x[k]
  BY <1>1 DEF Normalized, IsMessage, x
<1>4. p = x
  BY <1>1, <1>3 DEF x
<1>5. QED BY <1>1, <1>2, <1>4 DEF Settled, x

\* A history, normalized.
LEMMA NormalizedHistory ==
    ASSUME NEW N, NEW s, Holding(N, s), NEW pre, pre = NormalizedAll(s, KeepReasoning)
    PROVE  /\ pre \in Seq({m \in ToSet(pre) : Settled(m)}) /\ Len(pre) = Len(s)
           /\ \A i \in DOMAIN s : pre[i] = Normalized(s[i], KeepReasoning) /\ pre[i].from = s[i].from
<1>1. s \in Seq(ToSet(s)) /\ \A i \in DOMAIN s : IsMessage(s[i]) /\ IsContent(s[i].content)
  BY DEF Holding
<1>2. PICK n \in Nat : DOMAIN s = 1..n /\ Len(s) = n
  BY <1>1
<1>3. pre = [i \in 1..n |-> Normalized(s[i], KeepReasoning)]
  BY <1>2 DEF NormalizedAll
<1>4. \A i \in 1..n : pre[i] = Normalized(s[i], KeepReasoning)
  BY <1>3
<1>5. \A i \in 1..n : Settled(pre[i]) /\ pre[i].from = s[i].from
  BY <1>1, <1>2, <1>4, NormalizedTwice
<1> DEFINE S == {m \in ToSet(pre) : Settled(m)}
<1>6. \A i \in 1..n : pre[i] \in S
  BY <1>3, <1>5 DEF ToSet
<1> HIDE DEF S
<1>7. pre = [i \in 1..n |-> pre[i]]
  BY <1>3
<1>8. pre \in Seq(S) /\ Len(pre) = n
  BY <1>6, <1>7
<1>9. QED BY <1>2, <1>4, <1>5, <1>8 DEF S

\* What is left of it is settled too.
LEMMA LeftSettled ==
    ASSUME NEW mode, NEW S, NEW pre \in Seq(S), \A m \in S : Settled(m)
    PROVE  /\ LeftOf(mode, pre) \in Seq(S \cup {RecoverySystem})
           /\ \A m \in S \cup {RecoverySystem} : Settled(m)
<1> DEFINE R == S \cup {RecoverySystem}
<1>1. \A m \in R : Settled(m)
  BY SystemSettled
<1>2. pre \in Seq(R) /\ RecoverySystem \in R
  OBVIOUS
<1> HIDE DEF R
<1>3. ActiveMessagesFromRecoveryBoundary(pre) \in Seq(R)
  BY <1>2, ActiveElements
<1>4. LeftOf(mode, pre) \in Seq(R)
  BY <1>2, <1>3 DEF LeftOf
<1>5. QED BY <1>1, <1>4 DEF R

-----------------------------------------------------------------------------
(* The shape of a request. *)

\* A request that starts.
LEMMA FreshShaped ==
    ASSUME NEW N, NEW s, Holding(N, s), NEW p
    PROVE  Shaped(strategy, s, Prepared(p, s))
<1> DEFINE pre == NormalizedAll(s, KeepReasoning)
           r == Prepared(p, s)
           S == {m \in ToSet(pre) : Settled(m)}
<1>1. pre \in Seq(S)
  <2> HIDE DEF pre, S
  <2>1. pre = NormalizedAll(s, KeepReasoning)
    BY DEF pre
  <2>2. QED BY <2>1, NormalizedHistory DEF S
<1>2. /\ r.phase = "repair" /\ r.pre = pre /\ r.out = <<>> /\ r.missing = {} /\ r.notice = <<>>
      /\ r.src = LeftOf(strategy, pre)
  BY DEF Prepared, Idle, LeftOf
<1> HIDE DEF pre, r
<1>3. r.src \in Seq(S \cup {RecoverySystem}) /\ \A m \in S \cup {RecoverySystem} : Settled(m)
  <2>1. \A m \in S : Settled(m)
    OBVIOUS
  <2> HIDE DEF S
  <2>2. /\ LeftOf(strategy, pre) \in Seq(S \cup {RecoverySystem})
        /\ \A m \in S \cup {RecoverySystem} : Settled(m)
    BY <1>1, <2>1, LeftSettled
  <2>3. QED BY <1>2, <2>2
<1> HIDE DEF S
<1>4. \A i \in DOMAIN r.src : Settled(r.src[i])
  BY <1>3
<1>5. Len(r.out) <= Len(r.src) /\ DOMAIN r.out = {}
  BY <1>2, <1>3
<1>6. QED BY <1>2, <1>4, <1>5 DEF Shaped, pre, r

\* A recovered request has no answers.
LEMMA RecoveredRoles ==
    ASSUME NEW mode, NEW r, Recovered(mode, r)
    PROVE  \A n \in DOMAIN r.src : r.src[n].role \in {"system", "user"}
<1>1. PICK front \in Seq(ToSet(r.src)) :
         /\ \A n \in DOMAIN front : front[n].role = "system"
         /\ r.src = front \o <<r.pre[LastUserAt(r.pre)]>>
  BY DEF Recovered
<1> DEFINE u == r.pre[LastUserAt(r.pre)]
<1>2. IsUser(u)
  BY DEF Recovered
<1> HIDE DEF u
<1>3. /\ \A n \in 1..Len(front) : r.src[n] = front[n]
      /\ r.src[Len(front) + 1] = u /\ DOMAIN r.src = 1..(Len(front) + 1)
      /\ Len(front) \in Nat /\ DOMAIN front = 1..Len(front)
  BY <1>1 DEF u
<1>4. QED BY <1>1, <1>2, <1>3 DEF IsUser

\* The next message is added as it is, or with its reasoning restored, or it
\* is missing.
LEMMA AppendShaped ==
    ASSUME NEW mode, NEW s, NEW S, NEW T, NEW r, Shaped(mode, s, r), r.phase = "repair",
           r.src \in Seq(S), r.out \in Seq(T), Len(r.out) + 1 <= Len(r.src),
           NEW m, SameBut(m, r.src[Len(r.out) + 1]),
           NEW r1, r1.phase = "repair", r1.pre = r.pre, r1.src = r.src, r1.notice = r.notice,
           r1.out = Append(r.out, m),
           \/ r1.missing = r.missing
           \/ /\ r1.missing = r.missing \cup {Len(r.out) + 1}
              /\ ThinkingEnabled /\ r.src[Len(r.out) + 1].role = "assistant"
    PROVE  Shaped(mode, s, r1)
<1> DEFINE i == Len(r.out) + 1
<1>1. /\ r.pre = NormalizedAll(s, KeepReasoning)
      /\ \A n \in DOMAIN r.src : Settled(r.src[n])
      /\ \A n \in DOMAIN r.out : SameBut(r.out[n], r.src[n])
      /\ r.missing # {} => ThinkingEnabled
      /\ r.missing \subseteq {n \in DOMAIN r.out : r.src[n].role = "assistant"}
      /\ \/ r.notice = <<>> /\ r.src = LeftOf(mode, r.pre)
         \/ Recovered(mode, r)
  BY DEF Shaped
<1>2. /\ DOMAIN r.out = 1..Len(r.out) /\ Len(r.out) \in Nat /\ i \in DOMAIN r.src
      /\ DOMAIN r1.out = 1..i /\ Len(r1.out) = i
      /\ \A n \in 1..Len(r.out) : r1.out[n] = r.out[n]
      /\ r1.out[i] = m
  <2>1. \E Q : r.out \in Seq(Q) /\ m \in Q
    <3>1. r.out \in Seq(T \cup {m}) /\ m \in T \cup {m}
      OBVIOUS
    <3>2. QED BY <3>1
  <2>2. QED BY <2>1
<1> HIDE DEF i
<1>3. \A n \in DOMAIN r1.out : SameBut(r1.out[n], r1.src[n])
  <2>1. ASSUME NEW n \in 1..i PROVE SameBut(r1.out[n], r1.src[n])
    <3>1. n = i \/ n \in 1..Len(r.out)
      BY <1>2 DEF i
    <3>2. CASE n = i
      BY <1>2, <3>2 DEF i
    <3>3. CASE n \in 1..Len(r.out)
      BY <1>1, <1>2, <3>3
    <3>4. QED BY <3>1, <3>2, <3>3
  <2>2. QED BY <1>2, <2>1
<1>4. /\ r1.missing # {} => ThinkingEnabled
      /\ r1.missing \subseteq {n \in DOMAIN r1.out : r1.src[n].role = "assistant"}
  <2>1. \A n \in DOMAIN r.out : n \in DOMAIN r1.out
    BY <1>2 DEF i
  <2>2. i \in DOMAIN r1.out
    BY <1>2 DEF i
  <2>3. CASE r1.missing = r.missing
    BY <1>1, <2>1, <2>3
  <2>4. CASE /\ r1.missing = r.missing \cup {i}
             /\ ThinkingEnabled /\ r.src[i].role = "assistant"
    BY <1>1, <2>1, <2>2, <2>4
  <2>5. QED BY <2>3, <2>4 DEF i
<1>5. Recovered(mode, r) => Recovered(mode, r1)
  <2> SUFFICES ASSUME Recovered(mode, r) PROVE Recovered(mode, r1)
    OBVIOUS
  <2>1. r.src[i].role # "assistant"
    BY <1>2, RecoveredRoles
  <2>2. r1.missing = r.missing
    BY <2>1 DEF i
  <2>3. QED BY <2>2 DEF Recovered
<1>6. Len(r1.out) <= Len(r1.src)
  BY <1>2 DEF i
<1>7. QED BY <1>1, <1>3, <1>4, <1>5, <1>6 DEF Shaped

\* Restoring or missing one message keeps the shape of a request.
LEMMA NormalizeShaped ==
    ASSUME Owned, NEW c \in Clients, NormalizeMessage(c), NEW mode, NEW s,
           Shaped(mode, s, req[c])
    PROVE  \E r : req' = [req EXCEPT ![c] = r] /\ Shaped(mode, s, r)
<1> DEFINE r == req[c]
           i == Len(r.out) + 1
           x == r.src[i]
           m == Normalized(x, KeepReasoning)
           found == LookupForMessage(m, r.ns, r.out)
           restored == [m EXCEPT !.reasoning = found]
           lacking == ThinkingEnabled /\ m.role = "assistant" /\ m.reasoning = NoReasoning
           R1 == [r EXCEPT !.out = Append(@, restored), !.backfill = TRUE]
           R2 == [r EXCEPT !.out = Append(@, m), !.missing = r.missing \cup {i}]
           R3 == [r EXCEPT !.out = Append(@, m), !.missing = r.missing]
<1>1. /\ r.phase = "repair"
      /\ \/ lacking /\ req' = [req EXCEPT ![c] = R1]
         \/ lacking /\ req' = [req EXCEPT ![c] = R2]
         \/ req' = [req EXCEPT ![c] = R3]
  BY NormalizeCases
<1>2. i <= Len(r.src)
  BY DEF NormalizeMessage
<1>3. DOMAIN r = DOMAIN Idle
  BY DEF Owned, RequestOwned
<1>4. PICK S, T : r.src \in Seq(S) /\ r.out \in Seq(T)
  BY DEF Owned, RequestOwned, OwnSeq
<1> HIDE DEF r
<1>5. Shaped(mode, s, r)
  BY DEF r
<1>6. i \in DOMAIN r.src
  BY <1>2, <1>4
<1>7. m = x /\ IsMessage(x)
  BY <1>1, <1>5, <1>6 DEF Shaped, Settled
<1> HIDE DEF x, found, m, i
<1>8. lacking => SameBut(restored, x)
  BY <1>7 DEF SameBut
<1>9. SameBut(m, x)
  BY <1>7 DEF SameBut
<1>10. /\ R1.phase = r.phase /\ R1.pre = r.pre /\ R1.src = r.src /\ R1.notice = r.notice
       /\ R1.out = Append(r.out, restored) /\ R1.missing = r.missing
       /\ R2.phase = r.phase /\ R2.pre = r.pre /\ R2.src = r.src /\ R2.notice = r.notice
       /\ R2.out = Append(r.out, m) /\ R2.missing = r.missing \cup {i}
       /\ R3.phase = r.phase /\ R3.pre = r.pre /\ R3.src = r.src /\ R3.notice = r.notice
       /\ R3.out = Append(r.out, m) /\ R3.missing = r.missing
  BY <1>3 DEF Idle
<1> HIDE DEF R1, R2, R3, restored
<1>11. ASSUME lacking PROVE Shaped(mode, s, R1)
  <2>1. SameBut(restored, r.src[Len(r.out) + 1])
    BY <1>8, <1>11 DEF i, x
  <2>2. /\ R1.phase = "repair" /\ R1.pre = r.pre /\ R1.src = r.src /\ R1.notice = r.notice
        /\ R1.out = Append(r.out, restored) /\ R1.missing = r.missing
    BY <1>1, <1>10
  <2> HIDE DEF lacking
  <2>3. QED BY <1>1, <1>2, <1>4, <1>5, <2>1, <2>2, AppendShaped DEF i
<1>12. ASSUME lacking PROVE Shaped(mode, s, R2)
  <2>1. /\ SameBut(m, r.src[Len(r.out) + 1])
        /\ ThinkingEnabled /\ r.src[Len(r.out) + 1].role = "assistant"
    BY <1>7, <1>9, <1>12 DEF i, x
  <2>2. /\ R2.phase = "repair" /\ R2.pre = r.pre /\ R2.src = r.src /\ R2.notice = r.notice
        /\ R2.out = Append(r.out, m) /\ R2.missing = r.missing \cup {Len(r.out) + 1}
    BY <1>1, <1>10 DEF i
  <2> HIDE DEF lacking
  <2>3. QED BY <1>1, <1>2, <1>4, <1>5, <2>1, <2>2, AppendShaped DEF i
<1>13. Shaped(mode, s, R3)
  BY <1>1, <1>2, <1>4, <1>5, <1>9, <1>10, AppendShaped DEF i, x
<1> HIDE DEF lacking
<1>14. QED BY <1>1, <1>11, <1>12, <1>13 DEF r

\* Recovery never finds missing reasoning in front of a notice.
LEMMA NoCrossing ==
    ASSUME NEW N, NEW s, Holding(N, s), NEW T, NEW r, r.out \in Seq(T),
           Shaped("recover", s, r), r.phase # "idle",
           NEW i \in DOMAIN r.out, HasRecoveryNotice(r.out[i]), NEW j \in r.missing
    PROVE  j >= i
<1> DEFINE pre == r.pre
           S == {m \in ToSet(pre) : Settled(m)}
<1>1. pre \in Seq(S)
  <2>1. pre = NormalizedAll(s, KeepReasoning)
    BY DEF Shaped
  <2> HIDE DEF pre
  <2>2. QED BY <2>1, NormalizedHistory
<1>2. /\ ThinkingEnabled /\ r.src = ActiveMessagesFromRecoveryBoundary(pre)
      /\ Len(r.out) <= Len(r.src) /\ SameBut(r.out[i], r.src[i]) /\ IsMessage(r.src[i])
      /\ j \in DOMAIN r.out /\ r.src[j].role = "assistant" /\ i \in DOMAIN r.src
  <2>1. \A n \in DOMAIN r.src : Settled(r.src[n])
    BY DEF Shaped
  <2>2. /\ ThinkingEnabled /\ r.src = ActiveMessagesFromRecoveryBoundary(pre)
        /\ Len(r.out) <= Len(r.src) /\ SameBut(r.out[i], r.src[i])
        /\ j \in DOMAIN r.out /\ r.src[j].role = "assistant"
    BY DEF Shaped, Recovered, LeftOf
  <2> HIDE DEF pre, S
  <2>3. pre \in Seq(S \cup {RecoverySystem}) /\ RecoverySystem \in S \cup {RecoverySystem}
    BY <1>1
  <2>4. r.src \in Seq(S \cup {RecoverySystem})
    BY <2>2, <2>3, ActiveElements
  <2>5. i \in DOMAIN r.src
    BY <2>2, <2>4
  <2>6. QED BY <2>1, <2>2, <2>5 DEF Settled
<1> HIDE DEF pre, S
<1>3. i \in Nat /\ j \in Nat /\ i \in 1..Len(r.out) /\ j \in 1..Len(r.out)
  BY <1>2
<1>4. HasRecoveryNotice(r.src[i])
  BY <1>2, SameFields
<1>5. i \in DOMAIN ActiveMessagesFromRecoveryBoundary(pre)
  BY <1>2
<1>6. ASSUME j < i PROVE FALSE
  <2>1. j \in 1..(i - 1)
    BY <1>3, <1>6
  <2>2. r.src[j].role # "assistant"
    BY <1>1, <1>2, <1>4, <1>5, <2>1, NoticeFirst
  <2>3. QED BY <1>2, <2>2
<1>7. QED BY <1>3, <1>6

\* One more element, and a sequence is one over its elements.
LEMMA OneMore ==
    ASSUME NEW S, NEW front \in Seq(S), NEW u, NEW s, s = front \o <<u>>
    PROVE  /\ front \in Seq(ToSet(s)) /\ s \in Seq(ToSet(s))
           /\ ToSet(s) \subseteq S \cup {u}
<1>1. front \in Seq(S \cup {u}) /\ <<u>> \in Seq(S \cup {u})
  OBVIOUS
<1> DEFINE R == S \cup {u}
<1> HIDE DEF R
<1>2. /\ s \in Seq(R) /\ Len(s) = Len(front) + 1
      /\ \A i \in 1..Len(front) : s[i] = front[i]
  BY <1>1 DEF R
<1>3. \A i \in DOMAIN front : front[i] \in ToSet(s)
  <2>1. DOMAIN s = 1..(Len(front) + 1) /\ DOMAIN front = 1..Len(front) /\ Len(front) \in Nat
    BY <1>2
  <2>2. ASSUME NEW i \in 1..Len(front) PROVE front[i] \in ToSet(s)
    <3>1. i \in DOMAIN s /\ s[i] = front[i]
      BY <1>2, <2>1
    <3>2. QED BY <3>1 DEF ToSet
  <2>3. QED BY <2>1, <2>2
<1>4. ToSet(front) \subseteq ToSet(s)
  BY <1>3 DEF ToSet
<1>5. ToSet(s) \subseteq R /\ ToSet(s) \subseteq ToSet(s)
  BY <1>2 DEF ToSet
<1>6. QED BY <1>2, <1>4, <1>5, SequenceOver DEF R

\* A round of recovery: what is sent instead is the instructions and the last
\* user message the client holds, or there is none and nothing is cut.
LEMMA RecoverShaped ==
    ASSUME Owned, NEW c \in Clients, RecoverRequest(c), Holding(DOMAIN responses, conv[c]),
           Shaped(strategy, conv[c], req[c])
    PROVE  \E r1 : req' = [req EXCEPT ![c] = r1] /\ Shaped(strategy, conv[c], r1)
<1> DEFINE r == req[c]
           s == conv[c]
           pre == r.pre
           S == {m \in ToSet(pre) : Settled(m)}
           R == S \cup {RecoverySystem}
           u == LastUserAt(r.out)
           leading == LeadingSystemMessages(r.out)
           notice == IF Recovery(c).notice # <<>> THEN Recovery(c).notice ELSE r.notice
<1>1. /\ c \in DOMAIN req /\ DOMAIN r = DOMAIN Idle
      /\ r.phase = "repair" /\ Len(r.out) = Len(r.src)
      /\ r.missing # {} /\ strategy = "recover"
  BY DEF Owned, RequestOwned, RecoverRequest, PassDone
<1>2. PICK T : r.out \in Seq(T)
  BY RequestMessages
<1>3. pre \in Seq(S) /\ pre = NormalizedAll(s, KeepReasoning)
  <2>1. pre = NormalizedAll(s, KeepReasoning)
    BY <1>1 DEF Shaped
  <2> HIDE DEF pre, s
  <2>2. Holding(DOMAIN responses, s)
    BY DEF s
  <2>3. QED BY <2>1, <2>2, NormalizedHistory
<1>4. /\ ThinkingEnabled /\ r.src = ActiveMessagesFromRecoveryBoundary(pre) /\ r.notice = <<>>
      /\ \A n \in DOMAIN r.src : Settled(r.src[n])
      /\ \A n \in DOMAIN r.out : SameBut(r.out[n], r.src[n])
      /\ r.missing \subseteq {n \in DOMAIN r.out : r.src[n].role = "assistant"}
  BY <1>1 DEF Shaped, Recovered, LeftOf
<1>5. \/ /\ req' = [req EXCEPT ![c].phase = "forwarded", ![c].notice = notice]
         /\ Recovery(c).omitted = 0
      \/ /\ req' = [req EXCEPT ![c].src = Recovery(c).messages, ![c].out = <<>>,
                               ![c].missing = {}, ![c].notice = notice]
         /\ Recovery(c).omitted # 0
  BY DEF RecoverRequest
<1>6. Recovery(c) = IF u = 0 THEN [messages |-> r.out, omitted |-> 0, notice |-> <<>>]
                    ELSE [messages |-> leading \o <<RecoverySystem, r.out[u]>>,
                          omitted |-> Len(r.out) - Len(leading) - 1,
                          notice |-> RecoveryNoticeContent]
  <2> DEFINE crossed == {i \in DOMAIN r.out : /\ HasRecoveryNotice(r.out[i])
                                              /\ \E j \in r.missing : j < i}
  <2>1. r.missing \subseteq DOMAIN r.out /\ DOMAIN r.out \subseteq Nat
    BY <1>2, <1>4
  <2>2. ASSUME NEW i \in DOMAIN r.out, HasRecoveryNotice(r.out[i]), NEW j \in r.missing
        PROVE  ~(j < i)
    <3>1. Shaped("recover", s, r) /\ Holding(DOMAIN responses, s) /\ r.phase # "idle"
      BY <1>1
    <3> HIDE DEF r, s
    <3>2. j >= i
      BY <1>2, <2>2, <3>1, NoCrossing
    <3>3. QED BY <2>1, <2>2, <3>2
  <2>3. crossed = {}
    BY <2>2
  <2> HIDE DEF crossed
  <2>4. QED BY <2>3 DEF Recovery, RecoverMessagesFromMissingReasoning, crossed, LastUserAt
<1> HIDE DEF r, s
<1>7. /\ u \in 0..Len(r.out)
      /\ u # 0 => IsUser(r.out[u]) /\ \A i \in (u + 1)..Len(r.out) : ~IsUser(r.out[i])
  BY <1>2, LastUserPosition
<1> HIDE DEF pre, S
<1>11. /\ r.src \in Seq(R) /\ \A m \in R : Settled(m)
       /\ \A n \in DOMAIN r.out :
             /\ n \in DOMAIN r.src /\ IsMessage(r.src[n])
             /\ r.out[n].role = r.src[n].role
             /\ r.out[n].role # "assistant" => r.out[n] = r.src[n]
  <2>1. \A m \in S : Settled(m)
    BY DEF S
  <2>2. LeftOf("recover", pre) \in Seq(R) /\ \A m \in R : Settled(m)
    BY <1>3, <2>1, LeftSettled
  <2>3. r.src \in Seq(R)
    BY <1>4, <2>2 DEF LeftOf
  <2>4. \A n \in DOMAIN r.out : n \in DOMAIN r.src
    <3> HIDE DEF R
    <3>1. QED BY <1>1, <1>2, <2>3
  <2>5. \A n \in DOMAIN r.out : IsMessage(r.src[n])
    BY <1>4, <2>4 DEF Settled
  <2> HIDE DEF R
  <2>6. QED BY <1>4, <2>2, <2>3, <2>4, <2>5, SameFields DEF R
<1> HIDE DEF R
<1>8. CASE u = 0
  <2> DEFINE r1 == [r EXCEPT !.phase = "forwarded", !.notice = <<>>]
  <2>1. notice = <<>> /\ Recovery(c).omitted = 0
    BY <1>4, <1>6, <1>8
  <2>2. req' = [req EXCEPT ![c] = r1]
    BY <1>1, <1>5, <2>1 DEF r, Idle
  <2>3. /\ r1.pre = r.pre /\ r1.src = r.src /\ r1.out = r.out /\ r1.missing = r.missing
        /\ r1.notice = r.notice /\ r1.phase = "forwarded"
    BY <1>1, <1>4 DEF Idle
  <2>4. Shaped(strategy, s, r)
    BY DEF r, s
  <2> HIDE DEF r1
  <2>5. Shaped(strategy, s, r1)
    BY <1>1, <1>4, <2>3, <2>4 DEF Shaped, LeftOf, pre
  <2>6. QED BY <2>2, <2>5 DEF s
<1>9. CASE u # 0
  <2> DEFINE kept == leading \o <<RecoverySystem, r.out[u]>>
             r1 == [r EXCEPT !.src = kept, !.out = <<>>, !.missing = {},
                             !.notice = RecoveryNoticeContent]
  <2>1. notice = RecoveryNoticeContent /\ Recovery(c).messages = kept
    BY <1>6, <1>9 DEF RecoveryNoticeContent
  <2>2. Recovery(c).omitted # 0
    <3>1. /\ r.missing \subseteq {n \in DOMAIN r.out : r.out[n].role = "assistant"}
      BY <1>4, <1>11
    <3>2. QED BY <1>1, <1>2, <1>7, <1>9, <3>1, FruitlessRecovery DEF Recovery, r
  <2>3. req' = [req EXCEPT ![c] = r1]
    <3> HIDE DEF kept, notice
    <3>1. req' = [req EXCEPT ![c].src = kept, ![c].out = <<>>, ![c].missing = {},
                             ![c].notice = RecoveryNoticeContent]
      BY <1>5, <2>1, <2>2
    <3>2. QED BY <1>1, <3>1 DEF r, Idle
  <2> DEFINE w == r.out[u]
             front == leading \o <<RecoverySystem>>
             F == {m \in R : m.role = "system"}
  <2>4. /\ u \in DOMAIN r.out /\ w = r.src[u] /\ IsUser(w) /\ w \in R /\ Len(r.src) \in Nat
        /\ LastUserAt(r.src) = u
    <3>1. u \in DOMAIN r.out /\ IsUser(w) /\ w.role # "assistant"
      BY <1>2, <1>7, <1>9 DEF IsUser
    <3>2. w = r.src[u] /\ u \in DOMAIN r.src
      BY <1>11, <3>1
    <3>3. \A i \in (u + 1)..Len(r.src) : ~IsUser(r.src[i])
      <4>1. \A i \in (u + 1)..Len(r.src) : i \in DOMAIN r.out
        BY <1>1, <1>2, <3>1
      <4>2. QED BY <1>1, <1>7, <1>9, <1>11, <4>1 DEF IsUser
    <3> HIDE DEF u
    <3>4. LastUserAt(r.src) = u
      BY <1>11, <3>1, <3>2, <3>3, LastUserUnique
    <3>5. QED BY <1>11, <3>1, <3>2, <3>4
  <2>5. LastUserAt(pre) # 0 /\ pre[LastUserAt(pre)] = w
    BY <1>3, <1>4, <1>9, <2>4, LastUserOfActive
  <2>6. \E k \in DOMAIN pre : pre[k].role = "assistant"
    <3>1. PICK j \in DOMAIN r.out : r.src[j].role = "assistant"
      BY <1>1, <1>4
    <3>2. j \in DOMAIN r.src
      BY <1>11
    <3>3. \E k \in DOMAIN pre : ActiveMessagesFromRecoveryBoundary(pre)[j] = pre[k]
      BY <1>3, <1>4, <3>1, <3>2, PlaceOfAnswer
    <3>4. QED BY <1>4, <3>1, <3>3
  <2>7. /\ front \in Seq(F) /\ front # <<>> /\ kept = front \o <<w>>
    <3>1. PICK n \in 0..Len(r.out) : /\ leading = SubSeq(r.out, 1, n)
                                     /\ \A i \in 1..n : r.out[i].role = "system"
      BY <1>2, LeadingIsPrefix
    <3>2. \A i \in 1..n : r.out[i] \in F
      <4>1. \A i \in 1..n : i \in DOMAIN r.out
        BY <1>2
      <4>2. \A i \in 1..n : i \in DOMAIN r.src /\ r.out[i] = r.src[i]
        BY <1>11, <3>1, <4>1
      <4>3. \A i \in DOMAIN r.src : r.src[i] \in R
        BY <1>11
      <4>4. QED BY <3>1, <4>2, <4>3
    <3>3. RecoverySystem \in F
      BY DEF R, RecoverySystem
    <3> HIDE DEF F, leading
    <3>4. leading \in Seq(F)
      <4>1. leading = [i \in 1..n |-> r.out[i]]
        BY <1>2, <3>1
      <4>2. QED BY <3>2, <4>1
    <3>5. front \in Seq(F) /\ front # <<>>
      BY <3>3, <3>4
    <3> HIDE DEF w
    <3>6. leading \o <<RecoverySystem, w>> = (leading \o <<RecoverySystem>>) \o <<w>>
      <4>1. leading \in Seq(F \cup {w}) /\ RecoverySystem \in F \cup {w} /\ w \in F \cup {w}
        BY <3>3, <3>4
      <4> DEFINE G == F \cup {w}
      <4> HIDE DEF G
      <4>2. QED BY <4>1 DEF G
    <3>7. QED BY <3>5, <3>6 DEF w
  <2>8. /\ front \in Seq(ToSet(kept)) /\ kept \in Seq(ToSet(kept))
        /\ ToSet(kept) \subseteq F \cup {w}
    <3> HIDE DEF kept, front, F, w
    <3>1. QED BY <2>7, OneMore
  <2>9. \A n \in DOMAIN kept : Settled(kept[n])
    <3> HIDE DEF kept, w
    <3>1. \A n \in DOMAIN kept : kept[n] \in F \cup {w}
      BY <2>8 DEF ToSet
    <3>2. QED BY <1>11, <2>4, <3>1
  <2>10. \A n \in DOMAIN front : front[n].role = "system"
    <3> HIDE DEF front, F
    <3>1. \A n \in DOMAIN front : front[n] \in F
      BY <2>7
    <3>2. QED BY <3>1 DEF F
  <2>11. /\ r1.pre = r.pre /\ r1.src = kept /\ r1.out = <<>> /\ r1.missing = {}
         /\ r1.notice = RecoveryNoticeContent /\ r1.phase = "repair"
    BY <1>1 DEF Idle
  <2> HIDE DEF r1, kept, front, w, F
  <2>12. Recovered("recover", r1)
    <3>1. r1.pre = pre
      BY <2>11 DEF pre
    <3>2. \E f \in Seq(ToSet(kept)) :
             f # <<>> /\ (\A n \in DOMAIN f : f[n].role = "system") /\ kept = f \o <<w>>
      BY <2>7, <2>8, <2>10
    <3>3. QED BY <1>4, <2>4, <2>5, <2>6, <2>11, <3>1, <3>2 DEF Recovered
  <2>13. Shaped(strategy, s, r1)
    <3>1. Len(r1.out) <= Len(r1.src) /\ DOMAIN r1.out = {}
      BY <2>8, <2>11
    <3>2. QED BY <1>1, <1>3, <2>9, <2>11, <2>12, <3>1 DEF Shaped, pre
  <2>14. QED BY <2>3, <2>13 DEF s
<1>10. QED BY <1>8, <1>9

-----------------------------------------------------------------------------
(* What clients send, and what they get. *)

\* A message of the client's own.
Fresh(m) == IsMessage(m) /\ IsContent(m.content) /\ m.from = 0 /\ m.role # "assistant"

\* What a client that holds s sends: s again, without its last message, or
\* with one of its own.
Resent(s, messages) == \/ messages = s
                       \/ s # <<>> /\ messages = Front(s)
                       \/ \E m : Fresh(m) /\ messages = Append(s, m)

\* A client sends its history, with one fresh message more, as it is, or without
\* its last message.
LEMMA SentIs ==
    ASSUME ConversationAssumption, NEW c \in Clients,
           Ask(c) \/ AnswerCall(c) \/ Retry(c) \/ Regenerate(c)
    PROVE  \E messages : Resent(conv[c], messages) /\ Send(c, messages)
<1>1. ASSUME NEW role, role # "assistant", NEW content, IsContent(content)
      PROVE  Fresh(Message(role, content))
  <2>1. <<>> \in Seq(ToSet(<<>>))
    OBVIOUS
  <2>2. QED BY <1>1, <2>1 DEF Fresh, IsMessage, Message
<1>2. CASE Ask(c)
  <2>1. PICK q \in Questions : Send(c, Append(conv[c], Message("user", q)))
    BY <1>2 DEF Ask
  <2>2. Fresh(Message("user", q))
    BY <1>1 DEF ConversationAssumption
  <2>3. QED BY <2>1, <2>2 DEF Resent
<1>3. CASE AnswerCall(c)
  <2> DEFINE id == Last(conv[c]).calls[1].id
  <2>1. Send(c, Append(conv[c], Message(ToolRole(c), <<id>>)))
    BY <1>3 DEF AnswerCall
  <2> HIDE DEF id
  <2>2. IsContent(<<id>>)
    <3>1. ToSet(<<id>>) = {id}
      BY DEF ToSet
    <3>2. QED BY <3>1 DEF IsContent
  <2>3. Fresh(Message(ToolRole(c), <<id>>))
    BY <1>1, <2>2 DEF ToolRole
  <2>4. QED BY <2>1, <2>3 DEF Resent
<1>4. CASE Retry(c)
  BY <1>4 DEF Retry, Resent
<1>5. CASE Regenerate(c)
  BY <1>5 DEF Regenerate, Resent
<1>6. QED BY <1>2, <1>3, <1>4, <1>5

\* It is of the same responses.
LEMMA ResentHolding ==
    ASSUME NEW N, NEW s, Holding(N, s), NEW messages, Resent(s, messages)
    PROVE  Holding(N, messages)
<1> DEFINE H(m) == IsMessage(m) /\ IsContent(m.content) /\ (m.from # 0 => m.from \in N)
           S == {m \in ToSet(s) : H(m)}
<1>1. ASSUME NEW T, \A m \in T : H(m), NEW t \in Seq(T) PROVE Holding(N, t)
  <2>1. \A i \in DOMAIN t : H(t[i])
    BY <1>1
  <2>2. ToSet(t) \subseteq ToSet(t)
    OBVIOUS
  <2>3. t \in Seq(ToSet(t))
    BY <1>1, <2>2, SequenceOver
  <2>4. QED BY <2>1, <2>3 DEF Holding
<1>2. s \in Seq(S)
  <2>1. s \in Seq(ToSet(s)) /\ \A i \in DOMAIN s : H(s[i])
    BY DEF Holding
  <2>2. ToSet(s) \subseteq S
    BY <2>1 DEF ToSet
  <2> HIDE DEF S, H
  <2>3. QED BY <2>1, <2>2, SequenceOver
<1>3. \A m \in S : H(m)
  OBVIOUS
<1> HIDE DEF S
<1>4. CASE messages = s
  BY <1>4
<1>5. CASE s # <<>> /\ messages = Front(s)
  <2>1. messages \in Seq(S)
    BY <1>2, <1>5 DEF Front
  <2> HIDE DEF H
  <2>2. QED BY <1>1, <1>3, <2>1
<1>6. ASSUME NEW m, Fresh(m), messages = Append(s, m) PROVE Holding(N, messages)
  <2>1. H(m)
    BY <1>6 DEF Fresh
  <2> HIDE DEF H
  <2>2. messages \in Seq(S \cup {m})
    BY <1>2, <1>6
  <2>3. \A x \in S \cup {m} : H(x)
    BY <1>3, <2>1
  <2>4. QED BY <1>1, <2>2, <2>3
<1>7. QED BY <1>4, <1>5, <1>6 DEF Resent

\* The answer m of a request r with number n.
Answered(r, n, m) ==
    /\ IsMessage(m) /\ m.role = "assistant" /\ m.from = n
    /\ m.reasoning = IF KeepReasoning THEN n ELSE NoReasoning
    /\ \E a \in Answers : m.content = r.notice \o a

\* What Respond records and remembers, in terms of the request it answers.
LEMMA RespondIs ==
    ASSUME Owned, NEW c \in Clients, Respond(c)
    PROVE  \E m, y : /\ Answered(req[c], Len(responses) + 1, m)
                     /\ cache' = Recorded(c, m)
                     /\ y.shortened <=> \E x \in ToSet(req[c].pre) : x.role # "system" /\
                                           \A z \in ToSet(req[c].out) :
                                              CanonicalScopeMessage(z) # CanonicalScopeMessage(x)
                     /\ y.ns = req[c].ns /\ y.message = m
                     /\ responses' = Append(responses, y)
                     /\ \/ conv' = [conv EXCEPT ![c] = Append(conv[c], Delivered(c, m))]
                        \/ conv' = conv
<1> DEFINE n == Len(responses) + 1
           short == \E x \in ToSet(req[c].pre) : x.role # "system" /\
                       \A z \in ToSet(req[c].out) :
                          CanonicalScopeMessage(z) # CanonicalScopeMessage(x)
           Y(m) == [ns |-> req[c].ns, message |-> m, shortened |-> short]
<1>1. PICK a \in Answers, calls \in Calls :
         LET m == [role |-> "assistant", content |-> req[c].notice \o a, calls |-> calls,
                   reasoning |-> IF KeepReasoning THEN n ELSE NoReasoning, from |-> n]
         IN  /\ cache' = Recorded(c, m)
             /\ responses' = Append(responses, Y(m))
             /\ \/ conv' = [conv EXCEPT ![c] = Append(@, Delivered(c, m))]
                \/ UNCHANGED conv
  BY DEF Respond
<1> DEFINE m == [role |-> "assistant", content |-> req[c].notice \o a, calls |-> calls,
                 reasoning |-> IF KeepReasoning THEN n ELSE NoReasoning, from |-> n]
<1>2. calls \in Seq(ToSet(calls))
  <2>1. ASSUME NEW x PROVE <<x>> \in Seq(ToSet(<<x>>))
    <3>1. ToSet(<<x>>) = {x}
      BY DEF ToSet
    <3>2. QED BY <3>1
  <2>2. <<>> \in Seq(ToSet(<<>>))
    OBVIOUS
  <2>3. calls = <<>> \/ \E x : calls = <<x>>
    BY DEF Calls, NoCall
  <2>4. QED BY <2>1, <2>2, <2>3
<1>3. Answered(req[c], n, m)
  BY <1>2 DEF Answered, IsMessage
<1>4. /\ cache' = Recorded(c, m) /\ responses' = Append(responses, Y(m))
      /\ \/ conv' = [conv EXCEPT ![c] = Append(conv[c], Delivered(c, m))]
         \/ conv' = conv
  BY <1>1
<1>5. Y(m).ns = req[c].ns /\ Y(m).message = m /\ (Y(m).shortened <=> short)
  OBVIOUS
<1> HIDE DEF m, short
<1>6. QED BY <1>3, <1>4, <1>5 DEF short

-----------------------------------------------------------------------------
(* The shape of every request. *)

\* One client changes.
LEMMA ShapedStep ==
    ASSUME Owned, AllShaped, NEW c \in Clients, NEW r, req' = [req EXCEPT ![c] = r],
           NEW messages, conv' = [conv EXCEPT ![c] = messages],
           Shaped(strategy, messages, r), Holding(DOMAIN responses', messages),
           DOMAIN responses \subseteq DOMAIN responses', UNCHANGED strategy
    PROVE  AllShaped'
<1>1. \A d \in Clients : /\ req'[d] = IF d = c THEN r ELSE req[d]
                         /\ conv'[d] = IF d = c THEN messages ELSE conv[d]
  BY DEF Owned
<1>2. \A N, M, s : N \subseteq M /\ Holding(N, s) => Holding(M, s)
  BY DEF Holding
<1>3. ASSUME NEW d \in Clients
      PROVE  Holding(DOMAIN responses', conv'[d]) /\ Shaped(strategy', conv'[d], req'[d])
  <2>1. CASE d = c
    BY <1>1, <2>1
  <2>2. CASE d # c
    BY <1>1, <1>2, <2>2 DEF AllShaped
  <2>3. QED BY <2>1, <2>2
<1>4. QED BY <1>3 DEF AllShaped

\* Only the request of one client changes.
LEMMA ShapedRequest ==
    ASSUME Owned, AllShaped, NEW c \in Clients, NEW r, req' = [req EXCEPT ![c] = r],
           Shaped(strategy, conv[c], r), UNCHANGED <<strategy, conv, responses>>
    PROVE  AllShaped'
<1>1. conv' = [conv EXCEPT ![c] = conv[c]]
  BY DEF Owned
<1>2. Holding(DOMAIN responses', conv[c])
  BY DEF AllShaped
<1>3. QED BY <1>1, <1>2, ShapedStep

\* What the client holds once the answer m is delivered.
LEMMA DeliveredHolding ==
    ASSUME ConversationAssumption, NEW mode, NEW c, NEW N, NEW s, Holding(N, s),
           NEW r, r.phase # "idle", Shaped(mode, s, r),
           NEW n, NEW m, Answered(r, n, m), NEW M, N \subseteq M, n \in M
    PROVE  Holding(M, s) /\ Holding(M, Append(s, Delivered(c, m)))
<1> DEFINE d == Delivered(c, m)
           H(x) == IsMessage(x) /\ IsContent(x.content) /\ (x.from # 0 => x.from \in M)
<1>1. PICK a \in Answers : m.content = r.notice \o a
  BY DEF Answered
<1>2. /\ IsMessage(d) /\ d.from = n
      /\ d.content \in {m.content, <<"think">> \o m.content}
  BY DEF Delivered, Answered, IsMessage
<1>3. IsContent(d.content)
  <2> DEFINE S == ToSet(a) \cup {"notice", "nl", "think"}
  <2>1. a \in Seq(S)
    <3>1. a \in Seq(ToSet(a))
      BY DEF ConversationAssumption, IsContent
    <3>2. QED BY <3>1
  <2>2. "think" \in S /\ "notice" \in S /\ "nl" \in S
    OBVIOUS
  <2> HIDE DEF S, d
  <2>3. r.notice \in Seq(S)
    <3>1. r.notice = <<>> \/ r.notice = RecoveryNoticeContent
      BY DEF Shaped, Recovered
    <3>2. <<>> \in Seq(S) /\ <<"notice", "nl">> \in Seq(S)
      BY <2>2
    <3>3. QED BY <3>1, <3>2 DEF RecoveryNoticeContent
  <2>4. d.content \in Seq(S)
    <3>1. m.content \in Seq(S)
      BY <1>1, <2>1, <2>3
    <3>2. <<"think">> \o m.content \in Seq(S)
      BY <2>2, <3>1
    <3>3. QED BY <1>2, <3>1, <3>2
  <2>5. QED BY <2>4, SequenceOver DEF IsContent
<1>4. H(d)
  BY <1>2, <1>3
<1>5. /\ s \in Seq(ToSet(s)) /\ \A i \in DOMAIN s : H(s[i])
  BY DEF Holding
<1> HIDE DEF d, H
<1>6. Append(s, d) \in Seq(ToSet(Append(s, d)))
  <2>1. Append(s, d) = s \o <<d>>
    BY <1>5
  <2>2. QED BY <1>5, <2>1, OneMore
<1>7. \A i \in DOMAIN Append(s, d) : H(Append(s, d)[i])
  <2>1. ASSUME NEW i \in DOMAIN Append(s, d) PROVE H(Append(s, d)[i])
    <3>1. (i \in DOMAIN s /\ Append(s, d)[i] = s[i]) \/ Append(s, d)[i] = d
      BY <1>5, <2>1
    <3>2. QED BY <1>4, <1>5, <3>1
  <2>2. QED BY <2>1
<1>8. QED BY <1>5, <1>6, <1>7 DEF Holding, H, d

\* Every step keeps the shape of every request.
LEMMA ShapedSteps ==
    ASSUME ConversationAssumption, Owned, AllShaped, [Next]_vars
    PROVE  AllShaped'
<1>1. UNCHANGED strategy
  BY DEF Next, vars
<1>2. ASSUME NEW c \in Clients, NEW s PROVE Shaped(strategy, s, Idle)
  BY DEF Shaped, Idle
<1>3. ASSUME NEW c \in Clients, Ask(c) \/ AnswerCall(c) \/ Retry(c) \/ Regenerate(c)
      PROVE  AllShaped'
  <2>1. PICK messages : Resent(conv[c], messages) /\ Send(c, messages)
    BY <1>3, SentIs
  <2>2. Holding(DOMAIN responses, messages)
    BY <2>1, ResentHolding DEF AllShaped
  <2>3. Shaped(strategy, messages, Prepared(profile[c], messages))
    BY <2>2, FreshShaped
  <2>4. /\ conv' = [conv EXCEPT ![c] = messages] /\ UNCHANGED responses
        /\ req' = [req EXCEPT ![c] = Prepared(profile[c], messages)]
    BY <2>1 DEF Send
  <2> DEFINE r == Prepared(profile[c], messages)
  <2> HIDE DEF r
  <2>5. Shaped(strategy, messages, r) /\ req' = [req EXCEPT ![c] = r]
    BY <2>3, <2>4 DEF r
  <2>6. QED BY <1>1, <2>2, <2>4, <2>5, ShapedStep
<1>4. ASSUME NEW c \in Clients, Handle(c) PROVE AllShaped'
  <2>1. /\ Holding(DOMAIN responses, conv[c]) /\ Shaped(strategy, conv[c], req[c])
        /\ UNCHANGED <<conv, responses>>
    BY <1>4 DEF AllShaped, Handle, NormalizeMessage, Backfill, RecoverRequest, Forward, Reject
  <2>2. CASE NormalizeMessage(c)
    BY <1>1, <2>1, <2>2, NormalizeShaped, ShapedRequest
  <2>3. CASE RecoverRequest(c)
    BY <1>1, <2>1, <2>3, RecoverShaped, ShapedRequest
  <2>4. CASE Forward(c)
    <3> DEFINE r == req[c]
               r1 == [r EXCEPT !.phase = "forwarded"]
    <3>1. DOMAIN r = DOMAIN Idle /\ req' = [req EXCEPT ![c] = r1] /\ r.phase = "repair"
          /\ Len(r.out) = Len(r.src)
      BY <2>4 DEF Forward, PassDone, Owned, RequestOwned
    <3>2. /\ r1.pre = r.pre /\ r1.src = r.src /\ r1.out = r.out /\ r1.missing = r.missing
          /\ r1.notice = r.notice /\ r1.phase = "forwarded"
      BY <3>1 DEF Idle
    <3> HIDE DEF r1
    <3>3. Shaped(strategy, conv[c], r1)
      BY <2>1, <3>1, <3>2 DEF Shaped, Recovered
    <3>4. QED BY <1>1, <2>1, <3>1, <3>3, ShapedRequest
  <2>5. CASE Reject(c)
    BY <1>1, <1>2, <2>1, <2>5, ShapedRequest DEF Reject
  <2>6. CASE Backfill(c)
    <3> DEFINE r == req[c]
               r1 == [r EXCEPT !.backfill = FALSE]
    <3>1. DOMAIN r = DOMAIN Idle /\ req' = [req EXCEPT ![c] = r1]
      BY <2>6 DEF Backfill, Owned, RequestOwned
    <3>2. /\ r1.pre = r.pre /\ r1.src = r.src /\ r1.out = r.out /\ r1.missing = r.missing
          /\ r1.notice = r.notice /\ r1.phase = r.phase
      BY <3>1 DEF Idle
    <3> HIDE DEF r1
    <3>3. Shaped(strategy, conv[c], r1)
      BY <2>1, <3>2 DEF Shaped, Recovered
    <3>4. QED BY <1>1, <2>1, <3>1, <3>3, ShapedRequest
  <2>7. QED BY <1>4, <2>2, <2>3, <2>4, <2>5, <2>6 DEF Handle
<1>5. ASSUME NEW c \in Clients, Respond(c) PROVE AllShaped'
  <2> DEFINE n == Len(responses) + 1
  <2>1. PICK m, y : /\ Answered(req[c], n, m)
                    /\ responses' = Append(responses, y)
                    /\ \/ conv' = [conv EXCEPT ![c] = Append(conv[c], Delivered(c, m))]
                       \/ conv' = conv
    BY <1>5, RespondIs
  <2>2. DOMAIN responses \subseteq DOMAIN responses' /\ n \in DOMAIN responses'
    BY <2>1 DEF Owned
  <2>3. /\ Holding(DOMAIN responses, conv[c]) /\ Shaped(strategy, conv[c], req[c])
        /\ req[c].phase # "idle" /\ req' = [req EXCEPT ![c] = Idle]
    BY <1>5 DEF AllShaped, Respond
  <2> HIDE DEF n
  <2>4. /\ Holding(DOMAIN responses', conv[c])
        /\ Holding(DOMAIN responses', Append(conv[c], Delivered(c, m)))
    BY <2>1, <2>2, <2>3, DeliveredHolding
  <2>5. conv = [conv EXCEPT ![c] = conv[c]]
    BY DEF Owned
  <2>6. QED BY <1>1, <1>2, <2>1, <2>2, <2>3, <2>4, <2>5, ShapedStep
<1>6. ASSUME NEW c \in Clients, UpstreamFails(c) PROVE AllShaped'
  BY <1>1, <1>2, <1>6, ShapedRequest DEF UpstreamFails
<1>7. ASSUME UNCHANGED <<conv, req, responses>> PROVE AllShaped'
  BY <1>1, <1>7 DEF AllShaped
<1>8. QED BY <1>3, <1>4, <1>5, <1>6, <1>7 DEF Next, SwitchProfile, Evict, ClearCache, vars

\* Every request of every client keeps its shape: it is the normalized history,
\* all of it or cut by recovery, and only reasoning has been added.
THEOREM AllShapedHolds == Spec => []AllShaped
<1>1. Init => AllShaped
  <2> SUFFICES ASSUME Init, NEW c \in Clients
               PROVE  Holding(DOMAIN responses, conv[c]) /\ Shaped(strategy, conv[c], req[c])
    BY DEF AllShaped
  <2>1. req[c] = Idle /\ conv[c] \in Histories
    BY DEF Init
  <2>2. Shaped(strategy, conv[c], req[c])
    BY <2>1 DEF Shaped, Idle
  <2>3. Holding(DOMAIN responses, conv[c])
    BY <2>1, ConversationAssumption DEF ConversationAssumption, Holding, ToSet
  <2>4. QED BY <2>2, <2>3
<1>2. Owned /\ AllShaped /\ [Next]_vars => AllShaped'
  BY ShapedSteps, ConversationAssumption
<1>3. QED BY <1>1, <1>2, OwnedHolds, PTL DEF Spec

\* A request never lacks reasoning in front of a recovery notice: for every
\* history, and whatever rows are lost, a recovered conversation is not cut at
\* the same place again.
THEOREM NoticeNotCrossedHolds == Spec => []NoticeNotCrossed
<1>1. Owned /\ AllShaped => NoticeNotCrossed
  <2> SUFFICES ASSUME Owned, AllShaped, strategy = "recover", NEW c \in Clients,
                      NEW i \in DOMAIN req[c].out, HasRecoveryNotice(req[c].out[i]),
                      NEW j \in req[c].missing
               PROVE  j >= i
    BY DEF NoticeNotCrossed
  <2>1. PICK T : req[c].out \in Seq(T)
    BY RequestMessages
  <2>2. Holding(DOMAIN responses, conv[c]) /\ Shaped("recover", conv[c], req[c])
    BY DEF AllShaped
  <2>3. req[c].phase # "idle"
    BY <2>2 DEF Shaped
  <2>4. QED BY <2>1, <2>2, <2>3, NoCrossing
<1>2. QED BY <1>1, OwnedHolds, AllShapedHolds, PTL

-----------------------------------------------------------------------------
(* The notice is seen. *)

\* Message i of s, if it answers a history that was shortened, shows it or one
\* before it does.
Seen(R, s, i) == s[i].from # 0 /\ R[s[i].from].shortened =>
                     \E j \in 1..i : HasRecoveryNotice(Normalized(s[j], TRUE))

Visible(R, s) == \A i \in DOMAIN s : Seen(R, s, i)

\* Whether reasoning is kept does not matter for the notice.
LEMMA NoticeAnyway ==
    ASSUME NEW m, IsMessage(m)
    PROVE  HasRecoveryNotice(Normalized(m, TRUE)) = HasRecoveryNotice(Normalized(m, KeepReasoning))
<1>1. /\ Normalized(m, TRUE).role = Normalized(m, KeepReasoning).role
      /\ Normalized(m, TRUE).content = Normalized(m, KeepReasoning).content
  BY DEF Normalized, IsMessage
<1>2. QED BY <1>1 DEF HasRecoveryNotice

\* More responses, fewer messages or one more change nothing for the others.
LEMMA VisibleGrows ==
    ASSUME NEW R, NEW s, Holding(DOMAIN R, s), Visible(R, s),
           NEW R1, \A n \in DOMAIN R : R1[n] = R[n]
    PROVE  /\ Visible(R1, s)
           /\ s # <<>> => Visible(R1, Front(s))
           /\ \A m : Seen(R1, Append(s, m), Len(s) + 1) => Visible(R1, Append(s, m))
<1>1. s \in Seq(ToSet(s)) /\ \A i \in DOMAIN s : s[i].from # 0 => s[i].from \in DOMAIN R
  BY DEF Holding
<1>2. Visible(R1, s)
  BY <1>1 DEF Visible, Seen
<1>3. Len(s) \in Nat /\ DOMAIN s = 1..Len(s)
  BY <1>1
<1>4. ASSUME NEW t, NEW k \in 0..Len(s), \A j \in 1..k : t[j] = s[j], NEW i \in 1..k
      PROVE  Seen(R1, t, i)
  <2>1. Seen(R1, s, i) /\ t[i] = s[i] /\ \A j \in 1..i : t[j] = s[j]
    BY <1>2, <1>3, <1>4 DEF Visible
  <2>2. QED BY <2>1 DEF Seen
<1>5. ASSUME s # <<>> PROVE Visible(R1, Front(s))
  <2> DEFINE k == Len(s) - 1
  <2>1. k \in 0..Len(s)
    BY <1>1, <1>3, <1>5
  <2>2. DOMAIN Front(s) = 1..k /\ \A i \in 1..k : Front(s)[i] = s[i]
    BY <1>1, <2>1 DEF Front
  <2> HIDE DEF k
  <2>3. \A i \in 1..k : Seen(R1, Front(s), i)
    BY <1>4, <2>1, <2>2
  <2>4. QED BY <2>2, <2>3 DEF Visible
<1>6. ASSUME NEW m, Seen(R1, Append(s, m), Len(s) + 1) PROVE Visible(R1, Append(s, m))
  <2> DEFINE t == Append(s, m)
             k == Len(s)
  <2>1. DOMAIN t = 1..(k + 1) /\ \A i \in 1..k : t[i] = s[i]
    <3>1. s \in Seq(ToSet(s) \cup {m}) /\ m \in ToSet(s) \cup {m}
      BY <1>1
    <3>2. QED BY <3>1
  <2>2. Seen(R1, t, k + 1) /\ k \in 0..Len(s)
    BY <1>3, <1>6
  <2> HIDE DEF t
  <2>3. \A i \in 1..k : Seen(R1, t, i)
    <3> HIDE DEF k
    <3>1. QED BY <1>4, <2>1, <2>2
  <2>4. \A i \in 1..(k + 1) : Seen(R1, t, i)
    BY <1>3, <2>2, <2>3
  <2>5. QED BY <2>1, <2>4 DEF Visible, t
<1>7. QED BY <1>2, <1>5, <1>6

\* An answer to a request that was recovered begins with the notice, whether
\* or not mirrored thinking stands before it.
LEMMA RecoveredShows ==
    ASSUME ConversationAssumption, NEW r, r.notice = RecoveryNoticeContent,
           NEW n, NEW m, Answered(r, n, m), NEW c
    PROVE  HasRecoveryNotice(Normalized(Delivered(c, m), TRUE))
<1> DEFINE d == Delivered(c, m)
<1>1. PICK a \in Answers : m.content = RecoveryNoticeContent \o a
  BY DEF Answered
<1>2. /\ IsMessage(d) /\ d.role = "assistant"
      /\ \/ d.content = RecoveryNoticeContent \o a
         \/ d.content = <<"think">> \o (RecoveryNoticeContent \o a)
  BY <1>1 DEF Delivered, Answered, IsMessage
<1>3. a \in Seq(ToSet(a))
  BY DEF ConversationAssumption, IsContent
<1> HIDE DEF d
<1> DEFINE shown == StripCursorThinkingBlocks(d.content)
<1>4. shown # <<>> /\ shown[1] = "notice"
  BY <1>2, <1>3, NoticeShows
<1>5. Normalized(d, TRUE).role = "assistant" /\ Normalized(d, TRUE).content = shown
  BY <1>2 DEF Normalized, IsMessage
<1>6. QED BY <1>4, <1>5 DEF HasRecoveryNotice, d

\* A request that went upstream shorter than it came, without a notice of its
\* own, had one in its history.
LEMMA ShortenedShows ==
    ASSUME NEW N, NEW s, Holding(N, s), NEW mode, NEW r, Shaped(mode, s, r),
           r.phase = "forwarded", r.notice = <<>>, NEW T, r.out \in Seq(T),
           NEW x \in ToSet(r.pre), x.role # "system",
           \A y \in ToSet(r.out) : CanonicalScopeMessage(y) # CanonicalScopeMessage(x)
    PROVE  \E j \in 1..Len(s) : HasRecoveryNotice(Normalized(s[j], TRUE))
<1> DEFINE pre == r.pre
           S == {m \in ToSet(pre) : Settled(m)}
<1>1. pre = NormalizedAll(s, KeepReasoning)
  BY DEF Shaped
<1>2. pre \in Seq(S) /\ Len(pre) = Len(s) /\ DOMAIN pre = DOMAIN s
      /\ \A i \in DOMAIN s : pre[i] = Normalized(s[i], KeepReasoning)
  <2> HIDE DEF pre
  <2>1. DOMAIN pre = DOMAIN s
    BY <1>1 DEF NormalizedAll
  <2>2. QED BY <1>1, <2>1, NormalizedHistory DEF S
<1>3. /\ r.src = LeftOf(mode, pre) /\ Len(r.out) = Len(r.src)
      /\ \A i \in DOMAIN r.out : SameBut(r.out[i], r.src[i])
  BY DEF Shaped, Recovered, RecoveryNoticeContent
<1>4. PICK i \in DOMAIN pre : pre[i] = x
  BY DEF ToSet
<1>5. r.src # pre
  <2> SUFFICES ASSUME r.src = pre PROVE FALSE
    OBVIOUS
  <2>1. i \in DOMAIN r.out
    <3> HIDE DEF pre
    <3>1. QED BY <1>2, <1>3, <1>4
  <2>2. SameBut(r.out[i], x) /\ IsMessage(x)
    <3>1. x \in S
      BY <1>2, <1>4
    <3>2. QED BY <1>3, <1>4, <2>1, <3>1 DEF Settled
  <2>3. CanonicalScopeMessage(r.out[i]) = CanonicalScopeMessage(x)
    BY <2>2, SameFields
  <2>4. QED BY <2>1, <2>3 DEF ToSet
<1> HIDE DEF pre
<1>6. r.src = ActiveMessagesFromRecoveryBoundary(pre)
  BY <1>3, <1>5 DEF LeftOf
<1>7. LastNoticeAt(pre) # 0
  BY <1>2, <1>5, <1>6, ActiveIs
<1>8. /\ LastNoticeAt(pre) \in 0..Len(pre) /\ HasRecoveryNotice(pre[LastNoticeAt(pre)])
  BY <1>2, <1>7, LastNoticePosition
<1> DEFINE b == LastNoticeAt(pre)
<1> HIDE DEF b
<1>9. b \in 1..Len(s) /\ b \in DOMAIN s /\ HasRecoveryNotice(pre[b])
  BY <1>2, <1>7, <1>8 DEF b
<1>10. IsMessage(s[b])
  BY <1>9 DEF Holding
<1>11. QED BY <1>2, <1>9, <1>10, NoticeAnyway

\* Every step keeps the notice of a shortened history in sight.
LEMMA VisibleSteps ==
    ASSUME ConversationAssumption, Owned, AllShaped, RecoveryVisible, [Next]_vars
    PROVE  RecoveryVisible'
<1>1. \A c \in Clients : /\ Holding(DOMAIN responses, conv[c])
                         /\ Shaped(strategy, conv[c], req[c])
                         /\ Visible(responses, conv[c])
  BY DEF AllShaped, RecoveryVisible, Visible, Seen
<1>2. ASSUME NEW c \in Clients, NEW messages, conv' = [conv EXCEPT ![c] = messages],
             \A n \in DOMAIN responses : responses'[n] = responses[n],
             Visible(responses', messages)
      PROVE  RecoveryVisible'
  <2>1. ASSUME NEW d \in Clients PROVE Visible(responses', conv'[d])
    <3>1. conv'[d] = IF d = c THEN messages ELSE conv[d]
      BY <1>2 DEF Owned
    <3>2. CASE d = c
      BY <1>2, <3>1, <3>2
    <3>3. CASE d # c
      BY <1>1, <1>2, <3>1, <3>3, VisibleGrows
    <3>4. QED BY <3>2, <3>3
  <2>2. QED BY <2>1 DEF RecoveryVisible, Visible, Seen
<1>3. ASSUME NEW c \in Clients, Ask(c) \/ AnswerCall(c) \/ Retry(c) \/ Regenerate(c)
      PROVE  RecoveryVisible'
  <2>1. PICK messages : Resent(conv[c], messages) /\ Send(c, messages)
    BY <1>3, SentIs
  <2>2. conv' = [conv EXCEPT ![c] = messages] /\ UNCHANGED responses
    BY <2>1 DEF Send
  <2>3. Visible(responses, messages)
    <3>1. ASSUME NEW m, Fresh(m), messages = Append(conv[c], m) PROVE Visible(responses, messages)
      <4> DEFINE t == conv[c]
                 S == ToSet(t) \cup {m}
      <4>1. t \in Seq(S) /\ m \in S
        BY <1>1 DEF Holding
      <4> HIDE DEF t, S
      <4>2. Append(t, m)[Len(t) + 1] = m
        BY <4>1
      <4>3. Seen(responses, messages, Len(conv[c]) + 1)
        BY <3>1, <4>2 DEF Seen, Fresh, t
      <4>4. QED BY <1>1, <3>1, <4>3, VisibleGrows
    <3>2. QED BY <1>1, <2>1, <3>1, VisibleGrows DEF Resent
  <2>4. QED BY <1>2, <2>2, <2>3
<1>4. ASSUME NEW c \in Clients, Respond(c) PROVE RecoveryVisible'
  <2> DEFINE n == Len(responses) + 1
  <2>1. PICK m, y : /\ Answered(req[c], n, m)
                    /\ y.shortened <=> \E x \in ToSet(req[c].pre) : x.role # "system" /\
                                          \A z \in ToSet(req[c].out) :
                                             CanonicalScopeMessage(z) # CanonicalScopeMessage(x)
                    /\ responses' = Append(responses, y)
                    /\ \/ conv' = [conv EXCEPT ![c] = Append(conv[c], Delivered(c, m))]
                       \/ conv' = conv
    BY <1>4, RespondIs
  <2>2. /\ \A k \in DOMAIN responses : responses'[k] = responses[k]
        /\ responses'[n] = y /\ n # 0
    BY <2>1 DEF Owned
  <2> DEFINE d == Delivered(c, m)
             t == Append(conv[c], d)
  <2>3. d.from = n
    BY <2>1 DEF Delivered, Answered, IsMessage
  <2>4. req[c].phase = "forwarded"
    BY <1>4 DEF Respond
  <2>5. PICK T : req[c].out \in Seq(T)
    BY RequestMessages
  <2> HIDE DEF n
  <2>6. conv[c] \in Seq(ToSet(conv[c]))
    BY <1>1 DEF Holding
  <2> HIDE DEF d
  <2>7. /\ t[Len(conv[c]) + 1] = d /\ \A j \in 1..Len(conv[c]) : t[j] = conv[c][j]
        /\ Len(conv[c]) \in Nat
    <3> DEFINE s == conv[c]
               S == ToSet(s) \cup {d}
    <3>1. s \in Seq(S) /\ d \in S
      BY <2>6
    <3> HIDE DEF s, S
    <3>2. t = Append(s, d)
      BY DEF s
    <3>3. QED BY <3>1, <3>2 DEF s
  <2> HIDE DEF t
  <2>8. ASSUME y.shortened
        PROVE  \E j \in 1..(Len(conv[c]) + 1) : HasRecoveryNotice(Normalized(t[j], TRUE))
    <3>1. CASE req[c].notice = RecoveryNoticeContent
      <4>1. HasRecoveryNotice(Normalized(d, TRUE))
        BY <2>1, <3>1, RecoveredShows DEF d
      <4>2. Len(conv[c]) + 1 \in 1..(Len(conv[c]) + 1)
        BY <2>7
      <4>3. QED BY <2>7, <4>1, <4>2
    <3>2. CASE req[c].notice = <<>>
      <4>1. \E j \in 1..Len(conv[c]) : HasRecoveryNotice(Normalized(conv[c][j], TRUE))
        <5>1. PICK x \in ToSet(req[c].pre) : x.role # "system" /\
                 \A z \in ToSet(req[c].out) : CanonicalScopeMessage(z) # CanonicalScopeMessage(x)
          BY <2>1, <2>8
        <5>2. Holding(DOMAIN responses, conv[c]) /\ Shaped(strategy, conv[c], req[c])
          BY <1>1
        <5>3. QED BY ZenonT(30), <2>4, <2>5, <3>2, <5>1, <5>2, ShortenedShows
      <4>2. PICK j \in 1..Len(conv[c]) : HasRecoveryNotice(Normalized(conv[c][j], TRUE))
        BY <4>1
      <4>3. j \in 1..(Len(conv[c]) + 1) /\ t[j] = conv[c][j]
        BY <2>7
      <4>4. QED BY <4>2, <4>3
    <3>3. QED BY <1>1, <2>4, <3>1, <3>2 DEF Shaped, Recovered
  <2>9. Visible(responses', conv[c]) /\ Visible(responses', t)
    <3>1. Seen(responses', t, Len(conv[c]) + 1)
      BY <2>2, <2>3, <2>7, <2>8 DEF Seen
    <3>2. QED BY <1>1, <2>2, <3>1, VisibleGrows DEF t
  <2>10. conv = [conv EXCEPT ![c] = conv[c]]
    BY DEF Owned
  <2>11. QED BY <1>2, <2>1, <2>2, <2>9, <2>10 DEF t, d
<1>5. ASSUME UNCHANGED <<conv, responses>> PROVE RecoveryVisible'
  BY <1>5 DEF RecoveryVisible
<1>6. QED BY <1>3, <1>4, <1>5 DEF Next, Handle, NormalizeMessage, Backfill, RecoverRequest, Forward, Reject,
        UpstreamFails, SwitchProfile, Evict, ClearCache, vars

\* Every client whose history was shortened can see it: for any history, any
\* mirrored thinking, and whatever is lost, sent again or regenerated.
THEOREM RecoveryVisibleHolds == Spec => []RecoveryVisible
<1>1. Init => RecoveryVisible
  <2> SUFFICES ASSUME Init, NEW c \in Clients, NEW i \in DOMAIN conv[c] PROVE conv[c][i].from = 0
    BY DEF RecoveryVisible
  <2>1. conv[c] \in Histories
    BY DEF Init
  <2>2. QED BY <2>1, ConversationAssumption DEF ConversationAssumption, ToSet
<1>2. Owned /\ AllShaped /\ RecoveryVisible /\ [Next]_vars => RecoveryVisible'
  BY VisibleSteps, ConversationAssumption
<1>3. QED BY <1>1, <1>2, OwnedHolds, AllShapedHolds, PTL DEF Spec

=============================================================================
