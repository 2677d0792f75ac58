---------------------------- MODULE RecordingProofs ----------------------------
(***************************************************************************)
(* Proofs that Conversation finds again what it recorded: where an answer  *)
(* is filed when it comes, and where it is looked up when it comes back.   *)
(***************************************************************************)
EXTENDS RecoveryProofs

\* What the proxy strips from a message that is sent back is not in an answer
\* of the upstream: no thinking block, no leading newline, no notice, and, where
\* a mirrored block is put in front of it, no other leading white space.
CleanAnswers == \A a \in Answers :
                   /\ CleanContent(a)
                   /\ a # <<>> => a[1] # "notice" /\ (DisplayReasoning => a[1] \notin White)

PortablePlace(ns, prior) == [namespace |-> ns, turn |-> TurnContextSignature(prior)]

\* Where the answer m that followed the messages prior can be found again.
Home(mode, prior, m, ns) ==
    IF HasRecoveryNotice(m) THEN PortablePlace(ns, <<prior[LastUserAt(prior)]>>)
    ELSE ConversationScope(LeftOf(mode, prior), ns)

\* It has a row there.
Filed(mode, R, D, prior, m) ==
    /\ HasRecoveryNotice(m) => mode = "recover" /\ LastUserAt(prior) # 0
    /\ SignatureKey(Home(mode, prior, m, R[m.from].ns), m) \in D

FiledAll(mode, R, D, pre) ==
    \A i \in DOMAIN pre : pre[i].from # 0 => Filed(mode, R, D, SubSeq(pre, 1, i - 1), pre[i])

\* While nothing is lost, every answer a client holds has one.
AllFiled ==
    evictions = 0 /\ ThinkingEnabled =>
      \A c \in Clients : FiledAll(strategy, responses, DOMAIN cache,
                                  NormalizedAll(conv[c], KeepReasoning))

\* A row under a signature and a whole conversation is of an answer with that
\* signature.  (One under a turn need not be: it may be backfilled.)
Signed(R, rows) ==
    \A k \in DOMAIN rows : "messages" \in DOMAIN k.place /\ k.alias[1] = "signature" =>
        k.alias = MessageSignature(R[rows[k]].message)

-----------------------------------------------------------------------------
(* The keys of a message. *)

\* The keys of a message with a scope and the messages before it.
LEMMA KeysAre ==
    ASSUME NEW m, m.calls \in Seq(ToSet(m.calls)), NEW scope, NEW ns, NEW prior,
           NEW keys, keys = MessageKeys(m, scope, ns, prior)
    PROVE  /\ 1 \in DOMAIN keys /\ DOMAIN keys \subseteq Nat \ {0}
           /\ keys[1] = SignatureKey(scope, m)
           /\ \A k \in ToSet(keys) : k.alias[1] = "signature" => k.alias = MessageSignature(m)
           /\ prior # <<>> => SignatureKey(PortablePlace(ns, prior), m) \in ToSet(keys)
<1> DEFINE first == ScopedReasoningKeys(m, scope)
           second == PortableReasoningKeys(m, ns, prior)
           Sign(k) == k.alias[1] = "signature" => k.alias = MessageSignature(m)
<1>1. /\ first \in Seq(ToSet(first)) /\ Len(first) >= 1 /\ first[1] = SignatureKey(scope, m)
      /\ \A k \in ToSet(first) : Sign(k)
  <2>1. first = KeysAt(scope, m)
    BY DEF ScopedReasoningKeys
  <2> HIDE DEF first
  <2>2. QED BY <2>1, KeysAtPlace DEF SignatureKey
<1>2. /\ second \in Seq(ToSet(second)) /\ Len(second) >= 1
      /\ second[1] = SignatureKey(PortablePlace(ns, prior), m)
      /\ \A k \in ToSet(second) : Sign(k)
  <2>1. second = KeysAt(PortablePlace(ns, prior), m)
    BY DEF PortableReasoningKeys, PortablePlace
  <2> HIDE DEF second
  <2>2. QED BY <2>1, KeysAtPlace DEF SignatureKey
<1> HIDE DEF first, second, Sign
<1>3. CASE prior = <<>>
  <2>1. keys = first \o <<>>
    BY <1>3 DEF MessageKeys, first
  <2>2. keys = first
    BY <1>1, <2>1
  <2>3. QED BY <1>1, <1>3, <2>2 DEF Sign
<1>4. CASE prior # <<>>
  <2> DEFINE S == ToSet(first) \cup ToSet(second)
  <2>1. first \in Seq(S) /\ second \in Seq(S) /\ \A k \in S : Sign(k)
    BY <1>1, <1>2
  <2>2. keys = first \o second
    BY <1>4 DEF MessageKeys, first, second
  <2> HIDE DEF S
  <2>3. /\ keys \in Seq(S) /\ Len(keys) = Len(first) + Len(second)
        /\ \A j \in 1..Len(first) : keys[j] = first[j]
        /\ \A j \in (Len(first) + 1)..(Len(first) + Len(second)) : keys[j] = second[j - Len(first)]
    BY <2>1, <2>2, JoinIs
  <2>4. 1 \in DOMAIN keys /\ DOMAIN keys \subseteq Nat \ {0} /\ keys[1] = first[1]
    BY <1>1, <1>2, <2>1, <2>3
  <2>5. \A k \in ToSet(keys) : Sign(k)
    BY <2>1, <2>3 DEF ToSet
  <2>6. second[1] \in ToSet(keys)
    <3> DEFINE j == Len(first) + 1
    <3>1. j \in DOMAIN keys /\ keys[j] = second[1]
      <4>1. Len(first) \in Nat /\ Len(second) \in Nat
        BY <1>1, <1>2
      <4>2. j \in (Len(first) + 1)..(Len(first) + Len(second)) /\ j - Len(first) = 1
        BY <1>2, <4>1
      <4>3. keys[j] = second[j - Len(first)]
        BY <2>3, <4>2
      <4>4. j \in 1..Len(keys)
        BY <2>3, <4>1, <4>2
      <4>5. QED BY <2>3, <4>2, <4>3, <4>4
    <3>2. QED BY <3>1 DEF ToSet
  <2>7. QED BY <1>1, <1>2, <2>4, <2>5, <2>6 DEF Sign
<1>5. QED BY <1>3, <1>4

-----------------------------------------------------------------------------
(* The rows. *)

\* A row under the scope and the signature is the first that is looked for.
LEMMA LookupFirst ==
    ASSUME NEW m, m.calls \in Seq(ToSet(m.calls)), NEW ns, NEW prior,
           NEW k, k = SignatureKey(ConversationScope(prior, ns), m), k \in DOMAIN cache
    PROVE  LookupForMessage(m, ns, prior) = cache[k]
<1> DEFINE keys == MessageKeys(m, ConversationScope(prior, ns), ns, prior)
           hits == {i \in DOMAIN keys : keys[i] \in DOMAIN cache}
<1>1. 1 \in DOMAIN keys /\ DOMAIN keys \subseteq Nat \ {0} /\ keys[1] = k
  BY KeysAre
<1> HIDE DEF keys
<1>2. 1 \in hits /\ hits \subseteq Nat \ {0}
  BY <1>1
<1>3. LookupForMessage(m, ns, prior) = cache[keys[Min(hits)]]
  BY <1>2 DEF LookupForMessage, keys
<1> HIDE DEF hits
<1>4. Min(hits) = 1
  <2>1. \A y \in hits : 1 <= y
    BY <1>2
  <2>2. \A x \in hits : (\A y \in hits : x <= y) => x = 1
    <3>1. \A x \in hits : x <= 1 => x = 1
      BY <1>2
    <3>2. QED BY <1>2, <3>1
  <2>3. QED BY <1>2, <2>1, <2>2 DEF Min
<1>5. QED BY <1>1, <1>3, <1>4

\* A lookup that has a row finds reasoning.
LEMMA LookupHits ==
    ASSUME ConversationAssumption, Owned, NEW m, m.calls \in Seq(ToSet(m.calls)),
           NEW ns, NEW prior,
           NEW k \in ToSet(MessageKeys(m, ConversationScope(prior, ns), ns, prior)),
           k \in DOMAIN cache
    PROVE  LookupForMessage(m, ns, prior) # NoReasoning
<1> DEFINE scope == ConversationScope(prior, ns)
           keys == MessageKeys(m, scope, ns, prior)
           hits == {i \in DOMAIN keys : keys[i] \in DOMAIN cache}
<1>1. DOMAIN keys \subseteq Nat
  <2> HIDE DEF scope
  <2>1. DOMAIN keys \subseteq Nat \ {0}
    BY KeysAre
  <2>2. QED BY <2>1
<1>2. k \in ToSet(keys)
  OBVIOUS
<1> HIDE DEF keys
<1>3. hits # {} /\ hits \subseteq Nat
  BY <1>1, <1>2 DEF ToSet
<1>4. LookupForMessage(m, ns, prior) = cache[keys[Min(hits)]]
  BY <1>3 DEF LookupForMessage, keys, scope
<1>5. Min(hits) \in hits
  <2> HIDE DEF hits
  <2>1. QED BY <1>3, MinIn
<1>6. keys[Min(hits)] \in DOMAIN cache
  BY <1>5
<1>7. cache[keys[Min(hits)]] \in Nat
  BY <1>6 DEF Owned, RowsOwned
<1>8. QED BY <1>4, <1>7 DEF ConversationAssumption

\* What recording the answer m adds to the rows c0.
Stores(c0, c1, m, scope, ns, prior) ==
    /\ DOMAIN c0 \subseteq DOMAIN c1
    /\ m.reasoning # NoReasoning =>
          /\ SignatureKey(scope, m) \in DOMAIN c1
          /\ prior # <<>> => SignatureKey(PortablePlace(ns, prior), m) \in DOMAIN c1
    /\ \A R : Signed(R, c0) /\ (m.reasoning # NoReasoning => R[m.reasoning].message = m)
                 => Signed(R, c1)

\* StoreAssistantMessage writes the row of the signature under the scope, and
\* no signature row but those of the message.
LEMMA StoredRows ==
    ASSUME NEW c0, NEW m, m.calls \in Seq(ToSet(m.calls)), NEW scope, NEW ns, NEW prior,
           NEW c1, c1 = StoreAssistantMessage(c0, m, scope, ns, prior)
    PROVE  Stores(c0, c1, m, scope, ns, prior)
<1> DEFINE keys == MessageKeys(m, scope, ns, prior)
           K == IF m.reasoning = NoReasoning THEN {} ELSE {k \in ToSet(keys) : IsKey(k)}
<1>1. /\ 1 \in DOMAIN keys /\ keys[1] = SignatureKey(scope, m)
      /\ \A k \in ToSet(keys) : k.alias[1] = "signature" => k.alias = MessageSignature(m)
      /\ prior # <<>> => SignatureKey(PortablePlace(ns, prior), m) \in ToSet(keys)
  BY KeysAre
<1>2. c1 = [k \in DOMAIN c0 \cup K |-> IF k \in K THEN m.reasoning ELSE c0[k]]
  BY DEF StoreAssistantMessage
<1> HIDE DEF keys
<1>3. \A place : IsKey(SignatureKey(place, m))
  <2>1. MessageSignature(m)[1] = "signature"
    BY DEF MessageSignature
  <2>2. /\ <<"tool_call", NoId>>[1] = "tool_call"
        /\ <<"tool_name", "">>[1] = "tool_name"
    OBVIOUS
  <2>3. \A place : SignatureKey(place, m).alias = MessageSignature(m)
    BY DEF SignatureKey
  <2>4. MessageSignature(m) \notin {<<"tool_call", NoId>>, <<"tool_name", "">>}
    BY <2>1, <2>2
  <2>5. QED BY <2>3, <2>4 DEF IsKey
<1>4. ASSUME m.reasoning # NoReasoning
      PROVE  /\ SignatureKey(scope, m) \in K
             /\ prior # <<>> => SignatureKey(PortablePlace(ns, prior), m) \in K
  <2>1. SignatureKey(scope, m) \in ToSet(keys)
    BY <1>1 DEF ToSet
  <2>2. QED BY <1>1, <1>3, <1>4, <2>1
<1>5. /\ \A k \in K : k.alias[1] = "signature" => k.alias = MessageSignature(m)
      /\ K # {} => m.reasoning # NoReasoning
  BY <1>1
<1> HIDE DEF K
<1>6. ASSUME NEW R, Signed(R, c0), m.reasoning # NoReasoning => R[m.reasoning].message = m
      PROVE  Signed(R, c1)
  <2> SUFFICES ASSUME NEW k \in DOMAIN c1, "messages" \in DOMAIN k.place,
                      k.alias[1] = "signature"
               PROVE  k.alias = MessageSignature(R[c1[k]].message)
    BY DEF Signed
  <2>1. CASE k \in K
    <3>1. c1[k] = m.reasoning /\ R[m.reasoning].message = m
      BY <1>2, <1>5, <1>6, <2>1
    <3>2. QED BY <1>5, <2>1, <3>1
  <2>2. CASE k \notin K
    <3>1. k \in DOMAIN c0 /\ c1[k] = c0[k]
      BY <1>2, <2>2
    <3>2. QED BY <1>6, <3>1 DEF Signed
  <2>3. QED BY <2>1, <2>2
<1>7. QED BY <1>2, <1>4, <1>6 DEF Stores

\* What a backfill adds.
LEMMA BackfilledRows ==
    ASSUME NEW c0, NEW m, m.calls \in Seq(ToSet(m.calls)), NEW r, NEW ns, NEW prior,
           NEW c1, c1 = BackfillPortableAliases(c0, m, r, ns, prior)
    PROVE  /\ DOMAIN c0 \subseteq DOMAIN c1
           /\ \A R : Signed(R, c0) => Signed(R, c1)
<1> DEFINE keys == PortableReasoningKeys(m, ns, prior)
           K == {k \in ToSet(keys) : IsKey(k)}
<1>1. c1 = [k \in DOMAIN c0 \cup K |-> IF k \in K THEN r ELSE c0[k]]
  BY DEF BackfillPortableAliases
<1>2. \A k \in ToSet(keys) : k.place = PortablePlace(ns, prior)
  <2>1. keys = KeysAt(PortablePlace(ns, prior), m)
    BY DEF PortableReasoningKeys, PortablePlace
  <2> HIDE DEF keys
  <2>2. QED BY <2>1, KeysAtPlace
<1>3. \A k \in K : "messages" \notin DOMAIN k.place
  <2> HIDE DEF keys
  <2>1. "messages" \notin DOMAIN PortablePlace(ns, prior)
    BY DEF PortablePlace
  <2>2. QED BY <1>2, <2>1
<1> HIDE DEF K
<1>4. QED BY <1>1, <1>3 DEF Signed

-----------------------------------------------------------------------------
(* Where an answer is looked up. *)

\* An answer among the messages of a request is one the client has sent, and
\* what stands before it is what was left when it came.
LEMMA AnswerPlace ==
    ASSUME NEW N, NEW s, Holding(N, s), NEW mode, NEW r, r.phase # "idle", Shaped(mode, s, r),
           NEW i \in DOMAIN r.src, r.src[i].role = "assistant"
    PROVE  /\ r.notice = <<>> /\ r.src = LeftOf(mode, r.pre)
           /\ \E S : r.pre \in Seq(S) /\ r.src \in Seq(S \cup {RecoverySystem})
           /\ \E j \in DOMAIN r.pre :
                 /\ r.src[i] = r.pre[j]
                 /\ SubSeq(r.src, 1, i - 1) =
                      IF mode = "recover" /\ ThinkingEnabled /\ HasRecoveryNotice(r.pre[j])
                      THEN RetiredFront(SubSeq(r.pre, 1, j - 1))
                      ELSE LeftOf(mode, SubSeq(r.pre, 1, j - 1))
<1> DEFINE pre == r.pre
           S == {m \in ToSet(pre) : Settled(m)}
<1>1. pre = NormalizedAll(s, KeepReasoning)
  BY DEF Shaped
<1>2. pre \in Seq(S)
  <2> HIDE DEF pre
  <2>1. QED BY <1>1, NormalizedHistory DEF S
<1>3. r.notice = <<>> /\ r.src = LeftOf(mode, pre)
  <2>1. ~Recovered(mode, r)
    BY RecoveredRoles
  <2>2. QED BY <2>1 DEF Shaped
<1> HIDE DEF pre, S
<1>4. r.src \in Seq(S \cup {RecoverySystem})
  <2>1. pre \in Seq(S \cup {RecoverySystem}) /\ RecoverySystem \in S \cup {RecoverySystem}
    BY <1>2
  <2> DEFINE Q == S \cup {RecoverySystem}
  <2> HIDE DEF Q
  <2>2. ActiveMessagesFromRecoveryBoundary(pre) \in Seq(Q)
    BY <2>1, ActiveElements DEF Q
  <2>3. QED BY <1>3, <2>1, <2>2 DEF LeftOf, Q
<1>5. CASE mode = "recover" /\ ThinkingEnabled
  <2>1. r.src = ActiveMessagesFromRecoveryBoundary(pre)
    BY <1>3, <1>5 DEF LeftOf
  <2>2. \E j \in DOMAIN pre :
           /\ ActiveMessagesFromRecoveryBoundary(pre)[i] = pre[j]
           /\ SubSeq(ActiveMessagesFromRecoveryBoundary(pre), 1, i - 1) =
                IF HasRecoveryNotice(pre[j]) THEN RetiredFront(SubSeq(pre, 1, j - 1))
                ELSE ActiveMessagesFromRecoveryBoundary(SubSeq(pre, 1, j - 1))
    BY <1>2, <2>1, PlaceOfAnswer
  <2>3. QED BY <1>2, <1>3, <1>4, <1>5, <2>1, <2>2 DEF LeftOf, pre
<1>6. CASE ~(mode = "recover" /\ ThinkingEnabled)
  BY <1>2, <1>3, <1>4, <1>6 DEF LeftOf, pre
<1>7. QED BY <1>5, <1>6

\* The scope of a request that differs in reasoning only.
LEMMA SameScope ==
    ASSUME NEW S, NEW t \in Seq(S), \A i \in DOMAIN t : IsMessage(t[i]),
           NEW T, NEW out \in Seq(T), Len(out) = Len(t),
           \A i \in DOMAIN out : SameBut(out[i], t[i]), NEW ns
    PROVE  /\ ConversationScope(out, ns) = ConversationScope(t, ns)
           /\ (\A i \in DOMAIN t : t[i].role # "assistant") => out = t
<1>1. DOMAIN out = DOMAIN t /\ DOMAIN t = 1..Len(t)
  OBVIOUS
<1>2. \A i \in DOMAIN t : /\ CanonicalScopeMessage(out[i]) = CanonicalScopeMessage(t[i])
                          /\ t[i].role # "assistant" => out[i] = t[i]
  BY <1>1, SameFields
<1>3. [i \in DOMAIN out |-> CanonicalScopeMessage(out[i])]
        = [i \in DOMAIN t |-> CanonicalScopeMessage(t[i])]
  BY <1>1, <1>2
<1>4. ASSUME \A i \in DOMAIN t : t[i].role # "assistant" PROVE out = t
  <2>1. out \in [1..Len(t) -> S \cup T] /\ t \in [1..Len(t) -> S \cup T]
    OBVIOUS
  <2>2. \A i \in 1..Len(t) : out[i] = t[i]
    BY <1>1, <1>2, <1>4
  <2>3. QED BY <2>1, <2>2
<1>5. QED BY <1>3, <1>4 DEF ConversationScope

\* The turn that a request without answers ends in: its user message.
LEMMA TurnOfFront ==
    ASSUME NEW S, NEW prior \in Seq(S), LastUserAt(prior) # 0
    PROVE  /\ RetiredFront(prior) # <<>>
           /\ TurnContextSignature(RetiredFront(prior))
                = TurnContextSignature(<<prior[LastUserAt(prior)]>>)
<1> DEFINE u == prior[LastUserAt(prior)]
<1>1. PICK n \in 0..Len(prior) :
         /\ RetiredFront(prior) = SubSeq(prior, 1, n) \o <<RecoverySystem>> \o ContextOf(prior)
         /\ \A i \in 1..n : prior[i].role = "system"
  BY FrontParts
<1>2. IsUser(u) /\ ContextOf(prior) = <<u>>
  BY LastUserPosition DEF ContextOf
<1> DEFINE front == SubSeq(prior, 1, n) \o <<RecoverySystem>>
           Q == S \cup {RecoverySystem}
<1>3. SubSeq(prior, 1, n) \in Seq(Q) /\ RecoverySystem \in Q
  OBVIOUS
<1> HIDE DEF u, Q
<1>4. front \in Seq(Q) /\ front # <<>> /\ front[Len(front)] = RecoverySystem
  BY <1>3
<1>5. ~IsUser(RecoverySystem)
  BY DEF IsUser, RecoverySystem
<1>6. RetiredFront(prior) = front \o <<u>>
  BY <1>1, <1>2
<1> HIDE DEF front
<1>7. TurnContextSignature(front \o <<u>>) = TurnContextSignature(<<u>>)
  BY <1>2, <1>4, <1>5, TurnOfTail
<1>8. RetiredFront(prior) # <<>>
  BY FrontShape
<1>9. QED BY <1>6, <1>7, <1>8 DEF u

\* The answer that comes next, if it has a row, is found; and if it carries no
\* notice it is found under the scope and its signature.
LEMMA NextIsFound ==
    ASSUME ConversationAssumption, Owned, NEW N, NEW s, Holding(N, s),
           NEW mode, NEW r, r.phase # "idle", Shaped(mode, s, r), ThinkingEnabled,
           NEW T, r.out \in Seq(T), NEW i, i = Len(r.out) + 1, i \in DOMAIN r.src,
           NEW x, x = r.src[i], x.role = "assistant", x.from # 0,
           FiledAll(mode, responses, DOMAIN cache, r.pre),
           NEW ns, ns = responses[x.from].ns
    PROVE  /\ LookupForMessage(x, ns, r.out) # NoReasoning
           /\ ~HasRecoveryNotice(x) =>
                \E k \in DOMAIN cache : /\ k = SignatureKey(ConversationScope(r.out, ns), x)
                                        /\ LookupForMessage(x, ns, r.out) = cache[k]
<1> DEFINE out == r.out
           t == SubSeq(r.src, 1, i - 1)
<1>1. PICK S : r.pre \in Seq(S) /\ r.src \in Seq(S \cup {RecoverySystem})
  BY AnswerPlace
<1>2. PICK j \in DOMAIN r.pre :
         /\ x = r.pre[j]
         /\ t = IF mode = "recover" /\ ThinkingEnabled /\ HasRecoveryNotice(r.pre[j])
                THEN RetiredFront(SubSeq(r.pre, 1, j - 1))
                ELSE LeftOf(mode, SubSeq(r.pre, 1, j - 1))
  BY AnswerPlace
<1> DEFINE prior == SubSeq(r.pre, 1, j - 1)
           R == S \cup {RecoverySystem}
<1>3. Filed(mode, responses, DOMAIN cache, prior, x)
  BY <1>2 DEF FiledAll
<1>4. /\ \A n \in DOMAIN r.src : Settled(r.src[n])
      /\ \A n \in DOMAIN r.out : SameBut(r.out[n], r.src[n])
  BY DEF Shaped
<1>5. x.calls \in Seq(ToSet(x.calls))
  BY <1>4 DEF Settled, IsMessage
<1>6. prior \in Seq(S)
  BY <1>1, <1>2
<1> HIDE DEF R
<1>7. /\ t \in Seq(R) /\ Len(out) = Len(t)
      /\ \A n \in DOMAIN t : t[n] = r.src[n] /\ n \in DOMAIN r.src /\ n \in DOMAIN out
  <2>1. r.src \in Seq(R) /\ Len(out) \in Nat
    BY <1>1 DEF R
  <2>2. 1 \in 1..(Len(r.src) + 1) /\ i - 1 \in (1 - 1)..Len(r.src) /\ i - 1 = Len(out)
    BY <2>1
  <2>3. /\ t \in Seq(R) /\ Len(t) = i - 1 - 1 + 1
        /\ \A n \in 1..(i - 1 - 1 + 1) : t[n] = r.src[n + 1 - 1]
    BY <2>1, <2>2, PartIs
  <2> HIDE DEF t
  <2>4. QED BY <2>1, <2>2, <2>3
<1>8. (\A n \in DOMAIN t : IsMessage(t[n])) /\ (\A n \in DOMAIN out : SameBut(out[n], t[n]))
  <2>1. DOMAIN out = DOMAIN t
    BY <1>7
  <2>2. QED BY <1>4, <1>7, <2>1 DEF Settled
<1> HIDE DEF t, prior, out
<1>9. CASE ~HasRecoveryNotice(x)
  <2> DEFINE scope == ConversationScope(out, ns)
             k == SignatureKey(scope, x)
  <2>1. t = LeftOf(mode, prior) /\ scope = ConversationScope(t, ns)
    <3>1. t = LeftOf(mode, prior)
      BY <1>2, <1>9 DEF prior
    <3>2. out \in Seq(T)
      BY DEF out
    <3>3. ConversationScope(out, ns) = ConversationScope(t, ns)
      <4> HIDE DEF scope, k
      <4>1. QED BY <1>7, <1>8, <3>2, SameScope
    <3>4. QED BY <3>1, <3>3
  <2>2. k \in DOMAIN cache
    BY <1>3, <1>9, <2>1 DEF Filed, Home
  <2>3. LookupForMessage(x, ns, out) = cache[k]
    BY <1>5, <2>2, LookupFirst
  <2>4. k \in ToSet(MessageKeys(x, scope, ns, out))
    <3> DEFINE keys == MessageKeys(x, scope, ns, out)
    <3> HIDE DEF scope
    <3>1. 1 \in DOMAIN keys /\ keys[1] = k
      BY <1>5, KeysAre
    <3> HIDE DEF keys, k
    <3>2. k \in ToSet(keys)
      BY <3>1 DEF ToSet
    <3>3. QED BY <3>2 DEF keys
  <2> HIDE DEF k
  <2>5. LookupForMessage(x, ns, out) # NoReasoning
    BY <1>5, <2>2, <2>4, LookupHits
  <2>6. QED BY <2>2, <2>3, <2>5 DEF out, k
<1>10. CASE HasRecoveryNotice(x)
  <2>1. mode = "recover" /\ LastUserAt(prior) # 0
    BY <1>3, <1>10 DEF Filed
  <2>2. t = RetiredFront(prior)
    BY <1>2, <1>10, <2>1 DEF prior
  <2>3. \A n \in DOMAIN t : t[n].role # "assistant"
    BY <1>6, <2>2, FrontShape
  <2>4. out = t
    <3>1. /\ out \in Seq(T) /\ t \in Seq(R) /\ Len(out) = Len(t)
          /\ \A n \in DOMAIN t : IsMessage(t[n])
          /\ \A n \in DOMAIN out : SameBut(out[n], t[n])
      BY <1>7, <1>8 DEF out
    <3>2. (\A n \in DOMAIN t : t[n].role # "assistant") => out = t
      BY ONLY <3>1, SameScope
    <3>3. QED BY <2>3, <3>2
  <2>5. /\ out # <<>>
        /\ PortablePlace(ns, out) = PortablePlace(ns, <<prior[LastUserAt(prior)]>>)
    BY <1>6, <2>1, <2>2, <2>4, TurnOfFront DEF PortablePlace
  <2> DEFINE k == SignatureKey(PortablePlace(ns, out), x)
  <2>6. k \in DOMAIN cache
    BY <1>3, <1>10, <2>5 DEF Filed, Home
  <2>7. k \in ToSet(MessageKeys(x, ConversationScope(out, ns), ns, out))
    BY SMTT(30), <1>5, <2>5, KeysAre
  <2> HIDE DEF k
  <2>8. LookupForMessage(x, ns, out) # NoReasoning
    BY <1>5, <2>6, <2>7, LookupHits
  <2>9. QED BY <1>10, <2>8 DEF out
<1>11. QED BY <1>9, <1>10

-----------------------------------------------------------------------------
(* What clients hold stays filed. *)

\* Sequences with the same elements are the same.
LEMMA SameElements ==
    ASSUME NEW S, NEW s \in Seq(S), NEW T, NEW t \in Seq(T), Len(s) = Len(t),
           \A i \in 1..Len(s) : s[i] = t[i]
    PROVE  s = t
<1>1. s \in [1..Len(s) -> S \cup T] /\ t \in [1..Len(s) -> S \cup T]
  OBVIOUS
<1>2. QED BY <1>1

\* What is filed for the first messages of a history is filed for any other
\* that begins with them.
LEMMA FiledPart ==
    ASSUME NEW mode, NEW R, NEW D, NEW S, NEW s \in Seq(S), NEW T, NEW t \in Seq(T),
           NEW k \in 0..Len(s), k <= Len(t), \A j \in 1..k : t[j] = s[j],
           \A i \in 1..k : s[i].from # 0 => Filed(mode, R, D, SubSeq(s, 1, i - 1), s[i])
    PROVE  \A i \in 1..k : t[i].from # 0 => Filed(mode, R, D, SubSeq(t, 1, i - 1), t[i])
<1> SUFFICES ASSUME NEW i \in 1..k, t[i].from # 0
             PROVE  Filed(mode, R, D, SubSeq(t, 1, i - 1), t[i])
  OBVIOUS
<1> DEFINE a == SubSeq(s, 1, i - 1)
           b == SubSeq(t, 1, i - 1)
<1>1. Len(s) \in Nat /\ Len(t) \in Nat
  OBVIOUS
<1>2. /\ 1 \in 1..(Len(s) + 1) /\ i - 1 \in (1 - 1)..Len(s)
      /\ 1 \in 1..(Len(t) + 1) /\ i - 1 \in (1 - 1)..Len(t)
  BY <1>1
<1>3. a \in Seq(S) /\ Len(a) = i - 1 - 1 + 1 /\ \A j \in 1..(i - 1 - 1 + 1) : a[j] = s[j + 1 - 1]
  BY <1>2, PartIs
<1>4. b \in Seq(T) /\ Len(b) = i - 1 - 1 + 1 /\ \A j \in 1..(i - 1 - 1 + 1) : b[j] = t[j + 1 - 1]
  BY <1>2, PartIs
<1> HIDE DEF a, b
<1>5. Len(a) = Len(b) /\ \A j \in 1..Len(a) : a[j] = b[j]
  BY <1>3, <1>4
<1>6. a = b
  BY <1>3, <1>4, <1>5, SameElements
<1>7. QED BY <1>6 DEF a, b

\* More responses and more rows, one message less or one filed message more.
LEMMA FiledGrows ==
    ASSUME NEW mode, NEW R, NEW D, NEW s, Holding(DOMAIN R, s),
           FiledAll(mode, R, D, NormalizedAll(s, KeepReasoning)),
           NEW R1, \A n \in DOMAIN R : R1[n] = R[n], NEW D1, D \subseteq D1
    PROVE  /\ FiledAll(mode, R1, D1, NormalizedAll(s, KeepReasoning))
           /\ s # <<>> => FiledAll(mode, R1, D1, NormalizedAll(Front(s), KeepReasoning))
           /\ \A m : (m.from # 0 => Filed(mode, R1, D1, NormalizedAll(s, KeepReasoning),
                                         Normalized(m, KeepReasoning)))
                     /\ IsMessage(m) /\ IsContent(m.content)
                       => FiledAll(mode, R1, D1, NormalizedAll(Append(s, m), KeepReasoning))
<1> DEFINE pre == NormalizedAll(s, KeepReasoning)
           S == {m \in ToSet(pre) : Settled(m)}
<1>1. /\ pre \in Seq(S) /\ Len(pre) = Len(s)
      /\ \A i \in DOMAIN s : pre[i] = Normalized(s[i], KeepReasoning) /\ pre[i].from = s[i].from
  <2> HIDE DEF pre
  <2>1. QED BY NormalizedHistory DEF pre, S
<1>2. s \in Seq(ToSet(s)) /\ \A i \in DOMAIN s : s[i].from # 0 => s[i].from \in DOMAIN R
  BY DEF Holding
<1> HIDE DEF pre, S
<1>3. Len(s) \in Nat /\ DOMAIN s = 1..Len(s) /\ DOMAIN pre = 1..Len(s)
  BY <1>1, <1>2
<1>4. \A i \in 1..Len(s) : pre[i].from # 0 =>
         Filed(mode, R1, D1, SubSeq(pre, 1, i - 1), pre[i])
  <2> SUFFICES ASSUME NEW i \in 1..Len(s), pre[i].from # 0
               PROVE  Filed(mode, R1, D1, SubSeq(pre, 1, i - 1), pre[i])
    OBVIOUS
  <2>1. pre[i].from \in DOMAIN R
    BY <1>1, <1>2, <1>3
  <2>2. Filed(mode, R, D, SubSeq(pre, 1, i - 1), pre[i])
    BY <1>3 DEF FiledAll, pre
  <2>3. R1[pre[i].from].ns = R[pre[i].from].ns
    BY <2>1
  <2> DEFINE prior == SubSeq(pre, 1, i - 1)
             x == pre[i]
  <2> HIDE DEF prior, x
  <2>4. QED BY <2>2, <2>3 DEF Filed, prior, x
<1>5. FiledAll(mode, R1, D1, pre)
  BY <1>3, <1>4 DEF FiledAll
<1>6. ASSUME s # <<>> PROVE FiledAll(mode, R1, D1, NormalizedAll(Front(s), KeepReasoning))
  <2> DEFINE t == NormalizedAll(Front(s), KeepReasoning)
             k == Len(s) - 1
  <2>1. k \in 0..Len(s) /\ k \in Nat
    BY <1>2, <1>3, <1>6
  <2>2. DOMAIN Front(s) = 1..k /\ \A i \in 1..k : Front(s)[i] = s[i]
    BY <1>2, <2>1 DEF Front
  <2>3. t = [i \in 1..k |-> Normalized(Front(s)[i], KeepReasoning)]
    BY <2>2 DEF NormalizedAll
  <2> HIDE DEF t, k
  <2>4. \A i \in 1..k : t[i] = pre[i]
    BY <1>1, <1>3, <2>1, <2>2, <2>3
  <2>5. t \in Seq(ToSet(t)) /\ Len(t) = k /\ DOMAIN t = 1..k
    <3>1. \A i \in 1..k : t[i] \in ToSet(t)
      BY <2>3 DEF ToSet
    <3>2. t = [i \in 1..k |-> t[i]]
      BY <2>3
    <3>3. QED BY <2>1, <3>1, <3>2
  <2>6. \A i \in 1..k : t[i].from # 0 => Filed(mode, R1, D1, SubSeq(t, 1, i - 1), t[i])
    <3>1. k \in 0..Len(pre) /\ k <= Len(t)
      BY <1>1, <2>1, <2>5
    <3>2. \A i \in 1..k : pre[i].from # 0 => Filed(mode, R1, D1, SubSeq(pre, 1, i - 1), pre[i])
      BY <1>3, <1>4, <2>1
    <3>3. QED BY <1>1, <2>4, <2>5, <3>1, <3>2, FiledPart
  <2>7. QED BY <2>5, <2>6 DEF FiledAll, t
<1>7. ASSUME NEW m, IsMessage(m), IsContent(m.content),
             m.from # 0 => Filed(mode, R1, D1, pre, Normalized(m, KeepReasoning))
      PROVE  FiledAll(mode, R1, D1, NormalizedAll(Append(s, m), KeepReasoning))
  <2> DEFINE t == NormalizedAll(Append(s, m), KeepReasoning)
             k == Len(s)
             x == Normalized(m, KeepReasoning)
  <2>1. DOMAIN Append(s, m) = 1..(k + 1) /\ Append(s, m)[k + 1] = m
        /\ \A i \in 1..k : Append(s, m)[i] = s[i]
    <3>1. s \in Seq(ToSet(s) \cup {m}) /\ m \in ToSet(s) \cup {m}
      BY <1>2
    <3> DEFINE Q == ToSet(s) \cup {m}
    <3> HIDE DEF Q
    <3>2. s \in Seq(Q) /\ m \in Q
      BY <3>1 DEF Q
    <3>3. QED BY <3>2
  <2>2. t = [i \in 1..(k + 1) |-> Normalized(Append(s, m)[i], KeepReasoning)]
    BY <2>1 DEF NormalizedAll
  <2>3. x.from = m.from
    BY <1>7, NormalizedTwice
  <2> HIDE DEF t, x
  <2>4. k + 1 \in 1..(k + 1) /\ t[k + 1] = x
    BY <1>3, <2>1, <2>2 DEF x
  <2>5. \A i \in 1..k : t[i] = pre[i]
    <3>1. \A i \in 1..k : i \in 1..(k + 1) /\ pre[i] = Normalized(s[i], KeepReasoning)
      BY <1>1, <1>3
    <3>2. QED BY <2>1, <2>2, <3>1
  <2>6. t \in Seq(ToSet(t)) /\ Len(t) = k + 1 /\ DOMAIN t = 1..(k + 1)
    <3>1. \A i \in 1..(k + 1) : t[i] \in ToSet(t)
      BY <2>2 DEF ToSet
    <3>2. t = [i \in 1..(k + 1) |-> t[i]]
      BY <2>2
    <3>3. QED BY <1>3, <3>1, <3>2
  <2>7. \A i \in 1..k : t[i].from # 0 => Filed(mode, R1, D1, SubSeq(t, 1, i - 1), t[i])
    <3>1. k \in 0..Len(pre) /\ k <= Len(t)
      BY <1>1, <1>3, <2>6
    <3>2. QED BY <1>1, <1>4, <2>5, <2>6, <3>1, FiledPart
  <2>8. SubSeq(t, 1, k + 1 - 1) = pre
    <3> DEFINE p == SubSeq(t, 1, k)
    <3>1. 1 \in 1..(Len(t) + 1) /\ k \in (1 - 1)..Len(t)
      BY <1>3, <2>6
    <3>2. p \in Seq(ToSet(t)) /\ Len(p) = k - 1 + 1 /\ \A j \in 1..(k - 1 + 1) : p[j] = t[j + 1 - 1]
      BY <2>6, <3>1, PartIs
    <3> HIDE DEF p
    <3>3. Len(p) = Len(pre) /\ \A j \in 1..Len(p) : p[j] = pre[j]
      BY <1>1, <1>3, <2>5, <3>2
    <3>4. p = pre
      BY <1>1, <3>2, <3>3, SameElements
    <3>5. k + 1 - 1 = k
      BY <1>3
    <3>6. QED BY <3>4, <3>5 DEF p
  <2>9. t[k + 1].from # 0 => Filed(mode, R1, D1, SubSeq(t, 1, k + 1 - 1), t[k + 1])
    BY <1>7, <2>3, <2>4, <2>8 DEF x
  <2>10. \A i \in 1..(k + 1) : i \in 1..k \/ i = k + 1
    BY <1>3
  <2>11. QED BY <2>6, <2>7, <2>9, <2>10 DEF FiledAll, t
<1>8. QED BY <1>5, <1>6, <1>7 DEF pre

-----------------------------------------------------------------------------
(* An answer is filed when it comes. *)

\* What the proxy makes of an answer that comes back is what it recorded.
LEMMA DeliveredAs ==
    ASSUME ConversationAssumption, CleanAnswers,
           NEW r, r.notice \in {<<>>, RecoveryNoticeContent}, NEW n, NEW m, Answered(r, n, m),
           NEW c, NEW x, x = Normalized(Delivered(c, m), KeepReasoning)
    PROVE  /\ IsMessage(Delivered(c, m)) /\ IsContent(Delivered(c, m).content)
           /\ x.from = n /\ MessageSignature(x) = MessageSignature(m)
           /\ HasRecoveryNotice(x) <=> r.notice = RecoveryNoticeContent
<1> DEFINE d == Delivered(c, m)
<1>1. PICK a \in Answers : m.content = r.notice \o a
  BY DEF Answered
<1>2. /\ IsMessage(m) /\ m.role = "assistant" /\ m.from = n
      /\ IsMessage(d) /\ d.role = "assistant" /\ d.calls = m.calls /\ d.from = n
      /\ d.content \in {m.content, <<"think">> \o m.content}
      /\ ~DisplayReasoning => d.content = m.content
  BY DEF Delivered, Answered, IsMessage
<1> DEFINE S == ToSet(a) \cup {"notice", "nl", "think"}
<1>3. a \in Seq(S) /\ "think" \in S /\ "notice" \in S /\ "nl" \in S
  <2>1. a \in Seq(ToSet(a))
    BY DEF ConversationAssumption, IsContent
  <2>2. QED BY <2>1
<1>4. /\ \A i \in DOMAIN a : a[i] # "think"
      /\ a # <<>> => a[1] # "nl" /\ a[1] # "notice" /\ (DisplayReasoning => a[1] \notin White)
  BY DEF CleanAnswers, CleanContent
<1> HIDE DEF S, d
<1>5. CASE r.notice = <<>>
  <2>1. m.content = a
    BY <1>1, <1>3, <1>5
  <2>2. m.content \in Seq(S) /\ CleanContent(m.content)
    BY <1>3, <1>4, <2>1 DEF CleanContent
  <2>3. d.content \in Seq(S)
    <3>1. <<"think">> \o m.content \in Seq(S)
      BY <1>3, <2>2
    <3>2. QED BY <1>2, <2>2, <3>1
  <2>4. StripCursorThinkingBlocks(d.content) = m.content
    BY <1>2, <1>4, <2>1, <2>2, StripKeepsClean
  <2>5. IsContent(d.content)
    BY <2>3, SequenceOver DEF IsContent
  <2>6. /\ x.role = "assistant" /\ x.content = m.content /\ x.calls = m.calls /\ x.from = n
    BY <1>2, <2>4 DEF Normalized, IsMessage, d
  <2>7. ~HasRecoveryNotice(x) /\ <<>> # RecoveryNoticeContent
    BY <1>4, <2>1, <2>6 DEF HasRecoveryNotice, RecoveryNoticeContent
  <2>8. MessageSignature(x) = MessageSignature(m)
    BY <2>6 DEF MessageSignature
  <2>9. QED BY <1>2, <1>5, <2>5, <2>6, <2>7, <2>8 DEF d
<1>6. CASE r.notice = RecoveryNoticeContent
  <2> DEFINE b == <<"notice", "nl">> \o a
  <2>1. m.content = b
    BY <1>1, <1>6 DEF RecoveryNoticeContent
  <2>2. /\ b \in Seq(S) /\ Len(b) = 2 + Len(a) /\ Len(a) \in Nat /\ b[1] = "notice" /\ b[2] = "nl"
        /\ \A i \in 3..Len(b) : b[i] = a[i - 2] /\ i - 2 \in DOMAIN a
    <3>1. <<"notice", "nl">> \in Seq(S)
      BY <1>3
    <3>2. QED BY <1>3, <3>1
  <2> HIDE DEF b
  <2>3. CleanContent(b)
    <3>1. ASSUME NEW i \in DOMAIN b PROVE b[i] # "think"
      <4>1. i = 1 \/ i = 2 \/ i \in 3..Len(b)
        BY <2>2
      <4>2. QED BY <1>4, <2>2, <4>1
    <3>2. QED BY <2>2, <3>1 DEF CleanContent
  <2>4. d.content \in Seq(S)
    <3>1. <<"think">> \o b \in Seq(S)
      BY <1>3, <2>2
    <3>2. QED BY <1>2, <2>1, <2>2, <3>1
  <2>5. StripCursorThinkingBlocks(d.content) = b
    <3>1. b[1] \notin White
      BY <2>2 DEF White
    <3>2. b \in Seq(S)
      BY <2>2
    <3>3. StripCursorThinkingBlocks(b) = b /\ StripCursorThinkingBlocks(<<"think">> \o b) = b
      BY <2>3, <3>1, <3>2, StripKeepsClean
    <3>4. QED BY <1>2, <2>1, <3>3
  <2>6. IsContent(d.content)
    BY <2>4, SequenceOver DEF IsContent
  <2>7. /\ x.role = "assistant" /\ x.content = b /\ x.calls = m.calls /\ x.from = n
    BY <1>2, <2>5 DEF Normalized, IsMessage, d
  <2>8. b # <<>>
    BY <2>2
  <2>9. HasRecoveryNotice(x)
    BY <2>2, <2>7, <2>8 DEF HasRecoveryNotice
  <2>10. MessageSignature(x) = MessageSignature(m)
    BY <2>1, <2>7 DEF MessageSignature
  <2>11. QED BY <1>2, <1>6, <2>6, <2>7, <2>9, <2>10 DEF d
<1>7. QED BY <1>5, <1>6

\* The rows of an answer: one under the conversation that went upstream, and
\* when that is not the one that came, one under its turn.
LEMMA RecordedRows ==
    ASSUME NEW c, NEW m, IsMessage(m), NEW c1, c1 = Recorded(c, m)
    PROVE  /\ DOMAIN cache \subseteq DOMAIN c1
           /\ m.reasoning # NoReasoning =>
                 /\ SignatureKey(ConversationScope(req[c].out, req[c].ns), m) \in DOMAIN c1
                 /\ /\ req[c].out # <<>>
                    /\ ConversationScope(req[c].out, req[c].ns)
                         # ConversationScope(req[c].pre, req[c].ns)
                    => SignatureKey(PortablePlace(req[c].ns, req[c].out), m) \in DOMAIN c1
           /\ \A R : Signed(R, cache) /\ (m.reasoning # NoReasoning => R[m.reasoning].message = m)
                        => Signed(R, c1)
<1> DEFINE r == req[c]
           asked == ConversationScope(r.pre, r.ns)
           active == ConversationScope(r.out, r.ns)
           first == StoreAssistantMessage(cache, m, asked, r.ns, r.pre)
           second == StoreAssistantMessage(first, m, active, r.ns, r.out)
<1>1. c1 = IF active = asked THEN first ELSE second
  BY DEF Recorded
<1>2. m.calls \in Seq(ToSet(m.calls))
  BY DEF IsMessage
<1> HIDE DEF r, asked, active
<1>3. Stores(cache, first, m, asked, r.ns, r.pre)
  BY <1>2, StoredRows
<1>4. Stores(first, second, m, active, r.ns, r.out)
  BY <1>2, StoredRows
<1> HIDE DEF first, second
<1>5. CASE active = asked
  BY <1>1, <1>3, <1>5 DEF Stores, active, asked, r
<1>6. CASE active # asked
  BY <1>1, <1>3, <1>4, <1>6 DEF Stores, active, asked, r
<1>7. QED BY <1>5, <1>6

\* An answer has its row where it is looked up when it comes back.
LEMMA AnswerFiled ==
    ASSUME NEW N, NEW s, Holding(N, s), NEW mode, NEW r, r.phase = "forwarded",
           Shaped(mode, s, r), NEW T, r.out \in Seq(T), NEW n, NEW m,
           NEW x, x.from = n, MessageSignature(x) = MessageSignature(m),
           HasRecoveryNotice(x) <=> r.notice = RecoveryNoticeContent,
           NEW R, R[n].ns = r.ns, NEW D,
           SignatureKey(ConversationScope(r.out, r.ns), m) \in D,
           r.out # <<>> /\ ConversationScope(r.out, r.ns) # ConversationScope(r.pre, r.ns)
              => SignatureKey(PortablePlace(r.ns, r.out), m) \in D
    PROVE  Filed(mode, R, D, r.pre, x)
<1> DEFINE pre == r.pre
           S == {z \in ToSet(pre) : Settled(z)}
           t == r.src
           out == r.out
<1>1. pre \in Seq(S)
  <2>1. pre = NormalizedAll(s, KeepReasoning)
    BY DEF Shaped
  <2> HIDE DEF pre
  <2>2. QED BY <2>1, NormalizedHistory DEF S
<1>2. /\ \A i \in DOMAIN t : Settled(t[i])
      /\ Len(out) = Len(t) /\ \A i \in DOMAIN out : SameBut(out[i], t[i])
  BY DEF Shaped
<1>3. \A place : SignatureKey(place, x) = SignatureKey(place, m)
  BY DEF SignatureKey
<1> HIDE DEF pre, t, out
<1>4. ASSUME NEW Q, t \in Seq(Q)
      PROVE  /\ ConversationScope(out, r.ns) = ConversationScope(t, r.ns)
             /\ (\A i \in DOMAIN t : t[i].role # "assistant") => out = t
  <2>1. \A i \in DOMAIN t : IsMessage(t[i])
    BY <1>2 DEF Settled
  <2>2. out \in Seq(T)
    BY DEF out
  <2>3. QED BY <1>2, <1>4, <2>1, <2>2, SameScope
<1>5. CASE r.notice = <<>>
  <2>1. t = LeftOf(mode, pre) /\ ~HasRecoveryNotice(x)
    BY <1>5 DEF Shaped, Recovered, RecoveryNoticeContent, t, pre
  <2>2. t \in Seq(S \cup {RecoverySystem})
    <3>1. \A z \in S : Settled(z)
      OBVIOUS
    <3> HIDE DEF S
    <3>2. QED BY <1>1, <2>1, <3>1, LeftSettled
  <2>3. ConversationScope(out, r.ns) = ConversationScope(LeftOf(mode, pre), R[x.from].ns)
    BY <1>4, <2>1, <2>2
  <2>4. SignatureKey(ConversationScope(LeftOf(mode, pre), R[x.from].ns), x) \in D
    BY <1>3, <2>3 DEF out
  <2>5. QED BY <2>1, <2>4 DEF Filed, Home, pre
<1>6. CASE r.notice = RecoveryNoticeContent
  <2>1. Recovered(mode, r)
    BY <1>6 DEF Shaped, RecoveryNoticeContent
  <2> DEFINE u == pre[LastUserAt(pre)]
  <2>2. /\ mode = "recover" /\ LastUserAt(pre) # 0 /\ IsUser(u)
        /\ \E i \in DOMAIN pre : pre[i].role = "assistant"
    BY <2>1 DEF Recovered, pre
  <2>3. PICK front \in Seq(ToSet(t)) :
           /\ front # <<>> /\ \A i \in DOMAIN front : front[i].role = "system"
           /\ t = front \o <<u>>
    BY <2>1 DEF Recovered, pre, t
  <2> HIDE DEF u
  <2> DEFINE Q == ToSet(t) \cup {u}
  <2>4. front \in Seq(Q) /\ u \in Q
    BY <2>3
  <2> HIDE DEF Q
  <2>5. t \in Seq(Q) /\ t # <<>>
    BY <2>3, <2>4
  <2>6. \A i \in DOMAIN t : t[i].role # "assistant"
    BY <2>1, RecoveredRoles DEF t
  <2>7. out = t
    BY <1>4, <2>5, <2>6
  <2>8. ~IsUser(front[Len(front)])
    <3>1. Len(front) \in DOMAIN front
      BY <2>3, <2>4
    <3>2. QED BY <2>3, <3>1 DEF IsUser
  <2>9. TurnContextSignature(out) = TurnContextSignature(<<u>>)
    BY <2>2, <2>3, <2>4, <2>7, <2>8, TurnOfTail
  <2>10. ConversationScope(out, r.ns) # ConversationScope(pre, r.ns)
    <3> SUFFICES ASSUME ConversationScope(out, r.ns) = ConversationScope(pre, r.ns) PROVE FALSE
      OBVIOUS
    <3>1. PICK i \in DOMAIN pre : pre[i].role = "assistant"
      BY <2>2
    <3>2. [j \in DOMAIN out |-> CanonicalScopeMessage(out[j])]
            = [j \in DOMAIN pre |-> CanonicalScopeMessage(pre[j])]
      BY DEF ConversationScope
    <3> DEFINE f == [j \in DOMAIN out |-> CanonicalScopeMessage(out[j])]
               g == [j \in DOMAIN pre |-> CanonicalScopeMessage(pre[j])]
    <3>3. DOMAIN f = DOMAIN g /\ f[i] = g[i]
      BY <3>2
    <3>4. DOMAIN f = DOMAIN out /\ DOMAIN g = DOMAIN pre
      OBVIOUS
    <3>5. i \in DOMAIN out /\ CanonicalScopeMessage(out[i]) = CanonicalScopeMessage(pre[i])
      BY <3>1, <3>3, <3>4
    <3>6. out[i].role = pre[i].role
      BY <3>5 DEF CanonicalScopeMessage
    <3>7. QED BY <2>6, <2>7, <3>1, <3>5, <3>6
  <2>11. SignatureKey(PortablePlace(r.ns, out), m) \in D
    BY <2>5, <2>7, <2>10 DEF out, pre
  <2>12. PortablePlace(r.ns, out) = PortablePlace(R[x.from].ns, <<u>>)
    BY <2>9 DEF PortablePlace
  <2>13. SignatureKey(PortablePlace(R[x.from].ns, <<u>>), x) \in D
    BY <1>3, <2>11, <2>12
  <2>14. QED BY <1>6, <2>2, <2>13 DEF Filed, Home, u, pre
<1>7. QED BY <1>5, <1>6 DEF Shaped, Recovered

-----------------------------------------------------------------------------
(* Every step keeps what was recorded. *)

AllSigned == Signed(responses, cache)

\* One client holds something else.
LEMMA FiledStep ==
    ASSUME Owned, AllShaped, AllFiled, NEW c \in Clients, NEW messages,
           conv' = [conv EXCEPT ![c] = messages],
           \A n \in DOMAIN responses : responses'[n] = responses[n],
           DOMAIN cache \subseteq DOMAIN cache', UNCHANGED <<strategy, evictions>>,
           evictions = 0 /\ ThinkingEnabled =>
              FiledAll(strategy, responses', DOMAIN cache', NormalizedAll(messages, KeepReasoning))
    PROVE  AllFiled'
<1> SUFFICES ASSUME evictions = 0, ThinkingEnabled, NEW d \in Clients
             PROVE  FiledAll(strategy, responses', DOMAIN cache',
                             NormalizedAll(conv'[d], KeepReasoning))
  BY DEF AllFiled
<1>1. conv'[d] = IF d = c THEN messages ELSE conv[d]
  BY DEF Owned
<1>2. CASE d = c
  BY <1>1, <1>2
<1>3. CASE d # c
  <2>1. /\ Holding(DOMAIN responses, conv[d])
        /\ FiledAll(strategy, responses, DOMAIN cache, NormalizedAll(conv[d], KeepReasoning))
    BY DEF AllShaped, AllFiled
  <2>2. FiledAll(strategy, responses', DOMAIN cache', NormalizedAll(conv[d], KeepReasoning))
    BY <2>1, FiledGrows
  <2>3. QED BY <1>1, <1>3, <2>2
<1>4. QED BY <1>2, <1>3

\* The rows of one response more.
LEMMA SignedGrows ==
    ASSUME Owned, AllSigned, NEW R1, \A n \in DOMAIN responses : R1[n] = responses[n]
    PROVE  Signed(R1, cache)
<1>1. \A k \in DOMAIN cache : cache[k] \in DOMAIN responses
  BY DEF Owned, RowsOwned
<1>2. QED BY <1>1 DEF AllSigned, Signed

\* An answer comes: it is filed, and so is all that was.
LEMMA RespondFiles ==
    ASSUME ConversationAssumption, CleanAnswers, Owned, AllShaped, AllFiled, AllSigned,
           NEW c \in Clients, Respond(c), UNCHANGED strategy
    PROVE  AllFiled' /\ AllSigned'
<1> DEFINE n == Len(responses) + 1
           s == conv[c]
           r == req[c]
<1>1. PICK m, y : /\ Answered(r, n, m) /\ cache' = Recorded(c, m)
                  /\ y.ns = r.ns /\ y.message = m
                  /\ responses' = Append(responses, y)
                  /\ \/ conv' = [conv EXCEPT ![c] = Append(s, Delivered(c, m))]
                     \/ conv' = conv
  BY RespondIs
<1>2. /\ \A k \in DOMAIN responses : responses'[k] = responses[k]
      /\ responses'[n] = y /\ n # 0
  BY <1>1 DEF Owned
<1>3. /\ r.phase = "forwarded" /\ UNCHANGED evictions
      /\ Holding(DOMAIN responses, s) /\ Shaped(strategy, s, r)
      /\ r.notice \in {<<>>, RecoveryNoticeContent}
  BY DEF Respond, AllShaped, Shaped, Recovered
<1>4. PICK T : r.out \in Seq(T)
  BY RequestMessages
<1>5. IsMessage(m) /\ (m.reasoning # NoReasoning => m.reasoning = n)
      /\ (KeepReasoning => m.reasoning # NoReasoning)
  BY <1>1 DEF Answered, ConversationAssumption, Owned
<1> HIDE DEF n, s
<1>6. /\ DOMAIN cache \subseteq DOMAIN cache'
      /\ m.reasoning # NoReasoning =>
            /\ SignatureKey(ConversationScope(r.out, r.ns), m) \in DOMAIN cache'
            /\ r.out # <<>> /\ ConversationScope(r.out, r.ns) # ConversationScope(r.pre, r.ns)
                  => SignatureKey(PortablePlace(r.ns, r.out), m) \in DOMAIN cache'
      /\ \A R : Signed(R, cache) /\ (m.reasoning # NoReasoning => R[m.reasoning].message = m)
                   => Signed(R, cache')
  BY <1>1, <1>5, RecordedRows
<1> HIDE DEF r
<1>7. AllSigned'
  <2>1. Signed(responses', cache)
    BY <1>2, SignedGrows
  <2>2. m.reasoning # NoReasoning => responses'[m.reasoning].message = m
    BY <1>1, <1>2, <1>5
  <2>3. QED BY <1>6, <2>1, <2>2 DEF AllSigned
<1> DEFINE d == Delivered(c, m)
           x == Normalized(d, KeepReasoning)
           pre == NormalizedAll(s, KeepReasoning)
<1>8. /\ IsMessage(d) /\ IsContent(d.content)
      /\ x.from = n /\ MessageSignature(x) = MessageSignature(m)
      /\ HasRecoveryNotice(x) <=> r.notice = RecoveryNoticeContent
  BY <1>1, <1>3, DeliveredAs
<1> HIDE DEF d, x, pre
<1>9. ASSUME ThinkingEnabled PROVE Filed(strategy, responses', DOMAIN cache', pre, x)
  <2>1. m.reasoning # NoReasoning
    BY <1>5, <1>9 DEF ThinkingEnabled, KeepReasoning
  <2>2. r.pre = pre
    BY <1>3 DEF Shaped, pre
  <2>3. responses'[n].ns = r.ns
    BY <1>1, <1>2
  <2>4. /\ SignatureKey(ConversationScope(r.out, r.ns), m) \in DOMAIN cache'
        /\ r.out # <<>> /\ ConversationScope(r.out, r.ns) # ConversationScope(r.pre, r.ns)
              => SignatureKey(PortablePlace(r.ns, r.out), m) \in DOMAIN cache'
    BY <1>6, <2>1
  <2>5. Filed(strategy, responses', DOMAIN cache', r.pre, x)
    BY <1>3, <1>4, <1>8, <2>3, <2>4, AnswerFiled
  <2>6. QED BY <2>2, <2>5
<1>10. ASSUME evictions = 0, ThinkingEnabled
       PROVE  /\ FiledAll(strategy, responses', DOMAIN cache', NormalizedAll(s, KeepReasoning))
              /\ FiledAll(strategy, responses', DOMAIN cache',
                          NormalizedAll(Append(s, d), KeepReasoning))
  <2>1. FiledAll(strategy, responses, DOMAIN cache, NormalizedAll(s, KeepReasoning))
    BY <1>10 DEF AllFiled, s
  <2>2. d.from # 0 => Filed(strategy, responses', DOMAIN cache', NormalizedAll(s, KeepReasoning),
                           Normalized(d, KeepReasoning))
    BY <1>9, <1>10 DEF pre, x
  <2>3. QED BY <1>2, <1>3, <1>6, <1>8, <2>1, <2>2, FiledGrows
<1>11. conv = [conv EXCEPT ![c] = s]
  BY DEF Owned, s
<1>12. AllFiled'
  <2>1. CASE conv' = [conv EXCEPT ![c] = Append(s, d)]
    <3> DEFINE messages == Append(s, d)
    <3>1. conv' = [conv EXCEPT ![c] = messages]
      BY <2>1
    <3>2. evictions = 0 /\ ThinkingEnabled =>
             FiledAll(strategy, responses', DOMAIN cache', NormalizedAll(messages, KeepReasoning))
      BY <1>10
    <3> HIDE DEF messages
    <3>3. QED BY <1>2, <1>3, <1>6, <3>1, <3>2, FiledStep
  <2>2. CASE conv' = conv
    BY <1>2, <1>3, <1>6, <1>10, <1>11, <2>2, FiledStep
  <2>3. QED BY <1>1, <2>1, <2>2 DEF d, s
<1>13. QED BY <1>7, <1>12

\* Every step keeps each delivered answer filed and each signature row signed.
LEMMA FilingSteps ==
    ASSUME ConversationAssumption, CleanAnswers, Owned, AllShaped, Bounds, AllFiled, AllSigned,
           [Next]_vars
    PROVE  AllFiled' /\ AllSigned'
<1>1. UNCHANGED strategy
  BY DEF Next, vars
<1>2. ASSUME NEW c \in Clients, Ask(c) \/ AnswerCall(c) \/ Retry(c) \/ Regenerate(c)
      PROVE  AllFiled' /\ AllSigned'
  <2>1. PICK messages : Resent(conv[c], messages) /\ Send(c, messages)
    BY <1>2, SentIs
  <2>2. conv' = [conv EXCEPT ![c] = messages] /\ UNCHANGED <<responses, cache, evictions>>
    BY <2>1 DEF Send
  <2>3. ASSUME evictions = 0, ThinkingEnabled
        PROVE  FiledAll(strategy, responses, DOMAIN cache, NormalizedAll(messages, KeepReasoning))
    <3>1. /\ Holding(DOMAIN responses, conv[c])
          /\ FiledAll(strategy, responses, DOMAIN cache, NormalizedAll(conv[c], KeepReasoning))
      BY <2>3 DEF AllShaped, AllFiled
    <3>2. /\ conv[c] # <<>> => FiledAll(strategy, responses, DOMAIN cache,
                                        NormalizedAll(Front(conv[c]), KeepReasoning))
          /\ \A m : m.from = 0 /\ IsMessage(m) /\ IsContent(m.content)
                => FiledAll(strategy, responses, DOMAIN cache,
                            NormalizedAll(Append(conv[c], m), KeepReasoning))
      BY <3>1, FiledGrows
    <3>3. QED BY <2>1, <3>1, <3>2 DEF Resent, Fresh
  <2>4. AllFiled'
    BY <1>1, <2>2, <2>3, FiledStep
  <2>5. QED BY <2>2, <2>4 DEF AllSigned
<1>3. ASSUME NEW c \in Clients, Backfill(c) PROVE AllFiled' /\ AllSigned'
  <2>1. UNCHANGED <<conv, responses, evictions>>
    BY <1>3 DEF Backfill
  <2> DEFINE r == req[c]
             m == Last(r.out)
             prior == Front(r.out)
  <2>2. cache' = BackfillPortableAliases(cache, m, m.reasoning, r.ns, prior)
    BY <1>3 DEF Backfill
  <2>3. m.calls \in Seq(ToSet(m.calls))
    <3>1. r.out # <<>>
      BY <1>3 DEF Backfill, Owned, RequestOwned, Restored
    <3>2. PICK S : r.out \in Seq(S) /\ \A z \in S : IsMessage(z)
      BY RequestMessages
    <3> HIDE DEF r
    <3>3. IsMessage(m)
      BY <3>1, <3>2 DEF Last
    <3>4. QED BY <3>3 DEF IsMessage
  <2> HIDE DEF m, prior, r
  <2>4. /\ DOMAIN cache \subseteq DOMAIN cache'
        /\ \A R : Signed(R, cache) => Signed(R, cache')
    BY <2>2, <2>3, BackfilledRows
  <2>5. AllSigned'
    BY <2>1, <2>4 DEF AllSigned
  <2>6. ASSUME evictions = 0, ThinkingEnabled
        PROVE  FiledAll(strategy, responses, DOMAIN cache', NormalizedAll(conv[c], KeepReasoning))
    <3>1. /\ Holding(DOMAIN responses, conv[c])
          /\ FiledAll(strategy, responses, DOMAIN cache, NormalizedAll(conv[c], KeepReasoning))
      BY <2>6 DEF AllShaped, AllFiled
    <3>2. QED BY <2>4, <3>1, FiledGrows
  <2>7. conv' = [conv EXCEPT ![c] = conv[c]]
    BY <2>1 DEF Owned
  <2>8. AllFiled'
    BY <1>1, <2>1, <2>4, <2>6, <2>7, FiledStep
  <2>9. QED BY <2>5, <2>8
<1>4. ASSUME NEW c \in Clients, Respond(c) PROVE AllFiled' /\ AllSigned'
  BY <1>1, <1>4, RespondFiles
<1>5. ASSUME Evict \/ ClearCache PROVE AllFiled' /\ AllSigned'
  <2>1. evictions' # 0
    BY <1>5, ConversationAssumption DEF Evict, ClearCache, Bounds, ConversationAssumption
  <2>2. UNCHANGED responses /\ DOMAIN cache' \subseteq DOMAIN cache
        /\ \A k \in DOMAIN cache' : cache'[k] = cache[k]
    <3>1. CASE Evict
      BY <3>1 DEF Evict
    <3>2. CASE ClearCache
      <4>1. DOMAIN cache' = {} /\ UNCHANGED responses
        BY <3>2 DEF ClearCache
      <4>2. QED BY <4>1
    <3>3. QED BY <1>5, <3>1, <3>2
  <2>3. QED BY <2>1, <2>2 DEF AllFiled, AllSigned, Signed
<1>6. ASSUME UNCHANGED <<conv, responses, cache, evictions>> PROVE AllFiled' /\ AllSigned'
  BY <1>1, <1>6 DEF AllFiled, AllSigned
<1>7. QED BY <1>2, <1>3, <1>4, <1>5, <1>6 DEF Next, Handle, NormalizeMessage, RecoverRequest,
        Forward, Reject, UpstreamFails, SwitchProfile, vars

-----------------------------------------------------------------------------
(* What is found, and whose it is. *)

\* Request r is pristine, with so many rows lost.
PristineAt(R, lost, r) ==
    /\ lost = 0
    /\ \A i \in DOMAIN r.src : r.src[i].role = "assistant" =>
          r.src[i].from # 0 /\ R[r.src[i].from].ns = r.ns

OwnRestored(R, r) ==
    \A i \in DOMAIN r.out :
       r.out[i].reasoning # NoReasoning /\ ~HasRecoveryNotice(r.out[i]) =>
          MessageSignature(r.out[i]) = MessageSignature(R[r.out[i].reasoning].message)

Good(R, lost, c, r) ==
    r.phase # "idle" /\ PristineAt(R, lost, r) =>
       r.missing = {} /\ (c \notin Keepers => OwnRestored(R, r))

AllGood == \A c \in Clients : Good(responses, evictions, c, req[c])

\* The messages of a request before they are repaired: none has reasoning,
\* unless the client keeps it, and answers are of responses.
LEMMA SourceIs ==
    ASSUME NEW N, NEW s, Holding(N, s), NEW mode, NEW r, r.phase # "idle", Shaped(mode, s, r),
           NEW c, PlainSeq(c, s), NEW i \in DOMAIN r.src
    PROVE  /\ c \notin Keepers => r.src[i].reasoning = NoReasoning
           /\ r.src[i].role = "assistant" /\ r.src[i].from # 0 => r.src[i].from \in N
<1> DEFINE x == r.src[i]
<1>1. Settled(x)
  BY DEF Shaped
<1> HIDE DEF x
<1>2. CASE x.role # "assistant"
  <2>1. Normalized(x, KeepReasoning) = x /\ IsMessage(x)
    BY <1>1 DEF Settled
  <2>2. Normalized(x, KeepReasoning).reasoning = NoReasoning
    BY <1>2, <2>1 DEF Normalized, IsMessage
  <2>3. QED BY <1>2, <2>1, <2>2 DEF x
<1>3. CASE x.role = "assistant"
  <2>1. PICK j \in DOMAIN r.pre : x = r.pre[j]
    BY <1>3, AnswerPlace DEF x
  <2>2. r.pre = NormalizedAll(s, KeepReasoning)
    BY DEF Shaped
  <2>3. DOMAIN r.pre = DOMAIN s
    BY <2>2 DEF NormalizedAll
  <2>4. x = Normalized(s[j], KeepReasoning) /\ x.from = s[j].from
    <3>1. \A k \in DOMAIN s : /\ r.pre[k] = Normalized(s[k], KeepReasoning)
                              /\ r.pre[k].from = s[k].from
      BY ZenonT(30), <2>2, NormalizedHistory
    <3>2. QED BY <2>1, <2>3, <3>1
  <2>5. IsMessage(s[j]) /\ (s[j].from # 0 => s[j].from \in N)
    BY <2>1, <2>3 DEF Holding
  <2>6. KeepReasoning \in BOOLEAN
    BY DEF KeepReasoning
  <2>7. x.reasoning \in {s[j].reasoning, NoReasoning}
    BY <2>4, <2>5, <2>6, NormalizedMessage
  <2>8. c \notin Keepers => s[j].reasoning = NoReasoning
    BY <2>1, <2>3, PlainElement DEF Plain
  <2>9. QED BY <2>4, <2>5, <2>7, <2>8 DEF x
<1>4. QED BY <1>2, <1>3

\* More responses change nothing for a request.
LEMMA GoodGrows ==
    ASSUME Owned, AllShaped, NEW c \in Clients, Good(responses, evictions, c, req[c]),
           NEW R1, \A n \in DOMAIN responses : R1[n] = responses[n]
    PROVE  Good(R1, evictions, c, req[c])
<1> DEFINE r == req[c]
           s == conv[c]
<1>1. PlainSeq(c, s) /\ Holding(DOMAIN responses, s) /\ Shaped(strategy, s, r)
  BY DEF Owned, AllShaped
<1> HIDE DEF r, s
<1> SUFFICES ASSUME r.phase # "idle", PristineAt(R1, evictions, r)
             PROVE  r.missing = {} /\ (c \notin Keepers => OwnRestored(R1, r))
  BY DEF Good, r
<1>2. \A i \in DOMAIN r.src : r.src[i].role = "assistant" /\ r.src[i].from # 0
                                  => r.src[i].from \in DOMAIN responses
  BY <1>1, SourceIs
<1>3. PristineAt(responses, evictions, r)
  BY <1>2 DEF PristineAt
<1>4. r.missing = {} /\ (c \notin Keepers => OwnRestored(responses, r))
  BY <1>3 DEF Good, r
<1>5. ASSUME c \notin Keepers PROVE OwnRestored(R1, r)
  <2>1. \A i \in DOMAIN r.out : r.out[i].reasoning # NoReasoning
                                   => r.out[i].reasoning \in DOMAIN responses
    <3>1. OwnSeq(responses, c, r.ns, r.out)
      BY DEF Owned, RequestOwned, r
    <3>2. QED BY <1>5, <3>1, OwnElement DEF Own
  <2>2. QED BY <1>4, <1>5, <2>1 DEF OwnRestored
<1>6. QED BY <1>4, <1>5

\* The next message of a request: while nothing is lost its reasoning is found,
\* and it is its own.
LEMMA GoodNormalize ==
    ASSUME ConversationAssumption, Owned, AllShaped, AllFiled, AllSigned,
           NEW c \in Clients, Good(responses, evictions, c, req[c]), NormalizeMessage(c)
    PROVE  \E r1 : req' = [req EXCEPT ![c] = r1] /\ Good(responses, evictions, c, r1)
<1> DEFINE r == req[c]
           i == Len(r.out) + 1
           x == r.src[i]
           m == Normalized(x, KeepReasoning)
           found == LookupForMessage(m, r.ns, r.out)
           restored == [m EXCEPT !.reasoning = found]
           lacking == ThinkingEnabled /\ m.role = "assistant" /\ m.reasoning = NoReasoning
           R1 == [r EXCEPT !.out = Append(@, restored), !.backfill = TRUE]
           R2 == [r EXCEPT !.out = Append(@, m), !.missing = r.missing \cup {i}]
           R3 == [r EXCEPT !.out = Append(@, m), !.missing = r.missing]
<1>1. /\ r.phase = "repair"
      /\ \/ lacking /\ found # NoReasoning /\ req' = [req EXCEPT ![c] = R1]
         \/ lacking /\ found = NoReasoning /\ req' = [req EXCEPT ![c] = R2]
         \/ req' = [req EXCEPT ![c] = R3]
  BY NormalizeCases
<1>2. i <= Len(r.src)
  BY DEF NormalizeMessage
<1>3. DOMAIN r = DOMAIN Idle
  BY DEF Owned, RequestOwned
<1>4. PICK S, T : r.src \in Seq(S) /\ r.out \in Seq(T)
  BY DEF Owned, RequestOwned, OwnSeq
<1>5. Good(responses, evictions, c, r)
  OBVIOUS
<1>6. /\ Shaped(strategy, conv[c], r) /\ Holding(DOMAIN responses, conv[c])
      /\ PlainSeq(c, conv[c])
  BY DEF AllShaped, Owned
<1>7. evictions = 0 /\ ThinkingEnabled => FiledAll(strategy, responses, DOMAIN cache, r.pre)
  BY <1>1, <1>6 DEF AllFiled, Shaped
<1> HIDE DEF r
<1>8. i \in DOMAIN r.src /\ Len(r.out) \in Nat
  BY <1>2, <1>4
<1>9. m = x /\ IsMessage(x)
  BY <1>1, <1>6, <1>8 DEF Shaped, Settled
<1> HIDE DEF i, x, m
<1>10. c \notin Keepers => x.reasoning = NoReasoning
  BY <1>1, <1>6, <1>8, SourceIs DEF x
<1>11. ASSUME PristineAt(responses, evictions, r), lacking
       PROVE  /\ found # NoReasoning
              /\ ~HasRecoveryNotice(x) =>
                    MessageSignature(x) = MessageSignature(responses[found].message)
  <2>1. x.role = "assistant" /\ x.from # 0 /\ responses[x.from].ns = r.ns /\ ThinkingEnabled
    BY <1>8, <1>9, <1>11 DEF PristineAt, x
  <2>2. FiledAll(strategy, responses, DOMAIN cache, r.pre)
    BY <1>7, <1>11 DEF PristineAt
  <2>3. /\ LookupForMessage(x, r.ns, r.out) # NoReasoning
        /\ ~HasRecoveryNotice(x) =>
              \E k \in DOMAIN cache : /\ k = SignatureKey(ConversationScope(r.out, r.ns), x)
                                      /\ LookupForMessage(x, r.ns, r.out) = cache[k]
    <3>1. r.phase # "idle" /\ r.out \in Seq(T) /\ x = r.src[i] /\ i = Len(r.out) + 1
      BY <1>1, <1>4 DEF x, i
    <3>2. QED BY <1>6, <1>8, <2>1, <2>2, <3>1, NextIsFound
  <2>4. ASSUME NEW k \in DOMAIN cache, k = SignatureKey(ConversationScope(r.out, r.ns), x)
        PROVE  MessageSignature(x) = MessageSignature(responses[cache[k]].message)
    <3>1. "messages" \in DOMAIN k.place /\ k.alias = MessageSignature(x)
      BY <2>4 DEF SignatureKey, ConversationScope
    <3>2. k.alias[1] = "signature"
      BY <3>1 DEF MessageSignature
    <3>3. k.alias = MessageSignature(responses[cache[k]].message)
      BY <3>1, <3>2 DEF AllSigned, Signed
    <3>4. QED BY <3>1, <3>3
  <2>5. found = LookupForMessage(x, r.ns, r.out)
    BY <1>9
  <2> HIDE DEF found
  <2>6. QED BY <2>3, <2>4, <2>5
<1>12. /\ R1.phase = r.phase /\ R1.src = r.src /\ R1.ns = r.ns
       /\ R1.out = Append(r.out, restored) /\ R1.missing = r.missing
       /\ R2.phase = r.phase /\ R2.src = r.src /\ R2.ns = r.ns
       /\ R2.out = Append(r.out, m) /\ R2.missing = r.missing \cup {i}
       /\ R3.phase = r.phase /\ R3.src = r.src /\ R3.ns = r.ns
       /\ R3.out = Append(r.out, m) /\ R3.missing = r.missing
  BY <1>3 DEF Idle
<1>13. /\ restored.reasoning = found
       /\ HasRecoveryNotice(restored) = HasRecoveryNotice(x)
       /\ MessageSignature(restored) = MessageSignature(x)
  BY <1>9 DEF IsMessage, HasRecoveryNotice, MessageSignature
<1> HIDE DEF R1, R2, R3, restored, found, lacking
<1>14. ASSUME NEW r1, r1.phase = r.phase, r1.src = r.src, r1.ns = r.ns, r1.missing = r.missing,
              NEW w, r1.out = Append(r.out, w),
              PristineAt(responses, evictions, r) /\ c \notin Keepers
                 /\ w.reasoning # NoReasoning /\ ~HasRecoveryNotice(w) =>
                    MessageSignature(w) = MessageSignature(responses[w.reasoning].message)
       PROVE  Good(responses, evictions, c, r1)
  <2> SUFFICES ASSUME PristineAt(responses, evictions, r)
               PROVE  r.missing = {} /\ (c \notin Keepers => OwnRestored(responses, r1))
    BY <1>14 DEF Good, PristineAt
  <2>1. r.missing = {} /\ (c \notin Keepers => OwnRestored(responses, r))
    BY <1>1, <1>5 DEF Good
  <2>2. ASSUME c \notin Keepers, NEW j \in DOMAIN r1.out
        PROVE  r1.out[j].reasoning # NoReasoning /\ ~HasRecoveryNotice(r1.out[j]) =>
                  MessageSignature(r1.out[j]) = MessageSignature(responses[r1.out[j].reasoning].message)
    <3> DEFINE Q == T \cup {w}
    <3>1. r.out \in Seq(Q) /\ w \in Q
      BY <1>4
    <3> HIDE DEF Q
    <3>2. (j \in DOMAIN r.out /\ r1.out[j] = r.out[j]) \/ r1.out[j] = w
      BY <1>14, <2>2, <3>1
    <3>3. QED BY <1>14, <2>1, <2>2, <3>2 DEF OwnRestored
  <2>3. QED BY <2>1, <2>2 DEF OwnRestored
<1>15. ASSUME lacking PROVE Good(responses, evictions, c, R1)
  <2>1. PristineAt(responses, evictions, r) /\ ~HasRecoveryNotice(restored) =>
           MessageSignature(restored) = MessageSignature(responses[restored.reasoning].message)
    BY <1>11, <1>13, <1>15
  <2>2. QED BY <1>12, <1>14, <2>1
<1>16. ASSUME lacking, found = NoReasoning PROVE Good(responses, evictions, c, R2)
  <2>1. ~PristineAt(responses, evictions, r)
    BY <1>11, <1>16
  <2>2. ~PristineAt(responses, evictions, R2)
    BY <1>12, <2>1 DEF PristineAt
  <2>3. QED BY <2>2 DEF Good
<1>17. Good(responses, evictions, c, R3)
  BY <1>9, <1>10, <1>12, <1>14
<1>18. QED BY <1>1, <1>15, <1>16, <1>17 DEF r

\* One request changes.
LEMMA GoodStep ==
    ASSUME Owned, AllShaped, AllGood, NEW c \in Clients, NEW r, req' = [req EXCEPT ![c] = r],
           Good(responses', evictions, c, r),
           \A n \in DOMAIN responses : responses'[n] = responses[n], UNCHANGED evictions
    PROVE  AllGood'
<1> SUFFICES ASSUME NEW d \in Clients PROVE Good(responses', evictions', d, req'[d])
  BY DEF AllGood
<1>1. req'[d] = IF d = c THEN r ELSE req[d]
  BY DEF Owned
<1>2. CASE d = c
  BY <1>1, <1>2
<1>3. CASE d # c
  <2>1. Good(responses', evictions, d, req[d])
    BY GoodGrows DEF AllGood
  <2>2. QED BY <1>1, <1>3, <2>1
<1>4. QED BY <1>2, <1>3

\* Every step keeps it so.
LEMMA GoodSteps ==
    ASSUME ConversationAssumption, Owned, AllShaped, Bounds, AllFiled, AllSigned, AllGood,
           [Next]_vars
    PROVE  AllGood'
<1>1. ASSUME NEW c \in Clients, Ask(c) \/ AnswerCall(c) \/ Retry(c) \/ Regenerate(c)
      PROVE  AllGood'
  <2>1. PICK messages : Send(c, messages)
    BY <1>1, SentIs
  <2> DEFINE r == Prepared(profile[c], messages)
  <2>2. req' = [req EXCEPT ![c] = r] /\ UNCHANGED <<responses, evictions>>
    BY <2>1 DEF Send
  <2>3. r.missing = {} /\ r.out = <<>>
    BY DEF Prepared, Idle
  <2> HIDE DEF r
  <2>4. Good(responses, evictions, c, r)
    BY <2>3 DEF Good, OwnRestored
  <2>5. QED BY <2>2, <2>4, GoodStep
<1>2. ASSUME NEW c \in Clients, NormalizeMessage(c) PROVE AllGood'
  <2>1. Good(responses, evictions, c, req[c]) /\ UNCHANGED <<responses, evictions>>
    BY <1>2 DEF AllGood, NormalizeMessage
  <2>2. PICK r1 : req' = [req EXCEPT ![c] = r1] /\ Good(responses, evictions, c, r1)
    BY <1>2, <2>1, GoodNormalize
  <2>3. QED BY <2>1, <2>2, GoodStep
<1>3. ASSUME NEW c \in Clients, NEW r, req' = [req EXCEPT ![c] = r],
             UNCHANGED <<responses, evictions>>,
             \/ r.phase = "idle"
             \/ r.out = <<>> /\ r.missing = {}
             \/ /\ req[c].phase = "repair"
                /\ r.src = req[c].src /\ r.out = req[c].out /\ r.missing = req[c].missing
                /\ r.ns = req[c].ns
      PROVE  AllGood'
  <2>1. Good(responses, evictions, c, req[c])
    BY DEF AllGood
  <2>2. Good(responses, evictions, c, r)
    BY <1>3, <2>1 DEF Good, OwnRestored, PristineAt
  <2>3. QED BY <1>3, <2>2, GoodStep
<1>4. ASSUME NEW c \in Clients, RecoverRequest(c) PROVE AllGood'
  <2> DEFINE r == req[c]
             notice == IF Recovery(c).notice # <<>> THEN Recovery(c).notice ELSE r.notice
             kept == Recovery(c).messages
             R1 == [r EXCEPT !.phase = "forwarded", !.notice = notice]
             R2 == [r EXCEPT !.src = kept, !.out = <<>>, !.missing = {}, !.notice = notice]
  <2>1. /\ r.phase = "repair" /\ UNCHANGED <<responses, evictions>>
        /\ \/ req' = [req EXCEPT ![c].phase = "forwarded", ![c].notice = notice]
           \/ req' = [req EXCEPT ![c].src = kept, ![c].out = <<>>, ![c].missing = {},
                                 ![c].notice = notice]
    BY <1>4 DEF RecoverRequest, PassDone
  <2>2. c \in DOMAIN req /\ DOMAIN r = DOMAIN Idle
    BY DEF Owned, RequestOwned
  <2> HIDE DEF notice, kept
  <2>3. /\ [req EXCEPT ![c].phase = "forwarded", ![c].notice = notice] = [req EXCEPT ![c] = R1]
        /\ [req EXCEPT ![c].src = kept, ![c].out = <<>>, ![c].missing = {}, ![c].notice = notice]
             = [req EXCEPT ![c] = R2]
    BY <2>2 DEF Idle
  <2>4. /\ R1.src = r.src /\ R1.out = r.out /\ R1.missing = r.missing /\ R1.ns = r.ns
        /\ R2.out = <<>> /\ R2.missing = {}
    BY <2>2 DEF Idle
  <2> HIDE DEF R1, R2
  <2>5. CASE req' = [req EXCEPT ![c] = R1]
    BY <1>3, <2>1, <2>4, <2>5
  <2>6. CASE req' = [req EXCEPT ![c] = R2]
    BY <1>3, <2>1, <2>4, <2>6
  <2>7. QED BY <2>1, <2>3, <2>5, <2>6
<1>5. ASSUME NEW c \in Clients, Forward(c) PROVE AllGood'
  <2> DEFINE r == req[c]
             R1 == [r EXCEPT !.phase = "forwarded"]
  <2>1. DOMAIN r = DOMAIN Idle /\ req' = [req EXCEPT ![c] = R1] /\ r.phase = "repair"
        /\ UNCHANGED <<responses, evictions>>
    BY <1>5 DEF Forward, PassDone, Owned, RequestOwned
  <2>2. R1.src = r.src /\ R1.out = r.out /\ R1.missing = r.missing /\ R1.ns = r.ns
    BY <2>1 DEF Idle
  <2> HIDE DEF R1
  <2>3. QED BY <1>3, <2>1, <2>2
<1>6. ASSUME NEW c \in Clients, Backfill(c) PROVE AllGood'
  <2> DEFINE r == req[c]
             R1 == [r EXCEPT !.backfill = FALSE]
  <2>1. DOMAIN r = DOMAIN Idle /\ req' = [req EXCEPT ![c] = R1]
        /\ UNCHANGED <<responses, evictions>>
    BY <1>6 DEF Backfill, Owned, RequestOwned
  <2>2. /\ R1.src = r.src /\ R1.out = r.out /\ R1.missing = r.missing /\ R1.ns = r.ns
        /\ R1.phase = r.phase
    BY <2>1 DEF Idle
  <2> HIDE DEF R1
  <2>3. Good(responses, evictions, c, r)
    BY DEF AllGood
  <2>4. Good(responses, evictions, c, R1)
    BY <2>2, <2>3 DEF Good, OwnRestored, PristineAt
  <2>5. QED BY <2>1, <2>4, GoodStep
<1>7. ASSUME NEW c \in Clients, Reject(c) \/ UpstreamFails(c) PROVE AllGood'
  <2>1. req' = [req EXCEPT ![c] = Idle] /\ UNCHANGED <<responses, evictions>>
    BY <1>7 DEF Reject, UpstreamFails
  <2>2. Idle.phase = "idle"
    BY DEF Idle
  <2>3. QED BY <1>3, <2>1, <2>2
<1>8. ASSUME NEW c \in Clients, Respond(c) PROVE AllGood'
  <2>1. req' = [req EXCEPT ![c] = Idle] /\ UNCHANGED evictions
    BY <1>8 DEF Respond
  <2>2. \A n \in DOMAIN responses : responses'[n] = responses[n]
    <3>1. PICK y : responses' = Append(responses, y)
      BY <1>8, RespondIs
    <3>2. QED BY <3>1 DEF Owned
  <2>3. Good(responses', evictions, c, Idle)
    BY DEF Good, Idle
  <2>4. QED BY <2>1, <2>2, <2>3, GoodStep
<1>9. ASSUME Evict \/ ClearCache PROVE AllGood'
  <2>1. evictions' # 0
    BY <1>9, ConversationAssumption DEF Evict, ClearCache, Bounds, ConversationAssumption
  <2>2. QED BY <2>1 DEF AllGood, Good, PristineAt
<1>10. ASSUME UNCHANGED <<req, responses, evictions>> PROVE AllGood'
  BY <1>10 DEF AllGood
<1>11. QED BY <1>1, <1>2, <1>4, <1>5, <1>6, <1>7, <1>8, <1>9, <1>10 DEF Next, Handle, SwitchProfile, vars

\* At the start nothing is held that came through the proxy.
LEMMA InitRecords ==
    ConversationAssumption /\ Init => AllFiled /\ AllSigned /\ AllGood
<1> SUFFICES ASSUME ConversationAssumption, Init PROVE AllFiled /\ AllSigned /\ AllGood
  OBVIOUS
<1>1. ASSUME NEW c \in Clients
      PROVE  FiledAll(strategy, responses, DOMAIN cache, NormalizedAll(conv[c], KeepReasoning))
  <2>1. conv[c] \in Histories
    BY DEF Init
  <2>2. Holding({}, conv[c]) /\ \A i \in DOMAIN conv[c] : conv[c][i].from = 0
    BY <2>1 DEF ConversationAssumption, Holding, ToSet
  <2> DEFINE s == conv[c]
             pre == NormalizedAll(s, KeepReasoning)
             N == {}
  <2> HIDE DEF s, N
  <2>3. pre = NormalizedAll(s, KeepReasoning) /\ DOMAIN pre = DOMAIN s
    BY DEF NormalizedAll
  <2>4. Holding(N, s) /\ \A i \in DOMAIN s : s[i].from = 0
    BY <2>2 DEF s, N
  <2> HIDE DEF pre
  <2>5. \A i \in DOMAIN s : pre[i] = Normalized(s[i], KeepReasoning) /\ pre[i].from = s[i].from
    BY ONLY <2>3, <2>4, NormalizedHistory
  <2>6. FiledAll(strategy, responses, DOMAIN cache, pre)
    BY <2>3, <2>4, <2>5 DEF FiledAll
  <2>7. QED BY <2>6 DEF pre, s
<1>2. AllSigned
  <2>1. DOMAIN cache = {}
    BY DEF Init
  <2>2. QED BY <2>1 DEF AllSigned, Signed
<1>3. AllGood
  BY DEF AllGood, Good, Init, Idle
<1>4. QED BY <1>1, <1>2, <1>3 DEF AllFiled

\* All of it together, when the upstream's own text is not of the kind the
\* proxy takes off.
LEMMA RecordsHold ==
    ASSUME CleanAnswers PROVE Spec => [](AllFiled /\ AllSigned /\ AllGood)
<1>1. Init => AllFiled /\ AllSigned /\ AllGood /\ Bounds
  <2>1. Init => Bounds
    <3>1. Paced(Idle)
      BY DEF Paced, Idle
    <3>2. QED BY <3>1, ConversationAssumption DEF Init, Bounds, ConversationAssumption
  <2>2. QED BY <2>1, InitRecords, ConversationAssumption
<1>2. Owned /\ Bounds /\ [Next]_vars => Bounds'
  <2> SUFFICES ASSUME Owned, Bounds, [Next]_vars PROVE Bounds'
    OBVIOUS
  <2>1. ASSUME NEW c \in Clients, Handle(c) PROVE Bounds'
    BY <2>1, HandleBounds DEF Handle
  <2>2. QED BY <2>1, OtherBounds, ConversationAssumption DEF Next
<1>3. /\ Owned /\ AllShaped /\ Bounds /\ AllFiled /\ AllSigned /\ AllGood /\ [Next]_vars
         => AllFiled' /\ AllSigned' /\ AllGood'
  BY FilingSteps, GoodSteps, ConversationAssumption, CleanAnswers
<1>4. QED BY <1>1, <1>2, <1>3, OwnedHolds, AllShapedHolds, PTL DEF Spec

\* While no row is lost the proxy finds the reasoning of every answer it has
\* delivered in the request's namespace: for any number of clients and any
\* interleaving, after retries, regenerations, recoveries and mirrored
\* thinking, if no answer of the upstream holds a thinking block or begins with
\* a newline, a notice or, where thinking is mirrored, any white space: that is
\* what the proxy takes off a message that comes back (transform.go:46, 130-132),
\* and then the answer is not found under its signature (the run MCNewline).
THEOREM RecordedIsFoundHolds == CleanAnswers => (Spec => []RecordedIsFound)
<1> SUFFICES ASSUME CleanAnswers PROVE Spec => []RecordedIsFound
  OBVIOUS
<1>1. AllGood => RecordedIsFound
  BY DEF AllGood, Good, PristineAt, RecordedIsFound, Pristine
<1>2. QED BY <1>1, RecordsHold, PTL

\* While no row is lost, what is restored to an answer without a notice was
\* recorded with a message that is the same to the cache, whichever other
\* answers share its tool calls, for answers of the same kind.
THEOREM RestoredIsOwnHolds == CleanAnswers => (Spec => []RestoredIsOwn)
<1> SUFFICES ASSUME CleanAnswers PROVE Spec => []RestoredIsOwn
  OBVIOUS
<1>1. AllGood => RestoredIsOwn
  BY DEF AllGood, Good, PristineAt, OwnRestored, RestoredIsOwn, Pristine
<1>2. QED BY <1>1, RecordsHold, PTL

=============================================================================
