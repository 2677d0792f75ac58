-------------------------- MODULE ConversationProofs --------------------------
(***************************************************************************)
(* Proofs about Conversation for any number of clients, any histories and  *)
(* any interleaving of their requests, answers and lost rows.              *)
(***************************************************************************)
EXTENDS Conversation, TransformProofs

\* A message of client c in namespace ns: what it carries, unless the client
\* itself keeps reasoning, one of the responses R to this namespace came with.
Own(R, c, ns, m) ==
    /\ IsMessage(m)
    /\ c \notin Keepers /\ m.reasoning # NoReasoning =>
          m.reasoning \in DOMAIN R /\ R[m.reasoning].ns = ns

OwnSeq(R, c, ns, s) == s \in Seq({m \in ToSet(s) : Own(R, c, ns, m)})

\* What a client holds it has without reasoning, unless it keeps it.
Plain(c, m) == /\ IsMessage(m)
               /\ c \notin Keepers => m.reasoning = NoReasoning

PlainSeq(c, s) == s \in Seq({m \in ToSet(s) : Plain(c, m)})

\* Every row holds the reasoning of a response to the namespace of its key.
RowsOwned(R, rows) == \A k \in DOMAIN rows : /\ rows[k] \in DOMAIN R
                                             /\ R[rows[k]].ns = k.place.namespace

\* What is about to be backfilled came with a response to the namespace, also
\* for a client that keeps reasoning.
Restored(R, r) == /\ r.out # <<>>
                  /\ Last(r.out).reasoning \in DOMAIN R
                  /\ R[Last(r.out).reasoning].ns = r.ns

\* A request is a record that carries only what is its own.
RequestOwned(R, c, r) == /\ DOMAIN r = DOMAIN Idle
                         /\ OwnSeq(R, c, r.ns, r.src)
                         /\ OwnSeq(R, c, r.ns, r.out)
                         /\ r.backfill => Restored(R, r)

Owned == /\ responses \in Seq(ToSet(responses))
         /\ RowsOwned(responses, cache)
         /\ conv = [c \in Clients |-> conv[c]] /\ req = [c \in Clients |-> req[c]]
         /\ \A c \in Clients : PlainSeq(c, conv[c]) /\ RequestOwned(responses, c, req[c])

-----------------------------------------------------------------------------
(* Keys. *)

\* The keys at one place: one for each alias.
LEMMA PlaceOfKeys ==
    ASSUME NEW m, m.calls \in Seq(ToSet(m.calls)), NEW place, NEW K,
           \A a \in ToSet(Aliases(m)) : [place |-> place, alias |-> a] \in K
    PROVE  KeysAt(place, m) \in Seq(K)
<1>1. PICK n \in Nat : DOMAIN Aliases(m) = 1..n
  <2>1. PICK k \in Nat : DOMAIN m.calls = 1..k
    OBVIOUS
  <2> DEFINE A == {ToolCallIDs(m)[i] : i \in 1..k} \cup {ToolCallSignatures(m)[i] : i \in 1..k}
                  \cup {ToolCallNames(m)[i] : i \in 1..k} \cup {MessageSignature(m)}
  <2>2. /\ ToolCallIDs(m) = [i \in 1..k |-> ToolCallIDs(m)[i]]
        /\ ToolCallSignatures(m) = [i \in 1..k |-> ToolCallSignatures(m)[i]]
        /\ ToolCallNames(m) = [i \in 1..k |-> ToolCallNames(m)[i]]
    BY <2>1 DEF ToolCallIDs, ToolCallSignatures, ToolCallNames
  <2>3. \A f : f = [i \in 1..k |-> f[i]] /\ (\A i \in 1..k : f[i] \in A) => f \in Seq(A)
    <3> HIDE DEF A
    <3>1. \A f : f = [i \in 1..k |-> f[i]] /\ (\A i \in 1..k : f[i] \in A) => f \in [1..k -> A]
      OBVIOUS
    <3>2. [1..k -> A] \subseteq Seq(A)
      OBVIOUS
    <3>3. QED BY <3>1, <3>2
  <2>4. /\ ToolCallIDs(m) \in Seq(A) /\ ToolCallSignatures(m) \in Seq(A)
        /\ ToolCallNames(m) \in Seq(A) /\ <<MessageSignature(m)>> \in Seq(A)
    <3>1. /\ \A i \in 1..k : ToolCallIDs(m)[i] \in A
          /\ \A i \in 1..k : ToolCallSignatures(m)[i] \in A
          /\ \A i \in 1..k : ToolCallNames(m)[i] \in A
          /\ MessageSignature(m) \in A
      OBVIOUS
    <3> HIDE DEF A
    <3>2. ToolCallIDs(m) \in Seq(A)
      BY <2>2, <2>3, <3>1, Zenon
    <3>3. ToolCallSignatures(m) \in Seq(A)
      BY <2>2, <2>3, <3>1, Zenon
    <3>4. ToolCallNames(m) \in Seq(A)
      BY <2>2, <2>3, <3>1, Zenon
    <3>5. <<MessageSignature(m)>> \in Seq(A)
      BY <3>1
    <3>6. QED BY <3>2, <3>3, <3>4, <3>5
  <2> HIDE DEF A
  <2>5. Aliases(m) \in Seq(A)
    BY <2>4 DEF Aliases
  <2>6. QED BY <2>5
<1>2. KeysAt(place, m) = [i \in 1..n |-> [place |-> place, alias |-> Aliases(m)[i]]]
  BY <1>1 DEF KeysAt
<1>3. \A i \in 1..n : [place |-> place, alias |-> Aliases(m)[i]] \in K
  BY <1>1 DEF ToSet
<1>4. QED BY <1>2, <1>3

\* All keys of a message carry the namespace of the request.
LEMMA KeysNamespace ==
    ASSUME NEW m, m.calls \in Seq(ToSet(m.calls)), NEW scope, NEW ns, NEW prior,
           scope.namespace = ns
    PROVE  /\ \A k \in ToSet(MessageKeys(m, scope, ns, prior)) : k.place.namespace = ns
           /\ DOMAIN MessageKeys(m, scope, ns, prior) \subseteq Nat
           /\ \A k \in ToSet(PortableReasoningKeys(m, ns, prior)) : k.place.namespace = ns
<1> DEFINE turn == [namespace |-> ns, turn |-> TurnContextSignature(prior)]
           K == [place : {scope, turn}, alias : ToSet(Aliases(m))]
<1>1. \A k \in K : k.place.namespace = ns
  OBVIOUS
<1>2. \A a \in ToSet(Aliases(m)) : /\ [place |-> scope, alias |-> a] \in K
                                   /\ [place |-> turn, alias |-> a] \in K
  OBVIOUS
<1> HIDE DEF K
<1>3. ScopedReasoningKeys(m, scope) \in Seq(K)
  BY <1>2, PlaceOfKeys DEF ScopedReasoningKeys
<1>4. PortableReasoningKeys(m, ns, prior) \in Seq(K)
  <2>1. KeysAt(turn, m) \in Seq(K)
    <3> HIDE DEF turn
    <3>1. QED BY <1>2, PlaceOfKeys
  <2>2. QED BY <2>1 DEF PortableReasoningKeys
<1>5. MessageKeys(m, scope, ns, prior) \in Seq(K)
  BY <1>3, <1>4 DEF MessageKeys
<1>6. \A s : s \in Seq(K) => (\A k \in ToSet(s) : k.place.namespace = ns) /\ DOMAIN s \subseteq Nat
  BY <1>1 DEF ToSet
<1>7. QED BY <1>4, <1>5, <1>6

-----------------------------------------------------------------------------
(* Messages. *)

\* A sequence over messages a client may carry is one it may carry ...
LEMMA OwnIntro ==
    ASSUME NEW R, NEW c, NEW ns, NEW S, NEW s \in Seq(S), \A m \in S : Own(R, c, ns, m)
    PROVE  OwnSeq(R, c, ns, s)
<1>1. ToSet(s) \subseteq S
  BY DEF ToSet
<1>2. ToSet(s) \subseteq {m \in ToSet(s) : Own(R, c, ns, m)}
  BY <1>1
<1>3. QED BY <1>2, SequenceOver DEF OwnSeq

\* ... or hold.
LEMMA PlainIntro ==
    ASSUME NEW c, NEW S, NEW s \in Seq(S), \A m \in S : Plain(c, m) PROVE PlainSeq(c, s)
<1>1. ToSet(s) \subseteq S
  BY DEF ToSet
<1>2. ToSet(s) \subseteq {m \in ToSet(s) : Plain(c, m)}
  BY <1>1
<1>3. QED BY <1>2, SequenceOver DEF PlainSeq

\* RecoverySystem is a message without reasoning.
LEMMA SystemPlain == ASSUME NEW c PROVE Plain(c, RecoverySystem)
<1>1. <<>> \in Seq(ToSet(<<>>))
  OBVIOUS
<1>2. QED BY <1>1 DEF Plain, IsMessage, RecoverySystem

\* What carries no reasoning is nobody else's.
LEMMA PlainOwn ==
    ASSUME NEW R, NEW c, NEW ns, NEW m, Plain(c, m) PROVE Own(R, c, ns, m)
BY DEF Plain, Own

\* Normalization adds no reasoning.
LEMMA NormalizedMessage ==
    ASSUME NEW m, IsMessage(m), NEW k \in BOOLEAN
    PROVE  /\ IsMessage(Normalized(m, k))
           /\ Normalized(m, k).reasoning \in {m.reasoning, NoReasoning}
<1>1. <<>> \in Seq(ToSet(<<>>))
  OBVIOUS
<1>2. QED BY <1>1 DEF IsMessage, Normalized

\* A fresh request holds only what the client sent and the instruction.
LEMMA PreparedOwned ==
    ASSUME NEW R, NEW c, NEW p, NEW messages, PlainSeq(c, messages)
    PROVE  LET r == Prepared(p, messages)
           IN  r.phase = "repair" /\ RequestOwned(R, c, r)
<1> DEFINE r == Prepared(p, messages)
           pre == NormalizedAll(messages, KeepReasoning)
           S == {Normalized(messages[i], KeepReasoning) : i \in DOMAIN messages} \cup {RecoverySystem}
<1>1. KeepReasoning \in BOOLEAN
  BY DEF KeepReasoning
<1>2. PICK n \in Nat : messages \in [1..n -> {m \in ToSet(messages) : Plain(c, m)}]
  BY DEF PlainSeq
<1>3. \A i \in 1..n : Plain(c, messages[i])
  BY <1>2
<1>4. \A m \in S : Plain(c, m)
  BY <1>1, <1>2, <1>3, NormalizedMessage, SystemPlain DEF Plain
<1>5. pre \in [1..n -> S]
  BY <1>2 DEF NormalizedAll
<1> HIDE DEF S
<1>6. pre \in Seq(S) /\ RecoverySystem \in S
  BY <1>5 DEF S
<1>7. /\ r.src \in {pre, ActiveMessagesFromRecoveryBoundary(pre)}
      /\ DOMAIN r = DOMAIN Idle
      /\ r.phase = "repair" /\ r.out = <<>> /\ ~r.backfill
  BY DEF Prepared, Idle
<1>8. r.src \in Seq(S)
  BY <1>6, <1>7, ActiveElements
<1>9. \A m \in S : Own(R, c, r.ns, m)
  BY <1>4, PlainOwn
<1> HIDE DEF r
<1>10. OwnSeq(R, c, r.ns, r.src)
  BY <1>8, <1>9, OwnIntro
<1>11. OwnSeq(R, c, r.ns, r.out)
  <2>1. r.out \in Seq({})
    BY <1>7
  <2>2. QED BY <2>1, OwnIntro
<1>12. QED BY <1>7, <1>10, <1>11 DEF r, RequestOwned

-----------------------------------------------------------------------------
(* The cache. *)

\* What a lookup finds was produced in the namespace it is looked up in.
LEMMA LookupOwned ==
    ASSUME RowsOwned(responses, cache), NEW m, m.calls \in Seq(ToSet(m.calls)), NEW ns, NEW prior,
           LookupForMessage(m, ns, prior) # NoReasoning
    PROVE  /\ LookupForMessage(m, ns, prior) \in DOMAIN responses
           /\ responses[LookupForMessage(m, ns, prior)].ns = ns
<1> DEFINE keys == MessageKeys(m, ConversationScope(prior, ns), ns, prior)
           hits == {i \in DOMAIN keys : keys[i] \in DOMAIN cache}
<1>1. ConversationScope(prior, ns).namespace = ns
  BY DEF ConversationScope
<1>2. DOMAIN keys \subseteq Nat /\ \A i \in DOMAIN keys : keys[i].place.namespace = ns
  <2>1. /\ \A k \in ToSet(keys) : k.place.namespace = ns
        /\ DOMAIN keys \subseteq Nat
    BY <1>1, KeysNamespace
  <2>2. QED BY <2>1 DEF ToSet
<1> HIDE DEF keys
<1>3. hits # {} /\ LookupForMessage(m, ns, prior) = cache[keys[Min(hits)]]
  BY DEF LookupForMessage, keys
<1>4. Min(hits) \in hits
  <2>1. hits \subseteq Nat
    BY <1>2
  <2> HIDE DEF hits
  <2>2. QED BY <1>3, <2>1, MinIn
<1>5. QED BY <1>2, <1>3, <1>4 DEF RowsOwned

\* Rows under the namespace of a response may be written with it.
LEMMA WrittenOwned ==
    ASSUME NEW c0, NEW R, NEW K, NEW r, NEW ns, r \in DOMAIN R, R[r].ns = ns,
           \A k \in K : k.place.namespace = ns,
           RowsOwned(R, c0),
           NEW c1, c1 = [k \in DOMAIN c0 \cup K |-> IF k \in K THEN r ELSE c0[k]]
    PROVE  RowsOwned(R, c1)
BY DEF RowsOwned

\* A backfill keeps the rows owned.
LEMMA BackfillOwned ==
    ASSUME RowsOwned(responses, cache), NEW m, m.calls \in Seq(ToSet(m.calls)), NEW ns, NEW prior, NEW r,
           r \in DOMAIN responses, responses[r].ns = ns,
           NEW c1, c1 = BackfillPortableAliases(cache, m, r, ns, prior)
    PROVE  RowsOwned(responses, c1)
<1> DEFINE K == {k \in ToSet(PortableReasoningKeys(m, ns, prior)) : IsKey(k)}
<1>1. \A k \in K : k.place.namespace = ns
  <2> HIDE DEF K
  <2>1. ConversationScope(prior, ns).namespace = ns
    BY DEF ConversationScope
  <2>2. \A k \in ToSet(PortableReasoningKeys(m, ns, prior)) : k.place.namespace = ns
    <3> DEFINE scope == ConversationScope(prior, ns)
    <3> HIDE DEF scope
    <3>1. scope.namespace = ns
      BY <2>1 DEF scope
    <3>2. QED BY <3>1, KeysNamespace
  <2>3. QED BY <2>2 DEF K
<1>2. c1 = [k \in DOMAIN cache \cup K |-> IF k \in K THEN r ELSE cache[k]]
  BY DEF BackfillPortableAliases
<1> HIDE DEF K
<1>3. QED BY <1>1, <1>2, WrittenOwned DEF RowsOwned

\* So does recording a response under one of the contexts.
LEMMA StoreOwned ==
    ASSUME NEW c0, NEW R, NEW m, m.calls \in Seq(ToSet(m.calls)), NEW scope, NEW ns, NEW prior,
           scope.namespace = ns,
           m.reasoning # NoReasoning => m.reasoning \in DOMAIN R /\ R[m.reasoning].ns = ns,
           RowsOwned(R, c0),
           NEW c1, c1 = StoreAssistantMessage(c0, m, scope, ns, prior)
    PROVE  RowsOwned(R, c1)
<1> DEFINE K == IF m.reasoning = NoReasoning THEN {}
                ELSE {k \in ToSet(MessageKeys(m, scope, ns, prior)) : IsKey(k)}
<1>1. \A k \in K : k.place.namespace = ns
  BY KeysNamespace
<1>2. c1 = [k \in DOMAIN c0 \cup K |-> IF k \in K THEN m.reasoning ELSE c0[k]]
  BY DEF StoreAssistantMessage
<1>3. CASE m.reasoning = NoReasoning
  BY <1>2, <1>3 DEF RowsOwned
<1>4. CASE m.reasoning # NoReasoning
  <2> HIDE DEF K
  <2>1. QED BY <1>1, <1>2, <1>4, WrittenOwned DEF RowsOwned
<1>5. QED BY <1>3, <1>4

-----------------------------------------------------------------------------
(* What a step may do to the state. *)

\* Any element of such a sequence, and the sequence with one more or one less.
LEMMA OwnElement ==
    ASSUME NEW R, NEW c, NEW ns, NEW s, OwnSeq(R, c, ns, s)
    PROVE  /\ \A i \in DOMAIN s : Own(R, c, ns, s[i])
           /\ \A m : Own(R, c, ns, m) => OwnSeq(R, c, ns, Append(s, m))
<1> DEFINE S == {m \in ToSet(s) : Own(R, c, ns, m)}
<1>1. s \in Seq(S)
  BY DEF OwnSeq
<1>2. \A m \in S : Own(R, c, ns, m)
  OBVIOUS
<1> HIDE DEF S
<1>3. ASSUME NEW m, Own(R, c, ns, m) PROVE OwnSeq(R, c, ns, Append(s, m))
  <2>1. Append(s, m) \in Seq(S \cup {m})
    BY <1>1
  <2>2. \A x \in S \cup {m} : Own(R, c, ns, x)
    BY <1>2, <1>3
  <2>3. QED BY <2>1, <2>2, OwnIntro
<1>4. QED BY <1>1, <1>2, <1>3

\* What is plain throughout is plain at each place, and stays so when a plain
\* message is added or the last one is dropped.
LEMMA PlainElement ==
    ASSUME NEW c, NEW s, PlainSeq(c, s)
    PROVE  /\ \A i \in DOMAIN s : Plain(c, s[i])
           /\ \A m : Plain(c, m) => PlainSeq(c, Append(s, m))
           /\ s # <<>> => PlainSeq(c, Front(s))
<1> DEFINE S == {m \in ToSet(s) : Plain(c, m)}
<1>1. s \in Seq(S)
  BY DEF PlainSeq
<1>2. \A m \in S : Plain(c, m)
  OBVIOUS
<1> HIDE DEF S
<1>3. ASSUME NEW m, Plain(c, m) PROVE PlainSeq(c, Append(s, m))
  <2>1. Append(s, m) \in Seq(S \cup {m})
    BY <1>1
  <2>2. \A x \in S \cup {m} : Plain(c, x)
    BY <1>2, <1>3
  <2>3. QED BY <2>1, <2>2, PlainIntro
<1>4. ASSUME s # <<>> PROVE PlainSeq(c, Front(s))
  <2>1. Front(s) \in Seq(S)
    BY <1>1, <1>4 DEF Front
  <2>2. QED BY <1>2, <2>1, PlainIntro
<1>5. QED BY <1>1, <1>2, <1>3, <1>4

\* An idle client has no request to speak of.
LEMMA IdleOwned == ASSUME NEW R, NEW c PROVE RequestOwned(R, c, Idle)
<1>1. ASSUME NEW s, s = <<>>, NEW ns PROVE OwnSeq(R, c, ns, s)
  <2>1. s \in Seq({})
    BY <1>1
  <2>2. QED BY <2>1, OwnIntro
<1>2. OwnSeq(R, c, Idle.ns, <<>>)
  BY <1>1
<1>3. QED BY <1>2 DEF RequestOwned, Idle

\* One request, and the rows of the cache.
LEMMA RequestStep ==
    ASSUME Owned, NEW c \in Clients, NEW r, RequestOwned(responses, c, r),
           req' = [req EXCEPT ![c] = r], RowsOwned(responses, cache'),
           UNCHANGED <<conv, responses>>
    PROVE  Owned'
<1>1. \A d \in Clients : req'[d] = IF d = c THEN r ELSE req[d]
  BY DEF Owned
<1>2. req' = [d \in Clients |-> req'[d]]
  BY DEF Owned
<1>3. QED BY <1>1, <1>2 DEF Owned

\* A client sends what it holds.
LEMMA SendStep ==
    ASSUME Owned, NEW c \in Clients, NEW messages, PlainSeq(c, messages), Send(c, messages)
    PROVE  Owned'
<1>1. RequestOwned(responses, c, Prepared(profile[c], messages))
  BY PreparedOwned
<1>2. /\ req' = [req EXCEPT ![c] = Prepared(profile[c], messages)]
      /\ conv' = [conv EXCEPT ![c] = messages]
      /\ UNCHANGED <<cache, responses>>
  BY DEF Send
<1>3. \A d \in Clients : /\ req'[d] = IF d = c THEN Prepared(profile[c], messages) ELSE req[d]
                         /\ conv'[d] = IF d = c THEN messages ELSE conv[d]
  BY <1>2 DEF Owned
<1>4. req' = [d \in Clients |-> req'[d]] /\ conv' = [d \in Clients |-> conv'[d]]
  BY <1>2 DEF Owned
<1>5. QED BY <1>1, <1>2, <1>3, <1>4 DEF Owned

-----------------------------------------------------------------------------
(* The steps. *)

\* What a client sends is plain: its own messages hold nothing but what it
\* keeps, and a new one has no reasoning.
LEMMA SentPlain ==
    ASSUME Owned, NEW c \in Clients,
           Ask(c) \/ AnswerCall(c) \/ Retry(c) \/ Regenerate(c)
    PROVE  \E messages : PlainSeq(c, messages) /\ Send(c, messages)
<1>1. PlainSeq(c, conv[c])
  BY DEF Owned
<1>2. \A role, content : Plain(c, Message(role, content))
  <2>1. <<>> \in Seq(ToSet(<<>>))
    OBVIOUS
  <2>2. QED BY <2>1 DEF Plain, IsMessage, Message
<1>3. CASE Ask(c)
  <2>1. PICK q \in Questions : Send(c, Append(conv[c], Message("user", q)))
    BY <1>3 DEF Ask
  <2>2. PlainSeq(c, Append(conv[c], Message("user", q)))
    BY <1>1, <1>2, PlainElement
  <2>3. QED BY <2>1, <2>2
<1>4. CASE AnswerCall(c)
  <2> DEFINE m == Message(ToolRole(c), <<Last(conv[c]).calls[1].id>>)
  <2>1. Send(c, Append(conv[c], m))
    BY <1>4 DEF AnswerCall
  <2>2. Plain(c, m)
    BY <1>2
  <2> HIDE DEF m
  <2>3. PlainSeq(c, Append(conv[c], m))
    BY <1>1, <2>2, PlainElement
  <2>4. QED BY <2>1, <2>3
<1>5. CASE Retry(c)
  BY <1>1, <1>5 DEF Retry
<1>6. CASE Regenerate(c)
  <2>1. conv[c] # <<>> /\ Send(c, Front(conv[c]))
    BY <1>6 DEF Regenerate
  <2>2. PlainSeq(c, Front(conv[c]))
    BY <1>1, <2>1, PlainElement
  <2>3. QED BY <2>1, <2>2
<1>7. QED BY <1>3, <1>4, <1>5, <1>6

\* The last element of a sequence that has just been made longer.
LEMMA LastOfAppend ==
    ASSUME NEW S, NEW s \in Seq(S), NEW e
    PROVE  Append(s, e) # <<>> /\ Last(Append(s, e)) = e
BY DEF Last

\* What normalizing a message does to its request.
LEMMA NormalizeCases ==
    ASSUME Owned, NEW c \in Clients, NormalizeMessage(c)
    PROVE  LET r == req[c]
               i == Len(r.out) + 1
               m == Normalized(r.src[i], KeepReasoning)
               found == LookupForMessage(m, r.ns, r.out)
               restored == [m EXCEPT !.reasoning = found]
               lacking == ThinkingEnabled /\ m.role = "assistant" /\ m.reasoning = NoReasoning
           IN  /\ r.phase = "repair" /\ ~r.backfill
               /\ \/ /\ found # NoReasoning /\ lacking
                     /\ req' = [req EXCEPT ![c] = [r EXCEPT !.out = Append(@, restored),
                                                           !.backfill = TRUE]]
                  \/ /\ found = NoReasoning /\ lacking
                     /\ req' = [req EXCEPT ![c] = [r EXCEPT !.out = Append(@, m),
                                                           !.missing = r.missing \cup {i}]]
                  \/ /\ ThinkingEnabled /\ m.role = "assistant"
                        /\ AssistantNeedsReasoning(m, r.out) => m.reasoning # NoReasoning
                     /\ req' = [req EXCEPT ![c] = [r EXCEPT !.out = Append(@, m),
                                                           !.missing = r.missing]]
<1> DEFINE r == req[c]
           i == Len(r.out) + 1
           m == Normalized(r.src[i], KeepReasoning)
           found == LookupForMessage(m, r.ns, r.out)
           restored == [m EXCEPT !.reasoning = found]
           lacking == ThinkingEnabled /\ m.role = "assistant" /\ m.reasoning = NoReasoning
           fine == ThinkingEnabled /\ m.role = "assistant"
                     /\ AssistantNeedsReasoning(m, r.out) => m.reasoning # NoReasoning
<1>1. /\ r.phase = "repair" /\ ~r.backfill
      /\ \/ /\ found # NoReasoning /\ lacking
            /\ req' = [req EXCEPT ![c].out = Append(@, restored), ![c].backfill = TRUE]
         \/ /\ found = NoReasoning /\ lacking
            /\ req' = [req EXCEPT ![c].out = Append(@, m), ![c].missing = @ \cup {i}]
         \/ /\ fine
            /\ req' = [req EXCEPT ![c].out = Append(@, m)]
  BY DEF NormalizeMessage
<1>2. c \in DOMAIN req /\ DOMAIN r = DOMAIN Idle
  BY DEF Owned, RequestOwned
<1> HIDE DEF m, found, restored, lacking, i, fine
<1>3. [req EXCEPT ![c].out = Append(@, restored), ![c].backfill = TRUE]
         = [req EXCEPT ![c] = [r EXCEPT !.out = Append(@, restored), !.backfill = TRUE]]
  BY <1>2 DEF Idle
<1>4. [req EXCEPT ![c].out = Append(@, m), ![c].missing = @ \cup {i}]
         = [req EXCEPT ![c] = [r EXCEPT !.out = Append(@, m), !.missing = r.missing \cup {i}]]
  BY <1>2 DEF Idle
<1>5. [req EXCEPT ![c].out = Append(@, m)]
         = [req EXCEPT ![c] = [r EXCEPT !.out = Append(@, m), !.missing = r.missing]]
  BY <1>2 DEF Idle
<1>6. QED BY <1>1, <1>3, <1>4, <1>5 DEF m, found, restored, lacking, i, fine

\* One message is normalized: what is restored comes from the namespace of the
\* request.
LEMMA NormalizeStep ==
    ASSUME ConversationAssumption, Owned, NEW c \in Clients, NormalizeMessage(c)
    PROVE  Owned'
<1> DEFINE r == req[c]
           src == r.src[Len(r.out) + 1]
           m == Normalized(src, KeepReasoning)
           found == LookupForMessage(m, r.ns, r.out)
           restored == [m EXCEPT !.reasoning = found]
<1>1. RequestOwned(responses, c, r) /\ RowsOwned(responses, cache)
  BY DEF Owned
<1>2. Own(responses, c, r.ns, src)
  <2>1. OwnSeq(responses, c, r.ns, r.src) /\ OwnSeq(responses, c, r.ns, r.out)
    BY <1>1 DEF RequestOwned
  <2>2. Len(r.out) + 1 \in DOMAIN r.src
    BY <2>1 DEF NormalizeMessage, OwnSeq
  <2> HIDE DEF r
  <2>3. QED BY <2>1, <2>2, OwnElement
<1>3. Own(responses, c, r.ns, m) /\ IsMessage(m)
  <2> HIDE DEF src, r
  <2>1. KeepReasoning \in BOOLEAN
    BY DEF KeepReasoning
  <2>2. IsMessage(src)
    BY <1>2 DEF Own
  <2>3. IsMessage(m) /\ m.reasoning \in {src.reasoning, NoReasoning}
    BY <2>1, <2>2, NormalizedMessage
  <2> HIDE DEF m
  <2>4. QED BY <1>2, <2>3 DEF Own
<1>4. m.calls \in Seq(ToSet(m.calls))
  BY <1>3 DEF IsMessage
<1>5. found # NoReasoning => found \in DOMAIN responses /\ responses[found].ns = r.ns
  <2> HIDE DEF m, r
  <2>1. QED BY <1>1, <1>4, LookupOwned
<1>6. found # NoReasoning => Own(responses, c, r.ns, restored)
  <2> HIDE DEF m, r, found
  <2>1. IsMessage(restored) /\ restored.reasoning = found
    BY <1>3 DEF IsMessage
  <2>2. QED BY <1>5, <2>1 DEF Own
<1>7. \/ /\ found # NoReasoning
         /\ req' = [req EXCEPT ![c] = [r EXCEPT !.out = Append(@, restored), !.backfill = TRUE]]
      \/ \E missing : req' = [req EXCEPT ![c] = [r EXCEPT !.out = Append(@, m),
                                                         !.missing = missing]]
  BY NormalizeCases
<1>8. ~r.backfill
  BY NormalizeCases
<1>9. UNCHANGED <<conv, cache, responses>> /\ RowsOwned(responses, cache')
  BY <1>1 DEF NormalizeMessage
<1>10. CASE /\ found # NoReasoning
            /\ req' = [req EXCEPT ![c] = [r EXCEPT !.out = Append(@, restored), !.backfill = TRUE]]
  <2>1. restored.reasoning = found
    <3> HIDE DEF m, found
    <3>1. QED BY <1>3 DEF IsMessage
  <2> DEFINE r1 == [r EXCEPT !.out = Append(@, restored), !.backfill = TRUE]
  <2> HIDE DEF m, found, restored, r
  <2>2. /\ DOMAIN r1 = DOMAIN Idle /\ r1.ns = r.ns /\ r1.src = r.src
        /\ r1.out = Append(r.out, restored)
    BY <1>1 DEF RequestOwned, Idle
  <2> HIDE DEF r1
  <2>3. OwnSeq(responses, c, r.ns, r1.src) /\ OwnSeq(responses, c, r.ns, r1.out)
    BY <1>1, <1>6, <1>10, <2>2, OwnElement DEF RequestOwned
  <2>4. r1.out # <<>> /\ Last(r1.out) = restored
    <3>1. r.out \in Seq({x \in ToSet(r.out) : Own(responses, c, r.ns, x)})
      BY <1>1 DEF RequestOwned, OwnSeq
    <3>2. QED BY <2>2, <3>1, LastOfAppend
  <2>5. Restored(responses, r1)
    BY <1>5, <1>10, <2>1, <2>2, <2>4 DEF Restored
  <2>6. RequestOwned(responses, c, r1)
    BY <2>2, <2>3, <2>5 DEF RequestOwned
  <2>7. QED BY <1>9, <1>10, <2>6, RequestStep DEF r1
<1>11. CASE \E missing : req' = [req EXCEPT ![c] = [r EXCEPT !.out = Append(@, m),
                                                           !.missing = missing]]
  <2>1. PICK missing : req' = [req EXCEPT ![c] = [r EXCEPT !.out = Append(@, m),
                                                          !.missing = missing]]
    BY <1>11
  <2> HIDE DEF m, r
  <2>2. RequestOwned(responses, c, [r EXCEPT !.out = Append(@, m), !.missing = missing])
    BY <1>1, <1>3, <1>8, OwnElement DEF RequestOwned, Idle
  <2>3. QED BY <1>9, <2>1, <2>2, RequestStep
<1>12. QED BY <1>7, <1>10, <1>11

\* The aliases under which it is backfilled stay in the namespace too.
LEMMA BackfillStep ==
    ASSUME Owned, NEW c \in Clients, Backfill(c) PROVE Owned'
<1> DEFINE r == req[c]
           m == Last(r.out)
           prior == Front(r.out)
<1>1. /\ RequestOwned(responses, c, r) /\ RowsOwned(responses, cache)
      /\ c \in DOMAIN req /\ DOMAIN r = DOMAIN Idle
  BY DEF Owned, RequestOwned
<1>2. /\ r.backfill
      /\ cache' = BackfillPortableAliases(cache, m, m.reasoning, r.ns, prior)
      /\ req' = [req EXCEPT ![c].backfill = FALSE]
      /\ UNCHANGED <<conv, responses>>
  BY DEF Backfill
<1>3. Restored(responses, r)
  BY <1>1, <1>2 DEF RequestOwned
<1>4. m.calls \in Seq(ToSet(m.calls))
  <2>1. OwnSeq(responses, c, r.ns, r.out)
    BY <1>1 DEF RequestOwned
  <2>2. Len(r.out) \in DOMAIN r.out /\ m = r.out[Len(r.out)]
    BY <1>3, <2>1 DEF Restored, OwnSeq, Last
  <2> HIDE DEF r, m
  <2>3. Own(responses, c, r.ns, m)
    BY <2>1, <2>2, OwnElement
  <2>4. QED BY <2>3 DEF Own, IsMessage
<1>5. RowsOwned(responses, cache')
  <2>1. m.reasoning \in DOMAIN responses /\ responses[m.reasoning].ns = r.ns
    BY <1>3 DEF Restored
  <2> HIDE DEF r, m, prior
  <2>2. QED BY <1>1, <1>2, <1>4, <2>1, BackfillOwned
<1> DEFINE r1 == [r EXCEPT !.backfill = FALSE]
<1>6. req' = [req EXCEPT ![c] = r1]
  BY <1>2
<1> HIDE DEF r
<1>7. RequestOwned(responses, c, r1)
  BY <1>1 DEF RequestOwned, Idle
<1>8. QED BY <1>2, <1>5, <1>6, <1>7, RequestStep

\* A round of recovery leaves messages of the request and the instruction.
LEMMA RecoverStep ==
    ASSUME Owned, NEW c \in Clients, RecoverRequest(c) PROVE Owned'
<1> DEFINE r == req[c]
           kept == Recovery(c).messages
<1>1. /\ RequestOwned(responses, c, r) /\ RowsOwned(responses, cache)
      /\ c \in DOMAIN req /\ DOMAIN r = DOMAIN Idle
  BY DEF Owned, RequestOwned
<1>2. OwnSeq(responses, c, r.ns, kept)
  <2> DEFINE S == {m \in ToSet(r.out) : Own(responses, c, r.ns, m)} \cup {RecoverySystem}
  <2>1. \A m \in S : Own(responses, c, r.ns, m)
    BY SystemPlain, PlainOwn
  <2>2. r.out \in Seq(S)
    <3>1. r.out \in Seq({m \in ToSet(r.out) : Own(responses, c, r.ns, m)})
      BY <1>1 DEF RequestOwned, OwnSeq
    <3>2. QED BY <3>1
  <2>3. RecoverySystem \in S
    OBVIOUS
  <2> HIDE DEF S
  <2>4. kept \in Seq(S)
    BY <2>2, <2>3, RecoveredElements DEF Recovery
  <2> HIDE DEF r, kept
  <2>5. QED BY <2>1, <2>4, OwnIntro
<1>3. /\ UNCHANGED <<conv, responses, cache>> /\ ~r.backfill
      /\ \E notice :
            \/ req' = [req EXCEPT ![c].phase = "forwarded", ![c].notice = notice]
            \/ req' = [req EXCEPT ![c].src = kept, ![c].out = <<>>,
                                  ![c].missing = {}, ![c].notice = notice]
  BY DEF RecoverRequest, PassDone
<1>4. PICK notice :
         \/ req' = [req EXCEPT ![c].phase = "forwarded", ![c].notice = notice]
         \/ req' = [req EXCEPT ![c].src = kept, ![c].out = <<>>,
                               ![c].missing = {}, ![c].notice = notice]
  BY <1>3
<1> HIDE DEF r, kept
<1>5. CASE req' = [req EXCEPT ![c].phase = "forwarded", ![c].notice = notice]
  <2>1. req' = [req EXCEPT ![c] = [r EXCEPT !.phase = "forwarded", !.notice = notice]]
    BY <1>1, <1>5 DEF Idle, r
  <2>2. RequestOwned(responses, c, [r EXCEPT !.phase = "forwarded", !.notice = notice])
    BY <1>1, <1>3 DEF RequestOwned, Idle
  <2>3. QED BY <1>1, <1>3, <2>1, <2>2, RequestStep
<1>6. CASE req' = [req EXCEPT ![c].src = kept, ![c].out = <<>>,
                              ![c].missing = {}, ![c].notice = notice]
  <2> DEFINE next == [r EXCEPT !.src = kept, !.out = <<>>, !.missing = {}, !.notice = notice]
  <2>1. req' = [req EXCEPT ![c] = next]
    BY <1>1, <1>6 DEF Idle, r
  <2>2. /\ DOMAIN next = DOMAIN Idle
        /\ next.ns = r.ns /\ next.src = kept /\ next.out = <<>>
        /\ next.backfill = r.backfill
    BY <1>1 DEF Idle
  <2> HIDE DEF next
  <2>3. OwnSeq(responses, c, next.ns, next.out)
    <3>1. next.out \in Seq({})
      BY <2>2
    <3>2. QED BY <3>1, OwnIntro
  <2>4. RequestOwned(responses, c, next)
    BY <1>2, <1>3, <2>2, <2>3 DEF RequestOwned
  <2>5. QED BY <1>1, <1>3, <2>1, <2>4, RequestStep
<1>7. QED BY <1>4, <1>5, <1>6

\* The ends of a request that record nothing.
LEMMA EndSteps ==
    ASSUME Owned, NEW c \in Clients, Forward(c) \/ Reject(c) \/ UpstreamFails(c)
    PROVE  Owned'
<1> DEFINE r == req[c]
<1>1. /\ RequestOwned(responses, c, r) /\ RowsOwned(responses, cache)
      /\ c \in DOMAIN req /\ DOMAIN r = DOMAIN Idle
  BY DEF Owned, RequestOwned
<1>2. UNCHANGED <<conv, responses, cache>>
  BY DEF Forward, Reject, UpstreamFails
<1>3. CASE req' = [req EXCEPT ![c] = Idle]
  BY <1>1, <1>2, <1>3, IdleOwned, RequestStep
<1>4. CASE req' = [req EXCEPT ![c].phase = "forwarded"]
  <2>1. req' = [req EXCEPT ![c] = [r EXCEPT !.phase = "forwarded"]]
    BY <1>4
  <2> HIDE DEF r
  <2>2. RequestOwned(responses, c, [r EXCEPT !.phase = "forwarded"])
    BY <1>1 DEF RequestOwned, Restored, Idle
  <2>3. QED BY <1>1, <1>2, <2>1, <2>2, RequestStep
<1>5. QED BY <1>3, <1>4 DEF Forward, Reject, UpstreamFails

\* One response more: what was owned still is.
LEMMA MoreResponses ==
    ASSUME NEW S, NEW R \in Seq(S), NEW x, NEW R1, R1 = Append(R, x)
    PROVE  R1 \in Seq(ToSet(R1))
<1>1. R1 \in Seq(S \cup {x})
  OBVIOUS
<1>2. ToSet(R1) \subseteq ToSet(R1)
  OBVIOUS
<1>3. QED BY <1>1, <1>2, SequenceOver

\* What is owned stays owned when the upstream answers once more.
LEMMA OwnGrows ==
    ASSUME NEW R, NEW R1, \A i \in DOMAIN R : i \in DOMAIN R1 /\ R1[i] = R[i]
    PROVE  /\ \A rows : RowsOwned(R, rows) => RowsOwned(R1, rows)
           /\ \A c, r : RequestOwned(R, c, r) => RequestOwned(R1, c, r)
<1>1. \A c, ns, m : Own(R, c, ns, m) => Own(R1, c, ns, m)
  BY DEF Own
<1>2. ASSUME NEW c, NEW ns, NEW s, OwnSeq(R, c, ns, s) PROVE OwnSeq(R1, c, ns, s)
  <2> DEFINE S == {m \in ToSet(s) : Own(R, c, ns, m)}
  <2>1. s \in Seq(S)
    BY <1>2 DEF OwnSeq
  <2>2. \A m \in S : Own(R1, c, ns, m)
    BY <1>1
  <2> HIDE DEF S
  <2>3. QED BY <2>1, <2>2, OwnIntro
<1>3. \A r : Restored(R, r) => Restored(R1, r)
  BY DEF Restored
<1>4. QED BY <1>2, <1>3 DEF RowsOwned, RequestOwned

\* An answer is recorded under keys of its own namespace, and a client that
\* does not keep reasoning keeps it without.
LEMMA RespondStep ==
    ASSUME ConversationAssumption, Owned, NEW c \in Clients, Respond(c) PROVE Owned'
<1> DEFINE n == Len(responses) + 1
<1>1. PICK a \in Answers, calls \in Calls :
         LET m == [role |-> "assistant", content |-> req[c].notice \o a, calls |-> calls,
                   reasoning |-> IF KeepReasoning THEN n ELSE NoReasoning, from |-> n]
         IN  /\ cache' = Recorded(c, m)
             /\ \E x, y : responses' = Append(responses, [ns |-> req[c].ns, message |-> x,
                                                          shortened |-> y])
             /\ \/ conv' = [conv EXCEPT ![c] = Append(@, Delivered(c, m))]
                \/ UNCHANGED conv
  BY Zenon DEF Respond
<1> DEFINE m == [role |-> "assistant", content |-> req[c].notice \o a, calls |-> calls,
                 reasoning |-> IF KeepReasoning THEN n ELSE NoReasoning, from |-> n]
<1>2. /\ cache' = Recorded(c, m)
      /\ \/ conv' = [conv EXCEPT ![c] = Append(@, Delivered(c, m))]
         \/ UNCHANGED conv
  BY <1>1
<1>3. req' = [req EXCEPT ![c] = Idle]
  BY DEF Respond
<1>4. /\ responses' \in Seq(ToSet(responses'))
      /\ \A i \in DOMAIN responses : i \in DOMAIN responses' /\ responses'[i] = responses[i]
      /\ n \in DOMAIN responses' /\ responses'[n].ns = req[c].ns
  <2>1. responses \in Seq(ToSet(responses))
    BY DEF Owned
  <2>2. PICK x : responses' = Append(responses, x) /\ x.ns = req[c].ns
    <3>1. PICK y, z : responses' = Append(responses, [ns |-> req[c].ns, message |-> y,
                                                      shortened |-> z])
      BY <1>1
    <3>2. [ns |-> req[c].ns, message |-> y, shortened |-> z].ns = req[c].ns
      OBVIOUS
    <3>3. QED BY <3>1, <3>2
  <2>3. ASSUME NEW R1, R1 = Append(responses, x)
        PROVE  /\ R1 \in Seq(ToSet(R1))
               /\ \A i \in DOMAIN responses : i \in DOMAIN R1 /\ R1[i] = responses[i]
               /\ Len(responses) + 1 \in DOMAIN R1 /\ R1[Len(responses) + 1] = x
    <3> DEFINE S == ToSet(responses)
    <3>1. responses \in Seq(S)
      BY <2>1
    <3> HIDE DEF S
    <3>2. R1 \in Seq(ToSet(R1))
      BY <2>3, <3>1, MoreResponses
    <3>3. \A i \in DOMAIN responses : i \in DOMAIN R1 /\ R1[i] = responses[i]
      BY <2>3, <3>1
    <3>4. Len(responses) + 1 \in DOMAIN R1 /\ R1[Len(responses) + 1] = x
      BY <2>3, <3>1
    <3>5. QED BY <3>2, <3>3, <3>4
  <2>4. QED BY <2>2, <2>3, Zenon
<1>5. m.calls \in Seq(ToSet(m.calls))
  <2>1. calls = <<>> \/ \E call : calls = <<call>>
    BY DEF Calls, NoCall
  <2>2. CASE calls = <<>>
    BY <2>2
  <2>3. CASE \E call : calls = <<call>>
    <3>1. PICK call : calls = <<call>>
      BY <2>3
    <3>2. call \in ToSet(calls)
      BY <3>1 DEF ToSet
    <3>3. m.calls = calls
      OBVIOUS
    <3>4. QED BY <3>1, <3>2, <3>3
  <2>4. QED BY <2>1, <2>2, <2>3
<1>6. IsMessage(m)
  BY <1>5 DEF IsMessage
<1>7. m.reasoning # NoReasoning => m.reasoning = n
  OBVIOUS
<1>8. Plain(c, Delivered(c, m))
  <2> HIDE DEF m
  <2>1. IsMessage(Delivered(c, m))
    BY <1>6 DEF IsMessage, Delivered
  <2>2. c \notin Keepers => Delivered(c, m).reasoning = NoReasoning
    BY <1>6 DEF IsMessage, Delivered
  <2>3. QED BY <2>1, <2>2 DEF Plain
<1> HIDE DEF m, n
<1>9. RowsOwned(responses', cache')
  <2> DEFINE r == req[c]
             recordScope == ConversationScope(r.pre, r.ns)
             activeScope == ConversationScope(r.out, r.ns)
             first == StoreAssistantMessage(cache, m, recordScope, r.ns, r.pre)
             second == StoreAssistantMessage(first, m, activeScope, r.ns, r.out)
  <2>1. RowsOwned(responses', cache)
    BY <1>4, OwnGrows DEF Owned
  <2>2. recordScope.namespace = r.ns /\ activeScope.namespace = r.ns
    BY DEF ConversationScope
  <2>3. m.reasoning # NoReasoning =>
          m.reasoning \in DOMAIN responses' /\ responses'[m.reasoning].ns = r.ns
    BY <1>4, <1>7
  <2>4. cache' = first \/ cache' = second
    BY <1>2 DEF Recorded
  <2> HIDE DEF recordScope, activeScope, r
  <2>5. RowsOwned(responses', first)
    BY <1>5, <2>1, <2>2, <2>3, StoreOwned
  <2> HIDE DEF first
  <2>6. RowsOwned(responses', second)
    BY <1>5, <2>2, <2>3, <2>5, StoreOwned
  <2> HIDE DEF second
  <2>7. QED BY <2>4, <2>5, <2>6
<1>10. \A d \in Clients : RequestOwned(responses', d, req'[d])
  <2>1. \A d \in Clients : req'[d] = IF d = c THEN Idle ELSE req[d]
    BY <1>3 DEF Owned
  <2>2. \A d \in Clients : RequestOwned(responses, d, req[d])
    BY DEF Owned
  <2>3. QED BY <1>4, <2>1, <2>2, IdleOwned, OwnGrows
<1>11. /\ conv' = [d \in Clients |-> conv'[d]]
       /\ \A d \in Clients : PlainSeq(d, conv'[d])
  <2>1. PlainSeq(c, Append(conv[c], Delivered(c, m)))
    BY <1>8, PlainElement DEF Owned
  <2>2. CASE UNCHANGED conv
    BY <2>2 DEF Owned
  <2>3. CASE conv' = [conv EXCEPT ![c] = Append(@, Delivered(c, m))]
    BY <2>1, <2>3 DEF Owned
  <2>4. QED BY <1>2, <2>2, <2>3
<1>12. req' = [d \in Clients |-> req'[d]]
  BY <1>3 DEF Owned
<1>13. QED BY <1>4, <1>9, <1>10, <1>11, <1>12 DEF Owned

\* A row that is lost is nobody's, and nothing else changes.
LEMMA LossSteps ==
    ASSUME Owned, Evict \/ ClearCache \/ UNCHANGED vars \/ \E c \in Clients : SwitchProfile(c)
    PROVE  Owned'
<1>1. RowsOwned(responses, cache')
  <2>1. CASE Evict
    <3>1. PICK k \in DOMAIN cache : cache' = [y \in DOMAIN cache \ {k} |-> cache[y]]
      BY <2>1 DEF Evict
    <3>2. QED BY <3>1 DEF Owned, RowsOwned
  <2>2. CASE ClearCache
    BY <2>2 DEF ClearCache, RowsOwned
  <2>3. CASE UNCHANGED cache
    BY <2>3 DEF Owned
  <2>4. QED BY <2>1, <2>2, <2>3 DEF SwitchProfile, vars
<1>2. UNCHANGED <<conv, req, responses>>
  BY DEF Evict, ClearCache, SwitchProfile, vars
<1>3. QED BY <1>1, <1>2 DEF Owned

-----------------------------------------------------------------------------

\* The state a store is opened in holds nobody's reasoning.
LEMMA InitOwned == ConversationAssumption /\ Init => Owned
<1> SUFFICES ASSUME ConversationAssumption, Init PROVE Owned
  OBVIOUS
<1>1. \A c \in Clients : PlainSeq(c, conv[c])
  <2> SUFFICES ASSUME NEW c \in Clients PROVE PlainSeq(c, conv[c])
    OBVIOUS
  <2>1. conv[c] \in Histories
    BY DEF Init
  <2>2. /\ conv[c] \in Seq(ToSet(conv[c]))
        /\ \A m \in ToSet(conv[c]) : Plain(c, m)
    BY <2>1 DEF ConversationAssumption, Plain
  <2>3. QED BY <2>2, PlainIntro
<1>2. \A c \in Clients : req[c] = Idle /\ RequestOwned(responses, c, Idle)
  BY IdleOwned DEF Init
<1>3. responses \in Seq(ToSet(responses)) /\ RowsOwned(responses, cache)
  BY DEF Init, RowsOwned
<1>4. conv = [c \in Clients |-> conv[c]] /\ req = [c \in Clients |-> req[c]]
  BY DEF Init
<1>5. QED BY <1>1, <1>2, <1>3, <1>4 DEF Owned

\* Whatever is interleaved with whatever, what a request carries is its own:
\* the invariant holds in every state.
THEOREM OwnedHolds == Spec => []Owned
<1>1. ConversationAssumption
  BY ConversationAssumption
<1>2. Init => Owned
  BY <1>1, InitOwned
<1>3. Owned /\ [Next]_vars => Owned'
  <2> SUFFICES ASSUME Owned, [Next]_vars PROVE Owned'
    OBVIOUS
  <2>1. ASSUME NEW c \in Clients, Handle(c) PROVE Owned'
    BY <1>1, <2>1, NormalizeStep, BackfillStep, RecoverStep, EndSteps DEF Handle
  <2>2. QED BY <1>1, <2>1, SentPlain, SendStep, RespondStep, EndSteps, LossSteps DEF Next
<1>4. QED BY <1>2, <1>3, PTL DEF Spec

\* A message restored from the cache carries reasoning the upstream produced
\* for the same namespace, for every number of clients, whatever their keys
\* share, and however their requests, answers and evictions interleave.
THEOREM IsolationHolds == Spec => []Isolation
<1>1. Owned => Isolation
  <2> SUFFICES ASSUME Owned, NEW c \in Clients \ Keepers, NEW i \in DOMAIN req[c].out,
                      req[c].out[i].reasoning # NoReasoning
               PROVE  responses[req[c].out[i].reasoning].ns = req[c].ns
    BY DEF Isolation
  <2>1. OwnSeq(responses, c, req[c].ns, req[c].out)
    BY DEF Owned, RequestOwned
  <2>2. Own(responses, c, req[c].ns, req[c].out[i])
    BY <2>1, OwnElement
  <2>3. QED BY <2>2 DEF Own
<1>2. QED BY <1>1, OwnedHolds, PTL

-----------------------------------------------------------------------------
(* Nothing goes upstream without the reasoning it needs. *)

\* Message i of s needs reasoning, for its position in s.
NeedsAt(s, i) == /\ s[i].role = "assistant"
                 /\ AssistantNeedsReasoning(s[i], SubSeq(s, 1, i - 1))

\* A request knows what it lacks, and is sent only if it lacks nothing or if,
\* recovering, it has no user message left to fall back on.
Repaired(mode, r) ==
    /\ r.missing \subseteq {i \in DOMAIN r.out : r.out[i].role = "assistant"}
    /\ ThinkingEnabled => \A i \in DOMAIN r.out :
          NeedsAt(r.out, i) /\ i \notin r.missing => r.out[i].reasoning # NoReasoning
    /\ r.phase = "forwarded" /\ r.missing # {} =>
          mode = "recover" /\ \A i \in DOMAIN r.out : ~IsUser(r.out[i])

AllRepaired == \A c \in Clients : Repaired(strategy, req[c])

\* Among the first n messages a tool has answered in the current turn.
InToolTurn(s, n) == \E k \in 1..n : /\ s[k].role = "tool"
                                    /\ \A j \in (k + 1)..n : s[j].role \notin {"user", "system"}

\* Which depends on the roles alone.
LEMMA SameTurn ==
    ASSUME NEW s, NEW t, NEW n \in Int, \A k \in 1..n : s[k].role = t[k].role
    PROVE  InToolTurn(s, n) <=> InToolTurn(t, n)
<1>1. \A k \in 1..n : \A j \in (k + 1)..n : s[j].role = t[j].role
  OBVIOUS
<1>2. QED BY <1>1 DEF InToolTurn

\* What needs reasoning depends on the roles and the tool calls alone.
LEMMA NeedsByRoles ==
    ASSUME NEW S, NEW s \in Seq(S), NEW i \in DOMAIN s
    PROVE  NeedsAt(s, i) <=> /\ s[i].role = "assistant"
                             /\ s[i].calls # <<>> \/ InToolTurn(s, i - 1)
<1> DEFINE prior == SubSeq(s, 1, i - 1)
<1>1. /\ DOMAIN prior = 1..(i - 1) /\ Len(prior) = i - 1 /\ i - 1 \in Int
      /\ \A k \in 1..(i - 1) : prior[k] = s[k]
  OBVIOUS
<1> HIDE DEF prior
<1>2. AssistantNeedsReasoning(s[i], prior) <=> s[i].calls # <<>> \/ InToolTurn(prior, i - 1)
  BY <1>1 DEF AssistantNeedsReasoning, InToolTurn
<1>3. InToolTurn(prior, i - 1) <=> InToolTurn(s, i - 1)
  BY <1>1, SameTurn
<1>4. QED BY <1>2, <1>3 DEF NeedsAt, prior

\* A message at the end changes nothing for those before it.
LEMMA NeedsAppend ==
    ASSUME NEW S, NEW s \in Seq(S), NEW m
    PROVE  /\ \A i \in DOMAIN s : NeedsAt(Append(s, m), i) <=> NeedsAt(s, i)
           /\ NeedsAt(Append(s, m), Len(s) + 1)
                <=> m.role = "assistant" /\ AssistantNeedsReasoning(m, s)
<1> DEFINE t == Append(s, m)
<1>1. /\ t \in Seq(S \cup {m}) /\ s \in Seq(S \cup {m})
      /\ \A i \in DOMAIN s : i \in DOMAIN t /\ t[i] = s[i] /\ i \in Nat
      /\ Len(s) + 1 \in DOMAIN t /\ t[Len(s) + 1] = m
      /\ DOMAIN s = 1..Len(s) /\ Len(s) \in Nat
  OBVIOUS
<1>2. SubSeq(t, 1, (Len(s) + 1) - 1) = s
  OBVIOUS
<1> HIDE DEF t
<1>3. ASSUME NEW i \in DOMAIN s PROVE NeedsAt(t, i) <=> NeedsAt(s, i)
  <2>1. i - 1 \in Int /\ \A k \in 1..(i - 1) : t[k].role = s[k].role
    BY <1>1
  <2>2. InToolTurn(t, i - 1) <=> InToolTurn(s, i - 1)
    BY <2>1, SameTurn
  <2>3. NeedsAt(t, i) <=> /\ t[i].role = "assistant"
                          /\ t[i].calls # <<>> \/ InToolTurn(t, i - 1)
    BY <1>1, NeedsByRoles
  <2>4. NeedsAt(s, i) <=> /\ s[i].role = "assistant"
                          /\ s[i].calls # <<>> \/ InToolTurn(s, i - 1)
    BY <1>1, NeedsByRoles
  <2>5. QED BY <1>1, <2>2, <2>3, <2>4
<1>4. NeedsAt(t, Len(s) + 1) <=> m.role = "assistant" /\ AssistantNeedsReasoning(m, s)
  BY <1>1, <1>2 DEF NeedsAt
<1>5. QED BY <1>3, <1>4 DEF t

\* Nor does taking the notice off a message.
LEMMA NeedsStripped ==
    ASSUME NEW S, NEW s \in Seq(S), \A m \in S : IsMessage(m), NEW i \in DOMAIN s
    PROVE  LET p == StripRecoveryNoticeForUpstream(s)
           IN  /\ DOMAIN p = DOMAIN s
               /\ p[i].role = s[i].role /\ p[i].reasoning = s[i].reasoning
               /\ NeedsAt(p, i) <=> NeedsAt(s, i)
<1> DEFINE p == StripRecoveryNoticeForUpstream(s)
           T == {p[k] : k \in 1..Len(s)}
<1>1. /\ DOMAIN s = 1..Len(s) /\ Len(s) \in Nat
      /\ \A k \in DOMAIN s : IsMessage(s[k])
  OBVIOUS
<1>2. DOMAIN p = DOMAIN s
  BY DEF StripRecoveryNoticeForUpstream
<1>3. \A k \in DOMAIN s : /\ p[k].role = s[k].role /\ p[k].reasoning = s[k].reasoning
                          /\ p[k].calls = s[k].calls
  BY <1>1 DEF StripRecoveryNoticeForUpstream, IsMessage
<1>4. p \in Seq(T)
  <2>1. p = [k \in 1..Len(s) |-> p[k]]
    BY <1>1 DEF StripRecoveryNoticeForUpstream
  <2>2. \A k \in 1..Len(s) : p[k] \in T
    OBVIOUS
  <2> HIDE DEF p, T
  <2>3. QED BY <1>1, <2>1, <2>2
<1> HIDE DEF p, T
<1>5. NeedsAt(p, i) <=> NeedsAt(s, i)
  <2>1. i - 1 \in Int /\ \A k \in 1..(i - 1) : p[k].role = s[k].role
    BY <1>1, <1>3
  <2>2. InToolTurn(p, i - 1) <=> InToolTurn(s, i - 1)
    BY <2>1, SameTurn
  <2>3. NeedsAt(p, i) <=> /\ p[i].role = "assistant"
                          /\ p[i].calls # <<>> \/ InToolTurn(p, i - 1)
    BY <1>2, <1>4, NeedsByRoles
  <2>4. NeedsAt(s, i) <=> /\ s[i].role = "assistant"
                          /\ s[i].calls # <<>> \/ InToolTurn(s, i - 1)
    BY NeedsByRoles
  <2>5. QED BY <1>3, <2>2, <2>3, <2>4
<1>6. QED BY <1>2, <1>3, <1>5 DEF p

\* A round of recovery that omits nothing, although reasoning is missing, has
\* found no user message: every other round leaves the missing message out.
LEMMA FruitlessRecovery ==
    ASSUME NEW S, NEW messages \in Seq(S), NEW missing, missing # {},
           missing \subseteq {i \in DOMAIN messages : messages[i].role = "assistant"},
           RecoverMessagesFromMissingReasoning(messages, missing).omitted = 0
    PROVE  \A i \in DOMAIN messages : ~IsUser(messages[i])
<1> DEFINE crossed == {i \in DOMAIN messages : /\ HasRecoveryNotice(messages[i])
                                               /\ \E j \in missing : j < i}
           I == {j \in 1..Len(messages) : IsUser(messages[j])}
           lastUser == IF I # {} THEN Max(I) ELSE 0
           leading == LeadingSystemMessages(messages)
<1>1. Len(messages) \in Nat /\ DOMAIN messages = 1..Len(messages)
  OBVIOUS
<1>2. PICK n \in 0..Len(messages) : /\ leading = SubSeq(messages, 1, n)
                                    /\ \A i \in 1..n : messages[i].role = "system"
  BY LeadingIsPrefix
<1>3. Len(leading) = n
  BY <1>1, <1>2
<1>4. \A j \in missing : j \in DOMAIN messages /\ ~IsUser(messages[j]) /\ j > n
  BY <1>1, <1>2 DEF IsUser
<1>5. lastUser = SelectLastInSeq(messages, IsUser)
  BY DEF SelectLastInSeq
<1>6. I # {} => lastUser \in I /\ lastUser > n
  <2>1. I \subseteq 1..Len(messages)
    OBVIOUS
  <2>2. \A i \in I : i > n
    BY <1>2 DEF IsUser
  <2> HIDE DEF I
  <2>3. QED BY <1>1, <2>1, <2>2, MaxIn
<1>7. CASE crossed # {}
  <2> DEFINE x == Max(crossed)
             J == {j \in 1..(x - 1) : IsUser(messages[j])}
             u == IF J # {} THEN Max(J) ELSE 0
  <2>1. x \in crossed
    <3>1. crossed \subseteq 1..Len(messages)
      BY <1>1
    <3> HIDE DEF crossed
    <3>2. QED BY <1>1, <1>7, <3>1, MaxIn
  <2>2. PICK j \in missing : j < x
    BY <2>1
  <2>3. x \in DOMAIN messages
    BY <2>1
  <2>4. u = SelectLastInSubSeq(messages, 1, x - 1, IsUser)
    BY DEF SelectLastInSubSeq
  <2> HIDE DEF crossed
  <2>5. x - 1 - n - (IF u = 0 THEN 0 ELSE 1) = 0
    BY <1>3, <1>7, <2>4 DEF RecoverMessagesFromMissingReasoning, crossed
  <2> HIDE DEF x
  <2>6. u = n + 1 /\ j = n + 1 /\ IsUser(messages[u])
    <3>1. u # 0 /\ x - 1 = n + 1
      <4> HIDE DEF u
      <4>1. n \in Nat /\ x \in Nat /\ j \in Nat /\ j > n
        BY <1>1, <1>2, <1>4, <2>2, <2>3
      <4>2. QED BY <2>2, <2>5, <4>1
    <3>2. u \in J
      <4>1. J \subseteq 1..(x - 1) /\ x - 1 \in Nat
        BY <1>1, <2>3
      <4> HIDE DEF J
      <4>2. QED BY <3>1, <4>1, MaxIn
    <3>3. u \in 1..(x - 1) /\ IsUser(messages[u])
      BY <3>2
    <3>4. u > n
      BY <1>2, <3>1, <3>3 DEF IsUser
    <3> HIDE DEF u
    <3>5. QED BY <1>1, <1>2, <1>4, <2>2, <2>3, <3>1, <3>3, <3>4
  <2>7. QED BY <1>4, <2>6
<1>8. CASE crossed = {} /\ lastUser # 0
  <2>1. Len(messages) - n - 1 = 0
    BY <1>3, <1>5, <1>8 DEF RecoverMessagesFromMissingReasoning
  <2>2. lastUser \in DOMAIN messages /\ IsUser(messages[lastUser]) /\ lastUser > n
    BY <1>6, <1>8
  <2>3. PICK j \in missing : TRUE
    OBVIOUS
  <2> HIDE DEF lastUser
  <2>4. j = lastUser
    BY <1>1, <1>2, <1>4, <2>1, <2>2
  <2>5. QED BY <1>4, <2>2, <2>4
<1>9. CASE crossed = {} /\ lastUser = 0
  <2>1. I = {}
    BY <1>2, <1>6, <1>9
  <2>2. QED BY <1>1, <2>1
<1>10. QED BY <1>7, <1>8, <1>9

\* The messages of a request are a sequence of messages.
LEMMA RequestMessages ==
    ASSUME Owned, NEW c \in Clients
    PROVE  \E S : req[c].out \in Seq(S) /\ \A m \in S : IsMessage(m)
<1> DEFINE S == {m \in ToSet(req[c].out) : Own(responses, c, req[c].ns, m)}
<1>1. req[c].out \in Seq(S)
  BY DEF Owned, RequestOwned, OwnSeq
<1>2. \A m \in S : IsMessage(m)
  BY DEF Own
<1> HIDE DEF S
<1>3. QED BY <1>1, <1>2

\* A request with no message yet, or none at all.
LEMMA FreshRepaired ==
    ASSUME NEW mode, NEW r, r.out = <<>>, r.missing = {} PROVE Repaired(mode, r)
BY DEF Repaired

\* One request changes.
LEMMA RepairedStep ==
    ASSUME Owned, AllRepaired, NEW c \in Clients, NEW r, Repaired(strategy, r),
           req' = [req EXCEPT ![c] = r], UNCHANGED strategy
    PROVE  AllRepaired'
<1>1. \A d \in Clients : req'[d] = IF d = c THEN r ELSE req[d]
  BY DEF Owned
<1>2. QED BY <1>1 DEF AllRepaired

\* The message that is added has its reasoning, needs none, or is missing.
LEMMA AppendRepaired ==
    ASSUME NEW mode, NEW S, NEW r, r.out \in Seq(S), Repaired(mode, r), r.phase = "repair",
           NEW m, NEW r1, r1.phase = "repair", r1.out = Append(r.out, m),
           \/ r1.missing = r.missing \cup {Len(r.out) + 1} /\ m.role = "assistant"
           \/ /\ r1.missing = r.missing
              /\ ThinkingEnabled /\ m.role = "assistant" /\ AssistantNeedsReasoning(m, r.out)
                   => m.reasoning # NoReasoning
    PROVE  Repaired(mode, r1)
<1>1. /\ DOMAIN r1.out = DOMAIN r.out \cup {Len(r.out) + 1}
      /\ Len(r.out) + 1 \notin DOMAIN r.out
      /\ r1.out[Len(r.out) + 1] = m
      /\ \A i \in DOMAIN r.out : r1.out[i] = r.out[i]
  OBVIOUS
<1>2. /\ \A i \in DOMAIN r.out : NeedsAt(r1.out, i) <=> NeedsAt(r.out, i)
      /\ NeedsAt(r1.out, Len(r.out) + 1)
           <=> m.role = "assistant" /\ AssistantNeedsReasoning(m, r.out)
  BY NeedsAppend
<1>3. r1.missing \subseteq {i \in DOMAIN r1.out : r1.out[i].role = "assistant"}
  BY <1>1 DEF Repaired
<1>4. ASSUME ThinkingEnabled, NEW i \in DOMAIN r1.out, NeedsAt(r1.out, i), i \notin r1.missing
      PROVE  r1.out[i].reasoning # NoReasoning
  BY <1>1, <1>2, <1>4 DEF Repaired
<1>5. QED BY <1>3, <1>4 DEF Repaired

\* No step of a request loses sight of what it lacks.
LEMMA RepairSteps ==
    ASSUME Owned, AllRepaired, NEW c \in Clients, UNCHANGED strategy,
           \/ NormalizeMessage(c) \/ Backfill(c)
           \/ RecoverRequest(c) \/ Forward(c) \/ Reject(c)
    PROVE  AllRepaired'
<1> DEFINE r == req[c]
<1>1. Repaired(strategy, r) /\ c \in DOMAIN req /\ DOMAIN r = DOMAIN Idle
  BY DEF Owned, RequestOwned, AllRepaired
<1>2. PICK S : r.out \in Seq(S) /\ \A m \in S : IsMessage(m)
  BY RequestMessages
<1>3. CASE NormalizeMessage(c)
  <2> DEFINE i == Len(r.out) + 1
             m == Normalized(r.src[i], KeepReasoning)
             found == LookupForMessage(m, r.ns, r.out)
             restored == [m EXCEPT !.reasoning = found]
             fine == ThinkingEnabled /\ m.role = "assistant"
                       /\ AssistantNeedsReasoning(m, r.out) => m.reasoning # NoReasoning
             more == r.missing \cup {i}
  <2>1. /\ r.phase = "repair"
        /\ \/ /\ found # NoReasoning
              /\ req' = [req EXCEPT ![c] = [r EXCEPT !.out = Append(@, restored),
                                                    !.backfill = TRUE]]
           \/ /\ m.role = "assistant"
              /\ req' = [req EXCEPT ![c] = [r EXCEPT !.out = Append(@, m), !.missing = more]]
           \/ /\ fine
              /\ req' = [req EXCEPT ![c] = [r EXCEPT !.out = Append(@, m),
                                                    !.missing = r.missing]]
    BY <1>3, NormalizeCases
  <2>2. IsMessage(m)
    <3>1. OwnSeq(responses, c, r.ns, r.src)
      BY DEF Owned, RequestOwned
    <3>2. IsMessage(r.src[i])
      <4>1. i \in DOMAIN r.src
        <5>1. i <= Len(r.src)
          BY <1>3 DEF NormalizeMessage
        <5>2. r.src \in Seq(ToSet(r.src)) /\ i \in Nat \ {0}
          BY <1>2, <3>1 DEF OwnSeq
        <5> HIDE DEF r, i
        <5>3. QED BY <5>1, <5>2
      <4> HIDE DEF r, i
      <4>2. QED BY <3>1, <4>1, OwnElement DEF Own
    <3>3. KeepReasoning \in BOOLEAN
      BY DEF KeepReasoning
    <3> HIDE DEF r, i
    <3>4. QED BY <3>2, <3>3, NormalizedMessage
  <2>3. restored.reasoning = found
    <3> HIDE DEF m, found
    <3>1. QED BY <2>2 DEF IsMessage
  <2> HIDE DEF m, found, restored
  <2>4. CASE /\ found # NoReasoning
             /\ req' = [req EXCEPT ![c] = [r EXCEPT !.out = Append(@, restored),
                                                   !.backfill = TRUE]]
    <3> DEFINE r1 == [r EXCEPT !.out = Append(@, restored), !.backfill = TRUE]
    <3>1. r1.phase = "repair" /\ r1.out = Append(r.out, restored) /\ r1.missing = r.missing
      BY <1>1, <2>1 DEF Idle
    <3> HIDE DEF r1, r
    <3>2. Repaired(strategy, r1)
      <4>1. ThinkingEnabled /\ restored.role = "assistant"
                /\ AssistantNeedsReasoning(restored, r.out) => restored.reasoning # NoReasoning
        BY <2>3, <2>4
      <4> HIDE DEF fine
      <4>2. Repaired(strategy, r) /\ r.phase = "repair" /\ r.out \in Seq(S)
        BY <1>1, <1>2, <2>1
      <4>3. QED BY <3>1, <4>1, <4>2, AppendRepaired
    <3>3. QED BY <2>4, <3>2, RepairedStep DEF r1, r
  <2>5. CASE /\ m.role = "assistant"
             /\ req' = [req EXCEPT ![c] = [r EXCEPT !.out = Append(@, m), !.missing = more]]
    <3> DEFINE r1 == [r EXCEPT !.out = Append(@, m), !.missing = more]
    <3>1. r1.phase = "repair" /\ r1.out = Append(r.out, m) /\ r1.missing = more
      BY <1>1, <2>1 DEF Idle
    <3> HIDE DEF r1, r
    <3>2. Repaired(strategy, r1)
      <4>1. r1.missing = r.missing \cup {Len(r.out) + 1} /\ m.role = "assistant"
        BY <2>5, <3>1
      <4> HIDE DEF fine, more, i
      <4>2. Repaired(strategy, r) /\ r.phase = "repair" /\ r.out \in Seq(S)
        BY <1>1, <1>2, <2>1
      <4>3. QED BY <3>1, <4>1, <4>2, AppendRepaired
    <3>3. QED BY <2>5, <3>2, RepairedStep DEF r1, r
  <2>6. CASE /\ fine
             /\ req' = [req EXCEPT ![c] = [r EXCEPT !.out = Append(@, m),
                                                   !.missing = r.missing]]
    <3> DEFINE r1 == [r EXCEPT !.out = Append(@, m), !.missing = r.missing]
    <3>1. r1.phase = "repair" /\ r1.out = Append(r.out, m) /\ r1.missing = r.missing
      BY <1>1, <2>1 DEF Idle
    <3> HIDE DEF r1, r
    <3>2. Repaired(strategy, r1)
      BY <1>1, <1>2, <2>1, <2>6, <3>1, AppendRepaired
    <3>3. QED BY <2>6, <3>2, RepairedStep DEF r1, r
  <2>7. QED BY <2>1, <2>4, <2>5, <2>6
<1>4. CASE RecoverRequest(c)
  <2>1. \E notice, kept :
           \/ /\ strategy = "recover" /\ r.missing # {} /\ Recovery(c).omitted = 0
              /\ req' = [req EXCEPT ![c].phase = "forwarded", ![c].notice = notice]
           \/ req' = [req EXCEPT ![c].src = kept, ![c].out = <<>>,
                                 ![c].missing = {}, ![c].notice = notice]
    BY <1>4 DEF RecoverRequest
  <2>2. PICK notice, kept :
           \/ /\ strategy = "recover" /\ r.missing # {} /\ Recovery(c).omitted = 0
              /\ req' = [req EXCEPT ![c].phase = "forwarded", ![c].notice = notice]
           \/ req' = [req EXCEPT ![c].src = kept, ![c].out = <<>>,
                                 ![c].missing = {}, ![c].notice = notice]
    BY <2>1
  <2>3. CASE /\ strategy = "recover" /\ r.missing # {} /\ Recovery(c).omitted = 0
             /\ req' = [req EXCEPT ![c].phase = "forwarded", ![c].notice = notice]
    <3> DEFINE r1 == [r EXCEPT !.phase = "forwarded", !.notice = notice]
    <3>1. req' = [req EXCEPT ![c] = r1]
      BY <1>1, <2>3 DEF Idle
    <3>2. \A i \in DOMAIN r.out : ~IsUser(r.out[i])
      BY <1>1, <1>2, <2>3, FruitlessRecovery DEF Recovery, Repaired
    <3>3. r1.out = r.out /\ r1.missing = r.missing
      BY <1>1 DEF Idle
    <3> HIDE DEF r1, r
    <3>4. Repaired(strategy, r1)
      BY <1>1, <2>3, <3>2, <3>3 DEF Repaired
    <3>5. QED BY <3>1, <3>4, RepairedStep
  <2>4. CASE req' = [req EXCEPT ![c].src = kept, ![c].out = <<>>,
                                ![c].missing = {}, ![c].notice = notice]
    <3> DEFINE r1 == [r EXCEPT !.src = kept, !.out = <<>>, !.missing = {}, !.notice = notice]
    <3>1. req' = [req EXCEPT ![c] = r1]
      BY <1>1, <2>4 DEF Idle
    <3>2. r1.out = <<>> /\ r1.missing = {}
      BY <1>1 DEF Idle
    <3> HIDE DEF r1
    <3>3. QED BY <3>1, <3>2, FreshRepaired, RepairedStep
  <2>5. QED BY <2>2, <2>3, <2>4
<1>5. CASE Forward(c)
  <2> DEFINE r1 == [r EXCEPT !.phase = "forwarded"]
  <2>1. req' = [req EXCEPT ![c] = r1] /\ r.missing = {}
    BY <1>5 DEF Forward
  <2>2. r1.out = r.out /\ r1.missing = {}
    BY <1>1, <2>1 DEF Idle
  <2> HIDE DEF r1, r
  <2>3. Repaired(strategy, r1)
    BY <1>1, <2>1, <2>2 DEF Repaired
  <2>4. QED BY <2>1, <2>3, RepairedStep
<1>6. CASE Reject(c)
  <2>1. Idle.out = <<>> /\ Idle.missing = {}
    BY DEF Idle
  <2>2. QED BY <1>6, <2>1, FreshRepaired, RepairedStep DEF Reject
<1>7. CASE Backfill(c)
  <2> DEFINE r1 == [r EXCEPT !.backfill = FALSE]
  <2>1. req' = [req EXCEPT ![c] = r1]
    BY <1>7 DEF Backfill
  <2>2. r1.out = r.out /\ r1.missing = r.missing /\ r1.phase = r.phase
    BY <1>1 DEF Idle
  <2> HIDE DEF r1, r
  <2>3. Repaired(strategy, r1)
    BY <1>1, <2>2 DEF Repaired
  <2>4. QED BY <2>1, <2>3, RepairedStep
<1>8. QED BY <1>3, <1>4, <1>5, <1>6, <1>7

\* The other actions start a request, end one, or touch none.
LEMMA OtherSteps ==
    ASSUME Owned, AllRepaired, UNCHANGED strategy,
           \/ \E c \in Clients : \/ Ask(c) \/ AnswerCall(c) \/ Retry(c) \/ Regenerate(c)
                                \/ SwitchProfile(c) \/ Respond(c) \/ UpstreamFails(c)
           \/ Evict \/ ClearCache \/ UNCHANGED vars
    PROVE  AllRepaired'
<1>1. ASSUME NEW c \in Clients, NEW p, NEW messages,
             req' = [req EXCEPT ![c] = Prepared(p, messages)]
      PROVE  AllRepaired'
  <2> DEFINE r == Prepared(p, messages)
  <2>1. r.out = <<>> /\ r.missing = {}
    BY DEF Prepared, Idle
  <2>2. req' = [req EXCEPT ![c] = r]
    BY <1>1
  <2> HIDE DEF r
  <2>3. QED BY <2>1, <2>2, FreshRepaired, RepairedStep
<1>2. ASSUME NEW c \in Clients, NEW messages, Send(c, messages) PROVE AllRepaired'
  BY <1>1, <1>2 DEF Send
<1>3. ASSUME NEW c \in Clients, Ask(c) \/ AnswerCall(c) \/ Retry(c) \/ Regenerate(c)
      PROVE  AllRepaired'
  BY <1>2, <1>3 DEF Ask, AnswerCall, Retry, Regenerate
<1>4. ASSUME NEW c \in Clients, Respond(c) \/ UpstreamFails(c) PROVE AllRepaired'
  <2>1. req' = [req EXCEPT ![c] = Idle]
    BY <1>4 DEF Respond, UpstreamFails
  <2>2. Idle.out = <<>> /\ Idle.missing = {}
    BY DEF Idle
  <2>3. QED BY <2>1, <2>2, FreshRepaired, RepairedStep
<1>5. ASSUME UNCHANGED req PROVE AllRepaired'
  BY <1>5 DEF AllRepaired
<1>6. QED BY <1>3, <1>4, <1>5 DEF SwitchProfile, Evict, ClearCache, vars

\* No request loses sight of what it lacks.
THEOREM AllRepairedHolds == Spec => []AllRepaired
<1>1. Init => AllRepaired
  <2> SUFFICES ASSUME Init PROVE AllRepaired
    OBVIOUS
  <2>1. \A c \in Clients : req[c].out = <<>> /\ req[c].missing = {}
    BY DEF Init, Idle
  <2>2. QED BY <2>1, FreshRepaired DEF AllRepaired
<1>2. Owned /\ AllRepaired /\ [Next]_vars => AllRepaired'
  <2> SUFFICES ASSUME Owned, AllRepaired, [Next]_vars PROVE AllRepaired'
    OBVIOUS
  <2>1. UNCHANGED strategy
    BY DEF Next, vars
  <2>2. ASSUME NEW c \in Clients, Handle(c) PROVE AllRepaired'
    BY <2>1, <2>2, RepairSteps DEF Handle
  <2>3. QED BY <2>1, <2>2, OtherSteps DEF Next
<1>3. QED BY <1>1, <1>2, OwnedHolds, PTL DEF Spec

\* In thinking mode a request goes upstream only with reasoning on every
\* message that needs it, or, when recovering, without a user message to fall
\* back on: for every history, and whatever rows are lost while it is repaired.
THEOREM ForwardCompleteHolds == Spec => []ForwardComplete
<1>1. Owned /\ AllRepaired => ForwardComplete
  <2> SUFFICES ASSUME Owned, AllRepaired, ThinkingEnabled, NEW c \in Clients,
                      req[c].phase = "forwarded"
               PROVE  \/ \A i \in DOMAIN Payload(c) :
                            NeedsAt(Payload(c), i) => Payload(c)[i].reasoning # NoReasoning
                      \/ strategy = "recover" /\ \A i \in DOMAIN Payload(c) : ~IsUser(Payload(c)[i])
    BY DEF ForwardComplete, NeedsAt
  <2> DEFINE out == req[c].out
             p == StripRecoveryNoticeForUpstream(out)
  <2>1. PICK S : out \in Seq(S) /\ \A m \in S : IsMessage(m)
    BY RequestMessages
  <2>2. \A i \in DOMAIN p : /\ i \in DOMAIN out /\ p[i].role = out[i].role
                            /\ p[i].reasoning = out[i].reasoning
                            /\ NeedsAt(p, i) <=> NeedsAt(out, i)
    <3> HIDE DEF out
    <3>1. DOMAIN p = DOMAIN out
      BY DEF StripRecoveryNoticeForUpstream
    <3> HIDE DEF p
    <3>2. QED BY <2>1, <3>1, NeedsStripped DEF p
  <2>3. Payload(c) = p
    BY DEF Payload
  <2>4. Repaired(strategy, req[c])
    BY DEF AllRepaired
  <2> HIDE DEF p
  <2>5. CASE req[c].missing = {}
    BY <2>2, <2>3, <2>4, <2>5 DEF Repaired
  <2>6. CASE req[c].missing # {}
    BY <2>2, <2>3, <2>4, <2>6 DEF Repaired, IsUser
  <2>7. QED BY <2>5, <2>6
<1>2. QED BY <1>1, OwnedHolds, AllRepairedHolds, PTL

-----------------------------------------------------------------------------
(* The shape of the state. *)

\* A request is in one of its phases and its pass has not overtaken itself.
Paced(r) == /\ r.phase \in {"idle", "repair", "forwarded"}
            /\ Len(r.out) <= Len(r.src)

Bounds == /\ profile \in [Clients -> Profiles]
          /\ evictions \in 0..MaxEvictions
          /\ \A c \in Clients : Paced(req[c])

\* One request changes, or none.
LEMMA PacedStep ==
    ASSUME Owned, Bounds, NEW c \in Clients, NEW r, Paced(r),
           req' = [req EXCEPT ![c] = r], UNCHANGED <<profile, evictions>>
    PROVE  Bounds'
<1>1. \A d \in Clients : req'[d] = IF d = c THEN r ELSE req[d]
  BY DEF Owned
<1>2. QED BY <1>1 DEF Bounds

\* A handler appends one message at a time, while there is one left.
LEMMA HandleBounds ==
    ASSUME Owned, Bounds, NEW c \in Clients,
           \/ NormalizeMessage(c) \/ Backfill(c)
           \/ RecoverRequest(c) \/ Forward(c) \/ Reject(c)
    PROVE  Bounds'
<1> DEFINE r == req[c]
<1>1. c \in DOMAIN req /\ DOMAIN r = DOMAIN Idle /\ Paced(r)
  BY DEF Owned, RequestOwned, Bounds
<1>2. PICK S : r.out \in Seq(S) /\ \A m \in S : IsMessage(m)
  BY RequestMessages
<1>3. UNCHANGED <<profile, evictions>>
  BY DEF NormalizeMessage, Backfill, RecoverRequest, Forward, Reject
<1>4. Len(r.src) \in Nat /\ Len(r.out) \in Nat
  BY <1>2 DEF Owned, RequestOwned, OwnSeq
<1>5. CASE NormalizeMessage(c)
  <2>1. r.phase = "repair" /\ Len(r.out) + 1 <= Len(r.src)
    BY <1>5 DEF NormalizeMessage
  <2>2. \E m, r1 : /\ r1.out = Append(r.out, m) /\ r1.src = r.src /\ r1.phase = "repair"
                   /\ req' = [req EXCEPT ![c] = r1]
    <3> DEFINE i == Len(r.out) + 1
               plain == Normalized(r.src[i], KeepReasoning)
               found == LookupForMessage(plain, r.ns, r.out)
               restored == [plain EXCEPT !.reasoning = found]
               more == r.missing \cup {i}
               r1 == [r EXCEPT !.out = Append(@, restored), !.backfill = TRUE]
               r2 == [r EXCEPT !.out = Append(@, plain), !.missing = more]
               r3 == [r EXCEPT !.out = Append(@, plain), !.missing = r.missing]
    <3>1. \/ req' = [req EXCEPT ![c] = r1]
          \/ req' = [req EXCEPT ![c] = r2]
          \/ req' = [req EXCEPT ![c] = r3]
      BY <1>5, NormalizeCases
    <3> HIDE DEF i, plain, found, restored, more
    <3>2. /\ r1.out = Append(r.out, restored) /\ r1.src = r.src /\ r1.phase = "repair"
          /\ r2.out = Append(r.out, plain) /\ r2.src = r.src /\ r2.phase = "repair"
          /\ r3.out = Append(r.out, plain) /\ r3.src = r.src /\ r3.phase = "repair"
      BY <1>1, <2>1 DEF Idle
    <3> HIDE DEF r, r1, r2, r3
    <3>3. QED BY <3>1, <3>2
  <2>3. PICK m, r1 : /\ r1.out = Append(r.out, m) /\ r1.src = r.src /\ r1.phase = "repair"
                     /\ req' = [req EXCEPT ![c] = r1]
    BY <2>2
  <2>4. Len(Append(r.out, m)) = Len(r.out) + 1
    BY <1>2
  <2>5. Paced(r1)
    BY <2>1, <2>3, <2>4 DEF Paced
  <2> HIDE DEF r
  <2>6. QED BY <1>3, <2>3, <2>5, PacedStep
<1>6. CASE RecoverRequest(c) \/ Forward(c) \/ Reject(c)
  <2>1. CASE RecoverRequest(c)
    <3>1. \E notice :
             \/ req' = [req EXCEPT ![c].phase = "forwarded", ![c].notice = notice]
             \/ req' = [req EXCEPT ![c].src = Recovery(c).messages, ![c].out = <<>>,
                                   ![c].missing = {}, ![c].notice = notice]
      BY <2>1 DEF RecoverRequest
    <3>2. PICK notice :
             \/ req' = [req EXCEPT ![c].phase = "forwarded", ![c].notice = notice]
             \/ req' = [req EXCEPT ![c].src = Recovery(c).messages, ![c].out = <<>>,
                                   ![c].missing = {}, ![c].notice = notice]
      BY <3>1
    <3>3. CASE req' = [req EXCEPT ![c].phase = "forwarded", ![c].notice = notice]
      <4> DEFINE r1 == [r EXCEPT !.phase = "forwarded", !.notice = notice]
      <4>1. req' = [req EXCEPT ![c] = r1]
        BY <1>1, <3>3 DEF Idle
      <4>2. Paced(r1)
        BY <1>1 DEF Paced, Idle
      <4> HIDE DEF r1
      <4>3. QED BY <1>3, <4>1, <4>2, PacedStep
    <3>4. CASE req' = [req EXCEPT ![c].src = Recovery(c).messages, ![c].out = <<>>,
                                  ![c].missing = {}, ![c].notice = notice]
      <4> DEFINE r1 == [r EXCEPT !.src = Recovery(c).messages, !.out = <<>>,
                                 !.missing = {}, !.notice = notice]
      <4>1. req' = [req EXCEPT ![c] = r1]
        BY <1>1, <3>4 DEF Idle
      <4>2. Len(Recovery(c).messages) \in Nat
        <5>1. RecoverySystem \in S \cup {RecoverySystem} /\ r.out \in Seq(S \cup {RecoverySystem})
          BY <1>2
        <5> DEFINE T == S \cup {RecoverySystem}
        <5> HIDE DEF T
        <5>2. RecoverMessagesFromMissingReasoning(r.out, r.missing).messages \in Seq(T)
          BY <5>1, RecoveredElements DEF T
        <5>3. QED BY <5>2 DEF Recovery
      <4>3. Paced(r1)
        <5>1. r1.phase = r.phase /\ r1.out = <<>> /\ r1.src = Recovery(c).messages
          BY <1>1 DEF Idle
        <5> HIDE DEF r1
        <5>2. QED BY <1>1, <4>2, <5>1 DEF Paced
      <4> HIDE DEF r1
      <4>4. QED BY <1>3, <4>1, <4>3, PacedStep
    <3>5. QED BY <3>2, <3>3, <3>4
  <2>2. CASE Forward(c)
    <3> DEFINE r1 == [r EXCEPT !.phase = "forwarded"]
    <3>1. req' = [req EXCEPT ![c] = r1] /\ Paced(r1)
      BY <1>1, <2>2 DEF Forward, Paced, Idle
    <3> HIDE DEF r1
    <3>2. QED BY <1>3, <3>1, PacedStep
  <2>3. CASE Reject(c)
    <3>1. req' = [req EXCEPT ![c] = Idle] /\ Paced(Idle)
      BY <2>3 DEF Reject, Paced, Idle
    <3>2. QED BY <1>3, <3>1, PacedStep
  <2>4. QED BY <1>6, <2>1, <2>2, <2>3
<1>7. CASE Backfill(c)
  <2> DEFINE r1 == [r EXCEPT !.backfill = FALSE]
  <2>1. req' = [req EXCEPT ![c] = r1] /\ Paced(r1)
    BY <1>1, <1>7 DEF Backfill, Paced, Idle
  <2> HIDE DEF r1
  <2>2. QED BY <1>3, <2>1, PacedStep
<1>8. QED BY <1>5, <1>6, <1>7

\* The other actions start a request, end one, or touch none.
LEMMA OtherBounds ==
    ASSUME ConversationAssumption, Owned, Bounds,
           \/ \E c \in Clients : \/ Ask(c) \/ AnswerCall(c) \/ Retry(c) \/ Regenerate(c)
                                \/ SwitchProfile(c) \/ Respond(c) \/ UpstreamFails(c)
           \/ Evict \/ ClearCache \/ UNCHANGED vars
    PROVE  Bounds'
<1>1. Paced(Idle)
  BY DEF Paced, Idle
<1>2. ASSUME NEW c \in Clients, NEW messages, PlainSeq(c, messages), Send(c, messages)
      PROVE  Bounds'
  <2> DEFINE r == Prepared(profile[c], messages)
  <2>1. r.phase = "repair" /\ RequestOwned(responses, c, r)
    BY <1>2, PreparedOwned
  <2>2. r.out = <<>>
    BY DEF Prepared, Idle
  <2>3. req' = [req EXCEPT ![c] = r] /\ UNCHANGED <<profile, evictions>>
    BY <1>2 DEF Send
  <2> HIDE DEF r
  <2>4. Len(r.src) \in Nat
    BY <2>1 DEF RequestOwned, OwnSeq
  <2>5. Paced(r)
    BY <2>1, <2>2, <2>4 DEF Paced
  <2>6. QED BY <2>3, <2>5, PacedStep
<1>3. ASSUME NEW c \in Clients, Respond(c) \/ UpstreamFails(c) PROVE Bounds'
  <2>1. req' = [req EXCEPT ![c] = Idle] /\ UNCHANGED <<profile, evictions>>
    BY <1>3 DEF Respond, UpstreamFails
  <2>2. QED BY <1>1, <2>1, PacedStep
<1>4. ASSUME Evict \/ ClearCache PROVE Bounds'
  BY <1>4 DEF Evict, ClearCache, Bounds, ConversationAssumption
<1>5. ASSUME NEW c \in Clients, SwitchProfile(c) PROVE Bounds'
  BY <1>5 DEF SwitchProfile, Bounds
<1>6. ASSUME NEW c \in Clients, Ask(c) \/ AnswerCall(c) \/ Retry(c) \/ Regenerate(c)
      PROVE  Bounds'
  <2>1. \E messages : PlainSeq(c, messages) /\ Send(c, messages)
    BY <1>6, SentPlain
  <2>2. QED BY <1>2, <2>1
<1>7. QED BY <1>3, <1>4, <1>5, <1>6 DEF vars, Bounds

\* The types of the state hold in every state.
THEOREM ConversationTypes == Spec => []TypeOK
<1>1. Init => Bounds
  <2>1. Paced(Idle)
    BY DEF Paced, Idle
  <2>2. QED BY <2>1, ConversationAssumption DEF Init, Bounds, ConversationAssumption
<1>2. Owned /\ Bounds /\ [Next]_vars => Bounds'
  <2> SUFFICES ASSUME Owned, Bounds, [Next]_vars PROVE Bounds'
    OBVIOUS
  <2>1. ASSUME NEW c \in Clients, Handle(c) PROVE Bounds'
    BY <2>1, HandleBounds DEF Handle
  <2>2. QED BY <2>1, OtherBounds, ConversationAssumption DEF Next
<1>3. Owned /\ AllRepaired /\ Bounds => TypeOK
  BY DEF Owned, RowsOwned, AllRepaired, Repaired, Bounds, Paced, TypeOK
<1>4. QED BY <1>1, <1>2, <1>3, OwnedHolds, AllRepairedHolds, PTL DEF Spec

=============================================================================
