----------------------------- MODULE Conversation -----------------------------
(***************************************************************************)
(* Reasoning repair end to end: clients that resend their history without  *)
(* reasoning_content, the handler goroutines that repair it from the cache *)
(* (PrepareUpstreamRequest), the upstream, and the recording of responses  *)
(* (RewriteResponseBody).                                                  *)
(*                                                                         *)
(* The cache is the lossy map of ReasoningCache, which ReasoningStore      *)
(* implements: rows vanish between any two steps.  A request is repaired   *)
(* one message at a time, so requests of several clients interleave.       *)
(* Reasoning is modelled by the number of the response it came with.       *)
(***************************************************************************)
EXTENDS Transform

CONSTANTS Clients,
          Profiles,       \* upstream URL, model, effort, API key, user_id and tools
          Keepers,        \* the clients that send reasoning_content back
          Histories,      \* what a client may hold before it meets the proxy
          Questions,      \* contents of user messages
          Answers,        \* contents of upstream messages
          ToolNames, Arguments,
          CallIds,        \* the id of the tool call of each response
          Legacy,         \* the clients that answer calls in the role "function"
          Thinking,       \* cfg.Thinking
          Strategies,     \* the values of cfg.MissingReasoningStrategy to try
          DisplayReasoning,
          MaxResponses, MaxMessages, MaxEvictions   \* bounds

ASSUME ConversationAssumption ==
    /\ Keepers \subseteq Clients /\ Legacy \subseteq Clients
    /\ NoReasoning \notin Nat
    /\ MaxResponses \in Nat /\ MaxMessages \in Nat /\ MaxEvictions \in Nat
    /\ Len(CallIds) >= MaxResponses
    /\ \A h \in Histories : /\ h \in Seq(ToSet(h))
                            /\ \A m \in ToSet(h) : /\ IsMessage(m) /\ IsContent(m.content)
                                                  /\ m.reasoning = NoReasoning
                                                  /\ m.from = 0
    /\ \A content \in Questions \cup Answers : IsContent(content)
    /\ Thinking \in {"enabled", "disabled"}
    /\ Strategies \subseteq {"recover", "reject"}
    /\ DisplayReasoning \in BOOLEAN

VARIABLES strategy,   \* cfg.MissingReasoningStrategy: read once, never changed
          conv,       \* the messages each client holds
          profile,    \* the profile each client uses
          req,        \* the request of each client, or Idle
          cache,      \* the rows: key -> reasoning
          responses,  \* history: what the upstream answered, in which namespace
          evictions   \* number of evictions so far

vars == <<strategy, conv, profile, req, cache, responses, evictions>>

ThinkingEnabled == Thinking = "enabled"
KeepReasoning == Thinking # "disabled"

Idle == [phase |-> "idle", ns |-> NoReasoning, pre |-> <<>>, src |-> <<>>, out |-> <<>>,
         missing |-> {}, notice |-> <<>>,
         backfill |-> FALSE]   \* the last message of out has just been restored

-----------------------------------------------------------------------------
(* The store's operations on the lossy map. *)

StoreAssistantMessage(c, m, scope, ns, prior) ==
    LET K == IF m.reasoning = NoReasoning THEN {}
             ELSE {k \in ToSet(MessageKeys(m, scope, ns, prior)) : IsKey(k)}
    IN  [k \in DOMAIN c \cup K |-> IF k \in K THEN m.reasoning ELSE c[k]]

BackfillPortableAliases(c, m, r, ns, prior) ==
    LET K == {k \in ToSet(PortableReasoningKeys(m, ns, prior)) : IsKey(k)}
    IN  [k \in DOMAIN c \cup K |-> IF k \in K THEN r ELSE c[k]]

\* The reasoning of the first key that has a row.
LookupForMessage(m, ns, prior) ==
    LET keys == MessageKeys(m, ConversationScope(prior, ns), ns, prior)
        hits == {i \in DOMAIN keys : keys[i] \in DOMAIN cache}
    IN  IF hits = {} THEN NoReasoning ELSE cache[keys[Min(hits)]]

-----------------------------------------------------------------------------
(* PrepareUpstreamRequest. *)

\* The profile and the system messages: what ReasoningCacheNamespace hashes.
ReasoningCacheNamespace(p, messages) ==
    LET system == SelectSeq(messages, LAMBDA m : m.role = "system")
    IN  [profile |-> p, context |-> [i \in DOMAIN system |-> system[i].content]]

\* The request up to the first pass over the messages.
Prepared(p, messages) ==
    LET pre == NormalizedAll(messages, KeepReasoning)
    IN  [Idle EXCEPT
            !.phase = "repair",
            !.ns = ReasoningCacheNamespace(p, pre),
            !.pre = pre,
            !.src = IF ThinkingEnabled /\ strategy = "recover"
                    THEN ActiveMessagesFromRecoveryBoundary(pre) ELSE pre]

\* One message of NormalizeMessages, up to what the lookup returns.
NormalizeMessage(c) ==
    LET r == req[c]
        i == Len(r.out) + 1
        m == Normalized(r.src[i], KeepReasoning)
        found == LookupForMessage(m, r.ns, r.out)
    IN  /\ r.phase = "repair" /\ i <= Len(r.src) /\ ~r.backfill
        /\ IF /\ m.role = "assistant" /\ ThinkingEnabled
              /\ m.reasoning = NoReasoning
              /\ AssistantNeedsReasoning(m, r.out)
           THEN \/ /\ found # NoReasoning
                   /\ req' = [req EXCEPT ![c].out = Append(@, [m EXCEPT !.reasoning = found]),
                                         ![c].backfill = TRUE]
                \/ /\ found = NoReasoning
                   /\ req' = [req EXCEPT ![c].out = Append(@, m), ![c].missing = @ \cup {i}]
           ELSE req' = [req EXCEPT ![c].out = Append(@, m)]
        /\ UNCHANGED <<conv, profile, cache, responses, evictions>>

\* Mutant of Backfill: the reasoning of the message as it came.
BackfillOwn(c) ==
    LET r == req[c]
    IN  /\ r.backfill
        /\ cache' = BackfillPortableAliases(cache, Last(r.out), r.src[Len(r.out)].reasoning,
                                            r.ns, Front(r.out))
        /\ req' = [req EXCEPT ![c].backfill = FALSE]
        /\ UNCHANGED <<conv, profile, responses, evictions>>

\* The rest of it: the restored reasoning is written under the portable keys.
\* By now the rows may be others than those the lookup has seen.
Backfill(c) ==
    LET r == req[c]
    IN  /\ r.backfill
        /\ cache' = BackfillPortableAliases(cache, Last(r.out), Last(r.out).reasoning,
                                            r.ns, Front(r.out))
        /\ req' = [req EXCEPT ![c].backfill = FALSE]
        /\ UNCHANGED <<conv, profile, responses, evictions>>

PassDone(c) == /\ req[c].phase = "repair" /\ ~req[c].backfill
               /\ Len(req[c].out) = Len(req[c].src)

Recovery(c) == RecoverMessagesFromMissingReasoning(req[c].out, req[c].missing)

\* Mutant of RecoverRequest: a round that omits nothing does not end the loop.
RecoverForEver(c) ==
    /\ PassDone(c)
    /\ req[c].missing # {} /\ strategy = "recover"
    /\ req' = [req EXCEPT ![c].src = Recovery(c).messages, ![c].out = <<>>,
                          ![c].missing = {}]
    /\ UNCHANGED <<conv, profile, cache, responses, evictions>>

\* One round of the recovery loop.  A round that omits nothing ends it and the
\* request goes upstream as it is; otherwise what is left is normalized again.
RecoverRequest(c) ==
    LET notice == IF Recovery(c).notice # <<>> THEN Recovery(c).notice ELSE req[c].notice
    IN  /\ PassDone(c)
        /\ req[c].missing # {} /\ strategy = "recover"
        /\ \/ /\ Recovery(c).omitted = 0
              /\ req' = [req EXCEPT ![c].phase = "forwarded", ![c].notice = notice]
           \/ /\ Recovery(c).omitted # 0
              /\ req' = [req EXCEPT ![c].src = Recovery(c).messages, ![c].out = <<>>,
                                    ![c].missing = {}, ![c].notice = notice]
        /\ UNCHANGED <<conv, profile, cache, responses, evictions>>

\* Mutant of Forward: whatever is missing.
ForwardAnyway(c) ==
    /\ PassDone(c)
    /\ req' = [req EXCEPT ![c].phase = "forwarded"]
    /\ UNCHANGED <<conv, profile, cache, responses, evictions>>

Forward(c) ==
    /\ PassDone(c)
    /\ req[c].missing = {}
    /\ req' = [req EXCEPT ![c].phase = "forwarded"]
    /\ UNCHANGED <<conv, profile, cache, responses, evictions>>

\* Strict mode: 409 Conflict.
Reject(c) ==
    /\ PassDone(c)
    /\ req[c].missing # {} /\ strategy = "reject"
    /\ req' = [req EXCEPT ![c] = Idle]
    /\ UNCHANGED <<conv, profile, cache, responses, evictions>>

Payload(c) == StripRecoveryNoticeForUpstream(req[c].out)

-----------------------------------------------------------------------------
(* The upstream answers, or does not.  The answer is prefixed with the     *)
(* notice, recorded for both contexts, and mirrored for display: the       *)
(* whole of RewriteResponseBody.  The client may be gone by then.          *)

NoCall == <<>>
Calls == {NoCall} \cup
         {<<[id |-> CallIds[Len(responses) + 1], name |-> f, args |-> a]>> :
             f \in ToolNames, a \in Arguments}

\* Mutant of Recorded: only the context of the request as it came.
RecordedAsAsked(c, m) ==
    StoreAssistantMessage(cache, m, ConversationScope(req[c].pre, req[c].ns),
                          req[c].ns, req[c].pre)

\* RecordResponseReasoning over ResponseRecordingContexts.
Recorded(c, m) ==
    LET r == req[c]
        recordScope == ConversationScope(r.pre, r.ns)
        activeScope == ConversationScope(r.out, r.ns)
        first == StoreAssistantMessage(cache, m, recordScope, r.ns, r.pre)
    IN  IF activeScope = recordScope THEN first
        ELSE StoreAssistantMessage(first, m, activeScope, r.ns, r.out)

\* FoldReasoningIntoContent, and what the client keeps of the message.
Delivered(c, m) ==
    [m EXCEPT !.content = IF DisplayReasoning /\ m.reasoning # NoReasoning
                          THEN <<"think">> \o @ ELSE @,
              !.reasoning = IF c \in Keepers THEN @ ELSE NoReasoning]

Respond(c) ==
    LET n == Len(responses) + 1
    IN  /\ req[c].phase = "forwarded"
        /\ n <= MaxResponses
        /\ \E a \in Answers, calls \in Calls :
              LET m == [role |-> "assistant", content |-> req[c].notice \o a, calls |-> calls,
                        reasoning |-> IF KeepReasoning THEN n ELSE NoReasoning, from |-> n]
              IN  /\ cache' = Recorded(c, m)
                  /\ responses' = Append(responses,
                         [ns |-> req[c].ns, message |-> m,
                          shortened |-> \E x \in ToSet(req[c].pre) : x.role # "system" /\
                                           \A y \in ToSet(req[c].out) :
                                              CanonicalScopeMessage(y) # CanonicalScopeMessage(x)])
                  /\ \/ conv' = [conv EXCEPT ![c] = Append(@, Delivered(c, m))]
                     \/ UNCHANGED conv
        /\ req' = [req EXCEPT ![c] = Idle]
        /\ UNCHANGED <<profile, evictions>>

\* 502, an upstream error body, or a client that went away.
UpstreamFails(c) == /\ req[c].phase = "forwarded"
                    /\ req' = [req EXCEPT ![c] = Idle]
                    /\ UNCHANGED <<conv, profile, cache, responses, evictions>>

-----------------------------------------------------------------------------
(* The clients. *)

Message(role, content) ==
    [role |-> role, content |-> content, calls |-> <<>>, reasoning |-> NoReasoning, from |-> 0]

Send(c, messages) == /\ req[c] = Idle
                     /\ Len(messages) <= MaxMessages
                     /\ conv' = [conv EXCEPT ![c] = messages]
                     /\ req' = [req EXCEPT ![c] = Prepared(profile[c], messages)]
                     /\ UNCHANGED <<profile, cache, responses, evictions>>

ToolRole(c) == IF c \in Legacy THEN "function" ELSE "tool"

LastRole(c) == IF conv[c] = <<>> THEN "none" ELSE Last(conv[c]).role

Ask(c) == /\ LastRole(c) # ToolRole(c)
          /\ \E q \in Questions : Send(c, Append(conv[c], Message("user", q)))

\* The client has run the tool call of the last message.
AnswerCall(c) == /\ LastRole(c) = "assistant"
                 /\ Last(conv[c]).calls # <<>>
                 /\ Send(c, Append(conv[c], Message(ToolRole(c), <<Last(conv[c]).calls[1].id>>)))

\* The same request again, after a failure or a lost response.
Retry(c) == /\ LastRole(c) \in {"user", ToolRole(c)}
            /\ Send(c, conv[c])

\* The last answer is thrown away and asked for again.
Regenerate(c) == /\ LastRole(c) = "assistant" /\ Len(conv[c]) > 1
                 /\ Send(c, Front(conv[c]))

\* Another model, API key or user.
SwitchProfile(c) == /\ req[c] = Idle
                    /\ \E p \in Profiles \ {profile[c]} : profile' = [profile EXCEPT ![c] = p]
                    /\ UNCHANGED <<conv, req, cache, responses, evictions>>

\* The store loses a row: age, row limit, or a Put that failed.
Evict == /\ evictions < MaxEvictions
         /\ \E k \in DOMAIN cache : cache' = [x \in DOMAIN cache \ {k} |-> cache[x]]
         /\ evictions' = evictions + 1
         /\ UNCHANGED <<conv, profile, req, responses>>

\* The store is cleared.
ClearCache == /\ evictions < MaxEvictions
              /\ cache # <<>>
              /\ cache' = <<>>
              /\ evictions' = evictions + 1
              /\ UNCHANGED <<conv, profile, req, responses>>

-----------------------------------------------------------------------------

Init == /\ strategy \in Strategies
        /\ conv \in [Clients -> Histories]
        /\ profile \in [Clients -> Profiles]
        /\ req = [c \in Clients |-> Idle]
        /\ cache = <<>>
        /\ responses = <<>>
        /\ evictions = 0

Handle(c) == /\ \/ NormalizeMessage(c) \/ Backfill(c)
                \/ RecoverRequest(c) \/ Forward(c) \/ Reject(c)
             /\ UNCHANGED strategy

Next == /\ \/ \E c \in Clients : \/ Ask(c) \/ AnswerCall(c) \/ Retry(c) \/ Regenerate(c)
                                 \/ SwitchProfile(c) \/ Handle(c)
                                 \/ Respond(c) \/ UpstreamFails(c)
           \/ Evict \/ ClearCache
        /\ UNCHANGED strategy

Spec == Init /\ [][Next]_vars

\* A handler goroutine that has received a request runs on.  This is
\* WF_vars(Handle(c)) written out: while the request of c is being repaired
\* Handle(c) is enabled and is the only action that changes it.
FairSpec == Spec /\ \A c \in Clients : \/ []<>(req[c].phase # "repair")
                                       \/ []<><<req'[c] # req[c]>>_vars

-----------------------------------------------------------------------------
(* Properties. *)

\* The shape of the state: a pass never gets ahead of its messages, and every
\* row of the cache holds reasoning that some response came with.
TypeOK == /\ \A c \in Clients : /\ profile[c] \in Profiles
                                /\ req[c].phase \in {"idle", "repair", "forwarded"}
                                /\ Len(req[c].out) <= Len(req[c].src)
                                /\ req[c].missing \subseteq DOMAIN req[c].out
          /\ \A k \in DOMAIN cache : cache[k] \in DOMAIN responses
          /\ evictions \in 0..MaxEvictions

\* A message restored from the cache carries reasoning the upstream produced
\* for the same namespace: the same model, API key, user and system prompt
\* (README.md:340-350; transform.go:618-635), across aliases, backfills,
\* evictions and concurrent requests.
Isolation ==
    \A c \in Clients \ Keepers : \A i \in DOMAIN req[c].out :
        req[c].out[i].reasoning # NoReasoning
            => responses[req[c].out[i].reasoning].ns = req[c].ns

\* In thinking mode a request that goes upstream has reasoning on every
\* assistant message that needs it, whatever was evicted while it was being
\* repaired; recovery that finds no user message to fall back on is the one
\* way out (transform.go:339-341, 752-763; handler.go:159-176).
ForwardComplete ==
    ThinkingEnabled =>
      \A c \in Clients :
        req[c].phase = "forwarded" =>
          \/ \A i \in DOMAIN Payload(c) :
                /\ Payload(c)[i].role = "assistant"
                /\ AssistantNeedsReasoning(Payload(c)[i], SubSeq(Payload(c), 1, i - 1))
                => Payload(c)[i].reasoning # NoReasoning
          \/ strategy = "recover" /\ \A i \in DOMAIN Payload(c) : ~IsUser(Payload(c)[i])

\* The cache has lost nothing, and every answer in the part of the history
\* that is not retired came through the proxy in the request's namespace.
Pristine(c) ==
    /\ evictions = 0
    /\ \A i \in DOMAIN req[c].src :
          req[c].src[i].role = "assistant" =>
             /\ req[c].src[i].from # 0
             /\ responses[req[c].src[i].from].ns = req[c].ns

\* While nothing is lost, the proxy finds the reasoning of every answer it
\* has delivered, after retries, regenerations, recoveries and mirrored
\* thinking: it neither recovers nor rejects (README.md:318).
RecordedIsFound ==
    \A c \in Clients : req[c].phase # "idle" /\ Pristine(c) => req[c].missing = {}

\* While nothing is lost, the reasoning restored to a message was produced
\* with exactly that message, not with another one that shares an alias.  An
\* answer that carries a recovery notice is excepted: when a conversation is
\* recovered for the second time its context has the recovery instruction
\* twice, and later requests look the answer up with the instruction once
\* (transform.go:243-253, 275-277, 337-343), where a row of another answer
\* with the same tool name may come first.
RestoredIsOwn ==
    \A c \in Clients \ Keepers : req[c].phase # "idle" /\ Pristine(c) =>
        \A i \in DOMAIN req[c].out :
            LET m == req[c].out[i]
            IN  m.reasoning # NoReasoning /\ ~HasRecoveryNotice(m) =>
                   MessageSignature(m) = MessageSignature(responses[m.reasoning].message)

\* A request never lacks reasoning in front of a recovery notice: the history
\* before the last notice has been retired (transform.go:742-746), so a
\* recovered conversation is not cut at the same place again.
NoticeNotCrossed ==
    strategy = "recover" =>
      \A c \in Clients : \A i \in DOMAIN req[c].out :
         HasRecoveryNotice(req[c].out[i]) => \A j \in req[c].missing : j >= i

\* A client whose history was shortened for an answer can see it: that answer
\* or one before it shows the recovery notice once mirrored thinking is taken
\* off (README.md:328; transform.go:841-847).
RecoveryVisible ==
    \A c \in Clients : \A i \in DOMAIN conv[c] :
        conv[c][i].from # 0 /\ responses[conv[c][i].from].shortened =>
            \E j \in 1..i : HasRecoveryNotice(Normalized(conv[c][j], TRUE))

\* The recovery loop ends for every request (transform.go:752-763).
RepairEnds == \A c \in Clients : req[c].phase = "repair" ~> req[c].phase # "repair"

-----------------------------------------------------------------------------
(* What the documentation says and the code does not do. *)

\* README.md:318: the original reasoning_content is recorded and restored.  Here
\* only as much as that the answer it came with has called the same functions
\* with the same arguments: the id of a call may differ.
OriginalRestored ==
    \A c \in Clients \ Keepers : \A i \in DOMAIN req[c].out :
        LET m == req[c].out[i]
        IN  m.reasoning # NoReasoning =>
               ToolCallSignatures(m) = ToolCallSignatures(responses[m.reasoning].message)

\* README.md:326: recovery keeps the current conversation tail; here, once
\* the turn with missing reasoning is over, what follows from the next user
\* message on.
TailKept ==
    [][\A c \in Clients :
         LET out == req[c].out
             later == {i \in DOMAIN out : IsUser(out[i]) /\ i > Max(req[c].missing)}
         IN  /\ req[c].phase = "repair" /\ req'[c].out = <<>>
             /\ req[c].missing # {} /\ later # {}
             => IsSuffix(SubSeq(out, Min(later), Len(out)), req'[c].src)]_vars

=============================================================================
