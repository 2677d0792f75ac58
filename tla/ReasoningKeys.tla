----------------------------- MODULE ReasoningKeys -----------------------------
(***************************************************************************)
(* The cache keys of a message, internal/reasoning/keys.go.                *)
(*                                                                         *)
(* A message is a record [role, content, calls, reasoning, from].  Content *)
(* is a sequence of segments (see Transform), a tool call a record         *)
(* [id, name, args], and "from" is history: the upstream response the      *)
(* message came from, 0 for none; no operator of the program reads it.     *)
(* A SHA-256 hash of canonical JSON is modelled by the value it hashes:    *)
(* what is the same text has the same hash, and what differs does not      *)
(* collide.                                                                *)
(***************************************************************************)
EXTENDS Integers, Sequences, FiniteSets, SequencesExt

CONSTANT NoId   \* a tool call without an id, or with an empty one

\* The fields that go into a scope; reasoning_content is not one of them.
CanonicalScopeMessage(m) == [role |-> m.role, content |-> m.content, calls |-> m.calls]

ConversationScope(messages, ns) ==
    [namespace |-> ns,
     messages  |-> [i \in DOMAIN messages |-> CanonicalScopeMessage(messages[i])]]

IsUser(m) == m.role = "user"

\* Where the last run of consecutive user messages starts; 1 if there is none.
TurnStart(prior) ==
    LET last == SelectLastInSeq(prior, IsUser)
    IN  IF last = 0 THEN 1
        ELSE CHOOSE s \in 1..last :
                /\ \A i \in s..last : IsUser(prior[i])
                /\ s = 1 \/ ~IsUser(prior[s - 1])

WithoutSystem(messages) == SelectSeq(messages, LAMBDA m : m.role # "system")

\* The current turn: what follows from the last run of user messages, without
\* the system messages.
TurnContextSignature(prior) ==
    LET turn == WithoutSystem(SubSeq(prior, TurnStart(prior), Len(prior)))
    IN  [i \in DOMAIN turn |-> CanonicalScopeMessage(turn[i])]

-----------------------------------------------------------------------------

MessageSignature(m) == <<"signature", m.content, m.calls>>

ToolCallIDs(m) == [i \in DOMAIN m.calls |-> <<"tool_call", m.calls[i].id>>]

\* The id is left out, so that a call with the same function and arguments
\* has the same signature.
ToolCallSignatures(m) ==
    [i \in DOMAIN m.calls |-> <<"tool_call_signature", m.calls[i].name, m.calls[i].args>>]

ToolCallNames(m) == [i \in DOMAIN m.calls |-> <<"tool_name", m.calls[i].name>>]

\* Mutant of Aliases: the most general alias first.
GeneralFirst(m) == ToolCallNames(m) \o ToolCallSignatures(m)
                                    \o ToolCallIDs(m) \o <<MessageSignature(m)>>

\* What a message is known by, the most specific alias first.
Aliases(m) == <<MessageSignature(m)>> \o ToolCallIDs(m) \o ToolCallSignatures(m)
                                      \o ToolCallNames(m)

KeysAt(place, m) ==
    LET aliases == Aliases(m)
    IN  [i \in DOMAIN aliases |-> [place |-> place, alias |-> aliases[i]]]

ScopedReasoningKeys(m, scope) == KeysAt(scope, m)

\* Mutant of PortableReasoningKeys: the namespace is left out.
SharedPortableKeys(m, ns, prior) ==
    KeysAt([namespace |-> NoId, turn |-> TurnContextSignature(prior)], m)

\* The namespace is a hash, never the empty string the code tests for.
PortableReasoningKeys(m, ns, prior) ==
    KeysAt([namespace |-> ns, turn |-> TurnContextSignature(prior)], m)

\* A call without an id has no tool_call key, and one without a name no
\* tool_name key: their places in the list stay empty.
IsKey(k) == k.alias \notin {<<"tool_call", NoId>>, <<"tool_name", "">>}

\* The keys LookupForMessage and StoreAssistantMessage use, in their order: a
\* nil slice of prior messages has no portable keys.
MessageKeys(m, scope, ns, prior) ==
    ScopedReasoningKeys(m, scope)
        \o (IF prior = <<>> THEN <<>> ELSE PortableReasoningKeys(m, ns, prior))

=============================================================================
