------------------------------- MODULE Transform -------------------------------
(***************************************************************************)
(* Request and response rewriting, internal/transform/transform.go: the    *)
(* pure parts.  The content of a message is a sequence of segments:        *)
(*    "notice"  RecoveryNoticeText                                         *)
(*    "nl"      a run of newlines                                          *)
(*    "sp"      a run of blanks or tabs                                    *)
(*    "think"   a mirrored thinking block with its closing newlines        *)
(* and any other text.                                                     *)
(***************************************************************************)
EXTENDS ReasoningKeys

CONSTANTS NoReasoning,         \* no reasoning_content
          RecoverySystemText   \* recoverySystemContent

\* RecoveryNoticeContent: the text and two newlines.
RecoveryNoticeContent == <<"notice", "nl">>

RecoverySystem == [role |-> "system", content |-> <<RecoverySystemText>>, calls |-> <<>>,
                   reasoning |-> NoReasoning, from |-> 0]

\* What the fields of a message are, as far as the program depends on it.
IsMessage(m) == /\ DOMAIN m = {"role", "content", "calls", "reasoning", "from"}
                /\ m.calls \in Seq(ToSet(m.calls))
IsContent(content) == content \in Seq(ToSet(content))

-----------------------------------------------------------------------------
(* Content. *)

\* strings.TrimLeft(content, "\r\n").
TrimLeft(content) ==
    LET first == SelectInSeq(content, LAMBDA s : s # "nl")
    IN  IF first = 0 THEN <<>> ELSE SubSeq(content, first, Len(content))

White == {"nl", "sp"}

\* Position i is in what the regular expression matches: a thinking block
\* with all white space after it.
Matched(content, i) == \E j \in 1..i : /\ content[j] = "think"
                                       /\ \A l \in (j + 1)..i : content[l] \in White

\* What is left is trimmed even when there was no block.
StripCursorThinkingBlocks(content) ==
    LET kept[n \in 0..Len(content)] ==
            IF n = 0 THEN <<>>
            ELSE IF Matched(content, n) THEN kept[n - 1]
            ELSE Append(kept[n - 1], content[n])
    IN  TrimLeft(kept[Len(content)])

HasRecoveryNotice(m) ==
    m.role = "assistant" /\ m.content # <<>> /\ m.content[1] = "notice"

StripRecoveryNoticeForUpstream(messages) ==
    [i \in DOMAIN messages |->
        IF HasRecoveryNotice(messages[i])
        THEN [messages[i] EXCEPT !.content = TrimLeft(Tail(@))]
        ELSE messages[i]]

-----------------------------------------------------------------------------
(* Messages. *)

\* A tool-call message, or an assistant message of a turn that has used tools.
AssistantNeedsReasoning(m, prior) ==
    \/ m.calls # <<>>
    \/ \E i \in DOMAIN prior :
          /\ prior[i].role = "tool"
          /\ \A j \in (i + 1)..Len(prior) : prior[j].role \notin {"user", "system"}

\* NormalizeMessage up to the cache lookup: the legacy role, the thinking
\* blocks, and the fields that only assistant messages keep: tool_calls, and
\* reasoning_content when thinking is not disabled.
Normalized(m, keepReasoning) ==
    [m EXCEPT !.role = IF @ = "function" THEN "tool" ELSE @,
              !.content = IF m.role = "assistant" THEN StripCursorThinkingBlocks(@) ELSE @,
              !.calls = IF m.role = "assistant" THEN @ ELSE <<>>,
              !.reasoning = IF m.role = "assistant" /\ keepReasoning THEN @ ELSE NoReasoning]

\* NormalizeMessages without a store.
NormalizedAll(messages, keepReasoning) ==
    [i \in DOMAIN messages |-> Normalized(messages[i], keepReasoning)]

LeadingSystemMessages(messages) ==
    SubSeq(messages, 1,
           CHOOSE n \in 0..Len(messages) :
               /\ \A i \in 1..n : messages[i].role = "system"
               /\ n < Len(messages) => messages[n + 1].role # "system")

\* The leading system messages, the recovery instruction, the user message
\* before position i if there is one, and everything from i on.
FromBoundary(messages, i) ==
    LET contextUser == SelectLastInSubSeq(messages, 1, i - 1, IsUser)
    IN  LeadingSystemMessages(messages)
          \o <<RecoverySystem>>
          \o (IF contextUser = 0 THEN <<>> ELSE <<messages[contextUser]>>)
          \o SubSeq(messages, i, Len(messages))

\* Mutant of ActiveMessagesFromRecoveryBoundary: nothing is retired.
WholeHistory(messages) == messages

\* The request once the history before the last recovery notice is retired.
ActiveMessagesFromRecoveryBoundary(messages) ==
    LET recoveryIdx == SelectLastInSeq(messages, HasRecoveryNotice)
    IN  IF recoveryIdx = 0 THEN messages ELSE FromBoundary(messages, recoveryIdx)

\* What is sent instead when the reasoning at the missing positions cannot be
\* restored: [messages, omitted, notice].
RecoverMessagesFromMissingReasoning(messages, missing) ==
    LET leading  == LeadingSystemMessages(messages)
        crossed  == {i \in DOMAIN messages : /\ HasRecoveryNotice(messages[i])
                                             /\ \E j \in missing : j < i}
        lastUser == SelectLastInSeq(messages, IsUser)
        kept(i)  == IF SelectLastInSubSeq(messages, 1, i - 1, IsUser) = 0 THEN 0 ELSE 1
    IN  IF crossed # {}
        THEN [messages |-> FromBoundary(messages, Max(crossed)),
              omitted  |-> Max(crossed) - 1 - Len(leading) - kept(Max(crossed)),
              notice   |-> <<>>]
        ELSE IF lastUser = 0
        THEN [messages |-> messages, omitted |-> 0, notice |-> <<>>]
        ELSE [messages |-> leading \o <<RecoverySystem, messages[lastUser]>>,
              omitted  |-> Len(messages) - Len(leading) - 1,
              notice   |-> RecoveryNoticeContent]

=============================================================================
