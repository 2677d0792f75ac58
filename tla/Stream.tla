-------------------------------- MODULE Stream --------------------------------
(***************************************************************************)
(* A streamed answer: proxyStreaming and rewriteSSELine (internal/proxy),  *)
(* Accumulator and DisplayAdapter (internal/stream).                       *)
(*                                                                         *)
(* Every data line of the upstream is ingested and, where a choice is      *)
(* ready, recorded; then it is rewritten and written to the client.  The   *)
(* HTTP server buffers what is written, and the client, which may be gone, *)
(* assembles the deltas that reach it as the proxy does.  Lines that carry *)
(* no JSON pass through and are left out.                                  *)
(*                                                                         *)
(* A chunk is a sequence of deltas                                         *)
(*    [index, content, reasoning, tools, calls, finish];                   *)
(* content and reasoning are a sequence of segments, Null (JSON null), or  *)
(* Absent; tools tells that there is a list tool_calls, and calls are its  *)
(* elements [at, id, name, args], "at" counted from 1.                     *)
(***************************************************************************)
EXTENDS Transform

CONSTANTS Indices,     \* the indices of the choices, 0 among them
          Contexts,    \* the scopes the answer is recorded under
          Segments,    \* what the text of the upstream consists of
          Chunks,      \* the chunks the upstream may send
          MaxChunks,   \* bound on their number
          Recovered,   \* the request was recovered: there is a notice to show
          Display,     \* cfg.DisplayReasoning
          Absent, Null

Texts == Seq(Segments \cup {"notice", "nl", "open", "close"})
Fields == {Absent, Null} \cup Seq(Segments)

IsDelta(d) ==
    /\ d \in [index : Indices, content : Fields, reasoning : Fields, tools : BOOLEAN,
               calls : Seq(ToSet(d.calls)), finish : BOOLEAN]
    /\ d.calls # <<>> => d.tools
    /\ \A call \in ToSet(d.calls) : call.at \in Nat \ {0}

\* Nothing follows the end of a choice in the chunk that has it.
ASSUME StreamAssumption ==
    /\ IsFiniteSet(Indices) /\ 0 \in Indices
    /\ {Absent, Null} \cap Texts = {}
    /\ MaxChunks \in Nat
    /\ Recovered \in BOOLEAN /\ Display \in BOOLEAN
    /\ \A chunk \in Chunks :
          /\ chunk \in Seq(ToSet(chunk)) /\ \A d \in ToSet(chunk) : IsDelta(d)
          /\ \A i, j \in DOMAIN chunk : i < j /\ chunk[i].finish => chunk[j].index # chunk[i].index

VARIABLES phase,   \* "reading", "writing", "ending", "closed", or "crashed"
          received,\* number of chunks so far
          choices, \* a.choices: what the proxy has accumulated
          stored,  \* a.storedChoices: 0 nothing, 1 "tool_call", 2 "final"
          rows,    \* the cache rows this answer has written: key -> reasoning
          notice,  \* recoveryNotice while it is still to be shown
          open,    \* d.openChoices: the choices inside a mirrored block
          line,    \* the rewritten deltas about to be written
          buffer,  \* what is written and has not left the HTTP server
          done,    \* [DONE] has been read
          client,  \* what the client has assembled
          lost     \* the client has closed the connection

vars == <<phase, received, choices, stored, rows, notice, open, line, buffer,
          done, client, lost>>

NewChoice == [content |-> <<>>, calls |-> <<>>, reasoning |-> Absent, finished |-> FALSE]

IsText(field) == field \notin {Absent, Null}
Text(field) == IF IsText(field) THEN field ELSE <<>>

-----------------------------------------------------------------------------
(* Accumulator. *)

NewCall == [id |-> NoId, name |-> "", args |-> <<>>]

\* A later delta overwrites the id and appends to the name and the arguments.
MergeCall(calls, d) ==
    LET padded == [i \in 1..Max({d.at, Len(calls)}) |->
                     IF i <= Len(calls) THEN calls[i] ELSE NewCall]
    IN  [padded EXCEPT ![d.at] = [id   |-> IF d.id = Absent THEN @.id ELSE d.id,
                                  name |-> @.name \o d.name,
                                  args |-> @.args \o d.args]]

MergeDelta(cs, d) ==
    [cs EXCEPT ![d.index] =
        [content   |-> @.content \o Text(d.content),
         calls     |-> FoldLeft(MergeCall, @.calls, d.calls),
         reasoning |-> IF IsText(d.reasoning) THEN Text(@.reasoning) \o d.reasoning
                                              ELSE @.reasoning,
         finished  |-> @.finished \/ d.finish]]

IngestChunk(cs, chunk) == FoldLeft(MergeDelta, cs, chunk)

HasIdentifiedToolCalls(c) == /\ c.reasoning # Absent
                             /\ c.calls # <<>>
                             /\ \A i \in DOMAIN c.calls : c.calls[i].id # NoId

\* Mutant of ReadyStage: finish_reason is not looked at.
ReadyCalls(c) == IF HasIdentifiedToolCalls(c) THEN 1 ELSE 0

\* How far a choice can be recorded while the stream goes on.
ReadyStage(c) == IF c.finished THEN 2 ELSE IF HasIdentifiedToolCalls(c) THEN 1 ELSE 0

FinalStage == [i \in Indices |-> 2]

\* StoreReadyReasoning and StoreReasoning for every context: a stage is
\* recorded once, and never after a later one.  Go iterates the choices in any
\* order, which tells when two of them share a key.
Store(cs, stage) ==
    LET due     == {p \in Indices \X Contexts : /\ cs[p[1]].reasoning # Absent
                                                /\ stage[p[1]] > stored[p]}
        Keys(p) == {k \in ToSet(KeysAt(p[2], cs[p[1]])) : IsKey(k)}
        writes  == UNION {{p[1]} \X Keys(p) : p \in due}
        written == {w[2] : w \in writes}
        After(order) ==
            LET Writer(k) == order[k.place][SelectLastInSeq(order[k.place],
                                                LAMBDA i : <<i, k>> \in writes)]
            IN  [k \in DOMAIN rows \cup written |->
                    IF k \in written THEN cs[Writer(k)].reasoning ELSE rows[k]]
    IN  /\ rows' \in {After(order) : order \in [Contexts -> SetToSeqs(Indices)]}
        /\ stored' = [p \in Indices \X Contexts |->
                        IF p \in due THEN stage[p[1]] ELSE stored[p]]

-----------------------------------------------------------------------------
(* Recovery notice and mirrored thinking. *)

Carries(d) == d.content # Absent \/ d.tools

\* Mutant of InjectRecoveryNotice: into every choice.
InjectEverywhere(chunk) ==
    [i \in DOMAIN chunk |-> IF Carries(chunk[i])
                            THEN [chunk[i] EXCEPT !.content = notice \o Text(@)]
                            ELSE chunk[i]]

\* The first delta that has a content field, even null, or a list of tool
\* calls, even an empty one.
InjectRecoveryNotice(chunk) ==
    LET i == SelectInSeq(chunk, Carries)
    IN  IF notice = <<>> \/ i = 0 THEN chunk
        ELSE [chunk EXCEPT ![i].content = notice \o Text(@)]

\* Mutants of EndsBlock: without the finish_reason; without the content.
EndsUnfinished(d) == IsText(d.content) \/ d.tools
EndsByCall(d) == d.tools \/ d.finish

\* What closes the mirrored block of a choice.
EndsBlock(d) == IsText(d.content) \/ d.tools \/ d.finish

\* RewriteChunk for one delta, with the open choices so far.
Mirror(opened, d) ==
    LET thinks == IsText(d.reasoning) /\ d.reasoning # <<>>
        inside == thinks \/ d.index \in opened
        closes == inside /\ EndsBlock(d)
        block  == (IF thinks /\ d.index \notin opened THEN <<"open">> ELSE <<>>)
                      \o (IF thinks THEN d.reasoning ELSE <<>>)
                      \o (IF closes THEN <<"close">> ELSE <<>>)
    IN  [opened |-> IF closes THEN opened \ {d.index}
                    ELSE IF thinks THEN opened \cup {d.index} ELSE opened,
         delta  |-> IF block = <<>> THEN d
                    ELSE [d EXCEPT !.content = block \o Text(@)]]

\* ... and for the next delta of a chunk.
Rewrite(s, d) == LET m == Mirror(s.opened, d)
                 IN  [opened |-> m.opened, out |-> Append(s.out, m.delta)]

RewriteChunk(chunk) == FoldLeft(Rewrite, [opened |-> open, out |-> <<>>], chunk)

ContentDelta(i, content) == [index |-> i, content |-> content, reasoning |-> Absent,
                             tools |-> FALSE, calls |-> <<>>, finish |-> FALSE]

\* FlushChunk: every block still open is closed.
FlushChunk == SetToSeq({ContentDelta(i, <<"close">>) : i \in open})

RecoveryNoticeChunk == IF notice = <<>> THEN <<>> ELSE <<ContentDelta(0, notice)>>

-----------------------------------------------------------------------------

Init == /\ phase = "reading"
        /\ received = 0
        /\ choices = [i \in Indices |-> NewChoice]
        /\ stored = [p \in Indices \X Contexts |-> 0]
        /\ rows = <<>>
        /\ notice = IF Recovered THEN RecoveryNoticeContent ELSE <<>>
        /\ open = {}
        /\ line = <<>>
        /\ buffer = <<>>
        /\ done = FALSE
        /\ client = [i \in Indices |-> NewChoice]
        /\ lost = FALSE

\* A data line.  The upstream sends nothing for a choice it has finished.
Data(chunk) ==
    LET injected  == InjectRecoveryNotice(chunk)
        rewritten == IF Display THEN RewriteChunk(injected)
                                ELSE [opened |-> open, out |-> injected]
    IN  /\ phase = "reading" /\ received < MaxChunks
        /\ \A i \in DOMAIN chunk : ~choices[chunk[i].index].finished
        /\ received' = received + 1
        /\ choices' = IngestChunk(choices, injected)
        /\ Store(choices', [i \in Indices |-> ReadyStage(choices'[i])])
        /\ notice' = IF injected # chunk THEN <<>> ELSE notice
        /\ open' = rewritten.opened
        /\ line' = rewritten.out
        /\ phase' = "writing"
        /\ UNCHANGED <<buffer, done, client, lost>>

\* data: [DONE].
Done == /\ phase = "reading"
        /\ Store(choices, FinalStage)
        /\ line' = FlushChunk \o RecoveryNoticeChunk
        /\ open' = {}
        /\ notice' = <<>>
        /\ done' = TRUE
        /\ phase' = "writing"
        /\ UNCHANGED <<received, choices, buffer, client, lost>>

\* w.(http.Flusher): the handler's writer is a responseRecorder, which embeds
\* the interface http.ResponseWriter and has no method Flush.
Flusher == FALSE

\* w.Write, and Flush where it is there.  Once the client has gone, a write
\* may still succeed, to no effect, or fail, which ends the loop.
Write ==
    LET sent == buffer \o line
    IN  /\ phase = "writing"
        /\ line' = <<>>
        /\ \/ /\ buffer' = IF lost \/ Flusher THEN <<>> ELSE sent
              /\ client' = IF ~lost /\ Flusher THEN IngestChunk(client, sent) ELSE client
              /\ phase' = IF done THEN "closed" ELSE "reading"
           \/ /\ lost
              /\ phase' = IF done THEN "closed" ELSE "ending"
              /\ UNCHANGED <<buffer, client>>
        /\ UNCHANGED <<received, choices, stored, rows, notice, open, done, lost>>

\* The HTTP server sends some of what it holds: its buffer is full, or the
\* handler has returned.
Transmit == /\ phase # "crashed"
            /\ \E n \in 1..Len(buffer) :
                  /\ client' = IngestChunk(client, SubSeq(buffer, 1, n))
                  /\ buffer' = SubSeq(buffer, n + 1, Len(buffer))
            /\ UNCHANGED <<phase, received, choices, stored, rows, notice, open, line, done, lost>>

\* The client closes the connection.
Hangup == /\ ~lost /\ phase # "crashed"
          /\ lost' = TRUE
          /\ buffer' = <<>>
          /\ UNCHANGED <<phase, received, choices, stored, rows, notice, open, line, done, client>>

\* End of file, an error or a timeout while reading from the upstream; a client
\* that has gone cancels the read.
ReadEnds == /\ phase = "reading"
            /\ phase' = "ending"
            /\ UNCHANGED <<received, choices, stored, rows, notice, open, line, buffer,
                           done, client, lost>>

\* Mutant of StoreRest: a stream without [DONE] is dropped.
DropRest == /\ phase = "ending"
            /\ phase' = "closed"
            /\ UNCHANGED <<received, choices, stored, rows, notice, open, line,
                           buffer, done, client, lost>>

\* The stream ended before [DONE].
StoreRest == /\ phase = "ending"
             /\ Store(choices, FinalStage)
             /\ phase' = "closed"
             /\ UNCHANGED <<received, choices, notice, open, line, buffer, done, client, lost>>

\* The process dies.
Crash == /\ phase \notin {"closed", "crashed"}
         /\ phase' = "crashed"
         /\ line' = <<>>
         /\ UNCHANGED <<received, choices, stored, rows, notice, open, buffer, done,
                        client, lost>>

Next == \/ \E chunk \in Chunks : Data(chunk)
        \/ Done \/ Write \/ Transmit \/ Hangup \/ ReadEnds \/ StoreRest \/ Crash

Spec == Init /\ [][Next]_vars

-----------------------------------------------------------------------------
(* Properties. *)

\* One more segment of a content, inside a mirrored block or not.
Scan(seen, segment) ==
    IF seen.inside THEN [seen EXCEPT !.inside = segment # "close"]
    ELSE [out    |-> Append(seen.out, IF segment = "open" THEN "think" ELSE segment),
          inside |-> segment = "open"]

\* The content as Transform knows it: a mirrored block, closed or cut off at
\* the end, is one segment "think" (transform.go:46).
Blocks(content) == FoldLeft(Scan, [out |-> <<>>, inside |-> FALSE], content).out

\* What the proxy makes of a choice when the client sends it back.
SentBack(i) == [client[i] EXCEPT !.content = StripCursorThinkingBlocks(Blocks(@))]

Notices(i) == {j \in DOMAIN client[i].content : client[i].content[j] = "notice"}

\* The types of the state; a choice is inside a mirrored block only once it has
\* reasoning and until it is finished (display.go:52-76).
TypeOK == /\ phase \in {"reading", "writing", "ending", "closed", "crashed"}
          /\ received \in 0..MaxChunks
          /\ DOMAIN choices = Indices /\ DOMAIN client = Indices
          /\ stored \in [Indices \X Contexts -> 0..2]
          /\ \A i \in open : Text(choices[i].reasoning) # <<>> /\ ~choices[i].finished
          /\ phase # "writing" => line = <<>>

\* The client has everything that was written.
UpToDate == ~lost /\ buffer = <<>>

\* No white space is right behind a mirrored block, and no newline in front of
\* everything: the proxy would take it off with the block (transform.go:46,
\* 130-132), and the message would not be the one it has recorded.
Unharmed(i) ==
    LET b == Blocks(client[i].content)
    IN  \A n \in DOMAIN b : b[n] \in White => IF n = 1 THEN b[1] # "nl"
                                                       ELSE b[n - 1] # "think"

\* Mirrored thinking is transparent (display.go:39-116, transform.go:130-132):
\* whenever the client is up to date, what it sends back is what the proxy has
\* accumulated, however reasoning, content, tool calls and the notice are
\* spread over the chunks and wherever the stream is cut.  White space behind
\* a mirrored block is excepted: there it does not hold.
MirrorTransparent ==
    UpToDate /\ phase \in {"reading", "ending"} =>
        \A i \in Indices : Unharmed(i) => SentBack(i).content = choices[i].content

\* After [DONE] no mirrored block is left open, and the client has seen the
\* notice of a recovered request, once, in front of a message.
DoneComplete ==
    UpToDate /\ done /\ phase = "closed" =>
        /\ \A i \in Indices :
              LET content == client[i].content
              IN  \A j \in DOMAIN content : content[j] = "open" =>
                     \E l \in j..Len(content) : content[l] = "close"
        /\ Recovered =>
              /\ \E i \in Indices : HasRecoveryNotice([role |-> "assistant",
                                                       content |-> SentBack(i).content])
              /\ Cardinality(UNION {{i} \X Notices(i) : i \in Indices}) = 1

\* The reasoning of message m is found under its signature in every context:
\* the reasoning of this choice or of another with the same signature.
Found(m, R) == \A x \in Contexts :
    LET k == [place |-> x, alias |-> MessageSignature(m)]
    IN  k \in DOMAIN rows /\ rows[k] \in R

\* An answer of nothing but reasoning gets the notice after [DONE] has been
\* recorded, and then its signature differs; no later request needs it.
Answers(i) == choices[i].content # <<>> \/ choices[i].calls # <<>>

Twins(i) == {choices[j].reasoning : j \in
                {n \in Indices : MessageSignature(choices[n]) = MessageSignature(choices[i])}}

\* A choice the client has seen finished is in the cache with all of its
\* reasoning, before the stream ends, and even if the process dies
\* (accumulator.go:160-170, sse.go:73-76), with the same exception.
RecordedBeforeShown ==
    \A i \in Indices :
        /\ client[i].finished /\ client[i].reasoning # Absent
        /\ Answers(i) /\ Unharmed(i)
        => Found(SentBack(i), Twins(i))

\* However a stream ends but for a crash, what the client got of it can be
\* repaired: the cut message is found under its signature if nothing was lost
\* on the way to the client, with the same exception, and under every tool
\* call id the client has seen in any case (handler.go:316-321).
CutStreamFound ==
    phase = "closed" =>
        \A i \in Indices : client[i].reasoning # Absent =>
            /\ UpToDate /\ Answers(i) /\ Unharmed(i) => Found(SentBack(i), Twins(i))
            /\ \A n \in DOMAIN client[i].calls : client[i].calls[n].id # NoId =>
                  \A x \in Contexts :
                     [place |-> x, alias |-> <<"tool_call", client[i].calls[n].id>>] \in DOMAIN rows

-----------------------------------------------------------------------------
(* What the documentation says and the code does not do. *)

\* README.md:33: streaming is preserved.  While the proxy waits for the next
\* line of the upstream, the client has seen every line before it.
NothingHeldBack == phase = "reading" /\ ~lost => buffer = <<>>

=============================================================================
