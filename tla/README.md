# Verification of dsproxy

dsproxy stands between an OpenAI-compatible client and a DeepSeek API. DeepSeek
wants the `reasoning_content` of tool-call messages back in every later request;
many clients drop it. The proxy keeps it in a SQLite table and puts it back. This
directory holds TLA+ models of the parts of the program where that can go wrong,
the TLC runs that check them, and TLAPS proofs about them. Paths below are relative
to the repository.

## The system

| Component | State | Operations | Interacts with | What makes it correct |
|---|---|---|---|---|
| Reasoning cache, `internal/reasoning/store.go` | table on disk, `db` handle, mutex | Open, Close, Put, Get, StoreAssistantMessage, LookupForMessage, BackfillPortableAliases, Clear, Prune | called by every handler goroutine and by main | no use after Close, limits kept through crashes and failures, nothing evicted without reason, no lookup misses a row that stays, otherwise a map |
| Keys, `internal/reasoning/keys.go` | none | scopes, aliases, portable keys | cache, transformation | a message finds its own row first and never one of another namespace |
| Transformation, `internal/transform/transform.go` | none (works on the cache) | PrepareUpstreamRequest (normalize, restore, recover), RewriteResponseBody (notice, record, mirror) | cache, keys, handler | what goes upstream is complete; recovery ends, is visible and is not repeated; what was recorded is found |
| Streaming, `internal/stream`, `internal/proxy/sse.go` | accumulated choices, stages stored, open blocks, pending notice | IngestChunk, StoreReadyReasoning, StoreReasoning, RewriteChunk, FlushChunk, rewriteSSELine | upstream lines, cache, client | what the client assembles, sent back, is what was recorded, wherever the stream is cut |
| HTTP handler, `internal/proxy/handler.go` | one goroutine per request | routing, authorization, body, prepare, reject, forward, regular and streamed answers | all of the above | each outcome gets its status; nothing inadmissible or, in strict mode, incomplete goes upstream |
| Process, `cmd/dsproxy/main.go`, `internal/proxy/server.go` | listeners, serving goroutines, result channel, shutdown timer | configure, open store, clear and exit, listen, serve, select, shutdown | store, tunnel, every handler | it ends when it must, with the right code and nothing left behind; local requests are answered while there is time, those of the tunnel while it is up |
| Tunnel, `internal/tunnel` | agent, endpoint | Listen, Close | main, ngrok | no endpoint without a process, no process without its endpoint |
| Configuration, `internal/config` | none after start | Load, Validate | everything | precedence, nothing invalid in force |
| User identity, `transform.go:509-595` | none | NormalizeUpstreamUserID | namespace | a valid explicit id wins, otherwise a derived one |
| Tracing, `internal/proxy/trace.go` | one file per request | writeTrace | handler | no partial file under the final name, no answer held back |
| Logging, canonical JSON | output | | | |

The hard behaviours: handler goroutines take the mutex once per key, so puts and
lookups of one message interleave with those of others; three SQL statements of a Put
commit one by one and their errors are ignored; Close may come while handlers run;
rows vanish between two requests and inside one; clients retry, regenerate, send back
mirrored thinking and unrecoverable history; streams end anywhere; signals and failing
listeners meet a process that is starting, serving or stopping. `PROJECT.json`
lists each of these at its line, under `hazards`, with the properties that cover it.

## Modules

```
ReasoningCache            abstract: a lossy map
  ^ refined by (checked and proved)
ReasoningStore            store.go
  ReasoningStoreProofs      its theorems
  MCReasoningStore          its instances

ReasoningKeys             keys.go
  Transform               transform.go, the pure parts
    TransformProofs         lemmas about its operators
    Conversation          clients, repair, cache, upstream, recording
      ConversationProofs    its theorems: types, namespaces, complete requests
        RecoveryProofs        ... recovery, from TransformProofs too
          RecordingProofs       ... what is recorded is found
      MCConversation        its instances
    Stream                a streamed answer
      StreamProofs            lemmas about folds, deltas and mirrored blocks
        MirrorProofs          its theorems
      MCStream              its instances

Service                   abstract: what the process promises its clients
  ^ refined by (checked and proved)
Process                   main.go, server.go, ngrok.go
  ProcessProofs             its theorems
  MCProcess                 its instances
  Handler                 handler.go and trace.go around the messages
    Identity              transform.go, user and user_id
      Config              config.go
```

**ReasoningCache** is what the rest of the proxy may assume of the cache: a write may
or may not take effect, rows may vanish at any moment, a read returns nothing or a
value that is in the map at that moment.

**ReasoningStore** has one action per SQL statement or mutex section. `pc` is where a
goroutine is: `put` (about to Put its next key), `age` and `rows` (inside pruneLocked,
holding `mu`), `get` (about to Get its next key), `hit`/`miss` (lookup over). Put is
PutUpsert, PruneAge, PruneRows; Open runs the last two for main. `table` survives
`Exit`, which stands for every way the process ends, a crash included.
`ClearElsewhere` is the maintenance command run by another process on the same file.
Open's failures before Prune leave the process down and are not shown. Time is in
ticks, `TicksPerSecond` of them per second, because the cutoff of pruneLocked is in
whole seconds and `created_at` is not. `unpruned` and `steady` are history: rows
written since the last successful row prune, and the rows a lookup could have found
ever since it began.

**ReasoningKeys** and **Transform** are operators. A message is
`[role, content, calls, reasoning, from]`; its content is a sequence of segments
(`"notice"`, `"nl"`, `"sp"`, `"think"`, other text), because what the properties depend on is
which prefix is where. A hash is the value it hashes, so two keys are equal when the
hashed JSON would be; collisions are not modelled. `TrimLeft` and
`StripCursorThinkingBlocks` do what the Go functions do on segments; a mirrored
block is one segment, so reasoning that itself contains `</think>` is outside the model.
What the regular expression drops, a block and all white space behind it, is written as a recursive function over the positions,
which can be proved about; no module under a theorem has a RECURSIVE operator.

**Conversation** composes them. Each client holds a history, asks, answers tool calls,
retries, regenerates and switches profile (model, key, user). A request is prepared at
once (`Prepared`: normalization without the store, namespace, retirement of the history
before the last notice) and then repaired one message per step (`NormalizeMessage`),
since other requests and evictions come between; a message that was restored takes a second
step, `Backfill`, and by then the rows may be others than those the lookup has seen. `RecoverRequest`, `Forward` and
`Reject` are the end of a pass. `Respond` is RewriteResponseBody: notice, recording
under both contexts, mirroring; the client may or may not get the answer. The cache is
ReasoningCache's map, with `Evict` and `ClearCache`. Reasoning is the number of the
response it came with, and `responses` remembers what each response was. That the keys of
one lookup or one backfill interleave with writes is left to ReasoningStore and its
`NoKeyPassedOver`. Tools and tool_choice enter only
through the profile. A streamed answer is recorded and delivered like a regular one:
that is what Stream's properties show.

**Stream** is one streamed answer: `Data` is rewriteSSELine for a data line (inject the
notice, ingest, record what is ready, mirror), `Done` is `[DONE]`, `Write` the write
loop, `StoreRest` the recording of a stream that was cut. `rows` are the cache rows this
answer writes, `client` is what the client assembles from the deltas that reach it.
Writes go to the HTTP server's buffer and leave it in `Transmit`. The upstream sends any
chunk of `Chunks`, except for a choice it has finished; `StreamAssumption` says what a
chunk is (`IsDelta`), and that within one chunk nothing follows the end of a choice either.
Text is made of `Segments`, the marks of the proxy aside.

**Process** is main. `mainAt` is the statement it is at: `load`, `open`, `clear`,
`listen`, `tunnel` (inside agent.Listen), `tunnelUp` (before the second look at the
context, ngrok.go:58), `tunnelFailed`, `spawn`, `select`, then the shutdown: `shutdown`
(Server.Shutdown is called), `awaitServe`, `drain`, `closeEndpoint`, `collect`, and the
deferred calls. `server` is the goroutine of each listener, `errs` the channel and `left`
how many results main still waits for. A signal may come at any point after the
configuration, also while the tunnel comes up; a listener may fail at any point. Of
net/http, three facts are modelled, as Go's source has them: Serve returns
ErrServerClosed if it starts after Shutdown, and closes its listener whenever it returns;
Shutdown closes the listeners that are served, waits for their Serve without a timer, and
then closes idle connections until none is left or the time is over; a connection is not
kept alive after Shutdown has begun. The endpoint of the tunnel is such a listener, so
`Close` is the effect of ngrokEndpoint.Close wherever it is called from: the first call
disconnects the agent and with it every connection that came through the tunnel. A handler
whose client is gone runs on (state `cut`), and Shutdown waits for it as for any other.
main's own call of Close comes late and finds something to do only if the goroutine of the
tunnel has not reached Serve. `failed` is history. The goroutine of a connection outlives
Shutdown: between GiveUp and Exit handlers run without the store.

**Handler** has one action per blocking step of a request: `Check` is ServeHTTP down to
Client.Do, OpenTrace, WriteTrace and RenameTrace are the three system calls of writeTrace,
`Relay` the reading of the body, `Reply` the return. `Refusal` is the status a request is
refused with, in the order of the code. Whether reasoning is missing is a field of the
request (`carried` by it, `stored`, or `lost`); Conversation is about where that comes from.

**Config** translates where a variable comes from and which values get through: values
the program treats alike are one value. **Identity** is NormalizeUpstreamUserID; the digest
of a user is the user and the token.

**Service** is what a client may rely on: connections are accepted only while the process
serves, and through the tunnel only while that is up; a request that was read is answered,
unless the grace period is over or the tunnel it came through has ended; nothing is served
after the end, and the tunnel is down by then. Process implements it with `Mode`, `Client`,
the agent and the timer as the mapping.

The modules also hold mutants: variants of one definition with a plausible bug, each
marked `Mutant of`. No action or property refers to them. Each checked property is
violated when one definition is replaced by its mutant (`mutants` in `PROJECT.json`).

## Runs

| Run | Checks | Bounds |
|---|---|---|
| MCReasoningStore | TypeOK, NoUseAfterClose, RowLimit, NoKeyPassedOver, EvictionJustified, CallsEnd | 2 handlers, 3 keys, two messages with a common alias, 1 row, age of 1 s, half-second ticks, 2 s of clock; under FairSpec |
| MCReasoningStoreFaults | RowLimit, NoKeyPassedOver, EvictionJustified, ImplementsCache | 2 handlers, 2 keys, 2 reasonings, 1 row; every statement may fail, the clock may step back |
| MCRecover | TypeOK, ForwardComplete, NoticeNotCrossed, RecoveryVisible, RecordedIsFound, RepairEnds | both strategies, 1 client that uses the `function` role, a history with an unrecorded tool turn, with and without its user message, 3 answers, 6 messages, 1 lost row; under FairSpec |
| MCIsolation | Isolation, RestoredIsOwn | 2 clients with equal questions, 2 profiles, interleaved requests, 2 answers |
| MCStream | TypeOK, MirrorTransparent, DoneComplete, RecordedBeforeShown, CutStreamFound | 2 choices, alone or together in a chunk, 16 kinds of delta, text with blanks and newlines, 3 chunks, 2 contexts |
| MCProcess | TypeOK, NothingLeft, ExitCode, NoLocalFallback, GraceRespected, SourcePrecedence, OnlyAdmissibleForwarded, TraceWhole, ImplementsService, SignalStops, FailureStops, RequestsEnd | 2 connections, both listeners, 3 requests (forwarded, reasoning lost, refused), 6 sets of sources; under FairSpec |
| MCAlias, MCTail, MCNewline, MCFlush, MCTunnel, MCUser | OriginalRestored, TailKept, RecordedIsFound, NothingHeldBack, TunnelGrace, UsersApart | violated; see Findings |

Why the bounds are enough. Store: two goroutines are all that can compete for one
mutex; two messages with a common alias and a row limit below the number of keys make
every prune drop something; the clock spans more than one age limit. Conversation: the
longest scenario the code distinguishes is an unrecoverable turn, the recovered answer
with its notice, a tool turn on top of it, and a retry: three answers. A second tool name
or argument adds nothing but distinct aliases, and aliases are shared more with one; only
MCAlias has a second argument, so that a signature of a call can fail to match where the
name of its tool does not.
Stream: three chunks reach reasoning, content and finish, or a tool call in two pieces,
or a block that is closed and opened again; a stream may end or be cut after any. Process:
two connections can be in every pair of states, one on each listener; of the six
configurations two serve (a strict one with the tunnel, and a local one with traces that
overrides it from the process environment) and four do not (a missing token, an
unparsable variable, a value out of range, the one-shot clearing).

Symmetry is used only in MCReasoningStoreFaults, which has no liveness, over handlers and
reasonings. Deadlock is checked for the store, which can always go on; in Conversation
and Stream the bounds stop the behaviours, a stream ends, and so does the process: that
it stops nowhere else is SignalStops and FailureStops.

### What the properties say

* `NoUseAfterClose`: between two statements of a Put or Prune a goroutine holds the
  mutex and the database is open.
* `RowLimit`: rows that have seen a successful row prune never exceed maxRows; with no
  failing statement, no row does while the mutex is free and the process runs, so a crash
  inside Put is repaired by the next Open before anyone is served.
* `NoKeyPassedOver`: a lookup skips no key that has had a row since the lookup began.
* `EvictionJustified`: a row goes by Clear, because it is older than the age limit
  although the cutoff is truncated to seconds, or because maxRows rows at least as new stay.
* `ImplementsCache`: the refinement of ReasoningCache.
* `Isolation`: restored reasoning was produced in the namespace of the request.
* `ForwardComplete`: nothing goes upstream that lacks required reasoning; the exception
  is recovery of a history without a user message, which the code forwards as it is.
* `RecordedIsFound`: while nothing is lost, no delivered answer is ever missing.
* `RestoredIsOwn`: while nothing is lost, a message gets the reasoning that came with it,
  although clients share histories, names and arguments and backfill for each other: the same
  content and the same calls. An answer that carries a notice is
  excepted: see Proofs, where the exception comes from.
* `NoticeNotCrossed`: nothing in front of the last recovery notice is found missing again.
* `RecoveryVisible`: a client whose history was shortened has a notice in its history.
* `MirrorTransparent`: whenever the client is up to date, its content without mirrored
  blocks is what the proxy has accumulated. Excepted is a text with white space right behind
  a mirrored block or a newline in front of everything (`Unharmed`): the code takes that off
  and records it, which is part of the finding MCNewline. The next two have the same exception.
* `DoneComplete`: after `[DONE]`, blocks are closed and the notice was shown once, in front.
* `RecordedBeforeShown`: a choice the client has seen finish is already recorded in full.
* `CutStreamFound`: a cut answer is found again by its signature, or, if the connection
  was lost, by the tool call ids the client has seen.
* `CallsEnd`, `RepairEnds`, `RequestsEnd`: every call on the store, every repair and every
  request ends.
* `NothingLeft`: at the exit both listeners are closed, the agent is disconnected, the store
  is closed, no goroutine is in Serve and no result is unread, on every path through main.
* `ExitCode`: 2 for configuration and store, 1 for a listener that failed, 0 only if the end
  was asked for; without a signal no failure becomes a 0.
* `NoLocalFallback`: with the tunnel configured nobody is connected before it is up, nor
  without it unless it has failed while serving or the shutdown has begun.
* `GraceRespected`: no request loses the store or its connection before the ten seconds are
  over; one that came through the tunnel loses its client only to the end of the tunnel.
* `SourcePrecedence`: the configuration in force is the one the documented order gives.
* `OnlyAdmissibleForwarded`: what is upstream passed every check.
* `TraceWhole`: a file under its final name is complete.
* `ImplementsService`: the refinement of Service.
* `SignalStops`, `FailureStops`: a signal, or one listener that fails, ends the process.

### Fairness

`FairSpec` of ReasoningStore has strong fairness on the steps of a handler and weak
fairness on the statements run under the mutex. Go's `sync.Mutex` hands itself to a
waiter that has starved for a millisecond, so a goroutine that waits again and again is
served: that is the strong fairness; a goroutine that holds the mutex just runs on.
`FairSpec` of Conversation is weak fairness of a handler that has received a request.
Nothing is assumed about requests, the upstream, the clock, or the process.
`FairSpec` of Process is weak fairness of main, of the timer of the shutdown and of the
serving goroutines as far as they only run on (Serve after a closed listener), and of a
handler whose client reads its answer, if the configured timeout is one. SignalStops and
FailureStops do not depend on the last. Weak fairness is written out with `[]<>` where TLC
spends most of its time on ENABLED; the formulas say the same or assume less.

## Findings

* **Streamed lines are never flushed** (MCFlush, `NothingHeldBack`). proxyStreaming
  flushes if its writer is an `http.Flusher`; ServeHTTP wraps the writer in a
  responseRecorder, which embeds the interface `http.ResponseWriter` and has no `Flush`.
  The assertion always fails, so lines wait in the server's buffer until it is full or
  the answer is over.
* **Leading newlines** (MCNewline, `RecordedIsFound`). Every assistant message a client
  sends back is trimmed of leading newlines, the recorded one is not. An answer without
  tool calls in a tool turn that begins with a newline is never found again: strict
  mode then rejects the conversation for good. A blank in front of the text has the same
  effect when the thinking is mirrored, since the regular expression takes all white space
  behind a block; MCStream has such texts and excepts them.
* **Another message's reasoning** (MCAlias, `OriginalRestored`). When rows are lost, the
  lookup falls back on more general aliases. A client asks the same question twice without
  answering the tool call it got; the cache is cleared while the second answer, a call of the
  same tool with another argument, is on its way; when the client retries, the first call
  is given the reasoning of the second, by the portable `tool_name` alias, which depends on
  the text of the turn and the name only. The documentation says the original is restored.
* **The tail is not kept** (MCTail, `TailKept`). Recovery keeps the last user message only,
  whatever lies between it and the turn that cannot be repaired; in the shortest trace that
  is a question not yet answered. The documentation says the current conversation tail is
  kept and older tool-call history omitted.
* **The tunnel has no grace period** (MCTunnel, `TunnelGrace`). Shutdown closes the ngrok
  endpoint before it waits for anybody, since the endpoint itself is what is served, and closing it
  disconnects the agent (ngrok.go:87-97). A request that came through the tunnel loses
  its client when the shutdown begins, and the Close that main calls afterwards, where it would be right,
  has nothing left to do. The documentation promises graceful shutdown for
  local and public listeners.
* **A blank user_id hides the user** (MCUser, `UsersApart`). NormalizeUpstreamUserID stops at
  an empty or whitespace-only `user_id` and does not look at `user`. The documentation
  says that only a valid one wins and that an empty one is omitted: two users of one key
  then share their reasoning.

Two disagreements have no run, since no behaviour is in them. `:memory:` as
REASONING_CONTENT_PATH is joined with the project directory (config.go:321) and names a file.
REQUEST_TIMEOUT=NaN or 1e-10 passes `<= 0` (config.go:371) and becomes no timeout.

## Proofs

Eight modules of proofs, each about one module for every value of its constants. They
use the named assumptions on constants; six theorems have hypotheses of their own, named in
their statement and discussed below.

### The store

`ReasoningStoreProofs` proves, from `StoreAssumption`, for every set of goroutines, keys
and reasonings, every limit and every clock:

| Theorem | Statement |
|---|---|
| TypeCorrect | `Spec => []TypeOK` |
| LockSafe | `Spec => []NoUseAfterClose` |
| RowLimitHolds | `Spec => []RowLimit` |
| LookupComplete | `Spec => []NoKeyPassedOver` |
| EvictionSound | `Spec => EvictionJustified` |
| StoreImplementsCache | `Spec => ImplementsCache` |

The base is `StoreInv`, the conjunction of TypeOK, NoUseAfterClose and `Discipline`.
NoUseAfterClose is not inductive: Close must know that nobody is inside a Put when the
mutex is free, and PruneRows that main is inside Prune exactly while the process is
opening. Discipline says that: who is where in each state of the process, and that a goroutine
that puts has something to put. `StoreStep` has one step per action. The row limit adds
`RowInv`: rows not in `unpruned` are at most maxRows, and without failing statements
`unpruned` is empty whenever the mutex is free and the process is up; that rests on the
cardinality of subsets (FiniteSetTheorems). Lookups need only StoreInv. Evictions rest
on `CutoffBound`: truncating the second makes the cutoff earlier, never later. The
refinement maps a row to its reasoning and a goroutine at `hit` to a reader with an answer;
an upsert is a Write, every deletion a Forget, GetHit a Serve, and the rest resets answers
or stutters.

### The process and its handlers

`ProcessProofs` proves, from `ProcessAssumption`, for any number of connections, any
requests and any sources of configuration, every safety property MCProcess checks:

| Theorem | Statement |
|---|---|
| GraceHolds | `Spec => []GraceRespected` |
| NothingLeftHolds | `Spec => []NothingLeft` |
| ExitCodeHolds | `Spec => []ExitCode` |
| TunnelFirst | `Spec => []NoLocalFallback` |
| PrecedenceHolds | `Spec => []SourcePrecedence` |
| AdmissionHolds | `Spec => []OnlyAdmissibleForwarded` |
| TraceHolds | `Spec => []TraceWhole` |
| ServiceKept | `Spec => ImplementsService` |
| ProcessTypes | `Spec => []TypeOK` |

The base is `ProcessInv`: the values of the variables (`Shape`), what has been done by the
time main is at a statement (`Order`), and that before the time is over a handler keeps its
connection, also when its client is lost, and main does not get past it (`InTime`). `CutInv`
adds that a client is lost only behind a tunnel that has ended, with the shutdown or a failure;
the two give GraceRespected. The exit needs an account of the shutdown. `Results` says that running
serving goroutines and unread results together are exactly the ones main still waits for:
without it, collect could return before a goroutine has sent, or wait for ever. `Opened`
says what is open at each statement of main, so that every path closes it, and `Reported`
ties what failed to the code main will exit with. NothingLeft and ExitCode are what
these say of `exit`. The refinement needs `Meeting`: a listener that is open and served
belongs to a process that accepts, and a connection whose handler runs is in use or cut
off. A step of main is then a step of the mode or a stutter, a step of a request one of its
client. `InForce` (once loaded, the configuration is the reading of the sources, and valid)
gives the precedence together with `LookUpIsValue`: the overlays of Load give a variable
the value of the first source that sets it. `Handled` relates the phase of a
request to its status, `AdmissionInv` to the checks it has passed.

### The conversation

Three modules prove, from `ConversationAssumption`, for any clients, histories, tools and
bounds, every safety property that the passing runs of Conversation check:

| Theorem | Statement | Module |
|---|---|---|
| ConversationTypes | `Spec => []TypeOK` | ConversationProofs |
| IsolationHolds | `Spec => []Isolation` | ConversationProofs |
| ForwardCompleteHolds | `Spec => []ForwardComplete` | ConversationProofs |
| AllShapedHolds | `Spec => []AllShaped` | RecoveryProofs |
| NoticeNotCrossedHolds | `Spec => []NoticeNotCrossed` | RecoveryProofs |
| RecoveryVisibleHolds | `Spec => []RecoveryVisible` | RecoveryProofs |
| RecordedIsFoundHolds | `CleanAnswers => (Spec => []RecordedIsFound)` | RecordingProofs |
| RestoredIsOwnHolds | `CleanAnswers => (Spec => []RestoredIsOwn)` | RecordingProofs |

**Namespaces.** Isolation is a property of requests, but what makes it true is in the cache. `Owned`
strengthens it: every row holds the reasoning of a response to the namespace that is in
its key, every request carries only reasoning of its own namespace, and what a client that
does not keep reasoning holds has none. The argument is that every key a message is looked
up, backfilled or recorded under has the request's namespace in it (`KeysNamespace`); then
a lookup finds what is owned (`LookupOwned`) and a write keeps the rows owned
(`BackfillOwned`, `StoreOwned`), whatever other requests and evictions come between.
Recovery only rearranges messages (`BoundaryElements` and its corollaries).

**Complete requests.** ForwardComplete rests on `AllRepaired`: a message that needs reasoning and is not listed
as missing has it. Whether a message needs it depends on the roles before it
(`NeedsByRoles`), which neither the messages after it nor the stripped notice change. The
exception is `FruitlessRecovery`: a round that omits nothing although something is missing
has found no user message at all, since the message that lacks its reasoning would
otherwise be among those left out.

**Recovery.** `AllShaped` says what a request in progress is made of: its `src` is either
the normalized history of the client, cut at the last notice in it (`LeftOf`), or, after a
round of recovery, instructions and the last user message (`Recovered`), and its `out` is
as much of `src` as has been repaired, with nothing changed but reasoning. It has to say
that every message of `src` is `Settled`, that is, that normalizing it again would change
nothing: otherwise the pass after a recovery could find another notice than the pass before.
That is `StripCleans` and `StripKeepsClean` of TransformProofs: what has been stripped has
no thinking block and no leading newline, and a content like that is left as it is.
NoticeNotCrossed then holds since in a history cut at its last notice there is only the
context in front of it, which is no assistant message, and a recovered one has no assistant
message at all. RecoveryVisible is inductive with AllShaped: a history is shortened for an
answer either by recovery, and then the answer begins with the notice (`RecoveredShows`),
or by the cut at a notice the history already has (`ShortenedShows`).

**Recording.** An answer is recorded under the keys of the request that brought it, and looked up
under those of a later request, whose history is longer, may have been cut by recovery in
between, and is normalized from what the client sends back. `AllFiled` states where it can be found
while nothing has been lost: for every answer in every history there is a row under its
signature at its `Home`, the scope of the conversation before it, cut as a request for it would be; for
an answer with a notice, whose request had another context, the turn it belongs to. `RespondFiles`
shows that a new answer is filed there, `FilingSteps` that histories and rows only grow in
a way that keeps it so. The other half is `AnswerPlace` and `NextIsFound`: when a request comes
to an answer, it looks at exactly that place, because what is in front of the answer in
`src` is what `LeftOf` makes of what was in front of it in the history. `Good` carries this through a
request: nothing is missing so far, and what was restored is own. For the latter, the signature is
the first key of a lookup (`AliasesAre`), so a row of another answer with the same
tool calls is never reached, and `AllSigned` says that a row under a signature is of an answer with that signature.

Both theorems need `CleanAnswers`: the upstream's own text has no mirrored thinking block and does not
begin with the proxy's notice, with a newline, or, where thinking is mirrored, with any white
space. The block and the notice are texts that only the proxy writes; the white space is a real restriction,
since the code does not ensure it and the property fails without it: that is the finding MCNewline. The answers
of MCRecover and MCIsolation satisfy it.

RestoredIsOwn has its exception because its proof failed without it. When a conversation that
was recovered before is recovered again, its context has the recovery instruction twice (the
one put there when the history was retired, transform.go:742-746, and the new one), and the answer is
recorded under that scope. A later request has the instruction once, so the row of the
signature is not in its scope. The answer is still found, by its turn or by the name of a tool;
but a row of another answer that calls the same tool in the same scope comes
before the turn, and its reasoning is restored instead. TLC confirms it. For
an answer without a notice this cannot happen, and that is what is stated and proved.

### A streamed answer

`MirrorProofs` proves, from `StreamAssumption`, for any number of choices, contexts and chunks,
whatever the chunks contain and wherever the stream ends:

| Theorem | Statement |
|---|---|
| StreamTypes | `Spec => []TypeOK` |
| MirrorTransparentHolds | `CleanText => (Spec => []MirrorTransparent)` |
| DoneCompleteHolds | `CleanText => (Spec => []DoneComplete)` |
| RecordedBeforeShownHolds | `CleanText /\ OwnIds => (Spec => []RecordedBeforeShown)` |
| CutStreamFoundHolds | `CleanText /\ OwnIds /\ SteadyIds => (Spec => []CutStreamFound)` |

MirrorTransparent and DoneComplete are not inductive: both look only at moments when the client is up to
date. `MirrorInv` speaks of every moment. There is a sequence of deltas, `rest`, with which the
client would have everything (`Ahead`); while the connection lasts that is what is in the
server's buffer followed by the line being written, and once it is lost, what would have
been. Then (`Mirrors`) the client's choices *with* `rest` agree with the proxy's in calls, reasoning and
end, and their content `Shows` the proxy's: without its mirrored blocks, read segment by segment,
it has exactly those segments, and the scan ends inside a block just for the choices of
`open`. As long as the notice is pending nobody has been answered; afterwards it
is in one place (`OneNotice`). After `[DONE]` the client may have one notice more than the proxy has
accumulated, which `ToldOf` accounts for.

A fold is a recursion over sets in the community modules; `MergeRuns` and its like turn each
fold of Stream into a run along the sequence, and from there everything is an
induction over deltas (`InductionTo`). `Passages` lines up three of them: what the proxy
accumulates, the open blocks, and what the client assembles from the rewritten deltas.
`MirrorsStep` is one delta: it opens, goes on with or closes a block, and carries text, the notice,
both or neither; `ShowsSegment` is the case analysis underneath. `Data` is then a chunk
(`MirrorsChunk`), `Done` closes the blocks in any order (`MirrorsFlush`) and sends a pending notice
(`MirrorsLate`), and `Transmit` only moves deltas from `rest` to the client (`IngestJoin`).

`CleanText` says that the upstream's text contains none of the proxy's marks: no opening or closing of a
thinking block, and no notice. The code cannot tell such text from its own, so the properties
need it. White space is allowed anywhere; `SendsBack` is where what the client has is read as
Transform reads it, and where `Unharmed` is needed. The instances of MCStream satisfy CleanText.

The last two theorems add `RowsInv`, which speaks of the cache:

- `Final`: a choice that has reasoning and has ended, or is there when the stream is over, is recorded
  as final, and no other is.
- `Kept`: a choice recorded as final has a row under each of its keys, and the one under its
  signature holds the reasoning of a choice recorded as final with the same signature.
  It cannot say "its own reasoning": choices of one answer share a namespace, and two that say
  the same overwrite each other.
- `Owning`: the id of an accumulated call came in a piece of that choice.

`Store` iterates over the choices of a Go map, and `StoreRows` says what a row is afterwards
in whatever order that happens. `KeptStep` is where `OwnIds` is used, that tool calls of different
choices have different ids: a choice recorded early, at the stage "tool_call", could
otherwise overwrite the row of a finished one with the same signature by reasoning that is still growing. With
`OwnIds` it would have the same ids (`SameCalls`) and so be the same choice.

From there, a choice the client has seen finish has nothing on its way any more (`EndedIs`, by
`InTime` of `MirrorInv`), so it is the proxy's choice, and that is recorded. A choice the client
knows only by its tool calls may go on, and what the proxy has recorded is ahead of it. `SteadyIds`
says that a later piece of a call repeats its id or leaves it out; then no id
is lost on the way (`Stays`), and the proxy has a row for each. An upstream that sends an empty
id later takes it back (accumulator.go:95, a hazard in PROJECT.json), and it may never get a row. The chunks
of MCStream satisfy both, and MCStream checks the two properties on them.

### The operators of Transform

TransformProofs has what those proofs need to know about normalization, the keys of a message,
positions of the last user message and the last notice, retired fronts and splices of sequences. A fact about
contents of every length is proved by taking the least length at which it would fail
(`LeastNatural`, and `InductionTo` for lengths up to a bound), since the theorems of
NaturalsInduction take an operator as a parameter.

### Only model-checked

Liveness (CallsEnd, RepairEnds, SignalStops, FailureStops, RequestsEnd), which this
prover cannot do. Every invariant a passing run checks is stated by a theorem.

## Not modelled

CORS headers, the model list, logging, the contents and the redaction of traces, canonical
JSON, the configuration variables that only carry a value, hash
collisions, token-level text. Field filtering and conversion of tools matter here only as
parts of the namespace. SQLite itself is taken at its word: a statement is atomic and
durable once it returns; a `:memory:` database is a table that does not survive `Exit`, a special case
of one that is cleared. A client that disappears in the middle of a request is an upstream
failure in Handler and a cut stream in Stream. A signal before signal.NotifyContext kills the
process, which has opened nothing yet.

## Plan

A composition of Stream with Conversation: streamed answers interleaved with other
requests on the same cache.
