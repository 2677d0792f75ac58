-------------------------------- MODULE Process --------------------------------
(***************************************************************************)
(* The life of the process: main of cmd/dsproxy/main.go, the tunnel of     *)
(* internal/tunnel/ngrok.go, the goroutines that serve the local and the   *)
(* public listener, and the shutdown, around the requests of Handler.      *)
(*                                                                         *)
(* main is one goroutine; its control state is mainAt.  The context ends   *)
(* when a signal arrives, at any time.  net/http's Server is modelled as   *)
(* far as Serve and Shutdown depend on each other.                         *)
(***************************************************************************)
EXTENDS Handler, Sequences, Naturals

CONSTANT Sources   \* what the process environment and the two .env files may hold

\* The process always has an environment, and no request is "no request".
ASSUME ProcessAssumption == /\ \A s \in Sources : s.process # Unreadable
                            /\ NoRequest \notin Requests

VARIABLES sources,    \* what they do hold
          mainAt,     \* where main is
          code,       \* the exit code
          cancelled,  \* ctx.Done() is closed
          listener,   \* listener -> "none", "open" or "closed"
          agent,      \* the ngrok agent: "none", "connected" or "gone"
          server,     \* listener -> the goroutine that serves it
          errs,       \* the channel errs
          left,       \* results main has still to receive
          grace,      \* the timer of the shutdown: "off", "running" or "over"
          failed      \* history: what has failed so far

mainVars == <<sources, code, cancelled, listener, agent, server, errs, left, grace, failed>>
vars == <<handlerVars, cfg, store, accepting, mainAt, mainVars>>

Listeners == {"local", "ngrok"}

\* The listeners main has goroutines for.
Served == IF cfg.ngrok THEN Listeners ELSE {"local"}

\* What the running of main and of the listeners leaves alone ...
Calm == UNCHANGED <<req, phase, status, files, cfg, sources>>

\* ... and what it leaves alone when no connection is closed.
Quiet == Calm /\ UNCHANGED conn

\* A connection after the tunnel it came through is gone: its handler runs on
\* for a client that is no longer there.
Lost(k) == IF k.via # "ngrok" THEN k
           ELSE IF k.state \in {"in", "cut"} THEN [k EXCEPT !.state = "cut"] ELSE NotConnected

\* Close of some listeners.  ngrokEndpoint.Close disconnects the agent too, the
\* first time it is called; later calls find nothing to do.
Close(L) ==
    /\ listener' = [l \in Listeners |-> IF l \in L THEN "closed" ELSE listener[l]]
    /\ agent' = IF "ngrok" \in L THEN "gone" ELSE agent
    /\ conn' = [c \in Conns |-> IF "ngrok" \in L THEN Lost(conn[c]) ELSE conn[c]]

Goto(l) == mainAt' = l

-----------------------------------------------------------------------------
(* From the start to the listeners. *)

Load == /\ mainAt = "load"
        /\ cfg' = Configuration(sources)
        /\ IF cfg' = NoConfig
           THEN Goto("exit") /\ code' = 2 /\ failed' = failed \cup {"config"}
           ELSE Goto("open") /\ UNCHANGED <<code, failed>>
        /\ UNCHANGED <<handlerVars, sources, store, accepting, cancelled, listener, agent,
                       server, errs, left, grace>>

OpenStore == /\ mainAt = "open"
             /\ \/ /\ store' = "open"
                   /\ Goto(IF cfg.clear THEN "clear" ELSE "listen")
                   /\ UNCHANGED <<code, failed>>
                \/ /\ Goto("exit") /\ code' = 2 /\ failed' = failed \cup {"store"}
                   /\ UNCHANGED store
             /\ Quiet
             /\ UNCHANGED <<accepting, cancelled, listener, agent, server, errs, left, grace>>

ClearStore == /\ mainAt = "clear"
              /\ Goto("closeStore")
              /\ \/ code' = 0 /\ UNCHANGED failed
                 \/ code' = 2 /\ failed' = failed \cup {"store"}
              /\ Quiet
              /\ UNCHANGED <<store, accepting, cancelled, listener, agent, server, errs, left, grace>>

Listen == /\ mainAt = "listen"
          /\ \/ /\ listener' = [listener EXCEPT !["local"] = "open"]
                /\ Goto(IF cfg.ngrok THEN "tunnel" ELSE "spawn")
                /\ UNCHANGED <<code, failed>>
             \/ /\ Goto("closeStore") /\ code' = 1 /\ failed' = failed \cup {"local"}
                /\ UNCHANGED listener
          /\ Quiet
          /\ UNCHANGED <<store, accepting, cancelled, agent, server, errs, left, grace>>

\* newAgent and agent.Listen: both may fail, and a cancelled context makes
\* agent.Listen fail.  After a failure the agent is disconnected.
TunnelListen ==
    /\ mainAt = "tunnel"
    /\ \/ /\ agent' = "connected"
          /\ listener' = [listener EXCEPT !["ngrok"] = "open"]
          /\ Goto("tunnelUp")
          /\ UNCHANGED failed
       \/ /\ agent' \in {"none", "gone"}
          /\ Goto("tunnelFailed")
          /\ failed' = failed \cup {"tunnel"}
          /\ UNCHANGED listener
    /\ Quiet
    /\ UNCHANGED <<store, accepting, code, cancelled, server, errs, left, grace>>

\* Mutant of TunnelCheck: the endpoint is forgotten.
TunnelForgotten ==
    /\ mainAt = "tunnelUp"
    /\ Goto(IF cancelled THEN "tunnelFailed" ELSE "spawn")
    /\ Quiet
    /\ UNCHANGED <<store, accepting, code, cancelled, server, errs, left, grace, failed, agent,
                   listener>>

\* The context is looked at once more when the endpoint is there.
TunnelCheck ==
    /\ mainAt = "tunnelUp"
    /\ \/ /\ ~cancelled
          /\ Goto("spawn")
          /\ UNCHANGED <<agent, listener>>
       \/ /\ cancelled
          /\ Goto("tunnelFailed")
          /\ agent' = "gone"
          /\ listener' = [listener EXCEPT !["ngrok"] = "closed"]
    /\ Quiet
    /\ UNCHANGED <<store, accepting, code, cancelled, server, errs, left, grace, failed>>

\* Mutant of TunnelFailed: local-only mode.
FallBack ==
    /\ mainAt = "tunnelFailed"
    /\ Goto("spawn")
    /\ Quiet
    /\ UNCHANGED <<store, accepting, cancelled, code, listener, agent, server, errs, left, grace,
                   failed>>

\* Mutant of TunnelFailed: the failure is taken for a signal.
TunnelGivesUp ==
    /\ mainAt = "tunnelFailed"
    /\ listener' = [listener EXCEPT !["local"] = "closed"]
    /\ code' = 0
    /\ Goto("closeStore")
    /\ Quiet
    /\ UNCHANGED <<store, accepting, cancelled, agent, server, errs, left, grace, failed>>

TunnelFailed ==
    /\ mainAt = "tunnelFailed"
    /\ listener' = [listener EXCEPT !["local"] = "closed"]
    /\ code' = IF cancelled THEN 0 ELSE 1
    /\ Goto("closeStore")
    /\ Quiet
    /\ UNCHANGED <<store, accepting, cancelled, agent, server, errs, left, grace, failed>>

\* The go statements.
Spawn == /\ mainAt = "spawn"
         /\ server' = [l \in Listeners |-> IF l \in Served THEN "spawned" ELSE "none"]
         /\ Goto("select")
         /\ Quiet
         /\ UNCHANGED <<store, accepting, code, cancelled, listener, agent, errs, left, grace, failed>>

-----------------------------------------------------------------------------
(* The goroutines of the listeners: Server.Serve. *)

\* Mutant of StartServing: Serve does not look whether the server is shut down.
StartAnyway(l) ==
    /\ server[l] = "spawned"
    /\ server' = [server EXCEPT ![l] = "serving"]
    /\ UNCHANGED <<listener, errs>>
    /\ Quiet
    /\ UNCHANGED <<store, accepting, mainAt, code, cancelled, agent, left, grace, failed>>

\* Serve closes its listener when it returns.
StartServing(l) ==
    /\ server[l] = "spawned"
    /\ IF accepting
       THEN /\ server' = [server EXCEPT ![l] = "serving"]
            /\ Close({}) /\ UNCHANGED errs
       ELSE /\ server' = [server EXCEPT ![l] = "done"]
            /\ Close({l})
            /\ errs' = Append(errs, "ErrServerClosed")
    /\ Calm
    /\ UNCHANGED <<store, accepting, mainAt, code, cancelled, left, grace, failed>>

\* Mutant of StopServing: the goroutine reports a failure and serves on.
ServeAgain(l) ==
    /\ server[l] = "serving"
    /\ errs' = Append(errs, "failure")
    /\ failed' = failed \cup {"serve"}
    /\ Quiet
    /\ UNCHANGED <<store, accepting, mainAt, code, cancelled, listener, agent, server, left, grace>>

\* Accept fails: the listener was closed, or it broke down by itself.
StopServing(l) ==
    /\ server[l] = "serving"
    /\ server' = [server EXCEPT ![l] = "done"]
    /\ Close({l})
    /\ IF accepting
       THEN errs' = Append(errs, "failure") /\ failed' = failed \cup {"serve"}
       ELSE errs' = Append(errs, "ErrServerClosed") /\ UNCHANGED failed
    /\ Calm
    /\ UNCHANGED <<store, accepting, mainAt, code, cancelled, left, grace>>

Accept(l, c) ==
    /\ server[l] = "serving" /\ listener[l] = "open"
    /\ conn[c].state = "out" /\ phase[c] = "none"
    /\ conn' = [conn EXCEPT ![c] = [state |-> "new", via |-> l]]
    /\ UNCHANGED <<cfg, store, req, phase, status, files, accepting, mainAt, mainVars>>

-----------------------------------------------------------------------------
(* The shutdown. *)

Signal == /\ mainAt \notin {"load", "exit"} /\ ~cancelled
          /\ cancelled' = TRUE
          /\ UNCHANGED <<handlerVars, cfg, store, accepting, mainAt, sources, code, listener, agent,
                         server, errs, left, grace, failed>>

\* The select takes either case when both are ready.
SelectDone == /\ mainAt = "select" /\ cancelled
              /\ code' = 0
              /\ left' = Cardinality(Served)
              /\ Goto("shutdown") /\ grace' = "running"
              /\ Quiet
              /\ UNCHANGED <<store, accepting, cancelled, listener, agent, server, errs, failed>>

\* Mutant of SelectResult: shutdown(0).
SelectAll == /\ mainAt = "select" /\ errs # <<>>
             /\ code' = IF Head(errs) = "ErrServerClosed" THEN 0 ELSE 1
             /\ errs' = Tail(errs)
             /\ left' = Cardinality(Served)
             /\ Goto("shutdown") /\ grace' = "running"
             /\ Quiet
             /\ UNCHANGED <<store, accepting, cancelled, listener, agent, server, failed>>

SelectResult == /\ mainAt = "select" /\ errs # <<>>
                /\ code' = IF Head(errs) = "ErrServerClosed" THEN 0 ELSE 1
                /\ errs' = Tail(errs)
                /\ left' = Cardinality(Served) - 1
                /\ Goto("shutdown") /\ grace' = "running"
                /\ Quiet
                /\ UNCHANGED <<store, accepting, cancelled, listener, agent, server, failed>>

\* Server.Shutdown refuses new work and closes the listeners that are served,
\* the endpoint of the tunnel among them.
CloseListeners ==
    /\ mainAt = "shutdown"
    /\ accepting' = FALSE
    /\ Close({l \in Listeners : server[l] = "serving"})
    /\ Goto("awaitServe")
    /\ Calm
    /\ UNCHANGED <<store, code, cancelled, server, errs, left, grace, failed>>

\* Mutant of AwaitServe: the endpoint is closed without waiting for requests.
CloseEarly ==
    /\ mainAt = "awaitServe"
    /\ \A l \in Listeners : server[l] # "serving"
    /\ Goto("closeEndpoint")
    /\ Quiet
    /\ UNCHANGED <<store, accepting, code, cancelled, listener, agent, server, errs, left, grace, failed>>

\* ... waits until their goroutines have left Serve ...
AwaitServe ==
    /\ mainAt = "awaitServe"
    /\ \A l \in Listeners : server[l] # "serving"
    /\ Goto("drain")
    /\ Quiet
    /\ UNCHANGED <<store, accepting, code, cancelled, listener, agent, server, errs, left, grace, failed>>

\* ... and closes idle connections, and new ones that stay silent, until there
\* are none left: one whose client is lost stays until its handler returns.
Poll ==
    /\ mainAt = "drain"
    /\ \E silent \in SUBSET {c \in Conns : conn[c].state = "new"} :
          conn' = [c \in Conns |-> IF c \in silent \/ conn[c].state = "idle"
                                   THEN NotConnected ELSE conn[c]]
    /\ Goto(IF \A c \in Conns : conn'[c].state = "out" THEN "closeEndpoint" ELSE "drain")
    /\ UNCHANGED <<cfg, store, req, phase, status, files, accepting, mainVars>>

GraceEnds == /\ mainAt \in {"shutdown", "awaitServe", "drain"}
             /\ grace = "running" /\ grace' = "over"
             /\ UNCHANGED <<handlerVars, cfg, store, accepting, mainAt, sources, code, cancelled,
                            listener, agent, server, errs, left, failed>>

GiveUp == /\ mainAt = "drain" /\ grace = "over"
          /\ Goto("closeEndpoint")
          /\ Quiet
          /\ UNCHANGED <<store, accepting, code, cancelled, listener, agent, server, errs, left, grace, failed>>

\* main closes the endpoint too: nothing is left to do, unless the goroutine of
\* the tunnel has not reached Serve yet.
CloseEndpoint ==
    /\ mainAt = "closeEndpoint"
    /\ Close({"ngrok"} \cap Served)
    /\ Goto("collect")
    /\ Calm
    /\ UNCHANGED <<store, accepting, code, cancelled, server, errs, left, grace, failed>>

Collect == /\ mainAt = "collect"
           /\ \/ /\ left > 0 /\ errs # <<>>
                 /\ errs' = Tail(errs)
                 /\ left' = left - 1
                 /\ UNCHANGED mainAt
              \/ /\ left = 0
                 /\ Goto("closeStore")
                 /\ UNCHANGED <<errs, left>>
           /\ Quiet
           /\ UNCHANGED <<store, accepting, code, cancelled, listener, agent, server, grace, failed>>

\* The deferred calls: endpoint.Close again, which does nothing, and store.Close.
CloseStore == /\ mainAt = "closeStore"
              /\ store' = "closed"
              /\ Goto("return")
              /\ Quiet
              /\ UNCHANGED <<accepting, code, cancelled, listener, agent, server, errs, left, grace, failed>>

\* os.Exit: handlers that are still running are gone.
Exit == /\ mainAt = "return"
        /\ Goto("exit")
        /\ conn' = [c \in Conns |-> NotConnected]
        /\ UNCHANGED <<cfg, store, req, phase, status, files, accepting, mainVars>>

-----------------------------------------------------------------------------

Init == /\ HandlerInit
        /\ sources \in Sources
        /\ cfg = NoConfig /\ store = "none" /\ accepting = TRUE
        /\ mainAt = "load" /\ code = 0 /\ cancelled = FALSE
        /\ listener = [l \in Listeners |-> "none"]
        /\ agent = "none"
        /\ server = [l \in Listeners |-> "none"]
        /\ errs = <<>> /\ left = 0
        /\ grace = "off" /\ failed = {}

Main == \/ Load \/ OpenStore \/ ClearStore \/ Listen \/ TunnelListen \/ TunnelCheck
        \/ TunnelFailed \/ Spawn \/ SelectDone \/ SelectResult \/ CloseListeners \/ AwaitServe
        \/ Poll \/ GiveUp \/ CloseEndpoint \/ Collect \/ CloseStore \/ Exit

Request(c) == /\ mainAt # "exit"
              /\ \/ Receive(c) \/ Leave(c) \/ Check(c) \/ UpstreamAnswers(c) \/ UpstreamFails(c)
                 \/ OpenTrace(c) \/ WriteTrace(c) \/ RenameTrace(c) \/ Relay(c) \/ Reply(c)
              /\ UNCHANGED <<mainAt, mainVars>>

Next == \/ Main \/ Signal \/ GraceEnds
        \/ \E l \in Listeners : /\ mainAt # "exit"
                                /\ \/ StartServing(l) \/ StopServing(l)
                                   \/ \E c \in Conns : Accept(l, c)
        \/ \E c \in Conns : Request(c)

Spec == Init /\ [][Next]_vars

\* main and the goroutines of the listeners run on, and the timer of the
\* shutdown fires.  Nothing is assumed about clients, signals or the upstream.
ProcessFairness == /\ WF_vars(Main) /\ WF_vars(GraceEnds)
                   /\ \A l \in Listeners : WF_vars(mainAt # "exit" /\
                         (StartServing(l) \/ (listener[l] = "closed" /\ StopServing(l))))

\* A handler runs on if its client reads the answer: ReadTimeout limits the
\* reading of a request and Client.Timeout the upstream, unless the configured
\* time becomes no timeout at all.  (Weak fairness of the handler's own steps,
\* written out: TLC takes twice as long to find out when they are enabled.)
HandlerFairness == \A c \in Conns :
    \/ []<>(phase[c] = "none" \/ mainAt = "exit" \/ cfg.timeout \notin Durations)
    \/ []<><<phase'[c] # phase[c]>>_vars

FairSpec == Spec /\ ProcessFairness /\ HandlerFairness

-----------------------------------------------------------------------------
(* Properties. *)

\* Types: the channel errs has room for every result that is ever sent.
TypeOK == /\ cfg = NoConfig => mainAt \in {"load", "exit"}
          /\ store \in {"none", "open", "closed"}
          /\ agent \in {"none", "connected", "gone"}
          /\ left \in 0..Cardinality(Listeners)
          /\ Len(errs) <= 2
          /\ code \in 0..2
          /\ \A c \in Conns : /\ req[c] \in Requests \cup {NoRequest}
                              /\ phase[c] = "none" <=> req[c] = NoRequest
                              /\ status[c] # 0 => phase[c] = "reply"

\* However the process ends, nothing it has opened is left behind: both
\* listeners are closed, the agent is disconnected, the store is closed, and
\* no goroutine is still in Serve or holds a result nobody reads
\* (main.go:91-122, ngrok.go:55-64).
NothingLeft ==
    mainAt = "exit" =>
        /\ \A l \in Listeners : listener[l] # "open" /\ server[l] \in {"none", "done"}
        /\ agent # "connected"
        /\ store # "open"
        /\ errs = <<>>

\* The exit code (main.go:50-135): 2 for a configuration or a store that does
\* not work, 1 when a listener fails, 0 only when the process was asked to end,
\* by a signal or by CLEAR_REASONING_CACHE; without a signal no failure is
\* reported as success.
ExitCode ==
    mainAt = "exit" =>
        /\ code = 2 <=> failed \cap {"config", "store"} # {}
        /\ code = 1 => failed \cap {"local", "tunnel", "serve"} # {}
        /\ code = 0 => cancelled \/ cfg.clear
        /\ failed # {} /\ ~cancelled => code # 0

\* With the tunnel enabled there is no fallback to local-only mode: nothing is
\* served before the tunnel is up, with settings Validate refuses, or without
\* the tunnel unless it has failed while serving or the process is shutting
\* down (README.md:225-228).
NoLocalFallback ==
    (\E c \in Conns : conn[c].state # "out") /\ cfg.ngrok =>
        /\ cfg.token # Blank
        /\ agent # "connected" => agent = "gone" /\ (~accepting \/ "serve" \in failed)

\* A request is served without the store, or loses its connection, only when
\* the ten seconds of the shutdown have passed (main.go:111-122).  A request
\* that came through the tunnel can lose its client before that, but only to
\* the end of the tunnel, which comes with the shutdown or with a failure
\* (ngrok.go:87-97).
GraceRespected ==
    \A c \in Busy :
        /\ store # "open" \/ conn[c].state = "out" => grace = "over"
        /\ conn[c].state = "cut" =>
              /\ conn[c].via = "ngrok" /\ agent = "gone"
              /\ ~accepting \/ "serve" \in failed

\* The configuration in force is the one README.md:262-267 names: a variable
\* has the value of the first of the process environment, the project file
\* and the home file that sets it; a file that cannot be read sets nothing.
SourcePrecedence ==
    cfg # NoConfig =>
        LET order == <<sources.process, sources.project, sources.home>>
            setBy(v) == {i \in 1..3 : order[i] # Unreadable /\ v \in DOMAIN order[i]}
            first(v) == order[CHOOSE i \in setBy(v) : \A j \in setBy(v) : i <= j][v]
            value(v) == IF setBy(v) = {} THEN Default[v]
                        ELSE IF first(v) = Blank THEN Default[v] ELSE first(v)
        IN  /\ cfg.strategy = value("MISSING_REASONING_STRATEGY")
            /\ cfg.ngrok <=> value("NGROK_ENABLED") = "true"
            /\ cfg.clear <=> value("CLEAR_REASONING_CACHE") = "true"
            /\ cfg.token = value("NGROK_AUTHTOKEN")

\* What goes upstream is a chat completion with a bearer token, a body that was
\* read, no user the rules reject (README.md:358-364) and, in strict mode, all
\* the reasoning it needs (README.md:333).
OnlyAdmissibleForwarded ==
    \A c \in Upstream :
        /\ req[c].method = "POST" /\ req[c].path = "chat"
        /\ req[c].auth # NoAuth /\ req[c].body = "object"
        /\ req[c].user_id \in ValidIds \cup {Null, Blank} /\ req[c].user # NotString
        /\ cfg.strategy = "reject" => req[c].reasoning # "lost"

\* A file under the name of a trace is a whole trace, also when the write or
\* the rename fails or the process ends in between (README.md:419).
TraceWhole == \A c \in Conns : files[c].name = "final" => files[c].content = "whole"

\* A signal ends the process, whatever the clients and the upstream do.
SignalStops == cancelled ~> mainAt = "exit"

\* So does a listener that fails (README.md:228).
FailureStops == errs # <<>> ~> mainAt = "exit"

\* A request is answered, whether or not its trace can be written
\* (README.md:419), if the upstream's time is limited.
RequestsEnd == \A c \in Conns :
    (phase[c] # "none" /\ cfg.timeout \in Durations) ~> (phase[c] = "none" \/ mainAt = "exit")

-----------------------------------------------------------------------------
(* The process keeps the promise of Service. *)

Mode == IF mainAt = "exit" THEN "stopped"
        ELSE IF ~accepting THEN "draining"
        ELSE IF mainAt \in {"select", "shutdown"} THEN "serving"
        ELSE "starting"

\* A client that has lost its connection is out, whatever its handler does.
Client(k) == CASE k.state \in {"out", "cut"} -> NotConnected
               [] k.state = "in" -> [k EXCEPT !.state = "busy"]
               [] k.state \in {"new", "idle"} -> [k EXCEPT !.state = "in"]

Promise == INSTANCE Service WITH mode <- Mode, client <- [c \in Conns |-> Client(conn[c])],
                                 tunnel <- agent = "connected", grace <- grace # "over"

ImplementsService == Promise!Spec

-----------------------------------------------------------------------------
(* What the documentation says and the code does not do. *)

\* README.md:350-362: different users of one API key do not share reasoning,
\* and a blank user_id is no user_id.
UsersApart ==
    \A c, d \in Upstream :
        /\ req[c].auth = req[d].auth
        /\ {req[c].user_id, req[d].user_id} \subseteq {Null, Blank}
        /\ Namespace(req[c]) = Namespace(req[d])
        => \/ req[c].user = req[d].user
           \/ {req[c].user, req[d].user} \subseteq {Null, Blank}

\* README.md:50, graceful shutdown for local and public listeners: when a
\* signal ends the process and no listener has failed, a request that came
\* through the tunnel has the ten seconds too.
TunnelGrace ==
    failed = {} => \A c \in Busy : conn[c].state = "cut" => grace = "over"

=============================================================================
