----------------------------- MODULE ProcessProofs -----------------------------
(***************************************************************************)
(* Proofs about Process for any number of connections, any requests and    *)
(* any configuration sources.                                              *)
(***************************************************************************)
EXTENDS Process, FiniteSetTheorems, TLAPS

\* main has not started its goroutines.
Early == {"load", "open", "clear", "listen", "tunnel", "tunnelUp", "tunnelFailed", "spawn"}

\* main waits for nobody to be in Serve any more.
Late == {"drain", "closeEndpoint", "collect", "closeStore", "return", "exit"}

Spawned == \E l \in Listeners : server[l] # "none"

\* No connection and no handler.
Quiescent == \A c \in Conns : conn[c].state = "out" /\ phase[c] = "none"

Phases == {"none", "received", "upstream", "trace", "write", "rename", "relay", "reply"}

Links == [state : {"out", "new", "in", "idle", "cut"}, via : Listeners]

Shape == /\ conn \in [Conns -> Links]
         /\ phase \in [Conns -> Phases]
         /\ server \in [Listeners -> {"none", "spawned", "serving", "done"}]

\* Where main is, and what that means for the listeners, the store and the
\* connections.
Order == /\ mainAt \in Early => ~Spawned
         /\ mainAt \in Late => \A l \in Listeners : server[l] # "serving"
         /\ mainAt \notin Early \cup {"select", "shutdown"} /\ Spawned => ~accepting
         /\ mainAt \notin {"load", "open", "return", "exit"} => store = "open"
         /\ mainAt \in Early \cup {"select"} => grace = "off"
         /\ ~Spawned => Quiescent

\* Before the time is over a connection stays with its handler, also when its
\* client is lost, and main does not get past the polling while there is one.
InTime == grace # "over" =>
             /\ \A c \in Conns : phase[c] # "none" => conn[c].state \in {"in", "cut"}
             /\ mainAt \in Late \ {"drain"} => Quiescent

ProcessInv == Shape /\ Order /\ InTime

\* A trace file is whole before it is renamed.
TraceInv ==
    /\ phase \in [Conns -> Phases]
    /\ files \in [Conns -> [name : {"none", "temp", "final"}, content : {"none", "part", "whole"}]]
    /\ \A c \in Conns : /\ phase[c] = "rename" => files[c].content = "whole"
                        /\ files[c].name = "final" => files[c].content = "whole"

-----------------------------------------------------------------------------

\* Closing listeners closes no connection that came another way, and leaves one
\* to every handler.
LEMMA Closing ==
    ASSUME Shape, NEW L, Close(L)
    PROVE  /\ conn' \in [Conns -> Links]
           /\ \A c \in Conns :
                 /\ conn[c].state = "out" => conn'[c].state = "out"
                 /\ conn[c].state \in {"in", "cut"} => conn'[c].state \in {"in", "cut"}
                 /\ conn'[c].state \in {"in", "out", "cut"} \/ conn'[c] = conn[c]
           /\ "ngrok" \notin L => UNCHANGED <<conn, agent>>
<1>1. \A c \in Conns : conn[c] \in Links
  BY DEF Shape
<1>a. \A k \in Links : /\ Lost(k) \in Links
                       /\ k.state = "out" => Lost(k).state = "out"
                       /\ k.state \in {"in", "cut"} => Lost(k).state \in {"in", "cut"}
                       /\ Lost(k).state \in {"in", "out", "cut"} \/ Lost(k) = k
  <2> SUFFICES ASSUME NEW k \in Links
               PROVE  /\ Lost(k) \in Links
                      /\ k.state = "out" => Lost(k).state = "out"
                      /\ k.state \in {"in", "cut"} => Lost(k).state \in {"in", "cut"}
                      /\ Lost(k).state \in {"in", "out", "cut"} \/ Lost(k) = k
    OBVIOUS
  <2>1. CASE k.via # "ngrok"
    BY <2>1 DEF Lost
  <2>2. CASE k.via = "ngrok" /\ k.state \in {"in", "cut"}
    BY <2>2 DEF Lost, Links, Listeners
  <2>3. CASE k.via = "ngrok" /\ k.state \notin {"in", "cut"}
    BY <2>3 DEF Lost, NotConnected, Links, Listeners
  <2>4. QED BY <2>1, <2>2, <2>3
<1>2. \A c \in Conns : conn'[c] = IF "ngrok" \in L THEN Lost(conn[c]) ELSE conn[c]
  BY DEF Close
<1>3. ASSUME NEW c \in Conns
      PROVE  /\ conn'[c] \in Links
             /\ conn[c].state = "out" => conn'[c].state = "out"
             /\ conn[c].state \in {"in", "cut"} => conn'[c].state \in {"in", "cut"}
             /\ conn'[c].state \in {"in", "out", "cut"} \/ conn'[c] = conn[c]
  <2>1. CASE "ngrok" \in L
    BY <1>1, <1>2, <1>a, <2>1
  <2>2. CASE "ngrok" \notin L
    BY <1>1, <1>2, <2>2
  <2>3. QED BY <2>1, <2>2
<1>4. DOMAIN conn' = Conns /\ conn' = [c \in Conns |-> conn'[c]]
  BY DEF Close
<1>5. "ngrok" \notin L => UNCHANGED <<conn, agent>>
  BY DEF Close, Shape
<1>6. QED BY <1>3, <1>4, <1>5

\* Nothing runs when the process starts.
LEMMA ProcessInit == Init => ProcessInv
BY DEF Init, HandlerInit, NotConnected, NoFile, ProcessInv, Shape, Links, Order, InTime, Early, Late,
       Spawned, Quiescent, Listeners, Phases

\* Every step keeps the invariant.
LEMMA ProcessStep == ProcessInv /\ [Next]_vars => ProcessInv'
<1> SUFFICES ASSUME ProcessInv, [Next]_vars PROVE ProcessInv'
  OBVIOUS
<1> USE DEF ProcessInv, Shape, Links, Order, InTime, Phases, Early, Late, Spawned, Quiescent, Listeners,
            Goto, Quiet, Calm, handlerVars, mainVars, NotConnected, NoFile
<1>1. CASE Load
  BY <1>1 DEF Load
<1>2. CASE OpenStore
  BY <1>2 DEF OpenStore
<1>3. CASE ClearStore
  BY <1>3 DEF ClearStore
<1>4. CASE Listen
  BY <1>4 DEF Listen
<1>5. CASE TunnelListen
  BY <1>5 DEF TunnelListen
<1>6. CASE TunnelCheck
  BY <1>6 DEF TunnelCheck
<1>7. CASE TunnelFailed
  BY <1>7 DEF TunnelFailed
<1>8. CASE Spawn
  BY <1>8 DEF Spawn, Served
<1>9. CASE SelectDone
  BY <1>9 DEF SelectDone
<1>10. CASE SelectResult
  BY <1>10 DEF SelectResult
<1>11. CASE CloseListeners
  BY <1>11, Closing DEF CloseListeners
<1>12. CASE AwaitServe
  BY <1>12 DEF AwaitServe
<1>13. CASE Poll
  BY <1>13 DEF Poll
<1>14. CASE GiveUp
  BY <1>14 DEF GiveUp
<1>15. CASE CloseEndpoint
  BY <1>15, Closing DEF CloseEndpoint
<1>16. CASE Collect
  BY <1>16 DEF Collect
<1>17. CASE CloseStore
  BY <1>17 DEF CloseStore
<1>18. CASE Exit
  BY <1>18 DEF Exit
<1>19. CASE Signal
  BY <1>19 DEF Signal
<1>20. CASE GraceEnds
  BY <1>20 DEF GraceEnds
<1>21. ASSUME NEW l \in Listeners, StartServing(l) PROVE ProcessInv'
  BY <1>21, Closing DEF StartServing
<1>22. ASSUME NEW l \in Listeners, StopServing(l) PROVE ProcessInv'
  BY <1>22, Closing DEF StopServing
<1>23. ASSUME NEW l \in Listeners, NEW c \in Conns, Accept(l, c) PROVE ProcessInv'
  BY <1>23 DEF Accept
<1>24. ASSUME NEW c \in Conns, Receive(c), UNCHANGED <<mainAt, mainVars>> PROVE ProcessInv'
  BY <1>24 DEF Receive
<1>25. ASSUME NEW c \in Conns, Leave(c), UNCHANGED <<mainAt, mainVars>> PROVE ProcessInv'
  BY <1>25 DEF Leave
<1>26. ASSUME NEW c \in Conns, Check(c), UNCHANGED <<mainAt, mainVars>> PROVE ProcessInv'
  BY <1>26 DEF Check
<1>27. ASSUME NEW c \in Conns, UpstreamAnswers(c), UNCHANGED <<mainAt, mainVars>> PROVE ProcessInv'
  BY <1>27 DEF UpstreamAnswers
<1>28. ASSUME NEW c \in Conns, UpstreamFails(c), UNCHANGED <<mainAt, mainVars>> PROVE ProcessInv'
  BY <1>28 DEF UpstreamFails
<1>29. ASSUME NEW c \in Conns, OpenTrace(c), UNCHANGED <<mainAt, mainVars>> PROVE ProcessInv'
  BY <1>29 DEF OpenTrace
<1>30. ASSUME NEW c \in Conns, WriteTrace(c), UNCHANGED <<mainAt, mainVars>> PROVE ProcessInv'
  BY <1>30 DEF WriteTrace
<1>31. ASSUME NEW c \in Conns, RenameTrace(c), UNCHANGED <<mainAt, mainVars>> PROVE ProcessInv'
  BY <1>31 DEF RenameTrace
<1>32. ASSUME NEW c \in Conns, Relay(c), UNCHANGED <<mainAt, mainVars>> PROVE ProcessInv'
  BY <1>32 DEF Relay
<1>33. ASSUME NEW c \in Conns, Reply(c), UNCHANGED <<mainAt, mainVars>> PROVE ProcessInv'
  BY <1>33 DEF Reply
<1>34. CASE UNCHANGED vars
  BY <1>34 DEF vars
<1>35. QED
  BY <1>1, <1>2, <1>3, <1>4, <1>5, <1>6, <1>7, <1>8, <1>9, <1>10, <1>11, <1>12, <1>13, <1>14,
       <1>15, <1>16, <1>17, <1>18, <1>19, <1>20, <1>21, <1>22, <1>23, <1>24, <1>25, <1>26,
       <1>27, <1>28, <1>29, <1>30, <1>31, <1>32, <1>33, <1>34 DEF Next, Main, Request

\* The invariant holds in every reachable state.
THEOREM Invariance == Spec => []ProcessInv
<1>1. QED BY ProcessInit, ProcessStep, PTL DEF Spec

\* A request changes nothing of main.
LEMMA RequestFrame ==
    ASSUME NEW c, Request(c) PROVE UNCHANGED <<mainAt, mainVars, cfg, store, accepting>>
BY DEF Request, Receive, Leave, Check, UpstreamAnswers, UpstreamFails, OpenTrace, WriteTrace,
       RenameTrace, Relay, Reply

\* A client that is lost came through the tunnel, which has ended with the
\* shutdown or with a failure.
CutInv == \A c \in Conns : conn[c].state = "cut" =>
             /\ conn[c].via = "ngrok" /\ agent = "gone"
             /\ ~accepting \/ "serve" \in failed

\* Closing listeners cuts off nobody who did not come through the tunnel.
LEMMA CutClose ==
    ASSUME Shape, CutInv, NEW L, Close(L), ~accepting' \/ "serve" \in failed' \/ "ngrok" \notin L,
           accepting' => accepting, failed \subseteq failed'
    PROVE  CutInv'
<1>1. CASE "ngrok" \notin L
  <2>1. UNCHANGED <<conn, agent>>
    BY <1>1, Closing
  <2>2. QED BY <2>1 DEF CutInv
<1>2. CASE "ngrok" \in L
  <2>1. agent' = "gone" /\ \A c \in Conns : conn'[c] = Lost(conn[c])
    BY <1>2 DEF Close
  <2>2. ASSUME NEW c \in Conns, conn'[c].state = "cut" PROVE conn'[c].via = "ngrok"
    <3>1. CASE conn[c].via # "ngrok"
      <4>1. conn'[c] = conn[c]
        BY <2>1, <3>1 DEF Lost
      <4>2. conn[c].state = "cut"
        BY <2>2, <4>1
      <4>3. QED BY <3>1, <4>2 DEF CutInv
    <3>2. CASE conn[c].via = "ngrok" /\ conn[c].state \in {"in", "cut"}
      <4>1. conn'[c] = [conn[c] EXCEPT !.state = "cut"]
        BY <2>1, <3>2 DEF Lost
      <4>2. QED BY <3>2, <4>1 DEF Shape, Links
    <3>3. CASE conn[c].via = "ngrok" /\ conn[c].state \notin {"in", "cut"}
      <4>1. conn'[c] = NotConnected
        BY <2>1, <3>3 DEF Lost
      <4>2. QED BY <2>2, <4>1 DEF NotConnected
    <3>4. QED BY <3>1, <3>2, <3>3
  <2>3. QED BY <1>2, <2>1, <2>2 DEF CutInv
<1>3. QED BY <1>1, <1>2

\* Every step keeps it.
LEMMA CutStep == ProcessInv /\ CutInv /\ [Next]_vars => CutInv'
<1> SUFFICES ASSUME ProcessInv, CutInv, [Next]_vars PROVE CutInv'
  OBVIOUS
<1>a. Shape
  BY DEF ProcessInv
<1>1. CASE UNCHANGED conn /\ (agent' = agent \/ agent' = "gone") /\ (accepting' => accepting)
           /\ failed \subseteq failed'
  BY <1>1 DEF CutInv
<1>2. CASE Load \/ OpenStore \/ ClearStore \/ Listen \/ TunnelListen \/ TunnelCheck
           \/ TunnelFailed \/ Spawn
  <2>1. UNCHANGED conn /\ \A c \in Conns : conn[c].state = "out"
    BY <1>2 DEF Load, OpenStore, ClearStore, Listen, TunnelListen, TunnelCheck, TunnelFailed, Spawn,
       Quiet, Calm, handlerVars, ProcessInv, Order, Early, Quiescent
  <2>2. QED BY <2>1 DEF CutInv
<1>3. CASE SelectDone \/ SelectResult \/ AwaitServe \/ GiveUp \/ Collect \/ CloseStore
           \/ Signal \/ GraceEnds \/ UNCHANGED vars
  BY <1>1, <1>3 DEF SelectDone, SelectResult, AwaitServe, GiveUp, Collect, CloseStore, Signal,
     GraceEnds, vars, Quiet, handlerVars, mainVars
<1>4. CASE CloseListeners
  BY <1>a, <1>4, CutClose DEF CloseListeners
<1>5. CASE CloseEndpoint
  <2>1. CASE accepting
    <3>1. \A c \in Conns : conn[c].state = "out"
      BY <1>5, <2>1 DEF CloseEndpoint, ProcessInv, Order, Early, Quiescent
    <3>2. QED BY <1>5, <1>a, <3>1, Closing DEF CloseEndpoint, CutInv
  <2>2. CASE ~accepting
    BY <1>a, <1>5, <2>2, CutClose DEF CloseEndpoint
  <2>3. QED BY <2>1, <2>2
<1>6. CASE Poll \/ Exit
  BY <1>6 DEF Poll, Exit, NotConnected, mainVars, CutInv
<1>7. ASSUME NEW l \in Listeners, StartServing(l) \/ StopServing(l) PROVE CutInv'
  <2>1. PICK L \in SUBSET Listeners :
           Close(L) /\ (~accepting' \/ "serve" \in failed' \/ "ngrok" \notin L)
    BY <1>7 DEF StartServing, StopServing
  <2>2. (accepting' => accepting) /\ failed \subseteq failed'
    BY <1>7 DEF StartServing, StopServing
  <2>3. QED BY <1>a, <2>1, <2>2, CutClose
<1>8. ASSUME NEW l \in Listeners, NEW c \in Conns, Accept(l, c) PROVE CutInv'
  BY <1>8 DEF Accept, CutInv, mainVars, ProcessInv, Shape
<1>9. ASSUME NEW c \in Conns, Request(c) PROVE CutInv'
  <2>1. UNCHANGED <<accepting, agent, failed>>
    BY <1>9, RequestFrame DEF mainVars
  <2>2. \A d \in Conns : conn'[d].state = "cut" => conn'[d] = conn[d]
    BY <1>9 DEF Request, Receive, Leave, Check, UpstreamAnswers, UpstreamFails, OpenTrace,
       WriteTrace, RenameTrace, Relay, Reply, NotConnected, ProcessInv, Shape, Links
  <2>3. QED BY <2>1, <2>2 DEF CutInv
<1>10. QED
  BY <1>2, <1>3, <1>4, <1>5, <1>6, <1>7, <1>8, <1>9 DEF Next, Main

\* No request loses the store before the time of the shutdown is over, or its
\* client, unless that came through a tunnel that has ended (main.go:111-122,
\* ngrok.go:87-97).
THEOREM GraceHolds == Spec => []GraceRespected
<1>1. Init => CutInv
  BY DEF Init, HandlerInit, NotConnected, CutInv
<1>2. ProcessInv /\ CutInv => GraceRespected
  BY DEF ProcessInv, Shape, Order, InTime, Early, Late, Spawned, Quiescent, Listeners,
         GraceRespected, Busy, CutInv
<1>3. QED BY <1>1, <1>2, CutStep, Invariance, PTL DEF Spec

\* Only the handler touches trace files.
LEMMA TraceStep == TraceInv /\ [Next]_vars => TraceInv'
<1> SUFFICES ASSUME TraceInv, [Next]_vars PROVE TraceInv'
  OBVIOUS
<1> USE DEF TraceInv, Phases
<1>1. CASE UNCHANGED <<phase, files>>
  BY <1>1
<1>2. ASSUME NEW c \in Conns, Receive(c) PROVE TraceInv'
  BY <1>2 DEF Receive
<1>3. ASSUME NEW c \in Conns, Check(c) PROVE TraceInv'
  BY <1>3 DEF Check
<1>4. ASSUME NEW c \in Conns, UpstreamAnswers(c) PROVE TraceInv'
  BY <1>4 DEF UpstreamAnswers
<1>5. ASSUME NEW c \in Conns, UpstreamFails(c) PROVE TraceInv'
  BY <1>5 DEF UpstreamFails
<1>6. ASSUME NEW c \in Conns, OpenTrace(c) PROVE TraceInv'
  BY <1>6 DEF OpenTrace
<1>7. ASSUME NEW c \in Conns, WriteTrace(c) PROVE TraceInv'
  <2>1. CASE phase' = [phase EXCEPT ![c] = "relay"] /\ UNCHANGED files
    BY <2>1
  <2>2. CASE /\ phase' = [phase EXCEPT ![c] = "rename"]
             /\ files' = [files EXCEPT ![c].content = "whole"]
    <3> DEFINE F == [name : {"none", "temp", "final"}, content : {"none", "part", "whole"}]
               f == [files[c] EXCEPT !.content = "whole"]
    <3>1. files[c] \in F
      OBVIOUS
    <3>2. f \in F /\ f.content = "whole"
      BY <3>1
    <3>3. files' = [files EXCEPT ![c] = f]
      BY <2>2
    <3> HIDE DEF f
    <3>4. QED BY <2>2, <3>2, <3>3
  <2>3. QED BY <1>7, <2>1, <2>2 DEF WriteTrace
<1>8. ASSUME NEW c \in Conns, RenameTrace(c) PROVE TraceInv'
  BY <1>8 DEF RenameTrace
<1>9. ASSUME NEW c \in Conns, Relay(c) PROVE TraceInv'
  BY <1>9 DEF Relay
<1>10. ASSUME NEW c \in Conns, Reply(c) PROVE TraceInv'
  BY <1>10 DEF Reply, NoFile
<1>11. CASE Main \/ Signal \/ GraceEnds
  <2>1. UNCHANGED <<phase, files>>
    BY <1>11 DEF Main, Signal, GraceEnds, Quiet, Calm, handlerVars,
       Load, OpenStore, ClearStore, Listen, TunnelListen, TunnelCheck, TunnelFailed, Spawn,
       SelectDone, SelectResult, CloseListeners, AwaitServe, Poll, GiveUp, CloseEndpoint,
       Collect, CloseStore, Exit
  <2>2. QED BY <1>1, <2>1
<1>12. ASSUME NEW l \in Listeners,
              StartServing(l) \/ StopServing(l) \/ \E c \in Conns : Accept(l, c)
       PROVE  TraceInv'
  <2>1. UNCHANGED <<phase, files>>
    BY <1>12 DEF StartServing, StopServing, Accept, Quiet, Calm, handlerVars
  <2>2. QED BY <1>1, <2>1
<1>13. ASSUME NEW c \in Conns, Leave(c) PROVE TraceInv'
  BY <1>1, <1>13 DEF Leave
<1>14. CASE UNCHANGED vars
  BY <1>1, <1>14 DEF vars, handlerVars
<1>15. QED
  BY <1>2, <1>3, <1>4, <1>5, <1>6, <1>7, <1>8, <1>9, <1>10, <1>11, <1>12, <1>13, <1>14
     DEF Next, Request

\* No file under its final name is incomplete (trace.go:89-97).
THEOREM TraceHolds == Spec => []TraceWhole
<1>1. Init => TraceInv
  BY DEF Init, HandlerInit, NoFile, TraceInv, Phases
<1>2. TraceInv => TraceWhole
  BY DEF TraceInv, TraceWhole
<1>3. QED BY <1>1, <1>2, TraceStep, PTL DEF Spec

-----------------------------------------------------------------------------
(* What goes upstream. *)

\* A request that may go upstream as it stands.
Admissible(r) == /\ r.method = "POST" /\ r.path = "chat"
                 /\ r.auth # NoAuth /\ r.body = "object"
                 /\ r.user_id \in ValidIds \cup {Null, Blank} /\ r.user # NotString

\* The checks of the handler let nothing else through.
LEMMA RefusalComplete == ASSUME NEW r, Refusal(r) = 0 PROVE Admissible(r)
<1>1. r.method = "POST"
  BY DEF Refusal
<1>2. /\ r.path = "chat" /\ r.auth # NoAuth /\ r.body = "object"
      /\ NormalizeUpstreamUserID(r) # InvalidUser
  BY <1>1 DEF Refusal
<1>3. r.user_id \in ValidIds \cup {Null, Blank} /\ r.user # NotString
  BY <1>2 DEF NormalizeUpstreamUserID
<1>4. QED BY <1>1, <1>2, <1>3 DEF Admissible

AdmissionInv ==
    /\ phase \in [Conns -> Phases] /\ DOMAIN req = Conns
    /\ mainAt = "load" => \A c \in Conns : phase[c] = "none"
    /\ \A c \in Upstream : /\ Admissible(req[c])
                           /\ cfg.strategy = "reject" => req[c].reasoning # "lost"

\* The configuration does not change once a request is running, and what has
\* been sent was checked.
LEMMA AdmissionStep == ProcessInv /\ AdmissionInv /\ [Next]_vars => AdmissionInv'
<1> SUFFICES ASSUME ProcessInv, AdmissionInv, [Next]_vars PROVE AdmissionInv'
  OBVIOUS
<1> USE DEF AdmissionInv, Phases, Upstream
<1>1. CASE UNCHANGED <<phase, req, cfg>> /\ (mainAt' = "load" => mainAt = "load")
  BY <1>1
<1>2. CASE Load
  <2>1. \A c \in Conns : phase'[c] = "none"
    BY <1>2 DEF Load, handlerVars
  <2>2. QED BY <1>2, <2>1 DEF Load, handlerVars
<1>3. ASSUME NEW c \in Conns, Check(c), mainAt' = mainAt PROVE AdmissionInv'
  <2>1. phase'[c] = "upstream" =>
           Refusal(req[c]) = 0 /\ (cfg.strategy = "reject" => req[c].reasoning # "lost")
    BY <1>3 DEF Check
  <2>2. phase'[c] = "upstream" => Admissible(req[c])
    BY <2>1, RefusalComplete
  <2>3. phase' = [phase EXCEPT ![c] = phase'[c]] /\ phase'[c] \in {"upstream", "reply"}
    BY <1>3 DEF Check
  <2>4. UNCHANGED <<cfg, req, mainAt>> /\ phase[c] = "received"
    BY <1>3 DEF Check
  <2>5. QED BY <2>1, <2>2, <2>3, <2>4
<1>4. ASSUME NEW c \in Conns, Receive(c), mainAt' = mainAt PROVE AdmissionInv'
  BY <1>4 DEF Receive, ProcessInv, Order, Early, Quiescent, Spawned
<1>5. ASSUME NEW c \in Conns, UpstreamAnswers(c), mainAt' = mainAt PROVE AdmissionInv'
  BY <1>5 DEF UpstreamAnswers
<1>6. ASSUME NEW c \in Conns, UpstreamFails(c), mainAt' = mainAt PROVE AdmissionInv'
  BY <1>6 DEF UpstreamFails
<1>7. ASSUME NEW c \in Conns, OpenTrace(c), mainAt' = mainAt PROVE AdmissionInv'
  BY <1>7 DEF OpenTrace
<1>8. ASSUME NEW c \in Conns, WriteTrace(c), mainAt' = mainAt PROVE AdmissionInv'
  BY <1>8 DEF WriteTrace
<1>9. ASSUME NEW c \in Conns, RenameTrace(c), mainAt' = mainAt PROVE AdmissionInv'
  BY <1>9 DEF RenameTrace
<1>10. ASSUME NEW c \in Conns, Relay(c), mainAt' = mainAt PROVE AdmissionInv'
  BY <1>10 DEF Relay
<1>11. ASSUME NEW c \in Conns, Reply(c), mainAt' = mainAt PROVE AdmissionInv'
  BY <1>11 DEF Reply
<1>12. CASE (Main /\ ~Load) \/ Signal \/ GraceEnds
  <2>1. UNCHANGED <<phase, req, cfg>> /\ (mainAt' = "load" => mainAt = "load")
    BY <1>12 DEF Main, Signal, GraceEnds, Quiet, Calm, Goto, handlerVars,
       OpenStore, ClearStore, Listen, TunnelListen, TunnelCheck, TunnelFailed, Spawn,
       SelectDone, SelectResult, CloseListeners, AwaitServe, Poll, GiveUp, CloseEndpoint,
       Collect, CloseStore, Exit
  <2>2. QED BY <1>1, <2>1
<1>13. ASSUME NEW l \in Listeners,
              StartServing(l) \/ StopServing(l) \/ \E c \in Conns : Accept(l, c)
       PROVE  AdmissionInv'
  <2>1. UNCHANGED <<phase, req, cfg, mainAt>>
    BY <1>13 DEF StartServing, StopServing, Accept, Quiet, Calm, handlerVars
  <2>2. QED BY <1>1, <2>1
<1>14. ASSUME NEW c \in Conns, Leave(c), mainAt' = mainAt PROVE AdmissionInv'
  BY <1>1, <1>14 DEF Leave
<1>15. CASE UNCHANGED vars
  BY <1>1, <1>15 DEF vars, handlerVars
<1>16. QED
  BY <1>2, <1>3, <1>4, <1>5, <1>6, <1>7, <1>8, <1>9, <1>10, <1>11, <1>12, <1>13, <1>14, <1>15
     DEF Next, Main, Request

\* What goes upstream has passed every check, for any requests and any
\* configuration (handler.go:106-176).
THEOREM AdmissionHolds == Spec => []OnlyAdmissibleForwarded
<1>1. Init => AdmissionInv
  BY DEF Init, HandlerInit, AdmissionInv, Phases, Upstream
<1>2. AdmissionInv => OnlyAdmissibleForwarded
  BY DEF AdmissionInv, OnlyAdmissibleForwarded, Admissible
<1>3. QED BY <1>1, <1>2, AdmissionStep, Invariance, PTL DEF Spec

-----------------------------------------------------------------------------
(* What is left behind. *)

\* main has passed the select and not yet received every result.
Stopping == {"shutdown", "awaitServe", "drain", "closeEndpoint", "collect"}

Ended == {"closeStore", "return", "exit"}

Running(l) == IF server[l] \in {"spawned", "serving"} THEN 1 ELSE 0

\* Every goroutine that runs owes one result, and main waits for exactly those
\* that have not been received.
Results ==
    /\ errs \in Seq({"failure", "ErrServerClosed"}) /\ left \in Nat
    /\ ~Spawned => errs = <<>>
    /\ \A l \in Listeners : server[l] # "none" => l \in Served
    /\ mainAt \in {"select"} \cup Stopping => \A l \in Served : server[l] # "none"
    /\ mainAt = "select" => Running("local") + Running("ngrok") + Len(errs) = Cardinality(Served)
    /\ mainAt \in Stopping => Running("local") + Running("ngrok") + Len(errs) = left
    /\ mainAt \in Ended => Running("local") + Running("ngrok") + Len(errs) = 0

\* What is open at each point of main.
Opened ==
    /\ listener \in [Listeners -> {"none", "open", "closed"}]
    /\ mainAt \in {"load", "open"} => store = "none"
    /\ mainAt \in {"return", "exit"} => store # "open"
    /\ mainAt \in {"load", "open", "clear", "listen"} \cup Ended =>
          \A l \in Listeners : listener[l] # "open"
    /\ mainAt \in {"tunnel", "tunnelFailed"} => listener["ngrok"] # "open"
    /\ mainAt \in {"load", "open", "clear", "listen", "tunnel", "tunnelFailed", "collect"} \cup Ended =>
          agent # "connected"
    /\ mainAt \in {"tunnel", "tunnelUp"} => cfg.ngrok
    /\ mainAt \notin {"load"} \cup Ended /\ ~cfg.ngrok =>
          listener["ngrok"] # "open" /\ agent # "connected"
    /\ \A l \in Listeners : server[l] = "done" => listener[l] # "open"
    /\ listener["ngrok"] = "open" <=> agent = "connected"

\* What main has made of the failures so far.
Reported ==
    /\ mainAt \in Early \cup {"select"} \cup Stopping \cup Ended
    /\ accepting => \A i \in DOMAIN errs : errs[i] = "failure"
    /\ errs # <<>> /\ accepting => "serve" \in failed
    /\ mainAt \in Early \cup {"select"} => accepting
    /\ mainAt \in Early \cup {"select"} => code = 0
    /\ mainAt \in Early \ {"tunnelFailed"} => failed = {}
    /\ mainAt = "tunnelFailed" => failed = {"tunnel"} \/ (failed = {} /\ cancelled)
    /\ mainAt = "clear" => cfg.clear
    /\ mainAt = "select" => failed \subseteq {"serve"}
    /\ mainAt \in Stopping => /\ code \in {0, 1} /\ failed \subseteq {"serve"}
                             /\ (code = 0 => cancelled)
                             /\ (code = 1 => failed # {})
    /\ mainAt \in Ended =>
          /\ code \in 0..2
          /\ (code = 2 <=> failed \cap {"config", "store"} # {})
          /\ (code = 1 => failed \cap {"local", "tunnel", "serve"} # {})
          /\ (code = 0 => cancelled \/ (cfg.clear /\ failed = {}))

\* There are two listeners ...
LEMMA TwoListeners == Cardinality({"local"}) = 1 /\ Cardinality(Listeners) = 2
<1>1. {"local", "ngrok"} = {"local"} \cup {"ngrok"} /\ "ngrok" \notin {"local"}
  OBVIOUS
<1>2. IsFiniteSet({"local"}) /\ Cardinality({"local"}) = 1
  BY FS_Singleton
<1>3. QED BY <1>1, <1>2, FS_AddElement DEF Listeners

\* ... and main serves one or both.
LEMMA ServedCount == Cardinality(Served) = IF cfg.ngrok THEN 2 ELSE 1
BY TwoListeners DEF Served

\* A goroutine that ends and sends its result leaves the account as it was.
LEMMA ResultSent ==
    ASSUME server \in [Listeners -> {"none", "spawned", "serving", "done"}], Results,
           UNCHANGED <<mainAt, cfg, left>>,
           NEW l \in Listeners, server[l] \in {"spawned", "serving"},
           server' = [server EXCEPT ![l] = "done"],
           NEW e \in {"failure", "ErrServerClosed"}, errs' = Append(errs, e)
    PROVE  Results'
<1> USE DEF Results, Listeners
<1>1. errs' \in Seq({"failure", "ErrServerClosed"}) /\ Len(errs') = Len(errs) + 1
  OBVIOUS
<1>2. Running("local")' + Running("ngrok")' = Running("local") + Running("ngrok") - 1
  BY DEF Running
<1>3. Running("local") \in Nat /\ Running("ngrok") \in Nat /\ Len(errs) \in Nat
  BY DEF Running
<1>4. Running("local")' + Running("ngrok")' + Len(errs')
         = Running("local") + Running("ngrok") + Len(errs)
  <2>1. Running("local")' \in Nat /\ Running("ngrok")' \in Nat
    BY DEF Running
  <2>2. QED BY <1>1, <1>2, <1>3, <2>1
<1>5. Spawned' /\ Served' = Served
  BY DEF Spawned, Served
<1>6. (\A k \in Listeners : server[k] # "none" => k \in Served)'
  BY <1>5
<1>7. (\A k \in Served : server[k] # "none") => (\A k \in Served : server[k] # "none")'
  BY <1>5
<1>8. QED BY <1>1, <1>4, <1>5, <1>6, <1>7

\* Every step keeps the account of the results.
LEMMA ResultsStep == ProcessInv /\ Results /\ [Next]_vars => Results'
<1> SUFFICES ASSUME ProcessInv, Results, [Next]_vars PROVE Results'
  OBVIOUS
<1> USE DEF Results, Stopping, Ended, Early, Spawned, Listeners, Served, Running
<1>a. /\ server \in [Listeners -> {"none", "spawned", "serving", "done"}]
      /\ mainAt \in Early => ~Spawned
  BY DEF ProcessInv, Shape, Order
<1>1. CASE UNCHANGED <<mainAt, cfg, server, errs, left>>
  BY <1>1
<1>2. CASE Load
  BY <1>2, <1>a DEF Load, Goto
<1>3. CASE OpenStore \/ ClearStore \/ Listen \/ TunnelListen \/ TunnelCheck \/ TunnelFailed
  <2>1. /\ UNCHANGED <<cfg, server, errs, left>>
        /\ mainAt \in Early /\ mainAt' \in Early \cup {"closeStore", "exit"}
    BY <1>3 DEF OpenStore, ClearStore, Listen, TunnelListen, TunnelCheck, TunnelFailed, Goto, Quiet, Calm
  <2>2. QED BY <1>a, <2>1
<1>4. CASE Spawn
  BY <1>4, <1>a, ServedCount DEF Spawn, Goto, Quiet, Calm
<1>5. CASE SelectDone
  BY <1>5, <1>a, ServedCount DEF SelectDone, Goto, Quiet, Calm
<1>6. CASE SelectResult
  BY <1>6, <1>a, ServedCount DEF SelectResult, Goto, Quiet, Calm
<1>7. CASE CloseListeners \/ AwaitServe \/ Poll \/ GiveUp \/ CloseEndpoint
  <2>1. /\ UNCHANGED <<cfg, server, errs, left>>
        /\ mainAt \in Stopping /\ mainAt' \in Stopping
    BY <1>7 DEF CloseListeners, AwaitServe, Poll, GiveUp, CloseEndpoint, Goto, Quiet, Calm, mainVars
  <2>2. QED BY <1>a, <2>1
<1>8. CASE Collect
  <2>1. UNCHANGED <<cfg, server>> /\ mainAt \in Stopping
    BY <1>8 DEF Collect, Goto, Quiet, Calm
  <2>2. CASE left = 0 /\ mainAt' = "closeStore" /\ UNCHANGED <<errs, left>>
    BY <1>a, <2>1, <2>2
  <2>3. CASE left > 0 /\ errs # <<>> /\ errs' = Tail(errs) /\ left' = left - 1 /\ UNCHANGED mainAt
    <3>1. Len(errs') = Len(errs) - 1 /\ errs' \in Seq({"failure", "ErrServerClosed"})
      BY <2>3
    <3>2. QED BY <1>a, <2>1, <2>3, <3>1
  <2>4. QED BY <1>8, <2>2, <2>3 DEF Collect, Goto
<1>9. CASE CloseStore \/ Exit
  <2>1. UNCHANGED <<cfg, server, errs, left>> /\ mainAt \in Ended /\ mainAt' \in Ended
    BY <1>9 DEF CloseStore, Exit, Goto, Quiet, Calm, mainVars
  <2>2. QED BY <1>a, <2>1
<1>10. ASSUME NEW l \in Listeners, StartServing(l) PROVE Results'
  <2>1. UNCHANGED <<mainAt, cfg, left>> /\ server[l] = "spawned"
    BY <1>10 DEF StartServing, Quiet, Calm
  <2>2. CASE server' = [server EXCEPT ![l] = "serving"] /\ UNCHANGED errs
    BY <1>a, <2>1, <2>2
  <2>3. CASE server' = [server EXCEPT ![l] = "done"] /\ errs' = Append(errs, "ErrServerClosed")
    BY <1>a, <2>1, <2>3, ResultSent
  <2>4. QED BY <1>10, <2>2, <2>3 DEF StartServing
<1>11. ASSUME NEW l \in Listeners, StopServing(l) PROVE Results'
  <2>1. UNCHANGED <<mainAt, cfg, left>> /\ server[l] = "serving"
    BY <1>11 DEF StopServing, Quiet, Calm
  <2>2. PICK e \in {"failure", "ErrServerClosed"} :
           server' = [server EXCEPT ![l] = "done"] /\ errs' = Append(errs, e)
    BY <1>11 DEF StopServing
  <2>3. QED BY <1>a, <2>1, <2>2, ResultSent
<1>12. CASE Signal \/ GraceEnds \/ UNCHANGED vars
  BY <1>1, <1>12 DEF Signal, GraceEnds, vars, mainVars
<1>13. ASSUME NEW l \in Listeners, NEW c \in Conns, Accept(l, c) PROVE Results'
  BY <1>1, <1>13 DEF Accept, mainVars
<1>14. ASSUME NEW c \in Conns, Request(c) PROVE Results'
  BY <1>1, <1>14, RequestFrame DEF mainVars
<1>15. QED
  BY <1>2, <1>3, <1>4, <1>5, <1>6, <1>7, <1>8, <1>9, <1>10, <1>11, <1>12, <1>13, <1>14
     DEF Next, Main

\* Every step keeps track of what is open.
LEMMA OpenedStep == ProcessInv /\ Results /\ Opened /\ [Next]_vars => Opened'
<1> SUFFICES ASSUME ProcessInv, Results, Opened, [Next]_vars PROVE Opened'
  OBVIOUS
<1> USE DEF Opened, Ended, Listeners
<1>a. /\ server \in [Listeners -> {"none", "spawned", "serving", "done"}]
      /\ mainAt \in Early => ~Spawned
  BY DEF ProcessInv, Shape, Order
<1>1. CASE UNCHANGED <<mainAt, cfg, store, server, listener, agent>>
  BY <1>1
<1>2. CASE Load
  BY <1>2, <1>a DEF Load, Goto
<1>3. CASE OpenStore
  BY <1>3 DEF OpenStore, Goto, Quiet, Calm
<1>4. CASE ClearStore
  BY <1>4 DEF ClearStore, Goto, Quiet, Calm
<1>5. CASE Listen
  BY <1>5, <1>a DEF Listen, Goto, Quiet, Calm, Early, Spawned
<1>6. CASE TunnelListen
  BY <1>6, <1>a DEF TunnelListen, Goto, Quiet, Calm, Early, Spawned
<1>7. CASE TunnelCheck
  BY <1>7, <1>a DEF TunnelCheck, Goto, Quiet, Calm, Early, Spawned
<1>8. CASE TunnelFailed
  BY <1>8, <1>a DEF TunnelFailed, Goto, Quiet, Calm, Early, Spawned
<1>9. CASE Spawn
  BY <1>9, <1>a DEF Spawn, Goto, Quiet, Calm
<1>10. CASE SelectDone \/ SelectResult \/ AwaitServe \/ Poll \/ GiveUp
  BY <1>10 DEF SelectDone, SelectResult, AwaitServe, Poll, GiveUp, Goto, Quiet, Calm, mainVars
<1>11. CASE CloseListeners
  BY <1>11, <1>a DEF CloseListeners, Close, Goto, Calm
<1>12. CASE CloseEndpoint
  BY <1>12 DEF CloseEndpoint, Close, Served, Goto, Calm
<1>13. CASE Collect
  <2>1. CASE left = 0 /\ mainAt = "collect"
    <3>1. \A l \in Served : server[l] = "done"
      <4>1. \A l \in Served : server[l] # "none" /\ Running(l) = 0
        BY <1>a, <2>1 DEF Results, Stopping, Running, Served
      <4>2. QED BY <1>a, <4>1 DEF Running, Served
    <3>2. \A l \in Listeners : listener[l] # "open"
      BY <2>1, <3>1 DEF Served
    <3>3. QED BY <1>13, <2>1, <3>2 DEF Collect, Goto, Quiet, Calm
  <2>2. CASE UNCHANGED mainAt
    BY <1>1, <1>13, <2>2 DEF Collect, Quiet, Calm
  <2>3. QED BY <1>13, <2>1, <2>2 DEF Collect
<1>14. CASE CloseStore
  BY <1>14 DEF CloseStore, Goto, Quiet, Calm
<1>15. CASE Exit
  BY <1>15 DEF Exit, Goto, mainVars
<1>16. ASSUME NEW l \in Listeners, StartServing(l) \/ StopServing(l) PROVE Opened'
  BY <1>16, <1>a DEF StartServing, StopServing, Close, Calm
<1>17. CASE Signal \/ GraceEnds \/ UNCHANGED vars
  BY <1>1, <1>17 DEF Signal, GraceEnds, vars, mainVars
<1>18. ASSUME NEW l \in Listeners, NEW c \in Conns, Accept(l, c) PROVE Opened'
  BY <1>1, <1>18 DEF Accept, mainVars
<1>19. ASSUME NEW c \in Conns, Request(c) PROVE Opened'
  BY <1>1, <1>19, RequestFrame DEF mainVars
<1>20. QED
  BY <1>2, <1>3, <1>4, <1>5, <1>6, <1>7, <1>8, <1>9, <1>10, <1>11, <1>12, <1>13, <1>14,
     <1>15, <1>16, <1>17, <1>18, <1>19
     DEF Next, Main

\* Every step keeps the failures and the exit code together.
LEMMA ReportedStep == ProcessInv /\ Results /\ Reported /\ [Next]_vars => Reported'
<1> SUFFICES ASSUME ProcessInv, Results, Reported, [Next]_vars PROVE Reported'
  OBVIOUS
<1> USE DEF Reported, Early, Stopping, Ended
<1>a. /\ errs \in Seq({"failure", "ErrServerClosed"})
      /\ mainAt \in Early => errs = <<>>
      /\ mainAt \in {"closeStore", "return", "exit"} => \A l \in Listeners : server[l] # "serving"
      /\ mainAt \in Early => \A l \in Listeners : server[l] = "none"
  BY DEF ProcessInv, Order, Late, Spawned, Results
<1>1. CASE UNCHANGED <<mainAt, cfg, code, cancelled, errs, failed, accepting>>
  BY <1>1
<1>2. CASE Load
  BY <1>2, <1>a DEF Load, Goto
<1>3. CASE OpenStore
  BY <1>3, <1>a DEF OpenStore, Goto, Quiet, Calm
<1>4. CASE ClearStore
  BY <1>4, <1>a DEF ClearStore, Goto, Quiet, Calm
<1>5. CASE Listen
  BY <1>5, <1>a DEF Listen, Goto, Quiet, Calm
<1>6. CASE TunnelListen
  BY <1>6, <1>a DEF TunnelListen, Goto, Quiet, Calm
<1>7. CASE TunnelCheck
  BY <1>7, <1>a DEF TunnelCheck, Goto, Quiet, Calm
<1>8. CASE TunnelFailed
  BY <1>8, <1>a DEF TunnelFailed, Goto, Quiet, Calm
<1>9. CASE Spawn
  BY <1>9, <1>a DEF Spawn, Goto, Quiet, Calm
<1>10. CASE SelectDone
  BY <1>10, <1>a DEF SelectDone, Goto, Quiet, Calm
<1>11. CASE SelectResult
  <2>1. Head(errs) = "failure" /\ failed # {}
    BY <1>11, <1>a DEF SelectResult
  <2>2. accepting' => \A i \in DOMAIN errs' : errs'[i] = "failure"
    BY <1>11, <1>a DEF SelectResult
  <2>3. errs' # <<>> => errs # <<>>
    BY <1>11 DEF SelectResult
  <2>4. QED BY <1>11, <2>1, <2>2, <2>3 DEF SelectResult, Goto, Quiet, Calm
<1>12. CASE CloseListeners \/ AwaitServe \/ Poll \/ GiveUp \/ CloseEndpoint
  BY <1>12 DEF CloseListeners, AwaitServe, Poll, GiveUp, CloseEndpoint, Goto, Quiet, Calm, mainVars
<1>13. CASE Collect
  <2>1. accepting' => \A i \in DOMAIN errs' : errs'[i] = "failure"
    BY <1>13, <1>a DEF Collect
  <2>2. errs' # <<>> => errs # <<>>
    BY <1>13 DEF Collect
  <2>3. QED BY <1>13, <2>1, <2>2 DEF Collect, Goto, Quiet, Calm
<1>14. CASE CloseStore \/ Exit
  BY <1>14 DEF CloseStore, Exit, Goto, Quiet, Calm, mainVars
<1>15. ASSUME NEW l \in Listeners, StartServing(l) PROVE Reported'
  BY <1>15, <1>a DEF StartServing, Quiet, Calm
<1>16. ASSUME NEW l \in Listeners, StopServing(l) PROVE Reported'
  <2>1. mainAt \notin Early \cup Ended
    BY <1>16, <1>a DEF StopServing
  <2>2. accepting => \A i \in DOMAIN errs' : errs'[i] = "failure"
    BY <1>16, <1>a DEF StopServing
  <2>3. failed' = IF accepting THEN failed \cup {"serve"} ELSE failed
    BY <1>16 DEF StopServing
  <2>4. UNCHANGED <<mainAt, cfg, code, cancelled, accepting>>
    BY <1>16 DEF StopServing, Quiet, Calm
  <2>5. QED BY <2>1, <2>2, <2>3, <2>4
<1>17. CASE Signal \/ GraceEnds \/ UNCHANGED vars
  BY <1>17 DEF Signal, GraceEnds, vars, mainVars
<1>18. ASSUME NEW l \in Listeners, NEW c \in Conns, Accept(l, c) PROVE Reported'
  BY <1>1, <1>18 DEF Accept, mainVars
<1>19. ASSUME NEW c \in Conns, Request(c) PROVE Reported'
  BY <1>1, <1>19, RequestFrame DEF mainVars
<1>20. QED
  BY <1>2, <1>3, <1>4, <1>5, <1>6, <1>7, <1>8, <1>9, <1>10, <1>11, <1>12, <1>13, <1>14,
     <1>15, <1>16, <1>17, <1>18, <1>19
     DEF Next, Main

\* Results and what is open are right in every reachable state.
LEMMA Accounts == Spec => [](Results /\ Opened)
<1>1. Init => Results /\ Opened
  BY DEF Init, Results, Opened, Spawned, Listeners, Stopping, Ended, Running
<1>2. ProcessInv /\ (Results /\ Opened) /\ [Next]_vars => (Results /\ Opened)'
  BY ResultsStep, OpenedStep
<1>3. QED BY <1>1, <1>2, Invariance, PTL DEF Spec

\* Whatever fails and whenever the signal comes, the process leaves no
\* listener, agent, store, goroutine or result behind (main.go:91-122,
\* ngrok.go:55-64).
THEOREM NothingLeftHolds == Spec => []NothingLeft
<1>1. ProcessInv /\ Results /\ Opened => NothingLeft
  <2> SUFFICES ASSUME ProcessInv, Results, Opened, mainAt = "exit" PROVE NothingLeft
    BY DEF NothingLeft
  <2>1. /\ \A l \in Listeners : listener[l] # "open"
        /\ agent # "connected" /\ store # "open"
    BY DEF Opened, Ended
  <2>2. Running("local") \in Nat /\ Running("ngrok") \in Nat /\ Len(errs) \in Nat
    BY DEF Running, Results
  <2>3. Running("local") = 0 /\ Running("ngrok") = 0 /\ Len(errs) = 0
    BY <2>2 DEF Results, Ended
  <2>4. errs = <<>>
    BY <2>3 DEF Results
  <2>5. \A l \in Listeners : server[l] \in {"none", "done"}
    BY <2>3 DEF Running, ProcessInv, Shape, Listeners
  <2>6. QED BY <2>1, <2>4, <2>5 DEF NothingLeft
<1>2. QED BY <1>1, Accounts, Invariance, PTL

\* The exit code says what happened (main.go:50-135).
THEOREM ExitCodeHolds == Spec => []ExitCode
<1>1. Init => Reported
  BY DEF Init, Reported, Early, Stopping, Ended
<1>2. Reported => ExitCode
  BY DEF Reported, ExitCode, Ended
<1>3. QED BY <1>1, <1>2, ReportedStep, Accounts, Invariance, PTL DEF Spec

-----------------------------------------------------------------------------
(* The promise of Service. *)

\* Only a server that accepts has an open listener to serve, and a connection
\* whose handler runs is in use or cut off.
Meeting ==
    /\ \A l \in Listeners : server[l] = "serving" /\ listener[l] = "open" => accepting
    /\ \A c \in Conns : phase[c] # "none" => conn[c].state \in {"in", "out", "cut"}

\* Every step keeps it.
LEMMA MeetingStep == ProcessInv /\ Opened /\ Meeting /\ [Next]_vars => Meeting'
<1> SUFFICES ASSUME ProcessInv, Opened, Meeting, [Next]_vars PROVE Meeting'
  OBVIOUS
<1> USE DEF Meeting, ProcessInv, Shape, Listeners
<1>a. listener \in [Listeners -> {"none", "open", "closed"}]
  BY DEF Opened
<1>1. CASE UNCHANGED <<server, listener, accepting, phase, conn>>
  BY <1>1
<1>2. CASE Load \/ OpenStore \/ ClearStore \/ Spawn \/ SelectDone \/ SelectResult \/ AwaitServe
           \/ GiveUp \/ Collect \/ CloseStore
  BY <1>1, <1>2 DEF Load, OpenStore, ClearStore, Spawn, SelectDone, SelectResult, AwaitServe,
     GiveUp, Collect, CloseStore, Quiet, Calm, handlerVars
<1>3. CASE Listen \/ TunnelListen \/ TunnelCheck \/ TunnelFailed
  BY <1>a, <1>3 DEF Listen, TunnelListen, TunnelCheck, TunnelFailed, Quiet, Calm, handlerVars, Order,
       Early,
     Spawned
<1>4. CASE CloseListeners
  BY <1>a, <1>4, Closing DEF CloseListeners, Close, Calm
<1>5. CASE Poll
  BY <1>5 DEF Poll, NotConnected, mainVars
<1>6. CASE CloseEndpoint
  BY <1>a, <1>6, Closing DEF CloseEndpoint, Close, Calm
<1>7. CASE Exit
  BY <1>7 DEF Exit, NotConnected, mainVars
<1>8. CASE Signal \/ GraceEnds \/ UNCHANGED vars
  BY <1>1, <1>8 DEF Signal, GraceEnds, vars, handlerVars, mainVars
<1>9. ASSUME NEW l \in Listeners, StartServing(l) \/ StopServing(l) PROVE Meeting'
  <2>1. PICK L \in SUBSET Listeners : Close(L)
    BY <1>9 DEF StartServing, StopServing
  <2>2. UNCHANGED <<phase, accepting>>
    BY <1>9 DEF StartServing, StopServing, Calm
  <2>3. \A c \in Conns : phase'[c] # "none" => conn'[c].state \in {"in", "out", "cut"}
    BY <2>1, <2>2, Closing
  <2>4. \A k \in Listeners : server'[k] = "serving" /\ listener'[k] = "open" => accepting'
    BY <1>a, <1>9, <2>2 DEF StartServing, StopServing, Close
  <2>5. QED BY <2>3, <2>4
<1>10. ASSUME NEW l \in Listeners, NEW c \in Conns, Accept(l, c) PROVE Meeting'
  BY <1>10 DEF Accept, mainVars
<1>11. ASSUME NEW c \in Conns, Request(c) PROVE Meeting'
  <2>1. UNCHANGED <<server, listener, accepting>>
    BY <1>11, RequestFrame DEF mainVars
  <2>2. ASSUME NEW d \in Conns, phase'[d] # "none" PROVE conn'[d].state \in {"in", "out", "cut"}
    BY <1>11, <2>2 DEF Request, Receive, Leave, Check, UpstreamAnswers, UpstreamFails, OpenTrace,
       WriteTrace, RenameTrace, Relay, Reply, NotConnected, Links
  <2>3. QED BY <2>1, <2>2
<1>12. QED
  BY <1>2, <1>3, <1>4, <1>5, <1>6, <1>7, <1>8, <1>9, <1>10, <1>11 DEF Next, Main

ServiceInv == ProcessInv /\ Results /\ Opened /\ Reported /\ Meeting

\* Everything the mapping needs holds in every reachable state.
LEMMA ServiceInvariance == Spec => []ServiceInv
<1>1. Init => Meeting /\ Reported
  BY DEF Init, HandlerInit, Meeting, Reported, Early, Stopping, Ended, Listeners
<1>2. QED
  BY <1>1, MeetingStep, ReportedStep, Accounts, Invariance, PTL DEF Spec, ServiceInv

\* What Service sees of the connections.
Seen == [c \in Conns |-> Client(conn[c])]

\* A connection as Service sees it, field by field.
LEMMA Views ==
    ASSUME NEW k \in Links
    PROVE  /\ k.state \in {"out", "cut"} => Client(k) = Promise!Out
           /\ k.state = "in" => Client(k) = [state |-> "busy", via |-> k.via]
           /\ k.state \in {"new", "idle"} => Client(k) = [state |-> "in", via |-> k.via]
<1>1. k.state \in {"out", "new", "in", "idle", "cut"}
  BY DEF Links
<1>2. \A x : [k EXCEPT !.state = x] = [state |-> x, via |-> k.via]
  BY DEF Links
<1>3. CASE k.state \in {"out", "cut"}
  BY <1>3 DEF Client, NotConnected, Promise!Out
<1>4. CASE k.state = "in"
  BY <1>2, <1>4 DEF Client
<1>5. CASE k.state \in {"new", "idle"}
  BY <1>2, <1>5 DEF Client
<1>6. QED BY <1>1, <1>3, <1>4, <1>5

\* A step of a request, or of the client of one, is a step of Service.
LEMMA RequestSeen ==
    ASSUME ServiceInv, NEW c \in Conns, Request(c)
    PROVE  [Promise!Next]_Promise!svars
<1> USE DEF ServiceInv, Promise!Next, Promise!svars, Seen
<1>1. UNCHANGED <<mainAt, accepting, agent, grace>> /\ mainAt # "exit"
  BY RequestFrame DEF mainVars, Request
<1>2. UNCHANGED <<Mode, agent = "connected", grace # "over">>
  BY <1>1 DEF Mode
<1>3. CASE Receive(c)
  <2>1. Spawned
    BY <1>3 DEF Receive, ProcessInv, Order, Quiescent
  <2>2. Mode \in {"serving", "draining"}
    BY <1>1, <2>1 DEF Mode, ProcessInv, Order
  <2>3. conn' = [conn EXCEPT ![c].state = "in"] /\ conn[c].state \in {"new", "idle"}
    BY <1>3 DEF Receive
  <2>4. conn[c] \in Links /\ conn'[c] = [conn[c] EXCEPT !.state = "in"]
    BY <2>3 DEF ProcessInv, Shape
  <2>5. conn'[c] \in Links /\ conn'[c].state = "in" /\ conn'[c].via = conn[c].via
    BY <2>4 DEF Links
  <2>6. /\ Client(conn[c]) = [state |-> "in", via |-> conn[c].via]
        /\ Client(conn'[c]) = [state |-> "busy", via |-> conn[c].via]
    BY <2>3, <2>4, <2>5, Views
  <2>7. \A d \in Conns : d # c => conn'[d] = conn[d]
    BY <2>3
  <2>8. Seen' = [Seen EXCEPT ![c].state = "busy"] /\ Seen[c].state = "in"
    <3>1. Seen[c].state = "in" /\ [Seen[c] EXCEPT !.state = "busy"] = Client(conn'[c])
      BY <2>6
    <3>2. \A d \in Conns : d # c => Client(conn'[d]) = Client(conn[d])
      BY <2>7
    <3>3. Seen' = [Seen EXCEPT ![c] = Client(conn'[c])]
      BY <3>2
    <3>4. QED BY <3>1, <3>3
  <2>9. Promise!Ask(c)
    BY <1>2, <2>2, <2>8 DEF Promise!Ask
  <2>10. QED BY <2>9
<1>4. CASE Leave(c)
  <2>1. Seen[c].state = "in"
    BY <1>4, Views DEF Leave, ProcessInv, Shape
  <2>2. Seen' = [d \in Conns |-> IF d \in {c} THEN Promise!Out ELSE Seen[d]]
    <3>1. conn' = [conn EXCEPT ![c] = NotConnected]
      BY <1>4 DEF Leave
    <3>2. Client(NotConnected) = Promise!Out
      BY DEF Client, NotConnected, Promise!Out
    <3>3. QED BY <3>1, <3>2 DEF ProcessInv, Shape
  <2>3. Promise!Hangup({c})
    BY <1>2, <2>1, <2>2 DEF Promise!Hangup
  <2>4. QED BY <2>3
<1>5. CASE Reply(c)
  <2>1. conn[c].state \in {"in", "out", "cut"}
    BY <1>5 DEF Reply, Meeting
  <2>2. /\ \/ conn'[c] = NotConnected
           \/ conn[c].state = "in" /\ conn'[c] = [conn[c] EXCEPT !.state = "idle"]
        /\ \A d \in Conns : d # c => conn'[d] = conn[d]
    BY <1>5 DEF Reply, ProcessInv, Shape
  <2>3. \A d \in Conns : d # c => Client(conn'[d]) = Client(conn[d])
    BY <2>2 DEF Client
  <2>4. CASE conn[c].state = "in"
    <3>1. conn[c] \in Links
      BY DEF ProcessInv, Shape
    <3>4. Seen[c] = [state |-> "busy", via |-> conn[c].via] /\ Seen[c].state = "busy"
      BY <2>4, <3>1, Views
    <3>2. Client(conn'[c]) \in {Promise!Out, [Seen[c] EXCEPT !.state = "in"]}
      <4>1. CASE conn'[c] = NotConnected
        BY <4>1 DEF Client, NotConnected, Promise!Out
      <4>2. CASE conn'[c] = [conn[c] EXCEPT !.state = "idle"]
        <5>1. conn'[c] \in Links /\ conn'[c].state = "idle" /\ conn'[c].via = conn[c].via
          BY <3>1, <4>2 DEF Links
        <5>2. Client(conn'[c]) = [state |-> "in", via |-> conn[c].via]
          BY <5>1, Views
        <5>3. QED BY <3>4, <5>2
      <4>3. QED BY <2>2, <4>1, <4>2
    <3>3. Seen' = [Seen EXCEPT ![c] = Client(conn'[c])]
      BY <2>3
    <3>5. Promise!Answer(c)
      BY <1>2, <3>2, <3>3, <3>4 DEF Promise!Answer
    <3>6. QED BY <3>5
  <2>5. CASE conn[c].state \in {"out", "cut"}
    <3>1. Client(conn'[c]) = Client(conn[c])
      BY <2>2, <2>5 DEF Client, NotConnected
    <3>2. UNCHANGED Seen
      BY <2>3, <3>1
    <3>3. QED BY <1>2, <3>2
  <2>6. QED BY <2>1, <2>4, <2>5
<1>6. CASE Check(c) \/ UpstreamAnswers(c) \/ UpstreamFails(c) \/ OpenTrace(c) \/ WriteTrace(c)
           \/ RenameTrace(c) \/ Relay(c)
  <2>1. UNCHANGED conn
    BY <1>6 DEF Check, UpstreamAnswers, UpstreamFails, OpenTrace, WriteTrace, RenameTrace, Relay
  <2>2. UNCHANGED Seen
    BY <2>1 DEF Client
  <2>3. QED BY <1>2, <2>2
<1>7. QED BY <1>3, <1>4, <1>5, <1>6 DEF Request

\* Closing listeners is the end of the tunnel or not seen.
LEMMA CloseSeen ==
    ASSUME Shape, NEW L, Close(L)
    PROVE  Promise!CloseTunnel \/ UNCHANGED <<agent, Seen>>
<1>1. CASE "ngrok" \in L
  <2>1. agent' = "gone" /\ \A c \in Conns : conn'[c] = Lost(conn[c])
    BY <1>1 DEF Close
  <2>2. ASSUME NEW c \in Conns
        PROVE  Client(conn'[c]) = IF Client(conn[c]).via = "ngrok" THEN Promise!Out ELSE Client(conn[c])
    <3>1. conn[c] \in Links /\ conn'[c] \in Links
      BY Closing DEF Shape
    <3>2. CASE conn[c].via # "ngrok"
      <4>1. Client(conn[c]).via # "ngrok"
        BY <3>1, <3>2, Views DEF Links, Promise!Out
      <4>2. QED BY <2>1, <3>2, <4>1 DEF Lost
    <3>3. CASE conn[c].via = "ngrok"
      <4>1. conn'[c].state \in {"out", "cut"}
        <5>1. CASE conn[c].state \in {"in", "cut"}
          <6>1. conn'[c] = [conn[c] EXCEPT !.state = "cut"]
            BY <2>1, <3>3, <5>1 DEF Lost
          <6>2. QED BY <3>1, <6>1 DEF Links
        <5>2. CASE conn[c].state \notin {"in", "cut"}
          <6>1. conn'[c] = NotConnected
            BY <2>1, <3>3, <5>2 DEF Lost
          <6>2. QED BY <6>1 DEF NotConnected
        <5>3. QED BY <5>1, <5>2
      <4>2. Client(conn'[c]) = Promise!Out
        BY <3>1, <4>1, Views
      <4>3. Client(conn[c]) = Promise!Out \/ Client(conn[c]).via = "ngrok"
        BY <3>1, <3>3, Views DEF Links
      <4>4. QED BY <4>2, <4>3
    <3>4. QED BY <3>2, <3>3
  <2>3. QED BY <2>1, <2>2 DEF Promise!CloseTunnel, Seen
<1>2. CASE "ngrok" \notin L
  <2>1. UNCHANGED <<conn, agent>>
    BY <1>2, Closing
  <2>2. QED BY <2>1 DEF Seen, Client
<1>3. QED BY <1>1, <1>2

\* Every step is a step of Service or not seen by it.
LEMMA StepSeen == ServiceInv /\ [Next]_vars => [Promise!Next]_Promise!svars
<1> SUFFICES ASSUME ServiceInv, [Next]_vars PROVE [Promise!Next]_Promise!svars
  OBVIOUS
<1> USE DEF ServiceInv, Promise!Next, Promise!svars
<1>a. UNCHANGED conn => UNCHANGED Seen
  BY DEF Client, Seen
<1>b. Seen = [c \in Conns |-> Client(conn[c])]
  BY DEF Seen
<1>c. Shape
  BY DEF ProcessInv
<1>1. CASE UNCHANGED <<mainAt, accepting, conn, agent, grace>>
  BY <1>1, <1>a DEF Mode, Seen
<1>2. CASE Load \/ OpenStore
  <2>1. UNCHANGED <<conn, accepting, agent, grace>> /\ accepting
    BY <1>2 DEF Load, OpenStore, Quiet, Calm, handlerVars, Reported, Early
  <2>2. CASE mainAt' = "exit"
    <3>1. Mode = "starting" /\ Mode' = "stopped" /\ agent # "connected"
      BY <1>2, <2>1, <2>2 DEF Load, OpenStore, Mode, Opened
    <3>2. \A c \in Conns : Client(conn[c]) = Promise!Out
      BY <1>2 DEF Load, OpenStore, ProcessInv, Order, Early, Quiescent, Client, NotConnected,
         Promise!Out
    <3>3. Seen' = [c \in Conns |-> Promise!Out] /\ \A c \in Conns : Seen[c].state # "busy"
      BY <1>a, <1>b, <2>1, <3>2 DEF Promise!Out
    <3>4. Promise!Stop
      BY <1>b, <2>1, <3>1, <3>3 DEF Promise!Stop, Seen
    <3>5. QED BY <3>4
  <2>3. CASE mainAt' # "exit"
    <3>1. UNCHANGED Mode
      BY <1>2, <2>1, <2>3 DEF Load, OpenStore, Goto, Mode
    <3>2. QED BY <1>a, <2>1, <3>1 DEF Seen
  <2>4. QED BY <2>2, <2>3
<1>3. CASE ClearStore \/ Listen \/ TunnelFailed
  <2>1. UNCHANGED <<Mode, conn, agent, grace>>
    BY <1>3 DEF ClearStore, Listen, TunnelFailed, Goto, Quiet, Calm, Mode
  <2>2. QED BY <1>a, <2>1 DEF Seen
<1>4. CASE TunnelListen
  <2>1. Mode = "starting" /\ UNCHANGED <<Mode, conn, grace>>
    BY <1>4 DEF TunnelListen, Goto, Quiet, Calm, Mode, Reported, Early
  <2>2. agent # "connected"
    BY <1>4 DEF TunnelListen, Opened
  <2>3. CASE agent' = "connected"
    BY <1>a, <2>1, <2>3 DEF Promise!OpenTunnel, Seen
  <2>4. CASE agent' # "connected"
    BY <1>a, <2>1, <2>2, <2>4 DEF Seen
  <2>5. QED BY <2>3, <2>4
<1>5. CASE TunnelCheck
  <2>1. UNCHANGED <<Mode, conn, grace>>
    BY <1>5 DEF TunnelCheck, Goto, Quiet, Calm, Mode
  <2>2. CASE UNCHANGED agent
    BY <1>a, <2>1, <2>2 DEF Seen
  <2>3. CASE agent' = "gone"
    <3>1. \A c \in Conns : Client(conn[c]) = Promise!Out
      BY <1>5 DEF TunnelCheck, ProcessInv, Order, Early, Quiescent, Client, NotConnected, Promise!Out
    <3>2. Seen' = [c \in Conns |-> IF Seen[c].via = "ngrok" THEN Promise!Out ELSE Seen[c]]
      BY <1>a, <1>b, <2>1, <3>1 DEF Seen
    <3>3. Promise!TunnelEnds
      BY <1>b, <2>1, <2>3, <3>2 DEF Promise!TunnelEnds, Promise!CloseTunnel, Seen
    <3>4. QED BY <3>3
  <2>4. QED BY <1>5, <2>2, <2>3 DEF TunnelCheck
<1>6. CASE Spawn
  <2>1. Mode = "starting" /\ Mode' = "serving" /\ UNCHANGED <<conn, agent, grace>>
    BY <1>6 DEF Spawn, Goto, Quiet, Calm, Mode, Reported, Early
  <2>2. QED BY <1>a, <2>1 DEF Promise!Serve, Seen
<1>7. CASE CloseListeners
  <2>1. Mode \in {"serving", "draining"} /\ Mode' = "draining" /\ UNCHANGED grace
    BY <1>7 DEF CloseListeners, Goto, Mode
  <2>2. Promise!CloseTunnel \/ UNCHANGED <<agent, Seen>>
    BY <1>7, <1>c, CloseSeen DEF CloseListeners
  <2>3. CASE Mode = "serving"
    <3>1. Promise!Drain
      BY <2>1, <2>2, <2>3 DEF Promise!Drain, Seen
    <3>2. QED BY <3>1
  <2>4. CASE Mode = "draining"
    BY <2>1, <2>2, <2>4 DEF Promise!TunnelEnds, Seen
  <2>5. QED BY <2>1, <2>3, <2>4
<1>8. CASE SelectDone \/ SelectResult
  <2>1. UNCHANGED <<Mode, conn, agent, grace # "over">>
    BY <1>8 DEF SelectDone, SelectResult, Goto, Quiet, Calm, Mode, ProcessInv, Order
  <2>2. QED BY <1>a, <2>1 DEF Seen
<1>9. CASE AwaitServe \/ GiveUp \/ Collect \/ CloseStore
  <2>1. UNCHANGED <<conn, agent, grace, accepting>>
    BY <1>9 DEF AwaitServe, GiveUp, Collect, CloseStore, Quiet, Calm
  <2>2. /\ mainAt \notin {"exit", "select", "shutdown"}
        /\ mainAt' \notin {"exit", "select", "shutdown"}
    BY <1>9 DEF AwaitServe, GiveUp, Collect, CloseStore, Goto
  <2>3. UNCHANGED Mode
    BY <2>1, <2>2 DEF Mode
  <2>4. QED BY <1>a, <2>1, <2>3 DEF Seen
<1>10. CASE Poll
  <2>1. UNCHANGED <<Mode, agent, grace>>
    BY <1>10 DEF Poll, Goto, Mode, mainVars
  <2>2. PICK silent \in SUBSET {c \in Conns : conn[c].state = "new"} :
           conn' = [c \in Conns |-> IF c \in silent \/ conn[c].state = "idle"
                                    THEN NotConnected ELSE conn[c]]
    BY <1>10 DEF Poll
  <2> DEFINE C == silent \cup {c \in Conns : conn[c].state = "idle"}
  <2>3. \A c \in C : c \in Conns /\ Seen[c].state = "in"
    BY <1>c, Views DEF Seen, Shape
  <2>4. Seen' = [c \in Conns |-> IF c \in C THEN Promise!Out ELSE Seen[c]]
    <3>1. Client(NotConnected) = Promise!Out
      BY DEF Client, NotConnected, Promise!Out
    <3>2. \A c \in Conns : conn'[c] = IF c \in C THEN NotConnected ELSE conn[c]
      BY <2>2
    <3> HIDE DEF C
    <3>3. QED BY <3>1, <3>2 DEF Seen
  <2>5. Promise!Hangup(C) /\ C \in SUBSET Conns
    BY <1>b, <2>1, <2>3, <2>4 DEF Promise!Hangup, Seen
  <2>6. QED BY <2>5
<1>11. CASE CloseEndpoint
  <2>1. UNCHANGED <<Mode, grace>>
    BY <1>11 DEF CloseEndpoint, Goto, Mode
  <2>2. Promise!CloseTunnel \/ UNCHANGED <<agent, Seen>>
    BY <1>11, <1>c, CloseSeen DEF CloseEndpoint
  <2>3. QED BY <2>1, <2>2 DEF Promise!TunnelEnds, Seen
<1>12. CASE Exit
  <2>1. /\ Mode \in {"starting", "draining"} /\ Mode' = "stopped"
        /\ agent # "connected" /\ UNCHANGED <<agent, grace>>
    BY <1>12 DEF Exit, Goto, Mode, mainVars, Opened, Ended
  <2>2. grace # "over" => \A c \in Conns : Seen[c].state # "busy"
    BY <1>12 DEF Exit, ProcessInv, InTime, Late, Quiescent, Client, Seen, NotConnected
  <2>3. Seen' = [c \in Conns |-> Promise!Out]
    BY <1>12 DEF Exit, Client, NotConnected, Seen, Promise!Out
  <2>4. Promise!Stop
    BY <1>b, <2>1, <2>2, <2>3 DEF Promise!Stop, Seen
  <2>5. QED BY <2>4
<1>13. CASE Signal \/ UNCHANGED vars
  BY <1>1, <1>13 DEF Signal, vars, handlerVars, mainVars
<1>14. CASE GraceEnds
  <2>1. Mode \in {"serving", "draining"} /\ UNCHANGED <<Mode, conn, agent>> /\ grace' = "over"
    <3>1. mainAt \in {"awaitServe", "drain"} => ~accepting
      BY DEF ProcessInv, Order, Results, Stopping, Early, Served, Listeners, Spawned
    <3>2. QED BY <1>14, <3>1 DEF GraceEnds, Mode, handlerVars
  <2>2. Promise!GraceEnds
    BY <1>a, <2>1 DEF Promise!GraceEnds, Seen
  <2>3. QED BY <2>2
<1>15. ASSUME NEW l \in Listeners, StartServing(l) \/ StopServing(l)
       PROVE  [Promise!Next]_Promise!svars
  <2>1. UNCHANGED <<Mode, grace>>
    BY <1>15 DEF StartServing, StopServing, Mode
  <2>2. Promise!CloseTunnel \/ UNCHANGED <<agent, Seen>>
    BY <1>15, <1>c, CloseSeen DEF StartServing, StopServing
  <2>3. QED BY <2>1, <2>2 DEF Promise!TunnelEnds, Seen
<1>16. ASSUME NEW l \in Listeners, NEW c \in Conns, Accept(l, c), mainAt # "exit"
       PROVE  [Promise!Next]_Promise!svars
  <2>1. accepting /\ Spawned /\ (l = "ngrok" => agent = "connected")
    BY <1>16 DEF Accept, Meeting, Spawned, Opened
  <2>2. Mode = "serving" /\ UNCHANGED <<Mode, agent, grace>>
    BY <1>16, <2>1 DEF Accept, Mode, mainVars, ProcessInv, Order, Early
  <2>3. Seen[c] = Promise!Out
    BY <1>16 DEF Accept, Client, Seen, NotConnected, Promise!Out
  <2>a. conn' = [conn EXCEPT ![c] = [state |-> "new", via |-> l]] /\ [state |-> "new", via |-> l] \in Links
    BY <1>16 DEF Accept, Links
  <2>b. Client([state |-> "new", via |-> l]) = [state |-> "in", via |-> l]
    BY <2>a, Views
  <2>4. Seen' = [Seen EXCEPT ![c] = [state |-> "in", via |-> l]]
    BY <1>c, <2>a, <2>b DEF Seen, Shape
  <2>5. Promise!Accept(c, l)
    BY <1>b, <2>1, <2>2, <2>3, <2>4 DEF Promise!Accept, Seen
  <2>6. QED BY <2>5 DEF Listeners
<1>17. QED
  BY <1>2, <1>3, <1>4, <1>5, <1>6, <1>7, <1>8, <1>9, <1>10, <1>11, <1>12, <1>13, <1>14, <1>15,
     <1>16, RequestSeen
     DEF Next, Main

\* The process keeps the promise of Service, for any number of connections.
THEOREM ServiceKept == Spec => ImplementsService
<1>1. Init => Promise!Init
  BY DEF Init, HandlerInit, NotConnected, Promise!Init, Promise!Out, Mode, Client
<1>2. QED
  BY <1>1, StepSeen, ServiceInvariance, PTL DEF Spec, ImplementsService, Promise!Spec

-----------------------------------------------------------------------------
(* The configuration and the types. *)

\* The value a variable has according to the documented order.
LookUp(s, v) ==
    LET order == <<s.process, s.project, s.home>>
        setBy == {i \in 1..3 : order[i] # Unreadable /\ v \in DOMAIN order[i]}
        first == order[CHOOSE i \in setBy : \A j \in setBy : i <= j][v]
    IN  IF setBy = {} THEN Default[v] ELSE IF first = Blank THEN Default[v] ELSE first

\* The environment Load builds by three overlays gives each variable that value.
LEMMA LookUpIsValue ==
    ASSUME NEW s, s.process # Unreadable, NEW v PROVE LookUp(s, v) = Value(Environment(s), v)
<1> DEFINE order == <<s.process, s.project, s.home>>
           setBy == {i \in 1..3 : order[i] # Unreadable /\ v \in DOMAIN order[i]}
           fst == CHOOSE i \in setBy : \A j \in setBy : i <= j
           first == order[fst][v]
           merged == MergeEnvFiles(s.project, s.home)
           env == Environment(s)
<1>1. order[1] = s.process /\ order[2] = s.project /\ order[3] = s.home
  OBVIOUS
<1>2. DOMAIN <<>> = {}
  OBVIOUS
<1>3. \A f : DOMAIN ReadEnvFile(f) = IF f = Unreadable THEN {} ELSE DOMAIN f
  BY <1>2 DEF ReadEnvFile
<1>4. \A low, high : /\ DOMAIN Overlay(low, high) = DOMAIN low \cup DOMAIN high
                     /\ \A w \in DOMAIN low \cup DOMAIN high :
                           Overlay(low, high)[w] = IF w \in DOMAIN high THEN high[w] ELSE low[w]
  BY DEF Overlay
<1>5. v \in DOMAIN merged <=> 2 \in setBy \/ 3 \in setBy
  <2>1. DOMAIN merged = DOMAIN ReadEnvFile(s.home) \cup DOMAIN ReadEnvFile(s.project)
    BY <1>4 DEF MergeEnvFiles
  <2>2. /\ 2 \in setBy <=> s.project # Unreadable /\ v \in DOMAIN s.project
        /\ 3 \in setBy <=> s.home # Unreadable /\ v \in DOMAIN s.home
    BY <1>1
  <2>3. QED BY <1>3, <2>1, <2>2
<1>6. v \in DOMAIN env <=> 1 \in setBy \/ 2 \in setBy \/ 3 \in setBy
  <2>1. DOMAIN env = DOMAIN merged \cup DOMAIN s.process
    BY <1>4 DEF Environment
  <2>2. 1 \in setBy <=> v \in DOMAIN s.process
    BY <1>1
  <2>3. QED BY <1>5, <2>1, <2>2
<1>7. CASE setBy = {}
  BY <1>6, <1>7 DEF LookUp, Value
<1>8. CASE 1 \in setBy
  <2>1. fst = 1
    BY <1>8
  <2>2. env[v] = s.process[v]
    BY <1>1, <1>4, <1>8 DEF Environment
  <2>3. QED BY <1>1, <1>6, <1>8, <2>1, <2>2 DEF LookUp, Value
<1>9. CASE 1 \notin setBy /\ 2 \in setBy
  <2>1. fst = 2
    BY <1>9
  <2>2. env[v] = merged[v]
    BY <1>1, <1>4, <1>5, <1>9 DEF Environment
  <2>3. merged[v] = s.project[v]
    BY <1>1, <1>3, <1>4, <1>9 DEF MergeEnvFiles, ReadEnvFile
  <2>4. QED BY <1>1, <1>6, <1>9, <2>1, <2>2, <2>3 DEF LookUp, Value
<1>10. CASE 1 \notin setBy /\ 2 \notin setBy /\ 3 \in setBy
  <2>1. fst = 3
    BY <1>10
  <2>2. env[v] = merged[v]
    BY <1>1, <1>4, <1>5, <1>10 DEF Environment
  <2>3. merged[v] = s.home[v]
    BY <1>1, <1>3, <1>4, <1>10 DEF MergeEnvFiles, ReadEnvFile
  <2>4. QED BY <1>1, <1>6, <1>10, <2>1, <2>2, <2>3 DEF LookUp, Value
<1>11. setBy = {} \/ 1 \in setBy \/ 2 \in setBy \/ 3 \in setBy
  OBVIOUS
<1>12. QED BY <1>7, <1>8, <1>9, <1>10, <1>11

\* The tunnel is up, or it has failed or is being shut down.
TunnelServes == agent = "connected" \/ (agent = "gone" /\ (~accepting \/ "serve" \in failed))

\* The configuration in force is the validated reading of the sources, and the
\* tunnel is there when anything is served, until it fails or is shut down.
InForce ==
    /\ sources \in Sources
    /\ cfg = NoConfig => mainAt \in {"load", "exit"} /\ ~Spawned
    /\ cfg # NoConfig => cfg = FromEnv(Environment(sources)) /\ Validate(cfg)
    /\ cfg.ngrok /\ mainAt \in {"tunnelUp", "spawn"} => agent = "connected"
    /\ cfg.ngrok /\ Spawned => TunnelServes

\* Every step keeps it.
LEMMA InForceStep == ProcessInv /\ Results /\ InForce /\ [Next]_vars => InForce'
<1> SUFFICES ASSUME ProcessInv, Results, InForce, [Next]_vars PROVE InForce'
  OBVIOUS
<1> USE DEF InForce, TunnelServes
<1>1. CASE UNCHANGED <<sources, cfg, mainAt, server, agent, accepting, failed>>
  BY <1>1 DEF Spawned
<1>2. CASE Load
  BY <1>2 DEF Load, Goto, Configuration, ProcessInv, Order, Early, Spawned
<1>3. CASE OpenStore \/ ClearStore \/ Listen \/ TunnelListen \/ TunnelCheck \/ TunnelFailed
  <2>1. UNCHANGED <<sources, cfg, server>> /\ ~Spawned /\ mainAt # "exit"
    BY <1>3 DEF OpenStore, ClearStore, Listen, TunnelListen, TunnelCheck, TunnelFailed, Goto, Quiet, Calm,
       ProcessInv, Order, Early
  <2>2. ~Spawned'
    BY <2>1 DEF Spawned
  <2>3. cfg.ngrok /\ mainAt' \in {"tunnelUp", "spawn"} => agent' = "connected"
    BY <1>3 DEF OpenStore, ClearStore, Listen, TunnelListen, TunnelCheck, TunnelFailed, Goto, Quiet, Calm
  <2>4. cfg # NoConfig
    BY <1>3 DEF OpenStore, ClearStore, Listen, TunnelListen, TunnelCheck, TunnelFailed
  <2>5. QED BY <2>1, <2>2, <2>3, <2>4
<1>4. CASE Spawn
  BY <1>4 DEF Spawn, Goto, Quiet, Calm
<1>5. CASE SelectDone \/ SelectResult \/ AwaitServe \/ Poll \/ GiveUp \/ Collect \/ CloseStore \/ Exit
  <2>1. /\ UNCHANGED <<sources, cfg, server, agent, accepting, failed>>
        /\ mainAt # "load" /\ mainAt' \notin {"tunnelUp", "spawn"}
    BY <1>5 DEF SelectDone, SelectResult, AwaitServe, Poll, GiveUp, Collect, CloseStore, Exit, Goto,
       Quiet, Calm, mainVars
  <2>2. cfg = NoConfig => mainAt' = "exit" /\ ~Spawned
    BY <1>5, <2>1 DEF SelectDone, SelectResult, AwaitServe, Poll, GiveUp, Collect, CloseStore, Exit,
       Goto
  <2>3. UNCHANGED Spawned
    BY <2>1 DEF Spawned
  <2>4. QED BY <2>1, <2>2, <2>3
<1>6. CASE CloseListeners \/ CloseEndpoint
  <2>1. /\ UNCHANGED <<sources, cfg, server>> /\ cfg # NoConfig
        /\ mainAt' \notin {"tunnelUp", "spawn"}
        /\ failed' = failed /\ (accepting' => accepting)
    BY <1>6 DEF CloseListeners, CloseEndpoint, Goto, Calm
  <2>2. agent' = "gone" \/ agent' = agent
    BY <1>6 DEF CloseListeners, CloseEndpoint, Close
  <2>3. Spawned => ~accepting'
    BY <1>6 DEF CloseListeners, CloseEndpoint, ProcessInv, Order, Early
  <2>4. UNCHANGED Spawned
    BY <2>1 DEF Spawned
  <2>5. QED BY <2>1, <2>2, <2>3, <2>4
<1>7. ASSUME NEW l \in Listeners, StartServing(l) \/ StopServing(l) PROVE InForce'
  <2>1. /\ UNCHANGED <<sources, cfg, mainAt, accepting>> /\ Spawned
        /\ failed \subseteq failed'
    BY <1>7 DEF StartServing, StopServing, Calm, Spawned
  <2>2. agent' = agent \/ (agent' = "gone" /\ (~accepting' \/ "serve" \in failed'))
    BY <1>7 DEF StartServing, StopServing, Close
  <2>3. mainAt \notin Early
    BY <2>1 DEF ProcessInv, Order
  <2>4. QED BY <2>1, <2>2, <2>3 DEF Early
<1>8. CASE Signal \/ GraceEnds \/ UNCHANGED vars
  BY <1>1, <1>8 DEF Signal, GraceEnds, vars, mainVars
<1>9. ASSUME NEW l \in Listeners, NEW c \in Conns, Accept(l, c) PROVE InForce'
  BY <1>1, <1>9 DEF Accept, mainVars
<1>10. ASSUME NEW c \in Conns, Request(c) PROVE InForce'
  BY <1>1, <1>10, RequestFrame DEF mainVars
<1>11. QED
  BY <1>2, <1>3, <1>4, <1>5, <1>6, <1>7, <1>8, <1>9, <1>10 DEF Next, Main

\* The configuration in force stays the one that was loaded.
LEMMA InForceHolds == Spec => []InForce
<1>1. Init => InForce
  BY DEF Init, InForce, Spawned
<1>2. QED BY <1>1, InForceStep, Accounts, Invariance, PTL DEF Spec

\* With the tunnel enabled nobody is connected before it is up
\* (main.go:80-90, config.go:380-388).
THEOREM TunnelFirst == Spec => []NoLocalFallback
<1>1. ProcessInv /\ InForce => NoLocalFallback
  <2> SUFFICES ASSUME ProcessInv, InForce, NEW c \in Conns, conn[c].state # "out", cfg.ngrok
               PROVE  TunnelServes /\ cfg.token # Blank
    BY DEF NoLocalFallback, TunnelServes
  <2>1. Spawned /\ mainAt # "load"
    BY DEF ProcessInv, Order, Early, Quiescent
  <2>2. TunnelServes
    BY <2>1 DEF InForce
  <2>3. cfg # NoConfig
    BY <2>1 DEF InForce
  <2>4. QED BY <2>2, <2>3 DEF InForce, Validate
<1>2. QED BY <1>1, InForceHolds, Invariance, PTL

\* The configuration in force is the documented one, for all sources
\* (config.go:107-140).
THEOREM PrecedenceHolds == Spec => []SourcePrecedence
<1>1. InForce => SourcePrecedence
  <2> SUFFICES ASSUME InForce, cfg # NoConfig PROVE SourcePrecedence
    BY DEF SourcePrecedence
  <2>1. \A v : LookUp(sources, v) = Value(Environment(sources), v)
    BY LookUpIsValue, ProcessAssumption DEF InForce
  <2>2. cfg = FromEnv(Environment(sources))
    BY DEF InForce
  <2>3. /\ cfg.strategy = LookUp(sources, "MISSING_REASONING_STRATEGY")
        /\ cfg.ngrok <=> LookUp(sources, "NGROK_ENABLED") = "true"
        /\ cfg.clear <=> LookUp(sources, "CLEAR_REASONING_CACHE") = "true"
        /\ cfg.token = LookUp(sources, "NGROK_AUTHTOKEN")
    BY <2>1, <2>2 DEF FromEnv
  <2>4. QED BY <2>3 DEF SourcePrecedence, LookUp
<1>2. QED BY <1>1, InForceHolds, PTL

\* A connection carries a request exactly while its handler runs, and has a
\* status once the handler is about to return.
Handled ==
    /\ store \in {"none", "open", "closed"} /\ agent \in {"none", "connected", "gone"}
    /\ left \in 0..2
    /\ phase \in [Conns -> Phases] /\ status \in [Conns -> Nat]
    /\ req \in [Conns -> Requests \cup {NoRequest}]
    /\ \A c \in Conns : /\ phase[c] = "none" <=> req[c] = NoRequest
                        /\ status[c] # 0 => phase[c] = "reply"

\* Every step keeps it.
LEMMA HandledStep == Handled /\ [Next]_vars => Handled'
<1> SUFFICES ASSUME Handled, [Next]_vars PROVE Handled'
  OBVIOUS
<1> USE DEF Handled
<1>1. CASE /\ UNCHANGED <<phase, req, status>>
           /\ store' \in {store, "open", "closed"} /\ agent' \in {agent, "none", "connected", "gone"}
           /\ left' \in 0..2
  BY <1>1
<1>2. CASE Main
  <2>1. UNCHANGED <<phase, req, status>>
    BY <1>2 DEF Main, Quiet, Calm, handlerVars,
       Load, OpenStore, ClearStore, Listen, TunnelListen, TunnelCheck, TunnelFailed, Spawn,
       SelectDone, SelectResult, CloseListeners, AwaitServe, Poll, GiveUp, CloseEndpoint,
       Collect, CloseStore, Exit
  <2>2. store' \in {store, "open", "closed"} /\ agent' \in {agent, "none", "connected", "gone"}
    BY <1>2 DEF Main, Close, mainVars,
       Load, OpenStore, ClearStore, Listen, TunnelListen, TunnelCheck, TunnelFailed, Spawn,
       SelectDone, SelectResult, CloseListeners, AwaitServe, Poll, GiveUp, CloseEndpoint,
       Collect, CloseStore, Exit
  <2>3. left' \in 0..2
    <3>1. \/ left' \in {left, Cardinality(Served), Cardinality(Served) - 1}
          \/ left > 0 /\ left' = left - 1
      BY <1>2 DEF Main, mainVars,
         Load, OpenStore, ClearStore, Listen, TunnelListen, TunnelCheck, TunnelFailed,
         Spawn, SelectDone, SelectResult, CloseListeners, AwaitServe, Poll, GiveUp,
         CloseEndpoint, Collect, CloseStore, Exit
    <3>2. QED BY <3>1, ServedCount
  <2>4. QED BY <1>1, <2>1, <2>2, <2>3
<1>3. CASE Signal \/ GraceEnds \/ UNCHANGED vars
  BY <1>1, <1>3 DEF Signal, GraceEnds, vars, handlerVars, mainVars
<1>4. ASSUME NEW l \in Listeners,
             StartServing(l) \/ StopServing(l) \/ \E c \in Conns : Accept(l, c)
      PROVE  Handled'
  BY <1>1, <1>4 DEF StartServing, StopServing, Close, Accept, Calm, mainVars
<1>5. ASSUME NEW c \in Conns, Request(c) PROVE Handled'
  <2>1. UNCHANGED <<store, agent, left>>
    BY <1>5, RequestFrame DEF mainVars
  <2> USE DEF Phases
  <2>2. CASE Receive(c)
    BY <2>1, <2>2, ProcessAssumption DEF Receive
  <2>3. CASE Leave(c)
    BY <2>1, <2>3 DEF Leave
  <2>4. CASE Check(c)
    <3>1. PICK s \in Nat : /\ status' = [status EXCEPT ![c] = s]
                           /\ phase' = [phase EXCEPT ![c] = IF s = 0 THEN "upstream" ELSE "reply"]
      <4>1. Refusal(req[c]) \in Nat
        BY DEF Refusal
      <4> DEFINE missing == \/ req[c].reasoning = "lost"
                            \/ req[c].reasoning = "stored" /\ store # "open"
                 t == IF Refusal(req[c]) # 0 THEN Refusal(req[c])
                      ELSE IF cfg.strategy = "reject" /\ missing THEN 409 ELSE 0
      <4>2. t \in Nat
        BY <4>1
      <4>3. /\ status' = [status EXCEPT ![c] = t]
            /\ phase' = [phase EXCEPT ![c] = IF t = 0 THEN "upstream" ELSE "reply"]
        BY <2>4 DEF Check
      <4> HIDE DEF t
      <4>4. QED BY <4>2, <4>3
    <3>2. UNCHANGED req /\ phase[c] = "received"
      BY <2>4 DEF Check
    <3>3. QED BY <2>1, <3>1, <3>2
  <2>5. CASE UpstreamAnswers(c)
    BY <2>1, <2>5 DEF UpstreamAnswers
  <2>6. CASE UpstreamFails(c)
    BY <2>1, <2>6 DEF UpstreamFails
  <2>7. CASE OpenTrace(c)
    BY <2>1, <2>7 DEF OpenTrace
  <2>8. CASE WriteTrace(c)
    BY <2>1, <2>8 DEF WriteTrace
  <2>9. CASE RenameTrace(c)
    BY <2>1, <2>9 DEF RenameTrace
  <2>10. CASE Relay(c)
    BY <2>1, <2>10 DEF Relay
  <2>11. CASE Reply(c)
    BY <2>1, <2>11, ProcessAssumption DEF Reply
  <2>12. QED
    BY <1>5, <2>2, <2>3, <2>4, <2>5, <2>6, <2>7, <2>8, <2>9, <2>10, <2>11 DEF Request
<1>6. QED BY <1>2, <1>3, <1>4, <1>5 DEF Next

\* Types, and room in the channel for every result that is ever sent
\* (main.go:95).
THEOREM ProcessTypes == Spec => []TypeOK
<1>1. Init => Handled
  BY DEF Init, HandlerInit, Handled, Phases
<1>2. Results /\ ProcessInv /\ Reported /\ Handled => Len(errs) <= 2
  <2> SUFFICES ASSUME Results, ProcessInv, Reported, Handled PROVE Len(errs) <= 2
    OBVIOUS
  <2>1. Running("local") \in Nat /\ Running("ngrok") \in Nat /\ Len(errs) \in Nat
    BY DEF Running, Results
  <2>2. CASE mainAt \in Early
    BY <2>2 DEF ProcessInv, Order, Results
  <2>3. CASE mainAt = "select"
    BY <2>1, <2>3, ServedCount DEF Results
  <2>4. CASE mainAt \in Stopping
    BY <2>1, <2>4 DEF Results, Handled
  <2>5. CASE mainAt \in Ended
    BY <2>1, <2>5 DEF Results
  <2>6. mainAt \in Early \cup {"select"} \cup Stopping \cup Ended
    BY DEF Reported
  <2>7. QED BY <2>2, <2>3, <2>4, <2>5, <2>6
<1>3. Results /\ ProcessInv /\ Handled /\ InForce /\ Reported => TypeOK
  BY <1>2, TwoListeners DEF TypeOK, Handled, InForce, Reported, ProcessInv
<1>4. QED BY <1>1, <1>3, HandledStep, ServiceInvariance, InForceHolds, PTL DEF Spec, ServiceInv

=============================================================================
