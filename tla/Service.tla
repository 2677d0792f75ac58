------------------------------- MODULE Service -------------------------------
(***************************************************************************)
(* What the process promises its clients: connections are taken only while *)
(* it serves, a request that has been read is answered unless the grace    *)
(* period of the shutdown has run out or the tunnel it came through is     *)
(* gone, and nothing is served afterwards.  A request that came to the     *)
(* local listener is cut off by nothing but the end of the grace period.   *)
(***************************************************************************)
CONSTANT Conns

VARIABLES mode,    \* "starting", "serving", "draining" or "stopped"
          client,  \* connection -> [state, via], "out", "in" or "busy" with a request
          tunnel,  \* the tunnel is up
          grace    \* FALSE once the time for a clean shutdown is up

svars == <<mode, client, tunnel, grace>>

Out == [state |-> "out", via |-> "local"]

Init == /\ mode = "starting" /\ client = [c \in Conns |-> Out]
        /\ tunnel = FALSE /\ grace = TRUE

OpenTunnel == /\ mode = "starting" /\ tunnel' = TRUE
              /\ UNCHANGED <<mode, client, grace>>

Serve == /\ mode = "starting" /\ mode' = "serving"
         /\ UNCHANGED <<client, tunnel, grace>>

\* Nobody comes through a tunnel that is not up.
Accept(c, way) == /\ mode = "serving" /\ client[c] = Out
                  /\ way = "ngrok" => tunnel
                  /\ client' = [client EXCEPT ![c] = [state |-> "in", via |-> way]]
                  /\ UNCHANGED <<mode, tunnel, grace>>

Ask(c) == /\ mode \in {"serving", "draining"} /\ client[c].state = "in"
          /\ client' = [client EXCEPT ![c].state = "busy"]
          /\ UNCHANGED <<mode, tunnel, grace>>

Answer(c) == /\ client[c].state = "busy"
             /\ \E k \in {Out, [client[c] EXCEPT !.state = "in"]} :
                   client' = [client EXCEPT ![c] = k]
             /\ UNCHANGED <<mode, tunnel, grace>>

\* Connections that carry no request are closed.
Hangup(C) == /\ \A c \in C : client[c].state = "in"
             /\ client' = [c \in Conns |-> IF c \in C THEN Out ELSE client[c]]
             /\ UNCHANGED <<mode, tunnel, grace>>

\* Everybody who came through the tunnel is gone with it.
CloseTunnel == /\ tunnel' = FALSE
               /\ client' = [c \in Conns |-> IF client[c].via = "ngrok" THEN Out ELSE client[c]]

\* The tunnel ends without the process.
TunnelEnds == /\ CloseTunnel
              /\ UNCHANGED <<mode, grace>>

Drain == /\ mode = "serving" /\ mode' = "draining"
         /\ CloseTunnel \/ UNCHANGED <<client, tunnel>>
         /\ UNCHANGED grace

GraceEnds == /\ mode \in {"serving", "draining"}
             /\ grace' = FALSE
             /\ UNCHANGED <<mode, client, tunnel>>

\* A process that has served drains before it stops, and the tunnel is down by
\* then.  Requests are cut off only when the time is up.
Stop == /\ mode \in {"starting", "draining"} /\ ~tunnel
        /\ grace => \A c \in Conns : client[c].state # "busy"
        /\ mode' = "stopped"
        /\ client' = [c \in Conns |-> Out]
        /\ UNCHANGED <<tunnel, grace>>

Next == \/ OpenTunnel \/ Serve \/ TunnelEnds \/ Drain \/ GraceEnds \/ Stop
        \/ \E c \in Conns : Ask(c) \/ Answer(c) \/ \E way \in {"local", "ngrok"} : Accept(c, way)
        \/ \E C \in SUBSET Conns : Hangup(C)

Spec == Init /\ [][Next]_svars

=============================================================================
