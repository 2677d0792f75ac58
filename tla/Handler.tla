-------------------------------- MODULE Handler --------------------------------
(***************************************************************************)
(* The life of a request in the handler, internal/proxy/handler.go, and    *)
(* its trace file, trace.go.  A connection carries one request at a time;  *)
(* the goroutine that serves it runs from one blocking call to the next.   *)
(* What PrepareUpstreamRequest and RewriteResponseBody do to the messages  *)
(* is the subject of Conversation, and a streamed answer that of Stream.   *)
(***************************************************************************)
EXTENDS Identity

CONSTANTS Conns,       \* the connections
          Requests,    \* what clients send: [method, path, auth, body, user, user_id,
                       \* reasoning], the last "carried", "stored" or "lost"
          NoRequest,
          NoAuth       \* no bearer token in the Authorization header

VARIABLES cfg,      \* the configuration, fixed once it is loaded
          store,    \* the reasoning store: "none", "open" or "closed"
          conn,     \* connection -> [state, via]: "out", "new", "in" use, "idle", or
                    \* "cut" when its client is lost and its handler still runs
          req,      \* connection -> the request it carries
          phase,    \* connection -> where its handler is
          status,   \* connection -> the status of the answer being written, or 0
          files,    \* connection -> the trace file of the request
          accepting \* http.Server: FALSE from the moment Shutdown is called

handlerVars == <<conn, req, phase, status, files>>

NotConnected == [state |-> "out", via |-> "local"]

NoFile == [name |-> "none", content |-> "none"]

\* A handler is running.
Busy == {c \in Conns : phase[c] # "none"}

\* The request has been sent to the upstream and its answer is not yet given.
Upstream == {c \in Conns : phase[c] \in {"upstream", "trace", "write", "rename", "relay"}}

-----------------------------------------------------------------------------
(* Before the upstream is asked. *)

\* The status a request is answered with as it stands, or 0 for a chat
\* completion to forward.
Refusal(r) ==
    CASE r.method = "OPTIONS" -> 204
      [] r.method = "GET" -> IF r.path \in {"health", "models"} THEN 200 ELSE 404
      [] r.method \notin {"OPTIONS", "GET", "POST"} -> 405
      [] r.method = "POST" ->
           IF r.path # "chat" THEN 404
           ELSE IF r.auth = NoAuth THEN 401
           ELSE IF r.body = "large" THEN 413
           ELSE IF r.body # "object" \/ NormalizeUpstreamUserID(r) = InvalidUser THEN 400
           ELSE 0

\* Mutant of Check: strict mode does not look at what is missing.
CheckLoose(c) ==
    /\ phase[c] = "received"
    /\ LET s == Refusal(req[c])
       IN  /\ status' = [status EXCEPT ![c] = s]
           /\ phase' = [phase EXCEPT ![c] = IF s = 0 THEN "upstream" ELSE "reply"]
    /\ UNCHANGED <<cfg, store, conn, req, files, accepting>>

\* ServeHTTP down to Client.Do.  With the store closed nothing is restored.
Check(c) ==
    /\ phase[c] = "received"
    /\ LET missing == \/ req[c].reasoning = "lost"
                      \/ req[c].reasoning = "stored" /\ store # "open"
           s == IF Refusal(req[c]) # 0 THEN Refusal(req[c])
                ELSE IF cfg.strategy = "reject" /\ missing THEN 409 ELSE 0
       IN  /\ status' = [status EXCEPT ![c] = s]
           /\ phase' = [phase EXCEPT ![c] = IF s = 0 THEN "upstream" ELSE "reply"]
    /\ UNCHANGED <<cfg, store, conn, req, files, accepting>>

-----------------------------------------------------------------------------
(* The upstream and the trace. *)

UpstreamAnswers(c) ==
    /\ phase[c] = "upstream"
    /\ phase' = [phase EXCEPT ![c] = IF cfg.trace THEN "trace" ELSE "relay"]
    /\ UNCHANGED <<cfg, store, conn, req, status, files, accepting>>

\* A connection error, Client.Timeout, or the client's context: 502.
UpstreamFails(c) ==
    /\ phase[c] = "upstream"
    /\ phase' = [phase EXCEPT ![c] = "reply"]
    /\ status' = [status EXCEPT ![c] = 502]
    /\ UNCHANGED <<cfg, store, conn, req, files, accepting>>

\* Mutant of OpenTrace: the file is written where it will be read.
OpenTraceInPlace(c) ==
    /\ phase[c] = "trace"
    /\ phase' = [phase EXCEPT ![c] = "write"]
    /\ files' = [files EXCEPT ![c] = [name |-> "final", content |-> "part"]]
    /\ UNCHANGED <<cfg, store, conn, req, status, accepting>>

\* os.WriteFile begins.  Without the directory or the file there is no trace.
OpenTrace(c) ==
    /\ phase[c] = "trace"
    /\ \/ /\ phase' = [phase EXCEPT ![c] = "write"]
          /\ files' = [files EXCEPT ![c] = [name |-> "temp", content |-> "part"]]
       \/ /\ phase' = [phase EXCEPT ![c] = "relay"]
          /\ UNCHANGED files
    /\ UNCHANGED <<cfg, store, conn, req, status, accepting>>

\* os.WriteFile ends; an error leaves part of the temporary file behind.
WriteTrace(c) ==
    /\ phase[c] = "write"
    /\ \/ /\ phase' = [phase EXCEPT ![c] = "rename"]
          /\ files' = [files EXCEPT ![c].content = "whole"]
       \/ /\ phase' = [phase EXCEPT ![c] = "relay"]
          /\ UNCHANGED files
    /\ UNCHANGED <<cfg, store, conn, req, status, accepting>>

\* Mutant of RenameTrace: after a failure it is tried again.
RenameOrRetry(c) ==
    /\ phase[c] = "rename"
    /\ \/ /\ files' = [files EXCEPT ![c].name = "final"]
          /\ phase' = [phase EXCEPT ![c] = "relay"]
       \/ /\ files' = [files EXCEPT ![c] = NoFile]
          /\ phase' = [phase EXCEPT ![c] = "trace"]
    /\ UNCHANGED <<cfg, store, conn, req, status, accepting>>

RenameTrace(c) ==
    /\ phase[c] = "rename"
    /\ \/ files' = [files EXCEPT ![c].name = "final"]
       \/ UNCHANGED files
    /\ phase' = [phase EXCEPT ![c] = "relay"]
    /\ UNCHANGED <<cfg, store, conn, req, status, accepting>>

-----------------------------------------------------------------------------
(* The answer. *)

\* The body is read, recorded and rewritten, or cannot be read: 502.
Relay(c) ==
    /\ phase[c] = "relay"
    /\ phase' = [phase EXCEPT ![c] = "reply"]
    /\ \E s \in {200, 502} : status' = [status EXCEPT ![c] = s]
    /\ UNCHANGED <<cfg, store, conn, req, files, accepting>>

\* The handler returns and net/http keeps the connection or closes it: a
\* streamed answer asks for that, and so does Shutdown.
Reply(c) ==
    /\ phase[c] = "reply"
    /\ phase' = [phase EXCEPT ![c] = "none"]
    /\ status' = [status EXCEPT ![c] = 0]
    /\ req' = [req EXCEPT ![c] = NoRequest]
    /\ \/ conn' = [conn EXCEPT ![c] = NotConnected]
       \/ /\ accepting /\ conn[c].state = "in"
          /\ conn' = [conn EXCEPT ![c].state = "idle"]
    /\ files' = [files EXCEPT ![c] = NoFile]
    /\ UNCHANGED <<cfg, store, accepting>>

\* net/http reads a request from a connection, also from one that Shutdown
\* has not yet found to be idle.
Receive(c) ==
    /\ phase[c] = "none" /\ conn[c].state \in {"new", "idle"}
    /\ conn' = [conn EXCEPT ![c].state = "in"]
    /\ \E r \in Requests : req' = [req EXCEPT ![c] = r]
    /\ phase' = [phase EXCEPT ![c] = "received"]
    /\ UNCHANGED <<cfg, store, status, files, accepting>>

\* The client closes a connection it is not using.
Leave(c) ==
    /\ conn[c].state \in {"new", "idle"}
    /\ conn' = [conn EXCEPT ![c] = NotConnected]
    /\ UNCHANGED <<cfg, store, req, phase, status, files, accepting>>

HandlerInit ==
    /\ conn = [c \in Conns |-> NotConnected]
    /\ req = [c \in Conns |-> NoRequest]
    /\ phase = [c \in Conns |-> "none"]
    /\ status = [c \in Conns |-> 0]
    /\ files = [c \in Conns |-> NoFile]

=============================================================================
