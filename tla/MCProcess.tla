------------------------------ MODULE MCProcess ------------------------------
EXTENDS Process

CONSTANTS h1, h2

Chat == [method |-> "POST", path |-> "chat", auth |-> "key", body |-> "object",
         user |-> Null, user_id |-> Null, reasoning |-> "stored"]

\* A request that is forwarded, one that misses reasoning, one that is refused.
MCRequests == {[Chat EXCEPT !.user = "alice"], [Chat EXCEPT !.reasoning = "lost"],
               [Chat EXCEPT !.user_id = "bad id"]}

\* Users of one key.
MCUsers == {[Chat EXCEPT !.user = u, !.user_id = i] :
               u \in {"alice", "bob", Null}, i \in {Null, Blank, "id"}}

Nothing == <<>>
Tunnel == [NGROK_ENABLED |-> "true", NGROK_AUTHTOKEN |-> "token"]
Strict == [NGROK_ENABLED |-> "true", MISSING_REASONING_STRATEGY |-> "reject"]

From(p, f, h) == [process |-> p, project |-> f, home |-> h]

\* Two that serve: a tunnel in strict mode, and the same files under a process
\* environment that leaves neither.  Then the ways not to serve.
MCSources ==
    {From(Nothing, Tunnel, Strict),
     From([NGROK_ENABLED |-> "false", MISSING_REASONING_STRATEGY |-> Blank, TRACE_DIR |-> "dir"],
          Tunnel, Strict),
     From(Nothing, Unreadable, Strict),
     From([NGROK_ENABLED |-> "maybe"], Tunnel, Nothing),
     From([REQUEST_TIMEOUT |-> "0"], Unreadable, Unreadable),
     From(Nothing, [CLEAR_REASONING_CACHE |-> "true"], [CLEAR_REASONING_CACHE |-> "false"])}

MCLocal == {From(Nothing, Unreadable, Unreadable)}
=============================================================================
