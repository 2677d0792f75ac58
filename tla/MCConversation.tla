---------------------------- MODULE MCConversation ----------------------------
EXTENDS Conversation, TLC

CONSTANTS c1, c2, p1, p2

MCIds == <<"id1", "id2", "id3", "id4">>

System == Message("system", <<"sys">>)
User == Message("user", <<"q">>)

\* A legacy client's tool turn from before the proxy: nobody has recorded its
\* reasoning.
Foreign == <<User,
             [Message("assistant", <<"a">>) EXCEPT
                 !.calls = <<[id |-> "id0", name |-> "f", args |-> "x"]>>],
             Message("function", <<"id0">>)>>

MCEmpty == {<<>>}
\* Once whole, and once without its user message, as a client that trims its
\* history sends it.
MCForeign == {<<System>> \o Foreign, Tail(Foreign)}

MCQuestions == {<<"q">>}
MCAnswers == {<<>>, <<"a">>}
MCAnswer == {<<"a">>}
MCNewline == {<<"nl", "a">>}
MCNames == {"f"}
MCArguments == {"x"}
MCTwoArguments == {"x", "y"}
=============================================================================
