------------------------------- MODULE MCStream -------------------------------
EXTENDS Stream, TLC

CONSTANT x1, x2

Delta == [index |-> 0, content |-> Absent, reasoning |-> Absent, tools |-> FALSE,
          calls |-> <<>>, finish |-> FALSE]

\* A call's first piece has its id and its name.
Call(n, id, args) == [at |-> n, id |-> id, name |-> IF id = Absent THEN "" ELSE "f",
                      args |-> args]

\* What one choice may send: the empty first delta, null or empty fields or an
\* empty list of tool calls, reasoning, text, with a blank or a newline in front,
\* both at once, tool calls in pieces, an end with or without text.
MCDeltas(i) ==
    LET D == [Delta EXCEPT !.index = i]
        C == [D EXCEPT !.tools = TRUE]
        id(n) == <<i, n>>
    IN  {D,
         [D EXCEPT !.content = Null, !.reasoning = <<>>],
         [D EXCEPT !.content = <<>>],
         C,
         [D EXCEPT !.reasoning = <<"r">>],
         [D EXCEPT !.content = Null, !.reasoning = <<"r">>],
         [D EXCEPT !.content = <<"a">>],
         [D EXCEPT !.content = <<"sp", "a">>],
         [D EXCEPT !.content = <<"nl">>],
         [D EXCEPT !.content = <<"a">>, !.reasoning = <<"r">>],
         [C EXCEPT !.calls = <<Call(1, id(1), <<>>)>>],
         [C EXCEPT !.calls = <<Call(1, Absent, <<"x">>)>>],
         [C EXCEPT !.calls = <<Call(2, id(2), <<"x">>)>>],
         [C EXCEPT !.calls = <<Call(1, id(1), <<"x">>), Call(2, id(2), <<"x">>)>>],
         [D EXCEPT !.finish = TRUE],
         [D EXCEPT !.content = <<"a">>, !.finish = TRUE]}

\* A second choice, alone or, for reasoning and text, in one chunk with the first.
MCFew(i) ==
    LET D == [Delta EXCEPT !.index = i]
    IN  {[D EXCEPT !.content = Null, !.reasoning = <<IF i = 0 THEN "r" ELSE "r1">>],
         [D EXCEPT !.content = <<"a">>],
         [D EXCEPT !.tools = TRUE, !.calls = <<Call(1, <<i, 1>>, <<"x">>)>>],
         [D EXCEPT !.finish = TRUE]}

MCChunks ==
    LET Told(i) == {d \in MCFew(i) : d.content # Absent}
    IN  {<<d>> : d \in MCDeltas(0) \cup MCFew(1)} \cup (Told(0) \X Told(1))
=============================================================================
