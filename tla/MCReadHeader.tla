---------------------------- MODULE MCReadHeader ----------------------------
(* ReadHeader with streams built from lines, their ends in every form. *)
EXTENDS ReadHeader

Eols == {<<"LF">>, <<"CR", "LF">>, <<"CR", "CR", "LF">>}
Lines == {<<"g">>, <<"o">>, <<"p">>, <<"q">>, <<"x">>, <<"g", "CR", "x">>}
Options == {<<>>, <<"x", "CR", "LF">>, <<"CR", "x", "LF">>, <<"x", "x", "x", "LF">>,
            <<"p", "LF">>, <<"x", "bad", "LF">>}
Ends == {<<"LF">>, <<"CR", "LF">>}
Rest == {<<>>, <<"LF">>, <<"g", "CR", "LF", "CR", "LF">>,
         <<"x", "x", "x", "x", "x">>}

TestStreams ==
    {l \o e \o o \o f \o r : l \in Lines, e \in Eols, o \in Options, f \in Ends, r \in Rest}
TestLengths == {-1, 0, 1, 3}
=============================================================================
