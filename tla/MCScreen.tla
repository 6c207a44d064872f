------------------------------ MODULE MCScreen ------------------------------
(* Terminals from a single cell to one that holds everything, and what is     *)
(* drawn on them: messages of no, one and several lines, typed lines shorter  *)
(* and longer than the prompt row, and a text through all its positions.      *)
EXTENDS Screen

MCSizes == {[rows |-> s[1], cols |-> s[2]] :
               s \in {<<1, 3>>, <<2, 6>>, <<4, 1>>, <<6, 2>>, <<10, 6>>}}

MCDevelopers == << <<"d">> >>
MCTitle      == <<"W", "w">>
MCHeading    == <<"G">>
MCVersion    == <<"V", "v">>
MCPrompt     == <<">">>

Messages == {<<>>, <<"m">>, <<"m", "/", "/", "n">>, <<"m", "m", "m", "m", "m", "m", "m", "/", "n">>,
             <<"1", "/", "2", "/", "3", "/", "4", "/", "5", "/", "6", "/", "7">>}
Buffers  == {<<>>, <<"x">>, <<"x", "y", "x", "y", "z">>}

Show(text, cycles, buffer, message) ==
    [text |-> text, cycles |-> cycles, buffer |-> buffer, message |-> message]

MCDisplays == {Show(<<"a", "b">>, 3, b, <<"m">>) : b \in Buffers}
                \cup {Show(<<"a", "b">>, 3, <<"x">>, m) : m \in Messages}
                \cup {Show(t, c, <<>>, <<"m">>) : t \in {<<"a", "b">>, <<"c">>}, c \in 0 .. 6}

\* Dropped part way: many lines of messages.
MCPartial == {Show(<<"a", "b">>, 3, <<"x">>, <<"1", "/", "2", "/", "3", "/", "4", "/", "5", "/", "6", "/", "7">>)}

=============================================================================
