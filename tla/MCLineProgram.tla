---------------------------- MODULE MCLineProgram ----------------------------
(* Standard input: every command with no argument, an argument, or letters    *)
(* stuck to its name; texts that mix blanks, letters and an unprintable byte; *)
(* signed numbers on both sides of every limit.                               *)
(* Lines of config.txt and tokens of the command line, each with what it      *)
(* means: every kind of mistake, blanks in every place, values within, at and *)
(* beyond every limit.                                                        *)
EXTENDS LineProgram

Texts == BoundedSeq({Space, "x", "BEL"}, 2)
             \cup {<<"x", Space, "x">>, <<"x", "\t", "x">>, <<"\t", "x">>, <<"x", "CR">>, <<"x", "CR", "x">>}

Numbers == BoundedSeq({"0", "9", "-"}, 3)
             \cup {<<"9", Space, "9">>, <<"+", "9">>, <<"9", "9", "9", "9">>, <<"-", "9", "9", "9", "9">>}

MCLines == {<<c>> \o a : c \in {"help", "start_marquee", "stop_marquee", "exit", "x"},
                         a \in {<<>>, <<"\t">>, <<"CR">>, <<Space, "x">>, <<"x">>}}
      \cup {<<"set_text", Space>> \o t : t \in Texts}
      \cup {<<"\t", "set_speed", "\t">> \o n : n \in Numbers}
      \cup {<<>>, <<Space>>}

----------------------------------------------------------------------------

Means(key, value, texts) == {[text |-> t, key |-> key, value |-> value] : t \in texts}

MCConfigLines ==
    Means("refresh", 5, {<<"refresh_ms", "=", "5">>, <<Space, "refresh_ms", "\t", "=", Space, "5", Space>>,
                         <<"refresh_ms", "=", "+", "5">>})
    \cup Means("refresh", -9, {<<"refresh_ms", "=", "-", "9">>})
    \cup Means("poll", 7, {<<"polling_ms", "=", "7", "CR">>})
    \cup Means("poll", 99999, {<<"polling_ms", "=", "9", "9", "9", "9", "9">>})
    \cup Means("nothing", 0, {<<>>, <<Space, "\t">>, <<Space, "#", "refresh_ms", "=", "5">>})
    \cup Means("mistake", 0, {<<"refresh_ms">>, <<Space, "=", "5">>, <<"refresh_ms", "x", "=", "5">>,
                              <<"refresh_ms", "=", "5", "x">>, <<"polling_ms", "=">>,
                              <<"polling_ms", "=", "5", "=", "5">>})

MCOptions ==
    Means("refresh", 3, {<<"--refresh-ms", "=", "3">>})
    \cup Means("refresh", 13, {<<"--refresh-ms", "=", "1", "3">>})
    \cup Means("poll", 0, {<<"--poll-ms", "=", "0">>})
    \cup Means("poll", 8, {<<"--poll-ms", "=", "8">>})
    \cup Means("no tty", 0, {<<"--no-tty">>})
    \cup Means("mistake", 0, {<<"--refresh-ms">>, <<"--poll-ms">>, <<"8">>, <<"--poll-ms", "=">>,
                              <<"--refresh-ms", "=", Space, "3">>, <<"--no-tty", "=", "8">>, <<>>})

=============================================================================
