--------------------------- MODULE MCConsoleApp ----------------------------
(* What the user of the whole program types: start the marquee, leave, or    *)
(* close the input.                                                          *)
EXTENDS ConsoleApp

MCLines == {<<"start_marquee">>, <<"exit">>}

MCKeys == {CharKey("start_marquee"), CharKey("exit"), Key("Enter"), Key("Eof")}

=============================================================================
