---------------------------- MODULE MCScheduler ----------------------------
(* What is typed in the runs of the scheduler.  A word takes one key, so a   *)
(* command of n words and blanks takes n keys and Enter.                     *)
EXTENDS Scheduler

Beginnings(lines) == UNION {Prefixes(l) : l \in lines} \ {<<>>}

Typing(lines) == {CharKey(c) : c \in UNION {Range(l) : l \in lines}} \cup {Key("Enter")}

\* Only ever start the marquee.
StartLines == {<<"start_marquee">>}
StartKeys  == Typing(StartLines)

\* Start and stop it in any order, with and without corrections.
ToggleLines == {<<"start_marquee">>, <<"stop_marquee">>}
ToggleKeys  == Typing(ToggleLines)
EditKeys    == ToggleKeys \cup {Key("Backspace"), Key("Tab")}

\* Start it and set the period to 1, or to more than the greatest period.
SpeedLines == Beginnings({<<"start_marquee">>, <<"set_speed", Space, "1">>, <<"set_speed", Space, "9">>})
SpeedKeys  == Typing(SpeedLines)

\* Start it and make its period shorter, down to the least one.
FasterLines == StartLines \cup Beginnings({<<"set_speed", Space, "0">>})
FasterKeys  == Typing(FasterLines)

=============================================================================
