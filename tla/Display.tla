------------------------------ MODULE Display ------------------------------
(***************************************************************************)
(* What a Scheduler promises to those who use it, without threads, mutex,  *)
(* waits, terminal size or time: a display of a state that others change.  *)
(*                                                                         *)
(* A picture is taken of the state at one instant, and arrives later, as a *)
(* whole; or, on a console that may refuse bytes, it is garbled.  One      *)
(* picture at a time is on its way, so they arrive in the order taken.     *)
(* Every change is owed a picture, and the band that is part of the        *)
(* picture may move by one column when it is taken.  A display that is     *)
(* closed while it prepares a picture still takes it, and no other.        *)
(***************************************************************************)
EXTENDS Naturals

CONSTANTS
    Views,      \* what there can be to display
    Columns,    \* the positions of the band are 0 .. Columns - 1
    MayFail     \* whether a picture can arrive garbled

VARIABLES
    view,       \* what is to be displayed now
    position,   \* where the band is
    owed,       \* whether a picture of the present state is owed
    mode,       \* "open", "closing" or "closed"
    onItsWay,   \* the picture taken and not arrived
    shown       \* what the display shows

displayVars == <<view, position, owed, mode, onItsWay, shown>>

Nothing == [kind |-> "nothing"]
Garbled == [kind |-> "garbled"]

Picture(v, p) == [kind |-> "picture", view |-> v, position |-> p]

NextColumn(p) == IF p = Columns - 1 THEN 0 ELSE p + 1

Init ==
    /\ view \in Views /\ position = 0
    /\ owed = FALSE /\ mode = "closed"
    /\ onItsWay = Nothing /\ shown = Garbled

Change ==
    /\ view' \in Views
    /\ owed' = TRUE
    /\ UNCHANGED <<position, mode, onItsWay, shown>>

\* A picture is taken of what there is to see, and the debt is paid.
Take ==
    /\ mode # "closed" /\ onItsWay = Nothing
    /\ onItsWay' = Picture(view, position)
    /\ owed' = FALSE
    /\ mode' = IF mode = "open" THEN "open" ELSE "closed"
    /\ UNCHANGED <<view, shown>>

\* The picture that was owed.
Redraw == Take /\ owed /\ UNCHANGED position

\* The picture that moves the band, owed or not.
Render == Take /\ position' = NextColumn(position)

Arrive ==
    /\ onItsWay # Nothing
    /\ onItsWay' = Nothing
    /\ \/ shown' = onItsWay
       \/ MayFail /\ shown' = Garbled
    /\ UNCHANGED <<view, position, owed, mode>>

\* A picture shown by hand, while the display is closed.
ShowNow ==
    /\ mode = "closed" /\ onItsWay = Nothing
    /\ \/ shown' = Picture(view, position)
       \/ MayFail /\ shown' = Garbled
    /\ UNCHANGED <<view, position, owed, mode, onItsWay>>

Open  == mode = "closed" /\ mode' = "open" /\ UNCHANGED <<view, position, owed, onItsWay, shown>>
Close ==
    /\ \/ mode = "open" /\ mode' \in {"closing", "closed"}
       \/ mode = "closing" /\ mode' = "closed"
    /\ UNCHANGED <<view, position, owed, onItsWay, shown>>

Next == Change \/ Redraw \/ Render \/ Arrive \/ ShowNow \/ Open \/ Close

Spec == Init /\ [][Next]_displayVars

\* An open display pays its debts, what is on its way arrives, and closing ends.
Prompt ==
    /\ (owed /\ mode = "open") ~> (~ owed \/ mode # "open")
    /\ onItsWay # Nothing ~> onItsWay = Nothing
    /\ mode = "closing" ~> mode = "closed"

FairSpec == Spec /\ Prompt

=============================================================================
