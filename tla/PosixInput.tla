----------------------------- MODULE PosixInput -----------------------------
(***************************************************************************)
(* Keyboard input on Linux and macOS: PosixTerminal::readEvent() turns the *)
(* bytes of a terminal in raw mode into key events.                        *)
(*                                                                         *)
(* A call waits for a first byte, and after an escape byte for up to two   *)
(* more, each wait with a limit of its own.  Time passes in milliseconds   *)
(* while a wait finds nothing to read; a signal ends the wait.  A closed   *)
(* device is readable and gives the end of input, a broken one is readable *)
(* and gives errors.  With VMIN = 0 an open one can look like a closed one *)
(* for a while: a "dry" device is one whose input poll() still reports but *)
(* read() does not find, as when another process reads the terminal too.   *)
(*                                                                         *)
(* The keyboard and the device are external: which bytes a key sends, and  *)
(* when they arrive.  Bytes have the names of their ASCII characters.      *)
(***************************************************************************)
EXTENDS Integers, Sequences, SequencesExt

CONSTANTS
    TimeoutMs,          \* the wait of one readEvent(): kReadTimeoutMs of the input loop
    EscapeFollowUpMs,   \* kEscapeFollowUpMs
    Keys,               \* the keys that are pressed
    Faults,             \* what may happen to the device: "closed", "broken", "dry"
    MaxKeys, MaxSignals \* bounds: keys pressed, signals handled

ASSUME WaitsAssumption == TimeoutMs \in Nat \ {0} /\ EscapeFollowUpMs \in Nat \ {0}

VARIABLES
    together,   \* does a key's sequence arrive at once, and is Esc followed by a pause?
    stage,      \* "idle" between calls, else which byte the call waits for
    left,       \* milliseconds left of the wait
    elapsed,    \* milliseconds since the call began
    pending,    \* bytes that have arrived and are not read
    wire,       \* bytes of the last key that have not arrived
    device,     \* "open", "closed", "broken" or "dry"
    typed,      \* history: the keys pressed
    events,     \* history: the events delivered
    signals     \* history: the signals handled

vars == <<together, stage, left, elapsed, pending, wire, device, typed, events, signals>>

\* Bound: elapsed stops one past the longest call.
MaxElapsed == TimeoutMs + 2 * EscapeFollowUpMs + 1

caller == <<stage, left, elapsed, pending, events>>

----------------------------------------------------------------------------
\* What keys send, and what is expected of them.

KeyBytes ==
    [ x         |-> <<"x">>,
      Enter     |-> <<"CR">>,
      Backspace |-> <<"DEL">>,
      Tab       |-> <<"HT">>,
      CtrlA     |-> <<"SOH">>,
      CtrlC     |-> <<"ETX">>,
      CtrlD     |-> <<"EOT">>,
      Escape    |-> <<"ESC">>,
      ArrowUp   |-> <<"ESC", "[", "A">>,
      ArrowLeft |-> <<"ESC", "O", "D">>,
      Delete    |-> <<"ESC", "[", "3", "~">> ]

ASSUME KeysAssumption == Keys \subseteq DOMAIN KeyBytes

Printable == {"x", "[", "O", "A", "D", "3", "~"}

Typed(b) == [type |-> "Char", ch |-> b]
Special(type) == [type |-> type, ch |-> "0"]

\* The event of a key, or none for a control byte that is ignored.  Delete, like any
\* sequence of four bytes, is given up at its third, and the fourth is a character.
KeyEvent(k) ==
    CASE k = "x"               -> <<Typed("x")>>
      [] k = "CtrlA"           -> <<>>
      [] k \in {"CtrlC", "CtrlD"} -> <<Special("Eof")>>
      [] k = "Delete"          -> <<Special("Escape"), Typed("~")>>
      [] OTHER                 -> <<Special(k)>>

Ended == events # <<>> /\ Last(events).type = "Eof"

----------------------------------------------------------------------------
\* The outside world.

Press(k) ==
    /\ Len(typed) < MaxKeys /\ wire = <<>> /\ device = "open"
    /\ together /\ typed # <<>> /\ Last(typed) = "Escape" => stage = "idle" /\ pending = <<>>
    /\ typed' = Append(typed, k)
    /\ IF together THEN pending' = pending \o KeyBytes[k] /\ wire' = <<>>
                   ELSE wire' = KeyBytes[k] /\ UNCHANGED pending
    /\ UNCHANGED <<stage, left, elapsed, device, events, signals, together>>

Arrive ==
    /\ wire # <<>>
    /\ pending' = Append(pending, Head(wire))
    /\ wire' = Tail(wire)
    /\ UNCHANGED <<stage, left, elapsed, device, typed, events, signals, together>>

Fail(fault) ==
    /\ device = "open" /\ wire = <<>>
    /\ device' = fault
    /\ UNCHANGED <<caller, wire, typed, signals, together>>

\* A dry device gives input again.  (When the input has ended nobody reads it.)
Refill ==
    /\ device = "dry" /\ ~Ended
    /\ device' = "open"
    /\ UNCHANGED <<caller, wire, typed, signals, together>>

----------------------------------------------------------------------------
\* readByte(): poll() and one read().

Readable == pending # <<>> \/ device # "open"

BugWaitForAByte(s, limit) == stage' = s /\ left' = IF s = "first" THEN limit ELSE -1

\* A new wait of the call.
Await(s, limit) == stage' = s /\ left' = limit

Deliver(e) == stage' = "idle" /\ left' = 0 /\ events' = Append(events, e)

\* The call returns false.
ReturnNothing == stage' = "idle" /\ left' = 0 /\ UNCHANGED events

\* decodeEscape() gives up on the sequence.
GiveUp == Deliver(Special("Escape"))

\* What a wait that ended without a byte means.
NoByte == IF stage = "first" THEN ReturnNothing ELSE GiveUp

EndOfInput == IF stage = "first" THEN Deliver(Special("Eof")) ELSE GiveUp

\* poll() has waited as long as it may.
BugPollOnce ==
    /\ stage # "idle" /\ ~Readable
    /\ NoByte
    /\ UNCHANGED <<elapsed, pending, wire, device, typed, signals, together>>

BugTimeoutIsEof ==
    /\ stage # "idle" /\ ~Readable /\ left = 0
    /\ EndOfInput
    /\ UNCHANGED <<elapsed, pending, wire, device, typed, signals, together>>

TimeOut ==
    /\ stage # "idle" /\ ~Readable /\ left = 0
    /\ NoByte
    /\ UNCHANGED <<elapsed, pending, wire, device, typed, signals, together>>

\* poll() ends with EINTR.
BugRetryTheWait ==
    /\ stage # "idle" /\ ~Readable /\ signals < MaxSignals
    /\ signals' = signals + 1
    /\ left' = IF stage = "first" THEN TimeoutMs ELSE EscapeFollowUpMs
    /\ UNCHANGED <<stage, elapsed, events, pending, wire, device, typed, together>>

Interrupt ==
    /\ stage # "idle" /\ ~Readable /\ signals < MaxSignals
    /\ signals' = signals + 1
    /\ NoByte
    /\ UNCHANGED <<elapsed, pending, wire, device, typed, together>>

\* poll() reports input, read() fails.
ReadError ==
    /\ stage # "idle" /\ device = "broken"
    /\ NoByte
    /\ UNCHANGED <<elapsed, pending, wire, device, typed, signals, together>>

\* What gives a read() of no bytes.
Empty == device \in {"closed", "dry"}

\* poll() reports input, read() returns none.
ReadEof ==
    /\ stage # "idle" /\ pending = <<>> /\ Empty
    /\ EndOfInput
    /\ UNCHANGED <<elapsed, pending, wire, device, typed, signals, together>>

----------------------------------------------------------------------------
\* readEvent() and decodeEscape().

Call ==
    /\ stage = "idle" /\ ~Ended
    /\ Await("first", TimeoutMs)
    /\ elapsed' = 0
    /\ UNCHANGED <<pending, events, wire, device, typed, signals, together>>

Direct == [CR |-> "Enter", LF |-> "Enter", DEL |-> "Backspace", BS |-> "Backspace",
           HT |-> "Tab", EOT |-> "Eof", ETX |-> "Eof"]

Arrows == [A |-> "ArrowUp", B |-> "ArrowDown", C |-> "ArrowRight", D |-> "ArrowLeft"]

FirstByte(b) ==
    \/ b \in DOMAIN Direct /\ Deliver(Special(Direct[b]))
    \/ b = "ESC" /\ Await("second", EscapeFollowUpMs) /\ UNCHANGED events
    \/ b \in Printable /\ Deliver(Typed(b))
    \/ b \notin DOMAIN Direct \cup {"ESC"} \cup Printable /\ ReturnNothing

BugCsiOnly(b) ==
    \/ b = "[" /\ Await("final", EscapeFollowUpMs) /\ UNCHANGED events
    \/ b # "[" /\ GiveUp

SecondByte(b) ==
    \/ b \in {"[", "O"} /\ Await("final", EscapeFollowUpMs) /\ UNCHANGED events
    \/ b \notin {"[", "O"} /\ GiveUp

FinalByte(b) ==
    \/ b \in DOMAIN Arrows /\ Deliver(Special(Arrows[b]))
    \/ b \notin DOMAIN Arrows /\ GiveUp

ReadByte ==
    /\ pending # <<>> /\ device # "broken"
    /\ \/ stage = "first" /\ FirstByte(Head(pending))
       \/ stage = "second" /\ SecondByte(Head(pending))
       \/ stage = "final" /\ FinalByte(Head(pending))
    /\ pending' = Tail(pending)
    /\ UNCHANGED <<elapsed, wire, device, typed, signals, together>>

\* A millisecond of waiting.
Elapse ==
    /\ stage # "idle" /\ ~Readable /\ left # 0
    /\ left' = IF left > 0 THEN left - 1 ELSE left
    /\ elapsed' = IF elapsed < MaxElapsed THEN elapsed + 1 ELSE elapsed
    /\ UNCHANGED <<stage, pending, events, wire, device, typed, signals, together>>

----------------------------------------------------------------------------

Init ==
    /\ together \in BOOLEAN
    /\ stage = "idle" /\ left = 0 /\ elapsed = 0
    /\ pending = <<>> /\ wire = <<>> /\ device = "open"
    /\ typed = <<>> /\ events = <<>> /\ signals = 0

Reader == Call \/ ReadByte \/ TimeOut \/ ReadError \/ ReadEof

World == (\E k \in Keys : Press(k)) \/ Arrive \/ (\E f \in Faults : Fail(f)) \/ Refill \/ Interrupt

Next == Reader \/ Elapse \/ World

Spec == Init /\ [][Next]_vars

\* The input thread runs, or time passes in its wait; nothing is promised of the keyboard
\* or the device.
FairSpec == Spec /\ WF_vars(Reader \/ Elapse)

----------------------------------------------------------------------------
\* Properties.

\* When a key's sequence arrives at once and Esc is followed by a pause, every key
\* gives its event, once and in order, whatever was typed ahead and however waits
\* are interrupted; a device that is closed, or gives nothing where poll() reported
\* input, ends the input only after the last key, and never inside a sequence.  (A
\* sequence cut in two by more than EscapeFollowUpMs is Esc and characters.)
EventsAreKeys ==
    LET expected == FlattenSeq([i \in DOMAIN typed |-> KeyEvent(typed[i])])
        atEnd    == Empty /\ Ended /\ IsPrefix(events, Append(expected, Special("Eof")))
    IN  together /\ device # "broken" =>
            /\ IsPrefix(events, expected) \/ atEnd
            /\ stage = "idle" /\ pending = <<>> => events = expected \/ atEnd

\* However bytes arrive and signals interrupt, a call ends within its own wait and
\* two waits for the rest of an escape sequence.
CallIsBounded == elapsed <= TimeoutMs + 2 * EscapeFollowUpMs

\* The end of input is reported when somebody asked for it or a read() that poll() had
\* announced gave nothing: with VMIN = 0 only that poll() tells a quiet keyboard from a
\* closed one, and neither a wait that ran out, nor a signal, nor an error passes for
\* the end.  (A dry device does: the code cannot tell it from a closed one.)
EofMeansClosed == Ended => Empty \/ \E i \in DOMAIN typed : typed[i] \in {"CtrlC", "CtrlD"}

\* A call that has nothing to report and has read nothing took its time, or was
\* interrupted: the input loop waits, it does not spin.  (On a broken device it
\* does: a read error is answered like a wait that ran out, at once.)
IdleCallsWait ==
    [][ device # "broken" /\ stage # "idle" /\ stage' = "idle" /\ events' = events /\ pending' = pending
        => elapsed = TimeoutMs \/ signals' # signals ]_vars

\* An escape byte is not held back: with no byte after it the call still returns.
EscapeIsReleased == stage \in {"second", "final"} ~> stage = "idle"

=============================================================================
