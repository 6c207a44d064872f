--------------------------- MODULE PlainLineMode ---------------------------
(***************************************************************************)
(* runPlainLineMode(): no raw mode, no worker; one thread reads a line,    *)
(* executes it, prints the response and stops at "exit" or at the end of   *)
(* the input.  It is also where lines the raw line editor cannot produce   *)
(* (tabs, unprintable bytes) reach the interpreter.                        *)
(***************************************************************************)
EXTENDS Interpreter

CONSTANT Lines      \* the lines standard input may hold

ASSUME LinesAssumption == Lines \subseteq Seq(Symbols)

VARIABLES
    app,        \* interp, params and proc
    pc,         \* "start" before the call, "read" inside the loop, "done" after it
    line,       \* the last line read
    response    \* what the last line printed: the kind of its message

vars == <<app, pc, line, response>>

TypeOK ==
    /\ app \in App
    /\ pc \in {"start", "read", "done"}
    /\ line \in Lines \cup {<<>>}
    /\ response \in Messages

Init ==
    /\ app = InitialApp
    /\ pc = "start"
    /\ line = <<>>
    /\ response = "none"

\* The call, with the refresh period the start of the program has decided on.
Begin(refreshMs) ==
    /\ pc = "start"
    /\ pc' = "read"
    /\ app' = [app EXCEPT !.refreshMs = refreshMs]
    /\ UNCHANGED <<line, response>>

\* getline() succeeded: lines 28 to 34.
ReadLine(l) ==
    /\ pc = "read"
    /\ line' = l
    /\ app' = ExecuteLine(app, l)
    /\ response' = app'.message
    /\ pc' = IF app'.quit THEN "done" ELSE "read"

\* getline() failed.
EndOfInput ==
    /\ pc = "read"
    /\ pc' = "done"
    /\ UNCHANGED <<app, line, response>>

Next ==
    \/ \E refreshMs \in RefreshMin .. RefreshMax : Begin(refreshMs)
    \/ \E l \in Lines : ReadLine(l)
    \/ EndOfInput

Spec == Init /\ [][Next]_vars

----------------------------------------------------------------------------
\* Properties.

\* A response that reports an error or a refusal was printed by a command that
\* changed nothing: executeLine() validates before it assigns, for every command
\* (text, speed, process state, the owed first frame, and the quit flag).
RejectedLineChangesNothing ==
    [][ pc = "read" /\ response' \in {"none", "usage", "text not ascii", "unknown", "already running", "not running"}
        => [app' EXCEPT !.message = "none"] = [app EXCEPT !.message = "none"] ]_vars

\* The marquee text can always be drawn one byte per column: setText() never
\* stores a text that is empty, has a blank at an end, or holds an unprintable
\* byte, however the blanks of the line were mixed.
TextIsDrawable ==
    /\ app.text # <<>>
    /\ Range(app.text) \subseteq Printable
    /\ app.text[1] \notin Blanks /\ app.text[Len(app.text)] \notin Blanks

\* The number a line of digits denotes, by place value and without saturation.
PlaceValue(digits) ==
    LET place[k \in 0 .. Len(digits)] == IF k = 0 THEN 1 ELSE 10 * place[k - 1]
        sum[n \in 0 .. Len(digits)] ==
            IF n = 0 THEN 0 ELSE sum[n - 1] + DigitValue(digits[n]) * place[Len(digits) - n]
    IN  sum[Len(digits)]

Spoken(arg) == IF arg[1] = "-" THEN -PlaceValue(Tail(arg))
               ELSE IF arg[1] = "+" THEN PlaceValue(Tail(arg)) ELSE PlaceValue(arg)

\* set_speed applies the value in [RefreshMin, RefreshMax] nearest to the number
\* that was typed, and says "clamped" exactly when they differ, also for digit
\* strings whose value overflows int and saturates inside parseFullInteger().
SpeedIsNearestToTheNumber ==
    response \in {"speed set", "speed clamped"} =>
        LET n == Spoken(ArgumentOf(Trim(line, Blanks)))
        IN  /\ (response = "speed set") <=> (n = app.refreshMs)
            /\ n > app.refreshMs => app.refreshMs = RefreshMax
            /\ n < app.refreshMs => app.refreshMs = RefreshMin

=============================================================================
