---------------------------- MODULE Interpreter ----------------------------
(***************************************************************************)
(* The command interpreter and line editor, with the two objects its      *)
(* commands change: the runtime Parameters and the MarqueeProcess.  They   *)
(* are pure operators on one record "app"; a module that owns the state    *)
(* (PlainLineMode, Scheduler) decides when they run.                       *)
(*                                                                         *)
(* DATA.  A line is a sequence of symbols.  A symbol stands for a run of   *)
(* bytes the code never has to split: a command name, a digit, a blank, a  *)
(* letter, an unprintable byte.  A response is named by its kind; the     *)
(* numbers and names it quotes are left out.                               *)
(*                                                                         *)
(* A definition called Bug... is the one after it with a plausible mistake *)
(* in it, used only to see that a property catches the mistake.            *)
(***************************************************************************)
EXTENDS Integers, Sequences, FiniteSetsExt, SequencesExt

CONSTANTS
    Letters,       \* printable symbols that are neither command names nor digits
    Controls,      \* symbols that are not printable ASCII and not blank
    RefreshMin, RefreshMax,   \* Parameters::kRefreshMin, kRefreshMax
    IntMax,        \* the largest value of int
    Saturated,     \* the magnitude at which parseFullInteger stops counting
    DefaultRefreshMs          \* Parameters::refreshMs after the command line was read

CommandNames == {"help", "start_marquee", "stop_marquee", "set_text", "set_speed", "exit"}
DigitNames   == <<"0", "1", "2", "3", "4", "5", "6", "7", "8", "9">>
Signs        == {"+", "-"}
Space        == " "
\* isSpace(): the tab stands for the blanks that neither a text nor cli.cpp treats in a
\* way of their own; the carriage return is here a blank like them.
Blanks       == {Space, "\t", "CR"}
DefaultText  == <<"CSOPESY">>

Printable == CommandNames \cup Range(DigitNames) \cup Signs \cup {Space, "CSOPESY"} \cup Letters
Symbols   == Printable \cup Blanks \cup Controls

ASSUME RangesAssumption ==
    /\ RefreshMin \in Nat /\ RefreshMax \in Nat
    /\ 1 <= RefreshMin /\ RefreshMin < RefreshMax
    /\ DefaultRefreshMs \in RefreshMin .. RefreshMax

ASSUME WidthAssumption ==
    /\ IntMax \in Nat /\ Saturated \in Nat
    /\ RefreshMax < IntMax /\ IntMax + 1 < Saturated

ASSUME AlphabetAssumption ==
    /\ Controls \cap (CommandNames \cup Range(DigitNames) \cup Signs \cup Blanks \cup Letters) = {}
    /\ "CSOPESY" \notin Controls
    /\ Letters \cap (CommandNames \cup Range(DigitNames) \cup Signs \cup Blanks) = {}

Messages == {"none", "help", "started", "already running", "stopped", "not running",
             "usage", "text set", "text not ascii", "speed set", "speed clamped",
             "goodbye", "unknown"}

ProcessState == {"Stopped", "Running"}

\* Interpreter::line_, message_, quit_; Parameters::text, refreshMs;
\* MarqueeProcess::state, hasRendered.
App == [line : Seq(Printable), message : Messages, quit : BOOLEAN,
        text : Seq(Printable), refreshMs : RefreshMin .. RefreshMax,
        state : ProcessState, hasRendered : BOOLEAN]

InitialApp == [line |-> <<>>, message |-> "none", quit |-> FALSE,
               text |-> DefaultText, refreshMs |-> DefaultRefreshMs,
               state |-> "Stopped", hasRendered |-> FALSE]

----------------------------------------------------------------------------
\* Strings.

\* trim(): s without the symbols of "drop" at either end.
Trim(s, drop) ==
    LET kept == {i \in DOMAIN s : s[i] \notin drop}
    IN  IF kept = {} THEN <<>> ELSE SubSeq(s, Min(kept), Max(kept))

\* line.find_first_of(blanks), Len(line) + 1 standing for npos.
FirstBlank(line) == Min({i \in DOMAIN line : line[i] \in Blanks} \cup {Len(line) + 1})

CommandOf(line)  == SubSeq(line, 1, FirstBlank(line) - 1)
ArgumentOf(line) == Trim(SubSeq(line, FirstBlank(line), Len(line)), Blanks)

----------------------------------------------------------------------------
\* parseFullInteger().  NotANumber, no value of int, stands for the result false.

NotANumber == IntMax + 1

DigitValue(d) == CHOOSE n \in 0 .. 9 : DigitNames[n + 1] = d

BugDigitsWrap(mag, d) == (mag * 10 + DigitValue(d)) % (IntMax + 1)

\* One turn of the loop: the magnitude sticks at Saturated instead of wrapping.
AddDigit(mag, d) ==
    IF mag > (Saturated - DigitValue(d)) \div 10 THEN Saturated ELSE mag * 10 + DigitValue(d)

ToInt(negative, mag) ==
    IF negative THEN (IF mag >= IntMax + 1 THEN -IntMax - 1 ELSE -mag)
                ELSE (IF mag > IntMax THEN IntMax ELSE mag)

\* The loop: the magnitude after the first n digits, up to the last.
Magnitude(digits) ==
    LET mag[n \in 0 .. Len(digits)] == IF n = 0 THEN 0 ELSE AddDigit(mag[n - 1], digits[n])
    IN  mag[Len(digits)]

ParseFullInteger(s) ==
    LET signed == s # <<>> /\ s[1] \in Signs
        digits == IF signed THEN Tail(s) ELSE s
    IN  IF digits = <<>> \/ ~ (Range(digits) \subseteq Range(DigitNames)) THEN NotANumber
        ELSE ToInt(signed /\ s[1] = "-", Magnitude(digits))

----------------------------------------------------------------------------
\* Parameters.

BugNoLowerLimit(ms) == IF ms > RefreshMax THEN RefreshMax ELSE ms

\* setRefresh(): the value applied, the requested one clamped to its range.
ClampRefresh(ms) == IF ms \in RefreshMin .. RefreshMax THEN ms
                    ELSE IF ms < RefreshMin THEN RefreshMin ELSE RefreshMax

BugAnyByte(app, t) ==
    LET trimmed == Trim(t, {Space})
    IN  IF trimmed = <<>> THEN [app EXCEPT !.message = "usage"]
        ELSE [app EXCEPT !.text = trimmed, !.message = "text set"]

BugAssignThenCheck(app, t) ==
    LET trimmed == Trim(t, {Space})
    IN  IF trimmed = <<>> THEN [app EXCEPT !.message = "usage"]
        ELSE [app EXCEPT !.text = trimmed,
                         !.message = IF Range(trimmed) \subseteq Printable THEN "text set" ELSE "text not ascii"]

\* setText(): only spaces are trimmed, and one unprintable byte rejects the text.
SetText(app, t) ==
    LET trimmed == Trim(t, {Space})
    IN  IF trimmed = <<>> THEN [app EXCEPT !.message = "usage"]
        ELSE IF ~ (Range(trimmed) \subseteq Printable) THEN [app EXCEPT !.message = "text not ascii"]
        ELSE [app EXCEPT !.text = trimmed, !.message = "text set"]

----------------------------------------------------------------------------
\* MarqueeProcess.  start() forgets that a frame was ever rendered, so that the
\* next tick draws one at once; a start of a running process changes nothing.

ProcStart(app) ==
    IF app.state = "Running" THEN [app EXCEPT !.message = "already running"]
    ELSE [app EXCEPT !.state = "Running", !.hasRendered = FALSE, !.message = "started"]

ProcStop(app) ==
    IF app.state = "Stopped" THEN [app EXCEPT !.message = "not running"]
    ELSE [app EXCEPT !.state = "Stopped", !.message = "stopped"]

----------------------------------------------------------------------------
\* Commands.

SetTextCommand(app, arg) ==
    IF arg = <<>> THEN [app EXCEPT !.message = "usage"] ELSE SetText(app, arg)

SetSpeedCommand(app, arg) ==
    LET requested == ParseFullInteger(arg)
        applied   == ClampRefresh(requested)
    IN  IF requested = NotANumber THEN [app EXCEPT !.message = "usage"]
        ELSE [app EXCEPT !.refreshMs = applied,
                         !.message = IF applied = requested THEN "speed set" ELSE "speed clamped"]

TakesNoArgument == {<<"help">>, <<"start_marquee">>, <<"stop_marquee">>, <<"exit">>}

RunCommand(app, cmd, arg) ==
    CASE cmd \in TakesNoArgument /\ arg # <<>> -> [app EXCEPT !.message = "usage"]
      [] cmd = <<"help">> /\ arg = <<>>          -> [app EXCEPT !.message = "help"]
      [] cmd = <<"start_marquee">> /\ arg = <<>> -> ProcStart(app)
      [] cmd = <<"stop_marquee">> /\ arg = <<>>  -> ProcStop(app)
      [] cmd = <<"exit">> /\ arg = <<>>          -> [app EXCEPT !.quit = TRUE, !.message = "goodbye"]
      [] cmd = <<"set_text">>                    -> SetTextCommand(app, arg)
      [] cmd = <<"set_speed">>                   -> SetSpeedCommand(app, arg)
      [] OTHER                                   -> [app EXCEPT !.message = "unknown"]

ExecuteLine(app, raw) ==
    LET line == Trim(raw, Blanks)
    IN  IF line = <<>> THEN [app EXCEPT !.message = "none"]
        ELSE RunCommand(app, CommandOf(line), ArgumentOf(line))

----------------------------------------------------------------------------
\* The line editor.  A key event has a type and, when it is a Char, a symbol.

CharKey(c) == [type |-> "Char", ch |-> c]
Key(type)  == [type |-> type, ch |-> Space]

EditingKeys == {"Enter", "Backspace", "Eof"}
IgnoredKeys == {"Tab", "Escape", "ArrowUp", "ArrowDown", "ArrowRight", "ArrowLeft"}

KeyEvents == {CharKey(c) : c \in Printable} \cup {Key(t) : t \in EditingKeys \cup IgnoredKeys}

Submit(app) == ExecuteLine([app EXCEPT !.line = <<>>], app.line)

Feed(app, ev) ==
    CASE ev.type = "Char"      -> IF ev.ch \in Printable THEN [app EXCEPT !.line = Append(@, ev.ch)] ELSE app
      [] ev.type = "Backspace" -> IF app.line = <<>> THEN app ELSE [app EXCEPT !.line = Front(@)]
      [] ev.type = "Enter"     -> Submit(app)
      [] ev.type = "Eof"       -> [Submit(app) EXCEPT !.quit = TRUE]
      [] OTHER                 -> app

=============================================================================
