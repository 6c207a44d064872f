-------------------------------- MODULE Cli --------------------------------
(***************************************************************************)
(* The start of the program: the parameters from the built-in defaults,    *)
(* config.txt and the command line, in this order.                         *)
(*                                                                         *)
(* The inputs are lines of the file and tokens of the command line.  Each  *)
(* is a record: its text, a sequence of symbols as in Interpreter, and     *)
(* what it means to the person who wrote it (key and value), which only    *)
(* the properties read.  A warning is named by its kind.                   *)
(***************************************************************************)
EXTENDS Interpreter, FiniteSets

CONSTANTS
    PollMin, PollMax,           \* Parameters::kPollMin, kPollMax
    BuiltInRefreshMs, BuiltInPollingMs,
    ConfigLines, Options,       \* the lines and tokens there may be
    MaxLines, MaxOptions        \* bounds: how many there are

ASSUME StartAssumption ==
    /\ PollMin \in Nat /\ PollMax \in Nat /\ 1 <= PollMin /\ PollMin < PollMax
    /\ BuiltInRefreshMs \in RefreshMin .. RefreshMax
    /\ BuiltInPollingMs \in PollMin .. PollMax

VARIABLES
    params,     \* result.params: [refreshMs, pollingMs, noTty]
    warnings,   \* result.warnings
    file, args, \* what is left to read; the empty file stands for a missing one too
    crlf,       \* does the file have CRLF line endings?
    given       \* history: what was read, [lines, options]

cliVars == <<params, warnings, file, args, crlf, given>>

BuiltIn == [refreshMs |-> BuiltInRefreshMs, pollingMs |-> BuiltInPollingMs, noTty |-> FALSE]

----------------------------------------------------------------------------
\* Values.

BugNoUpperPollLimit(ms) == IF ms < PollMin THEN PollMin ELSE ms

\* setPolling(): the value applied.
ClampPolling(ms) == IF ms \in PollMin .. PollMax THEN ms
                    ELSE IF ms < PollMin THEN PollMin ELSE PollMax

Clamp(field, ms) == IF field = "refreshMs" THEN ClampRefresh(ms) ELSE ClampPolling(ms)

\* wellFormedInteger() and saturateToInt() compute what parseFullInteger() does.
IntegerOf(raw) == ParseFullInteger(raw)

Warn(kind) == warnings' = Append(warnings, kind)

BugSilentClamp(field, raw) ==
    LET requested == IntegerOf(raw)
    IN  IF requested = NotANumber THEN Warn("not a number") /\ UNCHANGED params
        ELSE params' = [params EXCEPT ![field] = Clamp(field, requested)] /\ UNCHANGED warnings

ApplyValueFlag(field, raw) ==
    LET requested == IntegerOf(raw)
        applied   == Clamp(field, requested)
    IN  IF requested = NotANumber THEN Warn("not a number") /\ UNCHANGED params
        ELSE /\ params' = [params EXCEPT ![field] = applied]
             /\ IF applied = requested THEN UNCHANGED warnings ELSE Warn("clamped")

----------------------------------------------------------------------------
\* loadConfigFile().

\* The blanks before a key or a value; a carriage return is one only at the end.
LeadingBlanks == {Space, "\t"}

\* trim() of cli.cpp, which is not that of the interpreter.
TrimLine(s) ==
    LET from == Min({i \in DOMAIN s : s[i] \notin LeadingBlanks} \cup {Len(s) + 1})
        upTo == Max({i \in from .. Len(s) : s[i] \notin LeadingBlanks \cup {"CR"}} \cup {from - 1})
    IN  SubSeq(s, from, upTo)

FieldOfKey(key) ==
    CASE key = <<"refresh_ms">> -> "refreshMs" [] key = <<"polling_ms">> -> "pollingMs" [] OTHER -> "none"

\* One line of the file, without its line feed.
ReadConfigLine ==
    /\ file # <<>>
    /\ LET line  == TrimLine(Head(file).text \o (IF crlf THEN <<"CR">> ELSE <<>>))
           eq    == Min({i \in DOMAIN line : line[i] = "="} \cup {Len(line) + 1})
           key   == TrimLine(SubSeq(line, 1, eq - 1))
           value == TrimLine(SubSeq(line, eq + 1, Len(line)))
       IN  IF line = <<>> \/ line[1] = "#" THEN UNCHANGED <<params, warnings>>
           ELSE IF eq > Len(line) \/ key = <<>> THEN Warn("malformed line") /\ UNCHANGED params
           ELSE IF FieldOfKey(key) = "none" THEN Warn("unknown key") /\ UNCHANGED params
           ELSE ApplyValueFlag(FieldOfKey(key), value)
    /\ given' = [given EXCEPT !.lines = Append(@, Head(file))]
    /\ file' = Tail(file)
    /\ UNCHANGED <<args, crlf>>

----------------------------------------------------------------------------
\* parseCli().

BugOptionsAnyTime == args # <<>>

\* The file is read before the first option.
OptionsAreDue == file = <<>> /\ args # <<>>

FieldOfOption(token) ==
    IF Len(token) < 2 \/ token[2] # "=" THEN "none"
    ELSE CASE token[1] = "--refresh-ms" -> "refreshMs" [] token[1] = "--poll-ms" -> "pollingMs"
           [] OTHER -> "none"

ReadOption ==
    /\ OptionsAreDue
    /\ LET token == Head(args).text
       IN  IF token = <<"--no-tty">> THEN params' = [params EXCEPT !.noTty = TRUE] /\ UNCHANGED warnings
           ELSE IF FieldOfOption(token) # "none"
                THEN ApplyValueFlag(FieldOfOption(token), SubSeq(token, 3, Len(token)))
           ELSE IF token \in {<<"--refresh-ms">>, <<"--poll-ms">>} THEN Warn("missing value") /\ UNCHANGED params
           ELSE Warn("unknown option") /\ UNCHANGED params
    /\ given' = [given EXCEPT !.options = Append(@, Head(args))]
    /\ args' = Tail(args)
    /\ UNCHANGED <<file, crlf>>

CliInit ==
    /\ params = BuiltIn /\ warnings = <<>> /\ given = [lines |-> <<>>, options |-> <<>>]
    /\ file \in BoundedSeq(ConfigLines, MaxLines)
    /\ args \in BoundedSeq(Options, MaxOptions)
    /\ crlf \in BOOLEAN

CliNext == ReadConfigLine \/ ReadOption

----------------------------------------------------------------------------
\* Properties.

\* What starts the program is drawable and finite: every parameter in its range.
CliTypeOK ==
    /\ params \in [refreshMs : RefreshMin .. RefreshMax, pollingMs : PollMin .. PollMax, noTty : BOOLEAN]
    /\ Range(warnings) \subseteq
           {"not a number", "clamped", "malformed line", "unknown key", "missing value", "unknown option"}

Nearest(n, low, high) == IF n < low THEN low ELSE IF n > high THEN high ELSE n

\* What was read, what wins last.
Given == given.lines \o given.options

\* cli.hpp:1-13: an option wins over the file and the file over the default, the
\* last value wins among equals, and a value that is no number, a missing one, or
\* a line or option nobody knows changes nothing.  Blanks, comments and CRLF make
\* no difference, and a value beyond its range gives the nearest one.
LastValueWins ==
    file = <<>> /\ args = <<>> =>
        LET Of(key) == {i \in DOMAIN Given : Given[i].key = key}
            Value(key, default, low, high) ==
                IF Of(key) = {} THEN default ELSE Nearest(Given[Max(Of(key))].value, low, high)
        IN  /\ params.refreshMs = Value("refresh", BuiltInRefreshMs, RefreshMin, RefreshMax)
            /\ params.pollingMs = Value("poll", BuiltInPollingMs, PollMin, PollMax)
            /\ params.noTty = (Of("no tty") # {})

\* cli.hpp:22: one warning for each line or option that is not taken as it is
\* written, in their order, and none for the others.
EveryProblemIsReported ==
    LET Problem(g) ==
            \/ g.key = "mistake"
            \/ g.key = "refresh" /\ g.value \notin RefreshMin .. RefreshMax
            \/ g.key = "poll" /\ g.value \notin PollMin .. PollMax
    IN  Len(warnings) = Cardinality({i \in DOMAIN Given : Problem(Given[i])})

=============================================================================
