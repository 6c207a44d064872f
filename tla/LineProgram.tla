---------------------------- MODULE LineProgram ----------------------------
(***************************************************************************)
(* The whole program when standard input or output is no terminal, or with *)
(* --no-tty: main() reads config.txt and the command line (Cli), prints    *)
(* the warnings and runs the plain line mode (PlainLineMode) with the      *)
(* parameters it has.                                                      *)
(***************************************************************************)
EXTENDS PlainLineMode, Cli

\* The command line is parsed as long as the line mode has not begun.
Configure == pc = "start" /\ CliNext /\ UNCHANGED vars

\* ConsoleApp::run() calls runPlainLineMode().  The warnings are printed, and of the
\* parameters only the period is still used, from "app": the rest is forgotten.
RunPlainLineMode ==
    /\ pc = "start" /\ file = <<>> /\ args = <<>>
    /\ Begin(params.refreshMs)
    /\ params' = BuiltIn /\ warnings' = <<>> /\ given' = [lines |-> <<>>, options |-> <<>>] /\ crlf' = FALSE
    /\ UNCHANGED <<file, args>>

ProgramInit == Init /\ CliInit

ProgramNext ==
    \/ Configure
    \/ RunPlainLineMode
    \/ (\E l \in Lines : ReadLine(l)) /\ UNCHANGED cliVars
    \/ EndOfInput /\ UNCHANGED cliVars

ProgramSpec == ProgramInit /\ [][ProgramNext]_<<vars, cliVars>>

----------------------------------------------------------------------------

\* Every parameter is in its range, from the built-in defaults through the file, the
\* options and the commands (parameters.cpp setRefresh, setPolling, setText).
ProgramTypeOK == TypeOK /\ CliTypeOK

----------------------------------------------------------------------------
\* How the lines of config.txt and the options are written: a reading of their text
\* that does not go through the parser.  What LastValueWins and
\* EveryProblemIsReported take a line or an option to mean is what it says here.

IsInteger(s) ==
    LET digits == IF s # <<>> /\ s[1] \in Signs THEN Tail(s) ELSE s
    IN  digits # <<>> /\ Range(digits) \subseteq Range(DigitNames)

Filler == LeadingBlanks \cup {"CR"}

\* t is the name at k, the equals sign at e and an integer from a to b, with nothing
\* but blanks before, between and after them; carriage returns may end a part.
IsSetting(t, name, k, e, a, b) ==
    /\ k < e /\ e < a /\ a <= b
    /\ t[k] = name /\ t[e] = "=" /\ IsInteger(SubSeq(t, a, b))
    /\ \A i \in DOMAIN t :
          /\ i < k \/ (e < i /\ i < a) => t[i] \in LeadingBlanks
          /\ (k < i /\ i < e) \/ b < i => t[i] \in Filler

Sets(t, name, n) ==
    \E k, e, a, b \in DOMAIN t : IsSetting(t, name, k, e, a, b) /\ n = Spoken(SubSeq(t, a, b))

SetsNothing(t, name) == \A k, e, a, b \in DOMAIN t : ~ IsSetting(t, name, k, e, a, b)

\* A line of blanks, and a comment.
SaysNothing(t) ==
    \/ Range(t) \subseteq Filler
    \/ \E i \in DOMAIN t : t[i] = "#" /\ \A j \in 1 .. i - 1 : t[j] \in LeadingBlanks

\* An option that is a name, the equals sign and an integer.
IsOption(t, name) ==
    /\ Len(t) >= 2 /\ t[1] = name /\ t[2] = "="
    /\ IsInteger(SubSeq(t, 3, Len(t)))

OptionSets(t, name, n) == IsOption(t, name) /\ n = Spoken(SubSeq(t, 3, Len(t)))

IsLine(g) ==
    /\ g.text \in Seq(Range(g.text))
    /\ \/ g.key = "refresh" /\ Sets(g.text, "refresh_ms", g.value)
       \/ g.key = "poll" /\ Sets(g.text, "polling_ms", g.value)
       \/ g.key = "nothing" /\ SaysNothing(g.text)
       \/ /\ g.key = "mistake" /\ ~ SaysNothing(g.text)
          /\ SetsNothing(g.text, "refresh_ms") /\ SetsNothing(g.text, "polling_ms")

IsToken(g) ==
    /\ g.text \in Seq(Range(g.text))
    /\ \/ g.key = "refresh" /\ OptionSets(g.text, "--refresh-ms", g.value)
       \/ g.key = "poll" /\ OptionSets(g.text, "--poll-ms", g.value)
       \/ g.key = "no tty" /\ g.text = <<"--no-tty">>
       \/ /\ g.key = "mistake" /\ g.text # <<"--no-tty">>
          /\ ~ IsOption(g.text, "--refresh-ms") /\ ~ IsOption(g.text, "--poll-ms")

ASSUME MeaningAssumption ==
    /\ \A g \in ConfigLines : IsLine(g)
    /\ \A g \in Options : IsToken(g)
    /\ PollMax < IntMax

=============================================================================
