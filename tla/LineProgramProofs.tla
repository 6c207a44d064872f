------------------------- MODULE LineProgramProofs -------------------------
(***************************************************************************)
(* The program without a terminal, for every file, every command line,     *)
(* every set of lines standard input may hold and every range of the       *)
(* parameters: the plain line mode, the parser of integers, and what the   *)
(* start of the program hands to the line mode.                            *)
(***************************************************************************)
EXTENDS LineProgram, InterpreterProofs, FiniteSetTheorems

----------------------------------------------------------------------------
(***************************************************************************)
(* PlainLineMode.                                                          *)
(***************************************************************************)

----------------------------------------------------------------------------
\* Type correctness.

LEMMA InitialAppIsAnApp == InitialApp \in App
<1>1. DefaultText \in Seq(Printable) /\ <<>> \in Seq(Printable)
  <2>1. "CSOPESY" \in Printable
        BY DEF Printable
  <2>. QED  BY <2>1, EmptySeq DEF DefaultText
<1>. QED  BY <1>1, RangesAssumption DEF InitialApp, App, Messages, ProcessState

\* Every line, with any mixture of blanks and unprintable bytes, leaves a well
\* formed state: a text of printable symbols and a period within its range
\* (console_app.cpp runPlainLineMode, interpreter.cpp executeLine).
THEOREM PlainTypeCorrect == Spec => []TypeOK
<1>1. Init => TypeOK
      BY InitialAppIsAnApp DEF Init, TypeOK, Messages
<1>2. TypeOK /\ [Next]_vars => TypeOK'
  <2> SUFFICES ASSUME TypeOK, [Next]_vars PROVE TypeOK'
      OBVIOUS
  <2>1. ASSUME NEW l \in Lines, ReadLine(l)
        PROVE  TypeOK'
    <3>1. app' \in App
          BY <2>1, LinesAssumption, ExecuteLineType DEF ReadLine, TypeOK
    <3>2. response' \in Messages
          BY <2>1, <3>1 DEF ReadLine, App
    <3>. QED  BY <2>1, <3>1, <3>2 DEF ReadLine, TypeOK
  <2>2. CASE EndOfInput \/ UNCHANGED vars
        BY <2>2 DEF EndOfInput, vars, TypeOK
  <2>3. ASSUME NEW ms \in RefreshMin .. RefreshMax, Begin(ms)
        PROVE  TypeOK'
    <3>1. app' \in App
          BY <2>3 DEF Begin, TypeOK, App
    <3>. QED  BY <2>3, <3>1 DEF Begin, TypeOK
  <2>. QED  BY <2>1, <2>2, <2>3 DEF Next
<1>. QED  BY <1>1, <1>2, PTL DEF Spec

----------------------------------------------------------------------------
\* The text.

Drawable(text) ==
    /\ text # <<>>
    /\ Range(text) \subseteq Printable
    /\ text[1] \notin Blanks /\ text[Len(text)] \notin Blanks

LEMMA OtherBlanksAreNotPrintable == ASSUME NEW b \in Blanks \ {Space} PROVE b \notin Printable
<1>0. b \in {"\t", "CR"}
      BY DEF Blanks
<1>1. b \notin CommandNames \cup Signs \cup {Space, "CSOPESY"}
      BY <1>0 DEF CommandNames, Signs, Space
<1>2. b \notin Range(DigitNames)
  <2>1. \A d \in Range(DigitNames) : d \in {"0", "1", "2", "3", "4", "5", "6", "7", "8", "9"}
        BY DEF Range, DigitNames
  <2>. QED  BY <1>0, <2>1
<1>3. b \notin Letters
      BY AlphabetAssumption
<1>. QED  BY <1>1, <1>2, <1>3 DEF Printable

\* setText() trims only spaces, and that suffices: a text with another blank is refused.
LEMMA SetTextIsDrawable ==
    ASSUME NEW a \in App, NEW t \in Seq(Symbols), Drawable(a.text)
    PROVE  Drawable(SetText(a, t).text)
<1> DEFINE trimmed == Trim(t, {Space})
<1>1. trimmed \in Seq(Symbols) /\ (trimmed # <<>> => trimmed[1] # Space /\ trimmed[Len(trimmed)] # Space)
      BY TrimProperties
<1>2. ASSUME trimmed # <<>>, Range(trimmed) \subseteq Printable
      PROVE  Drawable(trimmed)
  <2> HIDE DEF trimmed
  <2>1. Len(trimmed) \in Nat \ {0} /\ DOMAIN trimmed = 1 .. Len(trimmed)
        BY <1>1, <1>2, EmptySeq, LenProperties
  <2>2. trimmed[1] \in Printable /\ trimmed[Len(trimmed)] \in Printable
        BY <1>2, <2>1 DEF Range
  <2>. QED  BY <1>1, <1>2, <2>2, OtherBlanksAreNotPrintable DEF Drawable
<1>3. SetText(a, t).text = a.text \/ (trimmed # <<>> /\ Range(trimmed) \subseteq Printable /\ SetText(a, t).text = trimmed)
      BY DEF SetText, App
<1> HIDE DEF trimmed
<1>. QED  BY <1>2, <1>3

LEMMA RunCommandIsDrawable ==
    ASSUME NEW a \in App, NEW cmd, NEW arg \in Seq(Symbols), Drawable(a.text)
    PROVE  Drawable(RunCommand(a, cmd, arg).text)
<1>1. Drawable(SetTextCommand(a, arg).text)
      BY SetTextIsDrawable DEF SetTextCommand, App
<1>2. SetSpeedCommand(a, arg).text = a.text
      BY DEF SetSpeedCommand, App
<1>3. ProcStart(a).text = a.text /\ ProcStop(a).text = a.text
      BY DEF ProcStart, ProcStop, App
<1>4. /\ \A m : [a EXCEPT !.message = m].text = a.text
      /\ [a EXCEPT !.quit = TRUE, !.message = "goodbye"].text = a.text
      BY DEF App
<1>. QED  BY <1>1, <1>2, <1>3, <1>4 DEF RunCommand

LEMMA DefaultIsDrawable == Drawable(DefaultText)
<1>1. Range(DefaultText) = {"CSOPESY"} /\ Len(DefaultText) = 1 /\ DefaultText[1] = "CSOPESY"
      BY DEF DefaultText, Range
<1>2. "CSOPESY" \in Printable /\ "CSOPESY" \notin Blanks
      BY DEF Printable, Blanks, Space
<1>. QED  BY <1>1, <1>2 DEF Drawable, DefaultText

\* The text of the marquee is never empty, never begins or ends with a blank and
\* never holds a byte that is not one column wide, whatever lines were read
\* (parameters.cpp setText, interpreter.cpp set_text).
THEOREM TextIsAlwaysDrawable == Spec => []TextIsDrawable
<1>0. TextIsDrawable <=> Drawable(app.text)
      BY DEF TextIsDrawable, Drawable
<1>1. Init => Drawable(app.text)
      BY DefaultIsDrawable DEF Init, InitialApp
<1>2. TypeOK /\ Drawable(app.text) /\ [Next]_vars => Drawable(app.text)'
  <2> SUFFICES ASSUME TypeOK, Drawable(app.text), [Next]_vars PROVE Drawable(app'.text)
      BY DEF Drawable
  <2>1. ASSUME NEW l \in Lines, ReadLine(l)
        PROVE  Drawable(app'.text)
    <3> DEFINE trimmed == Trim(l, Blanks)
    <3>1. l \in Seq(Symbols) /\ app \in App
          BY <2>1, LinesAssumption DEF TypeOK
    <3>2. ArgumentOf(trimmed) \in Seq(Symbols)
          BY <3>1, TrimProperties, ArgumentType
    <3>3. Drawable(RunCommand(app, CommandOf(trimmed), ArgumentOf(trimmed)).text)
          BY <3>1, <3>2, RunCommandIsDrawable
    <3>4. [app EXCEPT !.message = "none"].text = app.text
          BY <3>1 DEF App
    <3>5. app' = ExecuteLine(app, l)
          BY <2>1 DEF ReadLine
    <3>. QED  BY <3>3, <3>4, <3>5 DEF ExecuteLine
  <2>2. CASE EndOfInput \/ UNCHANGED vars
        BY <2>2 DEF EndOfInput, vars
  <2>3. ASSUME NEW ms \in RefreshMin .. RefreshMax, Begin(ms)
        PROVE  Drawable(app'.text)
    <3>1. app'.text = app.text
          BY <2>3 DEF Begin, TypeOK, App
    <3>. QED  BY <3>1
  <2>. QED  BY <2>1, <2>2, <2>3 DEF Next
<1>. QED  BY <1>0, <1>1, <1>2, PlainTypeCorrect, PTL DEF Spec

----------------------------------------------------------------------------
\* Refusals.

Refusals == {"none", "usage", "text not ascii", "unknown", "already running", "not running"}

Silent(a) == [a EXCEPT !.message = "none"]

LEMMA MessageOnly ==
    ASSUME NEW a \in App, NEW m
    PROVE  Silent([a EXCEPT !.message = m]) = Silent(a)
BY DEF Silent, App

\* A command that answers with a refusal has changed nothing but the message.
LEMMA RefusalChangesNothing ==
    ASSUME NEW a \in App, NEW cmd, NEW arg,
           RunCommand(a, cmd, arg).message \in Refusals
    PROVE  Silent(RunCommand(a, cmd, arg)) = Silent(a)
<1> DEFINE Refused(b) == b.message \in Refusals => Silent(b) = Silent(a)
<1>0. \A m : Refused([a EXCEPT !.message = m])
      BY MessageOnly
<1>1. Refused(SetTextCommand(a, arg))
  <2> DEFINE trimmed == Trim(arg, {Space})
  <2>1. Refused([a EXCEPT !.text = trimmed, !.message = "text set"])
        BY DEF App, Refusals
  <2> HIDE DEF trimmed, Refused
  <2>. QED  BY <1>0, <2>1 DEF SetTextCommand, SetText, trimmed
<1>2. Refused(SetSpeedCommand(a, arg))
  <2> DEFINE requested == ParseFullInteger(arg)
             applied   == ClampRefresh(requested)
             set       == [a EXCEPT !.refreshMs = applied,
                                    !.message = IF applied = requested THEN "speed set" ELSE "speed clamped"]
  <2>1. set.message \notin Refusals
        BY DEF App, Refusals
  <2>2. Refused(set)
        BY <2>1
  <2>3. SetSpeedCommand(a, arg) = [a EXCEPT !.message = "usage"] \/ SetSpeedCommand(a, arg) = set
        BY DEF SetSpeedCommand
  <2> HIDE DEF set, Refused
  <2>. QED  BY <1>0, <2>2, <2>3
<1>3. Refused(ProcStart(a))
  <2>1. Refused([a EXCEPT !.state = "Running", !.hasRendered = FALSE, !.message = "started"])
        BY DEF App, Refusals
  <2> HIDE DEF Refused
  <2>. QED  BY <1>0, <2>1 DEF ProcStart
<1>4. Refused(ProcStop(a))
  <2>1. Refused([a EXCEPT !.state = "Stopped", !.message = "stopped"])
        BY DEF App, Refusals
  <2> HIDE DEF Refused
  <2>. QED  BY <1>0, <2>1 DEF ProcStop
<1>5. Refused([a EXCEPT !.quit = TRUE, !.message = "goodbye"])
      BY DEF App, Refusals
<1>6. Refused(RunCommand(a, cmd, arg))
  <2> HIDE DEF Refused
  <2>. QED  BY <1>0, <1>1, <1>2, <1>3, <1>4, <1>5 DEF RunCommand
<1>. QED  BY <1>6

\* A response that reports an error or a refusal was printed by a command that
\* changed nothing (interpreter.cpp executeLine and its commands).
THEOREM RefusedLinesChangeNothing == Spec => RejectedLineChangesNothing
<1> DEFINE Harmless == pc = "read" /\ response' \in Refusals => Silent(app') = Silent(app)
<1>1. TypeOK /\ [Next]_vars => [Harmless]_vars
  <2> SUFFICES ASSUME TypeOK, Next, pc = "read", response' \in Refusals, UNCHANGED vars => FALSE
               PROVE  Silent(app') = Silent(app)
      OBVIOUS
  <2>1. ASSUME NEW l \in Lines, ReadLine(l)
        PROVE  Silent(app') = Silent(app)
    <3> DEFINE trimmed == Trim(l, Blanks)
    <3>1. app' = ExecuteLine(app, l) /\ app'.message \in Refusals /\ app \in App
          BY <2>1 DEF ReadLine, TypeOK
    <3>2. CASE trimmed = <<>>
          BY <3>1, <3>2, MessageOnly DEF ExecuteLine
    <3>3. CASE trimmed # <<>>
      <4>1. app' = RunCommand(app, CommandOf(trimmed), ArgumentOf(trimmed))
            BY <3>1, <3>3 DEF ExecuteLine
      <4> HIDE DEF trimmed
      <4>. QED  BY <3>1, <4>1, RefusalChangesNothing
    <3>. QED  BY <3>2, <3>3
  <2>2. CASE EndOfInput
        BY <2>2 DEF EndOfInput
  <2>. QED  BY <2>1, <2>2 DEF Next, Begin
<1>2. Spec => [][Harmless]_vars
      BY <1>1, PlainTypeCorrect, PTL DEF Spec
<1>. QED  BY <1>2 DEF RejectedLineChangesNothing, Silent, Refusals

----------------------------------------------------------------------------
\* The parser of integers.

Least(m, n) == IF m <= n THEN m ELSE n

LEMMA DigitRange ==
    ASSUME NEW d \in Range(DigitNames)
    PROVE  DigitValue(d) \in 0 .. 9
<1>1. \E n \in 0 .. 9 : DigitNames[n + 1] = d
  <2>1. PICK i \in 1 .. 10 : DigitNames[i] = d
        BY DEF Range, DigitNames
  <2>2. i - 1 \in 0 .. 9 /\ (i - 1) + 1 = i
        OBVIOUS
  <2>. QED  BY <2>1, <2>2
<1>. QED  BY <1>1 DEF DigitValue

LEMMA Tenth ==
    ASSUME NEW n \in Int
    PROVE  n \div 10 \in Int /\ 10 * (n \div 10) <= n /\ n < 10 * (n \div 10) + 10
BY SMT

\* One turn of the loop of parseFullInteger(): what it has read so far, cut off at
\* Saturated, becomes what it has read with one digit more, cut off at the same
\* magnitude.  No digit after the cut brings the value back or lets it overflow.
THEOREM DigitsSaturate ==
    ASSUME NEW exact \in Nat, NEW d \in Range(DigitNames)
    PROVE  AddDigit(Least(exact, Saturated), d) = Least(exact * 10 + DigitValue(d), Saturated)
<1>1. DigitValue(d) \in 0 .. 9
      BY DigitRange
<1>2. Saturated \in Nat /\ Saturated > 2
      BY WidthAssumption, RangesAssumption
<1> DEFINE v == DigitValue(d)
           limit == (Saturated - v) \div 10
<1>3. CASE Saturated < v
  <2>1. limit \in Int /\ 10 * limit <= Saturated - v
        BY <1>1, <1>2, Tenth
  <2> HIDE DEF limit
  <2>2. Least(exact, Saturated) > limit
        BY <1>1, <1>2, <1>3, <2>1 DEF Least
  <2>3. AddDigit(Least(exact, Saturated), d) = Saturated
        BY <2>2 DEF AddDigit, limit
  <2>. QED  BY <1>1, <1>2, <1>3, <2>3 DEF Least
<1>4. CASE Saturated >= v
  <2>1. limit \in Int /\ 10 * limit <= Saturated - v /\ Saturated - v < 10 * limit + 10
        BY <1>1, <1>2, <1>4, Tenth
  <2> DEFINE mag == Least(exact, Saturated)
  <2>2. mag \in Nat
        BY <1>2 DEF Least
  <2>3. AddDigit(mag, d) = IF mag > limit THEN Saturated ELSE mag * 10 + v
        BY DEF AddDigit
  <2> HIDE DEF limit, v
  <2>4. CASE exact > Saturated
        BY <1>1, <1>2, <2>1, <2>3, <2>4 DEF Least, v
  <2>5. CASE exact <= Saturated
        BY <1>1, <1>2, <2>1, <2>3, <2>5 DEF Least, v
  <2>. QED  BY <1>2, <2>4, <2>5
<1>. QED  BY <1>1, <1>2, <1>3, <1>4

\* And the cut does not show in the result: the period set_speed stores is the one
\* nearest to the number, of either sign, whose magnitude was cut off (interpreter.cpp
\* parseFullInteger and Parameters::setRefresh).
THEOREM SaturationIsHarmless ==
    ASSUME NEW exact \in Nat, NEW negative \in BOOLEAN
    PROVE  LET applied == ClampRefresh(ToInt(negative, Least(exact, Saturated)))
               n       == IF negative THEN -exact ELSE exact
           IN  /\ applied \in RefreshMin .. RefreshMax
               /\ (applied = ToInt(negative, Least(exact, Saturated))) <=> (n = applied)
               /\ n > applied => applied = RefreshMax
               /\ n < applied => applied = RefreshMin
<1>1. RefreshMin \in Nat /\ RefreshMax \in Nat /\ IntMax \in Nat /\ Saturated \in Nat
      /\ 1 <= RefreshMin /\ RefreshMin < RefreshMax /\ RefreshMax < IntMax /\ IntMax + 1 < Saturated
      BY RangesAssumption, WidthAssumption
<1>2. CASE negative
      BY <1>1, <1>2 DEF ClampRefresh, ToInt, Least
<1>3. CASE ~ negative
      BY <1>1, <1>3 DEF ClampRefresh, ToInt, Least
<1>. QED  BY <1>2, <1>3

----------------------------------------------------------------------------
\* The loop over all digits.

\* A loop of n turns, given as a table of one turn, has the results of its turns.
Turns(f, first, turn, n) ==
    /\ f \in [0 .. n -> Nat]
    /\ f[0] = first
    /\ \A i \in 1 .. n : f[i] = turn[<<f[i - 1], i>>]

LEMMA LoopExists ==
    ASSUME NEW limit \in Nat, NEW first \in Nat, NEW turn \in [Nat \X (1 .. limit) -> Nat]
    PROVE  \E f : Turns(f, first, turn, limit)
<1> DEFINE Holds == {n \in Nat : \E f : Turns(f, first, turn, n)}
<1>1. 0 \in Holds
  <2>1. Turns([i \in 0 .. 0 |-> first], first, turn, 0)
        BY DEF Turns
  <2>. QED  BY <2>1
<1>2. ASSUME NEW n \in 0 .. limit, n + 1 <= limit, n \in Holds
      PROVE  n + 1 \in Holds
  <2>1. PICK f : Turns(f, first, turn, n)
        BY <1>2
  <2>2. f \in [0 .. n -> Nat] /\ f[0] = first /\ \A i \in 1 .. n : f[i] = turn[<<f[i - 1], i>>]
        BY <2>1 DEF Turns
  <2> DEFINE x == turn[<<f[n], n + 1>>]
             g == [i \in 0 .. n + 1 |-> IF i = n + 1 THEN x ELSE f[i]]
  <2>3. f[n] \in Nat /\ n + 1 \in 1 .. limit
        BY <1>2, <2>2
  <2>4. x \in Nat
        BY <2>3
  <2> HIDE DEF x
  <2>5. g \in [0 .. n + 1 -> Nat]
        BY <2>4, <2>2
  <2>6. g[n + 1] = x /\ \A i \in 0 .. n : g[i] = f[i]
        BY <1>2
  <2> HIDE DEF g
  <2>7. ASSUME NEW i \in 1 .. n + 1
        PROVE  g[i] = turn[<<g[i - 1], i>>]
    <3>1. CASE i = n + 1
      <4>1. g[n] = f[n]
            BY <2>6, <1>2
      <4>2. i - 1 = n
            BY <3>1, <1>2
      <4>. QED  BY <2>6, <3>1, <4>1, <4>2 DEF x
    <3>2. CASE i # n + 1
      <4>1. i \in 1 .. n /\ i \in 0 .. n /\ i - 1 \in 0 .. n
            BY <3>2, <1>2
      <4>. QED  BY <2>2, <2>6, <4>1
    <3>. QED  BY <3>1, <3>2
  <2>8. g[0] = first
        BY <2>2, <2>6, <1>2
  <2>9. Turns(g, first, turn, n + 1)
        BY <2>5, <2>7, <2>8 DEF Turns
  <2>. QED  BY <1>2, <2>9
<1> HIDE DEF Holds
<1>3. \A n \in 0 .. limit : n \in Holds
      BY <1>1, <1>2, UpTo
<1>4. limit \in Holds
      BY <1>3
<1>. QED  BY <1>4 DEF Holds

\* The values of the first digits of a numeral, each ten times the one before it
\* and one digit more.
AreValues(h, digits) ==
    /\ h \in [0 .. Len(digits) -> Nat]
    /\ h[0] = 0
    /\ \A n \in 1 .. Len(digits) : h[n] = h[n - 1] * 10 + DigitValue(digits[n])

ArePowers(p, limit) ==
    /\ p \in [0 .. limit -> Nat]
    /\ p[0] = 1
    /\ \A k \in 1 .. limit : p[k] = 10 * p[k - 1]

Numerals == Seq(Range(DigitNames))

LEMMA NumeralDigits ==
    ASSUME NEW digits \in Numerals
    PROVE  /\ Len(digits) \in Nat
           /\ \A n \in 1 .. Len(digits) : digits[n] \in Range(DigitNames) /\ DigitValue(digits[n]) \in Nat
<1>1. Len(digits) \in Nat /\ \A n \in 1 .. Len(digits) : digits[n] \in Range(DigitNames)
      BY DEF Numerals
<1>2. \A d \in Range(DigitNames) : DigitValue(d) \in Nat
      BY DigitRange
<1>. QED  BY <1>1, <1>2

LEMMA ValuesExist ==
    ASSUME NEW digits \in Numerals
    PROVE  \E h : AreValues(h, digits)
<1> DEFINE turn == [x \in Nat \X (1 .. Len(digits)) |-> x[1] * 10 + DigitValue(digits[x[2]])]
<1>1. Len(digits) \in Nat /\ \A n \in 1 .. Len(digits) : DigitValue(digits[n]) \in Nat
      BY NumeralDigits
<1>2. turn \in [Nat \X (1 .. Len(digits)) -> Nat]
      BY <1>1
<1>3. \A m \in Nat, n \in 1 .. Len(digits) : turn[<<m, n>>] = m * 10 + DigitValue(digits[n])
      OBVIOUS
<1> HIDE DEF turn
<1>4. PICK h : Turns(h, 0, turn, Len(digits))
      BY <1>1, <1>2, LoopExists
<1>5. \A n \in 1 .. Len(digits) : h[n - 1] \in Nat
      BY <1>1, <1>4, SMTT(30) DEF Turns
<1>6. AreValues(h, digits)
      BY <1>3, <1>4, <1>5 DEF AreValues, Turns
<1>. QED  BY <1>6

LEMMA PowersExist ==
    ASSUME NEW limit \in Nat
    PROVE  \E p : ArePowers(p, limit)
<1> DEFINE turn == [x \in Nat \X (1 .. limit) |-> 10 * x[1]]
<1>1. turn \in [Nat \X (1 .. limit) -> Nat] /\ \A m \in Nat, n \in 1 .. limit : turn[<<m, n>>] = 10 * m
      OBVIOUS
<1> HIDE DEF turn
<1>2. PICK p : Turns(p, 1, turn, limit)
      BY <1>1, LoopExists
<1>3. \A n \in 1 .. limit : p[n - 1] \in Nat
      BY <1>2 DEF Turns
<1>4. ArePowers(p, limit)
      BY <1>1, <1>2, <1>3 DEF ArePowers, Turns
<1>. QED  BY <1>4

\* The recursion of Magnitude and the one of PlaceValue.
IsMagnitude(f, digits) ==
    f = [n \in 0 .. Len(digits) |-> IF n = 0 THEN 0 ELSE AddDigit(f[n - 1], digits[n])]

IsPlace(f, limit) == f = [k \in 0 .. limit |-> IF k = 0 THEN 1 ELSE 10 * f[k - 1]]

IsSum(f, digits, place) ==
    f = [n \in 0 .. Len(digits) |->
            IF n = 0 THEN 0 ELSE f[n - 1] + DigitValue(digits[n]) * place[Len(digits) - n]]

\* The loop computes the value of the digits, cut off at Saturated.
LEMMA MagnitudeIsTheValue ==
    ASSUME NEW digits \in Numerals, NEW h, AreValues(h, digits)
    PROVE  Magnitude(digits) = Least(h[Len(digits)], Saturated)
<1> DEFINE N == Len(digits)
           cut == [n \in 0 .. N |-> Least(h[n], Saturated)]
<1>1. N \in Nat /\ \A n \in 1 .. N : digits[n] \in Range(DigitNames) /\ n - 1 \in 0 .. N /\ n \in 0 .. N
      BY NumeralDigits
<1>2. h \in [0 .. N -> Nat] /\ h[0] = 0 /\ Saturated \in Nat
      BY WidthAssumption DEF AreValues
<1>3. \A n \in 1 .. N : AddDigit(Least(h[n - 1], Saturated), digits[n]) = Least(h[n], Saturated)
  <2> SUFFICES ASSUME NEW n \in 1 .. N
               PROVE  AddDigit(Least(h[n - 1], Saturated), digits[n]) = Least(h[n], Saturated)
      OBVIOUS
  <2>1. h[n - 1] \in Nat /\ digits[n] \in Range(DigitNames)
        BY <1>1, <1>2
  <2>2. h[n] = h[n - 1] * 10 + DigitValue(digits[n])
        BY DEF AreValues
  <2>. QED  BY <2>1, <2>2, DigitsSaturate
<1>4. Least(h[0], Saturated) = 0
      BY <1>2 DEF Least
<1>5. \A n \in 0 .. N : cut[n] = Least(h[n], Saturated)
      OBVIOUS
<1>6. IsMagnitude(cut, digits)
  <2>1. \A n \in 0 .. N : cut[n] = IF n = 0 THEN 0 ELSE AddDigit(cut[n - 1], digits[n])
    <3> SUFFICES ASSUME NEW n \in 0 .. N
                 PROVE  cut[n] = IF n = 0 THEN 0 ELSE AddDigit(cut[n - 1], digits[n])
        OBVIOUS
    <3> HIDE DEF cut
    <3>1. CASE n = 0
          BY <3>1, <1>1, <1>4, <1>5
    <3>2. CASE n # 0
      <4>1. n \in 1 .. N /\ n - 1 \in 0 .. N
            BY <3>2, <1>1
      <4>. QED  BY <4>1, <1>3, <1>5, <3>2
    <3>. QED  BY <3>1, <3>2
  <2>2. cut = [n \in 0 .. N |-> cut[n]]
        OBVIOUS
  <2> HIDE DEF cut
  <2>. QED  BY <2>1, <2>2 DEF IsMagnitude
<1> DEFINE mag == CHOOSE f : IsMagnitude(f, digits)
<1>7. Magnitude(digits) = mag[N]
      BY DEF Magnitude, IsMagnitude
<1>8. IsMagnitude(mag, digits)
      BY <1>6
<1> HIDE DEF mag, cut
<1>9. mag[0] = 0 /\ \A n \in 1 .. N : mag[n] = AddDigit(mag[n - 1], digits[n])
  <2> DEFINE Turn(n) == IF n = 0 THEN 0 ELSE AddDigit(mag[n - 1], digits[n])
  <2>1. mag = [n \in 0 .. N |-> Turn(n)]
        BY <1>8 DEF IsMagnitude
  <2> HIDE DEF Turn, N
  <2>2. \A n \in 0 .. N : mag[n] = Turn(n)
        BY <2>1
  <2>. QED  BY <2>2, <1>1 DEF Turn
<1> DEFINE Holds == {n \in Nat : mag[n] = Least(h[n], Saturated)}
<1>10. 0 \in Holds
       BY <1>4, <1>9
<1>11. \A n \in 0 .. N : n + 1 <= N /\ n \in Holds => n + 1 \in Holds
  <2> SUFFICES ASSUME NEW n \in 0 .. N, n + 1 <= N, n \in Holds PROVE n + 1 \in Holds
      OBVIOUS
  <2> HIDE DEF N
  <2>1. n + 1 \in 1 .. N /\ (n + 1) - 1 = n /\ n + 1 \in Nat
        BY <1>1
  <2>2. mag[n] = Least(h[n], Saturated)
        OBVIOUS
  <2>3. mag[n + 1] = AddDigit(mag[n], digits[n + 1])
        BY <1>9, <2>1
  <2>4. AddDigit(Least(h[n], Saturated), digits[n + 1]) = Least(h[n + 1], Saturated)
        BY <1>3, <2>1
  <2>. QED  BY <2>1, <2>2, <2>3, <2>4
<1> HIDE DEF Holds, N
<1>12. N \in Holds
  <2>1. \A n \in 0 .. N : n \in Holds
        BY <1>1, <1>10, <1>11, UpTo
  <2>. QED  BY <2>1, <1>1
<1>13. mag[N] = Least(h[N], Saturated)
       BY <1>12 DEF Holds
<1>. QED  BY <1>7, <1>13 DEF N

LEMMA Shift ==
    ASSUME NEW v \in Nat, NEW d \in Nat, NEW p \in Nat
    PROVE  v * (10 * p) + d * p = (v * 10 + d) * p
BY SMT

\* And that value is the one its digits have by their places.
LEMMA PlaceValueIsTheValue ==
    ASSUME NEW digits \in Numerals, NEW h, AreValues(h, digits)
    PROVE  PlaceValue(digits) = h[Len(digits)]
<1> DEFINE N == Len(digits)
           place == CHOOSE f : IsPlace(f, N)
           sum == CHOOSE f : IsSum(f, digits, place)
<1>1. N \in Nat /\ \A n \in 1 .. N : DigitValue(digits[n]) \in Nat
      BY NumeralDigits
<1>2. PlaceValue(digits) = sum[N]
      BY DEF PlaceValue, IsSum, IsPlace
<1>3. /\ h \in [0 .. N -> Nat] /\ h[0] = 0
      /\ \A n \in 1 .. N : h[n] = h[n - 1] * 10 + DigitValue(digits[n])
      BY DEF AreValues
<1>4. PICK p : ArePowers(p, N)
      BY <1>1, PowersExist
<1> HIDE DEF N
<1>5. p \in [0 .. N -> Nat] /\ p[0] = 1 /\ \A k \in 1 .. N : p[k] = 10 * p[k - 1]
      BY <1>4 DEF ArePowers
<1>6. IsPlace(p, N)
  <2>1. p = [k \in 0 .. N |-> p[k]]
        BY <1>5
  <2>2. \A k \in 0 .. N : p[k] = IF k = 0 THEN 1 ELSE 10 * p[k - 1]
    <3>1. \A k \in 0 .. N : k # 0 => k \in 1 .. N
          BY <1>1
    <3>. QED  BY <1>5, <3>1
  <2>. QED  BY <2>1, <2>2 DEF IsPlace
<1>7. IsPlace(place, N)
      BY <1>6
<1> HIDE DEF place, sum
<1>8. place[0] = 1 /\ \A k \in 1 .. N : place[k] = 10 * place[k - 1]
  <2> DEFINE Turn(k) == IF k = 0 THEN 1 ELSE 10 * place[k - 1]
  <2>1. place = [k \in 0 .. N |-> Turn(k)]
        BY <1>7 DEF IsPlace
  <2> HIDE DEF Turn
  <2>2. \A k \in 0 .. N : place[k] = Turn(k)
        BY <2>1
  <2>. QED  BY <2>2, <1>1 DEF Turn
<1>9. \A k \in 0 .. N : place[k] \in Nat
  <2> DEFINE Holds == {k \in Nat : place[k] \in Nat}
  <2>1. 0 \in Holds
        BY <1>8
  <2>2. \A k \in 0 .. N : k + 1 <= N /\ k \in Holds => k + 1 \in Holds
    <3> SUFFICES ASSUME NEW k \in 0 .. N, k + 1 <= N, k \in Holds PROVE k + 1 \in Holds
        OBVIOUS
    <3>1. k + 1 \in 1 .. N /\ (k + 1) - 1 = k /\ place[k] \in Nat /\ k + 1 \in Nat
          BY <1>1
    <3>2. place[k + 1] = 10 * place[k]
          BY <1>8, <3>1
    <3>. QED  BY <3>1, <3>2
  <2> HIDE DEF Holds
  <2>3. \A k \in 0 .. N : k \in Holds
        BY <1>1, <2>1, <2>2, UpTo
  <2>. QED  BY <2>3 DEF Holds
<1> DEFINE part == [n \in 0 .. N |-> h[n] * place[N - n]]
<1>10. \A n \in 1 .. N : h[n] * place[N - n] = h[n - 1] * place[N - (n - 1)] + DigitValue(digits[n]) * place[N - n]
  <2> SUFFICES ASSUME NEW n \in 1 .. N
               PROVE  h[n] * place[N - n]
                        = h[n - 1] * place[N - (n - 1)] + DigitValue(digits[n]) * place[N - n]
      OBVIOUS
  <2> DEFINE v == h[n - 1]
             d == DigitValue(digits[n])
             q == place[N - n]
  <2>1. v \in Nat /\ d \in Nat
        BY <1>1, <1>3
  <2>2. N - n \in 0 .. N /\ N - (n - 1) \in 1 .. N /\ (N - (n - 1)) - 1 = N - n
        BY <1>1
  <2>3. q \in Nat /\ place[N - (n - 1)] = 10 * q
        BY <1>8, <1>9, <2>2
  <2>4. h[n] = v * 10 + d
        BY <1>3
  <2> HIDE DEF v, d, q
  <2>5. v * (10 * q) + d * q = (v * 10 + d) * q
        BY <2>1, <2>3, Shift
  <2>. QED  BY <2>3, <2>4, <2>5 DEF v, d, q
<1>11. IsSum(part, digits, place)
  <2>1. \A n \in 0 .. N : part[n] = h[n] * place[N - n]
        OBVIOUS
  <2>2. part = [n \in 0 .. N |-> part[n]]
        OBVIOUS
  <2> HIDE DEF part
  <2>3. \A n \in 0 .. N : part[n] = IF n = 0 THEN 0 ELSE part[n - 1] + DigitValue(digits[n]) * place[N - n]
    <3> SUFFICES ASSUME NEW n \in 0 .. N
                 PROVE  part[n] = IF n = 0 THEN 0 ELSE part[n - 1] + DigitValue(digits[n]) * place[N - n]
        OBVIOUS
    <3>1. CASE n = 0
      <4>1. N - 0 \in 0 .. N /\ 0 \in 0 .. N
            BY <1>1
      <4>2. part[0] = 0 * place[N - 0]
            BY <2>1, <1>3, <4>1
      <4>. QED  BY <3>1, <4>1, <4>2, <1>9
    <3>2. CASE n # 0
      <4>1. n \in 1 .. N /\ n - 1 \in 0 .. N
            BY <3>2, <1>1
      <4>. QED  BY <4>1, <1>10, <2>1, <3>2
    <3>. QED  BY <3>1, <3>2
  <2>. QED  BY <2>2, <2>3 DEF IsSum, N
<1>12. IsSum(sum, digits, place)
       BY <1>11 DEF sum
<1> HIDE DEF part
<1>13. sum[0] = 0 /\ \A n \in 1 .. N : sum[n] = sum[n - 1] + DigitValue(digits[n]) * place[N - n]
  <2> DEFINE Turn(n) == IF n = 0 THEN 0 ELSE sum[n - 1] + DigitValue(digits[n]) * place[N - n]
  <2>1. sum = [n \in 0 .. N |-> Turn(n)]
        BY <1>12 DEF IsSum, N
  <2> HIDE DEF Turn
  <2>2. \A n \in 0 .. N : sum[n] = Turn(n)
        BY <2>1
  <2>. QED  BY <2>2, <1>1 DEF Turn
<1> DEFINE Holds == {n \in Nat : sum[n] = h[n] * place[N - n]}
<1>14. 0 \in Holds
  <2>1. N - 0 \in 0 .. N
        BY <1>1
  <2>2. place[N - 0] \in Nat
        BY <2>1, <1>9
  <2>. QED  BY <2>2, <1>3, <1>13
<1>15. \A n \in 0 .. N : n + 1 <= N /\ n \in Holds => n + 1 \in Holds
  <2> SUFFICES ASSUME NEW n \in 0 .. N, n + 1 <= N, n \in Holds PROVE n + 1 \in Holds
      OBVIOUS
  <2>1. n + 1 \in 1 .. N /\ (n + 1) - 1 = n /\ n + 1 \in Nat
        BY <1>1
  <2>2. sum[n] = h[n] * place[N - n]
        OBVIOUS
  <2>3. sum[n + 1] = sum[n] + DigitValue(digits[n + 1]) * place[N - (n + 1)]
        BY <1>13, <2>1
  <2>4. h[n + 1] * place[N - (n + 1)] = h[n] * place[N - n] + DigitValue(digits[n + 1]) * place[N - (n + 1)]
        BY <1>10, <2>1
  <2>. QED  BY <2>1, <2>2, <2>3, <2>4
<1> HIDE DEF Holds
<1>16. N \in Holds
  <2>1. \A n \in 0 .. N : n \in Holds
        BY <1>1, <1>14, <1>15, UpTo
  <2>. QED  BY <2>1, <1>1
<1>17. N - N = 0 /\ h[N] \in Nat
       BY <1>1, <1>3
<1>18. sum[N] = h[N]
       BY <1>8, <1>16, <1>17 DEF Holds
<1>. QED  BY <1>2, <1>18 DEF N

\* parseFullInteger() reads every string of digits, however long, as the number it
\* denotes by place value, cut off at a magnitude no int has (interpreter.cpp).
THEOREM MagnitudeIsExact ==
    ASSUME NEW digits \in Numerals
    PROVE  PlaceValue(digits) \in Nat /\ Magnitude(digits) = Least(PlaceValue(digits), Saturated)
<1>1. PICK h : AreValues(h, digits)
      BY ValuesExist
<1>2. Len(digits) \in Nat
      BY NumeralDigits
<1>3. h[Len(digits)] \in Nat
      BY <1>1, <1>2 DEF AreValues
<1>. QED  BY <1>1, <1>3, MagnitudeIsTheValue, PlaceValueIsTheValue

----------------------------------------------------------------------------
\* set_speed.

LEMMA SpokenIsParsed ==
    ASSUME NEW S, NEW arg \in Seq(S), ParseFullInteger(arg) # NotANumber
    PROVE  \E exact \in Nat, negative \in BOOLEAN :
               /\ Spoken(arg) = IF negative THEN -exact ELSE exact
               /\ ParseFullInteger(arg) = ToInt(negative, Least(exact, Saturated))
<1> DEFINE signed == arg # <<>> /\ arg[1] \in Signs
           digits == IF signed THEN Tail(arg) ELSE arg
           negative == signed /\ arg[1] = "-"
<1>1. /\ digits # <<>> /\ Range(digits) \subseteq Range(DigitNames)
      /\ ParseFullInteger(arg) = ToInt(negative, Magnitude(digits))
      BY DEF ParseFullInteger
<1>2. digits \in Seq(S)
      BY HeadTailProperties
<1>3. digits \in Numerals
  <2> HIDE DEF digits
  <2>1. Len(digits) \in Nat /\ digits \in [1 .. Len(digits) -> S]
        BY <1>2, LenProperties
  <2>2. \A i \in 1 .. Len(digits) : digits[i] \in Range(DigitNames)
        BY <1>1, <2>1 DEF Range
  <2>3. digits \in [1 .. Len(digits) -> Range(DigitNames)]
        BY <2>1, <2>2
  <2>. QED  BY <2>1, <2>3, SeqDef DEF Numerals
<1>4. arg # <<>>
      BY <1>1
<1>5. Spoken(arg) = IF negative THEN -PlaceValue(digits) ELSE PlaceValue(digits)
      BY <1>4 DEF Spoken, Signs
<1>6. PlaceValue(digits) \in Nat /\ Magnitude(digits) = Least(PlaceValue(digits), Saturated)
      BY <1>3, MagnitudeIsExact
<1>7. negative \in BOOLEAN
      OBVIOUS
<1> HIDE DEF negative, digits
<1>. QED  BY <1>1, <1>5, <1>6, <1>7

Accepted == {"speed set", "speed clamped"}

\* What SpeedIsNearestToTheNumber says of an argument, a period and a response.
IsNearest(arg, ms, said) ==
    said \in Accepted =>
        /\ (said = "speed set") <=> (Spoken(arg) = ms)
        /\ Spoken(arg) > ms => ms = RefreshMax
        /\ Spoken(arg) < ms => ms = RefreshMin

LEMMA SetSpeedIsNearest ==
    ASSUME NEW a \in App, NEW arg \in Seq(Symbols)
    PROVE  IsNearest(arg, SetSpeedCommand(a, arg).refreshMs, SetSpeedCommand(a, arg).message)
<1> DEFINE requested == ParseFullInteger(arg)
           applied   == ClampRefresh(requested)
           said      == IF applied = requested THEN "speed set" ELSE "speed clamped"
<1>1. CASE requested = NotANumber
  <2>1. SetSpeedCommand(a, arg).message = "usage"
        BY <1>1 DEF SetSpeedCommand, App
  <2>. QED  BY <2>1 DEF IsNearest, Accepted
<1>2. CASE requested # NotANumber
  <2>1. SetSpeedCommand(a, arg) = [a EXCEPT !.refreshMs = applied, !.message = said]
        BY <1>2 DEF SetSpeedCommand
  <2>2. PICK exact \in Nat, negative \in BOOLEAN :
            /\ Spoken(arg) = IF negative THEN -exact ELSE exact
            /\ requested = ToInt(negative, Least(exact, Saturated))
        BY <1>2, SpokenIsParsed
  <2>3. /\ (applied = requested) <=> (Spoken(arg) = applied)
        /\ Spoken(arg) > applied => applied = RefreshMax
        /\ Spoken(arg) < applied => applied = RefreshMin
        BY <2>2, SaturationIsHarmless
  <2> HIDE DEF applied, requested
  <2>4. SetSpeedCommand(a, arg).refreshMs = applied /\ SetSpeedCommand(a, arg).message = said
        BY <2>1 DEF App
  <2>. QED  BY <2>3, <2>4 DEF IsNearest, Accepted
<1>. QED  BY <1>1, <1>2

\* Only set_speed answers that it has set the speed.
LEMMA OnlySetSpeedAnswers ==
    ASSUME NEW a \in App, NEW cmd, NEW arg, RunCommand(a, cmd, arg).message \in Accepted
    PROVE  RunCommand(a, cmd, arg) = SetSpeedCommand(a, arg)
<1>1. \A m : m \notin Accepted => [a EXCEPT !.message = m].message \notin Accepted
      BY DEF App
<1>2. SetTextCommand(a, arg).message \notin Accepted
  <2> DEFINE trimmed == Trim(arg, {Space})
  <2>1. [a EXCEPT !.text = trimmed, !.message = "text set"].message \notin Accepted
        BY DEF App, Accepted
  <2> HIDE DEF trimmed
  <2>2. SetTextCommand(a, arg) \in {[a EXCEPT !.message = "usage"], [a EXCEPT !.message = "text not ascii"],
                                    [a EXCEPT !.text = trimmed, !.message = "text set"]}
        BY DEF SetTextCommand, SetText, trimmed
  <2>3. "usage" \notin Accepted /\ "text not ascii" \notin Accepted
        BY DEF Accepted
  <2>. QED  BY <1>1, <2>1, <2>2, <2>3
<1>3. ProcStart(a).message \notin Accepted /\ ProcStop(a).message \notin Accepted
      BY DEF ProcStart, ProcStop, App, Accepted
<1>4. [a EXCEPT !.quit = TRUE, !.message = "goodbye"].message \notin Accepted
      BY DEF App, Accepted
<1>5. "usage" \notin Accepted /\ "help" \notin Accepted /\ "unknown" \notin Accepted
      BY DEF Accepted
<1>6. RunCommand(a, cmd, arg) \in
        {[a EXCEPT !.message = "usage"], [a EXCEPT !.message = "help"], [a EXCEPT !.message = "unknown"],
         ProcStart(a), ProcStop(a), [a EXCEPT !.quit = TRUE, !.message = "goodbye"],
         SetTextCommand(a, arg), SetSpeedCommand(a, arg)}
      BY Zenon DEF RunCommand
<1>. QED  BY <1>1, <1>2, <1>3, <1>4, <1>5, <1>6

LEMMA ExecuteLineIsNearest ==
    ASSUME NEW a \in App, NEW raw \in Seq(Symbols)
    PROVE  IsNearest(ArgumentOf(Trim(raw, Blanks)), ExecuteLine(a, raw).refreshMs, ExecuteLine(a, raw).message)
<1> DEFINE trimmed == Trim(raw, Blanks)
           arg == ArgumentOf(trimmed)
<1>1. CASE trimmed = <<>>
  <2>1. ExecuteLine(a, raw).message = "none"
        BY <1>1 DEF ExecuteLine, App
  <2>. QED  BY <2>1 DEF IsNearest, Accepted
<1>2. CASE trimmed # <<>>
  <2>1. ExecuteLine(a, raw) = RunCommand(a, CommandOf(trimmed), arg)
        BY <1>2 DEF ExecuteLine
  <2>2. arg \in Seq(Symbols)
        BY TrimProperties, ArgumentType
  <2> HIDE DEF trimmed, arg
  <2>3. CASE RunCommand(a, CommandOf(trimmed), arg).message \in Accepted
    <3>1. ExecuteLine(a, raw) = SetSpeedCommand(a, arg)
          BY <2>1, <2>3, OnlySetSpeedAnswers
    <3>. QED  BY <2>2, <3>1, SetSpeedIsNearest DEF arg, trimmed
  <2>4. CASE RunCommand(a, CommandOf(trimmed), arg).message \notin Accepted
        BY <2>1, <2>4 DEF IsNearest
  <2>. QED  BY <2>3, <2>4
<1>. QED  BY <1>1, <1>2

\* The inductive form: the period is written by the line that was answered, or by
\* Begin(), before which nothing was answered.
SpeedInv ==
    /\ IsNearest(ArgumentOf(Trim(line, Blanks)), app.refreshMs, response)
    /\ pc = "start" => response = "none"

\* set_speed applies the period nearest to the number that was typed, and says
\* "clamped" exactly when the two differ, for every string of digits of any length
\* (interpreter.cpp set_speed and parseFullInteger, parameters.cpp setRefresh).
THEOREM SpeedIsAlwaysNearest == Spec => []SpeedIsNearestToTheNumber
<1>1. Init => SpeedInv
      BY DEF Init, SpeedInv, IsNearest, Accepted
<1>2. TypeOK /\ SpeedInv /\ [Next]_vars => SpeedInv'
  <2> SUFFICES ASSUME TypeOK, SpeedInv, [Next]_vars PROVE SpeedInv'
      OBVIOUS
  <2>1. ASSUME NEW l \in Lines, ReadLine(l)
        PROVE  SpeedInv'
    <3>1. app \in App /\ l \in Seq(Symbols)
          BY <2>1, LinesAssumption DEF TypeOK
    <3>2. line' = l /\ app' = ExecuteLine(app, l) /\ response' = app'.message /\ pc' # "start"
          BY <2>1 DEF ReadLine
    <3>3. IsNearest(ArgumentOf(Trim(l, Blanks)), ExecuteLine(app, l).refreshMs, ExecuteLine(app, l).message)
          BY <3>1, ExecuteLineIsNearest
    <3>. QED  BY <3>2, <3>3 DEF SpeedInv
  <2>2. ASSUME NEW ms \in RefreshMin .. RefreshMax, Begin(ms)
        PROVE  SpeedInv'
        BY <2>2 DEF Begin, SpeedInv, IsNearest, Accepted
  <2>3. CASE EndOfInput
        BY <2>3 DEF EndOfInput, SpeedInv
  <2>4. CASE UNCHANGED vars
        BY <2>4 DEF vars, SpeedInv
  <2>. QED  BY <2>1, <2>2, <2>3, <2>4 DEF Next
<1>3. SpeedInv => SpeedIsNearestToTheNumber
      BY DEF SpeedInv, IsNearest, Accepted, SpeedIsNearestToTheNumber
<1>. QED  BY <1>1, <1>2, <1>3, PlainTypeCorrect, PTL DEF Spec

----------------------------------------------------------------------------
(***************************************************************************)
(* Cli and LineProgram.                                                    *)
(***************************************************************************)

Kinds == {"not a number", "clamped", "malformed line", "unknown key", "missing value", "unknown option"}

ParamsType == [refreshMs : RefreshMin .. RefreshMax, pollingMs : PollMin .. PollMax, noTty : BOOLEAN]

\* The inductive form of CliTypeOK: warnings are a sequence, and appending keeps it one.
StartInv == params \in ParamsType /\ warnings \in Seq(Kinds)

LEMMA BuiltInType == BuiltIn \in ParamsType
BY StartAssumption DEF BuiltIn, ParamsType

LEMMA WarningsGrow ==
    ASSUME NEW w \in Seq(Kinds), NEW kind \in Kinds
    PROVE  Append(w, kind) \in Seq(Kinds)
BY AppendProperties

LEMMA WarningType ==
    ASSUME StartInv, NEW kind \in Kinds, Warn(kind), UNCHANGED params
    PROVE  StartInv'
BY WarningsGrow DEF Warn, StartInv

\* A value is taken from any text whatever: a clamped number, or nothing.
LEMMA ApplyValueFlagType ==
    ASSUME StartInv, NEW field \in {"refreshMs", "pollingMs"}, NEW raw, ApplyValueFlag(field, raw)
    PROVE  StartInv'
<1> DEFINE requested == IntegerOf(raw)
           applied   == Clamp(field, requested)
<1>1. CASE requested = NotANumber
  <2>1. Warn("not a number") /\ UNCHANGED params
        BY <1>1 DEF ApplyValueFlag
  <2>2. "not a number" \in Kinds
        BY DEF Kinds
  <2>. QED  BY <2>1, <2>2, WarningType
<1>2. CASE requested # NotANumber
  <2>1. params' = [params EXCEPT ![field] = applied]
        BY <1>2 DEF ApplyValueFlag
  <2>2. UNCHANGED warnings \/ warnings' = Append(warnings, "clamped")
        BY <1>2 DEF ApplyValueFlag, Warn
  <2> HIDE DEF requested
  <2>3. /\ field = "refreshMs" => applied \in RefreshMin .. RefreshMax
        /\ field = "pollingMs" => applied \in PollMin .. PollMax
        BY ClampRefreshInRange, StartAssumption DEF Clamp, ClampPolling
  <2> HIDE DEF applied
  <2>4. params' \in ParamsType
        BY <2>1, <2>3 DEF StartInv, ParamsType
  <2>5. warnings' \in Seq(Kinds)
    <3>1. "clamped" \in Kinds
          BY DEF Kinds
    <3>. QED  BY <2>2, <3>1, WarningsGrow DEF StartInv
  <2>. QED  BY <2>4, <2>5 DEF StartInv
<1>. QED  BY <1>1, <1>2

LEMMA ConfigLineType ==
    ASSUME StartInv, ReadConfigLine
    PROVE  StartInv'
<1>1. \/ UNCHANGED <<params, warnings>>
      \/ Warn("malformed line") /\ UNCHANGED params
      \/ Warn("unknown key") /\ UNCHANGED params
      \/ \E key, value : FieldOfKey(key) # "none" /\ ApplyValueFlag(FieldOfKey(key), value)
      BY Zenon DEF ReadConfigLine
<1>2. CASE UNCHANGED <<params, warnings>>
      BY <1>2 DEF StartInv
<1>3. CASE (Warn("malformed line") \/ Warn("unknown key")) /\ UNCHANGED params
      BY <1>3, WarningType DEF Kinds
<1>4. ASSUME NEW key, NEW value, FieldOfKey(key) # "none", ApplyValueFlag(FieldOfKey(key), value)
      PROVE  StartInv'
  <2>1. FieldOfKey(key) \in {"refreshMs", "pollingMs"}
        BY <1>4 DEF FieldOfKey
  <2>. QED  BY <1>4, <2>1, ApplyValueFlagType
<1>. QED  BY <1>1, <1>2, <1>3, <1>4

LEMMA OptionType ==
    ASSUME StartInv, ReadOption
    PROVE  StartInv'
<1>1. \/ params' = [params EXCEPT !.noTty = TRUE] /\ UNCHANGED warnings
      \/ Warn("missing value") /\ UNCHANGED params
      \/ Warn("unknown option") /\ UNCHANGED params
      \/ \E token, value : FieldOfOption(token) # "none" /\ ApplyValueFlag(FieldOfOption(token), value)
      BY Zenon DEF ReadOption
<1>2. CASE params' = [params EXCEPT !.noTty = TRUE] /\ UNCHANGED warnings
      BY <1>2 DEF StartInv, ParamsType
<1>3. CASE (Warn("missing value") \/ Warn("unknown option")) /\ UNCHANGED params
      BY <1>3, WarningType DEF Kinds
<1>4. ASSUME NEW token, NEW value, FieldOfOption(token) # "none", ApplyValueFlag(FieldOfOption(token), value)
      PROVE  StartInv'
  <2>1. FieldOfOption(token) \in {"refreshMs", "pollingMs"}
        BY <1>4 DEF FieldOfOption
  <2>. QED  BY <1>4, <2>1, ApplyValueFlagType
<1>. QED  BY <1>1, <1>2, <1>3, <1>4

\* No line of the file and no option, however it is written, takes a parameter
\* out of its range (cli.cpp applyValueFlag, parameters.cpp setRefresh, setPolling).
THEOREM StartTypeCorrect == ProgramSpec => []CliTypeOK
<1>1. ProgramInit => StartInv
      BY BuiltInType, EmptySeq DEF ProgramInit, CliInit, StartInv
<1>2. StartInv /\ [ProgramNext]_<<vars, cliVars>> => StartInv'
  <2> SUFFICES ASSUME StartInv, [ProgramNext]_<<vars, cliVars>> PROVE StartInv'
      OBVIOUS
  <2>1. CASE Configure
        BY <2>1, ConfigLineType, OptionType DEF Configure, CliNext
  <2>2. CASE RunPlainLineMode
        BY <2>2, BuiltInType, EmptySeq DEF RunPlainLineMode, StartInv
  <2>3. CASE UNCHANGED cliVars
        BY <2>3 DEF cliVars, StartInv
  <2>. QED  BY <2>1, <2>2, <2>3 DEF ProgramNext
<1>3. StartInv => CliTypeOK
  <2>1. StartInv => Range(warnings) \subseteq Kinds
        BY DEF StartInv, Range
  <2>. QED  BY <2>1 DEF StartInv, ParamsType, Kinds, CliTypeOK
<1>. QED  BY <1>1, <1>2, <1>3, PTL DEF ProgramSpec

\* The program implements the plain line mode: what main() passes to it is always
\* a period it may begin with, and reading the file and the options touches nothing
\* of it (main.cpp main, console_app.cpp run).  So whatever is proved of the line
\* mode holds of the program.
THEOREM ProgramIsPlainLineMode == ProgramSpec => Spec
<1>1. ProgramInit => Init
      BY DEF ProgramInit
<1>2. CliTypeOK /\ [ProgramNext]_<<vars, cliVars>> => [Next]_vars
  <2> SUFFICES ASSUME CliTypeOK, [ProgramNext]_<<vars, cliVars>> PROVE [Next]_vars
      OBVIOUS
  <2>1. CASE Configure
        BY <2>1 DEF Configure
  <2>2. CASE RunPlainLineMode
    <3>1. params.refreshMs \in RefreshMin .. RefreshMax
          BY DEF CliTypeOK
    <3>. QED  BY <2>2, <3>1 DEF RunPlainLineMode, Next
  <2>3. CASE \E l \in Lines : ReadLine(l)
        BY <2>3 DEF Next
  <2>4. CASE EndOfInput
        BY <2>4 DEF Next
  <2>5. CASE UNCHANGED <<vars, cliVars>>
        BY <2>5
  <2>. QED  BY <2>1, <2>2, <2>3, <2>4, <2>5 DEF ProgramNext
<1>. QED  BY <1>1, <1>2, StartTypeCorrect, PTL DEF ProgramSpec, Spec

\* From the built-in defaults through the file, the options and any commands every
\* parameter stays in its range (parameters.cpp setRefresh, setPolling, setText).
THEOREM ProgramTypeCorrect == ProgramSpec => []ProgramTypeOK
<1>1. TypeOK /\ CliTypeOK => ProgramTypeOK
      BY DEF ProgramTypeOK
<1>. QED  BY <1>1, StartTypeCorrect, ProgramIsPlainLineMode, PlainTypeCorrect, PTL

----------------------------------------------------------------------------
\* What is read is what is written: trimming and splitting a line of config.txt.

\* From p to q of s, the trimmed part is from f to u.
IsTrimmed(s, p, q, f, u) ==
    /\ f \in p .. q + 1 /\ u \in f - 1 .. q
    /\ \A i \in p .. f - 1 : s[i] \in LeadingBlanks
    /\ f <= q => s[f] \notin LeadingBlanks
    /\ \A i \in u + 1 .. q : s[i] \in Filler
    /\ f <= u => s[u] \notin Filler

LEMMA PartOfPart ==
    ASSUME NEW S, NEW s \in Seq(S), NEW p \in 1 .. Len(s) + 1, NEW q \in p - 1 .. Len(s),
           NEW m \in 1 .. q - p + 2, NEW n \in m - 1 .. q - p + 1
    PROVE  SubSeq(SubSeq(s, p, q), m, n) = SubSeq(s, p + m - 1, p + n - 1)
<1>1. Len(s) \in Nat /\ p \in Int /\ q \in Int /\ m \in Int /\ n \in Int
      OBVIOUS
<1>2. CASE m <= n
  <2>1. p \in 1 .. Len(s) /\ q \in 1 .. Len(s) /\ m \in 1 .. q - p + 1 /\ n \in 1 .. q - p + 1
        BY <1>1, <1>2
  <2>. QED  BY <2>1, SubSeqOfSubSeq
<1>3. CASE m > n
  <2>1. p + m - 1 > p + n - 1 /\ p + m - 1 \in Int /\ p + n - 1 \in Int
        BY <1>1, <1>3
  <2>2. \A i \in p .. q : s[i] \in S
        BY <1>1
  <2>3. SubSeq(s, p, q) \in Seq(S)
        BY <1>1, <2>2, SubSeqProperties
  <2>4. SubSeq(SubSeq(s, p, q), m, n) = <<>>
        BY <1>1, <1>3, SubSeqEmpty
  <2>5. SubSeq(s, p + m - 1, p + n - 1) = <<>>
        BY <2>1, SubSeqEmpty
  <2>. QED  BY <2>4, <2>5
<1>. QED  BY <1>1, <1>2, <1>3

LEMMA PartProperties ==
    ASSUME NEW S, NEW s \in Seq(S), NEW p \in 1 .. Len(s) + 1, NEW q \in p - 1 .. Len(s)
    PROVE  /\ SubSeq(s, p, q) \in Seq(S)
           /\ Len(SubSeq(s, p, q)) = q - p + 1
           /\ \A i \in 1 .. q - p + 1 : SubSeq(s, p, q)[i] = s[p + i - 1]
<1>1. Len(s) \in Nat /\ p \in Int /\ q \in Int
      OBVIOUS
<1>2. \A i \in p .. q : s[i] \in S
      BY <1>1
<1>. QED  BY <1>1, <1>2, SubSeqProperties

LEMMA TrimLinePositions ==
    ASSUME NEW S, NEW s \in Seq(S), NEW p \in 1 .. Len(s) + 1, NEW q \in p - 1 .. Len(s)
    PROVE  \E f, u \in Int : IsTrimmed(s, p, q, f, u) /\ TrimLine(SubSeq(s, p, q)) = SubSeq(s, f, u)
<1> DEFINE t == SubSeq(s, p, q)
           n == q - p + 1
           Heads == {i \in DOMAIN t : t[i] \notin LeadingBlanks} \cup {Len(t) + 1}
           from == Min(Heads)
           Ends == {i \in from .. Len(t) : t[i] \notin LeadingBlanks \cup {"CR"}} \cup {from - 1}
           upTo == Max(Ends)
           f == p + from - 1
           u == p + upTo - 1
<1>1. Len(s) \in Nat /\ p \in Int /\ q \in Int /\ n \in Nat
      OBVIOUS
<1>2. t \in Seq(S) /\ Len(t) = n /\ \A i \in 1 .. n : t[i] = s[p + i - 1]
      BY PartProperties
<1>3. TrimLine(t) = SubSeq(t, from, upTo)
      BY DEF TrimLine
<1> HIDE DEF t
<1>4. DOMAIN t = 1 .. n
      BY <1>2
<1>5. Heads \subseteq 1 .. n + 1 /\ Heads # {}
      BY <1>1, <1>2, <1>4
<1>6. Heads \subseteq Nat
      BY <1>1, <1>5
<1>7. from \in Heads /\ \A y \in Heads : from <= y
      BY <1>5, <1>6, LeastOf
<1>8. /\ from \in 1 .. n + 1
      /\ from <= n => t[from] \notin LeadingBlanks
      /\ \A i \in 1 .. from - 1 : t[i] \in LeadingBlanks
  <2>1. \A i \in 1 .. n : t[i] \notin LeadingBlanks => from <= i
        BY <1>4, <1>7
  <2>2. from \in 1 .. n + 1 /\ (from <= n => t[from] \notin LeadingBlanks)
        BY <1>1, <1>2, <1>4, <1>5, <1>7
  <2> HIDE DEF from
  <2>. QED  BY <1>1, <2>1, <2>2
<1> HIDE DEF from, Heads
<1>9. Ends \subseteq 0 .. n /\ Ends # {}
      BY <1>1, <1>2, <1>8
<1>10. upTo \in Ends /\ \A y \in Ends : upTo >= y
       BY <1>1, <1>9, GreatestOf
<1>11. /\ upTo \in from - 1 .. n
       /\ from <= upTo => t[upTo] \notin Filler
       /\ \A i \in upTo + 1 .. n : t[i] \in Filler
  <2>1. \A i \in from .. n : t[i] \notin Filler => upTo >= i
        BY <1>2, <1>10 DEF Filler
  <2>2. upTo \in from - 1 .. n /\ (from <= upTo => t[upTo] \notin Filler)
        BY <1>1, <1>2, <1>8, <1>10 DEF Filler
  <2> HIDE DEF upTo
  <2>. QED  BY <1>1, <1>8, <2>1, <2>2
<1> HIDE DEF upTo, Ends
<1>12. \A i \in p .. q : i - p + 1 \in 1 .. n /\ s[i] = t[i - p + 1]
  <2> SUFFICES ASSUME NEW i \in p .. q PROVE i - p + 1 \in 1 .. n /\ s[i] = t[i - p + 1]
      OBVIOUS
  <2>1. i - p + 1 \in 1 .. n /\ p + (i - p + 1) - 1 = i
        BY <1>1
  <2>. QED  BY <1>2, <2>1
<1>13. IsTrimmed(s, p, q, f, u)
  <2>1. f \in p .. q + 1 /\ u \in f - 1 .. q
        BY <1>1, <1>8, <1>11
  <2>2. \A i \in p .. f - 1 : s[i] \in LeadingBlanks
    <3> SUFFICES ASSUME NEW i \in p .. f - 1 PROVE s[i] \in LeadingBlanks
        OBVIOUS
    <3>1. i \in p .. q /\ i - p + 1 \in 1 .. from - 1
          BY <1>1, <1>8
    <3>. QED  BY <1>8, <1>12, <3>1
  <2>3. f <= q => s[f] \notin LeadingBlanks
    <3> HAVE f <= q
    <3>1. f \in p .. q /\ f - p + 1 = from /\ from <= n
          BY <1>1, <1>8
    <3> HIDE DEF f
    <3>. QED  BY <1>8, <1>12, <3>1
  <2>4. \A i \in u + 1 .. q : s[i] \in Filler
    <3> SUFFICES ASSUME NEW i \in u + 1 .. q PROVE s[i] \in Filler
        OBVIOUS
    <3>1. i \in p .. q /\ i - p + 1 \in upTo + 1 .. n
          BY <1>1, <1>8, <1>11
    <3>. QED  BY <1>11, <1>12, <3>1
  <2>5. f <= u => s[u] \notin Filler
    <3> HAVE f <= u
    <3>1. u \in p .. q /\ u - p + 1 = upTo /\ from <= upTo
          BY <1>1, <1>8, <1>11
    <3> HIDE DEF u
    <3>. QED  BY <1>11, <1>12, <3>1
  <2> HIDE DEF f, u
  <2>. QED  BY <2>1, <2>2, <2>3, <2>4, <2>5 DEF IsTrimmed
<1>14. SubSeq(t, from, upTo) = SubSeq(s, f, u)
  <2>1. from \in 1 .. q - p + 2 /\ upTo \in from - 1 .. q - p + 1
        BY <1>1, <1>8, <1>11
  <2>. QED  BY <2>1, PartOfPart DEF t
<1>15. f \in Int /\ u \in Int
       BY <1>1, <1>8, <1>11
<1> HIDE DEF f, u
<1>. QED  BY <1>3, <1>13, <1>14, <1>15 DEF t

\* There is only one trimmed part: it begins and ends where something does.
LEMMA TrimmedIsUnique ==
    ASSUME NEW s, NEW p \in Int, NEW q \in Int, NEW f, NEW u, IsTrimmed(s, p, q, f, u),
           NEW k \in p .. q, NEW b \in k .. q,
           \A i \in p .. k - 1 : s[i] \in LeadingBlanks, \A i \in b + 1 .. q : s[i] \in Filler,
           s[k] \notin LeadingBlanks, s[k] \notin Filler, s[b] \notin Filler
    PROVE  f = k /\ u = b
<1>1. /\ f \in p .. q + 1 /\ u \in f - 1 .. q
      /\ \A i \in p .. f - 1 : s[i] \in LeadingBlanks
      /\ f <= q => s[f] \notin LeadingBlanks
      /\ \A i \in u + 1 .. q : s[i] \in Filler
      /\ f <= u => s[u] \notin Filler
      BY DEF IsTrimmed
<1>2. f = k
  <2>1. CASE f < k
    <3>1. f \in p .. k - 1 /\ f <= q
          BY <1>1, <2>1
    <3>. QED  BY <1>1, <3>1
  <2>2. CASE f > k
    <3>1. k \in p .. f - 1
          BY <1>1, <2>2
    <3>. QED  BY <1>1, <3>1
  <2>. QED  BY <1>1, <2>1, <2>2
<1>3. u = b
  <2>1. CASE u < b
    <3>1. b \in u + 1 .. q
          BY <1>1, <2>1
    <3>. QED  BY <1>1, <3>1
  <2>2. CASE u > b
    <3>1. u \in b + 1 .. q /\ f <= u
          BY <1>1, <1>2, <2>2
    <3>. QED  BY <1>1, <3>1
  <2>. QED  BY <1>1, <2>1, <2>2
<1>. QED  BY <1>2, <1>3

\* The names ReadConfigLine has for the parts of a line.
EqualsOf(stripped) == Min({i \in DOMAIN stripped : stripped[i] = "="} \cup {Len(stripped) + 1})
KeyOf(stripped)    == TrimLine(SubSeq(stripped, 1, EqualsOf(stripped) - 1))
ValueOf(stripped)  == TrimLine(SubSeq(stripped, EqualsOf(stripped) + 1, Len(stripped)))

\* Where they are in s: the line from f to u, the first equals sign of it at e, the
\* key from kf to ku and the value from vf to vu.
ArePlaces(s, f, u, e, kf, ku, vf, vu) ==
    /\ IsTrimmed(s, 1, Len(s), f, u)
    /\ e \in f .. u + 1 /\ (e <= u => s[e] = "=") /\ \A j \in f .. e - 1 : s[j] # "="
    /\ IsTrimmed(s, f, e - 1, kf, ku)
    /\ e <= u => IsTrimmed(s, e + 1, u, vf, vu)

AreParts(s, stripped, f, u, e, kf, ku, vf, vu) ==
    /\ stripped = SubSeq(s, f, u)
    /\ Len(stripped) = u - f + 1
    /\ f <= u => stripped[1] = s[f]
    /\ EqualsOf(stripped) = e - f + 1
    /\ KeyOf(stripped) = SubSeq(s, kf, ku)
    /\ e <= u => ValueOf(stripped) = SubSeq(s, vf, vu)

LEMMA PlacesExist ==
    ASSUME NEW S, NEW s \in Seq(S)
    PROVE  \E f, u, e, kf, ku, vf, vu \in Int :
               /\ ArePlaces(s, f, u, e, kf, ku, vf, vu)
               /\ AreParts(s, TrimLine(s), f, u, e, kf, ku, vf, vu)
<1>1. Len(s) \in Nat /\ SubSeq(s, 1, Len(s)) = s
      BY SubSeqFull
<1>2. PICK f, u \in Int : IsTrimmed(s, 1, Len(s), f, u) /\ TrimLine(SubSeq(s, 1, Len(s))) = SubSeq(s, f, u)
  <2>1. 1 \in 1 .. Len(s) + 1 /\ Len(s) \in 1 - 1 .. Len(s)
        BY <1>1
  <2>. QED  BY <2>1, TrimLinePositions
<1>3. f \in 1 .. Len(s) + 1 /\ u \in f - 1 .. Len(s)
      BY <1>2 DEF IsTrimmed
<1> DEFINE stripped == SubSeq(s, f, u)
           n == u - f + 1
           T == {i \in DOMAIN stripped : stripped[i] = "="} \cup {Len(stripped) + 1}
           eq == Min(T)
           e == f + eq - 1
<1>4. stripped \in Seq(S) /\ Len(stripped) = n /\ \A i \in 1 .. n : stripped[i] = s[f + i - 1]
      BY <1>3, PartProperties
<1>5. n \in Nat
      BY <1>1, <1>3
<1>6. EqualsOf(stripped) = eq
      BY DEF EqualsOf
<1> HIDE DEF stripped
<1>7. DOMAIN stripped = 1 .. n
      BY <1>4
<1>8. T \subseteq 1 .. n + 1 /\ T \subseteq Nat /\ T # {}
      BY <1>4, <1>5, <1>7
<1>9. eq \in T /\ \A y \in T : eq <= y
      BY <1>8, LeastOf
<1>10. /\ eq \in 1 .. n + 1
       /\ eq <= n => stripped[eq] = "="
       /\ \A j \in 1 .. eq - 1 : stripped[j] # "="
  <2>1. \A j \in 1 .. n : stripped[j] = "=" => eq <= j
        BY <1>7, <1>9
  <2>2. eq \in 1 .. n + 1 /\ (eq <= n => stripped[eq] = "=")
        BY <1>4, <1>5, <1>7, <1>8, <1>9
  <2> HIDE DEF eq
  <2>. QED  BY <1>5, <2>1, <2>2
<1> HIDE DEF eq, T
<1>11. e \in f .. u + 1 /\ (e <= u => s[e] = "=") /\ \A j \in f .. e - 1 : s[j] # "="
  <2>1. e \in f .. u + 1
        BY <1>1, <1>3, <1>10
  <2>2. e <= u => s[e] = "="
        BY <1>1, <1>3, <1>4, <1>10
  <2>3. ASSUME NEW j \in f .. e - 1
        PROVE  s[j] # "="
    <3>1. j - f + 1 \in 1 .. eq - 1 /\ j - f + 1 \in 1 .. n /\ f + (j - f + 1) - 1 = j
          BY <1>1, <1>3, <1>10
    <3>. QED  BY <1>4, <1>10, <3>1
  <2>. QED  BY <2>1, <2>2, <2>3
<1>12. SubSeq(stripped, 1, eq - 1) = SubSeq(s, f, e - 1)
  <2>1. 1 \in 1 .. u - f + 2 /\ eq - 1 \in 1 - 1 .. u - f + 1 /\ f + 1 - 1 = f /\ f + (eq - 1) - 1 = e - 1
        BY <1>1, <1>3, <1>10
  <2>. QED  BY <1>3, <2>1, PartOfPart DEF stripped
<1>13. PICK kf, ku \in Int : IsTrimmed(s, f, e - 1, kf, ku) /\ TrimLine(SubSeq(s, f, e - 1)) = SubSeq(s, kf, ku)
  <2>1. e - 1 \in f - 1 .. Len(s)
        BY <1>1, <1>3, <1>11
  <2> HIDE DEF e
  <2>. QED  BY <1>3, <2>1, TrimLinePositions
<1>14. KeyOf(stripped) = SubSeq(s, kf, ku)
       BY <1>6, <1>12, <1>13 DEF KeyOf
<1>15. \E vf, vu \in Int : e <= u => IsTrimmed(s, e + 1, u, vf, vu) /\ ValueOf(stripped) = SubSeq(s, vf, vu)
  <2>1. CASE e <= u
    <3>1. SubSeq(stripped, eq + 1, Len(stripped)) = SubSeq(s, e + 1, u)
      <4> DEFINE m == eq + 1
      <4>1. m \in 1 .. u - f + 2 /\ n \in m - 1 .. u - f + 1
            BY <1>1, <1>3, <1>10, <2>1
      <4>2. f + m - 1 = e + 1 /\ f + n - 1 = u
            BY <1>1, <1>3, <1>10
      <4> HIDE DEF e, n, m
      <4>3. SubSeq(SubSeq(s, f, u), m, n) = SubSeq(s, f + m - 1, f + n - 1)
            BY <1>3, <4>1, PartOfPart
      <4>. QED  BY <1>4, <4>2, <4>3 DEF stripped, m
    <3>2. e + 1 \in 1 .. Len(s) + 1 /\ u \in (e + 1) - 1 .. Len(s)
          BY <1>1, <1>3, <1>11, <2>1
    <3> HIDE DEF e
    <3>3. PICK vf, vu \in Int : IsTrimmed(s, e + 1, u, vf, vu) /\ TrimLine(SubSeq(s, e + 1, u)) = SubSeq(s, vf, vu)
          BY <3>2, TrimLinePositions
    <3>4. ValueOf(stripped) = SubSeq(s, vf, vu)
          BY <1>6, <3>1, <3>3 DEF ValueOf
    <3>. QED  BY <3>3, <3>4
  <2>2. CASE ~ (e <= u)
        BY <2>2
  <2>. QED  BY <2>1, <2>2
<1>16. PICK vf, vu \in Int : e <= u => IsTrimmed(s, e + 1, u, vf, vu) /\ ValueOf(stripped) = SubSeq(s, vf, vu)
       BY <1>15
<1>17. e \in Int /\ eq = e - f + 1
       BY <1>3, <1>10
<1>18. f <= u => stripped[1] = s[f]
  <2> HAVE f <= u
  <2>1. 1 \in 1 .. n /\ f + 1 - 1 = f
        BY <1>3
  <2>. QED  BY <1>4, <2>1
<1> HIDE DEF e
<1>19. ArePlaces(s, f, u, e, kf, ku, vf, vu)
       BY <1>2, <1>11, <1>13, <1>16 DEF ArePlaces
<1>20. AreParts(s, stripped, f, u, e, kf, ku, vf, vu)
       BY <1>4, <1>6, <1>14, <1>16, <1>17, <1>18 DEF AreParts, stripped
<1>21. TrimLine(s) = stripped
       BY <1>1, <1>2 DEF stripped
<1>. QED  BY <1>17, <1>19, <1>20, <1>21

\* Bytes that begin a part of a line are no fillers.
LEMMA NotFillers ==
    /\ LeadingBlanks \subseteq Filler /\ "=" \notin Filler /\ "#" \notin Filler
    /\ "refresh_ms" \notin Filler /\ "polling_ms" \notin Filler
    /\ "refresh_ms" \notin {"=", "#"} /\ "polling_ms" \notin {"=", "#"}
    /\ \A d \in Signs \cup Range(DigitNames) : d \notin Filler
<1>1. \A d \in Range(DigitNames) : d \in {"0", "1", "2", "3", "4", "5", "6", "7", "8", "9"}
      BY DEF Range, DigitNames
<1>. QED  BY <1>1 DEF Filler, LeadingBlanks, Space, Signs

\* An integer begins with a sign or a digit and ends with a digit.
LEMMA IntegerEnds ==
    ASSUME NEW S, NEW w \in Seq(S), IsInteger(w)
    PROVE  /\ Len(w) \in Nat \ {0}
           /\ w[1] \in Signs \cup Range(DigitNames)
           /\ w[Len(w)] \in Range(DigitNames)
<1>1. Len(w) \in Nat
      OBVIOUS
<1>2. CASE w # <<>> /\ w[1] \in Signs
  <2>1. Tail(w) # <<>> /\ Range(Tail(w)) \subseteq Range(DigitNames)
        BY <1>2 DEF IsInteger
  <2>2. Len(Tail(w)) = Len(w) - 1 /\ DOMAIN Tail(w) = 1 .. Len(w) - 1 /\ \A i \in 1 .. Len(w) - 1 : Tail(w)[i] = w[i + 1]
        BY <1>2, HeadTailProperties
  <2>3. Tail(w) \in Seq(S)
        BY <1>2, HeadTailProperties
  <2>4. Len(Tail(w)) \in Nat /\ Len(Tail(w)) # 0
        BY <2>1, <2>3, EmptySeq
  <2> DEFINE n == Len(w)
  <2>5. n - 1 \in 1 .. n - 1 /\ (n - 1) + 1 = n /\ n \in Nat \ {0}
    <3>1. n \in Nat /\ n - 1 \in Nat /\ n - 1 # 0
          BY <1>1, <2>2, <2>4
    <3> HIDE DEF n
    <3>. QED  BY <3>1
  <2>6. Tail(w)[Len(w) - 1] \in Range(DigitNames)
        BY <2>1, <2>2, <2>5 DEF Range
  <2>7. Tail(w)[Len(w) - 1] = w[Len(w)]
        BY <2>2, <2>5
  <2>. QED  BY <1>2, <2>5, <2>6, <2>7
<1>3. CASE ~ (w # <<>> /\ w[1] \in Signs)
  <2>1. w # <<>> /\ Range(w) \subseteq Range(DigitNames)
        BY <1>3 DEF IsInteger
  <2>2. Len(w) \in Nat \ {0} /\ DOMAIN w = 1 .. Len(w)
        BY <1>1, <2>1, EmptySeq
  <2>3. w[1] \in Range(w) /\ w[Len(w)] \in Range(w)
        BY <2>2 DEF Range
  <2>. QED  BY <2>1, <2>2, <2>3
<1>. QED  BY <1>2, <1>3

LEMMA OneOfSequence ==
    ASSUME NEW S, NEW s \in Seq(S), NEW k \in 1 .. Len(s)
    PROVE  SubSeq(s, k, k) = <<s[k]>>
<1>1. SubSeq(s, k, k) = <<s[k]>> \o SubSeq(s, k + 1, k)
      BY SubSeqRecursiveFirst
<1>2. SubSeq(s, k + 1, k) = <<>>
      BY SubSeqEmpty
<1>3. <<s[k]>> \o <<>> = <<s[k]>>
  <2>1. <<s[k]>> \in Seq(S)
        OBVIOUS
  <2>. QED  BY <2>1, ConcatEmptySeq
<1>. QED  BY <1>1, <1>2, <1>3

\* What is written as a setting is taken as one.
LEMMA SettingIsTaken ==
    ASSUME NEW S, NEW s \in Seq(S), NEW name \in {"refresh_ms", "polling_ms"}, NEW stripped,
           NEW f \in Int, NEW u \in Int, NEW e \in Int, NEW kf \in Int, NEW ku \in Int, NEW vf \in Int, NEW vu \in Int,
           ArePlaces(s, f, u, e, kf, ku, vf, vu), AreParts(s, stripped, f, u, e, kf, ku, vf, vu),
           NEW k \in DOMAIN s, NEW m \in DOMAIN s, NEW a \in DOMAIN s, NEW b \in DOMAIN s,
           IsSetting(s, name, k, m, a, b)
    PROVE  /\ stripped # <<>> /\ stripped[1] # "#"
           /\ EqualsOf(stripped) <= Len(stripped)
           /\ KeyOf(stripped) = <<name>> /\ ValueOf(stripped) = SubSeq(s, a, b)
<1> DEFINE n == Len(s)
<1>1. n \in Nat /\ DOMAIN s = 1 .. n
      OBVIOUS
<1> HIDE DEF n
<1>2. /\ k < m /\ m < a /\ a <= b /\ k \in 1 .. n /\ m \in 1 .. n /\ a \in 1 .. n /\ b \in 1 .. n
      /\ s[k] = name /\ s[m] = "=" /\ IsInteger(SubSeq(s, a, b))
      /\ \A i \in 1 .. n : (i < k \/ (m < i /\ i < a) => s[i] \in LeadingBlanks)
                           /\ ((k < i /\ i < m) \/ b < i => s[i] \in Filler)
      BY <1>1 DEF IsSetting
<1>3. s[a] \in Signs \cup Range(DigitNames) /\ s[b] \in Range(DigitNames)
  <2> DEFINE w == SubSeq(s, a, b)
  <2>1. w \in Seq(S) /\ Len(w) = b - a + 1 /\ \A i \in 1 .. b - a + 1 : w[i] = s[a + i - 1]
    <3>1. a \in 1 .. Len(s) + 1 /\ b \in a - 1 .. Len(s)
          BY <1>1, <1>2 DEF n
    <3>. QED  BY <3>1, PartProperties
  <2>2. w[1] = s[a] /\ w[Len(w)] = s[b]
    <3> HIDE DEF w
    <3>1. 1 \in 1 .. b - a + 1 /\ b - a + 1 \in 1 .. b - a + 1 /\ a + 1 - 1 = a /\ a + (b - a + 1) - 1 = b
          BY <1>1, <1>2, SMTT(30)
    <3>. QED  BY <2>1, <3>1
  <2>. QED  BY <1>2, <2>1, <2>2, IntegerEnds
<1>4. s[k] \notin Filler /\ s[a] \notin Filler /\ s[b] \notin Filler /\ s[m] \notin Filler
      BY <1>2, <1>3, NotFillers
<1>5. s[k] \notin LeadingBlanks /\ s[a] \notin LeadingBlanks
      BY <1>4, NotFillers
<1>6. IsTrimmed(s, 1, n, f, u)
      BY DEF ArePlaces, n
<1>7. f = k /\ u = b
  <2>1. k \in 1 .. n /\ b \in k .. n
        BY <1>1, <1>2
  <2>2. (\A i \in 1 .. k - 1 : s[i] \in LeadingBlanks) /\ (\A i \in b + 1 .. n : s[i] \in Filler)
        BY <1>1, <1>2, SMTT(30)
  <2> DEFINE p == 1
  <2>3. p \in Int /\ n \in Int /\ IsTrimmed(s, p, n, f, u) /\ k \in p .. n /\ \A i \in p .. k - 1 : s[i] \in LeadingBlanks
        BY <1>1, <1>6, <2>1, <2>2
  <2> HIDE DEF p
  <2>. QED  BY <1>4, <1>5, <2>1, <2>2, <2>3, TrimmedIsUnique
<1>8. e \in k .. b + 1 /\ (e <= b => s[e] = "=") /\ \A j \in k .. e - 1 : s[j] # "="
      BY <1>7 DEF ArePlaces
<1>9. e = m
  <2>1. CASE e < m
    <3>1. CASE e = k
          BY <1>2, <1>8, <2>1, <3>1, NotFillers, SMTT(30)
    <3>2. CASE e # k
      <4>1. e \in 1 .. n /\ k < e
            BY <1>1, <1>2, <1>8, <2>1, <3>2
      <4>2. s[e] \in Filler /\ s[e] = "="
            BY <1>2, <1>8, <2>1, <4>1, SMTT(30)
      <4>. QED  BY <4>2, NotFillers
    <3>. QED  BY <3>1, <3>2
  <2>2. CASE e > m
    <3>1. m \in k .. e - 1
          BY <1>2, <1>8, <2>2
    <3>. QED  BY <1>2, <1>8, <3>1
  <2>. QED  BY <1>2, <1>8, <2>1, <2>2
<1>10. kf = k /\ ku = k
  <2>1. IsTrimmed(s, k, m - 1, kf, ku)
        BY <1>7, <1>9 DEF ArePlaces
  <2>2. k \in k .. m - 1 /\ k \in Int /\ m - 1 \in Int
        BY <1>2
  <2>3. (\A i \in k .. k - 1 : s[i] \in LeadingBlanks) /\ (\A i \in k + 1 .. m - 1 : s[i] \in Filler)
        BY <1>1, <1>2, SMTT(30)
  <2>4. k \in k .. k /\ \A i \in k .. m - 1 : i \in Int
        BY <1>2
  <2> DEFINE q == m - 1
  <2>5. IsTrimmed(s, k, q, kf, ku) /\ q \in Int /\ k \in k .. q /\ \A i \in k + 1 .. q : s[i] \in Filler
        BY <2>1, <2>2, <2>3
  <2> HIDE DEF q
  <2>6. k \in Int /\ k \in k .. q
        BY <2>2, <2>5
  <2>. QED  BY <1>4, <1>5, <2>3, <2>5, <2>6, TrimmedIsUnique
<1>11. vf = a /\ vu = b
  <2> DEFINE p == m + 1
  <2>1. IsTrimmed(s, p, b, vf, vu)
        BY <1>1, <1>2, <1>7, <1>9 DEF ArePlaces
  <2>2. p \in Int /\ b \in Int /\ a \in p .. b /\ b \in a .. b
        BY <1>1, <1>2
  <2>3. (\A i \in p .. a - 1 : s[i] \in LeadingBlanks) /\ (\A i \in b + 1 .. b : s[i] \in Filler)
        BY <1>1, <1>2, SMTT(30)
  <2> HIDE DEF p
  <2>. QED  BY <1>4, <1>5, <2>1, <2>2, <2>3, TrimmedIsUnique
<1>12. /\ Len(stripped) = b - k + 1 /\ stripped[1] = s[k] /\ EqualsOf(stripped) = m - k + 1
       /\ KeyOf(stripped) = SubSeq(s, k, k) /\ ValueOf(stripped) = SubSeq(s, a, b)
  <2>1. k <= b /\ m <= b
        BY <1>1, <1>2
  <2>2. AreParts(s, stripped, k, b, m, k, k, a, b)
        BY <1>7, <1>9, <1>10, <1>11
  <2>. QED  BY <2>1, <2>2 DEF AreParts
<1>13. SubSeq(s, k, k) = <<name>>
  <2>1. k \in 1 .. Len(s)
        BY <1>1, <1>2 DEF n
  <2>. QED  BY <1>2, <2>1, OneOfSequence
<1>14. stripped # <<>> /\ EqualsOf(stripped) <= Len(stripped)
  <2>1. b - k + 1 # 0 /\ m - k + 1 <= b - k + 1
        BY <1>1, <1>2
  <2>2. Len(stripped) # 0
        BY <1>12, <2>1
  <2>. QED  BY <1>12, <2>1, <2>2
<1>. QED  BY <1>2, <1>12, <1>13, <1>14, NotFillers

\* And what is taken as a setting was written as one.
LEMMA TakenIsSetting ==
    ASSUME NEW S, NEW s \in Seq(S), NEW name, NEW stripped,
           NEW f \in Int, NEW u \in Int, NEW e \in Int, NEW kf \in Int, NEW ku \in Int, NEW vf \in Int, NEW vu \in Int,
           ArePlaces(s, f, u, e, kf, ku, vf, vu), AreParts(s, stripped, f, u, e, kf, ku, vf, vu),
           EqualsOf(stripped) <= Len(stripped), KeyOf(stripped) = <<name>>, IsInteger(ValueOf(stripped))
    PROVE  /\ kf \in DOMAIN s /\ e \in DOMAIN s /\ vf \in DOMAIN s /\ vu \in DOMAIN s
           /\ IsSetting(s, name, kf, e, vf, vu)
<1> DEFINE n == Len(s)
<1>1. n \in Nat /\ DOMAIN s = 1 .. n
      OBVIOUS
<1> HIDE DEF n
<1>2. /\ f \in 1 .. n + 1 /\ u \in f - 1 .. n
      /\ \A i \in 1 .. f - 1 : s[i] \in LeadingBlanks
      /\ \A i \in u + 1 .. n : s[i] \in Filler
      BY DEF ArePlaces, IsTrimmed, n
<1>3. e \in f .. u /\ s[e] = "="
  <2>1. e - f + 1 <= u - f + 1 /\ e \in f .. u + 1 /\ (e <= u => s[e] = "=")
        BY DEF ArePlaces, AreParts
  <2>. QED  BY <2>1
<1>4. /\ kf \in f .. e /\ ku \in kf - 1 .. e - 1
      /\ \A i \in f .. kf - 1 : s[i] \in LeadingBlanks
      /\ \A i \in ku + 1 .. e - 1 : s[i] \in Filler
  <2>1. (e - 1) + 1 = e
        OBVIOUS
  <2>. QED  BY <2>1 DEF ArePlaces, IsTrimmed
<1>5. /\ vf \in e + 1 .. u + 1 /\ vu \in vf - 1 .. u
      /\ \A i \in e + 1 .. vf - 1 : s[i] \in LeadingBlanks
      /\ \A i \in vu + 1 .. u : s[i] \in Filler
      BY <1>3 DEF ArePlaces, IsTrimmed
<1>6. ku = kf /\ s[kf] = name
  <2>1. kf \in 1 .. n + 1 /\ ku \in kf - 1 .. n
        BY <1>1, <1>2, <1>3, <1>4
  <2>2. SubSeq(s, kf, ku) = <<name>>
        BY DEF AreParts
  <2>3. Len(SubSeq(s, kf, ku)) = ku - kf + 1 /\ \A i \in 1 .. ku - kf + 1 : SubSeq(s, kf, ku)[i] = s[kf + i - 1]
        BY <2>1, PartProperties DEF n
  <2>4. Len(<<name>>) = 1 /\ <<name>>[1] = name
        OBVIOUS
  <2>5. ku - kf + 1 = 1
        BY <2>2, <2>3, <2>4
  <2>6. 1 \in 1 .. ku - kf + 1 /\ kf + 1 - 1 = kf
        BY <2>5
  <2>. QED  BY <2>2, <2>3, <2>4, <2>5, <2>6
<1>7. vf <= vu /\ IsInteger(SubSeq(s, vf, vu))
  <2>1. vf \in 1 .. n + 1 /\ vu \in vf - 1 .. n
        BY <1>1, <1>2, <1>3, <1>5
  <2>2. SubSeq(s, vf, vu) \in Seq(S) /\ Len(SubSeq(s, vf, vu)) = vu - vf + 1
        BY <2>1, PartProperties DEF n
  <2>3. ValueOf(stripped) = SubSeq(s, vf, vu)
        BY <1>3 DEF AreParts
  <2>4. Len(SubSeq(s, vf, vu)) \in Nat \ {0}
        BY <2>2, <2>3, IntegerEnds
  <2>. QED  BY <2>2, <2>3, <2>4
<1>8. /\ kf < e /\ e < vf
      /\ kf \in 1 .. n /\ e \in 1 .. n /\ vf \in 1 .. n /\ vu \in 1 .. n
      BY <1>1, <1>2, <1>3, <1>4, <1>5, <1>6, <1>7
<1>9. ASSUME NEW i \in 1 .. n
      PROVE  /\ i < kf \/ (e < i /\ i < vf) => s[i] \in LeadingBlanks
             /\ (kf < i /\ i < e) \/ vu < i => s[i] \in Filler
  <2>1. i < kf => s[i] \in LeadingBlanks
    <3>1. i < kf => i \in 1 .. f - 1 \/ i \in f .. kf - 1
          BY <1>2, <1>4
    <3>. QED  BY <1>2, <1>4, <3>1
  <2>2. e < i /\ i < vf => s[i] \in LeadingBlanks
    <3>1. e < i /\ i < vf => i \in e + 1 .. vf - 1
          BY <1>5
    <3>. QED  BY <1>5, <3>1
  <2>3. kf < i /\ i < e => s[i] \in Filler
    <3>1. kf < i /\ i < e => i \in ku + 1 .. e - 1
          BY <1>6
    <3>. QED  BY <1>4, <3>1
  <2>4. vu < i => s[i] \in Filler
    <3>1. vu < i => i \in vu + 1 .. u \/ i \in u + 1 .. n
          BY <1>1, <1>2, <1>5
    <3>. QED  BY <1>2, <1>5, <3>1
  <2>. QED  BY <2>1, <2>2, <2>3, <2>4
<1>. QED  BY <1>1, <1>3, <1>6, <1>7, <1>8, <1>9 DEF IsSetting

\* A line that is skipped is blank or a comment, and the other way round.
LEMMA NothingIsSkipped ==
    ASSUME NEW S, NEW s \in Seq(S), NEW stripped,
           NEW f \in Int, NEW u \in Int, NEW e \in Int, NEW kf \in Int, NEW ku \in Int, NEW vf \in Int, NEW vu \in Int,
           ArePlaces(s, f, u, e, kf, ku, vf, vu), AreParts(s, stripped, f, u, e, kf, ku, vf, vu)
    PROVE  (stripped = <<>> \/ stripped[1] = "#") <=> SaysNothing(s)
<1> DEFINE n == Len(s)
<1>1. n \in Nat /\ DOMAIN s = 1 .. n
      OBVIOUS
<1> HIDE DEF n
<1>2. /\ f \in 1 .. n + 1 /\ u \in f - 1 .. n
      /\ \A i \in 1 .. f - 1 : s[i] \in LeadingBlanks
      /\ f <= n => s[f] \notin LeadingBlanks
      /\ \A i \in u + 1 .. n : s[i] \in Filler
      /\ f <= u => s[u] \notin Filler
      BY DEF ArePlaces, IsTrimmed, n
<1>3. /\ stripped = SubSeq(s, f, u) /\ Len(stripped) = u - f + 1
      /\ f <= u => stripped[1] = s[f]
      BY DEF AreParts
<1>4. stripped = <<>> <=> u = f - 1
  <2>1. SubSeq(s, f, u) \in Seq(S)
        BY <1>2, PartProperties DEF n
  <2>2. stripped = <<>> <=> Len(stripped) = 0
        BY <1>3, <2>1, EmptySeq
  <2>. QED  BY <1>1, <1>2, <1>3, <2>2
<1>5. ASSUME stripped = <<>>
      PROVE  SaysNothing(s)
  <2>1. \A i \in 1 .. n : i \in 1 .. f - 1 \/ i \in u + 1 .. n
        BY <1>1, <1>2, <1>4, <1>5
  <2>2. \A i \in 1 .. n : s[i] \in Filler
        BY <1>2, <2>1, NotFillers
  <2>3. Range(s) \subseteq Filler
        BY <1>1, <2>2 DEF Range
  <2>. QED  BY <2>3 DEF SaysNothing
<1>6. ASSUME stripped # <<>>, stripped[1] = "#"
      PROVE  SaysNothing(s)
  <2>1. f <= u /\ f \in 1 .. n
        BY <1>1, <1>2, <1>4, <1>6
  <2>2. s[f] = "#"
        BY <1>3, <1>6, <2>1
  <2>. QED  BY <1>1, <1>2, <2>1, <2>2 DEF SaysNothing
<1>7. ASSUME Range(s) \subseteq Filler
      PROVE  stripped = <<>>
  <2>1. \A i \in 1 .. n : s[i] \in Filler
        BY <1>1, <1>7 DEF Range
  <2>2. f <= u => u \in 1 .. n
        BY <1>1, <1>2
  <2>3. ~ (f <= u)
        BY <1>2, <2>1, <2>2
  <2>. QED  BY <1>2, <1>4, <2>3
<1>8. ASSUME NEW i \in 1 .. n, s[i] = "#", \A j \in 1 .. i - 1 : s[j] \in LeadingBlanks
      PROVE  stripped # <<>> /\ stripped[1] = "#"
  <2>1. s[i] \notin Filler /\ s[i] \notin LeadingBlanks
        BY <1>8, NotFillers
  <2>2. ~ (f > i)
    <3> SUFFICES ASSUME f > i PROVE FALSE
        OBVIOUS
    <3>1. i \in 1 .. f - 1
          BY <1>2
    <3>. QED  BY <1>2, <2>1, <3>1
  <2>3. ~ (f < i)
    <3> SUFFICES ASSUME f < i PROVE FALSE
        OBVIOUS
    <3>1. f \in 1 .. i - 1 /\ f <= n
          BY <1>1, <1>2
    <3>. QED  BY <1>2, <1>8, <3>1
  <2>4. f = i
        BY <1>2, <2>2, <2>3
  <2>5. f <= u
    <3> SUFFICES ASSUME ~ (f <= u) PROVE FALSE
        OBVIOUS
    <3>1. i \in u + 1 .. n
          BY <1>1, <1>2, <2>4
    <3>. QED  BY <1>2, <2>1, <3>1
  <2>6. stripped[1] = s[i]
        BY <1>3, <2>4, <2>5
  <2>7. ~ (u = f - 1)
        BY <1>2, <2>5
  <2>. QED  BY <1>4, <1>8, <2>6, <2>7
<1>. QED  BY <1>1, <1>5, <1>6, <1>7, <1>8 DEF SaysNothing

----------------------------------------------------------------------------
\* A carriage return before the line feed changes nothing of what a line says.

Extends(s, t) ==
    /\ Len(t) \in Nat /\ Len(s) \in Nat /\ Len(t) <= Len(s)
    /\ DOMAIN t = 1 .. Len(t) /\ DOMAIN s = 1 .. Len(s)
    /\ \A i \in 1 .. Len(t) : s[i] = t[i]
    /\ \A i \in Len(t) + 1 .. Len(s) : s[i] = "CR"

LEMMA CrExtends ==
    ASSUME NEW S, NEW t \in Seq(S), NEW ending \in {<<>>, <<"CR">>}
    PROVE  Extends(t \o ending, t) /\ t \o ending \in Seq(S \cup {"CR"})
<1>1. t \in Seq(S \cup {"CR"}) /\ ending \in Seq(S \cup {"CR"})
  <2>1. <<>> \in Seq(S \cup {"CR"}) /\ <<"CR">> \in Seq(S \cup {"CR"})
        OBVIOUS
  <2>2. t \in [1 .. Len(t) -> S] /\ Len(t) \in Nat
        BY LenProperties
  <2>3. t \in [1 .. Len(t) -> S \cup {"CR"}]
        BY <2>2
  <2>4. t \in Seq(S \cup {"CR"})
        BY <2>2, <2>3, SeqDef
  <2>. QED  BY <2>1, <2>4
<1>2. Len(ending) \in {0, 1} /\ \A i \in 1 .. Len(ending) : ending[i] = "CR"
  <2>1. CASE ending = <<>>
        BY <2>1
  <2>2. CASE ending = <<"CR">>
        BY <2>2
  <2>. QED  BY <2>1, <2>2
<1>3. /\ t \o ending \in Seq(S \cup {"CR"})
      /\ Len(t \o ending) = Len(t) + Len(ending)
      /\ \A i \in 1 .. Len(t) + Len(ending) :
             (t \o ending)[i] = IF i <= Len(t) THEN t[i] ELSE ending[i - Len(t)]
      BY <1>1, ConcatProperties
<1> DEFINE s == t \o ending
           n == Len(t)
<1>4. n \in Nat /\ DOMAIN t = 1 .. n /\ DOMAIN s = 1 .. Len(s)
      BY <1>3
<1> HIDE DEF s, n
<1>5. Len(s) \in Nat /\ n <= Len(s) /\ Len(s) = n + Len(ending)
      BY <1>2, <1>3, <1>4 DEF s, n
<1>6. \A i \in 1 .. n : s[i] = t[i]
  <2> SUFFICES ASSUME NEW i \in 1 .. n PROVE s[i] = t[i]
      OBVIOUS
  <2>1. i \in 1 .. n + Len(ending) /\ i <= n
        BY <1>2, <1>4
  <2>. QED  BY <1>3, <2>1 DEF s, n
<1>7. \A i \in n + 1 .. Len(s) : s[i] = "CR"
  <2> SUFFICES ASSUME NEW i \in n + 1 .. Len(s) PROVE s[i] = "CR"
      OBVIOUS
  <2>1. i \in 1 .. n + Len(ending) /\ ~ (i <= n) /\ i - n \in 1 .. Len(ending)
        BY <1>2, <1>4, <1>5
  <2>2. s[i] = ending[i - n]
        BY <1>3, <2>1 DEF s, n
  <2>. QED  BY <1>2, <2>1, <2>2
<1>. QED  BY <1>3, <1>4, <1>5, <1>6, <1>7 DEF Extends, s, n

LEMMA SamePart ==
    ASSUME NEW S, NEW s \in Seq(S), NEW R, NEW t \in Seq(R), Extends(s, t),
           NEW a \in 1 .. Len(t), NEW b \in a .. Len(t)
    PROVE  SubSeq(s, a, b) = SubSeq(t, a, b)
<1> DEFINE n == b - a + 1
           v == SubSeq(s, a, b)
           w == SubSeq(t, a, b)
<1>1. Len(t) \in Nat /\ Len(s) \in Nat /\ Len(t) <= Len(s) /\ \A i \in 1 .. Len(t) : s[i] = t[i]
      BY DEF Extends
<1>2. a \in 1 .. Len(s) + 1 /\ b \in a - 1 .. Len(s) /\ a \in 1 .. Len(t) + 1 /\ b \in a - 1 .. Len(t)
      BY <1>1
<1>3. v \in Seq(S) /\ Len(v) = n /\ \A i \in 1 .. n : v[i] = s[a + i - 1]
      BY <1>2, PartProperties
<1>4. w \in Seq(R) /\ Len(w) = n /\ \A i \in 1 .. n : w[i] = t[a + i - 1]
      BY <1>2, PartProperties
<1>5. \A i \in 1 .. n : v[i] = w[i]
  <2> SUFFICES ASSUME NEW i \in 1 .. n PROVE v[i] = w[i]
      OBVIOUS
  <2>1. a + i - 1 \in 1 .. Len(t)
        BY <1>1
  <2>. QED  BY <1>1, <1>3, <1>4, <2>1
<1> HIDE DEF v, w, n
<1>6. v \in [1 .. n -> S] /\ w \in [1 .. n -> R] /\ n \in Nat
  <2>1. n \in Nat
        BY <1>1 DEF n
  <2>. QED  BY <1>3, <1>4, <2>1, LenProperties
<1>7. v = w
      BY <1>5, <1>6
<1>. QED  BY <1>7 DEF v, w

LEMMA SettingExtends ==
    ASSUME NEW S, NEW s \in Seq(S), NEW R, NEW t \in Seq(R), Extends(s, t), NEW name,
           NEW k \in DOMAIN t, NEW e \in DOMAIN t, NEW a \in DOMAIN t, NEW b \in DOMAIN t
    PROVE  IsSetting(s, name, k, e, a, b) <=> IsSetting(t, name, k, e, a, b)
<1> DEFINE n == Len(t)
<1>1. /\ n \in Nat /\ Len(s) \in Nat /\ n <= Len(s)
      /\ DOMAIN t = 1 .. n /\ DOMAIN s = 1 .. Len(s)
      /\ \A i \in 1 .. n : s[i] = t[i]
      /\ \A i \in n + 1 .. Len(s) : s[i] = "CR"
      BY DEF Extends
<1>2. a <= b => SubSeq(s, a, b) = SubSeq(t, a, b)
  <2> HAVE a <= b
  <2>1. a \in 1 .. Len(t) /\ b \in a .. Len(t)
        BY <1>1
  <2>. QED  BY <2>1, SamePart
<1> HIDE DEF n
<1>3. /\ k \in 1 .. n /\ e \in 1 .. n /\ a \in 1 .. n /\ b \in 1 .. n
      /\ s[k] = t[k] /\ s[e] = t[e]
      BY <1>1
<1>4. ASSUME IsSetting(s, name, k, e, a, b)
      PROVE  IsSetting(t, name, k, e, a, b)
  <2>1. ASSUME NEW i \in DOMAIN t
        PROVE  i \in DOMAIN s /\ s[i] = t[i]
        BY <1>1
  <2>. QED  BY <1>2, <1>3, <1>4, <2>1 DEF IsSetting
<1>5. ASSUME IsSetting(t, name, k, e, a, b)
      PROVE  IsSetting(s, name, k, e, a, b)
  <2>1. ASSUME NEW i \in DOMAIN s
        PROVE  /\ i < k \/ (e < i /\ i < a) => s[i] \in LeadingBlanks
               /\ (k < i /\ i < e) \/ b < i => s[i] \in Filler
    <3>1. CASE i \in 1 .. n
      <4>1. s[i] = t[i] /\ i \in DOMAIN t
            BY <1>1, <3>1
      <4>. QED  BY <1>5, <4>1 DEF IsSetting
    <3>2. CASE i \notin 1 .. n
      <4>1. i \in n + 1 .. Len(s)
            BY <1>1, <3>2
      <4>2. s[i] \in Filler
            BY <1>1, <4>1 DEF Filler
      <4>3. ~ (i < k) /\ ~ (i < a)
            BY <1>1, <1>3, <4>1
      <4>. QED  BY <4>2, <4>3
    <3>. QED  BY <3>1, <3>2
  <2>. QED  BY <1>2, <1>3, <1>5, <2>1 DEF IsSetting
<1>. QED  BY <1>4, <1>5

\* A setting in the extended line lies in the line.
LEMMA SettingIsInside ==
    ASSUME NEW S, NEW s \in Seq(S), NEW R, NEW t \in Seq(R), Extends(s, t), NEW name,
           NEW k \in DOMAIN s, NEW e \in DOMAIN s, NEW a \in DOMAIN s, NEW b \in DOMAIN s,
           IsSetting(s, name, k, e, a, b)
    PROVE  k \in DOMAIN t /\ e \in DOMAIN t /\ a \in DOMAIN t /\ b \in DOMAIN t
<1>1. /\ Len(t) \in Nat /\ Len(s) \in Nat
      /\ DOMAIN t = 1 .. Len(t) /\ DOMAIN s = 1 .. Len(s)
      /\ \A i \in Len(t) + 1 .. Len(s) : s[i] = "CR"
      BY DEF Extends
<1>2. k < e /\ e < a /\ a <= b /\ IsInteger(SubSeq(s, a, b))
      BY DEF IsSetting
<1>3. s[b] \in Range(DigitNames)
  <2> DEFINE w == SubSeq(s, a, b)
             n == b - a + 1
  <2>1. a \in 1 .. Len(s) + 1 /\ b \in a - 1 .. Len(s)
        BY <1>1, <1>2
  <2>2. w \in Seq(S) /\ Len(w) = n /\ \A i \in 1 .. n : w[i] = s[a + i - 1]
        BY <2>1, PartProperties
  <2>3. n \in 1 .. n /\ a + n - 1 = b
        BY <1>1, <1>2
  <2> HIDE DEF w, n
  <2>4. w[Len(w)] = s[b]
        BY <2>2, <2>3
  <2>5. w[Len(w)] \in Range(DigitNames)
        BY <1>2, <2>2, IntegerEnds DEF w
  <2>. QED  BY <2>4, <2>5
<1>4. s[b] # "CR"
      BY <1>3, NotFillers DEF Filler
<1>5. b \in 1 .. Len(t)
      BY <1>1, <1>4
<1>. QED  BY <1>1, <1>2, <1>5

LEMMA NothingExtends ==
    ASSUME NEW S, NEW s \in Seq(S), NEW R, NEW t \in Seq(R), Extends(s, t)
    PROVE  SaysNothing(s) <=> SaysNothing(t)
<1> DEFINE n == Len(t)
<1>1. /\ n \in Nat /\ Len(s) \in Nat /\ n <= Len(s)
      /\ DOMAIN t = 1 .. n /\ DOMAIN s = 1 .. Len(s)
      /\ \A i \in 1 .. n : s[i] = t[i]
      /\ \A i \in n + 1 .. Len(s) : s[i] = "CR"
      BY DEF Extends
<1> HIDE DEF n
<1>2. Range(s) \subseteq Filler <=> Range(t) \subseteq Filler
  <2>1. \A i \in n + 1 .. Len(s) : s[i] \in Filler
        BY <1>1 DEF Filler
  <2>2. \A i \in 1 .. n : i \in 1 .. Len(s)
        BY <1>1
  <2>3. \A i \in 1 .. Len(s) : i \in 1 .. n \/ i \in n + 1 .. Len(s)
        BY <1>1
  <2>. QED  BY <1>1, <2>1, <2>2, <2>3 DEF Range
<1>3. ASSUME NEW i \in DOMAIN s, s[i] = "#", \A j \in 1 .. i - 1 : s[j] \in LeadingBlanks
      PROVE  i \in DOMAIN t /\ t[i] = "#" /\ \A j \in 1 .. i - 1 : t[j] \in LeadingBlanks
  <2>1. i \in 1 .. n
        BY <1>1, <1>3
  <2>2. \A j \in 1 .. i - 1 : j \in 1 .. n
        BY <1>1, <2>1
  <2>. QED  BY <1>1, <1>3, <2>1, <2>2
<1>4. ASSUME NEW i \in DOMAIN t, t[i] = "#", \A j \in 1 .. i - 1 : t[j] \in LeadingBlanks
      PROVE  i \in DOMAIN s /\ s[i] = "#" /\ \A j \in 1 .. i - 1 : s[j] \in LeadingBlanks
  <2>1. i \in 1 .. n /\ i \in 1 .. Len(s)
        BY <1>1
  <2>2. \A j \in 1 .. i - 1 : j \in 1 .. n
        BY <1>1, <2>1
  <2>. QED  BY <1>1, <1>4, <2>1, <2>2
<1>5. CASE SaysNothing(s)
  <2>1. CASE Range(s) \subseteq Filler
        BY <1>2, <2>1 DEF SaysNothing
  <2>2. CASE ~ (Range(s) \subseteq Filler)
    <3>1. PICK i \in DOMAIN s : s[i] = "#" /\ \A j \in 1 .. i - 1 : s[j] \in LeadingBlanks
          BY <1>5, <2>2 DEF SaysNothing
    <3>. QED  BY <1>3, <3>1 DEF SaysNothing
  <2>. QED  BY <1>5, <2>1, <2>2
<1>6. CASE SaysNothing(t)
  <2>1. CASE Range(t) \subseteq Filler
        BY <1>2, <2>1 DEF SaysNothing
  <2>2. CASE ~ (Range(t) \subseteq Filler)
    <3>1. PICK i \in DOMAIN t : t[i] = "#" /\ \A j \in 1 .. i - 1 : t[j] \in LeadingBlanks
          BY <1>6, <2>2 DEF SaysNothing
    <3>. QED  BY <1>4, <3>1 DEF SaysNothing
  <2>. QED  BY <1>6, <2>1, <2>2
<1>. QED  BY <1>5, <1>6

----------------------------------------------------------------------------
\* What one line or option does to the parameters and the warnings.

LEMMA IntegerIsParsed ==
    ASSUME NEW S, NEW raw \in Seq(S)
    PROVE  IsInteger(raw) <=> ParseFullInteger(raw) # NotANumber
<1> DEFINE signed == raw # <<>> /\ raw[1] \in Signs
           digits == IF signed THEN Tail(raw) ELSE raw
<1>1. CASE ~ IsInteger(raw)
  <2>1. ParseFullInteger(raw) = NotANumber
        BY <1>1 DEF IsInteger, ParseFullInteger
  <2>. QED  BY <1>1, <2>1
<1>2. CASE IsInteger(raw)
  <2>1. digits # <<>> /\ Range(digits) \subseteq Range(DigitNames)
        BY <1>2 DEF IsInteger
  <2>2. ParseFullInteger(raw) = ToInt(signed /\ raw[1] = "-", Magnitude(digits))
        BY <2>1 DEF ParseFullInteger
  <2>3. digits \in Seq(S)
        BY HeadTailProperties
  <2> HIDE DEF digits
  <2>4. digits \in Numerals
    <3>1. Len(digits) \in Nat /\ digits \in [1 .. Len(digits) -> S]
          BY <2>3, LenProperties
    <3>2. \A i \in 1 .. Len(digits) : digits[i] \in Range(DigitNames)
          BY <2>1, <3>1 DEF Range
    <3>3. digits \in [1 .. Len(digits) -> Range(DigitNames)]
          BY <3>1, <3>2
    <3>. QED  BY <3>1, <3>3, SeqDef DEF Numerals
  <2>5. PlaceValue(digits) \in Nat /\ Magnitude(digits) = Least(PlaceValue(digits), Saturated)
        BY <2>4, MagnitudeIsExact
  <2>6. Magnitude(digits) \in Nat
        BY <2>5, WidthAssumption DEF Least
  <2>7. \A negative \in BOOLEAN : ToInt(negative, Magnitude(digits)) <= IntMax /\ ToInt(negative, Magnitude(digits)) \in Int
        BY <2>6, WidthAssumption DEF ToInt
  <2>8. NotANumber = IntMax + 1 /\ IntMax \in Nat
        BY WidthAssumption DEF NotANumber
  <2>9. ParseFullInteger(raw) <= IntMax /\ ParseFullInteger(raw) \in Int
        BY <2>2, <2>7
  <2>10. ParseFullInteger(raw) # NotANumber
         BY <2>8, <2>9
  <2>. QED  BY <1>2, <2>10
<1>. QED  BY <1>1, <1>2

\* Saturation, the cut to int and a clamp within the range of int find the nearest
\* value, and the clamp shows exactly when the number is out of range.
LEMMA ClampIsNearest ==
    ASSUME NEW exact \in Nat, NEW negative \in BOOLEAN, NEW low \in Nat, NEW high \in Nat,
           low < high, high < IntMax
    PROVE  LET requested == ToInt(negative, Least(exact, Saturated))
               applied   == IF requested \in low .. high THEN requested
                            ELSE IF requested < low THEN low ELSE high
               n         == IF negative THEN -exact ELSE exact
           IN  /\ applied = Nearest(n, low, high)
               /\ applied = requested <=> n \in low .. high
<1>1. IntMax \in Nat /\ Saturated \in Nat /\ IntMax + 1 < Saturated
      BY WidthAssumption
<1>2. CASE negative
      BY <1>1, <1>2 DEF Nearest, ToInt, Least
<1>3. CASE ~ negative
      BY <1>1, <1>3 DEF Nearest, ToInt, Least
<1>. QED  BY <1>2, <1>3

IsProblem(g) ==
    \/ g.key = "mistake"
    \/ g.key = "refresh" /\ g.value \notin RefreshMin .. RefreshMax
    \/ g.key = "poll" /\ g.value \notin PollMin .. PollMax

\* The step that reads g does what g means.
Follows(g) ==
    /\ params'.refreshMs = IF g.key = "refresh" THEN Nearest(g.value, RefreshMin, RefreshMax) ELSE params.refreshMs
    /\ params'.pollingMs = IF g.key = "poll" THEN Nearest(g.value, PollMin, PollMax) ELSE params.pollingMs
    /\ params'.noTty = (params.noTty \/ g.key = "no tty")
    /\ Len(warnings') = IF IsProblem(g) THEN Len(warnings) + 1 ELSE Len(warnings)

LEMMA WarnedOnce ==
    ASSUME StartInv, NEW kind, Warn(kind)
    PROVE  Len(warnings') = Len(warnings) + 1
<1>1. warnings \in Seq(Kinds \cup {kind}) /\ kind \in Kinds \cup {kind}
  <2>1. warnings \in [1 .. Len(warnings) -> Kinds] /\ Len(warnings) \in Nat
        BY LenProperties DEF StartInv
  <2>2. warnings \in [1 .. Len(warnings) -> Kinds \cup {kind}]
        BY <2>1
  <2>3. warnings \in Seq(Kinds \cup {kind})
        BY <2>1, <2>2, SeqDef
  <2>. QED  BY <2>3
<1>2. warnings' = Append(warnings, kind)
      BY DEF Warn
<1>. QED  BY <1>1, <1>2, AppendProperties

LEMMA MistakeFollows ==
    ASSUME StartInv, NEW kind, Warn(kind), UNCHANGED params, NEW g, g.key = "mistake"
    PROVE  Follows(g)
<1>1. Len(warnings') = Len(warnings) + 1
      BY WarnedOnce
<1>2. IsProblem(g)
      BY DEF IsProblem
<1>3. params'.noTty = params.noTty /\ params.noTty \in BOOLEAN
      BY DEF StartInv, ParamsType
<1>. QED  BY <1>1, <1>2, <1>3 DEF Follows

LEMMA NothingFollows ==
    ASSUME StartInv, UNCHANGED <<params, warnings>>, NEW g, g.key = "nothing"
    PROVE  Follows(g)
<1>1. ~ IsProblem(g)
      BY DEF IsProblem
<1>2. params'.noTty = params.noTty /\ params.noTty \in BOOLEAN
      BY DEF StartInv, ParamsType
<1>. QED  BY <1>1, <1>2 DEF Follows

LEMMA RefusedValue ==
    ASSUME NEW field, NEW S, NEW raw \in Seq(S), ~ IsInteger(raw), ApplyValueFlag(field, raw)
    PROVE  Warn("not a number") /\ UNCHANGED params
<1>1. ParseFullInteger(raw) = NotANumber
      BY IntegerIsParsed
<1>. QED  BY <1>1 DEF ApplyValueFlag, IntegerOf

LEMMA SettingFollows ==
    ASSUME StartInv, NEW field \in {"refreshMs", "pollingMs"}, NEW S, NEW raw \in Seq(S), IsInteger(raw),
           ApplyValueFlag(field, raw), NEW g, g.value = Spoken(raw),
           g.key = IF field = "refreshMs" THEN "refresh" ELSE "poll"
    PROVE  Follows(g)
<1> DEFINE requested == ParseFullInteger(raw)
           applied   == Clamp(field, requested)
           n         == Spoken(raw)
<1>1. requested # NotANumber
      BY IntegerIsParsed
<1>2. params' = [params EXCEPT ![field] = applied]
      BY <1>1 DEF ApplyValueFlag, IntegerOf
<1>3. IF applied = requested THEN UNCHANGED warnings ELSE Warn("clamped")
      BY <1>1 DEF ApplyValueFlag, IntegerOf
<1>4. PICK exact \in Nat, negative \in BOOLEAN :
          /\ n = IF negative THEN -exact ELSE exact
          /\ requested = ToInt(negative, Least(exact, Saturated))
      BY <1>1, SpokenIsParsed
<1>5. /\ RefreshMin \in Nat /\ RefreshMax \in Nat /\ RefreshMin < RefreshMax /\ RefreshMax < IntMax
      /\ PollMin \in Nat /\ PollMax \in Nat /\ PollMin < PollMax /\ PollMax < IntMax
      BY RangesAssumption, WidthAssumption, StartAssumption, MeaningAssumption
<1> HIDE DEF requested
<1>6. field = "refreshMs" =>
          applied = Nearest(n, RefreshMin, RefreshMax) /\ (applied = requested <=> n \in RefreshMin .. RefreshMax)
      BY <1>4, <1>5, ClampIsNearest DEF Clamp, ClampRefresh
<1>7. field = "pollingMs" =>
          applied = Nearest(n, PollMin, PollMax) /\ (applied = requested <=> n \in PollMin .. PollMax)
      BY <1>4, <1>5, ClampIsNearest DEF Clamp, ClampPolling
<1> HIDE DEF applied, n
<1>8. params \in ParamsType
      BY DEF StartInv
<1>9. CASE field = "refreshMs"
  <2>1. params'.refreshMs = applied /\ params'.pollingMs = params.pollingMs /\ params'.noTty = params.noTty
        /\ params.noTty \in BOOLEAN
        BY <1>2, <1>8, <1>9 DEF ParamsType
  <2>2. g.key = "refresh" /\ g.value = n
        BY <1>9 DEF n
  <2>3. IsProblem(g) <=> n \notin RefreshMin .. RefreshMax
        BY <2>2 DEF IsProblem
  <2>4. Len(warnings') = IF IsProblem(g) THEN Len(warnings) + 1 ELSE Len(warnings)
        BY <1>3, <1>6, <1>9, <2>3, WarnedOnce
  <2>. QED  BY <1>6, <1>9, <2>1, <2>2, <2>4 DEF Follows
<1>10. CASE field = "pollingMs"
  <2>1. params'.pollingMs = applied /\ params'.refreshMs = params.refreshMs /\ params'.noTty = params.noTty
        /\ params.noTty \in BOOLEAN
        BY <1>2, <1>8, <1>10 DEF ParamsType
  <2>2. g.key = "poll" /\ g.value = n
        BY <1>10 DEF n
  <2>3. IsProblem(g) <=> n \notin PollMin .. PollMax
        BY <2>2 DEF IsProblem
  <2>4. Len(warnings') = IF IsProblem(g) THEN Len(warnings) + 1 ELSE Len(warnings)
        BY <1>3, <1>7, <1>10, <2>3, WarnedOnce
  <2>. QED  BY <1>7, <1>10, <2>1, <2>2, <2>4 DEF Follows
<1>. QED  BY <1>9, <1>10

\* The line that ReadConfigLine cuts out of the file.
Raw(g) == g.text \o (IF crlf THEN <<"CR">> ELSE <<>>)

LEMMA ConfigLineCases ==
    ASSUME ReadConfigLine
    PROVE  LET stripped == TrimLine(Raw(Head(file)))
           IN  \/ (stripped = <<>> \/ stripped[1] = "#") /\ UNCHANGED <<params, warnings>>
               \/ /\ ~ (stripped = <<>> \/ stripped[1] = "#")
                  /\ EqualsOf(stripped) > Len(stripped) \/ KeyOf(stripped) = <<>>
                  /\ Warn("malformed line") /\ UNCHANGED params
               \/ /\ ~ (stripped = <<>> \/ stripped[1] = "#")
                  /\ ~ (EqualsOf(stripped) > Len(stripped))
                  /\ FieldOfKey(KeyOf(stripped)) = "none"
                  /\ Warn("unknown key") /\ UNCHANGED params
               \/ /\ ~ (stripped = <<>> \/ stripped[1] = "#")
                  /\ ~ (EqualsOf(stripped) > Len(stripped))
                  /\ FieldOfKey(KeyOf(stripped)) # "none"
                  /\ ApplyValueFlag(FieldOfKey(KeyOf(stripped)), ValueOf(stripped))
BY Zenon DEF ReadConfigLine, Raw, EqualsOf, KeyOf, ValueOf

LEMMA FieldNames ==
    ASSUME NEW key
    PROVE  /\ FieldOfKey(key) \in {"none", "refreshMs", "pollingMs"}
           /\ FieldOfKey(key) = "refreshMs" <=> key = <<"refresh_ms">>
           /\ FieldOfKey(key) = "pollingMs" <=> key = <<"polling_ms">>
<1>1. <<"refresh_ms">> # <<"polling_ms">>
      OBVIOUS
<1>. QED  BY <1>1 DEF FieldOfKey

\* Each line of the file does what it says.
LEMMA ConfigLineFollows ==
    ASSUME StartInv, ReadConfigLine, NEW g, g = Head(file), IsLine(g)
    PROVE  Follows(g)
<1> DEFINE t == g.text
           ending == IF crlf THEN <<"CR">> ELSE <<>>
           s == t \o ending
           S == Range(t) \cup {"CR"}
           stripped == TrimLine(s)
           R == Range(t)
<1>1. t \in Seq(R)
      BY DEF IsLine
<1>2. Extends(s, t) /\ s \in Seq(S)
  <2>1. ending \in {<<>>, <<"CR">>}
        OBVIOUS
  <2> HIDE DEF ending
  <2>. QED  BY <1>1, <2>1, CrExtends
<1>3. s = Raw(Head(file))
      BY DEF Raw
<1> HIDE DEF s, S, R, ending
<1>4. PICK f, u, e, kf, ku, vf, vu \in Int :
          ArePlaces(s, f, u, e, kf, ku, vf, vu) /\ AreParts(s, stripped, f, u, e, kf, ku, vf, vu)
      BY <1>2, PlacesExist
<1>5. \/ (stripped = <<>> \/ stripped[1] = "#") /\ UNCHANGED <<params, warnings>>
      \/ /\ ~ (stripped = <<>> \/ stripped[1] = "#")
         /\ EqualsOf(stripped) > Len(stripped) \/ KeyOf(stripped) = <<>>
         /\ Warn("malformed line") /\ UNCHANGED params
      \/ /\ ~ (stripped = <<>> \/ stripped[1] = "#")
         /\ ~ (EqualsOf(stripped) > Len(stripped))
         /\ FieldOfKey(KeyOf(stripped)) = "none"
         /\ Warn("unknown key") /\ UNCHANGED params
      \/ /\ ~ (stripped = <<>> \/ stripped[1] = "#")
         /\ ~ (EqualsOf(stripped) > Len(stripped))
         /\ FieldOfKey(KeyOf(stripped)) # "none"
         /\ ApplyValueFlag(FieldOfKey(KeyOf(stripped)), ValueOf(stripped))
      BY <1>3, ConfigLineCases
<1> HIDE DEF t, stripped
<1>6. (stripped = <<>> \/ stripped[1] = "#") <=> SaysNothing(t)
  <2>1. (stripped = <<>> \/ stripped[1] = "#") <=> SaysNothing(s)
        BY <1>2, <1>4, NothingIsSkipped
  <2>2. SaysNothing(s) <=> SaysNothing(t)
        BY <1>1, <1>2, NothingExtends
  <2>. QED  BY <2>1, <2>2
<1>7. Len(stripped) \in Int /\ EqualsOf(stripped) \in Int /\ ValueOf(stripped) = ValueOf(stripped)
  <2>1. Len(stripped) = u - f + 1 /\ EqualsOf(stripped) = e - f + 1
        BY <1>4 DEF AreParts
  <2>. QED  BY <2>1
<1>8. ASSUME NEW name \in {"refresh_ms", "polling_ms"}, Sets(t, name, g.value)
      PROVE  /\ ~ (stripped = <<>> \/ stripped[1] = "#")
             /\ ~ (EqualsOf(stripped) > Len(stripped))
             /\ KeyOf(stripped) = <<name>>
             /\ \E raw \in Seq(S) : IsInteger(raw) /\ raw = ValueOf(stripped) /\ g.value = Spoken(raw)
  <2>1. PICK k, m, a, b \in DOMAIN t : IsSetting(t, name, k, m, a, b) /\ g.value = Spoken(SubSeq(t, a, b))
        BY <1>8 DEF Sets
  <2>2. IsSetting(s, name, k, m, a, b) /\ SubSeq(s, a, b) = SubSeq(t, a, b)
    <3>1. t \in Seq(R) /\ s \in Seq(S) /\ Extends(s, t)
          BY <1>1, <1>2 DEF R
    <3>2. k \in DOMAIN t /\ m \in DOMAIN t /\ a \in DOMAIN t /\ b \in DOMAIN t /\ IsSetting(t, name, k, m, a, b)
          BY <2>1
    <3>3. IsSetting(s, name, k, m, a, b)
          BY <3>1, <3>2, SettingExtends
    <3>4. a \in 1 .. Len(t) /\ b \in a .. Len(t)
      <4>1. a <= b
            BY <3>2 DEF IsSetting
      <4>2. DOMAIN t = 1 .. Len(t) /\ Len(t) \in Nat
            BY <3>1 DEF Extends
      <4>. QED  BY <3>2, <4>1, <4>2
    <3>5. SubSeq(s, a, b) = SubSeq(t, a, b)
          BY <3>1, <3>4, SamePart
    <3>. QED  BY <3>3, <3>5
  <2>3. k \in DOMAIN s /\ m \in DOMAIN s /\ a \in DOMAIN s /\ b \in DOMAIN s
        BY <1>2, <2>1 DEF Extends
  <2>4. /\ stripped # <<>> /\ stripped[1] # "#"
        /\ EqualsOf(stripped) <= Len(stripped)
        /\ KeyOf(stripped) = <<name>> /\ ValueOf(stripped) = SubSeq(s, a, b)
    <3>1. s \in Seq(S) /\ IsSetting(s, name, k, m, a, b)
          BY <1>2, <2>2
    <3>2. ArePlaces(s, f, u, e, kf, ku, vf, vu) /\ AreParts(s, stripped, f, u, e, kf, ku, vf, vu)
          BY <1>4
    <3>. QED  BY <2>3, <3>1, <3>2, SettingIsTaken, SMTT(30)
  <2>5. SubSeq(s, a, b) \in Seq(S)
    <3>1. a \in 1 .. Len(s) + 1 /\ b \in a - 1 .. Len(s)
          BY <1>2, <2>2, <2>3 DEF IsSetting, Extends
    <3>. QED  BY <1>2, <3>1, PartProperties
  <2>6. IsInteger(SubSeq(s, a, b))
        BY <2>2 DEF IsSetting
  <2>7. ~ (EqualsOf(stripped) > Len(stripped))
        BY <1>7, <2>4
  <2>8. g.value = Spoken(SubSeq(s, a, b))
        BY <2>1, <2>2
  <2>9. \E raw \in Seq(S) : IsInteger(raw) /\ raw = ValueOf(stripped) /\ g.value = Spoken(raw)
        BY <2>4, <2>5, <2>6, <2>8, Zenon
  <2>. QED  BY <2>4, <2>7, <2>9
<1>9. ASSUME NEW name \in {"refresh_ms", "polling_ms"}, Sets(t, name, g.value),
             g.key = IF name = "refresh_ms" THEN "refresh" ELSE "poll"
      PROVE  Follows(g)
  <2> DEFINE field == FieldOfKey(KeyOf(stripped))
  <2>1. KeyOf(stripped) = <<name>> /\ ~ (stripped = <<>> \/ stripped[1] = "#")
        /\ ~ (EqualsOf(stripped) > Len(stripped))
        BY <1>8, <1>9
  <2>2. PICK raw \in Seq(S) : IsInteger(raw) /\ raw = ValueOf(stripped) /\ g.value = Spoken(raw)
        BY <1>8, <1>9
  <2>3. name = "refresh_ms" => field = "refreshMs"
        BY <2>1, FieldNames
  <2>4. name = "polling_ms" => field = "pollingMs"
        BY <2>1, FieldNames
  <2>5. field \in {"refreshMs", "pollingMs"} /\ g.key = IF field = "refreshMs" THEN "refresh" ELSE "poll"
        BY <1>9, <2>3, <2>4
  <2>6. KeyOf(stripped) # <<>>
    <3>1. <<name>> # <<>>
          OBVIOUS
    <3>. QED  BY <2>1, <3>1
  <2>7. ApplyValueFlag(field, raw)
    <3> HIDE DEF field
    <3>1. field # "none"
          BY <2>5
    <3>. QED  BY <1>5, <2>1, <2>2, <2>6, <3>1 DEF field
  <2> HIDE DEF field
  <2>. QED  BY <2>2, <2>5, <2>7, SettingFollows
<1>10. ASSUME NEW name, SetsNothing(t, name), ~ (EqualsOf(stripped) > Len(stripped)), KeyOf(stripped) = <<name>>
       PROVE  \E raw \in Seq(S) : raw = ValueOf(stripped) /\ ~ IsInteger(raw)
  <2>1. EqualsOf(stripped) <= Len(stripped)
        BY <1>7, <1>10
  <2>2. ~ IsInteger(ValueOf(stripped))
    <3> SUFFICES ASSUME IsInteger(ValueOf(stripped)) PROVE FALSE
        OBVIOUS
    <3>1. /\ kf \in DOMAIN s /\ e \in DOMAIN s /\ vf \in DOMAIN s /\ vu \in DOMAIN s
          /\ IsSetting(s, name, kf, e, vf, vu)
          BY <1>2, <1>4, <1>10, <2>1, TakenIsSetting
    <3>2. kf \in DOMAIN t /\ e \in DOMAIN t /\ vf \in DOMAIN t /\ vu \in DOMAIN t
          BY <1>1, <1>2, <3>1, SettingIsInside
    <3>3. IsSetting(t, name, kf, e, vf, vu)
          BY <1>1, <1>2, <3>1, <3>2, SettingExtends
    <3>. QED  BY <1>10, <3>2, <3>3 DEF SetsNothing
  <2>3. ValueOf(stripped) \in Seq(S)
    <3>1. e <= u /\ ValueOf(stripped) = SubSeq(s, vf, vu)
      <4>1. EqualsOf(stripped) = e - f + 1 /\ Len(stripped) = u - f + 1
            BY <1>4 DEF AreParts
      <4>2. e <= u
            BY <2>1, <4>1
      <4>. QED  BY <1>4, <4>2 DEF AreParts
    <3>2. Len(s) \in Nat
          BY <1>2
    <3>3. vf \in 1 .. Len(s) + 1 /\ vu \in vf - 1 .. Len(s)
          BY <1>4, <3>1, <3>2 DEF ArePlaces, IsTrimmed
    <3>. QED  BY <1>2, <3>1, <3>3, PartProperties
  <2>. QED  BY <2>2, <2>3
<1>11. CASE g.key = "refresh" /\ Sets(t, "refresh_ms", g.value)
       BY <1>9, <1>11
<1>12. CASE g.key = "poll" /\ Sets(t, "polling_ms", g.value)
       BY <1>9, <1>12
<1>13. CASE g.key = "nothing" /\ SaysNothing(t)
       BY <1>5, <1>6, <1>13, NothingFollows
<1>14. CASE /\ g.key = "mistake" /\ ~ SaysNothing(t)
            /\ SetsNothing(t, "refresh_ms") /\ SetsNothing(t, "polling_ms")
  <2>1. CASE (Warn("malformed line") \/ Warn("unknown key")) /\ UNCHANGED params
        BY <1>14, <2>1, MistakeFollows
  <2>2. CASE /\ ~ (EqualsOf(stripped) > Len(stripped))
             /\ FieldOfKey(KeyOf(stripped)) # "none"
             /\ ApplyValueFlag(FieldOfKey(KeyOf(stripped)), ValueOf(stripped))
    <3>1. KeyOf(stripped) = <<"refresh_ms">> \/ KeyOf(stripped) = <<"polling_ms">>
          BY <2>2, FieldNames
    <3>2. PICK raw \in Seq(S) : raw = ValueOf(stripped) /\ ~ IsInteger(raw)
          BY <1>10, <1>14, <2>2, <3>1
    <3>3. Warn("not a number") /\ UNCHANGED params
          BY <2>2, <3>2, RefusedValue
    <3>. QED  BY <1>14, <3>3, MistakeFollows
  <2>. QED  BY <1>5, <1>6, <1>14, <2>1, <2>2
<1>15. \/ g.key = "refresh" /\ Sets(t, "refresh_ms", g.value)
       \/ g.key = "poll" /\ Sets(t, "polling_ms", g.value)
       \/ g.key = "nothing" /\ SaysNothing(t)
       \/ /\ g.key = "mistake" /\ ~ SaysNothing(t)
          /\ SetsNothing(t, "refresh_ms") /\ SetsNothing(t, "polling_ms")
       BY DEF IsLine, t
<1>. QED  BY <1>11, <1>12, <1>13, <1>14, <1>15

\* And each option.
LEMMA OptionFollows ==
    ASSUME StartInv, ReadOption, NEW g, g = Head(args), IsToken(g)
    PROVE  Follows(g)
<1> DEFINE t == g.text
           raw == SubSeq(t, 3, Len(t))
           field == FieldOfOption(t)
<1>1. t \in Seq(Range(t)) /\ Len(t) \in Nat
  <2>1. t \in Seq(Range(t))
        BY DEF IsToken
  <2>. QED  BY <2>1, LenProperties
<1>2. \/ t = <<"--no-tty">> /\ params' = [params EXCEPT !.noTty = TRUE] /\ UNCHANGED warnings
      \/ t # <<"--no-tty">> /\ field # "none" /\ ApplyValueFlag(field, raw)
      \/ t # <<"--no-tty">> /\ field = "none"
         /\ (Warn("missing value") \/ Warn("unknown option")) /\ UNCHANGED params
      BY Zenon DEF ReadOption
<1>3. /\ field \in {"none", "refreshMs", "pollingMs"}
      /\ field = "refreshMs" <=> Len(t) >= 2 /\ t[2] = "=" /\ t[1] = "--refresh-ms"
      /\ field = "pollingMs" <=> Len(t) >= 2 /\ t[2] = "=" /\ t[1] = "--poll-ms"
      BY <1>1 DEF FieldOfOption
<1> HIDE DEF field
<1>4. Len(t) >= 2 => raw \in Seq(Range(t))
  <2> HAVE Len(t) >= 2
  <2> DEFINE n == Len(t)
             S == Range(t)
  <2>1. n \in Nat /\ n >= 2 /\ t \in Seq(S)
        BY <1>1
  <2> HIDE DEF S
  <2>2. 3 \in 1 .. Len(t) + 1 /\ Len(t) \in 3 - 1 .. Len(t)
        BY <2>1
  <2>3. SubSeq(t, 3, Len(t)) \in Seq(S)
        BY <2>1, <2>2, PartProperties
  <2>. QED  BY <2>3 DEF S
<1>5. t = <<"--no-tty">> => Len(t) = 1
      OBVIOUS
<1> HIDE DEF t, raw
<1>6. CASE g.key = "refresh" /\ OptionSets(t, "--refresh-ms", g.value)
  <2>1. Len(t) >= 2 /\ t[1] = "--refresh-ms" /\ t[2] = "=" /\ IsInteger(raw) /\ g.value = Spoken(raw)
        BY <1>6 DEF OptionSets, IsOption, raw
  <2>2. field = "refreshMs" /\ t # <<"--no-tty">> /\ raw \in Seq(Range(t))
        BY <1>3, <1>4, <1>5, <2>1
  <2>3. ApplyValueFlag(field, raw)
        BY <1>2, <2>2
  <2>. QED  BY <1>6, <2>1, <2>2, <2>3, SettingFollows
<1>7. CASE g.key = "poll" /\ OptionSets(t, "--poll-ms", g.value)
  <2>1. Len(t) >= 2 /\ t[1] = "--poll-ms" /\ t[2] = "=" /\ IsInteger(raw) /\ g.value = Spoken(raw)
        BY <1>7 DEF OptionSets, IsOption, raw
  <2>2. field = "pollingMs" /\ t # <<"--no-tty">> /\ raw \in Seq(Range(t))
        BY <1>3, <1>4, <1>5, <2>1
  <2>3. ApplyValueFlag(field, raw)
        BY <1>2, <2>2
  <2>. QED  BY <1>7, <2>1, <2>2, <2>3, SettingFollows
<1>8. CASE g.key = "no tty" /\ t = <<"--no-tty">>
  <2>1. params' = [params EXCEPT !.noTty = TRUE] /\ UNCHANGED warnings
        BY <1>2, <1>8
  <2>2. params'.refreshMs = params.refreshMs /\ params'.pollingMs = params.pollingMs /\ params'.noTty = TRUE
        BY <2>1 DEF StartInv, ParamsType
  <2>3. ~ IsProblem(g)
        BY <1>8 DEF IsProblem
  <2>. QED  BY <1>8, <2>1, <2>2, <2>3 DEF Follows
<1>9. CASE /\ g.key = "mistake" /\ t # <<"--no-tty">>
           /\ ~ IsOption(t, "--refresh-ms") /\ ~ IsOption(t, "--poll-ms")
  <2>1. CASE field = "none"
    <3>1. (Warn("missing value") \/ Warn("unknown option")) /\ UNCHANGED params
          BY <1>2, <1>9, <2>1
    <3>. QED  BY <1>9, <3>1, MistakeFollows
  <2>2. CASE field # "none"
    <3>1. ApplyValueFlag(field, raw)
          BY <1>2, <1>9, <2>2
    <3>2. raw \in Seq(Range(t)) /\ ~ IsInteger(raw)
          BY <1>3, <1>4, <1>9, <2>2 DEF IsOption, raw
    <3>3. Warn("not a number") /\ UNCHANGED params
          BY <3>1, <3>2, RefusedValue
    <3>. QED  BY <1>9, <3>3, MistakeFollows
  <2>. QED  BY <2>1, <2>2
<1>10. \/ g.key = "refresh" /\ OptionSets(t, "--refresh-ms", g.value)
       \/ g.key = "poll" /\ OptionSets(t, "--poll-ms", g.value)
       \/ g.key = "no tty" /\ t = <<"--no-tty">>
       \/ /\ g.key = "mistake" /\ t # <<"--no-tty">>
          /\ ~ IsOption(t, "--refresh-ms") /\ ~ IsOption(t, "--poll-ms")
       BY DEF IsToken, t
<1>. QED  BY <1>6, <1>7, <1>8, <1>9, <1>10

----------------------------------------------------------------------------
\* What was read so far, one line or option at a time.

Of(s, key) == {i \in DOMAIN s : s[i].key = key}

LastOf(s, key, default, low, high) ==
    IF Of(s, key) = {} THEN default ELSE Nearest(s[Max(Of(s, key))].value, low, high)

Problems(s) == {i \in DOMAIN s : IsProblem(s[i])}

LEMMA OneMore ==
    ASSUME NEW S, NEW s \in Seq(S), NEW g \in S, NEW P, P \subseteq DOMAIN s,
           NEW Q, Q \subseteq DOMAIN Append(s, g), \A i \in DOMAIN s : i \in Q <=> i \in P
    PROVE  Q = IF Len(s) + 1 \in Q THEN P \cup {Len(s) + 1} ELSE P
<1> DEFINE n == Len(s)
<1>1. n \in Nat /\ DOMAIN s = 1 .. n /\ DOMAIN Append(s, g) = 1 .. n + 1
      BY AppendProperties
<1>2. \A i \in 1 .. n + 1 : i \in 1 .. n \/ i = n + 1
      BY <1>1
<1> HIDE DEF n
<1>3. n + 1 \notin 1 .. n
      BY <1>1
<1>. QED  BY <1>1, <1>2, <1>3 DEF n

LEMMA OneMoreOf ==
    ASSUME NEW S, NEW s \in Seq(S), NEW g \in S, NEW key
    PROVE  Of(Append(s, g), key) = IF g.key = key THEN Of(s, key) \cup {Len(s) + 1} ELSE Of(s, key)
<1> DEFINE w == Append(s, g)
           n == Len(s)
<1>1. n \in Nat /\ DOMAIN s = 1 .. n /\ DOMAIN w = 1 .. n + 1 /\ w[n + 1] = g
      /\ \A i \in 1 .. n : w[i] = s[i]
      BY AppendProperties
<1>2. Of(s, key) \subseteq DOMAIN s /\ Of(w, key) \subseteq DOMAIN Append(s, g)
      BY DEF Of
<1> HIDE DEF w
<1>3. DOMAIN s \subseteq DOMAIN w /\ n + 1 \in DOMAIN w
      BY <1>1
<1>4. \A i \in DOMAIN s : i \in Of(w, key) <=> i \in Of(s, key)
      BY <1>1, <1>3 DEF Of
<1>5. n + 1 \in Of(w, key) <=> g.key = key
      BY <1>1, <1>3 DEF Of
<1>6. Of(w, key) = IF Len(s) + 1 \in Of(w, key) THEN Of(s, key) \cup {Len(s) + 1} ELSE Of(s, key)
      BY <1>2, <1>4, OneMore
<1>. QED  BY <1>5, <1>6 DEF w

LEMMA OneMoreProblem ==
    ASSUME NEW S, NEW s \in Seq(S), NEW g \in S
    PROVE  Problems(Append(s, g)) = IF IsProblem(g) THEN Problems(s) \cup {Len(s) + 1} ELSE Problems(s)
<1> DEFINE w == Append(s, g)
           n == Len(s)
<1>1. n \in Nat /\ DOMAIN s = 1 .. n /\ DOMAIN w = 1 .. n + 1 /\ w[n + 1] = g
      /\ \A i \in 1 .. n : w[i] = s[i]
      BY AppendProperties
<1>2. Problems(s) \subseteq DOMAIN s /\ Problems(w) \subseteq DOMAIN Append(s, g)
      BY DEF Problems
<1> HIDE DEF w
<1>3. DOMAIN s \subseteq DOMAIN w /\ n + 1 \in DOMAIN w
      BY <1>1
<1>4. \A i \in DOMAIN s : i \in Problems(w) <=> i \in Problems(s)
      BY <1>1, <1>3 DEF Problems
<1>5. n + 1 \in Problems(w) <=> IsProblem(g)
      BY <1>1, <1>3 DEF Problems
<1>6. Problems(w) = IF Len(s) + 1 \in Problems(w) THEN Problems(s) \cup {Len(s) + 1} ELSE Problems(s)
      BY <1>2, <1>4, OneMore
<1>. QED  BY <1>5, <1>6 DEF w

\* The value that wins after one more line or option.
LEMMA LastOfOneMore ==
    ASSUME NEW S, NEW s \in Seq(S), NEW g \in S, NEW key, NEW default, NEW low, NEW high
    PROVE  LastOf(Append(s, g), key, default, low, high) =
               IF g.key = key THEN Nearest(g.value, low, high) ELSE LastOf(s, key, default, low, high)
<1> DEFINE w == Append(s, g)
           n == Len(s)
           A == Of(s, key)
           B == Of(w, key)
<1>1. n \in Nat /\ DOMAIN s = 1 .. n /\ DOMAIN w = 1 .. n + 1 /\ w[n + 1] = g
      /\ \A i \in 1 .. n : w[i] = s[i]
      BY AppendProperties
<1>2. B = IF g.key = key THEN A \cup {n + 1} ELSE A
      BY OneMoreOf
<1>3. A \subseteq 1 .. n
      BY <1>1 DEF Of
<1> HIDE DEF w, n, A, B
<1>4. CASE g.key = key
  <2>1. B \subseteq 0 .. n + 1 /\ B # {} /\ n + 1 \in B /\ n + 1 \in Nat
        BY <1>1, <1>2, <1>3, <1>4
  <2>2. Max(B) \in B /\ \A y \in B : Max(B) >= y
        BY <2>1, GreatestOf
  <2>3. Max(B) = n + 1
    <3> DEFINE m == Max(B)
    <3>1. m \in 0 .. n + 1 /\ m >= n + 1
          BY <2>1, <2>2
    <3> HIDE DEF m
    <3>2. m = n + 1
          BY <1>1, <3>1
    <3>. QED  BY <3>2 DEF m
  <2>. QED  BY <1>1, <1>4, <2>1, <2>3 DEF LastOf, B, w
<1>5. CASE g.key # key
  <2>1. B = A
        BY <1>2, <1>5
  <2>2. CASE A = {}
        BY <1>5, <2>1, <2>2 DEF LastOf, A, B, w
  <2>3. CASE A # {}
    <3>1. A \subseteq 0 .. n
          BY <1>1, <1>3
    <3>2. Max(A) \in A
          BY <1>1, <2>3, <3>1, GreatestOf
    <3>3. w[Max(A)] = s[Max(A)]
          BY <1>1, <1>3, <3>2
    <3>. QED  BY <1>5, <2>1, <2>3, <3>3 DEF LastOf, A, B, w
  <2>. QED  BY <2>2, <2>3
<1>. QED  BY <1>4, <1>5

\* And the number of warnings owed.
LEMMA ProblemsOneMore ==
    ASSUME NEW S, NEW s \in Seq(S), NEW g \in S
    PROVE  Cardinality(Problems(Append(s, g))) =
               IF IsProblem(g) THEN Cardinality(Problems(s)) + 1 ELSE Cardinality(Problems(s))
<1>1. Len(s) \in Nat /\ DOMAIN s = 1 .. Len(s)
      OBVIOUS
<1>2. Problems(s) \subseteq 1 .. Len(s)
      BY <1>1 DEF Problems
<1>3. IsFiniteSet(1 .. Len(s))
      BY <1>1, FS_Interval
<1>4. IsFiniteSet(Problems(s))
      BY <1>2, <1>3, FS_Subset
<1>5. Len(s) + 1 \notin Problems(s)
  <2>1. Len(s) + 1 \notin 1 .. Len(s)
        BY <1>1
  <2>. QED  BY <1>2, <2>1
<1>6. Cardinality(Problems(s) \cup {Len(s) + 1}) = Cardinality(Problems(s)) + 1
      BY <1>4, <1>5, FS_AddElement
<1>7. Problems(Append(s, g)) = IF IsProblem(g) THEN Problems(s) \cup {Len(s) + 1} ELSE Problems(s)
      BY OneMoreProblem
<1>. QED  BY <1>6, <1>7

Record == [lines : Seq(ConfigLines), options : Seq(Options)]

\* p and w are the parameters and the warnings after s.
AreOf(p, w, s) ==
    /\ p.refreshMs = LastOf(s, "refresh", BuiltInRefreshMs, RefreshMin, RefreshMax)
    /\ p.pollingMs = LastOf(s, "poll", BuiltInPollingMs, PollMin, PollMax)
    /\ p.noTty = (Of(s, "no tty") # {})
    /\ Len(w) = Cardinality(Problems(s))

\* The inductive invariant of the start: the parameters and the warnings are those of
\* what was read so far, at every moment and not only at the end.
ReadInv ==
    /\ StartInv
    /\ file \in Seq(ConfigLines) /\ args \in Seq(Options) /\ given \in Record
    /\ file # <<>> => given.options = <<>>
    /\ AreOf(params, warnings, Given)

NothingRead == params = BuiltIn /\ warnings = <<>> /\ given = [lines |-> <<>>, options |-> <<>>]

LEMMA NothingReadYet ==
    ASSUME NothingRead
    PROVE  StartInv /\ given \in Record /\ given.options = <<>> /\ AreOf(params, warnings, Given)
<1>1. StartInv
      BY BuiltInType, EmptySeq DEF NothingRead, StartInv
<1>2. given \in Record /\ given.options = <<>> /\ Given = <<>>
      BY EmptySeq DEF NothingRead, Record, Given
<1>3. \A key : Of(<<>>, key) = {}
      BY DEF Of
<1>4. Problems(<<>>) = {}
      BY DEF Problems
<1>5. Cardinality(Problems(<<>>)) = 0 /\ Len(warnings) = 0
      BY <1>4, FS_EmptySet DEF NothingRead
<1>6. AreOf(params, warnings, <<>>)
      BY <1>3, <1>5 DEF AreOf, LastOf, NothingRead, BuiltIn
<1>. QED  BY <1>1, <1>2, <1>6

\* What was read stays what it is when g is read after it.
LEMMA ReadsOneMore ==
    ASSUME NEW S, NEW s \in Seq(S), NEW g \in S, AreOf(params, warnings, s), Follows(g)
    PROVE  AreOf(params', warnings', Append(s, g))
<1> DEFINE w == Append(s, g)
<1>1. params'.refreshMs = LastOf(w, "refresh", BuiltInRefreshMs, RefreshMin, RefreshMax)
  <2>1. LastOf(w, "refresh", BuiltInRefreshMs, RefreshMin, RefreshMax) =
            IF g.key = "refresh" THEN Nearest(g.value, RefreshMin, RefreshMax)
            ELSE LastOf(s, "refresh", BuiltInRefreshMs, RefreshMin, RefreshMax)
        BY LastOfOneMore
  <2>. QED  BY <2>1 DEF AreOf, Follows
<1>2. params'.pollingMs = LastOf(w, "poll", BuiltInPollingMs, PollMin, PollMax)
  <2>1. LastOf(w, "poll", BuiltInPollingMs, PollMin, PollMax) =
            IF g.key = "poll" THEN Nearest(g.value, PollMin, PollMax)
            ELSE LastOf(s, "poll", BuiltInPollingMs, PollMin, PollMax)
        BY LastOfOneMore
  <2>. QED  BY <2>1 DEF AreOf, Follows
<1>3. params'.noTty = (Of(w, "no tty") # {})
  <2>1. Of(w, "no tty") = IF g.key = "no tty" THEN Of(s, "no tty") \cup {Len(s) + 1} ELSE Of(s, "no tty")
    <3> DEFINE key == "no tty"
    <3> HIDE DEF key
    <3>1. Of(w, key) = IF g.key = key THEN Of(s, key) \cup {Len(s) + 1} ELSE Of(s, key)
          BY OneMoreOf
    <3>. QED  BY <3>1 DEF key
  <2>2. Of(w, "no tty") # {} <=> Of(s, "no tty") # {} \/ g.key = "no tty"
        BY <2>1
  <2>. QED  BY <2>2 DEF AreOf, Follows
<1>4. Len(warnings') = Cardinality(Problems(w))
  <2>1. Cardinality(Problems(w)) =
            IF IsProblem(g) THEN Cardinality(Problems(s)) + 1 ELSE Cardinality(Problems(s))
        BY ProblemsOneMore
  <2>2. /\ Len(warnings') = IF IsProblem(g) THEN Len(warnings) + 1 ELSE Len(warnings)
        /\ Len(warnings) = Cardinality(Problems(s))
        BY DEF AreOf, Follows
  <2> HIDE DEF w
  <2>. QED  BY <2>1, <2>2
<1>. QED  BY <1>1, <1>2, <1>3, <1>4 DEF AreOf

LEMMA GivenType ==
    ASSUME given \in Record
    PROVE  /\ given.lines \in Seq(ConfigLines \cup Options)
           /\ given.options \in Seq(ConfigLines \cup Options)
           /\ Given \in Seq(ConfigLines \cup Options)
<1> DEFINE S == ConfigLines \cup Options
<1>1. given.lines \in Seq(ConfigLines) /\ given.options \in Seq(Options)
      BY DEF Record
<1>2. given.lines \in Seq(S)
  <2>1. given.lines \in [1 .. Len(given.lines) -> ConfigLines] /\ Len(given.lines) \in Nat
        BY <1>1, LenProperties
  <2>. QED  BY <2>1, SeqDef
<1>3. given.options \in Seq(S)
  <2>1. given.options \in [1 .. Len(given.options) -> Options] /\ Len(given.options) \in Nat
        BY <1>1, LenProperties
  <2>. QED  BY <2>1, SeqDef
<1> HIDE DEF S
<1>4. Given \in Seq(S)
      BY <1>2, <1>3, ConcatProperties DEF Given
<1>. QED  BY <1>2, <1>3, <1>4 DEF S

LEMMA LineIsRead ==
    ASSUME ReadInv, ReadConfigLine
    PROVE  ReadInv'
<1> DEFINE g == Head(file)
<1>1. file # <<>> /\ file \in Seq(ConfigLines) /\ given \in Record /\ given.options = <<>>
      BY DEF ReadInv, ReadConfigLine
<1>2. g \in ConfigLines /\ file' \in Seq(ConfigLines) /\ args' \in Seq(Options)
      BY <1>1, HeadTailProperties DEF ReadInv, ReadConfigLine
<1>3. IsLine(g)
      BY <1>2, MeaningAssumption
<1>4. given'.lines = Append(given.lines, g) /\ given'.options = <<>> /\ given' \in Record
  <2>1. given' = [given EXCEPT !.lines = Append(@, g)]
        BY DEF ReadConfigLine
  <2> HIDE DEF g
  <2>2. given.lines \in Seq(ConfigLines) /\ Append(given.lines, g) \in Seq(ConfigLines)
        BY <1>1, <1>2, AppendProperties DEF Record
  <2>. QED  BY <1>1, <2>1, <2>2 DEF Record
<1>5. Given = given.lines /\ Given' = Append(given.lines, g)
  <2>1. given.lines \in Seq(ConfigLines) /\ Append(given.lines, g) \in Seq(ConfigLines)
        BY <1>1, <1>2, AppendProperties DEF Record
  <2>2. Given = given.lines \o <<>> /\ Given' = Append(given.lines, g) \o <<>>
        BY <1>1, <1>4 DEF Given
  <2> HIDE DEF g
  <2>. QED  BY <2>1, <2>2, ConcatEmptySeq
<1>6. Follows(g)
      BY <1>3, ConfigLineFollows DEF ReadInv
<1>7. StartInv'
      BY ConfigLineType DEF ReadInv
<1> HIDE DEF g
<1>8. AreOf(params', warnings', Append(given.lines, g))
  <2>1. given.lines \in Seq(ConfigLines) /\ AreOf(params, warnings, given.lines)
        BY <1>1, <1>5 DEF ReadInv, Record
  <2>. QED  BY <1>2, <1>6, <2>1, ReadsOneMore
<1>. QED  BY <1>2, <1>4, <1>5, <1>7, <1>8 DEF ReadInv

LEMMA OptionIsRead ==
    ASSUME ReadInv, ReadOption
    PROVE  ReadInv'
<1> DEFINE g == Head(args)
           S == ConfigLines \cup Options
<1>1. args # <<>> /\ args \in Seq(Options) /\ given \in Record /\ file' = <<>>
      BY DEF ReadInv, ReadOption, OptionsAreDue
<1>2. g \in Options /\ args' \in Seq(Options)
      BY <1>1, HeadTailProperties DEF ReadOption
<1>3. IsToken(g)
      BY <1>2, MeaningAssumption
<1>4. given'.options = Append(given.options, g) /\ given'.lines = given.lines /\ given' \in Record
  <2>1. given' = [given EXCEPT !.options = Append(@, g)]
        BY DEF ReadOption
  <2> HIDE DEF g
  <2>2. given.options \in Seq(Options) /\ Append(given.options, g) \in Seq(Options)
        BY <1>1, <1>2, AppendProperties DEF Record
  <2>. QED  BY <1>1, <2>1, <2>2 DEF Record
<1>5. Given \in Seq(S)
      BY <1>1, GivenType
<1>6. Given' = Append(Given, g)
  <2>1. g \in S
        BY <1>2
  <2>2. given.lines \in Seq(S) /\ given.options \in Seq(S)
        BY <1>1, GivenType
  <2> HIDE DEF g, S
  <2>3. Append(given.options, g) = given.options \o <<g>> /\ <<g>> \in Seq(S)
        BY <2>1, <2>2, AppendIsConcat
  <2>4. Append(given.lines \o given.options, g) = (given.lines \o given.options) \o <<g>>
        BY <1>5, <2>1, AppendIsConcat DEF Given
  <2>5. given.lines \o (given.options \o <<g>>) = (given.lines \o given.options) \o <<g>>
    <3> DEFINE x == given.lines
               y == given.options
               z == <<g>>
    <3>1. x \in Seq(S) /\ y \in Seq(S) /\ z \in Seq(S)
          BY <2>2, <2>3
    <3> HIDE DEF x, y, z
    <3>2. x \o (y \o z) = (x \o y) \o z
          BY <3>1, ConcatAssociative
    <3>. QED  BY <3>2 DEF x, y, z
  <2>. QED  BY <1>4, <2>3, <2>4, <2>5 DEF Given
<1>7. Follows(g)
      BY <1>3, OptionFollows DEF ReadInv
<1>8. StartInv'
      BY OptionType DEF ReadInv
<1>9. file' \in Seq(ConfigLines)
      BY <1>1, EmptySeq
<1> HIDE DEF g
<1>10. AreOf(params', warnings', Append(Given, g))
  <2>1. AreOf(params, warnings, Given) /\ g \in S
        BY <1>2 DEF ReadInv
  <2> HIDE DEF S
  <2>. QED  BY <1>5, <1>7, <2>1, ReadsOneMore
<1>. QED  BY <1>1, <1>2, <1>4, <1>6, <1>8, <1>9, <1>10 DEF ReadInv

LEMMA InitReads ==
    ASSUME ProgramInit
    PROVE  ReadInv
<1>1. NothingRead
      BY DEF ProgramInit, CliInit, NothingRead
<1>2. \A S, n : SeqOf(S, n) \subseteq Seq(S)
      BY DEF SeqOf
<1>3. file \in Seq(ConfigLines) /\ args \in Seq(Options)
      BY <1>2 DEF ProgramInit, CliInit, BoundedSeq
<1>. QED  BY <1>1, <1>3, NothingReadYet DEF ReadInv

LEMMA ReadInvIsKept == ReadInv /\ [ProgramNext]_<<vars, cliVars>> => ReadInv'
<1> SUFFICES ASSUME ReadInv, [ProgramNext]_<<vars, cliVars>> PROVE ReadInv'
    OBVIOUS
<1>1. CASE Configure
      BY <1>1, LineIsRead, OptionIsRead DEF Configure, CliNext
<1>2. CASE RunPlainLineMode
  <2>1. NothingRead' /\ UNCHANGED <<file, args>>
        BY <1>2 DEF RunPlainLineMode, NothingRead
  <2>2. (NothingRead => StartInv /\ given \in Record /\ given.options = <<>> /\ AreOf(params, warnings, Given))'
        BY NothingReadYet, PTL
  <2>. QED  BY <2>1, <2>2 DEF ReadInv
<1>3. CASE UNCHANGED cliVars
      BY <1>3 DEF cliVars, ReadInv, StartInv, Given
<1>. QED  BY <1>1, <1>2, <1>3 DEF ProgramNext

\* cli.hpp:1-13: at the end of the parse every parameter has the value given last, an
\* option before a line and a line before the default, and the nearest value when it
\* is out of range: for every file and every command line the grammar has a word for.
THEOREM LastValueAlwaysWins == ProgramSpec => []LastValueWins
<1>1. ReadInv => LastValueWins
      BY DEF ReadInv, AreOf, LastOf, Of, LastValueWins
<1>. QED  BY <1>1, InitReads, ReadInvIsKept, PTL DEF ProgramSpec

\* cli.hpp:22: at every moment there are as many warnings as problems were read.
THEOREM EveryProblemIsAlwaysReported == ProgramSpec => []EveryProblemIsReported
<1>1. ReadInv => EveryProblemIsReported
      BY DEF ReadInv, AreOf, Problems, IsProblem, EveryProblemIsReported
<1>. QED  BY <1>1, InitReads, ReadInvIsKept, PTL DEF ProgramSpec

\* MeaningAssumption leaves nothing out: whatever is written in a line of the file, or
\* passed as an option, the grammar gives it a meaning (cli.cpp loadConfigFile, parseCli).
THEOREM EverythingMeansSomething ==
    ASSUME NEW S, NEW t \in Seq(S)
    PROVE  /\ \E key, value : IsLine([text |-> t, key |-> key, value |-> value])
           /\ \E key, value : IsToken([text |-> t, key |-> key, value |-> value])
<1> DEFINE Meaning(key, value) == [text |-> t, key |-> key, value |-> value]
           spoken == Spoken(SubSeq(t, 3, Len(t)))
<1>1. /\ \A key, value : /\ Meaning(key, value).text = t
                         /\ Meaning(key, value).key = key
                         /\ Meaning(key, value).value = value
      /\ t \in Seq(Range(t))
      BY SeqOfRange
<1> HIDE DEF Meaning, spoken
<1>2. \E key, value : IsLine(Meaning(key, value))
  <2>1. CASE SaysNothing(t)
    <3>1. IsLine(Meaning("nothing", 0))
          BY <1>1, <2>1, Zenon DEF IsLine
    <3>. QED  BY <3>1
  <2>2. ASSUME NEW n, Sets(t, "refresh_ms", n)
        PROVE  IsLine(Meaning("refresh", n))
        BY <1>1, <2>2, Zenon DEF IsLine
  <2>3. ASSUME NEW n, Sets(t, "polling_ms", n)
        PROVE  IsLine(Meaning("poll", n))
        BY <1>1, <2>3, Zenon DEF IsLine
  <2>4. ASSUME NEW name, ~ SetsNothing(t, name)
        PROVE  \E n : Sets(t, name, n)
        BY <2>4, Zenon DEF Sets, SetsNothing
  <2>5. CASE SetsNothing(t, "refresh_ms") /\ SetsNothing(t, "polling_ms") /\ ~ SaysNothing(t)
    <3>1. IsLine(Meaning("mistake", 0))
          BY <1>1, <2>5, Zenon DEF IsLine
    <3>. QED  BY <3>1
  <2>. QED  BY <2>1, <2>2, <2>3, <2>4, <2>5
<1>3. \E key, value : IsToken(Meaning(key, value))
  <2>1. CASE IsOption(t, "--refresh-ms")
    <3>1. OptionSets(t, "--refresh-ms", spoken)
          BY <2>1 DEF OptionSets, spoken
    <3>2. IsToken(Meaning("refresh", spoken))
          BY <1>1, <3>1, Zenon DEF IsToken
    <3>. QED  BY <3>2
  <2>2. CASE IsOption(t, "--poll-ms")
    <3>1. OptionSets(t, "--poll-ms", spoken)
          BY <2>2 DEF OptionSets, spoken
    <3>2. IsToken(Meaning("poll", spoken))
          BY <1>1, <3>1, Zenon DEF IsToken
    <3>. QED  BY <3>2
  <2>3. CASE t = <<"--no-tty">>
    <3>1. IsToken(Meaning("no tty", 0))
          BY <1>1, <2>3, Zenon DEF IsToken
    <3>. QED  BY <3>1
  <2>4. CASE t # <<"--no-tty">> /\ ~ IsOption(t, "--refresh-ms") /\ ~ IsOption(t, "--poll-ms")
    <3>1. IsToken(Meaning("mistake", 0))
          BY <1>1, <2>4, Zenon DEF IsToken
    <3>. QED  BY <3>1
  <2>. QED  BY <2>1, <2>2, <2>3, <2>4
<1>. QED  BY <1>2, <1>3 DEF Meaning

=============================================================================
