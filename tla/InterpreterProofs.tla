------------------------- MODULE InterpreterProofs -------------------------
(***************************************************************************)
(* What the operators of Interpreter return, for every alphabet and every  *)
(* range: the lemmas the proofs about its users rest on.                   *)
(***************************************************************************)
EXTENDS Interpreter, SequenceLemmas

----------------------------------------------------------------------------
\* Strings.

\* Trim returns a sequence over the same symbols, and one that begins and ends
\* with a symbol that is kept.
LEMMA TrimProperties ==
    ASSUME NEW S, NEW s \in Seq(S), NEW drop
    PROVE  /\ Trim(s, drop) \in Seq(S)
           /\ Trim(s, drop) # <<>> =>
                /\ Trim(s, drop)[1] \notin drop
                /\ Trim(s, drop)[Len(Trim(s, drop))] \notin drop
<1> DEFINE kept == {i \in DOMAIN s : s[i] \notin drop}
           a    == Min(kept)
           b    == Max(kept)
<1>1. CASE kept = {}
  <2>1. Trim(s, drop) = <<>>
        BY <1>1 DEF Trim
  <2>. QED  BY <2>1
<1>2. CASE kept # {}
  <2>1. kept \subseteq 1 .. Len(s) /\ Len(s) \in Nat
        OBVIOUS
  <2>2. kept \subseteq Nat /\ kept \subseteq 0 .. Len(s)
        BY <2>1
  <2>3. a \in kept /\ \A y \in kept : a <= y
        BY <1>2, <2>2, LeastOf
  <2>4. b \in kept
        BY <1>2, <2>1, <2>2, GreatestOf
  <2>5. Trim(s, drop) = SubSeq(s, a, b)
        BY <1>2 DEF Trim
  <2>6. a \in 1 .. Len(s) /\ b \in 1 .. Len(s) /\ a <= b /\ s[a] \notin drop /\ s[b] \notin drop
        BY <2>1, <2>3, <2>4
  <2> HIDE DEF a, b, kept
  <2>7. \A i \in a .. b : s[i] \in S
        BY <2>6
  <2>8. /\ SubSeq(s, a, b) \in Seq(S)
        /\ Len(SubSeq(s, a, b)) = b - a + 1
        /\ \A i \in 1 .. b - a + 1 : SubSeq(s, a, b)[i] = s[a + i - 1]
        BY <2>6, <2>7, SubSeqProperties
  <2>9. SubSeq(s, a, b)[1] = s[a] /\ SubSeq(s, a, b)[b - a + 1] = s[b]
        BY <2>6, <2>8
  <2>. QED  BY <2>5, <2>6, <2>8, <2>9
<1>. QED  BY <1>1, <1>2

LEMMA ArgumentType ==
    ASSUME NEW S, NEW s \in Seq(S)
    PROVE  ArgumentOf(s) \in Seq(S)
<1> DEFINE T == {i \in DOMAIN s : s[i] \in Blanks} \cup {Len(s) + 1}
<1>1. T \subseteq 1 .. Len(s) + 1 /\ T # {} /\ Len(s) \in Nat
      OBVIOUS
<1>2. T \subseteq Nat
      BY <1>1
<1>3. Min(T) \in T
      BY <1>1, <1>2, LeastOf
<1>4. FirstBlank(s) \in 1 .. Len(s) + 1
      BY <1>1, <1>3 DEF FirstBlank
<1>5. SubSeq(s, FirstBlank(s), Len(s)) \in Seq(S)
      BY <1>1, <1>4, SubSeqProperties
<1>. QED  BY <1>5, TrimProperties DEF ArgumentOf

----------------------------------------------------------------------------
\* Commands keep the state well formed.

\* Whatever number was parsed, set_speed stores one inside the range.
LEMMA ClampRefreshInRange ==
    ASSUME NEW ms
    PROVE  ClampRefresh(ms) \in RefreshMin .. RefreshMax
BY RangesAssumption DEF ClampRefresh

LEMMA SetTextType ==
    ASSUME NEW app \in App, NEW t \in Seq(Symbols)
    PROVE  SetText(app, t) \in App
<1> DEFINE trimmed == Trim(t, {Space})
<1>1. trimmed \in Seq(Symbols)
      BY TrimProperties
<1>2. ASSUME Range(trimmed) \subseteq Printable
      PROVE  trimmed \in Seq(Printable)
  <2> HIDE DEF trimmed
  <2>1. /\ Len(trimmed) \in Nat
        /\ trimmed \in [1 .. Len(trimmed) -> Symbols]
        BY <1>1, LenProperties
  <2>2. \A i \in 1 .. Len(trimmed) : trimmed[i] \in Printable
        BY <1>2, <2>1 DEF Range
  <2>3. trimmed \in [1 .. Len(trimmed) -> Printable]
        BY <2>1, <2>2
  <2>. QED  BY <2>1, <2>3, SeqDef
<1>3. SetText(app, t) \in {[app EXCEPT !.message = "usage"], [app EXCEPT !.message = "text not ascii"]}
        \/ (trimmed \in Seq(Printable) /\ SetText(app, t) = [app EXCEPT !.text = trimmed, !.message = "text set"])
      BY <1>2 DEF SetText
<1> HIDE DEF trimmed
<1>. QED  BY <1>3 DEF App, Messages

LEMMA RunCommandType ==
    ASSUME NEW app \in App, NEW cmd, NEW arg \in Seq(Symbols)
    PROVE  RunCommand(app, cmd, arg) \in App
<1>1. \A m \in Messages : [app EXCEPT !.message = m] \in App
      BY DEF App
<1>2. ProcStart(app) \in App /\ ProcStop(app) \in App
      BY DEF ProcStart, ProcStop, App, Messages, ProcessState
<1>3. [app EXCEPT !.quit = TRUE, !.message = "goodbye"] \in App
      BY DEF App, Messages
<1>4. SetTextCommand(app, arg) \in App
      BY <1>1, SetTextType DEF SetTextCommand, Messages
<1>5. SetSpeedCommand(app, arg) \in App
  <2> DEFINE requested == ParseFullInteger(arg)
             applied   == ClampRefresh(requested)
             said      == IF applied = requested THEN "speed set" ELSE "speed clamped"
  <2>1. applied \in RefreshMin .. RefreshMax
        BY ClampRefreshInRange
  <2>2. said \in Messages
        BY DEF Messages
  <2>3. \/ SetSpeedCommand(app, arg) = [app EXCEPT !.message = "usage"]
        \/ SetSpeedCommand(app, arg) = [app EXCEPT !.refreshMs = applied, !.message = said]
        BY DEF SetSpeedCommand
  <2> HIDE DEF requested, applied, said
  <2>4. [app EXCEPT !.refreshMs = applied, !.message = said] \in App
        BY <2>1, <2>2 DEF App
  <2>5. [app EXCEPT !.message = "usage"] \in App
        BY <1>1 DEF Messages
  <2>. QED  BY <2>3, <2>4, <2>5
<1> HIDE DEF App
<1>. QED  BY <1>1, <1>2, <1>3, <1>4, <1>5 DEF RunCommand, Messages

LEMMA ExecuteLineType ==
    ASSUME NEW app \in App, NEW raw \in Seq(Symbols)
    PROVE  ExecuteLine(app, raw) \in App
<1> DEFINE line == Trim(raw, Blanks)
<1>1. line \in Seq(Symbols)
      BY TrimProperties
<1>2. RunCommand(app, CommandOf(line), ArgumentOf(line)) \in App
      BY <1>1, ArgumentType, RunCommandType
<1>3. [app EXCEPT !.message = "none"] \in App
      BY DEF App, Messages
<1>. QED  BY <1>2, <1>3 DEF ExecuteLine

----------------------------------------------------------------------------
\* The line editor keeps it well formed too.

LEMMA FeedType ==
    ASSUME NEW app \in App, NEW ev \in KeyEvents
    PROVE  Feed(app, ev) \in App
<1>1. Printable \subseteq Symbols
      BY DEF Symbols
<1>2. app.line \in Seq(Printable)
      BY DEF App
<1>3. app.line \in Seq(Symbols)
      BY <1>1, <1>2
<1>4. [app EXCEPT !.line = <<>>] \in App
  <2>1. <<>> \in Seq(Printable)
        BY EmptySeq
  <2>. QED  BY <2>1 DEF App
<1>5. Submit(app) \in App
      BY <1>3, <1>4, ExecuteLineType DEF Submit
<1>6. [Submit(app) EXCEPT !.quit = TRUE] \in App
      BY <1>5 DEF App
<1>7. ASSUME ev.ch \in Printable
      PROVE  [app EXCEPT !.line = Append(@, ev.ch)] \in App
  <2>1. Append(app.line, ev.ch) \in Seq(Printable)
        BY <1>2, <1>7, AppendProperties
  <2>. QED  BY <2>1 DEF App
<1>8. ASSUME app.line # <<>>
      PROVE  [app EXCEPT !.line = Front(@)] \in App
  <2>1. Front(app.line) \in Seq(Printable)
        BY <1>2, <1>8, SubSeqProperties DEF Front
  <2>. QED  BY <2>1 DEF App
<1>. QED  BY <1>5, <1>6, <1>7, <1>8 DEF Feed

=============================================================================
