----------------------------- MODULE Win32Input -----------------------------
(***************************************************************************)
(* Keyboard input on Windows: Win32Terminal::readEvent() waits for the     *)
(* console, asks the C runtime whether a key can be read, and decodes it.  *)
(*                                                                         *)
(* The console's queue of input records, and the runtime's _kbhit() and    *)
(* _getch() over it, are external.  The runtime sees key-down records that *)
(* have a character or an extended code; _getch() throws away what it      *)
(* skips, and gives an extended key in two calls: a lead byte, then the    *)
(* code it has put aside.  The wait sees every record.  A console that has *)
(* failed makes every call on it fail.  (readEvent() also returns at once  *)
(* for an invalid handle: there the program never gets to raw mode.)       *)
(***************************************************************************)
EXTENDS Integers, Sequences, FiniteSetsExt, SequencesExt

CONSTANTS
    TimeoutMs,      \* the wait of one readEvent()
    Keys,           \* what the user does, a subset of DOMAIN KeyRecords
    MaxKeys         \* bound: how often

ASSUME WaitAssumption == TimeoutMs \in Nat \ {0}

VARIABLES
    stage,      \* "idle" between calls; "wait", "look", "drain", "extended" in one
    left,       \* milliseconds left of the wait
    records,    \* the console's queue
    aside,      \* the code that _getch() has put aside, or none
    console,    \* "open", or "failed": its handle cannot be read any more
    typed,      \* history: what the user did
    events      \* history: the events delivered

vars == <<stage, left, records, aside, console, typed, events>>

----------------------------------------------------------------------------
\* The console and the runtime.

Char(b) == [kind |-> "char", code |-> b]
Extended(code) == [kind |-> "extended", code |-> code]
Modifier == [kind |-> "modifier", code |-> 0]
Up == [kind |-> "up", code |-> 0]
Focus == [kind |-> "focus", code |-> 0]

KeyDown(r) == r.kind \in {"char", "extended", "modifier"}

\* What _getch() can return.
Returnable(r) == r.kind \in {"char", "extended"}

KeyRecords ==
    [ H       |-> <<Char(72), Up>>,
      Enter   |-> <<Char(13), Up>>,
      CtrlA   |-> <<Char(1), Up>>,
      CtrlC   |-> <<Char(3), Up>>,
      ArrowUp |-> <<Extended(72), Up>>,
      F1      |-> <<Extended(59), Up>>,
      Agrave  |-> <<Char(224), Up>>,        \* the character 0xE0 of code page 1252
      Shift   |-> <<Modifier, Up>>,
      Switch  |-> <<Focus>> ]               \* the window gets the focus

ASSUME KeysAssumption == Keys \subseteq DOMAIN KeyRecords

CanRead == aside # <<>> \/ \E i \in DOMAIN records : Returnable(records[i])

FirstReturnable == Min({i \in DOMAIN records : Returnable(records[i])})

\* _getch(): the byte it returns, the queue and the code put aside after it.
GetCh(c) ==
    IF aside # <<>> THEN c = Head(aside) /\ aside' = <<>> /\ UNCHANGED records
    ELSE LET r == records[FirstReturnable]
         IN  /\ c = IF r.kind = "extended" THEN 224 ELSE r.code
             /\ aside' = IF r.kind = "extended" THEN <<r.code>> ELSE <<>>
             /\ records' = SubSeq(records, FirstReturnable + 1, Len(records))

\* The console has failed and _getch() has nothing put aside: _kbhit() is zero, and
\* _getch() returns EOF.
Broken == console = "failed" /\ aside = <<>>
EOF == -1

Bytes == {0, 1, 3, 4, 8, 9, 10, 13, 26, 27, 59, 72, 127, 224}

Press(k) ==
    /\ Len(typed) < MaxKeys
    /\ typed' = Append(typed, k)
    /\ records' = records \o KeyRecords[k]
    /\ UNCHANGED <<stage, left, aside, console, events>>

\* The console fails, for instance because its window is gone.
Fail ==
    /\ console = "open"
    /\ console' = "failed"
    /\ UNCHANGED <<stage, left, records, aside, typed, events>>

----------------------------------------------------------------------------
\* readEvent().

Typed(c) == [type |-> "Char", ch |-> c]
Special(type) == [type |-> type, ch |-> 0]

Ended == events # <<>> /\ Last(events).type = "Eof"

Deliver(e) == stage' = "idle" /\ left' = 0 /\ events' = Append(events, e)

\* The call returns false.
ReturnNothing == stage' = "idle" /\ left' = 0 /\ UNCHANGED events

Call ==
    /\ stage = "idle" /\ ~Ended
    /\ stage' = "wait" /\ left' = TimeoutMs
    /\ UNCHANGED <<records, aside, console, typed, events>>

Signaled ==
    /\ stage = "wait" /\ records # <<>>
    /\ stage' = "look"
    /\ UNCHANGED <<left, records, aside, console, typed, events>>

TimeOut ==
    /\ stage = "wait" /\ records = <<>> /\ left = 0
    /\ ReturnNothing
    /\ UNCHANGED <<records, aside, console, typed>>

\* WaitForSingleObject() fails, without waiting.
WaitFails ==
    /\ stage = "wait" /\ console = "failed"
    /\ ReturnNothing
    /\ UNCHANGED <<records, aside, console, typed>>

\* A millisecond of waiting.
Elapse ==
    /\ stage = "wait" /\ records = <<>> /\ left > 0
    /\ left' = left - 1
    /\ UNCHANGED <<stage, records, aside, console, typed, events>>

BugReturnAtOnce ==
    /\ stage = "look" /\ (~CanRead \/ Broken)
    /\ ReturnNothing
    /\ UNCHANGED <<records, aside, console, typed>>

NothingToRead ==
    /\ stage = "look" /\ (~CanRead \/ Broken)
    /\ stage' = "drain"
    /\ UNCHANGED <<left, records, aside, console, typed, events>>

BugFlush ==
    /\ stage = "drain"
    /\ records' = <<>> /\ ReturnNothing
    /\ UNCHANGED <<aside, console, typed>>

\* drainFilteredRecords(), one record at a time.
Drain ==
    /\ stage = "drain"
    /\ IF console = "open" /\ records # <<>> /\ ~KeyDown(Head(records))
       THEN records' = Tail(records) /\ UNCHANGED <<stage, left, events>>
       ELSE ReturnNothing /\ UNCHANGED records
    /\ UNCHANGED <<aside, console, typed>>

----------------------------------------------------------------------------
\* decode() and decodeExtended().

Direct(c) ==
    CASE c \in {10, 13}   -> "Enter"
      [] c \in {8, 127}   -> "Backspace"
      [] c = 9            -> "Tab"
      [] c = 27           -> "Escape"
      [] c \in {3, 4, 26, EOF} -> "Eof"
      [] OTHER            -> "None"

Arrow(code) ==
    CASE code = 72 -> "ArrowUp" [] code = 80 -> "ArrowDown"
      [] code = 75 -> "ArrowLeft" [] code = 77 -> "ArrowRight" [] OTHER -> "None"

Decode(c) ==
    \/ c \in {0, 224} /\ stage' = "extended" /\ UNCHANGED <<left, events>>
    \/ Direct(c) # "None" /\ Deliver(Special(Direct(c)))
    \/ Direct(c) = "None" /\ c \in 32 .. 126 /\ Deliver(Typed(c))
    \/ Direct(c) = "None" /\ c \notin (32 .. 126) \cup {0, 224} /\ ReturnNothing

\* The console may also fail between _kbhit() and _getch().
Read ==
    /\ stage = "look" /\ CanRead
    /\ \/ ~Broken /\ \E c \in Bytes : GetCh(c) /\ Decode(c)
       \/ Broken /\ Decode(EOF) /\ UNCHANGED <<records, aside>>
    /\ UNCHANGED <<console, typed>>

DecodeExtended ==
    /\ stage = "extended"
    /\ \/ (~CanRead \/ Broken) /\ ReturnNothing /\ UNCHANGED <<records, aside>>
       \/ CanRead /\ ~Broken /\ \E code \in Bytes :
              /\ GetCh(code)
              /\ IF Arrow(code) = "None" THEN ReturnNothing ELSE Deliver(Special(Arrow(code)))
    /\ UNCHANGED <<console, typed>>

----------------------------------------------------------------------------

Init ==
    /\ stage = "idle" /\ left = 0 /\ records = <<>> /\ aside = <<>>
    /\ console = "open" /\ typed = <<>> /\ events = <<>>

Reader == Call \/ Signaled \/ TimeOut \/ WaitFails \/ NothingToRead \/ Drain \/ Read \/ DecodeExtended

Next == Reader \/ Elapse \/ Fail \/ (\E k \in Keys : Press(k))

Spec == Init /\ [][Next]_vars

----------------------------------------------------------------------------
\* Properties.

\* What a key is expected to deliver.
KeyEvent(k) ==
    CASE k = "H"                   -> <<Typed(72)>>
      [] k \in {"Enter", "ArrowUp"} -> <<Special(k)>>
      [] k = "CtrlC"               -> <<Special("Eof")>>
      [] OTHER                     -> <<>>

\* While the console can be read every key gives its event, once and in order: draining the records that the
\* runtime skips never takes a key with it, also one that arrives after _kbhit()
\* has found none, and the second byte of an extended key, mapped or not, is
\* never taken for a character.  (A character whose code is that of a lead byte
\* is the exception: decode() takes the key after it for its second byte.)
KeystrokesAreDelivered ==
    LET expected == FlattenSeq([i \in DOMAIN typed |-> KeyEvent(typed[i])])
    IN  console = "open" /\ "Agrave" \notin Range(typed) =>
            /\ IsPrefix(events, expected)
            /\ records = <<>> /\ aside = <<>> /\ stage = "idle" => events = expected

\* terminal_win32.cpp:98: "Wait on the console handle instead of polling _kbhit().
\* This avoids a busy loop.": a call that found no key leaves nothing in the queue
\* that would end the next wait at once and again give no key.  (A modifier key is
\* the exception: its record is a key-down record, which stops the draining.)
WaitIsNotWasted ==
    [][ console = "open" /\ ~CanRead /\ stage \in {"look", "drain"} /\ stage' = "idle"
        => CanRead' \/ records' = <<>> \/ Head(records') = Modifier ]_vars

=============================================================================
