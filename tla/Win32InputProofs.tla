-------------------------- MODULE Win32InputProofs --------------------------
(***************************************************************************)
(* Keyboard input on Windows, for every timeout, every set of the keys and *)
(* any number of key presses, whenever they come.                          *)
(***************************************************************************)
EXTENDS Win32Input, SequenceLemmas

----------------------------------------------------------------------------
\* Types.

AllKeys == {"H", "Enter", "CtrlA", "CtrlC", "ArrowUp", "F1", "Agrave", "Shift", "Switch"}

Skipped == {Modifier, Up, Focus}

Record == Skipped \cup {Char(72), Char(13), Char(1), Char(3), Char(224), Extended(72), Extended(59)}

Event == [type : {"Char", "Enter", "Backspace", "Tab", "Escape", "Eof",
                  "ArrowUp", "ArrowDown", "ArrowLeft", "ArrowRight"}, ch : Nat]

TypeOK ==
    /\ stage \in {"idle", "wait", "look", "drain", "extended"}
    /\ left \in Nat
    /\ records \in Seq(Record)
    /\ typed \in Seq(Keys) /\ events \in Seq(Event)

\* The record that a key begins with, and the table of the keys.
Lead(k) ==
    CASE k = "H" -> Char(72) [] k = "Enter" -> Char(13) [] k = "CtrlA" -> Char(1) [] k = "CtrlC" -> Char(3)
      [] k = "ArrowUp" -> Extended(72) [] k = "F1" -> Extended(59) [] k = "Agrave" -> Char(224)
      [] k = "Shift" -> Modifier

LEMMA KeyTable ==
    /\ DOMAIN KeyRecords = AllKeys
    /\ \A k \in AllKeys \ {"Switch"} : KeyRecords[k] = <<Lead(k), Up>>
    /\ KeyRecords["Switch"] = <<Focus>>
<1>1. DOMAIN KeyRecords = AllKeys /\ KeyRecords["Switch"] = <<Focus>>
      BY DEF KeyRecords, AllKeys
<1>2. ASSUME NEW k \in AllKeys \ {"Switch"} PROVE KeyRecords[k] = <<Lead(k), Up>>
  <2>1. CASE k \in {"H", "Enter", "CtrlA", "CtrlC"}
        BY <2>1 DEF KeyRecords, Lead
  <2>2. CASE k \in {"ArrowUp", "F1", "Agrave", "Shift"}
        BY <2>2 DEF KeyRecords, Lead
  <2>. QED  BY <2>1, <2>2 DEF AllKeys
<1>. QED  BY <1>1, <1>2

LEMMA LeadType ==
    ASSUME NEW k \in AllKeys \ {"Switch"}
    PROVE  Lead(k) \in Record
<1>1. CASE k \in {"H", "Enter", "CtrlA", "CtrlC"}
      BY <1>1 DEF Record, Lead
<1>2. CASE k \in {"ArrowUp", "F1", "Agrave", "Shift"}
      BY <1>2 DEF Record, Lead, Skipped
<1>. QED  BY <1>1, <1>2 DEF AllKeys

LEMMA KeyRecordsType == \A k \in Keys : KeyRecords[k] \in Seq(Record) /\ KeyRecords[k] # <<>>
<1>1. \A a, b \in Record : <<a>> \in Seq(Record) /\ <<a, b>> \in Seq(Record) /\ <<a>> # <<>> /\ <<a, b>> # <<>>
      OBVIOUS
<1>2. Up \in Record /\ Focus \in Record
      BY DEF Record, Skipped
<1>. QED  BY <1>1, <1>2, KeyTable, LeadType, KeysAssumption

\* What the kind of a record says of it.
LEMMA RecordKinds ==
    /\ \A r \in Skipped : ~ Returnable(r)
    /\ \A r \in Record : Returnable(r) <=> r \notin Skipped
    /\ \A r \in Record : KeyDown(r) /\ ~ Returnable(r) => r = Modifier
    /\ \A r \in Record : ~ KeyDown(r) => r \in {Up, Focus}
BY DEF Skipped, Record, Returnable, KeyDown, Modifier, Up, Focus, Char, Extended

LEMMA DecodeCases ==
    ASSUME TypeOK, NEW c \in Bytes \cup {EOF}, Decode(c)
    PROVE  \/ c \in {0, 224} /\ stage' = "extended" /\ left' = left /\ events' = events
           \/ stage' = "idle" /\ left' = 0 /\ events' = events
           \/ stage' = "idle" /\ left' = 0 /\ \E e \in Event : events' = Append(events, e)
<1>1. Direct(c) # "None" => Special(Direct(c)) \in Event
      BY DEF Direct, Special, Event
<1>2. c \in 32 .. 126 => Typed(c) \in Event
      BY DEF Typed, Event
<1>. QED  BY <1>1, <1>2 DEF Decode, Deliver, ReturnNothing

LEMMA GrowingType ==
    ASSUME NEW s \in Seq(Event), NEW e \in Event
    PROVE  Append(s, e) \in Seq(Event)
BY AppendProperties

LEMMA GetChType ==
    ASSUME TypeOK, NEW c, GetCh(c), CanRead
    PROVE  records' \in Seq(Record)
<1>1. CASE aside # <<>>
      BY <1>1 DEF GetCh, TypeOK
<1>2. CASE aside = <<>>
  <2> DEFINE T == {i \in DOMAIN records : Returnable(records[i])}
  <2>1. DOMAIN records = 1 .. Len(records) /\ Len(records) \in Nat
        BY DEF TypeOK
  <2>2. T \subseteq Nat /\ T # {}
        BY <1>2, <2>1 DEF CanRead
  <2>3. Min(T) \in 1 .. Len(records)
        BY <2>1, <2>2, LeastOf
  <2>4. records' = SubSeq(records, Min(T) + 1, Len(records))
        BY <1>2 DEF GetCh, FirstReturnable
  <2> HIDE DEF T
  <2>5. \A i \in Min(T) + 1 .. Len(records) : records[i] \in Record
        BY <2>1, <2>3 DEF TypeOK
  <2>. QED  BY <2>1, <2>3, <2>4, <2>5, SubSeqProperties
<1>. QED  BY <1>1, <1>2

LEMMA TypeInit == Init => TypeOK
<1>1. <<>> \in Seq(Record) /\ <<>> \in Seq(Keys) /\ <<>> \in Seq(Event)
      BY EmptySeq
<1>. QED  BY <1>1 DEF Init, TypeOK

LEMMA TypeStep == TypeOK /\ [Next]_vars => TypeOK'
<1> SUFFICES ASSUME TypeOK, [Next]_vars PROVE TypeOK'
    OBVIOUS
<1>1. CASE Call
      BY <1>1, WaitAssumption DEF Call, TypeOK
<1>2. CASE Signaled \/ TimeOut \/ WaitFails \/ NothingToRead \/ Elapse \/ Fail \/ UNCHANGED vars
      BY <1>2 DEF Signaled, TimeOut, WaitFails, NothingToRead, Elapse, Fail, ReturnNothing, vars, TypeOK
<1>3. CASE Drain
  <2>1. records # <<>> => Tail(records) \in Seq(Record)
        BY HeadTailProperties DEF TypeOK
  <2>2. records' \in Seq(Record)
        BY <1>3, <2>1 DEF Drain, TypeOK
  <2>. QED  BY <1>3, <2>2 DEF Drain, ReturnNothing, TypeOK
<1>4. CASE Read
  <2>1. PICK c \in Bytes \cup {EOF} : (GetCh(c) \/ records' = records) /\ Decode(c)
        BY <1>4 DEF Read
  <2>2. records' \in Seq(Record) /\ typed' = typed
        BY <1>4, <2>1, GetChType DEF Read, TypeOK
  <2>3. events' \in Seq(Event)
        BY <2>1, DecodeCases, GrowingType DEF TypeOK
  <2>. QED  BY <2>1, <2>2, <2>3, DecodeCases DEF TypeOK
<1>5. CASE DecodeExtended
  <2>1. CASE ~ CanRead \/ Broken
        BY <1>5, <2>1 DEF DecodeExtended, ReturnNothing, TypeOK
  <2>2. CASE CanRead /\ ~ Broken
    <3>1. PICK code \in Bytes : GetCh(code) /\ IF Arrow(code) = "None" THEN ReturnNothing ELSE Deliver(Special(Arrow(code)))
          BY <1>5, <2>2 DEF DecodeExtended
    <3>2. records' \in Seq(Record) /\ typed' = typed
          BY <1>5, <2>2, <3>1, GetChType DEF DecodeExtended
    <3>3. Arrow(code) # "None" => Special(Arrow(code)) \in Event
          BY DEF Arrow, Special, Event
    <3>4. events' \in Seq(Event)
          BY <3>1, <3>3, GrowingType DEF ReturnNothing, Deliver, TypeOK
    <3>. QED  BY <3>1, <3>2, <3>4 DEF ReturnNothing, Deliver, TypeOK
  <2>. QED  BY <2>1, <2>2
<1>6. ASSUME NEW k \in Keys, Press(k) PROVE TypeOK'
  <2>1. typed' \in Seq(Keys)
        BY <1>6, AppendProperties DEF Press, TypeOK
  <2>2. records' \in Seq(Record)
    <3>1. records \o KeyRecords[k] \in Seq(Record)
          BY KeyRecordsType, ConcatProperties DEF TypeOK
    <3>. QED  BY <1>6, <3>1 DEF Press
  <2>. QED  BY <1>6, <2>1, <2>2 DEF Press, TypeOK
<1>. QED  BY <1>1, <1>2, <1>3, <1>4, <1>5, <1>6 DEF Next, Reader

\* Whenever keys come, the queue of the console holds records of keys only, and what is
\* delivered are events (terminal_win32.cpp readEvent).
THEOREM Win32TypeCorrect == Spec => []TypeOK
<1>. QED  BY TypeInit, TypeStep, PTL DEF Spec

\* A call that found nothing to read, on a console that can be read, leaves a queue that
\* makes the next wait a real one, or a key, or the record of a modifier key at its head
\* (terminal_win32.cpp drainFilteredRecords).
THEOREM WaitIsNeverWasted == Spec => WaitIsNotWasted
<1> DEFINE Useful == console = "open" /\ ~ CanRead /\ stage \in {"look", "drain"} /\ stage' = "idle"
                     => CanRead' \/ records' = <<>> \/ Head(records') = Modifier
<1>1. TypeOK /\ [Next]_vars => [Useful]_vars
  <2> SUFFICES ASSUME TypeOK, Next, console = "open", ~ CanRead, stage \in {"look", "drain"}, stage' = "idle", records' # <<>>
               PROVE  Head(records') = Modifier
      OBVIOUS
  <2>1. CASE Drain
    <3>1. records' = records /\ records # <<>> /\ KeyDown(Head(records))
          BY <2>1 DEF Drain
    <3>2. Head(records) = records[1] /\ records[1] \in Record /\ 1 \in DOMAIN records
          BY <3>1 DEF TypeOK
    <3>3. ~ Returnable(Head(records))
          BY <3>2 DEF CanRead
    <3>. QED  BY <3>1, <3>2, <3>3, RecordKinds
  <2>2. ~ Read /\ ~ NothingToRead /\ ~ DecodeExtended /\ ~ Call /\ ~ Signaled /\ ~ TimeOut /\ ~ WaitFails
        /\ ~ Elapse /\ ~ Fail /\ \A k \in Keys : ~ Press(k)
        BY DEF Read, NothingToRead, DecodeExtended, Call, Signaled, TimeOut, WaitFails, Elapse, Fail, Press
  <2>. QED  BY <2>1, <2>2 DEF Next, Reader
<1>. QED  BY <1>1, Win32TypeCorrect, PTL DEF Spec, WaitIsNotWasted

----------------------------------------------------------------------------
\* Every key gives its event.

Plain == Keys \ {"Agrave"}
Quiet == {"Shift", "Switch"}

Sent == [k \in Keys |-> KeyRecords[k]]
Answer == [k \in Keys |-> KeyEvent(k)]

RecordsOf(keys) == FlatMap(Sent, keys)
EventsOf(keys) == FlatMap(Answer, keys)

\* The keys of done are delivered, those of rest wait behind records that are skipped.
Between(done, rest, residue) ==
    /\ typed = done \o rest
    /\ records = residue \o RecordsOf(rest)
    /\ events = EventsOf(done)
    /\ aside = <<>>

\* The lead byte of key k has been read, and its code is put aside.
Within(done, k, rest, residue) ==
    /\ typed = done \o (<<k>> \o rest)
    /\ records = residue \o RecordsOf(rest)
    /\ events = EventsOf(done)
    /\ aside = <<Lead(k).code>>

Whole ==
    stage # "extended" /\ \E done, rest \in Seq(Plain), residue \in Seq(Skipped) : Between(done, rest, residue)

Part ==
    /\ stage = "extended"
    /\ \E done, rest \in Seq(Plain), k \in Plain \cap {"ArrowUp", "F1"}, residue \in Seq(Skipped) :
           Within(done, k, rest, residue)

KeyInv == console = "open" /\ typed \in Seq(Plain) => Whole \/ Part

LEMMA SentType == Sent \in [Keys -> Seq(Record)] /\ \A k \in Keys : Sent[k] = KeyRecords[k]
BY KeyRecordsType DEF Sent

LEMMA AnswerTable ==
    ASSUME NEW k \in Keys
    PROVE  /\ Answer[k] = KeyEvent(k) /\ Answer[k] \in Seq(Event)
           /\ k = "H" => Answer[k] = <<Typed(72)>>
           /\ k \in {"Enter", "ArrowUp"} => Answer[k] = <<Special(k)>>
           /\ k = "CtrlC" => Answer[k] = <<Special("Eof")>>
           /\ k \notin {"H", "Enter", "ArrowUp", "CtrlC"} => Answer[k] = <<>>
<1>1. Answer[k] = KeyEvent(k)
      BY DEF Answer
<1>2. /\ k = "H" => Answer[k] = <<Typed(72)>>
      /\ k \in {"Enter", "ArrowUp"} => Answer[k] = <<Special(k)>>
      /\ k = "CtrlC" => Answer[k] = <<Special("Eof")>>
      /\ k \notin {"H", "Enter", "ArrowUp", "CtrlC"} => Answer[k] = <<>>
      BY <1>1 DEF KeyEvent
<1>3. \A e \in Event : <<>> \in Seq(Event) /\ <<e>> \in Seq(Event)
      OBVIOUS
<1>4. Typed(72) \in Event /\ Special("Eof") \in Event /\ (k \in {"Enter", "ArrowUp"} => Special(k) \in Event)
      BY DEF Typed, Special, Event
<1>5. Answer[k] \in Seq(Event)
      BY <1>2, <1>3, <1>4
<1>. QED  BY <1>1, <1>2, <1>5

LEMMA AnswerType == Answer \in [Keys -> Seq(Event)]
BY AnswerTable DEF Answer

LEMMA PlainKeys == \A s \in Seq(Plain) : s \in Seq(Keys)
BY DEF Plain

LEMMA KeysTypes ==
    ASSUME NEW s \in Seq(Keys)
    PROVE  RecordsOf(s) \in Seq(Record) /\ EventsOf(s) \in Seq(Event)
BY SentType, AnswerType, FlatMapType DEF RecordsOf, EventsOf

LEMMA RecordsConcat ==
    ASSUME NEW a \in Seq(Keys), NEW b \in Seq(Keys)
    PROVE  RecordsOf(a \o b) = RecordsOf(a) \o RecordsOf(b)
BY SentType, FlatMapConcat DEF RecordsOf

LEMMA EventsConcat ==
    ASSUME NEW a \in Seq(Keys), NEW b \in Seq(Keys)
    PROVE  EventsOf(a \o b) = EventsOf(a) \o EventsOf(b)
BY AnswerType, FlatMapConcat DEF EventsOf

LEMMA RecordsAssociative ==
    ASSUME NEW a \in Seq(Record), NEW b \in Seq(Record), NEW c \in Seq(Record)
    PROVE  (a \o b) \o c = a \o (b \o c)
BY ConcatAssociative

LEMMA KeysAssociative ==
    ASSUME NEW a \in Seq(Plain), NEW b \in Seq(Plain), NEW c \in Seq(Plain)
    PROVE  (a \o b) \o c = a \o (b \o c)
BY ConcatAssociative

LEMMA OneKey ==
    ASSUME NEW k \in Keys
    PROVE  RecordsOf(<<k>>) = KeyRecords[k] /\ EventsOf(<<k>>) = Answer[k]
BY SentType, AnswerType, FlatMapOne DEF RecordsOf, EventsOf

\* Modifiers and changes of the focus are skipped, and deliver nothing.
LEMMA QuietKeys ==
    ASSUME NEW s \in Seq(Plain \cap Quiet)
    PROVE  RecordsOf(s) \in Seq(Skipped) /\ EventsOf(s) = <<>>
<1>1. \A k \in Plain \cap Quiet : Sent[k] \in Seq(Skipped)
  <2> SUFFICES ASSUME NEW k \in Plain \cap Quiet PROVE Sent[k] \in Seq(Skipped)
      OBVIOUS
  <2>1. k \in Keys /\ k \in {"Shift", "Switch"} /\ k \in AllKeys
        BY DEF Plain, Quiet, AllKeys
  <2>2. Sent[k] = <<Modifier, Up>> \/ Sent[k] = <<Focus>>
        BY <2>1, SentType, KeyTable DEF Lead
  <2>3. <<Modifier, Up>> \in Seq(Skipped) /\ <<Focus>> \in Seq(Skipped)
        BY DEF Skipped
  <2>. QED  BY <2>2, <2>3
<1>2. RecordsOf(s) \in Seq(Skipped)
      BY <1>1, FlatMapWithin DEF RecordsOf
<1>3. \A k \in Plain \cap Quiet : Answer[k] \in Seq({})
  <2>1. <<>> \in Seq({})
        OBVIOUS
  <2>. QED  BY <2>1, AnswerTable DEF Plain, Quiet
<1>4. EventsOf(s) \in Seq({})
      BY <1>3, FlatMapWithin DEF EventsOf
<1>. QED  BY <1>2, <1>4

\* The next key that _getch() can return is behind records that it skips.
LEMMA NextKey ==
    ASSUME NEW rest \in Seq(Plain)
    PROVE  \E quiet, more \in Seq(Plain) :
               /\ rest = quiet \o more
               /\ RecordsOf(quiet) \in Seq(Skipped) /\ EventsOf(quiet) = <<>>
               /\ more # <<>> => Head(more) \notin Quiet
<1>1. PICK quiet \in Seq(Plain \cap Quiet), more \in Seq(Plain) :
          rest = quiet \o more /\ (more # <<>> => Head(more) \notin Quiet)
      BY SplitAtFirst
<1>2. quiet \in Seq(Plain)
      OBVIOUS
<1>. QED  BY <1>1, <1>2, QuietKeys

\* _getch() with nothing put aside.
LEMMA TakeLead ==
    ASSUME aside = <<>>, NEW pre \in Seq(Skipped), NEW r \in Record, r \notin Skipped, NEW post \in Seq(Record),
           records = pre \o (<<r>> \o post), NEW c, GetCh(c)
    PROVE  /\ c = IF r.kind = "extended" THEN 224 ELSE r.code
           /\ aside' = IF r.kind = "extended" THEN <<r.code>> ELSE <<>>
           /\ records' = post
<1> DEFINE T == {i \in DOMAIN records : Returnable(records[i])}
           n == Len(pre) + 1
           tail == <<r>> \o post
<1>0. pre \in Seq(Record)
      BY DEF Record
<1>1. /\ tail \in Seq(Record) /\ Len(tail) = Len(post) + 1 /\ tail[1] = r
      /\ Len(pre) \in Nat /\ Len(post) \in Nat
      /\ \A i \in 1 .. Len(post) : tail[i + 1] = post[i]
      OBVIOUS
<1> HIDE DEF tail
<1>2. /\ records \in Seq(Record) /\ Len(records) = Len(pre) + Len(tail)
      /\ \A i \in 1 .. Len(pre) + Len(tail) : records[i] = IF i <= Len(pre) THEN pre[i] ELSE tail[i - Len(pre)]
      BY <1>0, <1>1, ConcatProperties DEF tail
<1>3. records[n] = r /\ n \in DOMAIN records
      BY <1>1, <1>2
<1>4. \A i \in 1 .. Len(pre) : records[i] \in Skipped
      BY <1>1, <1>2
<1>5. FirstReturnable = n
  <2>1. T \subseteq Nat /\ n \in T
        BY <1>2, <1>3, RecordKinds
  <2>2. Min(T) \in T /\ Min(T) <= n
        BY <2>1, LeastOf
  <2>3. Min(T) \notin 1 .. Len(pre)
        BY <1>4, <2>2, RecordKinds
  <2>6. T \subseteq DOMAIN records /\ DOMAIN records = 1 .. Len(records)
        BY <1>2
  <2> HIDE DEF T
  <2>4. Min(T) \in 1 .. Len(records)
        BY <2>2, <2>6
  <2>5. Min(T) = n
        BY <1>1, <1>2, <2>2, <2>3, <2>4
  <2>. QED  BY <2>5 DEF FirstReturnable, T
<1>6. records' = SubSeq(records, n + 1, Len(records)) /\ r = records[FirstReturnable]
      BY <1>3, <1>5 DEF GetCh
<1>7. SubSeq(records, n + 1, Len(records)) = post
  <2> DEFINE u == SubSeq(records, n + 1, Len(records))
  <2>1. /\ u \in Seq(Record) /\ Len(u) = IF n + 1 <= Len(records) THEN Len(records) - (n + 1) + 1 ELSE 0
        /\ \A i \in 1 .. Len(records) - (n + 1) + 1 : u[i] = records[n + 1 + i - 1]
    <3>1. \A i \in n + 1 .. Len(records) : records[i] \in Record
          BY <1>1, <1>2
    <3>. QED  BY <1>1, <1>2, <3>1, SubSeqProperties
  <2> HIDE DEF u
  <2>2. Len(u) = Len(post)
        BY <1>1, <1>2, <2>1
  <2>3. ASSUME NEW i \in 1 .. Len(post) PROVE u[i] = post[i]
    <3>1. i \in 1 .. Len(records) - (n + 1) + 1 /\ n + i \in 1 .. Len(pre) + Len(tail)
          /\ n + 1 + i - 1 = n + i /\ ~ (n + i <= Len(pre)) /\ (n + i) - Len(pre) = i + 1
          BY <1>1, <1>2
    <3>2. u[i] = records[n + i] /\ records[n + i] = tail[i + 1]
          BY <1>2, <2>1, <3>1
    <3>. QED  BY <1>1, <3>2
  <2>4. u = post
        BY <2>1, <2>2, <2>3, SeqEqual
  <2>. QED  BY <2>4 DEF u
<1>. QED  BY <1>6, <1>7 DEF GetCh

----------------------------------------------------------------------------
\* One key more at the end of a sequence of keys, and one less at its beginning.

LEMMA OneMore ==
    ASSUME NEW s \in Seq(Plain), NEW k \in Plain
    PROVE  /\ s \o <<k>> \in Seq(Plain)
           /\ RecordsOf(s \o <<k>>) = RecordsOf(s) \o KeyRecords[k]
           /\ EventsOf(s \o <<k>>) = EventsOf(s) \o Answer[k]
<1>1. k \in Keys /\ <<k>> \in Seq(Plain)
      BY DEF Plain
<1>2. s \in Seq(Keys) /\ <<k>> \in Seq(Keys) /\ s \o <<k>> \in Seq(Plain)
      BY <1>1, PlainKeys, ConcatProperties
<1>. QED  BY <1>1, <1>2, RecordsConcat, EventsConcat, OneKey

LEMMA FirstKey ==
    ASSUME NEW s \in Seq(Plain), s # <<>>
    PROVE  /\ Head(s) \in Plain /\ Tail(s) \in Seq(Plain)
           /\ s = <<Head(s)>> \o Tail(s)
           /\ RecordsOf(s) = KeyRecords[Head(s)] \o RecordsOf(Tail(s))
<1>1. Head(s) \in Plain /\ Tail(s) \in Seq(Plain) /\ s = <<Head(s)>> \o Tail(s)
      OBVIOUS
<1>2. s \in Seq(Keys)
      BY PlainKeys
<1>3. RecordsOf(s) = Sent[Head(s)] \o RecordsOf(Tail(s))
      BY <1>2, SentType, FlatMapHead DEF RecordsOf
<1>. QED  BY <1>1, <1>3, SentType DEF Plain

\* A key moves from those that wait to those that are delivered.
LEMMA MoveKey ==
    ASSUME NEW done \in Seq(Plain), NEW k \in Plain, NEW rest \in Seq(Plain)
    PROVE  done \o (<<k>> \o rest) = (done \o <<k>>) \o rest
<1>1. <<k>> \in Seq(Plain)
      OBVIOUS
<1>. QED  BY <1>1, KeysAssociative

LEMMA TailOfConcat ==
    ASSUME NEW s \in Seq(Record), NEW t \in Seq(Record), s # <<>>
    PROVE  Head(s \o t) = Head(s) /\ Tail(s \o t) = Tail(s) \o t
OBVIOUS

LEMMA SkippedRecords == \A s \in Seq(Skipped) : s \in Seq(Record) /\ (s # <<>> => Tail(s) \in Seq(Skipped))
BY DEF Record

----------------------------------------------------------------------------
\* The invariant of the keys.

LEMMA KeyInit == Init => KeyInv
<1> SUFFICES ASSUME Init PROVE Whole
    BY DEF KeyInv
<1>1. <<>> \in Seq(Plain) /\ <<>> \in Seq(Skipped) /\ <<>> \o <<>> = <<>>
      OBVIOUS
<1>2. RecordsOf(<<>>) = <<>> /\ EventsOf(<<>>) = <<>>
      BY FlatMapEmpty DEF RecordsOf, EventsOf
<1>3. Between(<<>>, <<>>, <<>>)
      BY <1>1, <1>2 DEF Init, Between
<1>. QED  BY <1>1, <1>3 DEF Init, Whole

LEMMA KeysUntouched ==
    ASSUME KeyInv, UNCHANGED <<typed, records, events, aside, console>>, (stage = "extended") <=> (stage' = "extended")
    PROVE  KeyInv'
<1>1. \A done, rest, residue : Between(done, rest, residue) <=> Between(done, rest, residue)'
      BY DEF Between
<1>2. \A done, k, rest, residue : Within(done, k, rest, residue) <=> Within(done, k, rest, residue)'
      BY DEF Within
<1>. QED  BY <1>1, <1>2 DEF KeyInv, Whole, Part

LEMMA PressStep ==
    ASSUME TypeOK, KeyInv, NEW k \in Keys, Press(k)
    PROVE  KeyInv'
<1> SUFFICES ASSUME console = "open", typed' \in Seq(Plain) PROVE (Whole \/ Part)'
    BY DEF KeyInv, Press
<1>1. typed \in Seq(Plain) /\ k \in Plain
  <2>1. typed' = Append(typed, k) /\ typed \in Seq(Keys)
        BY DEF Press, TypeOK
  <2>2. Len(typed') = Len(typed) + 1 /\ typed'[Len(typed) + 1] = k
        /\ \A i \in 1 .. Len(typed) : typed'[i] = typed[i]
        BY <2>1, AppendProperties
  <2>3. \A i \in 1 .. Len(typed) + 1 : typed'[i] \in Plain
        BY <2>2
  <2>4. Len(typed) \in Nat /\ DOMAIN typed = 1 .. Len(typed)
        BY <2>1
  <2>5. \A i \in 1 .. Len(typed) : typed[i] \in Plain
        BY <2>2, <2>3, <2>4
  <2>6. typed = [i \in 1 .. Len(typed) |-> typed[i]]
        BY <2>1
  <2>. QED  BY <2>2, <2>3, <2>4, <2>5, <2>6, IsASeq
<1>2. typed' = typed \o <<k>> /\ records' = records \o KeyRecords[k] /\ UNCHANGED <<stage, aside, events>>
      BY AppendIsConcat DEF Press, TypeOK
<1>3. KeyRecords[k] \in Seq(Record) /\ <<k>> \in Seq(Plain)
      BY <1>1, KeyRecordsType
<1>4. ASSUME NEW rest \in Seq(Plain), NEW residue \in Seq(Skipped), records = residue \o RecordsOf(rest)
      PROVE  records' = residue \o RecordsOf(rest \o <<k>>) /\ rest \o <<k>> \in Seq(Plain)
  <2>1. residue \in Seq(Record) /\ RecordsOf(rest) \in Seq(Record)
        BY SkippedRecords, PlainKeys, KeysTypes
  <2>2. rest \o <<k>> \in Seq(Plain) /\ RecordsOf(rest \o <<k>>) = RecordsOf(rest) \o KeyRecords[k]
        BY <1>1, OneMore
  <2>3. (residue \o RecordsOf(rest)) \o KeyRecords[k] = residue \o (RecordsOf(rest) \o KeyRecords[k])
        BY <1>3, <2>1, RecordsAssociative
  <2>. QED  BY <1>2, <1>4, <2>2, <2>3
<1>5. CASE Whole
  <2>1. PICK done \in Seq(Plain), rest \in Seq(Plain), residue \in Seq(Skipped) : Between(done, rest, residue)
        BY <1>5 DEF Whole
  <2>2. typed' = done \o (rest \o <<k>>)
        BY <1>2, <1>3, <2>1, KeysAssociative, SMTT(30) DEF Between
  <2>3. Between(done, rest \o <<k>>, residue)'
        BY <1>2, <1>4, <2>1, <2>2 DEF Between
  <2>. QED  BY <1>2, <1>4, <1>5, <2>1, <2>3 DEF Whole, Between
<1>6. CASE Part
  <2>1. PICK done \in Seq(Plain), rest \in Seq(Plain), j \in Plain \cap {"ArrowUp", "F1"}, residue \in Seq(Skipped) :
            Within(done, j, rest, residue)
        BY <1>6 DEF Part
  <2>2. <<j>> \in Seq(Plain) /\ <<j>> \o rest \in Seq(Plain)
        BY ConcatProperties
  <2>3. typed' = done \o (<<j>> \o (rest \o <<k>>))
        BY <1>2, <1>3, <2>1, <2>2, KeysAssociative, SMTT(30) DEF Within
  <2>4. Within(done, j, rest \o <<k>>, residue)'
        BY <1>2, <1>4, <2>1, <2>3 DEF Within
  <2>. QED  BY <1>2, <1>4, <1>6, <2>1, <2>4 DEF Part, Within
<1>. QED  BY <1>1, <1>5, <1>6 DEF KeyInv

LEMMA DrainStep ==
    ASSUME TypeOK, KeyInv, Drain
    PROVE  KeyInv'
<1>0. /\ typed' = typed /\ aside' = aside /\ console' = console /\ events' = events
      /\ stage # "extended" /\ stage' # "extended"
      BY DEF Drain, ReturnNothing
<1>1. CASE console # "open" \/ records = <<>> \/ KeyDown(Head(records))
      BY <1>0, <1>1, KeysUntouched DEF Drain
<1>2. CASE console = "open" /\ records # <<>> /\ ~ KeyDown(Head(records))
  <2> SUFFICES ASSUME typed \in Seq(Plain) PROVE Whole'
      BY <1>0 DEF KeyInv
  <2>1. PICK done \in Seq(Plain), rest \in Seq(Plain), residue \in Seq(Skipped) : Between(done, rest, residue)
        BY <1>0, <1>2 DEF KeyInv, Whole, Part
  <2>2. records' = Tail(records) /\ residue \in Seq(Record) /\ RecordsOf(rest) \in Seq(Record)
        BY <1>2, SkippedRecords, PlainKeys, KeysTypes DEF Drain
  <2>3. CASE residue # <<>>
    <3>1. records' = Tail(residue) \o RecordsOf(rest) /\ Tail(residue) \in Seq(Skipped)
          BY <2>1, <2>2, <2>3, TailOfConcat, SkippedRecords DEF Between
    <3>2. Between(done, rest, Tail(residue))'
          BY <1>0, <2>1, <3>1 DEF Between
    <3>. QED  BY <1>0, <3>1, <3>2 DEF Whole
  <2>4. CASE residue = <<>>
    <3> DEFINE k == Head(rest)
               more == Tail(rest)
    <3>1. records = RecordsOf(rest)
          BY <2>1, <2>2, <2>4, ConcatEmptySeq DEF Between
    <3>2. rest # <<>>
          BY <1>2, <3>1, FlatMapEmpty DEF RecordsOf
    <3>3. /\ k \in Plain /\ more \in Seq(Plain) /\ rest = <<k>> \o more
          /\ RecordsOf(rest) = KeyRecords[k] \o RecordsOf(more)
          BY <3>2, FirstKey
    <3> HIDE DEF k, more
    <3>4. k \in Keys /\ k \in AllKeys /\ KeyRecords[k] \in Seq(Record) /\ KeyRecords[k] # <<>>
          /\ RecordsOf(more) \in Seq(Record)
          BY <3>3, KeysAssumption, KeyTable, KeyRecordsType, PlainKeys, KeysTypes DEF Plain
    <3>5. Head(records) = Head(KeyRecords[k]) /\ records' = Tail(KeyRecords[k]) \o RecordsOf(more)
          BY <2>2, <3>1, <3>3, <3>4, TailOfConcat
    <3>6. k = "Switch"
      <4>1. ASSUME k # "Switch" PROVE KeyDown(Lead(k))
        <5>1. CASE k \in {"H", "Enter", "CtrlA", "CtrlC"}
              BY <5>1 DEF Lead, KeyDown, Char
        <5>2. CASE k \in {"ArrowUp", "F1", "Agrave", "Shift"}
              BY <5>2 DEF Lead, KeyDown, Char, Extended, Modifier
        <5>. QED  BY <3>4, <4>1, <5>1, <5>2 DEF AllKeys
      <4>2. ASSUME k # "Switch" PROVE Head(KeyRecords[k]) = Lead(k)
            BY <3>4, <4>2, KeyTable
      <4>. QED  BY <1>2, <3>5, <4>1, <4>2
    <3>7. records' = <<>> \o RecordsOf(more)
      <4>1. Tail(<<Focus>>) = <<>>
            OBVIOUS
      <4>. QED  BY <3>5, <3>6, <4>1, KeyTable
    <3>8. done \o <<k>> \in Seq(Plain) /\ EventsOf(done \o <<k>>) = EventsOf(done)
      <4>1. Answer[k] = <<>>
            BY <3>4, <3>6, AnswerTable
      <4>2. EventsOf(done) \in Seq(Event)
            BY PlainKeys, KeysTypes
      <4>3. EventsOf(done) \o <<>> = EventsOf(done)
            BY <4>2, ConcatEmptySeq
      <4>. QED  BY <3>3, <4>1, <4>3, OneMore
    <3>9. typed = (done \o <<k>>) \o more
          BY <2>1, <3>3, MoveKey DEF Between
    <3>10. Between(done \o <<k>>, more, <<>>)'
          BY <1>0, <2>1, <3>7, <3>8, <3>9 DEF Between
    <3>11. <<>> \in Seq(Skipped)
          OBVIOUS
    <3>. QED  BY <1>0, <3>3, <3>8, <3>10, <3>11 DEF Whole
  <2>. QED  BY <2>3, <2>4
<1>. QED  BY <1>1, <1>2

\* What decode() does with the byte that a key begins with.
LEMMA DecodeLead ==
    ASSUME NEW k \in {"H", "Enter", "CtrlA", "CtrlC", "ArrowUp", "F1"}, NEW c,
           c = IF Lead(k).kind = "extended" THEN 224 ELSE Lead(k).code, Decode(c)
    PROVE  /\ k \in {"ArrowUp", "F1"} => stage' = "extended" /\ events' = events
           /\ k \notin {"ArrowUp", "F1"} =>
                  stage' = "idle" /\ ((events' = events /\ KeyEvent(k) = <<>>)
                                      \/ \E e \in Event : events' = Append(events, e) /\ KeyEvent(k) = <<e>>)
<1>1. CASE k \in {"ArrowUp", "F1"}
  <2>1. c = 224
        BY <1>1 DEF Lead, Extended
  <2>2. Direct(224) = "None" /\ 224 \notin 32 .. 126
        BY DEF Direct, EOF
  <2>3. stage' = "extended" /\ events' = events
        BY <2>1, <2>2 DEF Decode
  <2>. QED  BY <1>1, <2>3
<1>2. CASE k \in {"H", "Enter", "CtrlA", "CtrlC"}
  <2>1. /\ k = "H" => c = 72
        /\ k = "Enter" => c = 13
        /\ k = "CtrlA" => c = 1
        /\ k = "CtrlC" => c = 3
        BY <1>2 DEF Lead, Char
  <2>2. Typed(72) \in Event /\ Special("Enter") \in Event /\ Special("Eof") \in Event
        BY DEF Typed, Special, Event
  <2>3. CASE k = "H"
        BY <2>1, <2>2, <2>3, SMTT(30) DEF Decode, Direct, EOF, Deliver, ReturnNothing, KeyEvent
  <2>4. CASE k = "Enter"
        BY <2>1, <2>2, <2>4 DEF Decode, Direct, EOF, Deliver, ReturnNothing, KeyEvent
  <2>5. CASE k = "CtrlA"
    <3>1. Direct(1) = "None" /\ 1 \notin 32 .. 126 /\ 1 \notin {0, 224}
          BY DEF Direct, EOF
    <3>2. stage' = "idle" /\ events' = events
          BY <2>1, <2>5, <3>1 DEF Decode, ReturnNothing
    <3>. QED  BY <2>5, <3>2 DEF KeyEvent
  <2>6. CASE k = "CtrlC"
        BY <2>1, <2>2, <2>6 DEF Decode, Direct, EOF, Deliver, ReturnNothing, KeyEvent
  <2>. QED  BY <1>2, <2>3, <2>4, <2>5, <2>6
<1>. QED  BY <1>1, <1>2

\* A key that has been decoded is delivered.
LEMMA Delivered ==
    ASSUME TypeOK, NEW done \in Seq(Plain), NEW k \in Plain, events = EventsOf(done),
           \/ events' = events /\ KeyEvent(k) = <<>>
           \/ \E e \in Event : events' = Append(events, e) /\ KeyEvent(k) = <<e>>
    PROVE  events' = EventsOf(done \o <<k>>) /\ done \o <<k>> \in Seq(Plain)
<1>1. EventsOf(done \o <<k>>) = events \o KeyEvent(k) /\ done \o <<k>> \in Seq(Plain)
      BY OneMore, AnswerTable DEF Plain
<1>2. events \o <<>> = events
      BY ConcatEmptySeq DEF TypeOK
<1>3. \A e \in Event : Append(events, e) = events \o <<e>>
      BY AppendIsConcat DEF TypeOK
<1>. QED  BY <1>1, <1>2, <1>3

\* The key that _getch() reads next, once what it skips is counted as delivered.
LEMMA ReadKey ==
    ASSUME TypeOK, Whole, CanRead
    PROVE  \E done, more \in Seq(Plain), k \in Plain, pre \in Seq(Skipped) :
               /\ typed = done \o (<<k>> \o more)
               /\ records = pre \o (<<Lead(k)>> \o (<<Up>> \o RecordsOf(more)))
               /\ events = EventsOf(done)
               /\ k \in {"H", "Enter", "CtrlA", "CtrlC", "ArrowUp", "F1"}
<1>1. PICK done \in Seq(Plain), rest \in Seq(Plain), residue \in Seq(Skipped) : Between(done, rest, residue)
      BY DEF Whole
<1>2. PICK quiet \in Seq(Plain), later \in Seq(Plain) :
          /\ rest = quiet \o later
          /\ RecordsOf(quiet) \in Seq(Skipped) /\ EventsOf(quiet) = <<>>
          /\ later # <<>> => Head(later) \notin Quiet
      BY NextKey
<1> DEFINE pre == residue \o RecordsOf(quiet)
           behind == done \o quiet
<1>3. quiet \in Seq(Keys) /\ later \in Seq(Keys) /\ done \in Seq(Keys)
      BY PlainKeys
<1>4. pre \in Seq(Skipped)
      BY <1>2, ConcatProperties
<1>5. records = pre \o RecordsOf(later)
  <2>1. RecordsOf(rest) = RecordsOf(quiet) \o RecordsOf(later)
        BY <1>2, <1>3, RecordsConcat
  <2>2. residue \in Seq(Record) /\ RecordsOf(quiet) \in Seq(Record) /\ RecordsOf(later) \in Seq(Record)
        BY <1>3, SkippedRecords, KeysTypes
  <2>3. (residue \o RecordsOf(quiet)) \o RecordsOf(later) = residue \o (RecordsOf(quiet) \o RecordsOf(later))
        BY <2>2, RecordsAssociative
  <2>. QED  BY <1>1, <2>1, <2>3 DEF Between
<1>6. behind \in Seq(Plain) /\ typed = behind \o later
      BY <1>1, <1>2, ConcatProperties, KeysAssociative, SMTT(30) DEF Between
<1>7. events = EventsOf(behind)
  <2>1. EventsOf(behind) = EventsOf(done) \o <<>>
        BY <1>2, <1>3, EventsConcat
  <2>2. EventsOf(done) \o <<>> = EventsOf(done)
        BY <1>3, KeysTypes, ConcatEmptySeq
  <2>. QED  BY <1>1, <2>1, <2>2 DEF Between
<1> HIDE DEF pre, behind
<1>8. later # <<>>
  <2> SUFFICES ASSUME later = <<>> PROVE FALSE
      OBVIOUS
  <2>1. RecordsOf(later) = <<>> /\ pre \o <<>> = pre
        BY <1>4, FlatMapEmpty, ConcatEmptySeq DEF RecordsOf
  <2>2. records \in Seq(Skipped)
        BY <1>4, <1>5, <2>1
  <2>3. PICK i \in DOMAIN records : Returnable(records[i])
        BY <1>1 DEF CanRead, Between
  <2>4. records[i] \in Skipped
        BY <2>2, <2>3
  <2>. QED  BY <2>3, <2>4, RecordKinds
<1> DEFINE k == Head(later)
           more == Tail(later)
<1>9. /\ k \in Plain /\ more \in Seq(Plain) /\ later = <<k>> \o more
      /\ RecordsOf(later) = KeyRecords[k] \o RecordsOf(more) /\ k \notin Quiet
      BY <1>2, <1>8, FirstKey
<1> HIDE DEF k, more
<1>10. k \in AllKeys \ {"Switch"} /\ k \in {"H", "Enter", "CtrlA", "CtrlC", "ArrowUp", "F1"}
      BY <1>9, KeysAssumption, KeyTable DEF Plain, Quiet, AllKeys
<1>11. RecordsOf(later) = <<Lead(k)>> \o (<<Up>> \o RecordsOf(more))
  <2>1. Lead(k) \in Record /\ Up \in Record /\ RecordsOf(more) \in Seq(Record)
        BY <1>9, <1>10, LeadType, PlainKeys, KeysTypes DEF Record, Skipped
  <2>2. <<Lead(k)>> \in Seq(Record) /\ <<Up>> \in Seq(Record) /\ <<Lead(k), Up>> = <<Lead(k)>> \o <<Up>>
        BY <2>1
  <2>3. KeyRecords[k] = <<Lead(k), Up>>
        BY <1>10, KeyTable
  <2>4. (<<Lead(k)>> \o <<Up>>) \o RecordsOf(more) = <<Lead(k)>> \o (<<Up>> \o RecordsOf(more))
        BY <2>1, <2>2, RecordsAssociative
  <2>5. RecordsOf(later) = (<<Lead(k)>> \o <<Up>>) \o RecordsOf(more)
        BY <1>9, <2>2, <2>3
  <2>. QED  BY <2>4, <2>5
<1>. QED  BY <1>4, <1>5, <1>6, <1>7, <1>9, <1>10, <1>11

LEMMA ReadStep ==
    ASSUME TypeOK, KeyInv, Read
    PROVE  KeyInv'
<1> SUFFICES ASSUME console = "open", typed \in Seq(Plain) PROVE (Whole \/ Part)'
    BY DEF KeyInv, Read
<1>1. Whole /\ CanRead /\ ~ Broken /\ aside = <<>> /\ typed' = typed
      BY DEF KeyInv, Whole, Part, Between, Read, Broken
<1>2. PICK c \in Bytes : GetCh(c) /\ Decode(c)
      BY <1>1 DEF Read
<1>3. PICK done \in Seq(Plain), more \in Seq(Plain), k \in Plain, pre \in Seq(Skipped) :
          /\ typed = done \o (<<k>> \o more)
          /\ records = pre \o (<<Lead(k)>> \o (<<Up>> \o RecordsOf(more)))
          /\ events = EventsOf(done)
          /\ k \in {"H", "Enter", "CtrlA", "CtrlC", "ArrowUp", "F1"}
      BY <1>1, ReadKey
<1> DEFINE post == <<Up>> \o RecordsOf(more)
<1>4. Lead(k) \in Record /\ Lead(k) \notin Skipped
  <2>1. k \in AllKeys \ {"Switch"}
        BY <1>3 DEF AllKeys
  <2>2. Returnable(Lead(k))
    <3>1. CASE k \in {"H", "Enter", "CtrlA", "CtrlC"}
          BY <3>1 DEF Lead, Returnable, Char
    <3>2. CASE k \in {"ArrowUp", "F1"}
          BY <3>2 DEF Lead, Returnable, Extended
    <3>. QED  BY <1>3, <3>1, <3>2
  <2>. QED  BY <2>1, <2>2, LeadType, RecordKinds
<1>5. post \in Seq(Record) /\ <<Up>> \in Seq(Skipped)
  <2>1. <<Up>> \in Seq(Record) /\ <<Up>> \in Seq(Skipped) /\ RecordsOf(more) \in Seq(Record)
        BY PlainKeys, KeysTypes DEF Record, Skipped
  <2>. QED  BY <2>1, ConcatProperties
<1>6. records = pre \o (<<Lead(k)>> \o post)
      BY <1>3
<1> HIDE DEF post
<1>7. /\ c = IF Lead(k).kind = "extended" THEN 224 ELSE Lead(k).code
      /\ aside' = IF Lead(k).kind = "extended" THEN <<Lead(k).code>> ELSE <<>>
      /\ records' = post
      BY <1>1, <1>2, <1>4, <1>5, <1>6, TakeLead
<1>8. CASE k \in {"ArrowUp", "F1"}
  <2>1. stage' = "extended" /\ events' = events
        BY <1>2, <1>3, <1>7, <1>8, DecodeLead
  <2>2. aside' = <<Lead(k).code>>
        BY <1>7, <1>8 DEF Lead, Extended
  <2>3. Within(done, k, more, <<Up>>)'
        BY <1>1, <1>3, <1>7, <2>1, <2>2 DEF Within, post
  <2>. QED  BY <1>5, <1>8, <2>1, <2>3 DEF Part
<1>9. CASE k \notin {"ArrowUp", "F1"}
  <2>1. stage' = "idle" /\ events' = EventsOf(done \o <<k>>) /\ done \o <<k>> \in Seq(Plain)
    <3>1. /\ stage' = "idle"
          /\ \/ events' = events /\ KeyEvent(k) = <<>>
             \/ \E e \in Event : events' = Append(events, e) /\ KeyEvent(k) = <<e>>
          BY <1>2, <1>3, <1>7, <1>9, DecodeLead
    <3>. QED  BY <1>3, <3>1, Delivered
  <2>2. aside' = <<>>
        BY <1>3, <1>7, <1>9 DEF Lead, Char
  <2>3. typed' = (done \o <<k>>) \o more
        BY <1>1, <1>3, MoveKey
  <2>4. Between(done \o <<k>>, more, <<Up>>)'
        BY <1>7, <2>1, <2>2, <2>3 DEF Between, post
  <2>. QED  BY <1>5, <2>1, <2>4 DEF Whole
<1>. QED  BY <1>8, <1>9

LEMMA DecodeExtendedStep ==
    ASSUME TypeOK, KeyInv, DecodeExtended
    PROVE  KeyInv'
<1> SUFFICES ASSUME console = "open", typed \in Seq(Plain) PROVE Whole'
    BY DEF KeyInv, DecodeExtended
<1>1. PICK done \in Seq(Plain), rest \in Seq(Plain), k \in Plain \cap {"ArrowUp", "F1"}, residue \in Seq(Skipped) :
          Within(done, k, rest, residue)
      BY DEF KeyInv, Whole, Part, DecodeExtended
<1>2. /\ k = "ArrowUp" => aside = <<72>>
      /\ k = "F1" => aside = <<59>>
      BY <1>1 DEF Within, Lead, Extended
<1>3. aside # <<>> /\ CanRead /\ ~ Broken /\ typed' = typed
  <2>1. <<72>> # <<>> /\ <<59>> # <<>>
        OBVIOUS
  <2>2. aside # <<>>
        BY <1>2, <2>1
  <2>. QED  BY <2>2 DEF CanRead, Broken, DecodeExtended
<1>4. PICK code \in Bytes : GetCh(code) /\ IF Arrow(code) = "None" THEN ReturnNothing ELSE Deliver(Special(Arrow(code)))
      BY <1>3 DEF DecodeExtended
<1>5. aside' = <<>> /\ records' = records /\ code = Head(aside)
      BY <1>3, <1>4 DEF GetCh
<1>6. /\ stage' = "idle"
      /\ \/ events' = events /\ KeyEvent(k) = <<>>
         \/ \E e \in Event : events' = Append(events, e) /\ KeyEvent(k) = <<e>>
  <2>1. CASE k = "ArrowUp"
    <3>1. code = 72 /\ Arrow(72) = "ArrowUp"
          BY <1>2, <1>5, <2>1 DEF Arrow
    <3>2. stage' = "idle" /\ events' = Append(events, Special("ArrowUp"))
          BY <1>4, <3>1 DEF Deliver
    <3>3. Special("ArrowUp") \in Event
          BY DEF Special, Event
    <3>. QED  BY <2>1, <3>2, <3>3 DEF KeyEvent
  <2>2. CASE k = "F1"
    <3>1. code = 59 /\ Arrow(59) = "None"
          BY <1>2, <1>5, <2>2 DEF Arrow
    <3>2. stage' = "idle" /\ events' = events
          BY <1>4, <3>1 DEF ReturnNothing
    <3>. QED  BY <2>2, <3>2 DEF KeyEvent
  <2>. QED  BY <2>1, <2>2
<1>7. events' = EventsOf(done \o <<k>>) /\ done \o <<k>> \in Seq(Plain)
      BY <1>1, <1>6, Delivered DEF Within
<1>8. typed' = (done \o <<k>>) \o rest
      BY <1>1, <1>3, MoveKey DEF Within
<1>9. Between(done \o <<k>>, rest, residue)'
      BY <1>1, <1>5, <1>7, <1>8 DEF Within, Between
<1>. QED  BY <1>6, <1>7, <1>9 DEF Whole

LEMMA KeyStep == TypeOK /\ KeyInv /\ [Next]_vars => KeyInv'
<1> SUFFICES ASSUME TypeOK, KeyInv, [Next]_vars PROVE KeyInv'
    OBVIOUS
<1>1. CASE Call \/ Signaled \/ TimeOut \/ WaitFails \/ NothingToRead \/ Elapse \/ UNCHANGED vars
      BY <1>1, KeysUntouched DEF Call, Signaled, TimeOut, WaitFails, NothingToRead, Elapse, ReturnNothing, vars
<1>2. CASE \E k \in Keys : Press(k)
      BY <1>2, PressStep
<1>3. CASE Fail
      BY <1>3 DEF Fail, KeyInv
<1>. QED  BY <1>1, <1>2, <1>3, DrainStep, ReadStep, DecodeExtendedStep DEF Next, Reader

----------------------------------------------------------------------------
\* What the invariant says of the events.

\* A sequence of keys without "Agrave" is one of plain keys, and its expected events are EventsOf.
LEMMA ExpectedEvents ==
    ASSUME typed \in Seq(Keys)
    PROVE  /\ "Agrave" \notin Range(typed) => typed \in Seq(Plain)
           /\ FlattenSeq([i \in DOMAIN typed |-> KeyEvent(typed[i])]) = EventsOf(typed)
<1>1. DOMAIN typed = 1 .. Len(typed) /\ Len(typed) \in Nat /\ \A i \in DOMAIN typed : typed[i] \in Keys
      OBVIOUS
<1>2. ASSUME "Agrave" \notin Range(typed) PROVE typed \in Seq(Plain)
  <2>1. \A i \in 1 .. Len(typed) : typed[i] \in Plain
        BY <1>1, <1>2 DEF Range, Plain
  <2>. QED  BY <1>1, <2>1
<1>3. [i \in DOMAIN typed |-> KeyEvent(typed[i])] = Mapped(Answer, typed)
      BY <1>1 DEF Mapped, Answer
<1>. QED  BY <1>2, <1>3 DEF EventsOf, FlatMap

\* A key that has not been delivered has a record in the queue.
LEMMA NothingWaits ==
    ASSUME NEW rest \in Seq(Plain), NEW residue \in Seq(Skipped), residue \o RecordsOf(rest) = <<>>
    PROVE  rest = <<>>
<1>1. residue \in Seq(Record) /\ RecordsOf(rest) \in Seq(Record)
      BY SkippedRecords, PlainKeys, KeysTypes
<1>2. RecordsOf(rest) = <<>>
      BY <1>1, ConcatEqualIffEmpty
<1>3. ASSUME rest # <<>> PROVE FALSE
  <2>1. /\ Head(rest) \in Plain /\ Tail(rest) \in Seq(Plain)
        /\ RecordsOf(rest) = KeyRecords[Head(rest)] \o RecordsOf(Tail(rest))
        BY <1>3, FirstKey
  <2>2. KeyRecords[Head(rest)] \in Seq(Record) /\ KeyRecords[Head(rest)] # <<>>
        /\ RecordsOf(Tail(rest)) \in Seq(Record)
        BY <2>1, KeyRecordsType, PlainKeys, KeysTypes DEF Plain
  <2>3. KeyRecords[Head(rest)] \o RecordsOf(Tail(rest)) # <<>>
        BY <2>2, ConcatEqualIffEmpty
  <2>. QED  BY <1>2, <2>1, <2>3
<1>. QED  BY <1>3

LEMMA KeysDelivered == TypeOK /\ KeyInv => KeystrokesAreDelivered
<1> SUFFICES ASSUME TypeOK, KeyInv, console = "open", "Agrave" \notin Range(typed)
             PROVE  /\ IsPrefix(events, EventsOf(typed))
                    /\ records = <<>> /\ aside = <<>> /\ stage = "idle" => events = EventsOf(typed)
    BY ExpectedEvents DEF KeystrokesAreDelivered, TypeOK
<1>1. typed \in Seq(Plain)
      BY ExpectedEvents DEF TypeOK
<1>2. CASE Whole
  <2>1. PICK done \in Seq(Plain), rest \in Seq(Plain), residue \in Seq(Skipped) : Between(done, rest, residue)
        BY <1>2 DEF Whole
  <2>2. done \in Seq(Keys) /\ rest \in Seq(Keys)
        BY PlainKeys
  <2>3. EventsOf(typed) = events \o EventsOf(rest) /\ EventsOf(rest) \in Seq(Event)
        BY <2>1, <2>2, EventsConcat, KeysTypes DEF Between
  <2>4. IsPrefix(events, EventsOf(typed))
        BY <2>3, PrefixOfConcat DEF TypeOK
  <2>5. ASSUME records = <<>> PROVE events = EventsOf(typed)
    <3>1. rest = <<>>
          BY <2>1, <2>5, NothingWaits DEF Between
    <3>2. EventsOf(rest) = <<>>
          BY <3>1, FlatMapEmpty DEF EventsOf
    <3>. QED  BY <2>3, <3>2, ConcatEmptySeq DEF TypeOK
  <2>. QED  BY <2>4, <2>5
<1>3. CASE Part
  <2>1. PICK done \in Seq(Plain), rest \in Seq(Plain), k \in Plain \cap {"ArrowUp", "F1"}, residue \in Seq(Skipped) :
            Within(done, k, rest, residue)
        BY <1>3 DEF Part
  <2>2. <<k>> \o rest \in Seq(Plain)
    <3>1. <<k>> \in Seq(Plain)
          OBVIOUS
    <3>. QED  BY <3>1, ConcatProperties
  <2>3. done \in Seq(Keys) /\ <<k>> \o rest \in Seq(Keys)
        BY <2>2, PlainKeys
  <2>4. EventsOf(typed) = events \o EventsOf(<<k>> \o rest) /\ EventsOf(<<k>> \o rest) \in Seq(Event)
        BY <2>1, <2>3, EventsConcat, KeysTypes DEF Within
  <2>5. IsPrefix(events, EventsOf(typed))
        BY <2>4, PrefixOfConcat DEF TypeOK
  <2>. QED  BY <1>3, <2>5 DEF Part
<1>. QED  BY <1>1, <1>2, <1>3 DEF KeyInv

\* Whatever the keys are and whenever they come, unless one of them types the character
\* 0xE0, and as long as the console can be read: each gives its event, once and in order, also the extended ones that _getch() gives
\* in two calls, and the ones behind records that it skips or that are drained
\* (terminal_win32.cpp readEvent, decode, decodeExtended, drainFilteredRecords).
THEOREM KeystrokesBecomeEvents == Spec => []KeystrokesAreDelivered
<1>1. Init => KeyInv
      BY KeyInit
<1>2. TypeOK /\ KeyInv /\ [Next]_vars => KeyInv'
      BY KeyStep
<1>3. TypeOK /\ KeyInv => KeystrokesAreDelivered
      BY KeysDelivered
<1>. QED  BY <1>1, <1>2, <1>3, Win32TypeCorrect, PTL DEF Spec

=============================================================================
