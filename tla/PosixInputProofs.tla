-------------------------- MODULE PosixInputProofs --------------------------
(***************************************************************************)
(* Keyboard input on Linux and macOS, for every timeout, every set of the  *)
(* keys, any number of key presses and signals, and whatever happens to    *)
(* the device.                                                             *)
(***************************************************************************)
EXTENDS PosixInput, SequenceLemmas

----------------------------------------------------------------------------
\* Types.

Byte == {"x", "CR", "DEL", "HT", "SOH", "ETX", "EOT", "ESC", "[", "A", "O", "D", "3", "~"}

\* The events that the bytes of the keys can give.
Event == [type : {"Char", "Eof", "Escape", "Enter", "Backspace", "Tab", "ArrowUp", "ArrowLeft", "ArrowDown", "ArrowRight"},
          ch : Byte \cup {"0"}]

TypeOK ==
    /\ together \in BOOLEAN
    /\ stage \in {"idle", "first", "second", "final"}
    /\ left \in Nat /\ elapsed \in Nat
    /\ pending \in Seq(Byte) /\ wire \in Seq(Byte)
    /\ typed \in Seq(Keys) /\ events \in Seq(Event)
    /\ signals \in Nat

AllKeys == {"x", "Enter", "Backspace", "Tab", "CtrlA", "CtrlC", "CtrlD", "Escape", "ArrowUp", "ArrowLeft", "Delete"}

\* The table of the keys, row by row.
LEMMA KeyTable ==
    /\ DOMAIN KeyBytes = AllKeys
    /\ KeyBytes["x"] = <<"x">> /\ KeyBytes["Enter"] = <<"CR">> /\ KeyBytes["Backspace"] = <<"DEL">>
    /\ KeyBytes["Tab"] = <<"HT">> /\ KeyBytes["CtrlA"] = <<"SOH">> /\ KeyBytes["CtrlC"] = <<"ETX">>
    /\ KeyBytes["CtrlD"] = <<"EOT">> /\ KeyBytes["Escape"] = <<"ESC">>
    /\ KeyBytes["ArrowUp"] = <<"ESC", "[", "A">> /\ KeyBytes["ArrowLeft"] = <<"ESC", "O", "D">>
    /\ KeyBytes["Delete"] = <<"ESC", "[", "3", "~">>
BY DEF KeyBytes, AllKeys

LEMMA TailTable ==
    /\ \A a : Tail(<<a>>) = <<>> /\ Head(<<a>>) = a
    /\ Tail(KeyBytes["ArrowUp"]) = <<"[", "A">> /\ Tail(KeyBytes["ArrowLeft"]) = <<"O", "D">>
    /\ Tail(KeyBytes["Delete"]) = <<"[", "3", "~">>
<1>1. \A a : Tail(<<a>>) = <<>> /\ Head(<<a>>) = a
      OBVIOUS
<1>2. Tail(<<"ESC", "[", "A">>) = <<"[", "A">>
      OBVIOUS
<1>3. Tail(<<"ESC", "O", "D">>) = <<"O", "D">>
      OBVIOUS
<1>4. Tail(<<"ESC", "[", "3", "~">>) = <<"[", "3", "~">>
      OBVIOUS
<1>. QED  BY <1>1, <1>2, <1>3, <1>4, KeyTable

LEMMA KeyBytesType == \A k \in Keys : KeyBytes[k] \in Seq(Byte)
<1>1. \A a \in Byte : <<a>> \in Seq(Byte)
      OBVIOUS
<1>2. \A a, b, c \in Byte : <<a, b, c>> \in Seq(Byte)
      OBVIOUS
<1>3. \A a, b, c, d \in Byte : <<a, b, c, d>> \in Seq(Byte)
      OBVIOUS
<1>4. SUFFICES ASSUME NEW k \in AllKeys PROVE KeyBytes[k] \in Seq(Byte)
      BY KeysAssumption, KeyTable
<1>5. CASE k \in {"x", "Enter", "Backspace", "Tab", "CtrlA", "CtrlC", "CtrlD", "Escape"}
      BY <1>1, <1>5, KeyTable DEF Byte
<1>6. CASE k \in {"ArrowUp", "ArrowLeft"}
  <2>1. {"ESC", "[", "O", "A", "D"} \subseteq Byte
        BY DEF Byte
  <2>. QED  BY <1>2, <1>6, <2>1, KeyTable
<1>7. CASE k = "Delete"
  <2>1. {"ESC", "[", "3", "~"} \subseteq Byte
        BY DEF Byte
  <2>2. KeyBytes[k] = <<"ESC", "[", "3", "~">>
        BY <1>7, KeyTable
  <2>3. <<"ESC", "[", "3", "~">> \in Seq(Byte)
        BY <1>3, <2>1
  <2>. QED  BY <2>2, <2>3
<1>. QED  BY <1>5, <1>6, <1>7 DEF AllKeys

LEMMA EventTypes ==
    /\ Special("Eof") \in Event /\ Special("Escape") \in Event
    /\ \A b \in DOMAIN Direct : Special(Direct[b]) \in Event
    /\ \A b \in DOMAIN Arrows : Special(Arrows[b]) \in Event
    /\ \A b \in Byte : Typed(b) \in Event
BY DEF Special, Typed, Event, Direct, Arrows, Byte

LEMMA ReadTypes ==
    ASSUME TypeOK, pending # <<>>
    PROVE  Head(pending) \in Byte /\ Tail(pending) \in Seq(Byte) /\ Tail(pending) # pending
BY HeadTailProperties DEF TypeOK

LEMMA GrowingType ==
    ASSUME NEW s \in Seq(Event), NEW e \in Event
    PROVE  Append(s, e) \in Seq(Event)
BY AppendProperties

LEMMA DeliverType ==
    ASSUME TypeOK, NEW e \in Event, Deliver(e)
    PROVE  /\ stage' = "idle" /\ left' = 0 /\ events' \in Seq(Event)
           /\ events' = Append(events, e) /\ Len(events') = Len(events) + 1 /\ events' # events
BY AppendProperties DEF TypeOK, Deliver

LEMMA NoByteType ==
    ASSUME TypeOK, NoByte
    PROVE  /\ stage' = "idle" /\ left' = 0 /\ events' \in Seq(Event)
           /\ stage = "first" => events' = events
           /\ stage # "first" => events' = Append(events, Special("Escape")) /\ events' # events
<1>1. CASE stage = "first"
      BY <1>1 DEF NoByte, ReturnNothing, TypeOK
<1>2. CASE stage # "first"
      BY <1>2, EventTypes, DeliverType DEF NoByte, GiveUp
<1>. QED  BY <1>1, <1>2

LEMMA EndOfInputType ==
    ASSUME TypeOK, EndOfInput
    PROVE  /\ stage' = "idle" /\ left' = 0 /\ events' \in Seq(Event) /\ events' # events
           /\ stage = "first" => events' = Append(events, Special("Eof"))
           /\ stage # "first" => events' = Append(events, Special("Escape"))
BY EventTypes, DeliverType DEF EndOfInput, GiveUp

\* Each way a byte can be taken.
LEMMA ReadByteCases ==
    ASSUME TypeOK, ReadByte
    PROVE  LET b == Head(pending)
           IN  /\ pending # <<>> /\ b \in Byte /\ pending' = Tail(pending)
               /\ \/ /\ stage = "first" /\ b = "ESC"
                     /\ stage' = "second" /\ left' = EscapeFollowUpMs /\ events' = events
                  \/ /\ stage = "second" /\ b \in {"[", "O"}
                     /\ stage' = "final" /\ left' = EscapeFollowUpMs /\ events' = events
                  \/ /\ stage = "first" /\ b \notin DOMAIN Direct \cup {"ESC"} \cup Printable
                     /\ stage' = "idle" /\ left' = 0 /\ events' = events
                  \/ \E e \in Event :
                       /\ stage' = "idle" /\ left' = 0 /\ events' = Append(events, e)
                       /\ \/ stage = "first" /\ b \in DOMAIN Direct /\ e = Special(Direct[b])
                          \/ stage = "first" /\ b \in Printable /\ e = Typed(b)
                          \/ stage = "second" /\ b \notin {"[", "O"} /\ e = Special("Escape")
                          \/ stage = "final" /\ b \in DOMAIN Arrows /\ e = Special(Arrows[b])
                          \/ stage = "final" /\ b \notin DOMAIN Arrows /\ e = Special("Escape")
<1> DEFINE b == Head(pending)
<1>1. pending # <<>> /\ pending' = Tail(pending) /\ b \in Byte
      BY ReadTypes DEF ReadByte
<1> HIDE DEF b
<1>2. CASE stage = "first" /\ FirstByte(b)
      BY <1>1, <1>2, EventTypes DEF FirstByte, Deliver, Await, ReturnNothing, b
<1>3. CASE stage = "second" /\ SecondByte(b)
      BY <1>1, <1>3, EventTypes DEF SecondByte, Deliver, Await, GiveUp, b
<1>4. CASE stage = "final" /\ FinalByte(b)
      BY <1>1, <1>4, EventTypes DEF FinalByte, Deliver, GiveUp, b
<1>. QED  BY <1>2, <1>3, <1>4 DEF ReadByte, b

----------------------------------------------------------------------------
\* Type correctness, and the time a call may have taken when it waits for its first,
\* its second and its third byte.

LimitOf(s) ==
    CASE s = "first" -> TimeoutMs [] s = "second" -> TimeoutMs + EscapeFollowUpMs
      [] OTHER -> TimeoutMs + 2 * EscapeFollowUpMs

TimeInv ==
    /\ elapsed + left <= LimitOf(stage)
    /\ stage = "first" => elapsed + left = TimeoutMs

InputInv == TypeOK /\ TimeInv

LEMMA TypeInit == Init => InputInv
<1>1. <<>> \in Seq(Byte) /\ <<>> \in Seq(Keys) /\ <<>> \in Seq(Event)
      BY EmptySeq
<1>. QED  BY <1>1, WaitsAssumption DEF Init, InputInv, TypeOK, TimeInv, LimitOf

LEMMA TypeStep == InputInv /\ [Next]_vars => InputInv'
<1> SUFFICES ASSUME InputInv, [Next]_vars PROVE InputInv'
    OBVIOUS
<1> USE DEF InputInv
<1>0. TimeoutMs \in Nat /\ EscapeFollowUpMs \in Nat
      BY WaitsAssumption
\* A call that returns needs no time for it.
<1>1. ASSUME stage' = "idle", left' = 0, elapsed' = elapsed PROVE TimeInv'
      BY <1>0, <1>1 DEF TimeInv, LimitOf, TypeOK
<1>2. CASE Call
      BY <1>0, <1>2 DEF Call, Await, TypeOK, TimeInv, LimitOf
<1>3. CASE ReadByte
  <2>1. UNCHANGED <<elapsed, wire, device, typed, signals, together>>
        BY <1>3 DEF ReadByte
  <2>2. pending' \in Seq(Byte)
        BY <1>3, ReadByteCases, ReadTypes
  <2>3. CASE stage' = "idle" /\ left' = 0
    <3>1. events' \in Seq(Event)
          BY <1>3, <2>3, ReadByteCases, GrowingType DEF TypeOK
    <3>. QED  BY <1>1, <2>1, <2>2, <2>3, <3>1 DEF TypeOK
  <2>4. CASE stage = "first" /\ stage' = "second" /\ left' = EscapeFollowUpMs /\ events' = events
        BY <1>0, <2>1, <2>2, <2>4 DEF TypeOK, TimeInv, LimitOf
  <2>5. CASE stage = "second" /\ stage' = "final" /\ left' = EscapeFollowUpMs /\ events' = events
        BY <1>0, <2>1, <2>2, <2>5, SMTT(30) DEF TypeOK, TimeInv, LimitOf
  <2>. QED  BY <1>3, <2>3, <2>4, <2>5, ReadByteCases
<1>4. CASE TimeOut \/ ReadError
      BY <1>1, <1>4, NoByteType DEF TimeOut, ReadError, TypeOK
<1>5. CASE ReadEof
      BY <1>1, <1>5, EndOfInputType DEF ReadEof, TypeOK
<1>6. CASE Interrupt
      BY <1>1, <1>6, NoByteType DEF Interrupt, TypeOK
<1>7. CASE Elapse
  <2>1. left # 0 /\ left' = left - 1 /\ elapsed' = elapsed + 1 /\ stage' = stage
        BY <1>0, <1>7, SMTT(30) DEF Elapse, TypeOK, TimeInv, LimitOf, MaxElapsed
  <2>2. TypeOK'
        BY <1>7, <2>1 DEF Elapse, TypeOK
  <2>3. elapsed' + left' = elapsed + left
        BY <2>1 DEF TypeOK
  <2>4. TimeInv'
        BY <2>1, <2>3 DEF TimeInv
  <2>. QED  BY <2>2, <2>4
<1>8. ASSUME NEW k \in Keys, Press(k) PROVE InputInv'
  <2>1. typed' \in Seq(Keys)
        BY <1>8, AppendProperties DEF Press, TypeOK
  <2>2. pending' \in Seq(Byte) /\ wire' \in Seq(Byte)
    <3>1. KeyBytes[k] \in Seq(Byte)
          BY KeyBytesType
    <3>2. pending \o KeyBytes[k] \in Seq(Byte) /\ <<>> \in Seq(Byte) /\ pending \in Seq(Byte)
          BY <3>1, ConcatProperties, EmptySeq DEF TypeOK
    <3>. QED  BY <1>8, <3>1, <3>2 DEF Press
  <2>. QED  BY <1>8, <2>1, <2>2 DEF Press, TypeOK, TimeInv
<1>9. CASE Arrive
  <2>1. Head(wire) \in Byte /\ Tail(wire) \in Seq(Byte)
        BY <1>9, HeadTailProperties DEF Arrive, TypeOK
  <2>2. pending' \in Seq(Byte) /\ wire' \in Seq(Byte)
        BY <1>9, <2>1, AppendProperties DEF Arrive, TypeOK
  <2>. QED  BY <1>9, <2>2 DEF Arrive, TypeOK, TimeInv
<1>10. CASE (\E f \in Faults : Fail(f)) \/ Refill \/ UNCHANGED vars
      BY <1>10 DEF Fail, Refill, vars, caller, TypeOK, TimeInv
<1>. QED  BY <1>2, <1>3, <1>4, <1>5, <1>6, <1>7, <1>8, <1>9, <1>10 DEF Next, Reader, World

\* Whatever bytes, signals and failures come, the variables keep their types, and a call
\* has waited no longer than the stage it has reached allows (terminal_posix.cpp
\* readEvent).
THEOREM InputTypeCorrect == Spec => []InputInv
<1>. QED  BY TypeInit, TypeStep, PTL DEF Spec

\* For every pair of timeouts, and however bytes and signals arrive, readEvent() returns
\* within its own wait and two follow-ups (terminal_posix.cpp readEvent, decodeEscape).
THEOREM CallsAreBounded == Spec => []CallIsBounded
<1>1. InputInv => CallIsBounded
      BY WaitsAssumption DEF InputInv, TypeOK, TimeInv, LimitOf, CallIsBounded
<1>. QED  BY <1>1, InputTypeCorrect, PTL

\* A call that reports nothing, reads nothing and was not interrupted has waited for all
\* of its timeout (terminal_posix.cpp readByte).
THEOREM IdleCallsAlwaysWait == Spec => IdleCallsWait
<1> DEFINE Waits == device # "broken" /\ stage # "idle" /\ stage' = "idle" /\ events' = events /\ pending' = pending
                    => elapsed = TimeoutMs \/ signals' # signals
<1>1. InputInv /\ [Next]_vars => [Waits]_vars
  <2> SUFFICES ASSUME InputInv, Next, device # "broken", stage # "idle", stage' = "idle",
                      events' = events, pending' = pending
               PROVE  elapsed = TimeoutMs \/ signals' # signals
      OBVIOUS
  <2> USE DEF InputInv
  <2>1. ~ ReadByte /\ ~ ReadError /\ ~ ReadEof
        BY ReadByteCases, ReadTypes, EndOfInputType DEF ReadError, ReadEof
  <2>2. CASE TimeOut
    <3>1. stage = "first" /\ left = 0
          BY <2>2, NoByteType DEF TimeOut
    <3>. QED  BY <3>1, WaitsAssumption DEF TimeInv, TypeOK
  <2>3. CASE Interrupt
        BY <2>3 DEF Interrupt, TypeOK
  <2>4. ~ Call /\ ~ Elapse /\ ~ Arrive /\ (\A k \in Keys : ~ Press(k)) /\ (\A f \in Faults : ~ Fail(f)) /\ ~ Refill
        BY DEF Call, Elapse, Arrive, Press, Fail, Refill, Await, caller
  <2>. QED  BY <2>1, <2>2, <2>3, <2>4 DEF Next, Reader, World
<1>. QED  BY <1>1, InputTypeCorrect, PTL DEF Spec, IdleCallsWait

----------------------------------------------------------------------------
\* The end of input.

Asked == \E i \in DOMAIN typed : typed[i] \in {"CtrlC", "CtrlD"}

PlainByte == Byte \ {"ETX", "EOT"}
PlainEvent == {e \in Event : e.type # "Eof"}

\* The end was reported because a read() gave nothing.
FoundEmpty == Ended /\ stage = "idle" /\ Empty

\* While nobody has pressed Ctrl-C or Ctrl-D, no byte that means the end is on its way or
\* waits to be read, and no event of it was delivered unless the device was empty.
EofInv ==
    ~ Asked =>
        /\ pending \in Seq(PlainByte) /\ wire \in Seq(PlainByte)
        /\ events \in Seq(PlainEvent) \/ FoundEmpty

LEMMA PlainEvents ==
    /\ Special("Escape") \in PlainEvent
    /\ \A b \in DOMAIN Direct : b \in PlainByte => Special(Direct[b]) \in PlainEvent
    /\ \A b \in DOMAIN Arrows : Special(Arrows[b]) \in PlainEvent
    /\ \A b \in Byte : Typed(b) \in PlainEvent
BY EventTypes DEF PlainEvent, PlainByte, Special, Typed, Direct, Arrows

LEMMA PlainKeys == ASSUME NEW k \in Keys, k \notin {"CtrlC", "CtrlD"} PROVE KeyBytes[k] \in Seq(PlainByte)
<1>1. \A a \in PlainByte : <<a>> \in Seq(PlainByte)
      OBVIOUS
<1>2. \A a, b, c \in PlainByte : <<a, b, c>> \in Seq(PlainByte)
      OBVIOUS
<1>3. \A a, b, c, d \in PlainByte : <<a, b, c, d>> \in Seq(PlainByte)
      OBVIOUS
<1>4. {"x", "CR", "DEL", "HT", "SOH", "ESC", "[", "A", "O", "D", "3", "~"} \subseteq PlainByte
      BY DEF PlainByte, Byte
<1>5. k \in AllKeys \ {"CtrlC", "CtrlD"}
      BY KeysAssumption, KeyTable
<1>6. CASE k \in {"x", "Enter", "Backspace", "Tab", "CtrlA", "Escape"}
      BY <1>1, <1>4, <1>6, KeyTable
<1>7. CASE k \in {"ArrowUp", "ArrowLeft"}
      BY <1>2, <1>4, <1>7, KeyTable, ZenonT(30)
<1>8. CASE k = "Delete"
      BY <1>3, <1>4, <1>8, KeyTable
<1>. QED  BY <1>5, <1>6, <1>7, <1>8 DEF AllKeys

LEMMA EofInit == Init => EofInv
<1>1. <<>> \in Seq(PlainByte) /\ <<>> \in Seq(PlainEvent)
      BY EmptySeq
<1>. QED  BY <1>1 DEF Init, EofInv

LEMMA EofStep == InputInv /\ EofInv /\ [Next]_vars => EofInv'
<1> SUFFICES ASSUME TypeOK, EofInv, [Next]_vars, ~ Asked'
             PROVE  /\ pending' \in Seq(PlainByte) /\ wire' \in Seq(PlainByte)
                    /\ events' \in Seq(PlainEvent) \/ FoundEmpty'
    BY DEF EofInv, InputInv
<1>0. \A e \in PlainEvent : events \in Seq(PlainEvent) => Append(events, e) \in Seq(PlainEvent)
      BY AppendProperties
<1>1. ASSUME UNCHANGED typed
      PROVE  /\ pending \in Seq(PlainByte) /\ wire \in Seq(PlainByte)
             /\ events \in Seq(PlainEvent) \/ FoundEmpty
      BY <1>1 DEF EofInv, Asked
\* A call under way has not reported the end.
<1>8. ASSUME UNCHANGED typed, stage # "idle"
      PROVE  pending \in Seq(PlainByte) /\ wire \in Seq(PlainByte) /\ events \in Seq(PlainEvent)
      BY <1>1, <1>8 DEF FoundEmpty
<1>2. CASE ReadByte
  <2>0. /\ pending \in Seq(PlainByte) /\ wire \in Seq(PlainByte) /\ events \in Seq(PlainEvent)
        /\ wire' = wire /\ pending # <<>>
        BY <1>2, <1>8 DEF ReadByte
  <2>1. Head(pending) \in PlainByte /\ Tail(pending) \in Seq(PlainByte) /\ pending' = Tail(pending)
        BY <1>2, <2>0, HeadTailProperties DEF ReadByte
  <2>2. \/ events' = events
        \/ \E e \in PlainEvent : events' = Append(events, e)
        BY <1>2, <2>1, ReadByteCases, PlainEvents
  <2>. QED  BY <1>0, <2>0, <2>1, <2>2
<1>3. CASE TimeOut \/ Interrupt \/ ReadError
  <2>1. /\ pending' \in Seq(PlainByte) /\ wire' \in Seq(PlainByte) /\ events \in Seq(PlainEvent) /\ NoByte
        BY <1>3, <1>8 DEF TimeOut, Interrupt, ReadError
  <2>. QED  BY <1>0, <2>1, NoByteType, PlainEvents
<1>4. CASE ReadEof
  <2>1. /\ pending' \in Seq(PlainByte) /\ wire' \in Seq(PlainByte) /\ events \in Seq(PlainEvent)
        /\ EndOfInput /\ Empty'
        BY <1>4, <1>8 DEF ReadEof, Empty
  <2>2. CASE stage # "first"
    <3>1. events' = Append(events, Special("Escape"))
          BY <2>1, <2>2, EndOfInputType
    <3>. QED  BY <1>0, <2>1, <3>1, PlainEvents
  <2>3. CASE stage = "first"
    <3>1. events' = Append(events, Special("Eof")) /\ stage' = "idle" /\ events' # <<>>
          BY <2>1, <2>3, EndOfInputType, EventTypes, AppendProperties DEF TypeOK
    <3>2. events'[Len(events')] = Special("Eof")
          BY <3>1, EventTypes, AppendProperties DEF TypeOK
    <3>3. Ended'
          BY <3>1, <3>2 DEF Ended, Last, Special
    <3>. QED  BY <2>1, <3>1, <3>3 DEF FoundEmpty
  <2>. QED  BY <2>2, <2>3
<1>5. ASSUME NEW k \in Keys, Press(k)
      PROVE  pending' \in Seq(PlainByte) /\ wire' \in Seq(PlainByte) /\ events' \in Seq(PlainEvent)
  <2>1. typed' = Append(typed, k) /\ typed \in Seq(Keys)
        BY <1>5 DEF Press, TypeOK
  <2>2. /\ DOMAIN typed' = 1 .. Len(typed) + 1 /\ DOMAIN typed = 1 .. Len(typed)
        /\ \A i \in DOMAIN typed : typed'[i] = typed[i] /\ i \in DOMAIN typed'
        /\ typed'[Len(typed) + 1] = k /\ Len(typed) + 1 \in DOMAIN typed'
        BY <2>1, AppendProperties
  <2>3. ~ Asked /\ k \notin {"CtrlC", "CtrlD"}
        BY <2>2 DEF Asked
  <2>4. pending \in Seq(PlainByte) /\ wire \in Seq(PlainByte) /\ events \in Seq(PlainEvent) /\ events' = events
        BY <1>5, <2>3 DEF EofInv, Press, FoundEmpty, Empty
  <2>5. KeyBytes[k] \in Seq(PlainByte) /\ <<>> \in Seq(PlainByte)
        BY <2>3, PlainKeys, EmptySeq
  <2>6. pending \o KeyBytes[k] \in Seq(PlainByte)
        BY <2>4, <2>5, ConcatProperties
  <2>. QED  BY <1>5, <2>4, <2>5, <2>6 DEF Press
\* Steps that leave a finished input as it is.
<1>9. ASSUME UNCHANGED <<typed, events>>, FoundEmpty => UNCHANGED <<stage, device>>
      PROVE  events' \in Seq(PlainEvent) \/ FoundEmpty'
      BY <1>1, <1>9 DEF FoundEmpty, Ended, Empty
<1>6. CASE Arrive
  <2>0. /\ pending \in Seq(PlainByte) /\ wire \in Seq(PlainByte) /\ wire # <<>>
        BY <1>1, <1>6 DEF Arrive
  <2>1. Head(wire) \in PlainByte /\ Tail(wire) \in Seq(PlainByte)
        BY <2>0, HeadTailProperties
  <2>2. events' \in Seq(PlainEvent) \/ FoundEmpty'
        BY <1>6, <1>9 DEF Arrive
  <2>. QED  BY <1>6, <2>0, <2>1, <2>2, AppendProperties DEF Arrive
<1>7. CASE Call \/ Elapse \/ Refill \/ UNCHANGED vars \/ \E f \in Faults : Fail(f)
  <2>1. /\ UNCHANGED <<typed, events, pending, wire>>
        /\ FoundEmpty => UNCHANGED <<stage, device>>
        BY <1>7 DEF Call, Elapse, Refill, vars, Fail, caller, FoundEmpty, Empty
  <2>. QED  BY <1>1, <1>9, <2>1
<1>. QED  BY <1>2, <1>3, <1>4, <1>5, <1>6, <1>7 DEF Next, Reader, World

\* A wait that finds nothing, however it ends, is never taken for the end of input: that
\* is only reported when it was asked for or a read() gave nothing (terminal_posix.cpp
\* readByte, readEvent).
THEOREM EofIsGenuine == Spec => []EofMeansClosed
<1>1. InputInv /\ EofInv => EofMeansClosed
  <2> SUFFICES ASSUME TypeOK, EofInv, Ended, ~ Empty, ~ Asked PROVE FALSE
      BY DEF EofMeansClosed, Asked, InputInv
  <2>1. events \in Seq(PlainEvent) /\ events # <<>>
        BY DEF EofInv, Ended, FoundEmpty
  <2>2. events[Len(events)] \in PlainEvent
        BY <2>1
  <2>. QED  BY <2>2 DEF PlainEvent, Ended, Last
<1>. QED  BY <1>1, EofInit, EofStep, InputTypeCorrect, PTL DEF Spec

----------------------------------------------------------------------------
\* Every key gives its event.

Sent == [k \in Keys |-> KeyBytes[k]]
Answer == [k \in Keys |-> KeyEvent(k)]

BytesOf(keys) == FlatMap(Sent, keys)
EventsOf(keys) == FlatMap(Answer, keys)

\* Esc is followed by a pause: nothing is typed behind one that has not been delivered.
EscapeLast(keys) == \A i \in 1 .. Len(keys) : keys[i] = "Escape" => i = Len(keys)

\* The reader is between two keys: those of done are delivered, those of rest wait.
Between(done, rest) ==
    /\ typed = done \o rest
    /\ events = EventsOf(done) /\ pending = BytesOf(rest)
    /\ EscapeLast(rest)

\* It is within key k: of its bytes those of remains wait, of its events given is delivered.
Within(done, k, rest, remains, given) ==
    /\ typed = done \o (<<k>> \o rest)
    /\ events = EventsOf(done) \o given /\ pending = remains \o BytesOf(rest)
    /\ EscapeLast(<<k>> \o rest)

\* What remains of a key at each stage.
Underway(s, k, remains, given) ==
    \/ /\ s = "second" /\ given = <<>>
       /\ \/ k = "Escape" /\ remains = <<>>
          \/ k = "ArrowUp" /\ remains = <<"[", "A">>
          \/ k = "ArrowLeft" /\ remains = <<"O", "D">>
          \/ k = "Delete" /\ remains = <<"[", "3", "~">>
    \/ /\ s = "final" /\ given = <<>>
       /\ \/ k = "ArrowUp" /\ remains = <<"A">>
          \/ k = "ArrowLeft" /\ remains = <<"D">>
          \/ k = "Delete" /\ remains = <<"3", "~">>
    \/ /\ s \in {"idle", "first"} /\ given = <<Special("Escape")>>
       /\ k = "Delete" /\ remains = <<"~">>

Whole == stage \in {"idle", "first"} /\ \E done, rest \in Seq(Keys) : Between(done, rest)

Part == \E done, rest \in Seq(Keys), k \in Keys, remains \in Seq(Byte), given \in Seq(Event) :
            Within(done, k, rest, remains, given) /\ Underway(stage, k, remains, given)

Finished ==
    /\ Empty /\ stage = "idle" /\ pending = <<>>
    /\ events = Append(EventsOf(typed), Special("Eof"))

KeyInv == together /\ device # "broken" => wire = <<>> /\ (Whole \/ Part \/ Finished)

LEMMA SentType == Sent \in [Keys -> Seq(Byte)] /\ \A k \in Keys : Sent[k] = KeyBytes[k]
BY KeyBytesType DEF Sent

\* The events of the keys, row by row.
LEMMA AnswerTable ==
    ASSUME NEW k \in Keys
    PROVE  /\ Answer[k] = KeyEvent(k)
           /\ Answer[k] \in Seq(Event)
           /\ k = "x" => Answer[k] = <<Typed("x")>>
           /\ k = "CtrlA" => Answer[k] = <<>>
           /\ k \in {"CtrlC", "CtrlD"} => Answer[k] = <<Special("Eof")>>
           /\ k = "Delete" => Answer[k] = <<Special("Escape"), Typed("~")>>
           /\ k \in {"Enter", "Backspace", "Tab", "Escape", "ArrowUp", "ArrowLeft"} => Answer[k] = <<Special(k)>>
<1>1. Answer[k] = KeyEvent(k) /\ k \in AllKeys
      BY KeysAssumption, KeyTable DEF Answer
<1>2. /\ k = "x" => Answer[k] = <<Typed("x")>>
      /\ k = "CtrlA" => Answer[k] = <<>>
      /\ k \in {"CtrlC", "CtrlD"} => Answer[k] = <<Special("Eof")>>
      /\ k = "Delete" => Answer[k] = <<Special("Escape"), Typed("~")>>
      /\ k \in {"Enter", "Backspace", "Tab", "Escape", "ArrowUp", "ArrowLeft"} => Answer[k] = <<Special(k)>>
      BY <1>1 DEF KeyEvent
<1>3. \A e, f \in Event : <<>> \in Seq(Event) /\ <<e>> \in Seq(Event) /\ <<e, f>> \in Seq(Event)
      OBVIOUS
<1>4. /\ Typed("x") \in Event /\ Typed("~") \in Event /\ Special("Eof") \in Event /\ Special("Escape") \in Event
      /\ k \in {"Enter", "Backspace", "Tab", "Escape", "ArrowUp", "ArrowLeft"} => Special(k) \in Event
      BY DEF Typed, Special, Event, Byte
<1>5. Answer[k] \in Seq(Event)
      BY <1>1, <1>2, <1>3, <1>4 DEF AllKeys
<1>. QED  BY <1>1, <1>2, <1>5

LEMMA AnswerType == Answer \in [Keys -> Seq(Event)]
BY AnswerTable DEF Answer

LEMMA KeysTypes ==
    ASSUME NEW s \in Seq(Keys)
    PROVE  BytesOf(s) \in Seq(Byte) /\ EventsOf(s) \in Seq(Event)
BY SentType, AnswerType, FlatMapType DEF BytesOf, EventsOf

LEMMA EventsConcat ==
    ASSUME NEW a \in Seq(Keys), NEW b \in Seq(Keys)
    PROVE  EventsOf(a \o b) = EventsOf(a) \o EventsOf(b)
BY AnswerType, FlatMapConcat DEF EventsOf

LEMMA EventsAssociative ==
    ASSUME NEW a \in Seq(Event), NEW b \in Seq(Event), NEW c \in Seq(Event)
    PROVE  (a \o b) \o c = a \o (b \o c)
BY ConcatAssociative

LEMMA BytesAssociative ==
    ASSUME NEW a \in Seq(Byte), NEW b \in Seq(Byte), NEW c \in Seq(Byte)
    PROVE  (a \o b) \o c = a \o (b \o c)
BY ConcatAssociative

LEMMA KeysAppend ==
    ASSUME NEW a \in Seq(Keys), NEW b \in Seq(Keys), NEW k \in Keys
    PROVE  Append(b, k) \in Seq(Keys) /\ Append(a \o b, k) = a \o Append(b, k)
<1>1. Append(b, k) \in Seq(Keys)
      BY AppendProperties
<1>2. Append(a \o b, k) = a \o Append(b, k)
  <2>1. <<k>> \in Seq(Keys) /\ a \o b \in Seq(Keys)
        BY ConcatProperties
  <2>2. Append(a \o b, k) = (a \o b) \o <<k>> /\ Append(b, k) = b \o <<k>>
        BY <2>1, AppendIsConcat
  <2>3. (a \o b) \o <<k>> = a \o (b \o <<k>>)
        BY <2>1, ConcatAssociative
  <2>. QED  BY <2>2, <2>3
<1>. QED  BY <1>1, <1>2

\* Bytes wait as long as a key waits.
LEMMA BytesWait ==
    ASSUME NEW s \in Seq(Keys), s # <<>>
    PROVE  BytesOf(s) # <<>>
<1>1. Head(s) \in Keys /\ Tail(s) \in Seq(Keys)
      BY HeadTailProperties
<1>2. KeyBytes[Head(s)] # <<>> /\ KeyBytes[Head(s)] \in Seq(Byte)
  <2>1. Head(s) \in AllKeys
        BY <1>1, KeysAssumption, KeyTable
  <2>2. KeyBytes[Head(s)] # <<>>
        BY <2>1, KeyTable DEF AllKeys
  <2>. QED  BY <1>1, <2>2, KeyBytesType
<1>3. BytesOf(s) = KeyBytes[Head(s)] \o BytesOf(Tail(s)) /\ BytesOf(Tail(s)) \in Seq(Byte)
      BY <1>1, SentType, FlatMapHead, KeysTypes DEF BytesOf
<1>. QED  BY <1>2, <1>3, ConcatEqualIffEmpty

\* A reader between two keys is about to begin the next one.
LEMMA BeginKey ==
    ASSUME NEW done \in Seq(Keys), NEW rest \in Seq(Keys), Between(done, rest), rest # <<>>
    PROVE  /\ Head(rest) \in Keys /\ Tail(rest) \in Seq(Keys)
           /\ Within(done, Head(rest), Tail(rest), KeyBytes[Head(rest)], <<>>)
<1>1. Head(rest) \in Keys /\ Tail(rest) \in Seq(Keys) /\ rest = <<Head(rest)>> \o Tail(rest)
      OBVIOUS
<1>2. BytesOf(rest) = KeyBytes[Head(rest)] \o BytesOf(Tail(rest))
      BY <1>1, SentType, FlatMapHead DEF BytesOf
<1>3. EventsOf(done) \o <<>> = EventsOf(done)
      BY KeysTypes, ConcatEmptySeq
<1>. QED  BY <1>1, <1>2, <1>3 DEF Between, Within

\* With the last byte and the last event of a key it is between two keys again.
LEMMA EndKey ==
    ASSUME NEW done \in Seq(Keys), NEW rest \in Seq(Keys), NEW k \in Keys, NEW remains, NEW given \in Seq(Event),
           Within(done, k, rest, remains, given),
           typed' = typed, pending' = BytesOf(rest),
           NEW more \in Seq(Event), events' = events \o more, given \o more = Answer[k]
    PROVE  Append(done, k) \in Seq(Keys) /\ Between(Append(done, k), rest)'
<1>1. Append(done, k) \in Seq(Keys) /\ <<k>> \in Seq(Keys) /\ Append(done, k) = done \o <<k>>
      BY AppendProperties, AppendIsConcat
<1>2. typed' = Append(done, k) \o rest
  <2>1. (done \o <<k>>) \o rest = done \o (<<k>> \o rest)
        BY <1>1, ConcatAssociative
  <2>. QED  BY <1>1, <2>1 DEF Within
<1>3. events' = EventsOf(Append(done, k))
  <2>1. EventsOf(Append(done, k)) = EventsOf(done) \o Answer[k]
        BY AnswerType, FlatMapAppend DEF EventsOf
  <2>2. (EventsOf(done) \o given) \o more = EventsOf(done) \o (given \o more)
        BY KeysTypes, EventsAssociative
  <2>. QED  BY <2>1, <2>2 DEF Within
<1>4. EscapeLast(rest)
  <2> DEFINE q == <<k>> \o rest
  <2>1. /\ Len(rest) \in Nat /\ q \in Seq(Keys) /\ Len(q) = Len(rest) + 1
        /\ \A i \in 1 .. Len(rest) : i + 1 \in 1 .. Len(q) /\ q[i + 1] = rest[i]
        BY <1>1, ConcatProperties
  <2>2. EscapeLast(q)
        BY DEF Within
  <2> HIDE DEF q
  <2>. QED  BY <2>1, <2>2, SMTT(30) DEF EscapeLast
<1>. QED  BY <1>1, <1>2, <1>3, <1>4 DEF Between, BytesOf, EventsOf, EscapeLast

\* With a byte of it, and maybe an event, it goes on within the key.
LEMMA GoOn ==
    ASSUME NEW done \in Seq(Keys), NEW rest \in Seq(Keys), NEW k \in Keys,
           NEW remains \in Seq(Byte), remains # <<>>, NEW given \in Seq(Event),
           Within(done, k, rest, remains, given),
           typed' = typed, pending' = Tail(pending),
           NEW more \in Seq(Event), events' = events \o more
    PROVE  Within(done, k, rest, Tail(remains), given \o more)'
<1>1. Tail(remains) \in Seq(Byte) /\ Tail(remains \o BytesOf(rest)) = Tail(remains) \o BytesOf(rest)
      BY KeysTypes, SMTT(30)
<1>2. (EventsOf(done) \o given) \o more = EventsOf(done) \o (given \o more)
      BY KeysTypes, EventsAssociative
<1>. QED  BY <1>1, <1>2 DEF Within, BytesOf, EventsOf, EscapeLast

\* The next byte is one of the key's.
LEMMA NextByte ==
    ASSUME NEW done \in Seq(Keys), NEW rest \in Seq(Keys), NEW k \in Keys,
           NEW remains \in Seq(Byte), NEW given,
           Within(done, k, rest, remains, given), pending # <<>>, k = "Escape" \/ remains # <<>>
    PROVE  /\ remains # <<>> => Head(pending) = Head(remains)
           /\ remains # <<>> /\ Tail(remains) = <<>> => Tail(pending) = BytesOf(rest)
           /\ k = "Escape" /\ remains = <<>> => FALSE
<1>1. BytesOf(rest) \in Seq(Byte) /\ pending = remains \o BytesOf(rest)
      BY KeysTypes DEF Within
<1>2. CASE remains # <<>>
  <2>1. /\ Head(remains \o BytesOf(rest)) = Head(remains)
        /\ Tail(remains \o BytesOf(rest)) = Tail(remains) \o BytesOf(rest)
        BY <1>1, <1>2
  <2>2. <<>> \o BytesOf(rest) = BytesOf(rest)
        BY <1>1, ConcatEmptySeq
  <2>. QED  BY <1>1, <1>2, <2>1, <2>2
<1>3. CASE k = "Escape" /\ remains = <<>>
  <2>1. pending = BytesOf(rest)
        BY <1>1, <1>3, ConcatEmptySeq
  <2>2. rest # <<>>
        BY <2>1, FlatMapEmpty DEF BytesOf
  <2> DEFINE q == <<k>> \o rest
  <2>3. Len(q) = Len(rest) + 1 /\ q[1] = k /\ Len(rest) \in Nat \ {0}
        BY <2>2
  <2>4. EscapeLast(q)
        BY DEF Within
  <2> HIDE DEF q
  <2>. QED  BY <1>3, <2>3, <2>4 DEF EscapeLast
<1>. QED  BY <1>2, <1>3

LEMMA KeyInit == Init => KeyInv
<1> SUFFICES ASSUME Init PROVE wire = <<>> /\ Whole
    BY DEF KeyInv
<1>1. Between(<<>>, <<>>)
  <2>1. EventsOf(<<>>) = <<>> /\ BytesOf(<<>>) = <<>>
        BY FlatMapEmpty DEF EventsOf, BytesOf
  <2>2. <<>> \o <<>> = <<>> /\ EscapeLast(<<>>)
        BY DEF EscapeLast
  <2>. QED  BY <2>1, <2>2 DEF Init, Between
<1>2. <<>> \in Seq(Keys)
      BY EmptySeq
<1>. QED  BY <1>1, <1>2 DEF Init, Whole

\* A key is pressed: it joins those that wait.
LEMMA PressWhole ==
    ASSUME TypeOK, Whole, together, NEW k \in Keys, Press(k)
    PROVE  wire' = <<>> /\ Whole'
<1>1. PICK done, rest \in Seq(Keys) : Between(done, rest)
      BY DEF Whole
<1> DEFINE more == Append(rest, k)
<1>2. more \in Seq(Keys) /\ typed' = done \o more
      BY <1>1, KeysAppend DEF Press, Between
<1>3. pending' = BytesOf(more)
  <2>1. BytesOf(more) = BytesOf(rest) \o KeyBytes[k]
        BY SentType, FlatMapAppend DEF BytesOf
  <2>. QED  BY <1>1, <2>1 DEF Press, Between
<1>4. EscapeLast(more)
  <2>1. CASE rest = <<>>
        BY <2>1 DEF EscapeLast
  <2>2. CASE rest # <<>>
    <3>1. pending # <<>>
          BY <1>1, <2>2, BytesWait DEF Between
    <3>2. typed # <<>> /\ Last(typed) = rest[Len(rest)]
          BY <1>1, <2>2 DEF Between, Last
    <3>3. rest[Len(rest)] # "Escape"
          BY <3>1, <3>2 DEF Press
    <3>4. /\ Len(more) = Len(rest) + 1 /\ Len(rest) \in Nat
          /\ \A i \in 1 .. Len(rest) : more[i] = rest[i]
          BY AppendProperties
    <3>5. EscapeLast(rest)
          BY <1>1 DEF Between
    <3> HIDE DEF more
    <3>. QED  BY <3>3, <3>4, <3>5 DEF EscapeLast
  <2>. QED  BY <2>1, <2>2
<1> HIDE DEF more
<1>5. Between(done, more)'
      BY <1>1, <1>2, <1>3, <1>4 DEF Between, Press, EscapeLast, EventsOf, BytesOf
<1>. QED  BY <1>2, <1>5 DEF Press, Whole

LEMMA PressPart ==
    ASSUME TypeOK, Part, together, NEW k \in Keys, Press(k)
    PROVE  wire' = <<>> /\ Part'
<1>1. PICK done, rest \in Seq(Keys), key \in Keys, remains \in Seq(Byte), given \in Seq(Event) :
          Within(done, key, rest, remains, given) /\ Underway(stage, key, remains, given)
      BY DEF Part
<1> DEFINE more == Append(rest, k)
           old  == <<key>> \o rest
           new  == <<key>> \o more
<1>2. more \in Seq(Keys) /\ new \in Seq(Keys) /\ new = Append(old, k) /\ old \in Seq(Keys) /\ old # <<>>
      BY AppendProperties
<1>3. typed' = done \o new
  <2>1. typed' = Append(done \o old, k)
        BY <1>1 DEF Press, Within
  <2> HIDE DEF old, new
  <2>. QED  BY <1>2, <2>1, KeysAppend
<1>4. pending' = remains \o BytesOf(more)
  <2>1. BytesOf(more) = BytesOf(rest) \o KeyBytes[k]
        BY SentType, FlatMapAppend, ZenonT(30) DEF BytesOf
  <2>2. (remains \o BytesOf(rest)) \o KeyBytes[k] = remains \o (BytesOf(rest) \o KeyBytes[k])
        BY KeysTypes, KeyBytesType, BytesAssociative
  <2>. QED  BY <1>1, <2>1, <2>2 DEF Press, Within
<1>5. EscapeLast(new)
  <2>1. typed # <<>> /\ Last(typed) = old[Len(old)]
        BY <1>1, <1>2 DEF Within, Last
  <2>2. old[Len(old)] # "Escape"
    <3>1. CASE rest = <<>>
      <4>1. old[Len(old)] = key
            BY <3>1
      <4>2. stage = "idle" => key = "Delete"
            BY <1>1 DEF Underway
      <4>. QED  BY <2>1, <4>1, <4>2 DEF Press
    <3>2. CASE rest # <<>>
      <4>1. BytesOf(rest) # <<>> /\ BytesOf(rest) \in Seq(Byte)
            BY <3>2, BytesWait, KeysTypes
      <4>2. pending # <<>>
            BY <1>1, <4>1, ConcatEqualIffEmpty DEF Within
      <4>. QED  BY <2>1, <4>2 DEF Press
    <3>. QED  BY <3>1, <3>2
  <2>3. /\ Len(new) = Len(old) + 1 /\ Len(old) \in Nat
        /\ \A i \in 1 .. Len(old) : new[i] = old[i]
        BY <1>2, AppendProperties
  <2>4. EscapeLast(old)
        BY <1>1 DEF Within
  <2> HIDE DEF old, new
  <2>. QED  BY <2>2, <2>3, <2>4 DEF EscapeLast
<1>6. Within(done, key, more, remains, given)'
      BY <1>1, <1>3, <1>4, <1>5 DEF Within, Press, EscapeLast, EventsOf, BytesOf
<1>7. Underway(stage', key, remains, given)
      BY <1>1 DEF Press
<1> HIDE DEF more
<1>. QED  BY <1>2, <1>6, <1>7 DEF Press, Part, Underway

\* readByte() gives a byte between two keys: the first one of a key.
LEMMA ReadWhole ==
    ASSUME TypeOK, Whole, ReadByte
    PROVE  Whole' \/ Part'
<1>1. PICK done, rest \in Seq(Keys) : Between(done, rest)
      BY DEF Whole
<1> DEFINE k == Head(rest)
           b == Head(pending)
<1>2. rest # <<>>
      BY <1>1, FlatMapEmpty DEF ReadByte, Between, BytesOf
<1>3. k \in Keys /\ Tail(rest) \in Seq(Keys) /\ Within(done, k, Tail(rest), KeyBytes[k], <<>>)
      BY <1>1, <1>2, BeginKey
<1> HIDE DEF k
<1>4. stage = "first" /\ typed' = typed /\ pending # <<>> /\ pending' = Tail(pending)
      BY ReadByteCases DEF ReadByte, Whole
<1>5. k \in AllKeys /\ KeyBytes[k] \in Seq(Byte) /\ KeyBytes[k] # <<>>
  <2>1. k \in AllKeys
        BY <1>3, KeysAssumption, KeyTable
  <2>. QED  BY <1>3, <2>1, KeyTable, KeyBytesType DEF AllKeys
<1>6. /\ b = Head(KeyBytes[k])
      /\ Tail(KeyBytes[k]) = <<>> => pending' = BytesOf(Tail(rest))
      BY <1>3, <1>4, <1>5, NextByte
<1>7. CASE k \in {"Escape", "ArrowUp", "ArrowLeft", "Delete"}
  <2>1. b = "ESC"
        BY <1>6, <1>7, KeyTable
  <2>2. stage' = "second" /\ events' = events
        BY <1>4, <2>1, ReadByteCases DEF Direct, Printable
  <2>3. events' = events \o <<>> /\ <<>> \in Seq(Event) /\ <<>> \o <<>> = <<>>
        BY <2>2, ConcatEmptySeq, EmptySeq DEF TypeOK
  <2>4. Within(done, k, Tail(rest), Tail(KeyBytes[k]), <<>>)'
        BY <1>3, <1>4, <1>5, <2>3, GoOn
  <2>5. Underway("second", k, Tail(KeyBytes[k]), <<>>)
        BY <1>7, KeyTable, TailTable DEF Underway
  <2>6. Tail(KeyBytes[k]) \in Seq(Byte)
        BY <1>5, HeadTailProperties
  <2>. QED  BY <1>3, <2>2, <2>3, <2>4, <2>5, <2>6 DEF Part
<1>8. CASE k \in {"x", "Enter", "Backspace", "Tab", "CtrlA", "CtrlC", "CtrlD"}
  <2>1. Tail(KeyBytes[k]) = <<>> /\ KeyBytes[k] = <<b>>
    <3>1. \E a : KeyBytes[k] = <<a>>
          BY <1>8, KeyTable
    <3>. QED  BY <1>6, <3>1, TailTable
  <2>2. PICK more \in Seq(Event) : stage' = "idle" /\ events' = events \o more /\ <<>> \o more = Answer[k]
    <3>1. Answer[k] \in Seq(Event) /\ <<>> \o Answer[k] = Answer[k]
          BY <1>3, AnswerTable, ConcatEmptySeq
    <3>2. CASE k = "CtrlA"
      <4>1. b = "SOH" /\ Answer[k] = <<>>
            BY <1>3, <2>1, <3>2, KeyTable, AnswerTable
      <4>2. stage' = "idle" /\ events' = events
            BY <1>4, <4>1, ReadByteCases DEF Direct, Printable
      <4>3. events = events \o <<>>
            BY ConcatEmptySeq DEF TypeOK
      <4>. QED  BY <3>1, <4>1, <4>2, <4>3
    <3>3. CASE k = "x"
      <4>1. b = "x" /\ Answer[k] = <<Typed("x")>>
            BY <1>3, <2>1, <3>3, KeyTable, AnswerTable
      <4>2. stage' = "idle" /\ events' = Append(events, Typed("x")) /\ Typed("x") \in Event
            BY <1>4, <4>1, ReadByteCases DEF Direct, Printable
      <4>3. events' = events \o <<Typed("x")>>
            BY <4>2, AppendIsConcat DEF TypeOK
      <4>. QED  BY <3>1, <4>1, <4>2, <4>3
    <3>4. CASE k \in {"Enter", "Backspace", "Tab", "CtrlC", "CtrlD"}
      <4>1. b \in DOMAIN Direct /\ Answer[k] = <<Special(Direct[b])>>
        <5>1. /\ k = "Enter" => b = "CR"
              /\ k = "Backspace" => b = "DEL"
              /\ k = "Tab" => b = "HT"
              /\ k = "CtrlC" => b = "ETX"
              /\ k = "CtrlD" => b = "EOT"
              BY <2>1, KeyTable
        <5>. QED  BY <1>3, <3>4, <5>1, AnswerTable DEF Direct
      <4>2. b # "ESC" /\ b \notin Printable
            BY <4>1 DEF Direct, Printable
      <4>3. stage' = "idle" /\ events' = Append(events, Special(Direct[b])) /\ Special(Direct[b]) \in Event
            BY <1>4, <4>1, <4>2, ReadByteCases
      <4>4. events' = events \o <<Special(Direct[b])>>
            BY <4>3, AppendIsConcat DEF TypeOK
      <4>. QED  BY <3>1, <4>1, <4>3, <4>4
    <3>. QED  BY <1>8, <3>2, <3>3, <3>4
  <2>3. Append(done, k) \in Seq(Keys) /\ Between(Append(done, k), Tail(rest))'
    <3>1. <<>> \in Seq(Event)
          BY EmptySeq
    <3>. QED  BY <1>3, <1>4, <1>6, <2>1, <2>2, <3>1, EndKey
  <2>. QED  BY <1>3, <2>2, <2>3 DEF Whole
<1>. QED  BY <1>5, <1>7, <1>8 DEF AllKeys

\* And within a key: one more byte of it.
LEMMA ReadPart ==
    ASSUME TypeOK, Part, ReadByte
    PROVE  Whole' \/ Part'
<1>1. PICK done, rest \in Seq(Keys), k \in Keys, remains \in Seq(Byte), given \in Seq(Event) :
          Within(done, k, rest, remains, given) /\ Underway(stage, k, remains, given)
      BY DEF Part
<1> DEFINE b == Head(pending)
<1>2. pending # <<>> /\ pending' = Tail(pending) /\ typed' = typed /\ stage # "idle"
      BY DEF ReadByte
<1>3. remains # <<>>
  <2>1. k = "Escape" \/ remains # <<>>
        BY <1>1 DEF Underway
  <2>. QED  BY <1>1, <1>2, <2>1, NextByte
<1>4. /\ b = Head(remains)
      /\ Tail(remains) = <<>> => pending' = BytesOf(rest)
      BY <1>1, <1>2, <1>3, NextByte
<1> HIDE DEF b
<1>5. /\ stage = "second" /\ b \in {"[", "O"} => stage' = "final" /\ events' = events
      /\ stage = "final" /\ b \in DOMAIN Arrows => stage' = "idle" /\ events' = Append(events, Special(Arrows[b]))
      /\ stage = "final" /\ b \notin DOMAIN Arrows => stage' = "idle" /\ events' = Append(events, Special("Escape"))
      /\ stage = "first" /\ b = "~" => stage' = "idle" /\ events' = Append(events, Typed("~"))
  <2>1. b = Head(pending)
        BY DEF b
  <2>. QED  BY <2>1, ReadByteCases DEF Direct, Printable
<1>6. CASE stage = "second"
  <2>1. b \in {"[", "O"} /\ given = <<>>
        /\ Underway("final", k, Tail(remains), <<>>)
    <3>1. /\ Tail(<<"[", "A">>) = <<"A">> /\ Tail(<<"O", "D">>) = <<"D">> /\ Tail(<<"[", "3", "~">>) = <<"3", "~">>
          /\ Head(<<"[", "A">>) = "[" /\ Head(<<"O", "D">>) = "O" /\ Head(<<"[", "3", "~">>) = "["
          OBVIOUS
    <3>. QED  BY <1>1, <1>3, <1>4, <1>6, <3>1 DEF Underway
  <2>2. events' = events \o <<>> /\ <<>> \in Seq(Event) /\ <<>> \o <<>> = <<>>
        BY <1>5, <1>6, <2>1, ConcatEmptySeq, EmptySeq DEF TypeOK
  <2>3. Within(done, k, rest, Tail(remains), <<>>)'
        BY <1>1, <1>2, <1>3, <2>1, <2>2, GoOn
  <2>4. stage' = "final" /\ Tail(remains) \in Seq(Byte)
        BY <1>3, <1>5, <1>6, <2>1, HeadTailProperties
  <2>. QED  BY <2>1, <2>2, <2>3, <2>4 DEF Part
<1>7. CASE stage = "final" /\ k = "Delete"
  <2>1. b = "3" /\ given = <<>> /\ Tail(remains) = <<"~">>
    <3>1. Tail(<<"3", "~">>) = <<"~">> /\ Head(<<"3", "~">>) = "3"
          OBVIOUS
    <3>. QED  BY <1>1, <1>4, <1>7, <3>1 DEF Underway
  <2> DEFINE more == <<Special("Escape")>>
  <2>2. more \in Seq(Event) /\ <<>> \o more = more
        BY EventTypes
  <2>3. stage' = "idle" /\ events' = events \o more
    <3>1. stage' = "idle" /\ events' = Append(events, Special("Escape"))
          BY <1>5, <1>7, <2>1 DEF Arrows
    <3>. QED  BY <3>1, EventTypes, AppendIsConcat DEF TypeOK
  <2>4. Underway("idle", k, <<"~">>, more)
        BY <1>7 DEF Underway
  <2> HIDE DEF more
  <2>5. Within(done, k, rest, <<"~">>, more)'
        BY <1>1, <1>2, <1>3, <2>1, <2>2, <2>3, GoOn
  <2>6. <<"~">> \in Seq(Byte)
        BY DEF Byte
  <2>. QED  BY <2>2, <2>3, <2>4, <2>5, <2>6 DEF Part
<1>8. ASSUME Tail(remains) = <<>>,
             NEW more \in Seq(Event), stage' = "idle", events' = events \o more, given \o more = Answer[k]
      PROVE  Whole'
  <2>1. Append(done, k) \in Seq(Keys) /\ Between(Append(done, k), rest)'
        BY <1>1, <1>2, <1>4, <1>8, EndKey
  <2>. QED  BY <1>8, <2>1 DEF Whole
<1>9. CASE stage = "final" /\ k # "Delete"
  <2>1. /\ b \in DOMAIN Arrows /\ Special(Arrows[b]) = Special(k) /\ given = <<>> /\ Tail(remains) = <<>>
        /\ k \in {"ArrowUp", "ArrowLeft"}
    <3>1. given = <<>> /\ ((k = "ArrowUp" /\ remains = <<"A">>) \/ (k = "ArrowLeft" /\ remains = <<"D">>))
          BY <1>1, <1>9 DEF Underway
    <3>2. Tail(remains) = <<>> /\ ((k = "ArrowUp" /\ b = "A") \/ (k = "ArrowLeft" /\ b = "D"))
          BY <1>4, <3>1, TailTable
    <3>. QED  BY <3>1, <3>2 DEF Arrows
  <2>2. Answer[k] = <<Special(k)>> /\ Answer[k] \in Seq(Event) /\ given \o Answer[k] = Answer[k]
        BY <2>1, AnswerTable, ConcatEmptySeq
  <2>3. Special(k) \in Event
        BY <2>1, EventTypes
  <2>4. stage' = "idle" /\ events' = events \o Answer[k]
        BY <1>5, <1>9, <2>1, <2>2, <2>3, AppendIsConcat DEF TypeOK
  <2>. QED  BY <1>8, <2>1, <2>2, <2>4
<1>10. CASE stage = "first"
  <2>1. b = "~" /\ k = "Delete" /\ given = <<Special("Escape")>> /\ Tail(remains) = <<>>
        BY <1>1, <1>4, <1>10, TailTable DEF Underway
  <2>2. Typed("~") \in Event /\ <<Typed("~")>> \in Seq(Event)
        BY EventTypes DEF Byte
  <2>3. given \o <<Typed("~")>> = Answer[k]
        BY <2>1, AnswerTable
  <2>4. stage' = "idle" /\ events' = events \o <<Typed("~")>>
        BY <1>5, <1>10, <2>1, <2>2, AppendIsConcat DEF TypeOK
  <2>. QED  BY <1>8, <2>1, <2>2, <2>3, <2>4
<1>. QED  BY <1>2, <1>6, <1>7, <1>9, <1>10 DEF TypeOK

\* A wait that ends without a byte, for whatever reason, finds either no key at all or
\* Esc alone.
LEMMA WaitEnds ==
    ASSUME TypeOK, Whole \/ Part, pending = <<>>, stage # "idle", stage' = "idle",
           pending' = pending, typed' = typed,
           stage # "first" => events' = Append(events, Special("Escape"))
    PROVE  \/ stage # "first" /\ Whole'
           \/ stage = "first" /\ \E done \in Seq(Keys) : Between(done, <<>>)
<1>1. <<>> \in Seq(Keys)
      BY EmptySeq
<1>2. CASE Whole
  <2>1. PICK done, rest \in Seq(Keys) : Between(done, rest)
        BY <1>2 DEF Whole
  <2>2. rest = <<>>
        BY <2>1, BytesWait DEF Between
  <2>. QED  BY <1>2, <2>1, <2>2 DEF Whole
<1>3. CASE Part
  <2>1. PICK done, rest \in Seq(Keys), k \in Keys, remains \in Seq(Byte), given \in Seq(Event) :
            Within(done, k, rest, remains, given) /\ Underway(stage, k, remains, given)
        BY <1>3 DEF Part
  <2>2. remains = <<>> /\ BytesOf(rest) = <<>>
    <3>1. remains \o BytesOf(rest) = <<>> /\ BytesOf(rest) \in Seq(Byte)
          BY <2>1, KeysTypes DEF Within
    <3>. QED  BY <3>1, ConcatEqualIffEmpty
  <2>3. k = "Escape" /\ given = <<>> /\ stage = "second" /\ pending' = BytesOf(rest)
    <3>1. <<"[", "A">> # <<>> /\ <<"O", "D">> # <<>> /\ <<"[", "3", "~">> # <<>> /\ <<"A">> # <<>>
          /\ <<"D">> # <<>> /\ <<"3", "~">> # <<>> /\ <<"~">> # <<>>
          OBVIOUS
    <3>. QED  BY <2>1, <2>2, <3>1 DEF Underway
  <2>4. Answer[k] = <<Special("Escape")>> /\ Answer[k] \in Seq(Event) /\ given \o Answer[k] = Answer[k]
        BY <2>3, AnswerTable, ConcatEmptySeq
  <2>5. events' = events \o Answer[k]
        BY <2>3, <2>4, EventTypes, AppendIsConcat DEF TypeOK
  <2>6. Append(done, k) \in Seq(Keys) /\ Between(Append(done, k), rest)'
        BY <2>1, <2>3, <2>4, <2>5, EndKey
  <2>. QED  BY <2>3, <2>6 DEF Whole
<1>. QED  BY <1>2, <1>3

LEMMA KeyStep == InputInv /\ KeyInv /\ [Next]_vars => KeyInv'
<1> SUFFICES ASSUME TypeOK, KeyInv, [Next]_vars, together', device' # "broken"
             PROVE  wire' = <<>> /\ (Whole' \/ Part' \/ Finished')
    BY DEF KeyInv, InputInv
<1>0. together /\ device # "broken"
      BY DEF vars, Next, Reader, World, Call, ReadByte, TimeOut, ReadError, ReadEof, Elapse,
                  Press, Arrive, Fail, Refill, Interrupt
<1>1. wire = <<>> /\ (Whole \/ Part \/ Finished)
      BY <1>0 DEF KeyInv
\* Steps that leave the keys alone.
<1>2. ASSUME UNCHANGED <<pending, wire, typed, events>>,
             stage' = stage \/ (stage \in {"idle", "first"} /\ stage' \in {"idle", "first"}),
             Finished => UNCHANGED <<device, stage>>
      PROVE  wire' = <<>> /\ (Whole' \/ Part' \/ Finished')
  <2>1. CASE Whole
    <3>1. \A done, rest : Between(done, rest) => Between(done, rest)'
          BY <1>2 DEF Between, EscapeLast, EventsOf, BytesOf
    <3>. QED  BY <1>1, <1>2, <2>1, <3>1 DEF Whole
  <2>2. CASE Part
    <3>1. PICK done, rest \in Seq(Keys), k \in Keys, remains \in Seq(Byte), given \in Seq(Event) :
              Within(done, k, rest, remains, given) /\ Underway(stage, k, remains, given)
          BY <2>2 DEF Part
    <3>2. Within(done, k, rest, remains, given)'
          BY <1>2, <3>1 DEF Within, EscapeLast, EventsOf, BytesOf
    <3>3. Underway(stage', k, remains, given)
          BY <1>2, <3>1 DEF Underway
    <3>. QED  BY <1>1, <1>2, <3>2, <3>3 DEF Part, Underway
  <2>3. CASE Finished
        BY <1>1, <1>2, <2>3 DEF Finished, EventsOf, Empty
  <2>. QED  BY <1>1, <2>1, <2>2, <2>3
<1>3. Finished => Ended
  <2>1. ASSUME Finished PROVE Ended
    <3>1. events # <<>> /\ events[Len(events)] = Special("Eof")
      <4>1. EventsOf(typed) \in Seq(Event) /\ Special("Eof") \in Event
            BY KeysTypes, EventTypes DEF TypeOK
      <4>. QED  BY <2>1, <4>1, AppendProperties DEF Finished
    <3>. QED  BY <3>1 DEF Ended, Last, Special
  <2>. QED  BY <2>1
<1>4. CASE Call
      BY <1>2, <1>3, <1>4 DEF Call, Await
<1>5. CASE ReadByte
  <2>1. ~ Finished /\ wire' = <<>>
        BY <1>1, <1>5 DEF ReadByte, Finished
  <2>. QED  BY <1>1, <1>5, <2>1, ReadWhole, ReadPart
<1>6. CASE TimeOut \/ Interrupt
  <2>1. /\ stage # "idle" /\ NoByte /\ pending = <<>> /\ UNCHANGED <<pending, wire, typed, device>>
        BY <1>6 DEF TimeOut, Interrupt, Readable
  <2>2. /\ ~ Finished /\ stage' = "idle"
        /\ stage = "first" => events' = events
        /\ stage # "first" => events' = Append(events, Special("Escape"))
        BY <2>1, NoByteType DEF Finished
  <2>3. CASE stage = "first"
        BY <1>2, <2>1, <2>2, <2>3
  <2>4. CASE stage # "first"
        BY <1>1, <2>1, <2>2, <2>4, WaitEnds
  <2>. QED  BY <2>3, <2>4
<1>7. CASE ReadEof
  <2>1. /\ stage # "idle" /\ EndOfInput /\ pending = <<>> /\ Empty
        /\ UNCHANGED <<pending, wire, typed, device>>
        BY <1>7 DEF ReadEof
  <2>2. /\ ~ Finished /\ stage' = "idle"
        /\ stage = "first" => events' = Append(events, Special("Eof"))
        /\ stage # "first" => events' = Append(events, Special("Escape"))
        BY <2>1, EndOfInputType DEF Finished
  <2>3. CASE stage = "first"
    <3>1. PICK done \in Seq(Keys) : Between(done, <<>>)
          BY <1>1, <2>1, <2>2, <2>3, WaitEnds
    <3>2. typed = done /\ events = EventsOf(typed)
          BY <3>1, ConcatEmptySeq DEF Between
    <3>. QED  BY <1>1, <2>1, <2>2, <2>3, <3>2 DEF Finished, EventsOf, Empty
  <2>4. CASE stage # "first"
        BY <1>1, <2>1, <2>2, <2>4, WaitEnds
  <2>. QED  BY <2>3, <2>4
<1>8. ASSUME NEW k \in Keys, Press(k) PROVE wire' = <<>> /\ (Whole' \/ Part' \/ Finished')
  <2>1. ~ Finished
        BY <1>8 DEF Press, Finished, Empty
  <2>. QED  BY <1>0, <1>1, <1>8, <2>1, PressWhole, PressPart
<1>9. CASE Elapse \/ Refill \/ \E f \in Faults : Fail(f)
      BY <1>2, <1>3, <1>9 DEF Elapse, Fail, Refill, Finished, Empty, caller
<1>10. ~ Arrive /\ ~ ReadError
      BY <1>0, <1>1 DEF Arrive, ReadError
<1>11. CASE UNCHANGED vars
      BY <1>2, <1>11 DEF vars
<1>. QED  BY <1>4, <1>5, <1>6, <1>7, <1>8, <1>9, <1>10, <1>11 DEF Next, Reader, World

\* For every set of the keys, any number of them typed ahead, and any interruption of the
\* waits: each key gives its event, once and in order, none is lost when the device is
\* closed behind it, and when all bytes are read all events are there
\* (terminal_posix.cpp readEvent, decodeEscape, readByte).
THEOREM KeysBecomeEvents == Spec => []EventsAreKeys
<1>1. InputInv /\ KeyInv => EventsAreKeys
  <2> SUFFICES ASSUME TypeOK, KeyInv, together, device # "broken"
               PROVE  LET expected == FlattenSeq([i \in DOMAIN typed |-> KeyEvent(typed[i])])
                          atEnd    == Empty /\ Ended /\ IsPrefix(events, Append(expected, Special("Eof")))
                      IN  /\ IsPrefix(events, expected) \/ atEnd
                          /\ stage = "idle" /\ pending = <<>> => events = expected \/ atEnd
      BY DEF EventsAreKeys, InputInv
  <2> DEFINE expected == FlattenSeq([i \in DOMAIN typed |-> KeyEvent(typed[i])])
  <2>1. expected = EventsOf(typed)
    <3>1. \A i \in DOMAIN typed : typed[i] \in Keys
          BY DEF TypeOK
    <3>2. Mapped(Answer, typed) = [i \in DOMAIN typed |-> KeyEvent(typed[i])]
          BY <3>1 DEF Mapped, Answer
    <3>. QED  BY <3>2 DEF EventsOf, FlatMap
  <2> HIDE DEF expected
  <2>2. CASE Whole
    <3>1. PICK done, rest \in Seq(Keys) : Between(done, rest)
          BY <2>2 DEF Whole
    <3>2. expected = EventsOf(done) \o EventsOf(rest)
          BY <2>1, <3>1, EventsConcat DEF Between
    <3>3. IsPrefix(events, expected)
          BY <3>1, <3>2, KeysTypes, PrefixOfConcat DEF Between
    <3>4. ASSUME pending = <<>> PROVE events = expected
      <4>1. rest = <<>>
            BY <3>1, <3>4, BytesWait DEF Between
      <4>2. typed = done
            BY <3>1, <4>1, ConcatEmptySeq DEF Between
      <4>. QED  BY <2>1, <3>1, <4>2 DEF Between
    <3>. QED  BY <3>3, <3>4 DEF expected
  <2>3. CASE Part
    <3>1. PICK done, rest \in Seq(Keys), k \in Keys, remains \in Seq(Byte), given \in Seq(Event) :
              Within(done, k, rest, remains, given) /\ Underway(stage, k, remains, given)
          BY <2>3 DEF Part
    <3>2. EventsOf(done) \in Seq(Event) /\ EventsOf(rest) \in Seq(Event) /\ Answer[k] \in Seq(Event)
          BY KeysTypes, AnswerTable
    <3>3. expected = EventsOf(done) \o (Answer[k] \o EventsOf(rest))
      <4>1. <<k>> \in Seq(Keys) /\ <<k>> \o rest \in Seq(Keys)
            BY ConcatProperties
      <4>2. EventsOf(<<k>> \o rest) = Answer[k] \o EventsOf(rest)
        <5>1. EventsOf(<<k>>) = Answer[k]
              BY AnswerType, FlatMapOne DEF EventsOf
        <5>. QED  BY <4>1, <5>1, EventsConcat
      <4>3. EventsOf(done \o (<<k>> \o rest)) = EventsOf(done) \o EventsOf(<<k>> \o rest)
            BY <4>1, EventsConcat
      <4>. QED  BY <2>1, <3>1, <4>2, <4>3 DEF Within
    <3>4. PICK more \in Seq(Event) : Answer[k] = given \o more
      <4>1. CASE given = <<>>
            BY <3>2, <4>1, ConcatEmptySeq
      <4>2. CASE given # <<>>
        <5>1. k = "Delete" /\ given = <<Special("Escape")>>
              BY <3>1, <4>2 DEF Underway
        <5>2. Typed("~") \in Event /\ <<Typed("~")>> \in Seq(Event)
              BY EventTypes DEF Byte
        <5>3. Answer[k] = given \o <<Typed("~")>>
              BY <5>1, AnswerTable
        <5>. QED  BY <5>2, <5>3
      <4>. QED  BY <4>1, <4>2
    <3>5. expected = events \o (more \o EventsOf(rest)) /\ more \o EventsOf(rest) \in Seq(Event)
      <4>1. (given \o more) \o EventsOf(rest) = given \o (more \o EventsOf(rest))
            BY <3>2, EventsAssociative
      <4>2. more \o EventsOf(rest) \in Seq(Event)
            BY <3>2, ConcatProperties
      <4>3. (EventsOf(done) \o given) \o (more \o EventsOf(rest)) = EventsOf(done) \o (given \o (more \o EventsOf(rest)))
            BY <3>2, <4>2, EventsAssociative, ZenonT(30)
      <4>. QED  BY <3>1, <3>3, <3>4, <4>1, <4>2, <4>3 DEF Within
    <3>6. IsPrefix(events, expected)
          BY <3>5, PrefixOfConcat DEF TypeOK
    <3>7. stage = "idle" => pending # <<>>
      <4>1. stage = "idle" => remains = <<"~">>
            BY <3>1 DEF Underway
      <4>2. BytesOf(rest) \in Seq(Byte) /\ pending = remains \o BytesOf(rest)
            BY <3>1, KeysTypes DEF Within
      <4>3. remains # <<>> => pending # <<>>
            BY <4>2, ConcatEqualIffEmpty
      <4>4. <<"~">> # <<>>
            OBVIOUS
      <4>. QED  BY <4>1, <4>3, <4>4
    <3>. QED  BY <3>6, <3>7 DEF expected
  <2>4. CASE Finished
    <3>1. expected \in Seq(Event) /\ Special("Eof") \in Event
          BY <2>1, KeysTypes, EventTypes DEF TypeOK
    <3>2. events = Append(expected, Special("Eof")) /\ events \in Seq(Event)
          BY <2>1, <2>4 DEF Finished, TypeOK
    <3>3. events # <<>> /\ Last(events) = Special("Eof")
          BY <3>1, <3>2, AppendProperties DEF Last
    <3>4. Ended
          BY <3>3 DEF Ended, Special
    <3>5. IsPrefix(events, events)
          BY <3>2 DEF IsPrefix
    <3>. QED  BY <2>4, <3>2, <3>4, <3>5 DEF Finished, expected
  <2>. QED  BY <2>2, <2>3, <2>4 DEF KeyInv
<1>. QED  BY <1>1, KeyInit, KeyStep, InputTypeCorrect, PTL DEF Spec

=============================================================================
