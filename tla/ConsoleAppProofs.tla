------------------------- MODULE ConsoleAppProofs --------------------------
(***************************************************************************)
(* The interactive program, for every set of clients, keys, sizes and      *)
(* typed lines, every refresh and polling period, and a console that may   *)
(* or may not refuse bytes: the safety properties of Scheduler; ConsoleApp *)
(* is a legal user of it, with a safe exit protocol; and both implement    *)
(* Display.                                                                *)
(***************************************************************************)
EXTENDS ConsoleApp, InterpreterProofs

----------------------------------------------------------------------------
(***************************************************************************)
(* Scheduler.                                                              *)
(***************************************************************************)

\* A frame is in the worker's hands exactly while it writes.
FrameWhileWriting == wpc = "write" <=> frame # NoFrame

\* The worker builds frames for the size it has read.
SizeWasRead == wpc = "tick" => size \in Sizes

\* The worker never saw a wake-up that has yet to be requested.
SeenIsPast == seen <= wakeTick

LEMMA FrameKinds ==
    /\ NoFrame \notin Frames /\ TornFrame \notin Frames
    /\ NoFrame # TornFrame
BY DEF NoFrame, TornFrame, Frames

LEMMA BuildFrameType ==
    ASSUME NEW a \in App, NEW position \in 0 .. CyclesMod - 1, NEW sz \in Sizes
    PROVE  BuildFrame(a, position, sz) \in Frames
BY SizesAssumption DEF BuildFrame, Frames, App

LEMMA NextCycleType ==
    ASSUME NEW n \in 0 .. CyclesMod - 1
    PROVE  NextCycle(n) \in 0 .. CyclesMod - 1
BY BoundsAssumption DEF NextCycle

\* The timed wait is positive and bounded, and ends at the deadline if that is ahead.
LEMMA PollTimeoutBounds ==
    ASSUME app.refreshMs \in RefreshMin .. RefreshMax, sinceRender \in 0 .. AgeMax
    PROVE  /\ PollTimeoutMs \in PollMin .. PollMax
           /\ Running /\ UntilDeadline > 0 => PollTimeoutMs <= UntilDeadline
BY PollingAssumption, BoundsAssumption, RangesAssumption
   DEF PollTimeoutMs, ClampWait, UntilDeadline, PollMin

LEMMA InitialAppType == InitialApp \in App
<1>1. <<>> \in Seq(Printable)
      BY EmptySeq
<1>2. "CSOPESY" \in Printable
      BY DEF Printable
<1>3. DefaultText \in Seq(Printable)
      BY <1>2 DEF DefaultText
<1>. QED  BY <1>1, <1>3, RangesAssumption DEF InitialApp, App, Messages, ProcessState

----------------------------------------------------------------------------
\* Type correctness.  By itself TypeOK is not inductive: a worker that were started
\* while another one writes would leave a write without a frame, so it needs to be
\* known which worker exists and what it holds.

TypeInv == TypeOK /\ FrameWhileWriting /\ SizeWasRead /\ SeenIsPast /\ JoinedMeansSilent

LEMMA TypeInit == Init => TypeInv
<1> SUFFICES ASSUME Init PROVE TypeInv
    OBVIOUS
<1>1. app \in App /\ app = InitialApp
      BY InitialAppType DEF Init
<1>2. AgeMax \in 0 .. AgeMax /\ 0 \in 0 .. CyclesMod - 1 /\ 0 \in 0 .. MaxWakes /\ 0 \in 0 .. PollMax
      BY BoundsAssumption, PollingAssumption
<1>3. cpc \in [Clients -> ClientStates]
      BY DEF Init, ClientStates
<1>4. SeenIsPast
      BY DEF Init, SeenIsPast
<1>. QED  BY <1>1, <1>2, <1>3, <1>4 DEF Init, TypeInv, TypeOK, FrameWhileWriting, SizeWasRead, JoinedMeansSilent, WorkerStates

LEMMA TypeStep == TypeInv /\ [Next]_vars => TypeInv'
<1> SUFFICES ASSUME TypeInv, [Next]_vars PROVE TypeInv'
    OBVIOUS
<1> USE DEF TypeInv, TypeOK, FrameWhileWriting, SizeWasRead, SeenIsPast, JoinedMeansSilent, ClientStates, WorkerStates, shared, thread, console
<1>1. ASSUME NEW c \in Clients, NEW ev \in Keys, PostEvent(c, ev)
      PROVE  TypeInv'
  <2>1. app' \in App
        BY <1>1, FeedType, KeysAssumption DEF PostEvent
  <2>. QED  BY <1>1, <2>1 DEF PostEvent
<1>2. ASSUME NEW c \in Clients, Wake(c)
      PROVE  TypeInv'
  <2>1. wakeTick' \in 0 .. MaxWakes
        BY <1>2, BoundsAssumption DEF Wake
  <2>. QED  BY <1>2, <2>1 DEF Wake
<1>3. ASSUME NEW c \in Clients, RequestStop(c)
      PROVE  TypeInv'
      BY <1>3 DEF RequestStop
<1>4. ASSUME NEW c \in Clients, Notify(c)
      PROVE  TypeInv'
      BY <1>4 DEF Notify
<1>5. CASE Start
      BY <1>5 DEF Start
<1>6. CASE JoinBegin
      BY <1>6 DEF JoinBegin
<1>7. CASE JoinEnd
      BY <1>7 DEF JoinEnd
<1>8. CASE FirstFrame
  <2>1. screen' \in Frames \cup {TornFrame} /\ lost' \in BOOLEAN
        BY <1>8, BuildFrameType DEF FirstFrame
  <2>. QED  BY <1>8, <2>1 DEF FirstFrame
<1>9. CASE Top
  <2>1. PollTimeoutMs \in 0 .. PollMax
        BY PollTimeoutBounds DEF PollMin, App
  <2>2. seen' <= wakeTick'
        BY <1>9, BoundsAssumption DEF Top
  <2>. QED  BY <1>9, <2>1, <2>2 DEF Top
<1>10. CASE LeaveWait
  <2>1. remaining' \in 0 .. PollMax
        BY <1>10, PollingAssumption DEF LeaveWait
  <2>. QED  BY <1>10, <2>1 DEF LeaveWait
<1>11. CASE ReadSize
      BY <1>11 DEF ReadSize
<1>12. CASE Tick
  <2>1. frame' \in Frames \cup {NoFrame}
        BY <1>12, BuildFrameType DEF Tick, NeedsFrame, ConsumeRedraw, CountFrame
  <2>2. cycles' \in 0 .. CyclesMod - 1
        BY <1>12, NextCycleType DEF Tick, NeedsFrame, ConsumeRedraw, CountFrame
  <2>3. app' \in App
        BY <1>12, ZenonT(30) DEF Tick, App, NeedsFrame, ConsumeRedraw, CountFrame
  <2>4. sinceRender' \in 0 .. AgeMax
        BY <1>12, BoundsAssumption DEF Tick, NeedsFrame, ConsumeRedraw, CountFrame
  <2>. QED  BY <1>12, <2>1, <2>2, <2>3, <2>4 DEF Tick, NeedsFrame, ConsumeRedraw, CountFrame
<1>13. CASE WriteFrame
      BY <1>13, FrameKinds DEF WriteFrame
<1>14. CASE Resize
      BY <1>14 DEF Resize
<1>15. CASE Elapse
  <2>1. sinceRender' \in 0 .. AgeMax /\ remaining' \in 0 .. PollMax
        BY <1>15, BoundsAssumption, PollingAssumption DEF Elapse
  <2>. QED  BY <1>15, <2>1 DEF Elapse
<1>16. CASE UNCHANGED vars
      BY <1>16 DEF vars
<1>. QED  BY <1>1, <1>2, <1>3, <1>4, <1>5, <1>6, <1>7, <1>8, <1>9, <1>10, <1>11, <1>12, <1>13,
             <1>14, <1>15, <1>16
          DEF Next, Client, OwnerStep, Worker, WakeUp, SpuriousWakeUp

\* Every variable of the scheduler keeps its type, and the worker holds a frame
\* exactly while it writes one (scheduler.cpp, all of its state).
THEOREM TypeCorrect == Spec => []TypeOK
<1>1. TypeInv => TypeOK
      BY DEF TypeInv
<1>. QED  BY <1>1, TypeInit, TypeStep, PTL DEF Spec

LEMMA TypeInvariant == Spec => []TypeInv
BY TypeInit, TypeStep, PTL DEF Spec


\* After join() returned no worker runs and no frame is on its way to the terminal
\* (scheduler.cpp, start and join).
THEOREM JoinSilencesWorker == Spec => []JoinedMeansSilent
<1>1. TypeInv => JoinedMeansSilent
      BY DEF TypeInv
<1>. QED  BY <1>1, TypeInvariant, PTL

----------------------------------------------------------------------------
\* No lost wake-up.

\* Most steps do not touch what the sleep of the worker depends on.
LEMMA WakeupStep == TypeInv /\ NoLostWakeup /\ [Next]_vars => NoLostWakeup'
<1> SUFFICES ASSUME TypeInv, NoLostWakeup, [Next]_vars PROVE NoLostWakeup'
    OBVIOUS
<1> USE DEF NoLostWakeup, HasWork, shared, thread, console
<1>0. cpc \in [Clients -> ClientStates] /\ Owner \in Clients
      BY ClientsAssumption DEF TypeInv, TypeOK
<1>1. ASSUME NEW c \in Clients, \/ Wake(c) \/ RequestStop(c) \/ \E ev \in Keys : PostEvent(c, ev)
      PROVE  NoLostWakeup'
  <2>1. cpc'[c] = "notify"
        BY <1>0, <1>1 DEF Wake, RequestStop, PostEvent
  <2>. QED  BY <2>1
<1>2. ASSUME NEW c \in Clients, Notify(c)
      PROVE  NoLostWakeup'
      BY <1>2 DEF Notify
<1>3. CASE JoinBegin \/ JoinEnd
  <2>1. \A c \in Clients : cpc[c] = "notify" => cpc'[c] = "notify"
        BY <1>0, <1>3 DEF JoinBegin, JoinEnd
  <2>. QED  BY <1>3, <2>1 DEF JoinBegin, JoinEnd
<1>4. CASE Start \/ FirstFrame
      BY <1>4 DEF Start, FirstFrame
<1>5. CASE Top
      BY <1>5 DEF Top
<1>6. CASE LeaveWait
      BY <1>6 DEF LeaveWait
<1>7. CASE ReadSize \/ Tick \/ WriteFrame
      BY <1>7 DEF ReadSize, Tick, WriteFrame
<1>8. CASE Resize \/ Elapse \/ UNCHANGED vars
      BY <1>8 DEF Resize, Elapse, vars
<1>. QED  BY <1>1, <1>2, <1>3, <1>4, <1>5, <1>6, <1>7, <1>8
          DEF Next, Client, OwnerStep, Worker, WakeUp, SpuriousWakeUp

\* A worker that sleeps although there is work has been notified or is about to be:
\* for any number of clients, postEvent, wake and requestStop never lose a wake-up
\* against the predicate wait of run().
THEOREM NoWakeupIsLost == Spec => []NoLostWakeup
<1>1. Init => NoLostWakeup
      BY DEF Init, NoLostWakeup
<1>. QED  BY <1>1, WakeupStep, TypeInvariant, PTL DEF Spec

----------------------------------------------------------------------------
\* The first frame of a started process.

LEMMA FreshStartStep == TypeInv /\ FreshStartOwesFrame /\ [Next]_vars => FreshStartOwesFrame'
<1> SUFFICES ASSUME TypeInv, FreshStartOwesFrame, [Next]_vars PROVE FreshStartOwesFrame'
    OBVIOUS
<1> USE DEF FreshStartOwesFrame, Running, shared, thread, console
<1>1. ASSUME NEW c \in Clients, NEW ev \in Keys, PostEvent(c, ev)
      PROVE  FreshStartOwesFrame'
      BY <1>1 DEF PostEvent
<1>2. ASSUME NEW c \in Clients, Wake(c) \/ RequestStop(c) \/ Notify(c)
      PROVE  FreshStartOwesFrame'
      BY <1>2 DEF Wake, RequestStop, Notify
<1>3. CASE OwnerStep
      BY <1>3 DEF OwnerStep, Start, JoinBegin, JoinEnd, FirstFrame
<1>4. CASE Tick
  <2>1. CASE Due
    <3>1. app'.hasRendered
          BY <1>4, <2>1 DEF Tick, TypeInv, TypeOK, App
    <3>. QED  BY <3>1
  <2>2. CASE ~ Due
        BY <1>4, <2>2 DEF Tick, Due, NeedsFrame, ConsumeRedraw, CountFrame
  <2>. QED  BY <2>1, <2>2
<1>5. CASE Top \/ LeaveWait \/ ReadSize \/ WriteFrame
      BY <1>5 DEF Top, LeaveWait, ReadSize, WriteFrame
<1>6. CASE Resize \/ Elapse \/ UNCHANGED vars
      BY <1>6 DEF Resize, Elapse, vars
<1>. QED  BY <1>1, <1>2, <1>3, <1>4, <1>5, <1>6
          DEF Next, Client, Worker, WakeUp, SpuriousWakeUp

\* A running process that has not rendered is covered by dirty_, so its first frame
\* does not wait for a timeout (process.cpp start, scheduler.cpp postEvent and tick).
THEOREM StartPaintsAtOnce == Spec => []FreshStartOwesFrame
<1>1. Init => FreshStartOwesFrame
      BY DEF Init, FreshStartOwesFrame, Running, InitialApp
<1>. QED  BY <1>1, FreshStartStep, TypeInvariant, PTL DEF Spec

----------------------------------------------------------------------------
\* The timed wait.

LEMMA DeadlineStep == TypeInv /\ SleepEndsByDeadline /\ [Next]_vars => SleepEndsByDeadline'
<1> SUFFICES ASSUME TypeInv, SleepEndsByDeadline, [Next]_vars PROVE SleepEndsByDeadline'
    OBVIOUS
<1> USE DEF SleepEndsByDeadline, Running, UntilDeadline, HasWork, shared, thread, console
<1>0. /\ app \in App /\ app.refreshMs \in RefreshMin .. RefreshMax /\ app.refreshMs \in Int
      /\ sinceRender \in 0 .. AgeMax /\ remaining \in 0 .. PollMax
      BY RangesAssumption DEF TypeInv, TypeOK, App
<1>1. ASSUME NEW c \in Clients, NEW ev \in Keys, PostEvent(c, ev)
      PROVE  SleepEndsByDeadline'
      BY <1>1 DEF PostEvent
<1>2. ASSUME NEW c \in Clients, Wake(c) \/ RequestStop(c) \/ Notify(c)
      PROVE  SleepEndsByDeadline'
  <2>1. HasWork => HasWork'
        BY <1>2 DEF Wake, RequestStop, Notify, TypeInv, TypeOK, SeenIsPast
  <2>. QED  BY <1>2, <2>1 DEF Wake, RequestStop, Notify
<1>3. CASE OwnerStep
      BY <1>3 DEF OwnerStep, Start, JoinBegin, JoinEnd, FirstFrame
<1>4. CASE Top
      BY <1>0, <1>4, PollTimeoutBounds DEF Top
<1>5. CASE LeaveWait
      BY <1>5 DEF LeaveWait
<1>6. CASE ReadSize \/ Tick \/ WriteFrame
      BY <1>6 DEF ReadSize, Tick, WriteFrame
<1>7. CASE Elapse
      BY <1>0, <1>7, BoundsAssumption DEF Elapse
<1>8. CASE Resize \/ UNCHANGED vars
      BY <1>8 DEF Resize, vars
<1>. QED  BY <1>1, <1>2, <1>3, <1>4, <1>5, <1>6, <1>7, <1>8
          DEF Next, Client, Worker, WakeUp, SpuriousWakeUp

\* A sleeping worker without work wakes no later than a deadline that is still
\* ahead, through changes of the period and spurious wake-ups (scheduler.cpp
\* pollTimeoutMsLocked and the wait of run).
THEOREM DeadlineIsNotOverslept == Spec => []SleepEndsByDeadline
<1>1. Init => SleepEndsByDeadline
      BY DEF Init, SleepEndsByDeadline
<1>. QED  BY <1>1, DeadlineStep, TypeInvariant, PTL DEF Spec

----------------------------------------------------------------------------
\* What the terminal shows.

\* The frame in the worker's hands is built from the state the interpreter still
\* has, unless a key came in since; so is the frame on the screen when no frame is
\* in its hands and none was lost.
Matches(f) ==
    /\ f.line = app.line
    /\ f.message = app.message
    /\ f.text = app.text

ShowsNow(f) == cycles \in {f.position, NextCycle(f.position)}

EchoInv ==
    /\ wpc = "write" => ShowsNow(frame) /\ (~ dirty => Matches(frame))
    /\ wpc # "write" /\ ~ lost => ShowsNow(screen) /\ (~ dirty => Matches(screen))
    /\ wpc = "write" /\ ~ lost =>
         frame.position \in {screen.position, NextCycle(screen.position)}

LEMMA BuiltFrame ==
    ASSUME NEW a, NEW position, NEW sz \in Sizes
    PROVE  /\ BuildFrame(a, position, sz) # NoFrame
           /\ BuildFrame(a, position, sz).line = a.line
           /\ BuildFrame(a, position, sz).message = a.message
           /\ BuildFrame(a, position, sz).text = a.text
           /\ BuildFrame(a, position, sz).position = position
BY SizesAssumption DEF BuildFrame, NoFrame

LEMMA EchoStep == TypeInv /\ EchoInv /\ [Next]_vars => EchoInv'
<1> SUFFICES ASSUME TypeInv, EchoInv, [Next]_vars PROVE EchoInv'
    OBVIOUS
<1> USE DEF EchoInv, Matches, ShowsNow, shared, thread, console
<1>1. ASSUME NEW c \in Clients, NEW ev \in Keys, PostEvent(c, ev)
      PROVE  EchoInv'
      BY <1>1 DEF PostEvent
<1>2. ASSUME NEW c \in Clients, Wake(c) \/ RequestStop(c) \/ Notify(c)
      PROVE  EchoInv'
      BY <1>2 DEF Wake, RequestStop, Notify
<1>3. CASE Start \/ JoinBegin \/ JoinEnd
      BY <1>3 DEF Start, JoinBegin, JoinEnd, TypeInv, JoinedMeansSilent
<1>4. CASE FirstFrame
      BY <1>4, BuiltFrame DEF FirstFrame, TypeInv, TypeOK
<1>5. CASE Tick
  <2> DEFINE built == BuildFrame(app, cycles, size)
  <2>1. CASE NeedsFrame
    <3>1. wpc # "write" /\ size \in Sizes
          BY <1>5 DEF Tick, TypeInv, SizeWasRead
    <3>2. /\ built # NoFrame
          /\ built.line = app.line /\ built.message = app.message
          /\ built.text = app.text /\ built.position = cycles
          BY <3>1, BuiltFrame
    <3>3. frame' = built
          BY <1>5, <2>1 DEF Tick
    <3>4. wpc' = "write" /\ screen' = screen /\ lost' = lost
          BY <1>5, <3>2, <3>3 DEF Tick
    <3>5. cycles' \in {cycles, NextCycle(cycles)}
          BY <1>5 DEF Tick, CountFrame
    <3>6. app'.line = app.line /\ app'.message = app.message /\ app'.text = app.text
          BY <1>5 DEF Tick, TypeInv, TypeOK, App
    <3> HIDE DEF built
    <3>. QED  BY <3>1, <3>2, <3>3, <3>4, <3>5, <3>6
  <2>2. CASE ~ NeedsFrame
        BY <1>5, <2>2 DEF Tick, NeedsFrame, ConsumeRedraw, CountFrame
  <2>. QED  BY <2>1, <2>2
<1>6. CASE WriteFrame
      BY <1>6 DEF WriteFrame
<1>7. CASE Top \/ LeaveWait \/ ReadSize
      BY <1>7 DEF Top, LeaveWait, ReadSize
<1>8. CASE Resize \/ Elapse \/ UNCHANGED vars
      BY <1>8 DEF Resize, Elapse, vars
<1>. QED  BY <1>1, <1>2, <1>3, <1>4, <1>5, <1>6, <1>7, <1>8
          DEF Next, Client, OwnerStep, Worker, WakeUp, SpuriousWakeUp

LEMMA EchoInvariant == Spec => []EchoInv
<1>1. Init => EchoInv
      BY DEF Init, EchoInv
<1>. QED  BY <1>1, EchoStep, TypeInvariant, PTL DEF Spec

\* While no redraw is owed the terminal shows, or is being sent, what the
\* interpreter holds, unless the last frame was lost (scheduler.cpp postEvent and
\* tick, against a concurrent write).
THEOREM ScreenFollowsInput == Spec => []EchoIsCurrent
<1>1. EchoInv => EchoIsCurrent
      BY DEF EchoInv, EchoIsCurrent, LatestFrame, Matches, ShowsNow
<1>. QED  BY <1>1, EchoInvariant, PTL

\* The band moves one column at a time while every frame arrives: an action
\* property, from the relation between the frame in hand and the one shown.
THEOREM BandMovesByOne == Spec => BandNeverSkips
<1> DEFINE Moves == ~ lost /\ ~ lost' /\ screen' # screen
                      => screen'.position \in {screen.position, NextCycle(screen.position)}
<1>1. TypeInv /\ EchoInv /\ [Next]_vars => [Moves]_vars
  <2> SUFFICES ASSUME TypeInv, EchoInv, Next, screen' # screen, ~ lost, ~ lost'
               PROVE  screen'.position \in {screen.position, NextCycle(screen.position)}
      OBVIOUS
  <2>1. WriteFrame \/ FirstFrame
        BY DEF Next, Client, OwnerStep, Worker, WakeUp, SpuriousWakeUp, PostEvent, Wake, RequestStop,
               Notify, Start, JoinBegin, JoinEnd, Top, LeaveWait, ReadSize, Tick, Resize, Elapse, console
  <2>2. CASE WriteFrame
        BY <2>2 DEF WriteFrame, EchoInv
  <2>3. CASE FirstFrame
        BY <2>3, BuiltFrame DEF FirstFrame, EchoInv, ShowsNow, TypeInv, TypeOK
  <2>. QED  BY <2>1, <2>2, <2>3
<1>. QED  BY <1>1, TypeInvariant, EchoInvariant, PTL DEF Spec, BandNeverSkips

----------------------------------------------------------------------------
(***************************************************************************)
(* ConsoleApp.                                                             *)
(***************************************************************************)

----------------------------------------------------------------------------
\* Refinement.

\* What the main thread is about to post is a key it has read.
EventWasRead == mpc = "post" => event \in Keys

LEMMA EventStep == EventWasRead /\ [AppNext]_appVars => EventWasRead'
<1> SUFFICES ASSUME EventWasRead, [AppNext]_appVars PROVE EventWasRead'
    OBVIOUS
<1>1. CASE \E ev \in Keys : KeyArrives(ev)
      BY <1>1 DEF KeyArrives, EventWasRead
<1>2. CASE UNCHANGED <<mpc, event>>
      BY <1>2 DEF EventWasRead
<1>3. CASE mpc' # "post"
      BY <1>3 DEF EventWasRead
<1>. QED  BY <1>1, <1>2, <1>3
          DEF AppNext, MainStep, Loop, EnterRawMode, DrawFirstFrame, StartWorker, PostKey,
              ReadTimesOut, FinishPosting, CheckQuit, ReadFlag, ClearFlag, StopWorker,
              FinishStopping, BeginJoin, EndJoin, SayGoodbye, Restore, DeliverSignal, Background,
              Exited, Goto, appVars, main

LEMMA EventInvariant == AppSpec => []EventWasRead
<1>1. AppInit => EventWasRead
      BY DEF AppInit, EventWasRead
<1>. QED  BY <1>1, EventStep, PTL DEF AppSpec

LEMMA AppStep == EventWasRead /\ [AppNext]_appVars => [Next]_vars
<1> SUFFICES ASSUME EventWasRead, [AppNext]_appVars PROVE [Next]_vars
    OBVIOUS
<1>0. Owner \in Clients
      BY ClientsAssumption
<1>1. CASE EnterRawMode
      BY <1>1 DEF EnterRawMode
<1>2. CASE DrawFirstFrame
      BY <1>2 DEF DrawFirstFrame, Next, OwnerStep
<1>3. CASE StartWorker
      BY <1>3 DEF StartWorker, Next, OwnerStep
<1>4. ASSUME NEW ev \in Keys, KeyArrives(ev)
      PROVE  [Next]_vars
      BY <1>4 DEF KeyArrives
<1>11. CASE PostKey
      BY <1>0, <1>11 DEF PostKey, Goto, EventWasRead, Next, Client
<1>5. CASE ReadTimesOut \/ CheckQuit \/ ReadFlag \/ ClearFlag \/ SayGoodbye \/ Restore
      BY <1>5 DEF ReadTimesOut, CheckQuit, ReadFlag, ClearFlag, SayGoodbye, Restore
<1>6. CASE FinishPosting \/ FinishStopping
      BY <1>0, <1>6 DEF FinishPosting, FinishStopping, Next, Client
<1>7. CASE StopWorker
      BY <1>0, <1>7 DEF StopWorker, Next, Client
<1>8. CASE BeginJoin \/ EndJoin
      BY <1>8 DEF BeginJoin, EndJoin, Next, OwnerStep
<1>9. CASE DeliverSignal \/ Exited \/ UNCHANGED appVars
      BY <1>9 DEF DeliverSignal, Exited, appVars
<1>10. CASE Background
      BY <1>10 DEF Background, Next
<1>. QED  BY <1>1, <1>2, <1>3, <1>4, <1>5, <1>6, <1>7, <1>8, <1>9, <1>10, <1>11
          DEF AppNext, MainStep, Loop

\* The program drives its Scheduler only through the operations, and in the order,
\* that Scheduler allows: the composition refines it (console_app.cpp run), so every
\* theorem about Spec holds of the whole program.
THEOREM AppRefinesScheduler == AppSpec => Spec
<1>1. AppInit => Init
      BY DEF AppInit
<1>. QED  BY <1>1, AppStep, EventInvariant, PTL DEF AppSpec, Spec

----------------------------------------------------------------------------
\* The exit protocol.

Before == {"enter raw", "first frame", "start"}
After  == {"goodbye", "restore", "exited"}
Leaving == {"stop", "stopping", "join", "joining"}

MainTypeOK ==
    /\ mpc \in MainStates
    /\ event \in Keys \cup {NoEvent}
    /\ signal \in BOOLEAN /\ requested \in BOOLEAN /\ signalled \in BOOLEAN
    /\ raw \in BOOLEAN /\ farewell \in BOOLEAN

MainInv ==
    /\ MainTypeOK
    /\ EventWasRead
    /\ mpc \in Before => wpc = "absent" /\ ~ joinable
    /\ mpc \in After  => wpc = "returned" /\ ~ joinable
    /\ mpc \in {"read", "post", "read flag", "clear flag"} \cup Before => ~ app.quit
    /\ mpc \in Leaving \cup After => app.quit \/ signalled
    /\ signal \/ requested => signalled
    /\ mpc \in {"restore", "exited"} => farewell
    /\ mpc = "exited" => ~ raw

LEMMA MainInit == AppInit => MainInv
<1> SUFFICES ASSUME AppInit PROVE MainInv
    OBVIOUS
<1>1. app.quit = FALSE
      BY DEF AppInit, Init, InitialApp
<1>2. MainTypeOK /\ EventWasRead
      BY DEF AppInit, MainTypeOK, MainStates, EventWasRead
<1>3. wpc = "absent" /\ ~ joinable /\ mpc = "enter raw" /\ ~ signal /\ ~ requested
      BY DEF AppInit, Init
<1>. QED  BY <1>1, <1>2, <1>3 DEF MainInv, Before, After, Leaving

LEMMA QuitUntouched ==
    ASSUME TypeInv, Worker \/ Resize \/ Elapse
    PROVE  [app' EXCEPT !.hasRendered = FALSE] = [app EXCEPT !.hasRendered = FALSE] /\ app'.quit = app.quit
<1>1. CASE Tick
      BY <1>1 DEF Tick, TypeInv, TypeOK, App
<1>2. CASE Top \/ LeaveWait \/ ReadSize \/ WriteFrame \/ Resize \/ Elapse
      BY <1>2 DEF Top, LeaveWait, ReadSize, WriteFrame, Resize, Elapse, shared
<1>. QED  BY <1>1, <1>2 DEF Worker, WakeUp, SpuriousWakeUp

LEMMA MainInvStep == TypeInv /\ MainInv /\ [AppNext]_appVars => MainInv'
<1> SUFFICES ASSUME TypeInv, MainInv, [AppNext]_appVars PROVE MainInv'
    OBVIOUS
<1> USE DEF MainInv, MainTypeOK, EventWasRead, MainStates, Before, After, Leaving, Goto, vars, shared, thread, console
<1>1. CASE EnterRawMode
      BY <1>1 DEF EnterRawMode
<1>2. CASE DrawFirstFrame
      BY <1>2 DEF DrawFirstFrame, FirstFrame
<1>3. CASE StartWorker
      BY <1>3 DEF StartWorker, Start
<1>4. ASSUME NEW ev \in Keys, KeyArrives(ev)
      PROVE  MainInv'
      BY <1>4 DEF KeyArrives
<1>19. CASE PostKey
      BY <1>19 DEF PostKey, PostEvent
<1>5. CASE ReadTimesOut
      BY <1>5 DEF ReadTimesOut
<1>6. CASE CheckQuit
      BY <1>6 DEF CheckQuit
<1>7. CASE ReadFlag
      BY <1>7 DEF ReadFlag
<1>8. CASE ClearFlag
      BY <1>8 DEF ClearFlag
<1>9. CASE SayGoodbye
      BY <1>9 DEF SayGoodbye
<1>10. CASE Restore
      BY <1>10 DEF Restore
<1>11. CASE FinishPosting
      BY <1>11 DEF FinishPosting, Notify
<1>12. CASE FinishStopping
      BY <1>12 DEF FinishStopping, Notify
<1>13. CASE StopWorker
      BY <1>13 DEF StopWorker, RequestStop
<1>14. CASE BeginJoin
      BY <1>14 DEF BeginJoin, JoinBegin
<1>15. CASE EndJoin
      BY <1>15 DEF EndJoin, JoinEnd
<1>16. CASE DeliverSignal
      BY <1>16 DEF DeliverSignal
<1>17. CASE Exited \/ UNCHANGED appVars
  <2>1. /\ app' = app /\ joinable' = joinable /\ wpc' = wpc /\ mpc' = mpc
        /\ event' = event /\ signal' = signal /\ requested' = requested /\ raw' = raw
        /\ farewell' = farewell /\ signalled' = signalled
        BY <1>17 DEF Exited, appVars, main
  <2>. QED  BY <2>1, ZenonT(30)
<1>18. CASE Background
  <2>1. app'.quit = app.quit
        BY <1>18, QuitUntouched DEF Background
  <2>2. joinable' = joinable /\ UNCHANGED main
        BY <1>18 DEF Background, Worker, WakeUp, SpuriousWakeUp, Top, LeaveWait, ReadSize, Tick,
                     WriteFrame, Resize, Elapse
  <2>3. wpc \in {"absent", "returned"} => wpc' = wpc
        BY <1>18 DEF Background, Worker, WakeUp, SpuriousWakeUp, Top, LeaveWait, ReadSize, Tick,
                     WriteFrame, Resize, Elapse
  <2>. QED  BY <2>1, <2>2, <2>3, ZenonT(30) DEF main
<1>. QED  BY <1>1, <1>2, <1>3, <1>4, <1>5, <1>6, <1>7, <1>8, <1>9,
             <1>10, <1>11, <1>12, <1>13, <1>14, <1>15, <1>16, <1>17, <1>18, <1>19
          DEF AppNext, MainStep, Loop

LEMMA MainInvariant == AppSpec => [](TypeInv /\ MainInv)
<1>1. AppSpec => []TypeInv
      BY AppRefinesScheduler, TypeInvariant, PTL
<1>. QED  BY <1>1, MainInit, MainInvStep, PTL DEF AppSpec

\* Every variable of the whole program keeps its type (console_app.cpp run, main.cpp).
THEOREM AppTypeCorrect == AppSpec => []AppTypeOK
<1>1. TypeInv /\ MainInv => AppTypeOK
      BY DEF TypeInv, MainInv, MainTypeOK, EventWasRead, AppTypeOK
<1>. QED  BY <1>1, MainInvariant, PTL

\* The main thread writes to the terminal or changes its mode only while there is
\* no worker (console_app.cpp run, main.cpp TerminalGuard).
THEOREM TerminalHasOneWriter == AppSpec => []OneWriter
<1>1. TypeInv /\ MainInv => OneWriter
      BY DEF TypeInv, MainInv, JoinedMeansSilent, OneWriter, WorkerAlive, Before, After
<1>. QED  BY <1>1, MainInvariant, PTL

\* Whenever the program has exited, the terminal is restored, the farewell written,
\* the worker joined, and somebody asked for it.
THEOREM ExitIsClean == AppSpec => []CleanExit
<1>1. MainInv => CleanExit
      BY DEF MainInv, CleanExit, After, Leaving
<1>. QED  BY <1>1, MainInvariant, PTL

\* No key is executed after a quit request, whatever was typed ahead.
THEOREM QuitEndsInput == AppSpec => NoInputAfterQuit
<1> DEFINE Frozen == app.quit => /\ app'.quit
                                 /\ [app' EXCEPT !.hasRendered = FALSE] = [app EXCEPT !.hasRendered = FALSE]
<1>1. TypeInv /\ MainInv /\ [AppNext]_appVars => [Frozen]_appVars
  <2> SUFFICES ASSUME TypeInv, MainInv, AppNext, app.quit PROVE Frozen
      OBVIOUS
  <2>1. CASE Background
        BY <2>1, QuitUntouched DEF Background
  <2>2. ~ PostKey
        BY DEF PostKey, Goto, MainInv
  <2>3. CASE UNCHANGED app
        BY <2>3
  <2>4. Background \/ PostKey \/ UNCHANGED app
        BY DEF AppNext, MainStep, Loop, EnterRawMode, DrawFirstFrame, StartWorker, KeyArrives,
               ReadTimesOut, FinishPosting, CheckQuit, ReadFlag, ClearFlag, StopWorker, FinishStopping, BeginJoin,
               EndJoin, SayGoodbye, Restore, DeliverSignal, Exited, FirstFrame, Start, Notify,
               RequestStop, JoinBegin, JoinEnd, vars, shared, appVars
  <2>. QED  BY <2>1, <2>2, <2>3, <2>4
<1>. QED  BY <1>1, MainInvariant, PTL DEF AppSpec, NoInputAfterQuit

----------------------------------------------------------------------------
(***************************************************************************)
(* Display.                                                                *)
(***************************************************************************)

\* What is on its way and what is shown, as the mapping of Scheduler has it.
OnItsWay == IF wpc = "write" THEN PictureOf(frame) ELSE D!Nothing
Shown    == IF screen = TornFrame THEN D!Garbled ELSE PictureOf(screen)

LEMMA PictureOfBuilt ==
    ASSUME NEW position, NEW sz \in Sizes
    PROVE  /\ PictureOf(BuildFrame(app, position, sz)) = D!Picture(View, position)
           /\ PictureOf(BuildFrame(app, position, sz)) # D!Nothing
           /\ BuildFrame(app, position, sz) # TornFrame
BY SizesAssumption DEF PictureOf, ViewOf, BuildFrame, D!Picture, D!Nothing, View, TornFrame

LEMMA ViewType == app \in App => View \in [line : Seq(Printable), message : Messages, text : Seq(Printable)]
BY DEF View, App

LEMMA DisplayInit == Init => D!Init
<1> SUFFICES ASSUME Init PROVE D!Init
    OBVIOUS
<1>1. View \in [line : Seq(Printable), message : Messages, text : Seq(Printable)]
      BY InitialAppType, ViewType DEF Init
<1>2. DisplayMode = "closed"
      BY DEF Init, DisplayMode, WorkerAlive
<1>. QED  BY <1>1, <1>2 DEF Init, D!Init, D!Nothing, D!Garbled

\* Steps of the worker towards and away from its next frame, and of the clients that
\* do not touch what is displayed, open or close the display, or nothing.
LEMMA ModeSteps ==
    ASSUME DisplayMode \in {"open", "closing", "closed"},
           View' = View, cycles' = cycles, dirty' = dirty,
           OnItsWay' = OnItsWay, Shown' = Shown,
           \/ DisplayMode' = DisplayMode
           \/ DisplayMode = "closed" /\ DisplayMode' = "open"
           \/ DisplayMode = "open" /\ DisplayMode' \in {"closing", "closed"}
           \/ DisplayMode = "closing" /\ DisplayMode' = "closed"
    PROVE  [D!Next]_(D!displayVars)
BY DEF OnItsWay, Shown, D!Next, D!displayVars, D!Open, D!Close, D!Nothing, D!Garbled

LEMMA DisplayStep == TypeInv /\ [Next]_vars => [D!Next]_(D!displayVars)
<1> SUFFICES ASSUME TypeInv, [Next]_vars PROVE [D!Next]_(D!displayVars)
    OBVIOUS
<1> USE DEF shared, thread, console
<1>0. DisplayMode \in {"open", "closing", "closed"}
      BY DEF DisplayMode
<1>1. ASSUME NEW c \in Clients, NEW ev \in Keys, PostEvent(c, ev)
      PROVE  D!Change
  <2>1. View' \in [line : Seq(Printable), message : Messages, text : Seq(Printable)]
    <3>1. app' \in App
          BY <1>1, FeedType, KeysAssumption DEF PostEvent, TypeInv, TypeOK
    <3>. QED  BY <3>1 DEF View, App
  <2>. QED  BY <1>1, <2>1 DEF PostEvent, D!Change, DisplayMode, WorkerAlive, PictureOf, ViewOf
<1>2. ASSUME NEW c \in Clients, Wake(c) \/ RequestStop(c) \/ Notify(c)
      PROVE  [D!Next]_(D!displayVars)
  <2>1. View' = View /\ cycles' = cycles /\ dirty' = dirty /\ OnItsWay' = OnItsWay /\ Shown' = Shown
        BY <1>2 DEF Wake, RequestStop, Notify, View, OnItsWay, Shown, PictureOf, ViewOf
  <2>2. wpc' = wpc /\ (stop' = stop \/ stop' = TRUE)
        BY <1>2 DEF Wake, RequestStop, Notify
  <2>3. \/ DisplayMode' = DisplayMode
        \/ DisplayMode = "open" /\ DisplayMode' \in {"closing", "closed"}
        BY <2>2 DEF DisplayMode, WorkerAlive, TypeInv, TypeOK
  <2>. QED  BY <1>0, <2>1, <2>3, ModeSteps
<1>3. CASE Start \/ JoinBegin \/ JoinEnd \/ Top \/ LeaveWait \/ ReadSize \/ Resize \/ Elapse \/ UNCHANGED vars
  <2>1. View' = View /\ cycles' = cycles /\ dirty' = dirty /\ stop' = stop
        BY <1>3 DEF Start, JoinBegin, JoinEnd, Top, LeaveWait, ReadSize, Resize, Elapse, vars, View
  <2>2. frame' = frame /\ screen' = screen /\ (wpc = "write" <=> wpc' = "write")
        BY <1>3 DEF Start, JoinBegin, JoinEnd, Top, LeaveWait, ReadSize, Resize, Elapse, vars,
                    TypeInv, JoinedMeansSilent
  <2>3. OnItsWay' = OnItsWay /\ Shown' = Shown
        BY <2>2 DEF OnItsWay, Shown, PictureOf, ViewOf
  <2>4. \/ DisplayMode' = DisplayMode
        \/ DisplayMode = "closed" /\ DisplayMode' = "open"
    <3>1. CASE wpc' = wpc
          BY <2>1, <3>1 DEF DisplayMode, WorkerAlive
    <3>2. CASE Start
          BY <2>1, <3>2 DEF Start, DisplayMode, WorkerAlive, TypeInv, TypeOK, JoinedMeansSilent
    <3>3. CASE Top \/ LeaveWait \/ ReadSize
          BY <2>1, <3>3 DEF Top, LeaveWait, ReadSize, DisplayMode, WorkerAlive, TypeInv, TypeOK
    <3>. QED  BY <1>3, <3>1, <3>2, <3>3 DEF JoinBegin, JoinEnd, Resize, Elapse, vars
  <2>. QED  BY <1>0, <2>1, <2>3, <2>4, ModeSteps
<1>4. CASE FirstFrame
  <2>1. DisplayMode = "closed" /\ wpc = "absent" /\ DisplayMode' = DisplayMode
        BY <1>4 DEF FirstFrame, DisplayMode, WorkerAlive
  <2>2. View' = View /\ cycles' = cycles /\ dirty' = dirty /\ frame' = frame /\ wpc' = wpc
        BY <1>4 DEF FirstFrame, View
  <2>3. Shown' = D!Picture(View, cycles) \/ (WriteMayFail /\ Shown' = D!Garbled)
        BY <1>4, PictureOfBuilt DEF FirstFrame, Shown, TypeInv, TypeOK
  <2>4. D!ShowNow
        BY <2>1, <2>2, <2>3 DEF Shown, D!ShowNow, D!Garbled, D!Nothing
  <2>. QED  BY <2>4 DEF D!Next
<1>5. CASE Tick
  <2>0. wpc = "tick" /\ size \in Sizes /\ screen' = screen /\ dirty' = FALSE /\ stop' = stop
        BY <1>5 DEF Tick, ConsumeRedraw, TypeInv, SizeWasRead
  <2>1. View' = View
        BY <1>5 DEF Tick, View, TypeInv, TypeOK, App
  <2>2. OnItsWay = D!Nothing /\ Shown' = Shown
        BY <2>0 DEF OnItsWay, Shown, PictureOf, ViewOf
  <2>3. CASE NeedsFrame
    <3>1. frame' = BuildFrame(app, cycles, size) /\ frame' # NoFrame
          BY <1>5, <2>0, <2>3, BuiltFrame DEF Tick
    <3>2. wpc' = "write"
          BY <1>5, <3>1 DEF Tick
    <3>3. OnItsWay' = D!Picture(View, cycles)
          BY <2>0, <3>1, <3>2, PictureOfBuilt DEF OnItsWay, PictureOf, ViewOf
    <3>4. DisplayMode # "closed" /\ DisplayMode' = IF DisplayMode = "open" THEN "open" ELSE "closed"
          BY <2>0, <3>2 DEF DisplayMode, WorkerAlive
    <3>5. D!Take
          BY <2>0, <2>1, <2>2, <3>2, <3>3, <3>4 DEF D!Take, OnItsWay, Shown, D!Nothing, D!Garbled
    <3>6. CASE Due
      <4>1. cycles' = D!NextColumn(cycles)
            BY <1>5, <3>6 DEF Tick, CountFrame, NextCycle, D!NextColumn
      <4>. QED  BY <3>5, <4>1 DEF D!Next, D!Render
    <3>7. CASE ~ Due
      <4>1. cycles' = cycles /\ dirty
            BY <1>5, <2>3, <3>7 DEF Tick, CountFrame, NeedsFrame, TypeInv, TypeOK
      <4>. QED  BY <3>5, <4>1 DEF D!Next, D!Redraw
    <3>. QED  BY <3>6, <3>7
  <2>4. CASE ~ NeedsFrame
    <3>1. frame' = NoFrame /\ wpc' = "top" /\ cycles' = cycles /\ ~ dirty
          BY <1>5, <2>4 DEF Tick, CountFrame, NeedsFrame
    <3>2. OnItsWay' = OnItsWay /\ dirty' = dirty
          BY <2>0, <2>2, <3>1 DEF OnItsWay, TypeInv, TypeOK
    <3>3. \/ DisplayMode' = DisplayMode
          \/ DisplayMode = "closing" /\ DisplayMode' = "closed"
          BY <2>0, <3>1 DEF DisplayMode, WorkerAlive
    <3>. QED  BY <1>0, <2>1, <2>2, <3>1, <3>2, <3>3, ModeSteps
  <2>. QED  BY <2>3, <2>4
<1>6. CASE WriteFrame
  <2>1. wpc = "write" /\ wpc' = "top" /\ frame \in Frames
        BY <1>6 DEF WriteFrame, TypeInv, TypeOK, FrameWhileWriting
  <2>2. View' = View /\ cycles' = cycles /\ dirty' = dirty /\ stop' = stop
        BY <1>6 DEF WriteFrame, View
  <2>3. OnItsWay = PictureOf(frame) /\ OnItsWay # D!Nothing /\ OnItsWay' = D!Nothing
        BY <2>1 DEF OnItsWay, PictureOf, D!Nothing
  <2>4. Shown' = PictureOf(frame) \/ (WriteMayFail /\ Shown' = D!Garbled)
        BY <1>6, <2>1, FrameKinds DEF WriteFrame, Shown, PictureOf, ViewOf
  <2>5. DisplayMode' = DisplayMode
        BY <2>1, <2>2 DEF DisplayMode, WorkerAlive
  <2>6. D!Arrive
        BY <2>2, <2>3, <2>4, <2>5 DEF D!Arrive, OnItsWay, Shown, D!Nothing, D!Garbled
  <2>. QED  BY <2>6 DEF D!Next
<1>. QED  BY <1>1, <1>2, <1>3, <1>4, <1>5, <1>6
          DEF Next, Client, OwnerStep, Worker, WakeUp, SpuriousWakeUp, D!Next

\* The scheduler implements Display: each frame on the terminal is a picture of one
\* instant, whole and in order, and one at most follows the request to stop
\* (scheduler.cpp, all of it).
THEOREM SchedulerIsADisplay == Spec => IsADisplay
<1>. QED  BY DisplayInit, DisplayStep, TypeInvariant, PTL DEF Spec, IsADisplay, D!Spec

\* And so does the program around it, whatever is typed and whenever a signal comes
\* (console_app.cpp run).
THEOREM ProgramIsADisplay == AppSpec => IsADisplay
BY AppRefinesScheduler, SchedulerIsADisplay, PTL

=============================================================================
