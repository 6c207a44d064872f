----------------------------- MODULE Scheduler -----------------------------
(***************************************************************************)
(* class Scheduler: one worker thread that builds and writes frames, and   *)
(* the clients that feed it events.  They share the Interpreter, the       *)
(* Parameters and the MarqueeProcess under one mutex mu_, and the worker   *)
(* sleeps on one condition variable cv_.                                   *)
(*                                                                         *)
(* GRAIN.  A critical section of mu_ is one action: nothing else touches   *)
(* what mu_ protects.  What the code does outside the mutex is a step of   *)
(* its own: notifying cv_, reading the terminal size, writing a frame,     *)
(* joining the worker, and the moment between two of them.                 *)
(*                                                                         *)
(* TIME is relative, in units of a millisecond: "sinceRender" is nowMs()   *)
(* minus lastRenderMs, and stops counting at AgeMax, beyond every refresh  *)
(* period; "remaining" is what is left of the timed wait.                  *)
(*                                                                         *)
(* A definition called Bug... is the one after it with a plausible mistake *)
(* in it.  Nothing uses it: it is there to be swapped in, to see that the  *)
(* property that guards against the mistake fails.                         *)
(***************************************************************************)
EXTENDS Interpreter

CONSTANTS
    Clients,        \* threads that call postEvent, wake and requestStop
    Owner,          \* the one among them that starts and joins the worker
    Keys,           \* the key events clients post
    Sizes,          \* what Terminal::size() can report: rows and columns positive
    NoSize,         \* no size, or one with no rows or no columns
    PollingMs, PollMax,     \* Parameters::pollingMs, kPollMax
    AgeMax,         \* bound: where sinceRender saturates
    CyclesMod,      \* bound: cycles is counted modulo this, a multiple of the scroll periods
    TypedLines,     \* bound: the lines clients type, with their beginnings
    MaxWakes,       \* bound: how often wake() is called
    WriteMayFail    \* whether the console can refuse bytes

ASSUME ClientsAssumption == Owner \in Clients
ASSUME KeysAssumption    == Keys \subseteq KeyEvents
\* Both platforms answer an unknown or empty size with the default of Size, 24 by 80.
ASSUME SizesAssumption   == NoSize \notin Sizes
ASSUME PollingAssumption ==
    /\ PollMax \in Nat
    /\ PollingMs \in 1 .. PollMax
ASSUME BoundsAssumption ==
    /\ AgeMax \in Nat /\ AgeMax >= RefreshMax
    /\ CyclesMod \in Nat /\ CyclesMod >= 1
    /\ TypedLines \subseteq Seq(Printable) /\ MaxWakes \in Nat
    /\ WriteMayFail \in BOOLEAN

VARIABLES
    app,            \* what mu_ protects: interp_, params_, proc_ (see Interpreter)
    cycles,         \* MarqueeProcess::cycles
    sinceRender,    \* nowMs() - MarqueeProcess::lastRenderMs
    stop, dirty, wakeTick,      \* stop_, dirty_, wakeTick_
    joinable,       \* worker_.joinable()
    cpc,            \* where each client is: outside, about to notify, inside join
    wpc,            \* where the worker is
    seen,           \* run(): the value of wakeTick_ before the wait
    remaining,      \* what is left of the timeout of wait_for
    notified,       \* whether cv_ was notified since the worker last went to sleep
    size,           \* tick(): the size it read
    frame,          \* tick(): the frame it built and has not written
    termSize,       \* the size of the terminal
    screen,         \* the frame the terminal shows
    lost            \* history: the terminal did not get the whole of the last frame

shared  == <<app, cycles, sinceRender, stop, dirty, wakeTick>>
thread  == <<wpc, seen, remaining, notified, size, frame>>
console == <<termSize, screen, lost>>
vars    == <<shared, joinable, cpc, thread, console>>

----------------------------------------------------------------------------
\* Frames.

NoFrame   == [kind |-> "none"]      \* the empty string, which is not written
TornFrame == [kind |-> "torn"]      \* a frame whose write stopped part way

\* Renderer::buildFrame(), as far as the scheduler can tell frames apart: the
\* whole screen is laid out again from the state it is given, and only an
\* invalid size yields the empty string.
BuildFrame(a, position, sz) ==
    IF sz = NoSize THEN NoFrame
    ELSE [kind |-> "frame", line |-> a.line, message |-> a.message, text |-> a.text,
          position |-> position, size |-> sz]

Frames == [kind : {"frame"}, line : Seq(Printable), message : Messages, text : Seq(Printable),
           position : 0 .. CyclesMod - 1, size : Sizes \ {NoSize}]

NextCycle(c) == IF c = CyclesMod - 1 THEN 0 ELSE c + 1

----------------------------------------------------------------------------
\* pollTimeoutMsLocked(): never less than PollMin, to keep the worker from spinning.

PollMin == 1        \* Parameters::kPollMin, and the least wait

Running == app.state = "Running"

ClampWait(ms) == IF ms < PollMin THEN PollMin ELSE IF ms > PollMax THEN PollMax ELSE ms

UntilDeadline == app.refreshMs - sinceRender

BugDeadlineIgnored == ClampWait(PollingMs)

PollTimeoutMs ==
    ClampWait(IF Running /\ UntilDeadline > 0 /\ UntilDeadline < PollingMs
              THEN UntilDeadline ELSE PollingMs)

----------------------------------------------------------------------------
\* Clients.

ClientStates == {"idle", "notify", "joining"}

\* Bound: what is typed next keeps the line among TypedLines.
CanType(ev) == ev.type = "Char" => Append(app.line, ev.ch) \in TypedLines

\* The worker keeps the mutex while it writes.
BugWriteUnderLock(c, ev) ==
    /\ cpc[c] = "idle" /\ wpc # "write" /\ CanType(ev)
    /\ app' = Feed(app, ev) /\ dirty' = TRUE /\ cpc' = [cpc EXCEPT ![c] = "notify"]
    /\ UNCHANGED <<cycles, sinceRender, stop, wakeTick, joinable, thread, console>>

\* postEvent(): the key is fed and the echo requested in one critical section.
PostEvent(c, ev) ==
    /\ cpc[c] = "idle"
    /\ CanType(ev)
    /\ app' = Feed(app, ev)
    /\ dirty' = TRUE
    /\ cpc' = [cpc EXCEPT ![c] = "notify"]
    /\ UNCHANGED <<cycles, sinceRender, stop, wakeTick, joinable, thread, console>>

\* wake().
Wake(c) ==
    /\ cpc[c] = "idle"
    /\ wakeTick < MaxWakes
    /\ wakeTick' = wakeTick + 1
    /\ cpc' = [cpc EXCEPT ![c] = "notify"]
    /\ UNCHANGED <<app, cycles, sinceRender, stop, dirty, joinable, thread, console>>

\* requestStop().
RequestStop(c) ==
    /\ cpc[c] = "idle"
    /\ stop' = TRUE
    /\ cpc' = [cpc EXCEPT ![c] = "notify"]
    /\ UNCHANGED <<app, cycles, sinceRender, dirty, wakeTick, joinable, thread, console>>

\* cv_.notify_all() or notify_one(), after the mutex was released: it reaches the
\* worker, the only waiter, if and only if the worker is in the wait right now.
Notify(c) ==
    /\ cpc[c] = "notify"
    /\ cpc' = [cpc EXCEPT ![c] = "idle"]
    /\ notified' = (notified \/ wpc = "asleep")
    /\ UNCHANGED <<shared, joinable, wpc, seen, remaining, size, frame, console>>

\* start(): does nothing while a worker is joinable.
Start ==
    /\ cpc[Owner] = "idle"
    /\ ~ joinable
    /\ joinable' = TRUE
    /\ wpc' = "top"
    /\ UNCHANGED <<shared, cpc, seen, remaining, notified, size, frame, console>>

\* join(): does nothing unless a worker is joinable, and waits for it to return.
JoinBegin ==
    /\ cpc[Owner] = "idle"
    /\ joinable
    /\ cpc' = [cpc EXCEPT ![Owner] = "joining"]
    /\ UNCHANGED <<shared, joinable, thread, console>>

\* The worker is detached instead of joined.
BugDetach ==
    /\ cpc[Owner] = "joining"
    /\ cpc' = [cpc EXCEPT ![Owner] = "idle"] /\ joinable' = FALSE
    /\ UNCHANGED <<shared, thread, console>>

JoinEnd ==
    /\ cpc[Owner] = "joining"
    /\ wpc = "returned"
    /\ cpc' = [cpc EXCEPT ![Owner] = "idle"]
    /\ joinable' = FALSE
    /\ UNCHANGED <<shared, thread, console>>

\* ConsoleApp::run() draws a frame itself before it calls start().  It has read the
\* size before, and the terminal may have any other size by now.
FirstFrame ==
    /\ cpc[Owner] = "idle"
    /\ wpc = "absent"
    /\ \/ lost' = FALSE /\ \E sz \in Sizes : screen' = BuildFrame(app, cycles, sz)
       \/ lost' = TRUE /\ WriteMayFail /\ screen' = TornFrame
    /\ UNCHANGED <<shared, joinable, cpc, thread, termSize>>

----------------------------------------------------------------------------
\* The worker: run() and tick().

WorkerStates == {"absent", "top", "asleep", "size", "tick", "write", "returned"}

\* The predicate of wait_for.
HasWork == stop \/ dirty \/ wakeTick # seen

\* wait_for without a predicate: the worker sleeps without looking.
BugBlindWait ==
    /\ wpc = "top" /\ seen' = wakeTick
    /\ IF stop THEN wpc' = "returned" /\ UNCHANGED <<remaining, notified>>
       ELSE wpc' = "asleep" /\ remaining' = PollTimeoutMs /\ notified' = FALSE
    /\ UNCHANGED <<shared, joinable, cpc, size, frame, console>>

\* Input is served before the request to stop is looked at.
BugInputBeforeStop ==
    /\ wpc = "top" /\ seen' = wakeTick
    /\ IF dirty THEN wpc' = "size" /\ UNCHANGED <<remaining, notified>>
       ELSE IF stop THEN wpc' = "returned" /\ UNCHANGED <<remaining, notified>>
       ELSE wpc' = "asleep" /\ remaining' = PollTimeoutMs /\ notified' = FALSE
    /\ UNCHANGED <<shared, joinable, cpc, size, frame, console>>

\* run(): the critical section up to the wait.  wait_for evaluates its predicate
\* first, so a dirty worker does not sleep at all.
Top ==
    /\ wpc = "top"
    /\ seen' = wakeTick
    /\ IF stop THEN wpc' = "returned" /\ UNCHANGED <<remaining, notified>>
       ELSE IF dirty THEN wpc' = "size" /\ UNCHANGED <<remaining, notified>>
       ELSE wpc' = "asleep" /\ remaining' = PollTimeoutMs /\ notified' = FALSE
    /\ UNCHANGED <<shared, joinable, cpc, size, frame, console>>

\* The worker holds the mutex again.  Without work it returns to the wait, for
\* what is left of it; with none left it gives up waiting.
LeaveWait ==
    /\ wpc = "asleep"
    /\ notified' = FALSE
    /\ wpc' = IF stop THEN "returned" ELSE IF HasWork \/ remaining = 0 THEN "size" ELSE "asleep"
    /\ remaining' = IF wpc' = "asleep" THEN remaining ELSE 0
    /\ UNCHANGED <<shared, joinable, cpc, seen, size, frame, console>>

WakeUp == (notified \/ remaining = 0) /\ LeaveWait

\* A condition variable may wake its waiter without being notified.
SpuriousWakeUp == ~ notified /\ remaining > 0 /\ LeaveWait

\* The size of the frame before is used again.
BugSizeIsCached ==
    /\ wpc = "size" /\ wpc' = "tick"
    /\ size' = IF screen = TornFrame THEN termSize ELSE screen.size
    /\ UNCHANGED <<shared, joinable, cpc, seen, remaining, notified, frame, console>>

\* tick(): the size is read before the mutex is locked.
ReadSize ==
    /\ wpc = "size"
    /\ size' = termSize
    /\ wpc' = "tick"
    /\ UNCHANGED <<shared, joinable, cpc, seen, remaining, notified, frame, console>>

BugRestartNotDue == Running /\ sinceRender >= app.refreshMs
BugOnlyFirstDue  == Running /\ ~ app.hasRendered

Due == Running /\ (~ app.hasRendered \/ sinceRender >= app.refreshMs)

\* due || redraw.
NeedsFrame == Due \/ dirty

BugRedrawStaysOwed == dirty' = dirty

ConsumeRedraw == dirty' = FALSE

BugCountRedraws == cycles' = IF Due /\ dirty THEN NextCycle(NextCycle(cycles))
                             ELSE IF NeedsFrame THEN NextCycle(cycles) ELSE cycles

\* Rendered frames are counted, not redraws.
CountFrame == cycles' = IF Due THEN NextCycle(cycles) ELSE cycles

\* tick(nullptr): the critical section.  The frame is built with the cycles of
\* before the increment; an echo alone is not a rendered frame.
Tick ==
    /\ wpc = "tick"
    /\ ConsumeRedraw
    /\ frame' = IF NeedsFrame THEN BuildFrame(app, cycles, size) ELSE NoFrame
    /\ CountFrame
    /\ IF Due THEN app' = [app EXCEPT !.hasRendered = TRUE] /\ sinceRender' = 0
              ELSE UNCHANGED <<app, sinceRender>>
    /\ size' = NoSize
    /\ wpc' = IF frame' = NoFrame THEN "top" ELSE "write"
    /\ UNCHANGED <<stop, wakeTick, joinable, cpc, seen, remaining, notified, console>>

\* dirty_ is reset once the frame is out, not when it is built.
BugResetAfterWrite ==
    /\ wpc = "write" /\ wpc' = "top" /\ dirty' = FALSE
    /\ screen' = frame /\ lost' = FALSE /\ frame' = NoFrame
    /\ UNCHANGED <<app, cycles, sinceRender, stop, wakeTick, joinable, cpc, seen, remaining,
                   notified, size, termSize>>

\* Terminal::write(): may give up half way, and nobody is told.
WriteFrame ==
    /\ wpc = "write"
    /\ \/ screen' = frame /\ lost' = FALSE
       \/ WriteMayFail /\ screen' = TornFrame /\ lost' = TRUE
    /\ frame' = NoFrame
    /\ wpc' = "top"
    /\ UNCHANGED <<shared, joinable, cpc, seen, remaining, notified, size, termSize>>

----------------------------------------------------------------------------
\* The environment.

Resize ==
    /\ termSize' \in Sizes \ {termSize}
    /\ UNCHANGED <<shared, joinable, cpc, thread, screen, lost>>

Elapse ==
    /\ sinceRender' = IF sinceRender < AgeMax THEN sinceRender + 1 ELSE sinceRender
    /\ remaining' = IF wpc = "asleep" /\ remaining > 0 THEN remaining - 1 ELSE remaining
    /\ UNCHANGED <<app, cycles, stop, dirty, wakeTick, joinable, cpc, wpc, seen, notified,
                   size, frame, console>>

----------------------------------------------------------------------------
Init ==
    /\ app = InitialApp
    /\ cycles = 0
    /\ sinceRender = AgeMax
    /\ stop = FALSE /\ dirty = FALSE /\ wakeTick = 0
    /\ joinable = FALSE
    /\ cpc = [c \in Clients |-> "idle"]
    /\ wpc = "absent" /\ seen = 0 /\ remaining = 0 /\ notified = FALSE
    /\ size = NoSize /\ frame = NoFrame
    /\ termSize \in Sizes
    /\ screen = TornFrame /\ lost = TRUE     \* whatever the terminal showed before

Client(c) == Wake(c) \/ RequestStop(c) \/ Notify(c) \/ \E ev \in Keys : PostEvent(c, ev)

OwnerStep == Start \/ JoinBegin \/ JoinEnd \/ FirstFrame

Worker == Top \/ WakeUp \/ SpuriousWakeUp \/ ReadSize \/ Tick \/ WriteFrame

Next == (\E c \in Clients : Client(c)) \/ OwnerStep \/ Worker \/ Resize \/ Elapse

\* A thread that can run does run (none of these steps waits for another thread
\* to leave the mutex for good), time passes, and a due wake-up is delivered.
\* Nothing obliges a client to call, or the wait to end early.
Fairness ==
    /\ \A c \in Clients : WF_vars(Notify(c))
    /\ WF_vars(JoinEnd)
    /\ WF_vars(Top) /\ WF_vars(WakeUp) /\ WF_vars(ReadSize) /\ WF_vars(Tick) /\ WF_vars(WriteFrame)
    /\ WF_vars(Elapse)

Spec == Init /\ [][Next]_vars

FairSpec == Spec /\ Fairness

----------------------------------------------------------------------------
\* Properties.

TypeOK ==
    /\ app \in App
    /\ cycles \in 0 .. CyclesMod - 1
    /\ sinceRender \in 0 .. AgeMax
    /\ stop \in BOOLEAN /\ dirty \in BOOLEAN /\ joinable \in BOOLEAN
    /\ wakeTick \in 0 .. MaxWakes /\ seen \in 0 .. MaxWakes
    /\ cpc \in [Clients -> ClientStates]
    /\ wpc \in WorkerStates
    /\ remaining \in 0 .. PollMax
    /\ notified \in BOOLEAN
    /\ size \in Sizes \cup {NoSize} /\ termSize \in Sizes
    /\ frame \in Frames \cup {NoFrame}
    /\ screen \in Frames \cup {TornFrame}
    /\ lost \in BOOLEAN

\* No wake-up is lost between the critical section of a client and its notify, or
\* between the predicate of wait_for and the sleep: a worker that sleeps although
\* there is work has been notified, or a client is on its way to notify it
\* (postEvent, wake, requestStop against the wait of run()).
NoLostWakeup ==
    wpc = "asleep" /\ HasWork => notified \/ \E c \in Clients : cpc[c] = "notify"

\* start_marquee paints at once: pollTimeoutMsLocked() does not look at
\* hasRendered, so a process that still owes its first frame must be covered by
\* dirty_, through any sequence of keys, restarts and ticks.
FreshStartOwesFrame == Running /\ ~ app.hasRendered => dirty

\* The last frame that was built, written or not.
LatestFrame == IF wpc = "write" THEN frame ELSE screen

\* While no redraw is owed, the terminal shows (or is being sent) exactly the line,
\* message and text the interpreter holds now, and the band position of the last
\* rendered frame or the one after it.  Only a frame the console refused excuses a
\* difference: the code forgets that it was asked for.
EchoIsCurrent ==
    ~ dirty /\ (wpc # "write" => ~ lost) =>
        /\ LatestFrame.line = app.line
        /\ LatestFrame.message = app.message
        /\ LatestFrame.text = app.text
        /\ cycles \in {LatestFrame.position, NextCycle(LatestFrame.position)}

\* A sleeping worker never sleeps past a render deadline that is still ahead, also
\* after set_speed moved the deadline while it slept: then it has work.
SleepEndsByDeadline ==
    wpc = "asleep" /\ ~ HasWork /\ Running /\ UntilDeadline > 0 => remaining <= UntilDeadline

\* Once a worker was told to stop it draws at most the frame it was drawing: after
\* the return of join() nothing is on its way to the terminal, and the worker that
\* is not joinable is not running.
JoinedMeansSilent == ~ joinable => wpc \in {"absent", "returned"} /\ frame = NoFrame

\* As long as every frame arrives, the band moves one column at a time and never
\* back, whatever mix of echoes, restarts and rendered frames is written.
BandNeverSkips ==
    [][ ~ lost /\ ~ lost' /\ screen' # screen
        => screen'.position \in {screen.position, NextCycle(screen.position)} ]_vars

WorkerAlive == wpc \notin {"absent", "returned"}

\* A requested stop ends the worker, whatever it was doing.
StopEndsWorker == stop /\ WorkerAlive ~> ~ WorkerAlive

\* A running marquee keeps rendering frames, whatever else keeps the worker busy.
MarqueeAdvances ==
    \A n \in 0 .. CyclesMod - 1 :
        Running /\ cycles = n /\ WorkerAlive ~> cycles # n \/ ~ Running \/ stop

\* A resize needs no event: a running marquee is redrawn for the new size, although
\* the frame being built or written when the size changes is still laid out for the
\* old one.
ResizeIsPainted ==
    \A s \in Sizes :
        Running /\ termSize = s /\ WorkerAlive
            ~> (screen # TornFrame /\ screen.size = s) \/ termSize # s \/ ~ Running \/ stop

----------------------------------------------------------------------------
\* What the scheduler implements: Display.  The debt is dirty_, a picture is taken
\* by tick() and on its way until it is written, and the display is open while the
\* worker runs and was not told to stop; a worker told to stop on its way to tick()
\* still draws.

View == [line |-> app.line, message |-> app.message, text |-> app.text]

ViewOf(f) == [line |-> f.line, message |-> f.message, text |-> f.text]

PictureOf(f) == [kind |-> "picture", view |-> ViewOf(f), position |-> f.position]

DisplayMode == IF WorkerAlive /\ ~ stop THEN "open"
               ELSE IF wpc \in {"size", "tick"} THEN "closing" ELSE "closed"

D == INSTANCE Display
     WITH Views    <- [line : Seq(Printable), message : Messages, text : Seq(Printable)],
          Columns  <- CyclesMod,
          MayFail  <- WriteMayFail,
          view     <- View,
          position <- cycles,
          owed     <- dirty,
          mode     <- DisplayMode,
          onItsWay <- IF wpc = "write" THEN PictureOf(frame) ELSE [kind |-> "nothing"],
          shown    <- IF screen = TornFrame THEN [kind |-> "garbled"] ELSE PictureOf(screen)

\* Every step of the scheduler is one step of Display or none: each frame shows one
\* instant of the interpreter and the band, whatever the clients do meanwhile, the
\* frames arrive whole and in order, and one at most after the request to stop.
IsADisplay == D!Spec

\* And every event is redrawn, also when more events keep coming, every frame gets
\* out and every stop is carried out.
IsAPromptDisplay == D!Prompt

----------------------------------------------------------------------------
\* What the documents say and the code does not do.

\* docs/threading-model.md: the wait is the smaller of pollingMs and the time left
\* until the next deadline, "so pollingMs can never delay a frame".  A worker that
\* finds the deadline already behind it (the last write was slow) has nothing left
\* to wait for, at most the least wait of pollTimeoutMsLocked().
PollingNeverDelaysAFrame ==
    wpc = "asleep" /\ ~ HasWork /\ Running => remaining <= Max({UntilDeadline, PollMin})

\* docs/threading-model.md: "refreshMs is the only thing that drives the marquee":
\* the band on the screen moves only when the frame being written was due.  (A due
\* frame shows the cycles of before its increment, an echo those of after it.)
OnlyDeadlinesMoveTheBand ==
    [][ ~ lost /\ ~ lost' /\ screen' # screen /\ screen'.position # screen.position
        => cycles = NextCycle(screen'.position) ]_vars

=============================================================================
