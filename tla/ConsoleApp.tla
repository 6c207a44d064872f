---------------------------- MODULE ConsoleApp -----------------------------
(***************************************************************************)
(* The whole interactive program: main() with its TerminalGuard, and       *)
(* ConsoleApp::run(), the input loop that is the only client and the owner *)
(* of the Scheduler.  The main thread is sequential; "mpc" is the next     *)
(* statement it will execute.  Each of its steps is a step of Scheduler    *)
(* or leaves the scheduler alone, so this module refines Scheduler.        *)
(*                                                                         *)
(* The environment types keys, resizes the terminal, lets time pass, and   *)
(* sends SIGINT or SIGTERM at any moment, between any two steps.           *)
(***************************************************************************)
EXTENDS Scheduler

ASSUME MainAssumption == Clients = {Owner}

VARIABLES
    mpc,            \* where the main thread is
    event,          \* ConsoleApp::run(): the event that was read
    signal,         \* g_shutdownRequested
    requested,      \* shutdownRequested(): what it read
    raw,            \* whether the terminal is in raw mode
    farewell,       \* whether the exit message was written
    signalled       \* history: a signal was delivered

main == <<mpc, event, signal, requested, raw, farewell, signalled>>
appVars == <<vars, main>>

MainStates == {"enter raw", "first frame", "start", "read", "post", "posting", "quit?", "read flag",
               "clear flag", "stop", "stopping", "join", "joining", "goodbye", "restore", "exited"}

NoEvent == Key("None")

Goto(from, to) == mpc = from /\ mpc' = to

----------------------------------------------------------------------------
\* main() and the beginning of run().

\* TerminalGuard: entering raw mode can fail, and then stays undone silently.
EnterRawMode ==
    /\ Goto("enter raw", "first frame")
    /\ raw' \in BOOLEAN
    /\ UNCHANGED <<vars, event, signal, requested, farewell, signalled>>

DrawFirstFrame ==
    /\ Goto("first frame", "start")
    /\ FirstFrame
    /\ UNCHANGED <<event, signal, requested, raw, farewell, signalled>>

StartWorker ==
    /\ Goto("start", "read")
    /\ Start
    /\ UNCHANGED <<event, signal, requested, raw, farewell, signalled>>

----------------------------------------------------------------------------
\* The input loop.

\* readEvent() returned true ...
KeyArrives(ev) ==
    /\ Goto("read", "post")
    /\ CanType(ev)
    /\ event' = ev
    /\ UNCHANGED <<vars, signal, requested, raw, farewell, signalled>>

BugFeedDirectly ==
    /\ Goto("post", "quit?")
    /\ app' = Feed(app, event) /\ event' = NoEvent
    /\ UNCHANGED <<cycles, sinceRender, stop, dirty, wakeTick, joinable, cpc, thread, console,
                   signal, requested, raw, farewell, signalled>>

\* ... and the event is posted.
PostKey ==
    /\ Goto("post", "posting")
    /\ PostEvent(Owner, event)
    /\ event' = NoEvent
    /\ UNCHANGED <<signal, requested, raw, farewell, signalled>>

\* The result of readEvent() is not looked at.
BugPostsTimeouts ==
    /\ Goto("read", "post")
    /\ UNCHANGED <<vars, event, signal, requested, raw, farewell, signalled>>

\* readEvent() returned false: a timeout, a signal, or a byte that is no event.
ReadTimesOut ==
    /\ Goto("read", "quit?")
    /\ UNCHANGED <<vars, event, signal, requested, raw, farewell, signalled>>

FinishPosting ==
    /\ Goto("posting", "quit?")
    /\ Notify(Owner)
    /\ UNCHANGED <<event, signal, requested, raw, farewell, signalled>>

BugQuitIgnored ==
    /\ Goto("quit?", "read flag")
    /\ UNCHANGED <<vars, event, signal, requested, raw, farewell, signalled>>

\* quitRequested() || ...: read without the mutex, by the thread that writes it.
CheckQuit ==
    /\ mpc = "quit?"
    /\ mpc' = IF app.quit THEN "stop" ELSE "read flag"
    /\ UNCHANGED <<vars, event, signal, requested, raw, farewell, signalled>>

BugClearBeforeRead ==
    /\ Goto("read flag", "clear flag")
    /\ signal' = FALSE /\ requested' = FALSE
    /\ UNCHANGED <<vars, event, raw, farewell, signalled>>

\* shutdownRequested() reads the flag the signal handler writes ...
ReadFlag ==
    /\ Goto("read flag", "clear flag")
    /\ requested' = signal
    /\ UNCHANGED <<vars, event, signal, raw, farewell, signalled>>

BugExitAtOnce ==
    /\ mpc = "clear flag" /\ signal' = FALSE
    /\ mpc' = IF requested THEN "exited" ELSE "read"
    /\ UNCHANGED <<vars, event, requested, raw, farewell, signalled>>

\* ... and clears it in a second access.
ClearFlag ==
    /\ mpc = "clear flag"
    /\ signal' = FALSE
    /\ mpc' = IF requested THEN "stop" ELSE "read"
    /\ UNCHANGED <<vars, event, requested, raw, farewell, signalled>>

----------------------------------------------------------------------------
\* The end of run() and of main().

StopWorker ==
    /\ Goto("stop", "stopping")
    /\ RequestStop(Owner)
    /\ UNCHANGED <<event, signal, requested, raw, farewell, signalled>>

FinishStopping ==
    /\ Goto("stopping", "join")
    /\ Notify(Owner)
    /\ UNCHANGED <<event, signal, requested, raw, farewell, signalled>>

BugNoJoin ==
    /\ Goto("join", "goodbye")
    /\ UNCHANGED <<vars, event, signal, requested, raw, farewell, signalled>>

BeginJoin ==
    /\ Goto("join", "joining")
    /\ JoinBegin
    /\ UNCHANGED <<event, signal, requested, raw, farewell, signalled>>

EndJoin ==
    /\ Goto("joining", "goodbye")
    /\ JoinEnd
    /\ UNCHANGED <<event, signal, requested, raw, farewell, signalled>>

\* The exit message.  ~Scheduler() then stops and joins once more, to no effect.
SayGoodbye ==
    /\ Goto("goodbye", "restore")
    /\ farewell' = TRUE
    /\ UNCHANGED <<vars, event, signal, requested, raw, signalled>>

\* ~TerminalGuard(), and then the destructor of the terminal, which finds it restored.
Restore ==
    /\ Goto("restore", "exited")
    /\ raw' = FALSE
    /\ UNCHANGED <<vars, event, signal, requested, farewell, signalled>>

----------------------------------------------------------------------------
\* The rest of the system.

\* onShutdownSignal(), delivered to the process while it lives.
DeliverSignal ==
    /\ mpc # "exited"
    /\ signal' = TRUE
    /\ signalled' = TRUE
    /\ UNCHANGED <<vars, mpc, event, requested, raw, farewell>>

Background == (Worker \/ Resize \/ Elapse) /\ mpc # "exited" /\ UNCHANGED main

\* main() returned.
Exited == mpc = "exited" /\ UNCHANGED appVars

AppInit ==
    /\ Init
    /\ mpc = "enter raw" /\ event = NoEvent
    /\ signal = FALSE /\ requested = FALSE /\ signalled = FALSE
    /\ raw = FALSE /\ farewell = FALSE

Loop == (\E ev \in Keys : KeyArrives(ev)) \/ PostKey \/ ReadTimesOut \/ FinishPosting \/ CheckQuit \/ ReadFlag \/ ClearFlag

MainStep ==
    \/ EnterRawMode \/ DrawFirstFrame \/ StartWorker
    \/ Loop
    \/ StopWorker \/ FinishStopping \/ BeginJoin \/ EndJoin \/ SayGoodbye \/ Restore

AppNext == MainStep \/ DeliverSignal \/ Background \/ Exited

AppSpec == AppInit /\ [][AppNext]_appVars

\* The main thread runs whenever it is not blocked in join(): readEvent() returns
\* after pollingMs at the latest.  No key and no signal has to come.
MainFairness == WF_appVars(MainStep)

WorkerFairness == WF_appVars(Background /\ Worker)

\* The main thread and the clock go on, and the console may block for ever.
StalledConsoleSpec == AppSpec /\ MainFairness /\ WF_appVars(Background /\ Elapse)

AppFairSpec == StalledConsoleSpec /\ WorkerFairness

----------------------------------------------------------------------------
\* Properties.

AppTypeOK ==
    /\ TypeOK
    /\ mpc \in MainStates
    /\ event \in Keys \cup {NoEvent} /\ (mpc = "post" => event \in Keys)
    /\ signal \in BOOLEAN /\ requested \in BOOLEAN /\ signalled \in BOOLEAN
    /\ raw \in BOOLEAN /\ farewell \in BOOLEAN

\* The terminal has one writer at a time: the main thread writes (the first frame,
\* the exit message) and changes the terminal's mode only while no worker exists,
\* so no frame lands in the middle of the farewell or on a restored terminal.
OneWriter ==
    mpc \in {"enter raw", "first frame", "start", "goodbye", "restore", "exited"}
        => ~ WorkerAlive /\ frame = NoFrame

\* Every exit path leaves the terminal restored and the farewell written, and
\* was asked for by a quit command, an end of input or a signal.
CleanExit ==
    mpc = "exited" => ~ raw /\ farewell /\ ~ joinable /\ (app.quit \/ signalled)

\* Once a quit was requested no further key is executed: typed-ahead input cannot
\* start, stop or change anything after "exit" or an end of input.
NoInputAfterQuit ==
    [][ app.quit => /\ app'.quit
                    /\ [app' EXCEPT !.hasRendered = FALSE] = [app EXCEPT !.hasRendered = FALSE] ]_appVars

\* If console writes return, a quit request ends the program.
QuitExits == WorkerFairness => (app.quit ~> mpc = "exited")

\* If console writes return, a signal that is pending when the input wait begins or
\* while it lasts ends the program: shutdownRequested() reads before it clears.
SignalWhileReadingExits == WorkerFairness => (signal /\ mpc = "read" ~> mpc = "exited")

\* Console I/O does not block input handling: even if a write never returns, the
\* main thread comes back for the next key, until it is asked to stop.
InputNeverWaitsForConsole == mpc = "post" ~> mpc \in {"read", "stop"}

\* "Return true once for a pending shutdown request": every delivered signal is
\* answered by the end of the program.
EverySignalExits == signalled ~> mpc = "exited"

=============================================================================
