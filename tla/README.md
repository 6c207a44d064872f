# CSOPESY marquee console: a verification project

CSOPESY is a console program that scrolls a text (the *marquee*) while it reads
commands. Two threads share one mutex and one condition variable: the main
thread reads keys and executes commands, a worker builds frames and writes them
to the terminal. This directory holds TLA+ modules translated from the C++
source, the TLC runs that check them on small instances, and TLAPS proofs of the
safety properties for every value of the constants. Paths below are relative to
the repository root.

## 1. The system

| Component | Source | State | Operations |
| --- | --- | --- | --- |
| Scheduler | `src/app/scheduler.cpp` | `stop_`, `dirty_`, `wakeTick_`, `worker_` | `start`, `run`, `tick`, `postEvent`, `wake`, `requestStop`, `join`, the timed wait |
| ConsoleApp | `src/app/console_app.cpp` | a program counter | `run`: first frame, worker, input loop, stop, join, exit message |
| Entry point | `src/main.cpp` | raw mode | `TerminalGuard` around `ConsoleApp::run` |
| Plain line mode | `src/app/console_app.cpp` | the last line | read, execute, print |
| Interpreter | `src/features/commands/interpreter.cpp` | `message_`, `quit_` | `executeLine`: `help`, `start_marquee`, `stop_marquee`, `set_text`, `set_speed`, `exit` |
| Line editor | `src/features/commands/line_editor.cpp` | `line_` | `feed` |
| Parameters | `src/entities/parameters.cpp` | `text`, `refreshMs`, `pollingMs` | `setText`, `setRefresh`, `setPolling` |
| MarqueeProcess | `src/entities/process.cpp` | `state`, `cycles`, `lastRenderMs`, `hasRendered` | `start`, `stop` |
| Renderer | `src/features/marquee/renderer.cpp` | none | `buildFrame`, `scrollOffset`, `sliceRow` |
| POSIX terminal | `src/platform/terminal_posix.cpp` | `saved_`, `raw_`, the shutdown flag | raw mode, size, `readEvent`, `write`, signal handlers |
| Win32 terminal | `src/platform/terminal_win32.cpp` | the same, and a console record queue | the same |
| Cli, `config.txt` | `src/entities/cli.cpp` | none | parsing of options and of a file |

How they interact. The main thread owns the keyboard. It passes each event to
`postEvent`, which feeds the interpreter and sets `dirty_` under the mutex and
notifies the condition variable after it. Commands change the parameters and the
process in the same critical section. The worker waits on the condition
variable, with a timeout, until there is work; it then reads the terminal's size
without the mutex, decides under the mutex whether a frame is due or a redraw is
owed, builds it there, and writes it without the mutex. Leaving is `quit_` or the
signal flag, then `stop_`, a notification, `join`, the exit message, and the
restoring of the terminal.

What is hard here, and what each part must guarantee:

- *Scheduler.* Notifications are sent without the mutex, the redraw is consumed
  before the frame is out, the size is read before the mutex is taken, and the
  timeout of a sleep may be computed from a period that changes while it lasts.
  It must lose no wake-up, owe every echo until it is drawn, draw the first frame
  of a started process at once, sleep past no deadline, stop when told to, and
  keep the band moving one column at a time.
- *ConsoleApp and entry point.* Signals come between any two statements, and the
  worker may be in the middle of a frame when the program is asked to leave. One
  thread at a time may write; every exit restores the terminal after the last
  frame; a quit request ends input and program.
- *Interpreter, editor, parameters, process.* Sequential, with edges: mixed
  blanks, unprintable bytes, integers beyond every type. A refused command must
  change nothing, and whatever is accepted must be drawable.
- *Renderer.* Row indexes come from counts that may exceed the terminal, and a
  frame overwrites without clearing: what an earlier frame of another size, or
  half a frame, left behind must be gone after the next, nothing may scroll, and
  the band and the prompt must survive on small terminals.
- *Input.* Both platforms wait with a limit, on sources that also wake for what
  gives no event: signals, closed or broken devices, console records that are no
  keys. Sequences of bytes must become one event, no key may be lost or doubled,
  and a call must neither return at once for nothing nor stay for ever.
- *Terminal modes.* System calls fail half way, raw mode may be entered twice and
  left in three ways; the terminal must get back the modes it had.
- *Cli.* Three layers set the same fields and every mistake is reported once.

The hazards, each at its source line with the properties that watch it,
are in `PROJECT.json` ("hazards").

## 2. The modules

| Module | Models |
| --- | --- |
| `Interpreter` | commands, integers, the line editor, the parameters and the process, as pure operators on one record `app` |
| `PlainLineMode` | the loop without a terminal: `Begin`, `ReadLine`, `EndOfInput` |
| `Scheduler` | both threads as seen by the class Scheduler: clients, owner, worker, terminal, time |
| `ConsoleApp` | the whole interactive program, composed with `Scheduler` and the signal handler |
| `Display` | what the scheduler promises, without threads, waits and time |
| `Renderer` | scroll arithmetic and the layout of a frame, as pure operators |
| `Screen` | frames on a terminal that is resized and refuses bytes; extends `Renderer` |
| `PosixInput`, `Win32Input` | `readEvent` of the two platforms, with the keyboard and the device around it |
| `TerminalModes` | raw mode, `restore`, the destructors and the exit handler of both platforms |
| `Cli` | `config.txt` and the command line; extends `Interpreter` for the integers |
| `LineProgram` | the whole program without a terminal: `Cli`, then `PlainLineMode` |
| `MCScheduler`, `MCConsoleApp`, `MCScreen`, `MCLineProgram` | what is typed, drawn and read in the runs |
| `ConsoleAppProofs` | theorems about `Scheduler`, `Display` and `ConsoleApp` |
| `LineProgramProofs` | theorems about `PlainLineMode`, `Cli` and `LineProgram` |
| `RendererProofs`, `TerminalModesProofs`, `PosixInputProofs`, `Win32InputProofs` | theorems about `Screen`, `TerminalModes`, `PosixInput`, `Win32Input` |
| `InterpreterProofs`, `SequenceLemmas` | lemmas about the pure operators, and about sequences, minima and induction |

They compose in three chains. `ConsoleApp` extends `Scheduler`, which extends
`Interpreter`, and ConsoleApp implements `Spec` of Scheduler, which implements
`Display`. `LineProgram` extends `PlainLineMode` and `Cli`, which extend `Interpreter`,
and implements `Spec` of PlainLineMode. `Screen` extends `Renderer`. The input modules stand alone: what they deliver is what `KeyEvents`
of `Interpreter` admits, and `ConsoleApp` lets any of it arrive at any time.

**Interpreter.** `app` has the fields of `Interpreter` (`line`, `message`,
`quit`), of `Parameters` (`text`, `refreshMs`) and of `MarqueeProcess` (`state`,
`hasRendered`) that commands touch. `Feed` is `Interpreter::feed`, `ExecuteLine`
is `executeLine`, `RunCommand` its switch. A line is a sequence of symbols; a
symbol stands for a run of bytes the code never splits (a command name is one
symbol, so is a digit). Of the blanks, space, tab and carriage return stand for three
classes the code tells apart: `set_text` trims only spaces, `cli.cpp` trims spaces and
tabs around a line and the carriage return at its end (`TrimLine` of `Cli`), and the
interpreter trims all of them. A response is reduced to its kind. Integers keep their shape:
`Magnitude` is the loop of `parseFullInteger`, `AddDigit` one turn of it, which
saturates as the code does, and `ToInt` cuts to the width of `int`, with `IntMax` and
`Saturated` as constants.

**Scheduler.** A critical section of `mu_` is one action (`PostEvent`, `Wake`,
`RequestStop`, `Top`, `LeaveWait`, `Tick`); what happens outside it is a step of
its own (`Notify`, `ReadSize`, `WriteFrame`, `JoinBegin`/`JoinEnd`), so that
everything else can come between. `wpc` is where the worker is:

    absent -Start-> top -Top-> asleep -WakeUp-> size -ReadSize-> tick -Tick-> write -WriteFrame-> top

with shortcuts from `top` to `size` (the predicate of `wait_for` already holds),
from `tick` to `top` (nothing to draw) and to `returned` (stop). `wait_for` with
a predicate is modelled by what it does: it looks first, sleeps, looks again
when notified, when its time is over or spuriously, and goes back to sleep with
what is left of its time. A notification reaches the worker only while it is
asleep. Time is relative: `sinceRender` is `nowMs() - lastRenderMs`, `remaining`
what is left of a timeout; `Elapse` is one millisecond and may come at any point,
so that any step may take any time. A frame is the record of what `buildFrame`
was given. The frame that `ConsoleApp::run` draws before `start` (`FirstFrame`) may be for any
size, since the terminal may be resized between `size()` and `write()`. `Terminal::write` may stop half way (`TornFrame`) when `WriteMayFail`.
The history variable `lost` says that the last frame did not arrive whole.
`tick(event)` is left out: only tests call it.

**Display.** The abstract specification: a state that others change (`Change`), a
picture taken of it at one instant (`Redraw` when it is owed, `Render` when the
band moves with it), the picture's arrival, whole or garbled, and being open,
closing or closed. `Scheduler` maps to it under `D == INSTANCE Display WITH ...`:
the debt is `dirty`, a picture is on its way while `wpc = "write"`, and a worker
that was told to stop after it left the wait, and before `tick`, is *closing*: it
takes one more picture, then none. `Wake`, `Notify`, `ReadSize`, `Resize`,
`Elapse` and the waiting are stutters. `Display` has no fairness of its own:
`Prompt` says as leads-to formulas what an open display does in the end, because
WF under a substitution would speak of ENABLED of the mapped steps.

**ConsoleApp.** `mpc` is the statement of `main` or `ConsoleApp::run` that comes
next. `shutdownRequested()` is two steps, `ReadFlag` and `ClearFlag`, because a
`volatile sig_atomic_t` is read and written in two accesses; `DeliverSignal` can
come between any two steps. `quit_` is read without the mutex (`CheckQuit`),
which is safe because the reading thread is the only one that writes it.

**Renderer and Screen.** `BuildFrame` returns the rows of a frame. `Blocks` lists
what the code assigns to rows, in its order (band, title, chrome, message,
prompt); where two would meet, the later one wins, as in the code, and
`LayoutFits` says that they never do. Texts that are literals in the code are
constants, so that they can be short. A byte is a symbol and takes one column,
which `setText` and the editor see to. `Screen` keeps the cells of the terminal:
`Draw` is the size read before, a frame for it, and the terminal of now;
`DrawPart` is a frame dropped after some rows; `AfterWrite` is the ANSI terminal
(home, CR LF, wrapping, scrolling, erase to the end of line), which is external.
After a resize every cell is `Stale`, so nothing counts on what a terminal does
with its contents then.

**PosixInput.** `stage` is which byte the call waits for, `left` what is left of
that `poll`. A wait ends by a byte, its time, a signal (`Interrupt`), an error of
`read` (`ReadError`) or the end of input (`ReadEof`), each of which is judged by
the call that made it (`NoByte`, `EndOfInput`). Bytes arrive with the key
or one at a time (`together`, chosen at the start). The keyboard and the device are external.
The device may be closed, fail, or be *dry* for a while: `poll` reports input that `read`
does not find, so that `read` returns 0 on an open device, which `VMIN = 0` makes possible
(for instance when another process reads the same terminal).

**Win32Input.** `records` is the console's queue; `Signaled`, `NothingToRead`,
`WaitFails`, `Drain` (one record at a time), `Read` and `DecodeExtended` are the statements of
`readEvent`, `drainFilteredRecords`, `decode` and `decodeExtended`, so that keys
can arrive between any two. `_kbhit` and `_getch` are external, modelled by the
documented behaviour that the code's comments rely on: they see key-down records with a
character or an extended code, and an extended key is read in two calls. The console may
fail between any two steps (`Fail`); from then on a wait, `_kbhit` and the draining may give
up, and `_getch` gives `EOF`, which `decode` takes for the end of input.

**TerminalModes.** A mode is a set of flags; each of the calls that read or set
one may fail, and the steps of `enterRawMode` are separate. One module for both
platforms (`platform`, chosen at the start), which differ in the modes they have (`Cooked`, `VtOutputMode`), in
what a failure does (line mode, or `fatalStartup`) and in the exit handler of Windows
(`active`), which runs after a return of `main` and after `fatalStartup`, the only caller of
`exit()`. The calls that set a kept mode back, those of `restore` and the one with which
`enterRawMode` takes the output mode back (`terminal_win32.cpp:71`), are taken to succeed,
since the code does not look at their results. `ConsoleApp` has the short form of this, in which
raw mode is a flag.

**Cli.** A line of `config.txt` or a token of the command line is a record of its
symbols and of what it means to the person who wrote it (`key`, `value`); the
model reads the former, the properties the latter. `LineProgram` says what a text
means by a grammar that knows nothing of trimming and splitting (`IsLine`, `IsToken`:
a setting is the name at one position, the equals sign at a later one, an integer
between two more, and blanks elsewhere), and `MeaningAssumption` that the records
given to `Cli` agree with it. The theorem `EverythingMeansSomething` says that each
text has a meaning there, so the assumption excludes none. `ReadConfigLine` is one turn of the
loop of `loadConfigFile`, `ReadOption` one of `parseCli`. `wellFormedInteger` and
`saturateToInt` do what `parseFullInteger` does, which `Interpreter` models. A
warning is named by its kind.

**LineProgram.** `Configure` is `parseCli`, before anything else; `RunPlainLineMode` is
what `main` and `ConsoleApp::run` do when the file and the options are read and there is no
terminal or `--no-tty` was given. What the line mode does not use (the polling period,
the printed warnings, what was read) is forgotten there.

Definitions named `Bug...` are the definition after them with a plausible
mistake. No specification uses them; they are exchanged for the original to see
that the property meant to catch the mistake does.

## 3. What is checked

| Run | Shows | States |
| --- | --- | --- |
| `line_program` | `ProgramTypeOK`, `TextIsDrawable`, `SpeedIsNearestToTheNumber`, `LastValueWins`, `EveryProblemIsReported`, `RejectedLineChangesNothing`, and that LineProgram implements `Spec` of PlainLineMode | 372 thousand |
| `frames` | `FreshStartOwesFrame`, `JoinedMeansSilent`, `EchoIsCurrent`, `BandNeverSkips`, `IsADisplay`, with edited lines and a failing console | 1.2 million |
| `speed` | `NoLostWakeup`, `SleepEndsByDeadline` with two client threads, `set_speed` and `wake` | 3.0 million |
| `liveness` | `StopEndsWorker`, `IsAPromptDisplay`, `MarqueeAdvances`, `ResizeIsPainted` | 205 thousand |
| `program` | `AppTypeOK`, `OneWriter`, `CleanExit`, `NoInputAfterQuit`, that ConsoleApp implements `Spec` of Scheduler, `InputNeverWaitsForConsole`, and, if console writes return, `QuitExits` and `SignalWhileReadingExits` | 179 thousand |
| `screen` | `LayoutFits`, `ScreenIsTheFrame`, `BandAndPromptAreVisible`, `MessageBeforeChrome`, `BandScrollsByOne` | 1,516 |
| `posix_input` | `EventsAreKeys`, `EofMeansClosed`, `CallIsBounded`, `IdleCallsWait`, `EscapeIsReleased`, with a device that is closed, broken or dry | 2.4 million |
| `win32_input` | `KeystrokesAreDelivered`, `WaitIsNotWasted`, with a console that fails | 63 thousand |
| `terminal_modes` | `RestoredAtExit`, `ModesFollowTheFlag` on both platforms | 12 thousand |

Three runs state what a comment or document says and the code does not do; each
ends with a counterexample, and `PROJECT.json` ("findings") quotes the sentence:

- `signal_claim` (`EverySignalExits`): a signal between the read and the clear of
  the flag is forgotten. `SignalWhileReadingExits` is what does hold.
- `polling_claim` (`PollingNeverDelaysAFrame`): after a slow write the deadline is
  behind the worker, and it sleeps all of `pollingMs`. `SleepEndsByDeadline` is
  what does hold: a deadline that is still ahead is not overslept.
- `band_claim` (`OnlyDeadlinesMoveTheBand`): an echo shows the band one column
  ahead of the rendered frame before it. `BandNeverSkips` is what does hold.

Other places where the code does less than a document or comment says appear as the
condition under which a property of a passing run holds. Without the condition TLC
finds it violated:

- A terminal of one row shows the prompt only (`renderer.cpp:90`), although
  `docs/PPT_TECHNICAL_REPORT.md:178` says that the band is never dropped.
  `BandAndPromptAreVisible` speaks of two rows and more.
- An arrow key whose bytes come more than 5 ms apart types its letters
  (`terminal_posix.cpp:130`), although arrows are said to be ignored. `EventsAreKeys`
  speaks of sequences that arrive at once.
- A device that fails every read makes the input loop spin (`terminal_posix.cpp:39`),
  although `docs/PPT_TECHNICAL_REPORT.md:711` says "there is no spin". `IdleCallsWait`
  speaks of devices that do not fail.
- A `read` of 0 bytes ends the input (`terminal_posix.cpp:40`), also on an open device
  that is dry. `EofMeansClosed` and `EventsAreKeys` except it: the code cannot tell such a
  device from a closed one. What they do say is that a wait in which `poll` reported
  nothing, a signal and an error are never taken for the end.
- The key-down record of Shift alone stays in the console's queue
  (`terminal_win32.cpp:154`), since the draining stops at it and `_kbhit` skips it, and
  every wait ends at once until a key with a character follows. `WaitIsNotWasted`
  excepts such a record.
- The byte 224 as a character takes the next key with it (`terminal_win32.cpp:161`).
  `KeystrokesAreDelivered` excepts it.
- A console that fails under a running program is either waited on for nothing, again and
  again, or ends the input (`terminal_win32.cpp:100`, `:160`). Both properties of
  `win32_input` speak of a console that can be read.

**Bounds.** The periods are 1 to 3 ms instead of 1 to 10000, which is enough for
a deadline ahead, at and behind the worker, and for a polling period shorter and
longer than it. `AgeMax` saturates `sinceRender` at the greatest refresh period,
beyond which the code does not distinguish. `cycles` is counted modulo
`CyclesMod`, 3 where positions are compared (so a step of two is not a step
back), 2 or 1 where only movement or nothing about it matters. `TypedLines`
limits what is on the line to the beginnings of the commands a run is about: start
and stop in `frames`, a start and `set_speed` below its range in `speed`; other
commands are covered by `line_program`, and the echo of a new text
by the proof of `EchoIsCurrent` alone (`ScreenFollowsInput`), since typing it makes
the instances too large. `MaxWakes` is 1 where `wake` is
called: one call before, during and after a wait are the three cases. `IntMax`
is 99 and `Saturated` 500 in `line_program`, so that four digits go through
both limits. Two sizes are enough for a resize; both platforms report only sizes
with rows and columns (an unknown one becomes 24 by 80), which the assumption
`SizesAssumption` says.

`screen` has five terminals: one row, one column, two columns, two rows (where the
band moves up), and one with room for everything and a separator; messages of
none to seven lines, which is more than any of them holds but the largest; and the
text `ab` through all positions and beyond the wrap. Small sizes are what the
layout is hard on; that it fits on every size is proved. In the input runs three
keys are enough for one key to be typed ahead of, during and after another's
sequence; `TimeoutMs` and `EscapeFollowUpMs` are 1 to 3 ms and differ, so
that the waits can be told apart, and `MaxElapsed` stops the clock one past the
longest call. `MaxSignals` is 1; a signal ends a wait, so more do not add. In
`terminal_modes` the flags are those the code sets, those it clears and (on POSIX) one it
leaves alone, in every combination, and three calls of the owner are enough for
enter, enter and restore. `line_program` has two lines and two options: two of each
layer and one layer above the other, with every kind of mistake in each place.

**Fairness.** Each worker step is weakly fair: the mutex is held only for field
updates and for building a frame, never while something blocks. `Elapse` is
weakly fair, so timeouts end. No client is obliged to post, no spurious wake-up
has to come, and a client that posts for ever is allowed, which is what makes
`StopEndsWorker` and `MarqueeAdvances` worth checking. A console write is assumed
to return in `FairSpec` and `AppFairSpec`; `StalledConsoleSpec`, under which `program`
is checked, drops that. With a console that blocks for ever the program cannot be
left, because `join` waits for the worker: `QuitExits` and `SignalWhileReadingExits`
have `WorkerFairness` as their premise. The main thread is fair because
`readEvent` returns after `pollingMs` at the latest.

In `posix_input`, `FairSpec` says that the input thread runs or, where it only waits, time
passes; nothing is promised of the keyboard, and a dry device need not fill again.

Deadlock is checked in every run of `Scheduler`, `ConsoleApp` and `Screen`; the
program's own end is the explicit stutter `Exited`. It is not checked where the
model ends with the code: after the end of input (`line_program`, `posix_input`,
`win32_input`) and after the exit (`terminal_modes`).

## 4. What is proved

For every set of clients, keys, typed lines and sizes, every range and period, and
a console that may or may not fail:

| Theorem | Says |
| --- | --- |
| `TypeCorrect`, `AppTypeCorrect` | the types of all variables |
| `NoWakeupIsLost` | `Spec => []NoLostWakeup` |
| `ScreenFollowsInput` | `Spec => []EchoIsCurrent` |
| `StartPaintsAtOnce` | `Spec => []FreshStartOwesFrame` |
| `DeadlineIsNotOverslept` | `Spec => []SleepEndsByDeadline` |
| `BandMovesByOne` | `Spec => BandNeverSkips`, an action property |
| `JoinSilencesWorker` | `Spec => []JoinedMeansSilent` |
| `AppRefinesScheduler` | `AppSpec => Spec`: every theorem above holds of the whole program |
| `TerminalHasOneWriter`, `ExitIsClean`, `QuitEndsInput` | the exit protocol |
| `SchedulerIsADisplay`, `ProgramIsADisplay` | `Spec => D!Spec`, `AppSpec => D!Spec` |
| `LayoutAlwaysFits` | `Spec => []LayoutFits` of `Screen`: for every size, text and message |
| `ScreenShowsTheFrame` | `Spec => []ScreenIsTheFrame`: a whole frame of the right size is all that the cells show |
| `BandAndPromptAreShown`, `MessageIsShownFirst` | `[]BandAndPromptAreVisible`, `[]MessageBeforeChrome`: what the cells show |
| `BandMovesByOneColumn`, `BandMovesOnScreen` | the band one cycle later is the band shifted by one column, in a frame and in the cells (`BandScrollsByOne`, an action property) |
| `EofIsGenuine`, `KeysBecomeEvents` | `[]EofMeansClosed`, `[]EventsAreKeys` of `PosixInput`, for any number of keys |
| `InputTypeCorrect`, `CallsAreBounded`, `IdleCallsAlwaysWait` | types and clocks of `PosixInput`, `[]CallIsBounded`, and `IdleCallsWait`, an action property |
| `Win32TypeCorrect`, `KeystrokesBecomeEvents` | types, and `[]KeystrokesAreDelivered` of `Win32Input`, for any number of keys |
| `WaitIsNeverWasted` | `Spec => WaitIsNotWasted`, an action property |
| `ModesAlwaysFollowTheFlag` | `Spec => []ModesFollowTheFlag` for all flags and any number of calls |
| `AlwaysRestoredAtExit` | `Spec => []RestoredAtExit` |
| `PlainTypeCorrect`, `TextIsAlwaysDrawable`, `RefusedLinesChangeNothing` | plain line mode, for any lines |
| `MagnitudeIsExact` | the digit loop computes the number, cut off at `Saturated`, for any number of digits |
| `SpeedIsAlwaysNearest` | `Spec => []SpeedIsNearestToTheNumber` |
| `DigitsSaturate`, `SaturationIsHarmless` | one digit more commutes with saturation; the period set is the legal one nearest to the exact number |
| `StartTypeCorrect`, `ProgramTypeCorrect` | no file, option or command takes a parameter out of its range |
| `LastValueAlwaysWins`, `EveryProblemIsAlwaysReported` | `ProgramSpec => []LastValueWins`, `[]EveryProblemIsReported`, for files and command lines of any length and text |
| `EverythingMeansSomething` | every text is a line and an option of the grammar that these two assume |
| `ProgramIsPlainLineMode` | `ProgramSpec => Spec`: the theorems about plain line mode hold of the program |

The argument. `TypeOK` alone is not inductive: were a worker started while
another is writing, a write without a frame would follow, so `TypeInv` adds which
worker exists and what it holds (`JoinedMeansSilent`, `FrameWhileWriting`), that
the size it builds for was read (`SizeWasRead`) and that it has seen no wake-up of
the future (`SeenIsPast`). The other invariants are inductive relative to
`TypeInv`. `EchoIsCurrent` speaks only of states in which nothing is owed; its
inductive form `EchoInv` speaks of the frame in the worker's hands and of the one
on the terminal separately, and says of each how its band position relates to
`cycles`; `BandNeverSkips` follows from its last conjunct. For ConsoleApp,
`EventWasRead` (what is about to be posted was read) is what makes each step a
scheduler step, and `MainInv` ties `mpc` to the worker, the quit flag and the
signal: no worker before `start` and after `join`, no quit pending while keys are
read.

The refinement of `Display` maps the initial state and each action of Scheduler to a
step or a stutter of Display; it needs `TypeInv`, which says that a worker at `tick` has no
frame in its hands and that one worker exists, and its longest part is that a
step changes `DisplayMode` only as `Open`, `Close` and `Take` allow.
`ProgramIsADisplay` then follows from `AppRefinesScheduler`.

*Screen.* `RendererProofs` first bounds each count (`MessageCount`, `Capacity`,
`ChromeCount`) and the length of each block, and shows that the blocks are ordered from
top to bottom: title, band, chrome, message, prompt. The invariant `SizeInv` says that
sizes and displays are among the given ones. `ScreenIsTheFrame` is inductive with it:
`AfterWrite` of a frame of the terminal's own size changes every cell of every row,
including the corner that is erased instead of written, so the cells before it do not
matter. The other three properties then speak of `Shown`, the cells of a whole frame, and
`LineAt` finds for each row the one block that covers it. `BandMovesByOneColumn` splits on
whether the count wraps.

*Input.* `TypeOK` of `PosixInput` is inductive with `TimeInv`, which says how much of the
limit of a stage is used and left; `CallIsBounded` and `IdleCallsWait` follow. `EofInv`
says that without a request for the end only bytes that cannot ask for it are on the way, and
only events that do not mean it were delivered, unless a `read` found nothing (`FoundEmpty`).
`KeyInv` is the invariant behind `EventsAreKeys`: the bytes sent by the keys typed are
those read and those pending, and the read ones end at the end of a key (`Whole`),
inside the sequence of one (`Part`), or at the end of input (`Finished`), with
exactly the events of the keys before. `KeyInv` of `Win32InputProofs` says the same of
records, with the second half of an extended key set aside as the inside of one, and the records
that answer nothing removed. Both need that `FlattenSeq` of one more key is the old one
and the key's own, which is proved in `SequenceLemmas`.

*Terminal modes.* `ModesInv` adds to the two properties what holds inside
`enterRawMode`: what is kept is what was found, and the output mode alone is
changed between the two calls.

*Plain line mode.* That a stored text stays drawable rests on `set_text` storing a trimmed
text of printable symbols, and that a refusal changes nothing on which responses are
refusals. `MagnitudeIsExact` is an induction over the digits whose step is
`DigitsSaturate`; with `SaturationIsHarmless` it gives `ExecuteLineIsNearest`, and `SpeedInv`
remembers what the last accepted `set_speed` line said.

*The start.* Each line of the file and each option keeps the parameters in their ranges
(`StartInv`), whatever text it holds; the period that the line mode begins with is then one
its specification admits, and every other step of the program is a step of it or leaves it
alone. That a line does what it says goes through the positions of its parts:
`PlacesExist` finds the ends of what `TrimLine` keeps of the line, of the key and of the
value, `TrimmedIsUnique` says that there is no other choice, and `SettingIsTaken`
and `TakenIsSetting` that these are the positions of a setting of the grammar, if there is one. The
carriage return of a CRLF file extends the line by a filler and changes none of this
(`SettingExtends`, `SettingIsInside`). `Follows` is what a line or an option does to the parameters and the
number of warnings, and `ReadInv` says at every moment what the two theorems say at the end:
the parameters are those of what was read so far, option after line because no
option is read before the file is (`file # <<>> => given.options = <<>>`).

`InterpreterProofs` has the lemmas about the other pure operators: a trimmed text
begins and ends with a symbol that is kept, `ClampRefresh` stays in its range,
and `Feed` keeps the types. Induction over numbers is written with the least
counterexample (`LeastOf`, `UpTo` in `SequenceLemmas`), since the library's
induction theorems take an operator as a parameter.

The assumptions are those on the constants (`RangesAssumption`,
`WidthAssumption`, `AlphabetAssumption`, `ClientsAssumption`, `KeysAssumption` of three
modules, `SizesAssumption`, `PollingAssumption`, `BoundsAssumption`, `MainAssumption`,
`ScreenSizesAssumption`, `DisplaysAssumption`, `PartialAssumption`,
`DevelopersAssumption`, `TextsAssumption`,
`LinesAssumption`, `WaitsAssumption`, `WaitAssumption`, `StartAssumption`,
`MeaningAssumption`); TLC evaluates
them in every run. `KeysAssumption` of the input modules says that the keys are among those
whose bytes or records the module lists; `DisplaysAssumption` and `TextsAssumption` that
texts are finite sequences and that a blank is no line break.

Every invariant and every action property of the passing runs is proved. Only model-checked
is what is under fairness or a leads-to, since liveness and ENABLED are out of the prover's
reach: `StopEndsWorker`, `IsAPromptDisplay`, `MarqueeAdvances`, `ResizeIsPainted`,
`QuitExits`, `SignalWhileReadingExits`, `InputNeverWaitsForConsole` and
`EscapeIsReleased`.

## 5. What is not modelled

- The wording of responses and warnings: the kind is what the program's state
  depends on.
- `visibleSlice`, which the program does not call; the prompt row has the same
  arithmetic in `VisibleSlice` of `Renderer`.
- `isTty`, `flush`, `nowMs` and `snapshot`, which ask and change nothing; a clock
  that fails. `size` is modelled by its results: the default of 24 by 80 for an
  unknown size is one of `Sizes`.
- A standard handle of Windows that is invalid: `isTty` is then false and the
  program runs in plain line mode. A console that fails later is modelled.
- The failure of `std::thread` to start, and signals in plain line mode, whose effect on
  `std::getline` the standard library decides.
- Memory: no allocation fails.
- Tests, documents and scripts, which are no part of the program.

## 6. Plan

Every component that changes state is modelled, and every safety property that a run checks
is proved. What is left:

1. A bound on how late a frame can be, as a safety property of `Scheduler` with a
   clock that does not stop at `AgeMax`.
2. The safety half of the liveness properties as invariants with a proof of their own: which
   state a stopping worker or a pending quit can be in, so that only the fairness argument
   stays with TLC.
