---------------------------- MODULE TerminalModes ----------------------------
(***************************************************************************)
(* The modes of the terminal: enterRawMode() and restore() of both         *)
(* platforms, the destructors that main() relies on, and the exit handler  *)
(* of the Windows backend.                                                 *)
(*                                                                         *)
(* A mode is a set of flags.  Windows has one for the input and one for    *)
(* the output; termios has one, which is the input's here, and the output  *)
(* of POSIX has none.  Every system call that reads or sets a mode may     *)
(* fail, but for those that set a kept mode back, whose result the code    *)
(* does not look at: the calls of restore(), and the one of enterRawMode() *)
(* that takes the output mode back when the input mode cannot be set.  The *)
(* owner calls the two operations in any order, as the interface allows;   *)
(* main() enters once and leaves by the destructors.  exit() is called by  *)
(* fatalStartup() alone, within enterRawMode() and before raw_ is set.     *)
(***************************************************************************)
EXTENDS Integers

CONSTANTS
    InFlags, OutFlags,  \* the flags the modes are made of
    MaxCalls            \* bound: operations called by the owner

VARIABLES
    platform,   \* which one the program was built for: "posix" or "win32"
    modes,      \* of the terminal: [in, out]
    saved,      \* saved_, or savedIn_ and savedOut_
    raw,        \* raw_
    active,     \* g_active points to the terminal object
    pc,         \* "idle", "setIn", "setOut" (in enterRawMode), "exit", "done"
    calls,      \* history: operations called
    found       \* history: the modes the program found

vars == <<platform, modes, saved, raw, active, pc, calls, found>>

\* The modes a terminal may be found in.
Modes == [in : SUBSET InFlags, out : SUBSET (IF platform = "win32" THEN OutFlags ELSE {})]

----------------------------------------------------------------------------
\* What raw mode is.

Cooked(p) ==
    IF p = "posix"
    THEN {"ICRNL", "INLCR", "IXON", "OPOST", "ICANON", "ECHO", "ISIG"}
    ELSE {"QUICK_EDIT", "MOUSE", "WINDOW", "LINE", "ECHO", "PROCESSED", "VT_INPUT"}

\* VMIN and VTIME are zero in raw mode: one flag here.
RawInputMode(p, m) ==
    (m \ Cooked(p)) \cup {IF p = "posix" THEN "NO_WAIT" ELSE "EXTENDED"}

VtOutputMode(p, m) == IF p = "posix" THEN m ELSE m \cup {"VT", "NO_AUTO_RETURN"}

RawModes(p, m) == [in |-> RawInputMode(p, m.in), out |-> VtOutputMode(p, m.out)]

----------------------------------------------------------------------------
\* enterRawMode().

BugSavesTwice ==
    /\ pc = "idle" /\ calls < MaxCalls
    /\ calls' = calls + 1
    /\ saved' = modes
    /\ pc' = IF platform = "win32" THEN "setOut" ELSE "setIn"
    /\ UNCHANGED <<platform, modes, raw, active, found>>

\* The modes are read and kept, unless they are already raw or cannot be read:
\* then POSIX stays in line mode and Windows stops the program.
EnterRawMode ==
    /\ pc = "idle" /\ calls < MaxCalls
    /\ calls' = calls + 1
    /\ \/ raw /\ UNCHANGED <<saved, pc>>
       \/ /\ ~raw
          /\ saved' = modes
          /\ pc' = IF platform = "win32" THEN "setOut" ELSE "setIn"
       \/ ~raw /\ pc' = (IF platform = "win32" THEN "exit" ELSE "idle") /\ UNCHANGED saved
    /\ UNCHANGED <<platform, modes, raw, active, found>>

SetOutputMode ==
    /\ pc = "setOut"
    /\ \/ modes' = [modes EXCEPT !.out = VtOutputMode(platform, saved.out)] /\ pc' = "setIn"
       \/ pc' = "exit" /\ UNCHANGED modes
    /\ UNCHANGED <<platform, saved, raw, active, calls, found>>

BugOutputStaysVt ==
    /\ pc = "setIn"
    /\ \/ modes' = [modes EXCEPT !.in = RawInputMode(platform, saved.in)] /\ raw' = TRUE /\ pc' = "idle"
       \/ pc' = (IF platform = "win32" THEN "exit" ELSE "idle") /\ UNCHANGED <<raw, modes>>
    /\ UNCHANGED <<platform, saved, active, calls, found>>

SetInputMode ==
    /\ pc = "setIn"
    /\ \/ modes' = [modes EXCEPT !.in = RawInputMode(platform, saved.in)] /\ raw' = TRUE /\ pc' = "idle"
       \/ /\ modes' = [modes EXCEPT !.out = saved.out]
          /\ pc' = IF platform = "win32" THEN "exit" ELSE "idle"
          /\ UNCHANGED raw
    /\ UNCHANGED <<platform, saved, active, calls, found>>

----------------------------------------------------------------------------
\* restore() and the ways out.

BringBack ==
    /\ modes' = IF raw THEN saved ELSE modes
    /\ raw' = FALSE

Restore ==
    /\ pc = "idle" /\ calls < MaxCalls
    /\ calls' = calls + 1
    /\ BringBack
    /\ UNCHANGED <<platform, saved, active, pc, found>>

\* The destructor of the terminal object, when main() returns.
Destroy ==
    /\ pc = "idle"
    /\ active' = FALSE
    /\ BringBack
    /\ pc' = "exit"
    /\ UNCHANGED <<platform, saved, calls, found>>

\* restoreActiveTerminal(), which Windows registers with atexit(): it also runs when
\* main() has returned.
AtExit ==
    /\ pc = "exit"
    /\ pc' = "done"
    /\ IF active THEN BringBack ELSE UNCHANGED <<modes, raw>>
    /\ UNCHANGED <<platform, saved, active, calls, found>>

Init ==
    /\ platform \in {"posix", "win32"}
    /\ found \in Modes
    /\ modes = found /\ saved = [in |-> {}, out |-> {}] /\ raw = FALSE
    /\ active = (platform = "win32")
    /\ pc = "idle" /\ calls = 0

Next ==
    \/ EnterRawMode \/ SetOutputMode \/ SetInputMode
    \/ Restore \/ Destroy \/ AtExit

Spec == Init /\ [][Next]_vars

----------------------------------------------------------------------------
\* Properties.

\* Whatever failed on the way, and however often the owner entered and left raw
\* mode, the program leaves the terminal with the modes it found.
RestoredAtExit == pc = "done" => modes = found

\* Outside enterRawMode() the modes are raw exactly as far as raw_ says, and the
\* ones that are kept are those of before the first call: a half-made change is
\* taken back, raw modes are never saved as the ones to restore.
ModesFollowTheFlag ==
    pc = "idle" => modes = IF raw THEN RawModes(platform, found) ELSE found

=============================================================================
