------------------------- MODULE TerminalModesProofs -------------------------
(***************************************************************************)
(* Proofs that the terminal gets its modes back, for every set of flags,   *)
(* every number of calls and every failure of a system call.               *)
(***************************************************************************)
EXTENDS TerminalModes, TLAPS

\* raw_ and the kept modes at each place of the program: nothing is kept that was
\* raw, and what is half changed is still to be completed or taken back.
ModesInv ==
    /\ platform \in {"posix", "win32"}
    /\ pc \in {"idle", "setOut", "setIn", "exit", "done"}
    /\ raw \in BOOLEAN
    /\ found = [in |-> found.in, out |-> found.out]
    /\ raw => saved = found /\ modes = RawModes(platform, found) /\ pc = "idle"
    /\ pc \in {"setOut", "setIn"} => saved = found
    /\ pc = "setIn" => modes = [in |-> found.in, out |-> VtOutputMode(platform, found.out)]
    /\ ~raw /\ pc # "setIn" => modes = found
    /\ active => platform = "win32"
    /\ platform = "win32" /\ ~active => pc \in {"exit", "done"}
    /\ platform = "posix" => pc # "setOut"

LEMMA ModesAreInvariant == Spec => []ModesInv
<1>1. Init => ModesInv
    BY DEF Init, ModesInv, Modes
<1>2. ModesInv /\ [Next]_vars => ModesInv'
    <2> SUFFICES ASSUME ModesInv, [Next]_vars
                 PROVE  ModesInv'
        OBVIOUS
    <2>0. platform \in {"posix", "win32"}
        BY DEF ModesInv
    <2>1. CASE EnterRawMode
        <3>1. platform' = platform /\ modes' = modes /\ raw' = raw /\ active' = active /\ found' = found /\ pc = "idle"
            BY <2>1 DEF EnterRawMode
        <3>2. CASE raw
            BY <2>1, <3>1, <3>2 DEF ModesInv, EnterRawMode
        <3>3. CASE ~raw /\ pc' \in {"idle", "exit"} /\ saved' = saved
            BY <3>1, <3>3 DEF ModesInv
        <3>4. CASE ~raw /\ saved' = modes /\ pc' = IF platform = "win32" THEN "setOut" ELSE "setIn"
            <4>1. CASE platform = "win32"
                BY <3>1, <3>4, <4>1 DEF ModesInv
            <4>2. CASE platform = "posix"
                <5>1. modes = [in |-> found.in, out |-> VtOutputMode(platform, found.out)]
                    BY <3>1, <3>4, <4>2 DEF ModesInv, VtOutputMode
                <5> QED  BY <3>1, <3>4, <4>2, <5>1 DEF ModesInv
            <4> QED  BY <2>0, <4>1, <4>2
        <3> QED  BY <2>1, <3>2, <3>3, <3>4 DEF EnterRawMode
    <2>2. CASE SetOutputMode
        <3>1. modes = found /\ saved = found /\ ~raw /\ platform = "win32"
            BY <2>2 DEF ModesInv, SetOutputMode
        <3>2. CASE pc' = "setIn"
            <4>1. modes' = [found EXCEPT !.out = VtOutputMode(platform, found.out)]
                BY <2>2, <3>1, <3>2 DEF SetOutputMode
            <4>2. modes' = [in |-> found.in, out |-> VtOutputMode(platform, found.out)]
                BY <4>1 DEF ModesInv
            <4> QED  BY <2>2, <3>1, <3>2, <4>2 DEF ModesInv, SetOutputMode
        <3>3. CASE pc' = "exit"
            BY <2>2, <3>1, <3>3 DEF ModesInv, SetOutputMode
        <3> QED  BY <2>2, <3>2, <3>3 DEF SetOutputMode
    <2>3. CASE SetInputMode
        <3>1. /\ modes = [in |-> found.in, out |-> VtOutputMode(platform, found.out)]
              /\ saved = found /\ ~raw
            BY <2>3 DEF ModesInv, SetInputMode
        <3>2. CASE raw'
            <4>1. modes' = RawModes(platform, found)
                BY <2>3, <3>1, <3>2 DEF SetInputMode, RawModes
            <4>2. platform = "win32" => active
                BY <2>3, <3>1 DEF ModesInv, SetInputMode
            <4> QED  BY <2>3, <3>1, <3>2, <4>1, <4>2 DEF ModesInv, SetInputMode
        <3>3. CASE ~raw'
            <4>1. modes' = [in |-> found.in, out |-> found.out]
                BY <2>3, <3>1, <3>3 DEF SetInputMode
            <4> QED  BY <2>3, <3>1, <3>3, <4>1 DEF ModesInv, SetInputMode
        <3> QED  BY <3>2, <3>3
    <2>4. CASE Restore
        BY <2>4 DEF ModesInv, Restore, BringBack
    <2>5. CASE Destroy
        BY <2>5 DEF ModesInv, Destroy, BringBack
    <2>6. CASE AtExit
        BY <2>6 DEF ModesInv, AtExit, BringBack
    <2>7. CASE UNCHANGED vars
        BY <2>7 DEF ModesInv, vars
    <2> QED  BY <2>1, <2>2, <2>3, <2>4, <2>5, <2>6, <2>7 DEF Next
<1> QED  BY <1>1, <1>2, PTL DEF Spec

\* terminal_win32.cpp:56-82, terminal_posix.cpp:48-69: outside enterRawMode() the
\* modes are the raw ones or the ones the program found, as raw_ says.
THEOREM ModesAlwaysFollowTheFlag == Spec => []ModesFollowTheFlag
<1>1. ModesInv => ModesFollowTheFlag
    BY DEF ModesInv, ModesFollowTheFlag
<1> QED  BY <1>1, ModesAreInvariant, PTL

\* terminal_win32.cpp:40-82, 200-214, terminal_posix.cpp:46-69: the program leaves
\* the modes it found, by the destructors and after a failed start.
THEOREM AlwaysRestoredAtExit == Spec => []RestoredAtExit
<1>1. ModesInv => RestoredAtExit
    BY DEF ModesInv, RestoredAtExit
<1> QED  BY <1>1, ModesAreInvariant, PTL

=============================================================================
