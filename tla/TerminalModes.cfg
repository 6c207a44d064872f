SPECIFICATION Spec
CONSTANTS
    InFlags = {"ICRNL", "ICANON", "IEXTEN", "QUICK_EDIT", "LINE", "EXTENDED"}
    OutFlags = {"VT", "NO_AUTO_RETURN"}
    MaxCalls = 3
CHECK_DEADLOCK FALSE
INVARIANTS RestoredAtExit ModesFollowTheFlag
