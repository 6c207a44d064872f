SPECIFICATION FairSpec
CONSTANTS
    TimeoutMs = 3
    EscapeFollowUpMs = 2
    Keys = {"x", "Enter", "Backspace", "Tab", "CtrlA", "CtrlD", "Escape", "ArrowUp", "ArrowLeft", "Delete"}
    Faults = {"closed", "broken", "dry"}
    MaxKeys = 3
    MaxSignals = 1
CHECK_DEADLOCK FALSE
INVARIANTS EventsAreKeys EofMeansClosed CallIsBounded
PROPERTIES IdleCallsWait EscapeIsReleased
