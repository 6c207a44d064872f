SPECIFICATION Spec
CONSTANTS
    TimeoutMs = 2
    Keys = {"H", "Enter", "CtrlA", "CtrlC", "ArrowUp", "F1", "Agrave", "Shift", "Switch"}
    MaxKeys = 3
CHECK_DEADLOCK FALSE
INVARIANT KeystrokesAreDelivered
PROPERTY WaitIsNotWasted
