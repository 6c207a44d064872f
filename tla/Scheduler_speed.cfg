SPECIFICATION Spec
CONSTANTS
    Letters = {}
    Controls = {}
    RefreshMin = 1
    RefreshMax = 2
    IntMax = 9
    Saturated = 50
    DefaultRefreshMs = 2
    Clients = {main, helper}
    Owner = main
    Keys <- FasterKeys
    Sizes = {s1}
    NoSize = none
    PollingMs = 2
    PollMax = 2
    AgeMax = 2
    CyclesMod = 1
    TypedLines <- FasterLines
    MaxWakes = 1
    WriteMayFail = FALSE
INVARIANTS NoLostWakeup SleepEndsByDeadline
