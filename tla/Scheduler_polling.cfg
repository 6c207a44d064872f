SPECIFICATION Spec
CONSTANTS
    Letters = {}
    Controls = {}
    RefreshMin = 1
    RefreshMax = 3
    IntMax = 9
    Saturated = 50
    DefaultRefreshMs = 2
    Clients = {main}
    Owner = main
    Keys <- SpeedKeys
    Sizes = {s1}
    NoSize = none
    PollingMs = 3
    PollMax = 3
    AgeMax = 3
    CyclesMod = 1
    TypedLines <- SpeedLines
    MaxWakes = 0
    WriteMayFail = FALSE
INVARIANT PollingNeverDelaysAFrame
