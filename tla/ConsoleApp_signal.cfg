SPECIFICATION AppFairSpec
CONSTANTS
    Letters = {}
    Controls = {}
    RefreshMin = 1
    RefreshMax = 2
    IntMax = 9
    Saturated = 50
    DefaultRefreshMs = 2
    Clients = {main}
    Owner = main
    Keys <- MCKeys
    Sizes = {s1}
    NoSize = none
    PollingMs = 1
    PollMax = 2
    AgeMax = 2
    CyclesMod = 1
    TypedLines <- MCLines
    MaxWakes = 0
    WriteMayFail = FALSE
PROPERTY EverySignalExits
