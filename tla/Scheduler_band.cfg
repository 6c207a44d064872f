SPECIFICATION Spec
CONSTANTS
    Letters = {}
    Controls = {}
    RefreshMin = 1
    RefreshMax = 2
    IntMax = 9
    Saturated = 50
    DefaultRefreshMs = 2
    Clients = {main}
    Owner = main
    Keys <- ToggleKeys
    Sizes = {s1}
    NoSize = none
    PollingMs = 1
    PollMax = 2
    AgeMax = 2
    CyclesMod = 3
    TypedLines <- ToggleLines
    MaxWakes = 0
    WriteMayFail = FALSE
PROPERTY OnlyDeadlinesMoveTheBand
