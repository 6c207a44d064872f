SPECIFICATION FairSpec
CONSTANTS
    Letters = {}
    Controls = {}
    RefreshMin = 1
    RefreshMax = 2
    IntMax = 9
    Saturated = 50
    DefaultRefreshMs = 2
    Clients = {main}
    Owner = main
    Keys <- StartKeys
    Sizes = {s1, s2}
    NoSize = none
    PollingMs = 1
    PollMax = 2
    AgeMax = 2
    CyclesMod = 2
    TypedLines <- StartLines
    MaxWakes = 0
    WriteMayFail = FALSE
PROPERTIES StopEndsWorker IsAPromptDisplay MarqueeAdvances ResizeIsPainted
