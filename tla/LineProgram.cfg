SPECIFICATION ProgramSpec
CONSTANTS
    Letters = {"x"}
    Controls = {"BEL"}
    RefreshMin = 1
    RefreshMax = 12
    IntMax = 99
    Saturated = 500
    DefaultRefreshMs = 10
    PollMin = 1
    PollMax = 8
    BuiltInRefreshMs = 10
    BuiltInPollingMs = 2
    Lines <- MCLines
    ConfigLines <- MCConfigLines
    Options <- MCOptions
    MaxLines = 2
    MaxOptions = 2
INVARIANTS ProgramTypeOK TextIsDrawable SpeedIsNearestToTheNumber LastValueWins EveryProblemIsReported
PROPERTIES RejectedLineChangesNothing Spec
CHECK_DEADLOCK FALSE
