\* Lists in two spellings, and nothing goes wrong: no kill, no exception.
CONSTANTS
    FindingKeys = {}
    MaxMoves = 0
    Horizon = 1
    MaxBatches = 2
    MaxThreads = 2
    MaxIncidents = 0
    Replies <- SomeReplies
    Lists <- SomeLists
    People = {a1}
    Clicks = {c1, c2}
    NoticeEnd = 3
    MaxMishaps = 1
    Keep = 3
    MinDays = 1
    Window = 2
    RampSteps = {50}
    MaxSlips = 1
    Names = {a, b}
    MaxDomainId = 1
    Groups = {g}
    MaxRequests = 2
SPECIFICATION WorkbenchSpec
INVARIANT SixNumbersSum
CHECK_DEADLOCK FALSE
