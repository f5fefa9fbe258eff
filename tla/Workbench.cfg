CONSTANTS
    FindingKeys = {"mailgun", "ses", "listed1", "listed2", "weakened", "lookalike", "address"}
    MaxMoves = 2
    Horizon = 3
    MaxBatches = 2
    MaxThreads = 2
    MaxIncidents = 1
    Replies <- SomeReplies
    Lists <- SomeLists
    People = {a1}
    Clicks = {c1, c2}
    NoticeEnd = 3
    MaxMishaps = 1
    Keep = 3
    MinDays = 1
    Window = 2
    RampSteps = {50}
    MaxSlips = 1
    Names = {a, b}
    MaxDomainId = 1
    Groups = {g}
    MaxRequests = 2
SPECIFICATION WorkbenchSpec
INVARIANTS
    WorkbenchTypeOK
    FixesAreTold SectionsAgree
    OneBatchProbes DoneMeansCounted BucketsAddUp
    NewsIsTold ToldOnce
    AdvisedUpward NoInventedClaim
    OwnRowsOnly CountedIsKept OncePerRun
PROPERTIES
    LockComesBack
    EnforcedInTheEnd
CHECK_DEADLOCK FALSE
