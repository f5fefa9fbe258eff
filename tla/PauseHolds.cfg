\* A /settings page loaded before the pause is saved after it.
SPECIFICATION SendsSpec
CONSTANTS
    TargetCount = 2
    Silent = {}
    Broken = {}
    Job = job
    Refreshers = {refresh}
    None = none
    Interval = 1
    MaxTime = 1
    MayConfigure = {}
    MayEdit = TRUE
    MaxBoots = 2
    MaxSendFaults = 0
PROPERTY PauseHolds
CHECK_DEADLOCK FALSE
