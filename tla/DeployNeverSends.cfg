\* A manual refresh finishes before the job's first run does.
SPECIFICATION SendsSpec
CONSTANTS
    TargetCount = 1
    Silent = {}
    Broken = {}
    Job = job
    Refreshers = {refresh}
    None = none
    Interval = 1
    MaxTime = 1
    MayConfigure = {}
    MayEdit = FALSE
    MaxBoots = 2
    MaxSendFaults = 0
PROPERTY DeployNeverSends
CHECK_DEADLOCK FALSE
