\* Liveness of all four parts.  The sweep and one upload, mail m3 raising; target
\* 1 with nothing to report, target 3 not to be rendered; three events; each check
\* over its whole world.  Fewer doings of users than in Background.cfg, and one fault
\* of the sends, under which RepeatsBounded is checked again.
SPECIFICATION BackgroundFairSpec
CONSTANTS
    Followed = {"ingest", "sends", "drain", "checks"}
    m1 = m1  m2 = m2  m3 = m3  r1 = r1  r2 = r2
    SecondMail = "torn"
    Messages <- MCMessages
    Reports <- MCReports
    Identified <- MCIdentified
    ReportOf <- MCReportOf
    MailKind <- MCMailKind
    NoReport = NoReport
    Sweep = sweep
    ChunkSize = 2
    MaxValidity = 2
    MayAge = {}
    MaxIngestFaults = 1
    MaxRows = 2
    Job = job
    None = none
    Interval = 1
    MaxTime = 2
    MaxBoots = 2
    MaxSendFaults = 1
    e1 = e1  e2 = e2  e3 = e3  a1 = a1  a2 = a2
    SecondAddress = a2
    ThirdEvent = "delivery"
    Events <- MCEvents
    EventKind <- MCEventKind
    Addresses <- MCAddresses
    AddressOf <- MCAddressOf
    BatchSize = 2
    MaxSecond = 1
    MaxDrainFaults = 1
    MaxChanges = 2
    Zones = {"spamhaus", "barracuda"}
    Domains = {"apex", "news"}
    Destinations = {"collector", "analyzer"}
    Candidates = {"lookalike"}
    ThirdMail = "poison"
    Fetchers = {}
    Uploaders = {upload}
    TargetCount = 3
    Silent = {1}
    Broken = {3}
    Refreshers = {}
    MayConfigure = {2}
    MayEdit = FALSE
INVARIANT
    RepeatsBounded
PROPERTIES
    EventuallyAccounted EventuallyReported EventuallyCounted ItemsFollowTheWorld
CHECK_DEADLOCK FALSE
