\* Safety of all four parts.  The sweep and one Fetch button on three mails, m2
\* a torn copy of m1's report and m3 malformed; one report email, the Refresh
\* button and a /settings page, no fault of the sends (BackgroundLive.cfg has it);
\* three events; each check over its whole world.
SPECIFICATION BackgroundSpec
CONSTANTS
    Followed = {"ingest", "sends", "drain", "checks"}
    m1 = m1  m2 = m2  m3 = m3  r1 = r1  r2 = r2
    SecondMail = "torn"
    Messages <- MCMessages
    Reports <- MCReports
    Identified <- MCIdentified
    ReportOf <- MCReportOf
    MailKind <- MCMailKind
    NoReport = NoReport
    Sweep = sweep
    ChunkSize = 2
    MaxValidity = 2
    MayAge = {m1}
    MaxIngestFaults = 1
    MaxRows = 2
    Job = job
    None = none
    Interval = 1
    MaxTime = 2
    MaxBoots = 2
    MaxSendFaults = 0
    e1 = e1  e2 = e2  e3 = e3  a1 = a1  a2 = a2
    SecondAddress = a2
    ThirdEvent = "delivery"
    Events <- MCEvents
    EventKind <- MCEventKind
    Addresses <- MCAddresses
    AddressOf <- MCAddressOf
    BatchSize = 2
    MaxSecond = 3
    MaxDrainFaults = 1
    MaxChanges = 3
    Zones = {"spamhaus", "barracuda"}
    Domains = {"apex", "news"}
    Destinations = {"collector", "analyzer"}
    Candidates = {"lookalike"}
    ThirdMail = "malformed"
    Fetchers = {fetch}
    Uploaders = {}
    TargetCount = 1
    Silent = {}
    Broken = {}
    Refreshers = {refresh}
    MayConfigure = {}
    MayEdit = TRUE
INVARIANTS
    BackgroundTypeOK
    WatermarkCovers StoredAtMostOnce HandledIsStored
    StatusIsHonest RepeatsBounded
    DeletedIsCounted CountsAgree NewIsAnnounced ReviewedStaysOld
    OneSpfStory OneRateTier KnownLookalikesQuiet
PROPERTIES
    DeployStaysQuiet
    ClearedOnAnswers ClosedStaysQuiet
CHECK_DEADLOCK FALSE
