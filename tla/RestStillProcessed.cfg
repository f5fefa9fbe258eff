\* The sweep alone; mail m3 raises.
SPECIFICATION IngestFairSpec
CONSTANTS
    m1 = m1  m2 = m2  m3 = m3  r1 = r1  r2 = r2
    SecondMail = "torn"
    ThirdMail = "poison"
    Messages <- MCMessages
    Reports <- MCReports
    Identified <- MCIdentified
    ReportOf <- MCReportOf
    MailKind <- MCMailKind
    NoReport = NoReport
    Sweep = sweep
    Fetchers = {}
    Uploaders = {}
    ChunkSize = 2
    MaxValidity = 1
    MayAge = {}
    MaxIngestFaults = 0
    MaxRows = 2
PROPERTY RestStillProcessed
CHECK_DEADLOCK FALSE
