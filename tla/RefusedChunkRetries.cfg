\* The sweep alone; one chunk is refused.
SPECIFICATION IngestSpec
CONSTANTS
    m1 = m1  m2 = m2  m3 = m3  r1 = r1  r2 = r2
    SecondMail = "torn"
    ThirdMail = "report"
    Messages <- MCMessages
    Reports <- MCReports
    Identified <- MCIdentified
    ReportOf <- MCReportOf
    MailKind <- MCMailKind
    NoReport = NoReport
    Sweep = sweep
    Fetchers = {}
    Uploaders = {}
    ChunkSize = 1
    MaxValidity = 1
    MayAge = {}
    MaxIngestFaults = 1
    MaxRows = 2
INVARIANT RefusedChunkRetries
CHECK_DEADLOCK FALSE
