\* One export uploaded again and again; the report of mail m3 has no identity.
SPECIFICATION IngestSpec
CONSTANTS
    m1 = m1  m2 = m2  m3 = m3  r1 = r1  r2 = r2
    SecondMail = "torn"
    ThirdMail = "report"
    Messages <- MCMessages
    Reports <- MCReports
    Identified <- MCIdentified
    ReportOf <- MCReportOf
    MailKind <- MCMailKind
    NoReport = NoReport
    Sweep = sweep
    Fetchers = {}
    Uploaders = {upload}
    ChunkSize = 1
    MaxValidity = 1
    MayAge = {}
    MaxIngestFaults = 0
    MaxRows = 2
INVARIANT NeverDoubleCounted
CHECK_DEADLOCK FALSE
