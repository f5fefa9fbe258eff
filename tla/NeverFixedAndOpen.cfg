\* Both reputation findings, one move.
SPECIFICATION ReportSpec
CONSTANTS
    FindingKeys = {"mailgun", "ses"}
    MaxMoves = 1
    Horizon = 2
INVARIANT NeverFixedAndOpen
CHECK_DEADLOCK FALSE
