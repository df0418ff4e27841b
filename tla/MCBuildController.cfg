SPECIFICATION FairSpec
CONSTANTS
    b1 = b1
    b2 = b2
    b3 = b3
    g1 = g1
    Builds = {b1, b2, b3}
    Guids = {g1}
    Guid <- OneGuid
    Reason <- OneGuidReasons
    FinalAnswers = {"accept", "refuse"}
    MaxFaults = 1
    None = None
INVARIANTS TypeOK ReportsHonest NoReportLost
PROPERTIES Reported ComesToRest ImplementsReports
CHECK_DEADLOCK FALSE
