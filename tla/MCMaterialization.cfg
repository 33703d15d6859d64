SPECIFICATION WriterSpec
CONSTANTS
    task = task
    None = None
    Tasks <- MCTasks
    Size <- MCSize
    Projections <- MCProjections
    RecordPayload = 1
    Censuses <- MCCensuses
    MaxTasks = 1
    MaxAggregateBytes = 4
    MaxRecordBytes = 91
    MaxSpoolBytes = 200
    ReportTailBytes = 4
    MaxReportBytes = 4
    Sections <- MCSections
    Reentrant = {}
    Reassigned = FALSE
    Backend = "sqlite"
    TaskResult = task
    Claimed <- MCClaimed
CHECK_DEADLOCK FALSE
INVARIANTS
    SuccessIsVerified
    AnswerIsExplained
    CleanedExactlyOnce
PROPERTIES
    ImplementsPublication
