SPECIFICATION Spec
CONSTANTS
    t1 = t1
    t2 = t2
    None = None
    Tasks <- MCTasks
    Size <- MCSize
    Projections <- MCProjections
    RecordPayload = 1
    Censuses <- MCCensuses
    MaxTasks = 3
    MaxAggregateBytes = 4
    MaxRecordBytes = 91
    MaxSpoolBytes = 200
    ReportTailBytes = 4
    MaxReportBytes = 4
    Sections <- MCSections
    Reentrant = {"publish"}
    Reassigned = TRUE
CHECK_DEADLOCK FALSE
INVARIANT PublishedWasProven
PROPERTY ImplementsOneShot
