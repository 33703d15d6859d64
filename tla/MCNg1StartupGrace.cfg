SPECIFICATION Spec
CONSTANTS
    HeartbeatTimeout = 2
    StartupGrace = 4
    SampleWindow = 2
    MaximumSampleGap = 4
    UnitsPerTick = 1
    PollInterval = 1
    HeartbeatKinds = {"probe", "ack"}
    WorkerEvents = {}
    Skews = {0}
    Bound = {TRUE}
    Totals = {}
    Digests = {}
    Acks = {}
    MaxTime = 6
    MaxSeq = 2
    MaxUnits = 0
CHECK_DEADLOCK FALSE
PROPERTIES
    StartupGraceOnly
