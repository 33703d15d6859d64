SPECIFICATION Spec
CONSTANTS
    HeartbeatTimeout = 2
    StartupGrace = 2
    SampleWindow = 3
    MaximumSampleGap = 3
    UnitsPerTick = 1
    PollInterval = 1
    HeartbeatKinds = {"probe", "ack"}
    WorkerEvents <- AllWorkerEvents
    Skews = {0, 1}
    Bound = {TRUE, FALSE}
    Totals = {2}
    Digests = {d1, d2}
    Acks = {0, 1}
    MaxTime = 4
    MaxSeq = 2
    MaxUnits = 2
SYMMETRY Symmetry
CHECK_DEADLOCK FALSE
INVARIANTS
    MinimumRateHeld
    SilenceBounded
PROPERTIES
    SealIsEarned
    TerminalIsFinal
