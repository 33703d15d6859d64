SPECIFICATION Spec
CONSTANTS
    Payloads = {p1, p2}
    Torn = Torn
    Hole = Hole
    MaxRecords = 3
    MaxGeneration = 3
CHECK_DEADLOCK FALSE
INVARIANTS
    FrontierRecoverable
    CheckpointIsPublished
    ResumedPrefixExact
    SoleCustodian
    NoUncleanedDestructor
PROPERTIES
    PublishedOnlyGrows
    EventuallyCleaned
