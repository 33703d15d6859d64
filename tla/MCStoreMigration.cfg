SPECIFICATION Spec
CONSTANTS
    None = None
    Handles = {p1, p2}
    GenerationMax = 4
    Failing = {"arm", "begin", "build", "commit", "rollback", "close", "reopen"}
SYMMETRY Symmetry
INVARIANTS
    DescendantRecognised
    OutcomeTruthful
    AvailableIsSafe
PROPERTIES
    ImplementsHistory
