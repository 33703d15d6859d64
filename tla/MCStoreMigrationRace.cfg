SPECIFICATION Spec
CONSTANTS
    None = None
    Handles = {p1, p2}
    GenerationMax = 2
    Failing = {}
SYMMETRY Symmetry
INVARIANTS
    ConcurrentMigratorSucceeds
