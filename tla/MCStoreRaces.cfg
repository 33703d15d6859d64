SPECIFICATION Spec
CONSTANTS
    Backend = "sqlite"
    Stores = {s1, s2}
    Writers = {w1}
    Series = {x}
    a = a
    b = b
    Snapshots = {a, b}
    InputSnapshots <- Inputs
    CounterMax = 4
    MaxDamage = 1
    None = None
SYMMETRY Symmetry
INVARIANTS
    TypeOK
    DatabaseConsistent
    CommittedIsDurable
    ViewsArePast
PROPERTIES
    BasisStrictlyPrior
    ImplementsSeries
