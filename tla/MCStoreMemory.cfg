SPECIFICATION Spec
CONSTANTS
    Backend = "memory"
    Stores = {s1}
    Writers = {w1, w2}
    Series = {x, y}
    a = a
    b = b
    Snapshots = {a, b}
    InputSnapshots <- Inputs
    CounterMax = 4
    MaxDamage = 0
    None = None
SYMMETRY Symmetry
PROPERTIES
    ResolverOrderKept
