-------------------------- MODULE MCSnapshotStore --------------------------
EXTENDS SnapshotStore, TLC

CONSTANTS a, b          \* snapshots: b is derived from a

Inputs == [c \in Snapshots |-> IF c = b THEN {a} ELSE {}]
Symmetry == Permutations(Writers) \cup Permutations(Stores) \cup Permutations(Series)
=============================================================================
