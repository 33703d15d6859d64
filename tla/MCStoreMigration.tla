--------------------------- MODULE MCStoreMigration ---------------------------
EXTENDS StoreMigration, TLC

Symmetry == Permutations(Handles)
=============================================================================
