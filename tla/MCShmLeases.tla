---------------------------- MODULE MCShmLeases ----------------------------
EXTENDS ShmLeases, TLC

CONSTANTS m1, m2, a1, a2, t1, t2, o1, s1, s2

\* Attempts, attachments, threads and sessions are interchangeable.
Symmetry == Permutations(Maps) \cup Permutations(Attachments) \cup Permutations(Threads)
            \cup Permutations(Sessions)
=============================================================================
