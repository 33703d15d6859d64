------------------------- MODULE GenerationCustody -------------------------
(***************************************************************************)
(* What the leases of ShmLeases promise of a mapping generation, without   *)
(* the callbacks, gates and cleanups that make them work.                  *)
(*                                                                         *)
(* Users need the writers' native mapping: holders, map attempts that are  *)
(* deciding on one of its pages, sessions with a place reserved in it.     *)
(* Borrowers have a native mapping of their own, published from it.  The   *)
(* writers' mapping is closed when its last user is gone, and the next     *)
(* generation begins when the last borrower is.                            *)
(***************************************************************************)
EXTENDS Integers

CONSTANTS Users, Borrowers

VARIABLES number, phase, users, borrowers

vars == <<number, phase, users, borrowers>>

Init == number = 0 /\ phase = "closed" /\ users = {} /\ borrowers = {}

\* The first holders of a generation.
Open(U) ==
    /\ phase = "closed" /\ borrowers = {}
    /\ U # {} /\ U \subseteq Users
    /\ phase' = "open" /\ number' = number + 1 /\ users' = U
    /\ UNCHANGED borrowers

\* A generation that is draining takes no new user.
Join(U) ==
    /\ phase = "open" /\ U \subseteq Users
    /\ users' = users \cup U
    /\ UNCHANGED <<number, phase, borrowers>>

Leave(U) ==
    /\ users' = users \ U
    /\ phase' \in IF phase = "open" THEN {"open", "draining"} ELSE {phase}
    /\ UNCHANGED <<number, borrowers>>

\* A session publishes its map, the first of its reader.
Publish(u, b) ==
    /\ phase \in {"open", "draining"} /\ u \in users /\ b \in Borrowers \ borrowers
    /\ users' = users \ {u} /\ borrowers' = borrowers \cup {b}
    /\ UNCHANGED <<number, phase>>

Return(b) ==
    /\ phase # "lost" /\ b \in borrowers
    /\ borrowers' = borrowers \ {b}
    /\ UNCHANGED <<number, phase, users>>

\* The native xShmUnmap of the last attachment was confirmed.
Close ==
    /\ phase = "draining" /\ users = {}
    /\ phase' = "closed"
    /\ UNCHANGED <<number, users, borrowers>>

\* An outcome nobody can vouch for: nothing is promised from here on.
Lose ==
    /\ phase # "lost"
    /\ phase' = "lost" /\ users' = {} /\ borrowers' = {}
    /\ UNCHANGED number

Next ==
    \/ \E U \in SUBSET Users : Open(U) \/ Join(U) \/ Leave(U)
    \/ \E u \in Users, b \in Borrowers : Publish(u, b)
    \/ \E b \in Borrowers : Return(b)
    \/ Close \/ Lose

Spec == Init /\ [][Next]_vars
=============================================================================
