-------------------------- MODULE MCStoreCandidate --------------------------
(***************************************************************************)
(* The instances of the candidate that TLC checks: two tasks of different  *)
(* size, limits that the third task or record would exceed, projections    *)
(* that agree, differ, are a prefix of one another or are out of order,    *)
(* and censuses that are right or wrong.                                   *)
(***************************************************************************)
EXTENDS StoreCandidate

CONSTANTS t1, t2

MCTasks == {t1, t2}
MCSize == [t \in MCTasks |-> IF t = t1 THEN 1 ELSE 2]
MCProjections == {<<1>>, <<1, 2>>, <<2, 1>>, <<2>>}
MCCensuses ==
    {[task_count |-> 1, input_bytes |-> 1, digest |-> <<t1>>],
     [task_count |-> 2, input_bytes |-> 3, digest |-> <<t1, t2>>],
     [task_count |-> 2, input_bytes |-> 3, digest |-> <<t2, t1>>],
     [task_count |-> 1, input_bytes |-> 2, digest |-> <<t1>>]}
MCSections == {1, 3}
=============================================================================
