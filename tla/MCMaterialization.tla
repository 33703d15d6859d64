------------------------- MODULE MCMaterialization -------------------------
(***************************************************************************)
(* The instances of the publication that TLC checks: the one task, a claim *)
(* that the store's records may match or not, and sections of the report   *)
(* that fit alone but not always together.                                 *)
(***************************************************************************)
EXTENDS MaterializationWriter

CONSTANT task

MCTasks == {task}
MCSize == [t \in MCTasks |-> 2]
MCProjections == {<<1, 2>>, <<1>>, <<2, 1>>}
MCClaimed == <<1, 2>>
MCCensuses == {OwnCensus}
MCSections == {1, 3}
=============================================================================
