------------------------- MODULE PublicationSeries -------------------------
(***************************************************************************)
(* What a snapshot store promises about its publication series, whatever   *)
(* its backend, its number of handles and their crashes: a series grows by *)
(* one publication at a time, and a publication is made by a draft that    *)
(* had seen all the publications of the series.  So the numbers of those   *)
(* that the drafts had seen count up from 0, and the series is a line.     *)
(***************************************************************************)
EXTENDS Naturals, FiniteSets

CONSTANTS Series, Snapshots

VARIABLE history        \* per series, the publications so far

\* basedOn: how many publications of the series the draft had seen.
Publication == [snapshot : Snapshots, basedOn : Nat]

TypeOK == history \in [Series -> SUBSET Publication]

Init == history = [x \in Series |-> {}]

Publish(x, c) ==
    history' = [history EXCEPT ![x] =
                   @ \cup {[snapshot |-> c, basedOn |-> Cardinality(@)]}]

Next == \E x \in Series, c \in Snapshots : Publish(x, c)

Spec == Init /\ [][Next]_history
=============================================================================
