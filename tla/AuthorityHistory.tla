-------------------------- MODULE AuthorityHistory --------------------------
(***************************************************************************)
(* What every process that writes one store database may do to it: the     *)
(* edges of the descendant algebra.  A publication takes the next          *)
(* generation, a compaction renumbers all publications above the highest   *)
(* one, and the one migration from format v2 to v3 renumbers likewise.     *)
(* The publications stand in the order of one series, so that the last one *)
(* has the highest generation.                                             *)
(***************************************************************************)
EXTENDS Naturals, Sequences

CONSTANT GenerationMax      \* the limit of the generation counter

VARIABLE authority          \* [format, generations]

Formats == {"legacy_v2", "current_v3"}
Authorities == [format : Formats, generations : Seq(1 .. GenerationMax)]

Top(generations) ==
    IF generations = <<>> THEN 0 ELSE generations[Len(generations)]

Published(generations) == Append(generations, Top(generations) + 1)

Renumbered(generations) ==
    [i \in 1 .. Len(generations) |-> Top(generations) + i]

Fits(generations) == Top(generations) \leq GenerationMax

(***************************************************************************)
(* The edges.                                                              *)
(***************************************************************************)

PublishEdge(old, new) ==
    /\ new = [old EXCEPT !.generations = Published(old.generations)]
    /\ Fits(new.generations)

CompactEdge(old, new) ==
    /\ new = [old EXCEPT !.generations = Renumbered(old.generations)]
    /\ Fits(new.generations)

MigrateEdge(old, new) ==
    /\ old.format = "legacy_v2"
    /\ new = [format |-> "current_v3", generations |-> Renumbered(old.generations)]
    /\ Fits(new.generations)

Init == authority = [format |-> "legacy_v2", generations |-> <<>>]

Next ==
    \/ PublishEdge(authority, authority')
    \/ CompactEdge(authority, authority')
    \/ MigrateEdge(authority, authority')

Spec == Init /\ [][Next]_authority
=============================================================================
