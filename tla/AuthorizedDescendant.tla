------------------------ MODULE AuthorizedDescendant ------------------------
(***************************************************************************)
(* sqlite_terminal_reclassifier_internal.cpp and                           *)
(* sqlite_store_terminal_internal.cpp, as the migration uses them: may the *)
(* database that is found after a migration have grown out of the one it   *)
(* started from, and what is the caller told then?                         *)
(*                                                                         *)
(* Only the counts decide: every gate of the validation accepts once there *)
(* is a candidate.  A reset of the generations of p publications adds p to *)
(* the highest generation, a publication adds 1.                           *)
(***************************************************************************)
EXTENDS Integers, Sequences

CONSTANT None       \* no state was sealed

Lesser(m, n) == IF m \leq n THEN m ELSE n
Greater(m, n) == IF m \leq n THEN n ELSE m

Count(state) == Len(state.generations)

Maximum(state) ==
    IF state.generations = <<>> THEN 0
    ELSE state.generations[Len(state.generations)]

(***************************************************************************)
(* Can `delta` be the sum of compactions that each have between `lower`    *)
(* and `upper` publications?  The code tries the fewest that are enough    *)
(* and spreads delta evenly.                                               *)
(***************************************************************************)

Reachable(delta, lower, upper) ==
    /\ lower > 0
    /\ upper \geq lower
    /\ \/ delta = 0
       \/ LET runs == 1 + ((delta - 1) \div upper)
              base == delta \div runs
          IN  /\ runs \leq delta \div lower
              /\ base \in lower .. upper
              /\ delta % runs # 0 => base # upper

(***************************************************************************)
(* The residual is what the highest generation grew by beyond the          *)
(* publications that were added.                                           *)
(***************************************************************************)

Residual(source, target) ==
    (Maximum(target) - Maximum(source)) - (Count(target) - Count(source))

\* Seeded fault: a compaction needs a publication that the source does not have.
LowerPopulationTarget(source) == Count(source) + 1

LowerPopulation(source) == Greater(1, Count(source))

SameFormatReached(source, target) ==
    LET residual == Residual(source, target)
        lower == LowerPopulation(source)
    IN  \/ residual = 0
        \/ \E last \in lower .. Lesser(Count(target), residual) :
              Reachable(residual - last, lower, last)

MigrationReached(source, target) ==
    LET residual == Residual(source, target)
        lower == LowerPopulation(source)
    IN  \E migrated \in Count(source) .. Lesser(Count(target), residual) :
          LET rest == residual - migrated
          IN  \/ IF migrated = 0 THEN rest = 0
                 ELSE Reachable(rest, lower, migrated)
              \/ \E last \in Greater(1, migrated) .. Lesser(Count(target), rest) :
                    Reachable(rest - last, lower, last)

\* May target have grown out of source?  (prove_descendant with all gates accepted)
Descends(source, target) ==
    \/ source = target
    \/ /\ Count(target) \geq Count(source)
       /\ ~ (source.format = "current_v3" /\ target.format = "legacy_v2")
       /\ Residual(source, target) \geq 0
       /\ IF source.format = target.format THEN SameFormatReached(source, target)
          ELSE MigrationReached(source, target)

(***************************************************************************)
(* The class of what is found.  Without a candidate the gates reject every *)
(* descendant but the source itself.  A proof across the formats always    *)
(* contains the migration.                                                 *)
(***************************************************************************)

ValidCandidate(source, candidate) ==
    /\ candidate.format = "current_v3"
    /\ Count(candidate) = Count(source)
    /\ Maximum(candidate) = Maximum(source) + Count(source)

\* Seeded fault: only the candidate itself counts as the migration.
ClassifyExact(source, candidate, found) ==
    CASE found = source -> "pre_state"
      [] found = candidate -> "with_edge"
      [] candidate # None /\ found \notin {source, candidate} -> "without_edge"
      [] OTHER -> "non_descendant"

Classify(source, candidate, found) ==
    CASE candidate # None /\ ~ ValidCandidate(source, candidate) -> "unavailable"
      [] found = source -> "pre_state"
      [] found # source /\ candidate # None /\ Descends(source, found) ->
            IF source.format # found.format THEN "with_edge" ELSE "without_edge"
      [] OTHER -> "non_descendant"

(***************************************************************************)
(* What the caller is told, and whether what was found is installed.       *)
(* "original_trigger" is the error of the step that failed.                *)
(***************************************************************************)

Authorized == {"pre_state", "without_edge", "with_edge"}

PublicResult(phase, class) ==
    CASE class = "with_edge" -> "recovered_success"
      [] class \in Authorized \ {"with_edge"} ->
            IF phase = "precommit" THEN "original_trigger" ELSE "database_opaque"
      [] class = "non_descendant" -> "concurrent_authority_change"
      [] OTHER -> "recovery_opaque"

Installs(class) == class \in Authorized
=============================================================================
