--------------------------- MODULE MCSpillStorage ---------------------------
(***************************************************************************)
(* The instance of the spill that TLC checks.  A liveness property is      *)
(* checked, so the payloads are not declared symmetric.                    *)
(***************************************************************************)
EXTENDS SpillStorage
=============================================================================
