---------------------------- MODULE TaskOutcome -----------------------------
(***************************************************************************)
(* What the execution of one provider task promises to its caller.  A      *)
(* prefix of the output may be made durable, once.  The worker may be      *)
(* replaced, once, and only on the strength of such a prefix.  The output  *)
(* that is sealed in the end is the durable prefix, as the first worker    *)
(* wrote it, followed by frames of the last worker alone, and success is   *)
(* reported only for sealed output.                                        *)
(***************************************************************************)
EXTENDS Naturals, Sequences

CONSTANT Frames     \* frames, each with the attempt that produced it

VARIABLES
    durable,    \* the durable prefix, empty when there is none
    output,     \* the sealed output, empty when there is none
    attempt,    \* the last worker that was started
    verdict     \* what the caller was told

vars == <<durable, output, attempt, verdict>>

Init ==
    /\ durable = <<>> /\ output = <<>>
    /\ attempt = 0
    /\ verdict = "none"

Pending == output = <<>> /\ verdict = "none"

\* The frames of s from the i-th on were produced by one attempt.
From(s, i, a) == \A j \in i .. Len(s) : s[j].attempt = a

Publish ==
    /\ Pending /\ attempt = 0
    /\ durable = <<>> /\ durable' \in Seq(Frames) \ {<<>>}
    /\ From(durable', 1, 0)
    /\ UNCHANGED <<output, attempt, verdict>>

Replace ==
    /\ Pending /\ attempt = 0
    /\ durable # <<>>
    /\ attempt' = 1
    /\ UNCHANGED <<durable, output, verdict>>

Seal ==
    /\ Pending
    /\ output' \in Seq(Frames) \ {<<>>}
    /\ Len(durable) <= Len(output')
    /\ SubSeq(output', 1, Len(durable)) = durable
    /\ From(output', Len(durable) + 1, attempt)
    /\ UNCHANGED <<durable, attempt, verdict>>

Report ==
    /\ verdict = "none"
    /\ \/ verdict' = "success" /\ output # <<>>
       \/ verdict' \in {"unsealed", "error"}
    /\ UNCHANGED <<durable, output, attempt>>

Next == Publish \/ Replace \/ Seal \/ Report

Spec == Init /\ [][Next]_vars
=============================================================================
