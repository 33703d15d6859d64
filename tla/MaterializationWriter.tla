----------------------- MODULE MaterializationWriter -----------------------
(***************************************************************************)
(* publish_materialization_source: one materialization is published by way *)
(* of a candidate.  The bridge drives the candidate in its one order, with *)
(* the snapshot writer's candidate as the actual projection and the        *)
(* snapshot writer's publish() as the backend.  Cleaning up cancels the    *)
(* writer.  Other publishers move the head of the series meanwhile.  The   *)
(* caller gets one answer, made of the error of publish(), the error of    *)
(* the check after it and the result of the bridge, in this order.         *)
(*                                                                         *)
(* Each step of the bridge is a step of StoreCandidate.  The callbacks of  *)
(* the bridge never call the candidate, and it is never assigned to.       *)
(***************************************************************************)
EXTENDS StoreCandidate

CONSTANTS
    Backend,        \* "memory" or "sqlite"
    TaskResult,     \* the tuple of identities that is the one task
    Claimed         \* the expected records, made of the source alone

\* The census is taken of the same tuple that is replayed.
OwnCensus == [task_count |-> 1, input_bytes |-> Size[TaskResult], digest |-> <<TaskResult>>]

ASSUME WriterAssumption ==
    /\ Backend \in {"memory", "sqlite"}
    /\ TaskResult \in Tasks
    /\ OwnCensus \in Censuses
    /\ Claimed \in Projections
    /\ Reentrant = {} /\ Reassigned = FALSE

VARIABLES
    at,             \* the bridge's place
    writer,         \* snapshot_writer: current_state
    head,           \* the head of the series: the "expected" parent, "ours" or "other"
    publishError,   \* code of the error of publish(), None without one
    postError,      \* the check after the publication failed
    published,      \* publish() gave a handle
    bridged,        \* result of the bridge: None, "ok" or "error"
    answer          \* what the caller got: None, "success", or the code of the error

answering == <<publishError, postError, published, bridged, answer>>
writerVars == <<vars, at, writer, head, answering>>

\* Refusals of the store before it writes.
Refusals == {"store.counter-overflow", "store.hash-collision", "store.corrupt"}

\* The error of a writer whose parent is not the head any more.
StaleCode == IF Backend = "sqlite" THEN "store.publication-conflict"
                                   ELSE "store.publish-stale-parent"

\* Every error of SQLite that does not tell how far the transaction came.
Opaque == "store.sqlite-failure"

Codes == Refusals \cup {Opaque, "store.publication-conflict", "store.publish-stale-parent"}

\* The answers that are made by publish_materialization_source itself.
Mismatch == "materialization.writer-postpublish-mismatch"
Missing == "materialization.store-publication-missing"
BridgeError == "error of the bridge"

ASSUME NoCodeAssumption ==
    None \notin Codes \cup {"ok", "error", "success", Mismatch, Missing, BridgeError}

WriterInit ==
    /\ Init
    /\ at = "preflight" /\ writer = "validating"
    /\ head \in {"expected", "other"}
    /\ publishError = None /\ postError = FALSE /\ published = FALSE
    /\ bridged = None /\ answer = None

-----------------------------------------------------------------------------
(* Up to the publication *)

\* The cleanup callback is writer->cancel(), which does not fail.
Cancelling ==
    /\ ~cleanup'.failed
    /\ writer' = IF cleanups' # cleanups THEN "rolled_back" ELSE writer

\* The candidate is run once in memory before the bridge is called at all.
Preflight ==
    /\ at = "preflight"
    /\ \/ at' = "replay" /\ UNCHANGED <<writer, bridged>>
       \/ at' = "answer" /\ writer' = "rolled_back" /\ bridged' = "error"
    /\ UNCHANGED <<vars, head, publishError, postError, published, answer>>

\* The bridge's order, one call after the other; a failure of any leads to abort().
Step(from, to, Calls, Fails) ==
    /\ at = from
    /\ \/ Calls /\ at' = to
       \/ Fails /\ at' = "abort"
    /\ Cancelling
    /\ UNCHANGED <<head, answering>>

Replay == Step("replay", "seal", AppendTask(TaskResult), AppendFails)

Seal == Step("seal", "expected", SealInput(OwnCensus), SealFails)

\* A builder is called.
Call(from, to, Build) ==
    /\ at = from
    /\ Build
    /\ at' = to
    /\ UNCHANGED <<writer, head, answering>>

Expect ==
    \/ Call("expected", "expecting", BuildExpected)
    \/ Step("expecting", "actual", ExpectedReturns(Claimed), ExpectedFails)

\* The candidate of the writer is read again; both builders sort what they append.
ReadBack ==
    \/ Call("actual", "reading", BuildActual)
    \/ Step("reading", "compare", \E records \in Projections : ActualReturns(records),
            ActualFails)

Compare == Step("compare", "report", CompareProjections, CompareFails)

\* The report's storage and writer are made, then the tail is reserved.
Reserve == Step("report", "prefix", ReserveReportTail, ReserveFails \/ UNCHANGED vars)

\* write_publication_independent_report
Prefix ==
    Step("prefix", "publish", \E n \in Sections : ReportAppend(n),
         ReportAppendFails \/ UNCHANGED vars)

AbortCandidate ==
    /\ at = "abort"
    /\ Abort
    /\ Cancelling
    /\ at' = "return" /\ bridged' = "error"
    /\ UNCHANGED <<head, publishError, postError, published, answer>>

Attempt ==
    /\ at = "publish"
    /\ PublishOnce
    /\ at' = "attempt"
    /\ UNCHANGED <<writer, head, answering>>

-----------------------------------------------------------------------------
(* snapshot_writer::publish() and the check after it *)

Publishing == at = "attempt" /\ writer = "validating"

\* The parent is compared with the head in the transaction, or under the mutex.
PublishStale ==
    /\ Publishing /\ head # "expected"
    /\ writer' = "rejected"
    /\ publishError' = StaleCode
    /\ at' = "refused"
    /\ UNCHANGED <<vars, head, postError, published, bridged, answer>>

\* Any other refusal, and an error of SQLite before COMMIT took effect.
PublishFails ==
    /\ Publishing
    /\ publishError' \in Refusals \cup (IF Backend = "sqlite" THEN {Opaque} ELSE {})
    /\ writer' = IF Backend = "sqlite" THEN "rolled_back" ELSE "rejected"
    /\ at' = "refused"
    /\ UNCHANGED <<vars, head, postError, published, bridged, answer>>

PublishCommits ==
    /\ Publishing /\ head = "expected"
    /\ BackendCommits
    /\ head' = "ours" /\ writer' = "committed" /\ published' = TRUE
    /\ at' = "verify"
    /\ UNCHANGED <<publishError, postError, bridged, answer>>

\* Seeded fault: an error of COMMIT is told as a refusal.
CommitUnclear_AsRefusal ==
    /\ Publishing /\ head = "expected" /\ Backend = "sqlite"
    /\ BackendCommits
    /\ head' = "ours" /\ writer' = "rolled_back" /\ publishError' = "store.corrupt"
    /\ at' = "refused"
    /\ UNCHANGED <<postError, published, bridged, answer>>

\* COMMIT reports an error after it took effect.
CommitUnclear ==
    /\ Publishing /\ head = "expected" /\ Backend = "sqlite"
    /\ BackendCommits
    /\ head' = "ours" /\ writer' = "rolled_back" /\ publishError' = Opaque
    /\ at' = "refused"
    /\ UNCHANGED <<postError, published, bridged, answer>>

\* An allocation fails after COMMIT, before publish() has a handle to return.
CommitThenThrows ==
    /\ Publishing /\ head = "expected" /\ Backend = "sqlite"
    /\ BackendCommits
    /\ head' = "ours"
    /\ at' = "thrown"
    /\ UNCHANGED <<writer, answering>>

\* The lambda answers the candidate, which cleans up.
AnswerCandidate(verdict) ==
    /\ BackendReturns(verdict)
    /\ Cancelling
    /\ UNCHANGED <<head, publishError, published, answer>>

\* The code of the error, as the lambda judges it.
OutcomeOf(code) ==
    IF code = "store.publication-conflict" THEN "rejected_stale"
                                           ELSE "publication_outcome_unknown"

Refused ==
    /\ at = "refused"
    /\ AnswerCandidate(OutcomeOf(publishError))
    /\ at' = "outcome"
    /\ UNCHANGED <<postError, bridged>>

\* published_projection and run_v6_candidate_preflight agree with the claim or not.
Verify ==
    /\ at = "verify"
    /\ \/ AnswerCandidate("committed_verified") /\ UNCHANGED postError
       \/ AnswerCandidate("committed_unverified") /\ postError' = TRUE
    /\ at' = "outcome"
    /\ UNCHANGED bridged

\* An allocation fails in publish() or in the check: the candidate catches it, and
\* the bridge will return the error.
Throws ==
    /\ at \in {"attempt", "thrown", "verify"}
    /\ AnswerCandidate("throws")
    /\ bridged' = "error"
    /\ at' = "outcome"
    /\ UNCHANGED postError

-----------------------------------------------------------------------------
(* The report and the answer *)

\* write_exact_outcome_report
Outcome ==
    /\ at = "outcome"
    /\ \/ (\E n \in Sections : ReportAppend(n)) /\ at' = "finalize" /\ UNCHANGED bridged
       \/ (ReportAppendFails \/ UNCHANGED vars) /\ at' = "return" /\ bridged' = "error"
    /\ UNCHANGED <<writer, head, publishError, postError, published, answer>>

\* Seeded fault: a finalized report settles the call, whatever publish_once returned.
Finalize_Settles ==
    /\ at = "finalize"
    /\ \/ FinalizeReport /\ bridged' = "ok"
       \/ FinalizeFails /\ bridged' = "error"
    /\ at' = "return"
    /\ UNCHANGED <<writer, head, publishError, postError, published, answer>>

\* finalize_report, then the error of publish_once if it had one.
Finalize ==
    /\ at = "finalize"
    /\ \/ FinalizeReport /\ bridged' = IF bridged = "error" THEN "error" ELSE "ok"
       \/ FinalizeFails /\ bridged' = "error"
    /\ at' = "return"
    /\ UNCHANGED <<writer, head, publishError, postError, published, answer>>

\* The candidate is a local of the bridge.
Return ==
    /\ at = "return"
    /\ Destroy
    /\ Cancelling
    /\ at' = "answer"
    /\ UNCHANGED <<head, answering>>

\* Seeded fault: the error of the bridge comes first.
Precedence_BridgeFirst ==
    CASE bridged # "ok" -> BridgeError
      [] bridged = "ok" /\ publishError # None -> publishError
      [] bridged = "ok" /\ publishError = None /\ postError -> Mismatch
      [] bridged = "ok" /\ publishError = None /\ ~postError /\ ~published -> Missing
      [] OTHER -> "success"

\* The error of publish(), then that of the check, then that of the bridge.
Precedence ==
    CASE publishError # None -> publishError
      [] publishError = None /\ postError -> Mismatch
      [] publishError = None /\ ~postError /\ bridged # "ok" -> BridgeError
      [] publishError = None /\ ~postError /\ bridged = "ok" /\ ~published -> Missing
      [] OTHER -> "success"

Answer ==
    /\ at = "answer"
    /\ answer' = Precedence
    /\ at' = "done"
    /\ UNCHANGED <<vars, writer, head, publishError, postError, published, bridged>>

\* Another writer publishes on the head of the series.
OtherPublishes ==
    /\ head # "other" /\ at # "done"
    /\ head' = "other"
    /\ UNCHANGED <<vars, at, writer, answering>>

Bridge ==
    \/ Preflight \/ Replay \/ Seal \/ Expect \/ ReadBack \/ Compare \/ Reserve \/ Prefix
    \/ AbortCandidate \/ Attempt
    \/ PublishStale \/ PublishFails \/ PublishCommits \/ CommitUnclear \/ CommitThenThrows
    \/ Refused \/ Verify \/ Throws \/ Outcome \/ Finalize \/ Return \/ Answer

WriterNext == Bridge \/ OtherPublishes

WriterSpec == WriterInit /\ [][WriterNext]_writerVars

-----------------------------------------------------------------------------
(* Properties *)

WriterTypeOK ==
    /\ TypeOK
    /\ at \in {"preflight", "replay", "seal", "expected", "expecting", "actual", "reading",
               "compare", "report", "prefix", "abort", "publish", "attempt", "refused", "thrown", "verify", "outcome",
               "finalize", "return", "answer", "done"}
    /\ writer \in {"validating", "committed", "rejected", "rolled_back"}
    /\ head \in {"expected", "ours", "other"}
    /\ publishError \in Codes \cup {None}
    /\ postError \in BOOLEAN /\ published \in BOOLEAN
    /\ bridged \in {None, "ok", "error"}

\* The caller is told of a success only for a publication that is durable, was
\* checked before and after, and whose finalized report says so.
SuccessIsVerified ==
    answer = "success" =>
        /\ effect = "committed" /\ published
        /\ expected.records = Claimed /\ actual.records = Claimed
        /\ terminal = "committed_verified"
        /\ report.finalized /\ report.terminal = "committed_verified"
        /\ cleanup.called /\ ~cleanup.failed

\* The caller's code is the candidate's terminal, whatever else went wrong: a conflict
\* and a failed check are told exactly when the candidate ended so, though the report
\* failed as well, and a handle is never missing without an error.
AnswerIsExplained ==
    /\ answer # Missing
    /\ answer # None =>
          /\ answer = "store.publication-conflict" <=> terminal = "rejected_stale"
          /\ answer = Mismatch <=> terminal = "committed_unverified"

\* The writer is not cancelled before it has published: the cleanup of the candidate,
\* which cancels it, never runs under an attempt.
PublishesWhileValidating ==
    at \in {"preflight", "replay", "seal", "expected", "expecting", "actual", "reading",
            "compare", "report", "prefix", "publish", "attempt"} => writer = "validating" /\ ~cleanup.called

-----------------------------------------------------------------------------
(* The inductive invariant *)

\* The bridge knows how far the candidate is.
Placed ==
    /\ at \in {"preflight", "replay"} => phase = "staging_session_open"
    /\ at = "seal" => phase = "appending"
    /\ at = "expected" => phase = "candidate_identity_sealed"
    /\ at = "expecting" => phase = "independently_validating"
    /\ at \in {"actual", "reading"} => phase = "expected_projection_sealed"
    /\ at = "compare" => phase = "actual_projection_sealed"
    /\ at = "report" => phase = "validation_sealed"
    /\ at \in {"prefix", "publish"} => phase = "report_tail_reserved"
    /\ at = "abort" => phase \notin Concluded \cup {"publication_attempted_once"}
    /\ at \in {"attempt", "refused", "thrown", "verify"} => phase = "publication_attempted_once"
    /\ at \in {"outcome", "finalize"} => phase = "publication_terminal"
    /\ at = "return" => phase \in Ended

Finishing == {"outcome", "finalize", "return", "answer", "done"}

\* What the errors and the handle say of the publication.
Recorded ==
    /\ PublishesWhileValidating
    /\ ~cleanup.failed
    /\ expected.sealed => expected.records = Claimed
    /\ published => effect = "committed" /\ publishError = None
    /\ at = "attempt" => effect = "none"
    /\ at = "verify" => published
    /\ at = "refused" => publishError # None
    /\ at \notin Finishing \cup {"refused"} => publishError = None
    /\ publishError \in Codes \ {Opaque} => effect = "none"
    /\ publishError = "store.publication-conflict" =>
          at = "refused" \/ terminal = "rejected_stale"
    /\ terminal = "rejected_stale" => publishError = "store.publication-conflict"
    /\ postError => published
    /\ postError <=> terminal = "committed_unverified"

\* A bridge that does not fail leaves an error of publish() or a publication that was
\* checked.
Settled ==
    publishError = None => published /\ (postError \/ terminal = "committed_verified")

Answered ==
    /\ at \notin Finishing => bridged = None
    /\ at \in {"outcome", "finalize"} => bridged # "ok" /\ (bridged = "error" \/ Settled)
    /\ bridged = "ok" => Settled /\ report.finalized /\ phase \in Ended
    /\ answer = IF at = "done" THEN Precedence ELSE None

WriterInv == CandidateInv /\ CleanedInv /\ WriterTypeOK /\ Placed /\ Recorded /\ Answered

-----------------------------------------------------------------------------
(* What the caller is told *)

\* What the caller is told, whatever happened to the report.
CallerTold ==
    CASE answer = None -> "pending"
      [] answer \in {"success", Mismatch} -> "committed"
      [] answer \in {"store.publication-conflict", "store.publish-stale-parent"}
            \cup Refusals -> "none"
      [] OTHER -> "unclear"

Caller == INSTANCE OneShotPublication WITH told <- CallerTold

\* publish_materialization_source implements OneShotPublication.
ImplementsPublication == Caller!Spec

\* The bridge uses the candidate as StoreCandidate describes it.
ImplementsCandidate == Spec

=============================================================================
