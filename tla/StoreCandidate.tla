--------------------------- MODULE StoreCandidate ---------------------------
(***************************************************************************)
(* bounded_store_candidate: the life of one candidate of a publication,    *)
(* with the spools it owns, the report writer beside it and the backend it *)
(* calls.  Tasks are staged, the input is sealed against an external       *)
(* census, the expected and the actual projection are built independently  *)
(* and compared, the tail of the report is reserved, the backend is called *)
(* once, and the report is finalized with what it said.                    *)
(*                                                                         *)
(* The client may call any method of the candidate at any time; a call in  *)
(* the wrong phase is refused and changes nothing.  The report writer is   *)
(* the candidate's own: the client only appends to it.  One thread uses a  *)
(* candidate, so the only calls that interleave are those made from inside *)
(* a callback: abort(), and what the report still admits.  A builder that  *)
(* calls its own method again is left out.  A record of a projection is    *)
(* the number of its place in the key order; its key has one byte and      *)
(* every payload the same size.  Digests are what they are taken of.       *)
(* Allocation, hashing and I/O may fail wherever the code looks for it.    *)
(***************************************************************************)
EXTENDS Naturals, Sequences

CONSTANTS
    Tasks,              \* sealed task results
    Size,               \* Size[t] is the number of bytes of t
    Projections,        \* the record streams a builder may write
    RecordPayload,      \* the bytes of a projection record's payload
    Censuses,           \* the censuses an external journal may claim
    MaxTasks,           \* bounded_store_limits
    MaxAggregateBytes,
    MaxRecordBytes,
    MaxSpoolBytes,
    ReportTailBytes,
    MaxReportBytes,
    Sections,           \* sizes of the sections that are written to the report
    Reentrant,          \* the callbacks in which the client calls abort()
    Reassigned,         \* whether the client assigns another candidate over this one
    None                \* no value

Census == [task_count : Nat, input_bytes : Nat, digest : Seq(Tasks)]

\* validate_limits, and the kinds of the inputs.
ASSUME CandidateAssumption ==
    /\ Size \in [Tasks -> Nat]
    /\ Projections \subseteq Seq(Nat) /\ RecordPayload \in Nat
    /\ Censuses \subseteq Census
    /\ MaxTasks \in 1 .. 4096
    /\ MaxAggregateBytes \in Nat \ {0} /\ MaxSpoolBytes \in Nat \ {0}
    /\ MaxRecordBytes \in Nat /\ MaxRecordBytes >= 88
    /\ ReportTailBytes \in Nat \ {0} /\ MaxReportBytes \in Nat
    /\ ReportTailBytes <= MaxReportBytes
    /\ Sections \subseteq Nat
    /\ Reentrant \subseteq {"build", "publish"}
    /\ Reassigned \in BOOLEAN

VARIABLES
    phase,      \* bounded_store_candidate_phase
    input,      \* the input spool: its tasks, their bytes, the bytes of its frames
    candidate,  \* candidate_id: the sealed input it names, None before
    expected,   \* the expected spool: its records, and whether it is sealed
    actual,     \* the actual spool
    report,     \* the report writer
    terminal,   \* publication_terminal(), None before
    building,   \* the projection whose builder is on the stack, None without one
    running,    \* the backend's publish_once is on the stack
    calls,      \* how often the backend was called
    effect,     \* what the backend did: "none" or "committed"
    cleanup,    \* cleanup_called and cleanup_failed
    cleanups,   \* how often the cleanup callback was run
    gone        \* the object does not exist any more

staged == <<input, candidate, expected, actual>>
backend == <<running, calls, effect>>
cleaning == <<cleanup, cleanups>>
vars == <<phase, staged, report, terminal, building, backend, cleaning, gone>>

-----------------------------------------------------------------------------
(* Values *)

Phases == {"staging_session_open", "appending", "input_sealed",
           "candidate_identity_sealed", "independently_validating",
           "expected_projection_sealed", "actual_projection_sealed", "validation_sealed",
           "report_tail_reserved", "publication_attempted_once", "publication_terminal",
           "report_finalized", "report_transport_failed", "aborted"}

\* What a backend may answer; "invalid" stands for a value outside the enumeration.
Answers == {"not_attempted", "rejected_stale", "rejected_store_failure",
            "publication_outcome_unknown", "committed_unverified",
            "committed_verified", "invalid"}

Terminals == Answers \ {"invalid"}

ASSUME NoVerdictAssumption == None \notin Terminals \cup {"expected", "actual"}

Rejections == {"rejected_stale", "rejected_store_failure"}
Commitments == {"committed_unverified", "committed_verified"}

\* terminal_phase
Ended == {"publication_terminal", "report_finalized", "report_transport_failed", "aborted"}

\* The length of the task's number in decimal, which is its key.
KeyBytes(n) == IF n < 10 THEN 1 ELSE IF n < 100 THEN 2 ELSE IF n < 1000 THEN 3 ELSE 4

\* checked_frame_size: a kind, two lengths, the key, the payload, a digest in hexadecimal.
FrameBytes(key, payload) == 17 + key + payload + 71

\* record_order_key, strictly ascending.
Ascending(records) == \A i, j \in 1 .. Len(records) : i < j => records[i] < records[j]

EmptySpool == [records |-> <<>>, sealed |-> FALSE]

NoReport == [reserved |-> FALSE, finalized |-> FALSE, failed |-> FALSE, bytes |-> 0,
             terminal |-> None]

Init ==
    /\ phase = "staging_session_open"
    /\ input = [tasks |-> <<>>, bytes |-> 0, framed |-> 0]
    /\ candidate = None /\ expected = EmptySpool /\ actual = EmptySpool
    /\ report = NoReport
    /\ terminal = None
    /\ building = None /\ running = FALSE /\ calls = 0 /\ effect = "none"
    /\ cleanup = [called |-> FALSE, failed |-> FALSE] /\ cleanups = 0
    /\ gone = FALSE

-----------------------------------------------------------------------------
(* Cleanup and failure *)

\* run_cleanup: the callback is run once, and may fail.
RunCleanup(fails) ==
    IF cleanup.called
    THEN UNCHANGED cleaning
    ELSE /\ cleanup' = [called |-> TRUE, failed |-> fails]
         /\ cleanups' = cleanups + 1

\* Seeded fault: a candidate that fails leaves its staging behind.
FailCandidate_NoCleanup ==
    /\ phase' = "aborted" /\ building' = None
    /\ UNCHANGED <<staged, report, terminal, backend, cleaning, gone>>

\* fail_candidate, and the return of the call that failed
FailCandidate ==
    /\ \E fails \in BOOLEAN : RunCleanup(fails)
    /\ phase' = "aborted" /\ building' = None
    /\ UNCHANGED <<staged, report, terminal, backend, gone>>

\* abort(), by phase.  Inside the backend's callback the outcome becomes unknown.
AbortEffect ==
    /\ \E fails \in BOOLEAN : RunCleanup(fails)
    /\ CASE phase = "publication_attempted_once" ->
              /\ terminal' = "publication_outcome_unknown"
              /\ phase' = "publication_terminal"
         [] phase = "publication_terminal" -> UNCHANGED <<phase, terminal>>
         [] OTHER -> phase' = "aborted" /\ UNCHANGED terminal

Finished == phase \in {"report_finalized", "report_transport_failed"}

-----------------------------------------------------------------------------
(* Staging *)

\* What append_task checks before it touches the spool, and the spool's own quota.
Admits(t) ==
    LET n == Len(input.tasks)
        frame == FrameBytes(KeyBytes(n), Size[t])
    IN  /\ Size[t] > 0
        /\ n < MaxTasks
        /\ input.bytes + Size[t] <= MaxAggregateBytes
        /\ frame <= MaxRecordBytes
        /\ input.framed + frame <= MaxSpoolBytes

Staging == ~gone /\ phase \in {"staging_session_open", "appending"}

AppendTask(t) ==
    /\ Staging
    /\ Admits(t)
    /\ input' = [tasks |-> Append(input.tasks, t),
                 bytes |-> input.bytes + Size[t],
                 framed |-> input.framed + FrameBytes(KeyBytes(Len(input.tasks)), Size[t])]
    /\ phase' = "appending"
    /\ UNCHANGED <<candidate, expected, actual, report, terminal, backend, cleaning,
                   building, gone>>

\* A task that is not admitted, or a failure of the spool or the digest.
AppendFails == Staging /\ FailCandidate

\* The census agrees with the staged input in number, bytes and digest.
Agrees(census) ==
    /\ census.task_count = Len(input.tasks)
    /\ census.input_bytes = input.bytes
    /\ census.digest = input.tasks

SealInput(census) ==
    /\ ~gone /\ phase = "appending"
    /\ Agrees(census)
    /\ candidate' = input.tasks
    /\ phase' = "candidate_identity_sealed"
    /\ UNCHANGED <<input, expected, actual, report, terminal, backend, cleaning, building, gone>>

SealFails == ~gone /\ phase = "appending" /\ FailCandidate

\* Memory ends between the two digests: the exception passes through, and no call but
\* abort() is admitted any more.
SealThrows(census) ==
    /\ ~gone /\ phase = "appending"
    /\ Agrees(census)
    /\ phase' = "input_sealed"
    /\ UNCHANGED <<staged, report, terminal, backend, cleaning, building, gone>>

-----------------------------------------------------------------------------
(* The two projections *)

\* record_spool_impl::append over a whole stream: the quota of the spool.
Fits(records) ==
    /\ FrameBytes(1, RecordPayload) <= MaxRecordBytes
    /\ Len(records) * FrameBytes(1, RecordPayload) <= MaxSpoolBytes

\* build_expected_projection up to the call of the builder
BuildExpected ==
    /\ ~gone /\ phase = "candidate_identity_sealed"
    /\ phase' = "independently_validating" /\ building' = "expected"
    /\ UNCHANGED <<staged, report, terminal, backend, cleaning, gone>>

\* The phase is written without a look at it: a builder that aborted is overruled.
ExpectedReturns(records) ==
    /\ building = "expected"
    /\ Fits(records) /\ records # <<>>
    /\ expected' = [records |-> records, sealed |-> TRUE]
    /\ phase' = "expected_projection_sealed" /\ building' = None
    /\ UNCHANGED <<input, candidate, actual, report, terminal, backend, cleaning, gone>>

\* The builder reports an error, runs out of memory, writes nothing, or the seal fails.
ExpectedFails == building = "expected" /\ FailCandidate

\* Any other exception of the builder passes through and leaves the phase behind.
ExpectedThrows ==
    /\ building = "expected"
    /\ building' = None
    /\ UNCHANGED <<phase, staged, report, terminal, backend, cleaning, gone>>

\* build_actual_projection up to the call of the builder, with the phase left as it is
BuildActual ==
    /\ ~gone /\ phase = "expected_projection_sealed"
    /\ building = None
    /\ building' = "actual"
    /\ UNCHANGED <<phase, staged, report, terminal, backend, cleaning, gone>>

ActualReturns(records) ==
    /\ building = "actual"
    /\ Fits(actual.records \o records) /\ actual.records \o records # <<>>
    /\ Ascending(actual.records \o records)
    /\ actual' = [records |-> actual.records \o records, sealed |-> TRUE]
    /\ phase' = "actual_projection_sealed" /\ building' = None
    /\ UNCHANGED <<input, candidate, expected, report, terminal, backend, cleaning, gone>>

\* An error of the builder, no record, the seal, or records out of order.
ActualFails == building = "actual" /\ FailCandidate

\* An exception leaves the phase and what was written: a second call appends to it.
ActualThrows(records) ==
    /\ building = "actual"
    /\ Fits(actual.records \o records)
    /\ actual' = [actual EXCEPT !.records = @ \o records]
    /\ building' = None
    /\ UNCHANGED <<phase, input, candidate, expected, report, terminal, backend, cleaning, gone>>

\* Seeded fault: the comparison ends with the shorter of the two streams.
Same_Prefix(left, right) ==
    \A i \in 1 .. Len(left) : i <= Len(right) => left[i] = right[i]

\* compare_projections: both cursors, record by record, to both ends.
Same(left, right) == left = right

CompareProjections ==
    /\ ~gone /\ phase = "actual_projection_sealed"
    /\ Same(expected.records, actual.records)
    /\ phase' = "validation_sealed"
    /\ UNCHANGED <<staged, report, terminal, backend, cleaning, building, gone>>

CompareFails == ~gone /\ phase = "actual_projection_sealed" /\ FailCandidate

-----------------------------------------------------------------------------
(* The report and the publication *)

\* From inside a callback the client calls the candidate only if it is one that does.
Callable ==
    /\ ~gone
    /\ running => "publish" \in Reentrant
    /\ building # None => "build" \in Reentrant

\* The reservation is a checked promise and does no I/O.
ReserveReportTail ==
    /\ ~gone /\ phase = "validation_sealed"
    /\ report' = [report EXCEPT !.reserved = TRUE]
    /\ phase' = "report_tail_reserved"
    /\ UNCHANGED <<staged, terminal, backend, cleaning, building, gone>>

\* The writer was moved from.
ReserveFails == ~gone /\ phase = "validation_sealed" /\ FailCandidate

ReportOpen == report.reserved /\ ~report.failed /\ ~report.finalized

ReportAppend(n) ==
    /\ Callable /\ ReportOpen
    /\ report.bytes + n <= ReportTailBytes
    /\ report' = [report EXCEPT !.bytes = @ + n]
    /\ UNCHANGED <<phase, staged, terminal, backend, cleaning, building, gone>>

ReportAppendFails ==
    /\ Callable /\ ReportOpen
    /\ report' = [report EXCEPT !.failed = TRUE]
    /\ UNCHANGED <<phase, staged, terminal, backend, cleaning, building, gone>>

FinishWithoutPublication ==
    /\ ~gone /\ phase = "report_tail_reserved"
    /\ terminal' = "not_attempted"
    /\ phase' = "publication_terminal"
    /\ \E fails \in BOOLEAN : RunCleanup(fails)
    /\ UNCHANGED <<staged, report, backend, building, gone>>

\* publish_once up to the call of the backend
PublishOnce ==
    /\ ~gone /\ phase = "report_tail_reserved"
    /\ terminal = None
    /\ phase' = "publication_attempted_once"
    /\ running' = TRUE /\ calls' = calls + 1
    /\ UNCHANGED <<staged, report, terminal, effect, cleaning, building, gone>>

BackendCommits ==
    /\ running /\ effect = "none"
    /\ effect' = "committed"
    /\ UNCHANGED <<phase, staged, report, terminal, running, calls, cleaning, building, gone>>

\* Seeded fault: the answer counts although the client aborted meanwhile.
Verdict_IgnoresAbort(answer) ==
    IF answer \in Terminals \ {"not_attempted"}
    THEN answer
    ELSE "publication_outcome_unknown"

\* What is made of the answer; a backend that throws gives no answer.
Verdict(answer) ==
    IF phase = "publication_attempted_once" /\ answer \in Terminals \ {"not_attempted"}
    THEN answer
    ELSE "publication_outcome_unknown"

\* A backend says that it committed only when it did, and that it refused only when
\* it did not.
BackendReturns(answer) ==
    /\ running
    /\ answer \in Commitments => effect = "committed"
    /\ answer \in Rejections => effect = "none"
    /\ running' = FALSE
    /\ terminal' = Verdict(answer)
    /\ phase' = "publication_terminal"
    /\ \E fails \in BOOLEAN : RunCleanup(fails)
    /\ UNCHANGED <<staged, report, calls, effect, building, gone>>

FinalizeReport ==
    /\ Callable /\ phase = "publication_terminal"
    /\ terminal # None /\ ReportOpen
    /\ report' = [report EXCEPT !.finalized = TRUE, !.terminal = terminal]
    /\ phase' = "report_finalized"
    /\ UNCHANGED <<staged, terminal, backend, cleaning, building, gone>>

\* The writer refuses, or its storage cannot be sealed.
FinalizeFails ==
    /\ Callable /\ phase = "publication_terminal"
    /\ terminal # None
    /\ report' = [report EXCEPT !.failed = @ \/ ReportOpen]
    /\ phase' = "report_transport_failed"
    /\ UNCHANGED <<staged, terminal, backend, cleaning, building, gone>>

-----------------------------------------------------------------------------
(* The end *)

Abort ==
    /\ Callable /\ ~Finished
    /\ AbortEffect
    /\ UNCHANGED <<staged, report, backend, building, gone>>

\* ~bounded_store_candidate
Destroy ==
    /\ ~gone /\ ~running /\ building = None
    /\ gone' = TRUE
    /\ IF phase \in Ended THEN UNCHANGED <<phase, terminal, cleaning>> ELSE AbortEffect
    /\ UNCHANGED <<staged, report, backend, building>>

\* operator=(bounded_store_candidate&&) is defaulted: the state is deleted, no more.
AssignOver ==
    /\ Reassigned /\ ~gone /\ ~running /\ building = None
    /\ gone' = TRUE
    /\ UNCHANGED <<phase, staged, report, terminal, backend, cleaning, building>>

Stage ==
    \/ \E t \in Tasks : AppendTask(t)
    \/ \E census \in Censuses : SealInput(census) \/ SealThrows(census)
    \/ AppendFails \/ SealFails

Validate ==
    \/ BuildExpected \/ ExpectedFails \/ ExpectedThrows
    \/ BuildActual \/ ActualFails
    \/ \E records \in Projections :
            ExpectedReturns(records) \/ ActualReturns(records) \/ ActualThrows(records)
    \/ CompareProjections \/ CompareFails

Publish ==
    \/ ReserveReportTail \/ ReserveFails \/ FinishWithoutPublication \/ PublishOnce
    \/ BackendCommits
    \/ \E answer \in Answers \cup {"throws"} : BackendReturns(answer)

Conclude ==
    \/ \E n \in Sections : ReportAppend(n)
    \/ ReportAppendFails \/ FinalizeReport \/ FinalizeFails
    \/ Abort \/ Destroy \/ AssignOver

Next == Stage \/ Validate \/ Publish \/ Conclude

Spec == Init /\ [][Next]_vars

-----------------------------------------------------------------------------
(* Properties *)

Spools == [records : Seq(Nat), sealed : BOOLEAN]

\* The variables keep their types, and every spool and the report their quotas.
TypeOK ==
    /\ phase \in Phases
    /\ input \in [tasks : Seq(Tasks), bytes : 0 .. MaxAggregateBytes,
                  framed : 0 .. MaxSpoolBytes]
    /\ Len(input.tasks) <= MaxTasks
    /\ candidate \in Seq(Tasks) \cup {None}
    /\ expected \in Spools /\ actual \in Spools
    /\ Fits(expected.records) \/ expected.records = <<>>
    /\ Fits(actual.records) \/ actual.records = <<>>
    /\ report \in [reserved : BOOLEAN, finalized : BOOLEAN, failed : BOOLEAN,
                   bytes : 0 .. ReportTailBytes, terminal : Terminals \cup {None}]
    /\ terminal \in Terminals \cup {None}
    /\ building \in {None, "expected", "actual"}
    /\ running \in BOOLEAN /\ calls \in Nat /\ effect \in {"none", "committed"}
    /\ cleanup \in [called : BOOLEAN, failed : BOOLEAN] /\ cleanups \in Nat
    /\ gone \in BOOLEAN

\* The backend is called at most once, and only for a candidate that names its whole
\* input, whose two projections are complete, in order and the same, and for whose
\* outcome the report has room.  Nothing is durable that did not come this way.
PublishedWasProven ==
    /\ calls <= 1
    /\ effect = "committed" => calls = 1
    /\ calls = 1 =>
          /\ candidate = input.tasks /\ candidate # <<>>
          /\ expected.sealed /\ actual.sealed
          /\ expected.records = actual.records /\ expected.records # <<>>
          /\ Ascending(expected.records)
          /\ report.reserved

\* A refusal and an abort are only told when nothing was published, a commit only
\* when it was: whatever the backend answered, threw, or was interrupted by.
OutcomeTruthful ==
    /\ terminal \in Commitments => effect = "committed"
    /\ terminal \in Rejections \cup {"not_attempted"} => effect = "none"
    /\ phase = "aborted" => effect = "none"

\* The staging is cleaned up once, when the candidate ends, and never under a
\* candidate that goes on.
CleanedExactlyOnce ==
    /\ cleanups <= 1
    /\ phase \in Ended \/ gone => cleanups = 1
    /\ cleanups = 1 => phase \in Ended

\* A finalized report says what the candidate says, and a candidate whose report is
\* finalized is not an aborted one.
ReportAgrees ==
    report.finalized =>
        /\ report.terminal = terminal /\ terminal # None
        /\ phase \in Ended \ {"aborted"}

-----------------------------------------------------------------------------
(* The inductive invariant *)

Concluded == {"publication_terminal", "report_finalized", "report_transport_failed"}

\* Phases in which the candidate has come this far.
Reserved == {"report_tail_reserved", "publication_attempted_once"}
Validated == {"validation_sealed"} \cup Reserved
ActualBuilt == {"actual_projection_sealed"} \cup Validated
ExpectedBuilt == {"expected_projection_sealed"} \cup ActualBuilt
Identified == {"candidate_identity_sealed", "independently_validating"} \cup ExpectedBuilt

\* What a phase, or a call of the backend, stands for.
Staged ==
    /\ phase = "appending" => input.tasks # <<>>
    /\ phase \in Identified \/ building # None \/ calls = 1 =>
          candidate = input.tasks /\ candidate # <<>>

Projected ==
    /\ phase \in ExpectedBuilt \/ building = "actual" \/ calls = 1 =>
          expected.sealed /\ expected.records # <<>>
    /\ phase \in ActualBuilt \/ calls = 1 => actual.sealed /\ Ascending(actual.records)
    /\ phase \in Validated \/ calls = 1 => expected.records = actual.records

\* A builder is called before anything was attempted, and only a builder that aborts
\* finds the candidate in another phase than its own.
Built ==
    /\ building = "expected" => phase \in {"independently_validating", "aborted"}
    /\ building = "actual" => phase \in {"expected_projection_sealed", "aborted"}
    /\ building # None => ~gone
    /\ building # None /\ phase = "aborted" => "build" \in Reentrant

\* The backend runs under an attempt, or under an outcome that its callback left unknown.
Attempted ==
    /\ phase \in Reserved \/ calls = 1 => report.reserved
    /\ calls \in {0, 1}
    /\ calls = 0 => effect = "none" /\ ~running
    /\ calls = 1 => phase \in Concluded \cup {"publication_attempted_once"}
    /\ phase = "publication_attempted_once" => running
    /\ running => ~gone /\ terminal \in {None, "publication_outcome_unknown"}

Verdicts ==
    /\ terminal # None <=> phase \in Concluded
    /\ OutcomeTruthful

Cleanups == cleanups = IF cleanup.called THEN 1 ELSE 0

CandidateInv ==
    /\ TypeOK /\ Staged /\ Projected /\ Built /\ Attempted
    /\ Verdicts /\ ReportAgrees /\ Cleanups

\* Of a candidate whose builders do not abort it and that is not assigned to.
CleanedInv == (cleanup.called <=> phase \in Ended) /\ (gone => phase \in Ended)

-----------------------------------------------------------------------------
(* Steps *)

\* No call rewrites a verdict.
VerdictIsFinal == [][terminal # None => terminal' = terminal]_vars

\* No call revives an aborted candidate.  The return of a builder that aborted does.
AbortedIsFinal == [][phase = "aborted" => phase' = "aborted"]_vars

\* What the candidate tells is what the abstract publication tells.
Told ==
    CASE phase = "aborted" -> "none"
      [] terminal = None /\ phase # "aborted" -> "pending"
      [] terminal \in Rejections \cup {"not_attempted"} -> "none"
      [] terminal \in Commitments -> "committed"
      [] terminal = "publication_outcome_unknown" -> "unclear"

OneShot == INSTANCE OneShotPublication WITH told <- Told

\* The candidate implements OneShotPublication: one effect, one verdict, and only an
\* unclear one may be overtaken by the effect.  Of a client whose builders do not abort it.
ImplementsOneShot == OneShot!Spec

=============================================================================
