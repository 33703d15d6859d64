----------------------------- MODULE Ng1Session -----------------------------
(***************************************************************************)
(* ng1_session_coordinator: the host side of one NG1 provider session.     *)
(* Heartbeats, progress samples, worker events, the durable resume, the    *)
(* replay and the output seal all go through it, and it decides whether    *)
(* the session is running, recovering, completed or failed.                *)
(*                                                                         *)
(* Every public operation is an action and callers may invoke them in any  *)
(* order, as the tests of the coordinator do; the one restriction is that  *)
(* a running session is polled (check_liveness) at least every             *)
(* PollInterval, as the receive loop does.  The durable spill behind the   *)
(* coordinator is the module SpillStorage; here it only matters whether a  *)
(* spill operation, or the resume from it, succeeds.                       *)
(***************************************************************************)
EXTENDS Ng1Clocks, Ng1Recovery

CONSTANTS
    PollInterval,       \* the receive loop's liveness_poll_interval_ns
    HeartbeatKinds,     \* the kinds of heartbeat control exchanged
    WorkerEvents,       \* the worker and cancellation events a caller reports
    Totals,             \* total_units a provider may declare
    Skews,              \* provider clock minus host clock, in ticks
    Bound,              \* whether the samples of this run may be unbound
    Digests,            \* sealed transcript digests
    Acks,               \* highest contiguous acknowledged sequences of a resume
    MaxTime,            \* bound on the clock
    MaxSeq,             \* bound on heartbeat and progress sequences
    MaxUnits            \* bound on the units a sample reports

ASSUME SessionAssumption ==
    /\ PollInterval \in Nat \ {0}
    /\ HeartbeatKinds \subseteq {"probe", "ack"}
    /\ WorkerEvents \subseteq {"worker_exit", "heartbeat_timeout", "progress_rate_failure",
                               "cancel_requested", "cancel_acknowledged", "cancel_timeout",
                               "worker_kill_confirmed"}
    /\ Totals \subseteq Nat
    /\ Skews \subseteq Int
    /\ Bound \in SUBSET BOOLEAN
    /\ Acks \subseteq Nat
    /\ MaxTime \in Nat /\ MaxSeq \in Nat /\ MaxUnits \in Nat

VARIABLES
    now,               \* the host's monotonic clock
    polledAt,          \* when the receive loop last checked the liveness
    hb, pr,            \* heartbeat_ and progress_
    recovery,          \* recovery_.state()
    poisoned,          \* poisoned_ or spill_.poisoned()
    cleaned,           \* cleaned_
    taskAccepted,      \* task_accepted_
    lastReceipt,       \* last_host_receipt_time_ns_
    progressTerminal,  \* progress_terminal_
    resumeAck,         \* resume_state_'s last acknowledged sequence, or None
    replayDigest,      \* replay_output_digest_, a set with at most one element
    sealed,            \* the digests sealed so far (history)
    anchor             \* the last rate checkpoint taken within the grace (history)

clocks == <<now, polledAt>>
resume == <<resumeAck, replayDigest>>
vars == <<now, polledAt, hb, pr, recovery, poisoned, cleaned, taskAccepted, lastReceipt,
          progressTerminal, resumeAck, replayDigest, sealed, anchor>>

TypeOK ==
    /\ now \in Nat /\ polledAt \in Nat
    /\ hb \in Heartbeat /\ pr \in Progress
    /\ recovery \in RecoveryStates
    /\ poisoned \in BOOLEAN /\ cleaned \in BOOLEAN
    /\ taskAccepted \in BOOLEAN /\ progressTerminal \in BOOLEAN
    /\ lastReceipt \in Optional
    /\ resumeAck \in Optional
    /\ replayDigest \in SUBSET Digests /\ sealed \in SUBSET Digests
    /\ anchor \in [at : Optional, units : Optional]

NoAnchor == [at |-> None, units |-> None]

Init ==
    /\ now = 0 /\ polledAt = 0
    /\ hb = FreshHeartbeat(0) /\ pr = FreshProgress(0)
    /\ recovery = "running"
    /\ poisoned = FALSE /\ cleaned = FALSE
    /\ taskAccepted = FALSE /\ progressTerminal = FALSE
    /\ lastReceipt = None
    /\ resumeAck = None /\ replayDigest = {}
    /\ sealed = {}
    /\ anchor = NoAnchor

-----------------------------------------------------------------------------
(* Helpers *)

\* state(): a poisoned session reads as failed whatever its recovery state is.
State == IF poisoned THEN "failed" ELSE recovery

\* Seeded fault: a poisoned session still counts as open.
EnsureOpen_Poisoned == ~cleaned

EnsureOpen == ~cleaned /\ ~poisoned
Running == EnsureOpen /\ recovery = "running"

\* admit_host_receipt: host receipts of one session never go backwards.
ReceiptInOrder(receipt) == lastReceipt = None \/ receipt >= lastReceipt

\* An event of the recovery matrix, on an open session.
Observe(event) ==
    /\ EnsureOpen
    /\ \E next \in RecoveryStates :
          Transition(recovery, event, next) /\ recovery' = next

\* poison(error).
Poison == poisoned' = TRUE

\* reject_heartbeat and reject_progress: the error code selects the event.
RejectHeartbeat(verdict) ==
    Observe(IF verdict = "timeout" THEN "heartbeat_timeout" ELSE "invalid_heartbeat_clock")
RejectProgress(verdict) ==
    Observe(IF verdict = "rate" THEN "progress_rate_failure" ELSE "invalid_heartbeat_clock")

\* reject_output(error): a resumed session fails by the matrix, any other is poisoned.
RejectSession ==
    \/ recovery = "resumed" /\ Observe("output_invalid") /\ UNCHANGED poisoned
    \/ recovery # "resumed" /\ EnsureOpen /\ Poison /\ UNCHANGED recovery

-----------------------------------------------------------------------------
(* The clock and the controls of a running provider *)

\* Time passes; the receive loop gets to its next liveness check in time.
Tick ==
    /\ now < MaxTime
    /\ Running => now < polledAt + PollInterval
    /\ now' = now + 1
    /\ UNCHANGED <<polledAt, hb, pr, recovery, poisoned, cleaned, taskAccepted, lastReceipt,
                   progressTerminal, resume, sealed, anchor>>

\* observe_task_accepted: a second one, or one for another task or provider,
\* poisons the session; the first restarts both clocks.
TaskAccepted(matches) ==
    /\ EnsureOpen
    /\ \/ /\ ~taskAccepted /\ matches /\ ReceiptInOrder(now)
          /\ hb' = FreshHeartbeat(now) /\ pr' = FreshProgress(now)
          /\ anchor' = NoAnchor
          /\ lastReceipt' = now
          /\ taskAccepted' = TRUE
          /\ UNCHANGED poisoned
       \/ /\ taskAccepted \/ ~matches \/ ~ReceiptInOrder(now)
          /\ Poison
          /\ UNCHANGED <<hb, pr, lastReceipt, taskAccepted, anchor>>
    /\ UNCHANGED <<clocks, recovery, cleaned, progressTerminal, resume, sealed>>

\* What the provider's clock may show.
ProviderTimes == { now + d : d \in Skews } \cap Nat

\* A heartbeat control as it reaches the validator, stamped on receipt.
HeartbeatSamples ==
    [kind : HeartbeatKinds, seq : 0 .. MaxSeq, time : ProviderTimes, receipt : {now},
     acked : IF Bound = {TRUE} THEN {0} ELSE {0, 1}, observed : {0}, bound : Bound]

\* observe_host_probe and observe_provider_ack.
ObserveHeartbeat(s) ==
    LET verdict == IF ReceiptInOrder(s.receipt) THEN HeartbeatVerdict(hb, s) ELSE "clock"
    IN  /\ Running
        /\ \/ /\ verdict = "accepted"
              /\ hb' = AfterHeartbeat(hb, s)
              /\ lastReceipt' = s.receipt
              /\ UNCHANGED recovery
           \/ /\ verdict # "accepted"
              /\ RejectHeartbeat(verdict)
              /\ UNCHANGED <<hb, lastReceipt>>
        /\ UNCHANGED <<clocks, pr, poisoned, cleaned, taskAccepted, progressTerminal,
                       resume, sealed, anchor>>

\* check_liveness(now).
CheckLiveness ==
    /\ Running
    /\ polledAt' = now
    /\ \/ /\ ReceiptInOrder(now)
          /\ lastReceipt' = now
          /\ IF Silent(hb, now) THEN RejectHeartbeat("timeout") ELSE UNCHANGED recovery
       \/ /\ ~ReceiptInOrder(now)
          /\ RejectHeartbeat("clock")
          /\ UNCHANGED lastReceipt
    /\ UNCHANGED <<now, hb, pr, poisoned, cleaned, taskAccepted, progressTerminal,
                   resume, sealed, anchor>>

ProgressSamples ==
    [seq : 0 .. MaxSeq, time : ProviderTimes, receipt : {now}, completed : 0 .. MaxUnits,
     total : Totals, bound : Bound, terminal : BOOLEAN]

\* observe_progress.
ObserveProgress(s) ==
    LET verdict == IF ReceiptInOrder(s.receipt) THEN ProgressVerdict(pr, s) ELSE "clock"
        next == AfterProgress(pr, s)
    IN  /\ Running
        /\ \/ /\ verdict = "accepted"
              /\ pr' = next
              /\ anchor' = IF AfterGrace(pr, s) THEN anchor
                           ELSE [at |-> next.rateAt, units |-> next.rateUnits]
              /\ lastReceipt' = s.receipt
              /\ progressTerminal' = (progressTerminal \/ s.terminal)
              /\ UNCHANGED recovery
           \/ /\ verdict # "accepted"
              /\ RejectProgress(verdict)
              /\ UNCHANGED <<pr, lastReceipt, progressTerminal, anchor>>
        /\ UNCHANGED <<clocks, hb, poisoned, cleaned, taskAccepted, resume, sealed>>

-----------------------------------------------------------------------------
(* The spill and the worker *)

quiet == <<clocks, hb, pr, cleaned, taskAccepted, lastReceipt, progressTerminal, anchor>>

\* append_spill or fsync_spill fails.
SpillFails ==
    /\ Running
    /\ Poison
    /\ UNCHANGED <<quiet, recovery, resume, sealed>>

\* fail_before_worker_start: the driver could not start the worker.
FailBeforeWorkerStart ==
    /\ Poison
    /\ UNCHANGED <<quiet, recovery, resume, sealed>>

\* observe_worker_exit, observe_heartbeat_timeout, observe_progress_rate_failure,
\* request_cancel, acknowledge_cancel, timeout_cancel and confirm_worker_kill.
WorkerEvent(event) ==
    /\ Observe(event)
    /\ UNCHANGED <<quiet, poisoned, resume, sealed>>

\* accept_durable_resume (and restore_durable_resume, which restores the spill
\* first): the token names the latest receipt and frontier, or the session fails.
AcceptDurableResume(ack, valid) ==
    /\ EnsureOpen /\ recovery = "worker_killed"
    /\ \/ /\ valid
          /\ Observe("durable_token_valid")
          /\ resumeAck' = ack
       \/ /\ ~valid
          /\ Observe("durable_token_invalid")
          /\ UNCHANGED resumeAck
    /\ UNCHANGED <<quiet, poisoned, replayDigest, sealed>>

\* accept_replay_frontier: the replay starts at the acknowledged sequence plus one.
AcceptReplayFrontier(first) ==
    /\ EnsureOpen /\ recovery = "resume_replay"
    /\ Observe(IF first = resumeAck + 1 THEN "replay_valid" ELSE "replay_invalid")
    /\ UNCHANGED <<quiet, poisoned, resume, sealed>>

\* accept_replay: the whole replay was validated and its sealed digest is known.
\* It stands in for the terminal progress sample.
AcceptReplay(first, digest, bound) ==
    /\ EnsureOpen /\ recovery = "resume_replay"
    /\ \/ /\ bound /\ first = resumeAck + 1
          /\ Observe("replay_valid")
          /\ replayDigest' = {digest}
          /\ progressTerminal' = TRUE
       \/ /\ ~bound \/ first # resumeAck + 1
          /\ Observe("replay_invalid")
          /\ UNCHANGED <<replayDigest, progressTerminal>>
    /\ UNCHANGED <<clocks, hb, pr, poisoned, cleaned, taskAccepted, lastReceipt,
                   resumeAck, sealed, anchor>>

-----------------------------------------------------------------------------
(* The output *)

\* What seal_output asks of the output besides its task.
ReplaySealed(digest) == recovery = "resumed" => replayDigest = {digest}
\* Seeded fault: a terminal sample that the restart of the clocks has wiped still counts.
OutputEarned_AnyTerminal == progressTerminal

OutputEarned ==
    /\ progressTerminal
    /\ recovery = "running" => ProgressComplete(pr)

\* seal_output of the validated output.
SealOutput(digest, matches) ==
    /\ EnsureOpen /\ recovery \in {"running", "resumed"}
    /\ \/ /\ matches /\ ReplaySealed(digest) /\ OutputEarned
          /\ Observe("output_sealed")
          /\ hb' = [hb EXCEPT !.terminal = TRUE]
          /\ sealed' = sealed \cup {digest}
          /\ UNCHANGED poisoned
       \/ /\ ~matches \/ ~ReplaySealed(digest)
          /\ RejectSession
          /\ UNCHANGED <<hb, sealed>>
       \/ /\ matches /\ ReplaySealed(digest) /\ ~OutputEarned
          /\ Poison
          /\ UNCHANGED <<recovery, hb, sealed>>
    /\ UNCHANGED <<clocks, pr, cleaned, taskAccepted, lastReceipt, progressTerminal,
                   resume, anchor>>

\* reject_output().
RejectOutput ==
    /\ RejectSession
    /\ UNCHANGED <<quiet, resume, sealed>>

\* cleanup: only once and only from a terminal state; a failing effect poisons.
Cleanup(succeeds) ==
    /\ ~cleaned
    /\ State \in TerminalStates
    /\ cleaned' = TRUE
    /\ poisoned' = (poisoned \/ ~succeeds)
    /\ UNCHANGED <<clocks, hb, pr, recovery, taskAccepted, lastReceipt, progressTerminal,
                   resume, sealed, anchor>>

-----------------------------------------------------------------------------
(* Specification *)

ControlStep ==
    \/ \E matches \in BOOLEAN : TaskAccepted(matches)
    \/ \E s \in HeartbeatSamples : ObserveHeartbeat(s)
    \/ \E s \in ProgressSamples : ObserveProgress(s)
    \/ CheckLiveness

RecoveryStep ==
    \/ SpillFails \/ FailBeforeWorkerStart
    \/ \E e \in WorkerEvents : WorkerEvent(e)
    \/ \E a \in Acks, valid \in BOOLEAN : AcceptDurableResume(a, valid)
    \/ \E a \in Acks : AcceptReplayFrontier(a)
    \/ \E a \in Acks, d \in Digests, b \in BOOLEAN : AcceptReplay(a, d, b)

OutputStep ==
    \/ \E d \in Digests, matches \in BOOLEAN : SealOutput(d, matches)
    \/ RejectOutput
    \/ \E succeeds \in BOOLEAN : Cleanup(succeeds)

Next == Tick \/ ControlStep \/ RecoveryStep \/ OutputStep

Spec == Init /\ [][Next]_vars

-----------------------------------------------------------------------------
(* Properties *)

\* When a sign of life was last due from: the latest acknowledgement, or the start
\* of the task.
LastSign == IF hb.ackAt = None THEN hb.start ELSE hb.ackAt
SilenceLimit == IF hb.ackAt = None THEN StartupGrace ELSE HeartbeatTimeout

\* A running session is never silent for longer than the limit and one poll: no
\* progress sample, probe or restart of the clocks hides a dead provider.
SilenceBounded == Running => now - LastSign < SilenceLimit + PollInterval

\* Before the first valid acknowledgement the startup grace is the only deadline:
\* no observation of the clock or of a control times the session out earlier.
StartupGraceOnly ==
    [][ Running /\ hb.ackAt = None /\ recovery' = "heartbeat_timeout" =>
            now - hb.start >= StartupGrace ]_vars

\* Between two rate checkpoints after the startup grace, however many lie between
\* them, the provider did at least the minimum work: the rate cannot be dodged by
\* the choice of the samples.
MinimumRateHeld ==
    pr.rateAt # None /\ pr.rateAt - pr.start > StartupGrace =>
        RateSatisfied(pr.rateUnits - anchor.units, pr.rateAt - anchor.at)

\* A session completes by sealing one digest, its first.  A worker that was never
\* replaced has to have reported its whole total; a replaced one has to have its
\* replay, from the sequence after the durable acknowledgement, validated to that
\* same digest: the progress the first worker had reported earns nothing.
CompletionStep ==
    recovery' = "completed" /\ recovery # "completed" =>
        /\ sealed = {}
        /\ \E d \in Digests :
              /\ sealed' = {d}
              /\ \/ resumeAck = None /\ ProgressComplete(pr)
                 \/ resumeAck # None /\ replayDigest = {d}
SealIsEarned == [][CompletionStep]_vars

\* Nothing leaves the failed state, nothing is sealed in a terminal state, and a
\* completed session can only be demoted to failed: by a second task acceptance, an
\* explicit rejection or a cleanup whose effect is unknown.
TerminalStep ==
    State \in TerminalStates =>
        /\ State' \in {State, "failed"}
        /\ sealed' = sealed
        /\ (cleaned => cleaned')
TerminalIsFinal == [][TerminalStep]_vars

=============================================================================
