----------------------------- MODULE Ng1Runtime -----------------------------
(***************************************************************************)
(* The execution of one NG1 provider task: the loop of                     *)
(* execute_provider_process_ng1 with its one restart, the live driver that *)
(* owns the worker process, and as much of the session coordinator as they *)
(* see.  The host is one thread; the provider is a separate process that   *)
(* may send any frame, fall silent, close its output or die at any moment, *)
(* and a cancellation or the wall deadline may arrive at any moment: the   *)
(* stop token and the deadline are not state, the steps that look at them  *)
(* may always find them set.                                               *)
(*                                                                         *)
(* One action is one turn of the loop, or one call of the restart or of    *)
(* the end.  The clocks are Ng1Session's and the files are SpillStorage's: *)
(* here a liveness check, a control sample or an effect fails or does not. *)
(***************************************************************************)
EXTENDS Integers, Sequences, SequencesExt, Ng1Recovery

CONSTANTS
    MaximumRetained,    \* maximum_retained_frames_ of one attempt
    Inputs              \* bound on what a provider puts into its frames

VARIABLES
    pc,          \* where execute_provider_process_ng1 is
    worker,      \* per attempt, the worker process
    frames,      \* provider_frames_ of the driver, without the resume token
    seen,        \* what the driver and the session observed in the frames
    spill,       \* the frames in the durable spill
    checkpoint,  \* the acknowledged sequence of latest_checkpoint_, or None
    prefix,      \* durable_wire_prefix
    expected,    \* next_replay_sequence, None until the restart succeeded
    recovery,    \* recovery_.state() of the session
    poisoned,    \* the session's poisoned()
    cleaned,     \* the session's cleaned()
    sealed,      \* the transcript that was sealed
    verdict      \* what the caller is told

session == <<recovery, poisoned, cleaned>>
restart == <<prefix, expected>>
result == <<sealed, verdict>>
vars == <<pc, worker, frames, seen, spill, checkpoint, prefix, expected, recovery,
          poisoned, cleaned, sealed, verdict>>

-----------------------------------------------------------------------------
(* Values *)

None == -1
Attempts == {0, 1}

\* "control" is a heartbeat acknowledgement or a progress sample, "total" the
\* progress sample that reports all units done, "data" any frame without a
\* meaning of its own to driver and session.
Kinds == {"accepted", "begin", "end", "data", "control", "total", "resume",
          "complete", "failed"}
Terminals == {"complete", "failed"}

\* bound: the header and the metadata of the frame name this task, stream and
\* batch, and a resume token names the latest checkpoint.
Frame == [kind : Kinds, seq : Nat, bound : BOOLEAN, attempt : Attempts]

ASSUME RuntimeAssumption ==
    /\ MaximumRetained \in Nat \ {0}
    /\ Inputs \subseteq Frame

Steps == {"receive", "restart", "reopen", "launch", "handshake", "finish", "validate",
          "conclude", "failing", "return", "done"}

TypeOK ==
    /\ pc \in Steps
    /\ worker \in [Attempts -> {"none", "live", "ended"}]
    /\ frames \in Seq(Frame) /\ Len(frames) <= MaximumRetained
    /\ seen \in [accepted : BOOLEAN, group : {"none", "open", "sealed"}, token : BOOLEAN,
                 terminal : BOOLEAN, total : BOOLEAN]
    /\ spill \in Seq(Frame) /\ prefix \in Seq(Frame) /\ sealed \in Seq(Frame)
    /\ checkpoint \in Nat \cup {None}
    /\ expected \in Nat \cup {None}
    /\ recovery \in RecoveryStates
    /\ poisoned \in BOOLEAN /\ cleaned \in BOOLEAN
    /\ verdict \in {"none", "success", "unsealed", "error"}

\* The driver is started and every host frame is sent.
Init ==
    /\ pc = "receive"
    /\ worker = [a \in Attempts |-> IF a = 0 THEN "live" ELSE "none"]
    /\ frames = <<>>
    /\ seen = [accepted |-> FALSE, group |-> "none", token |-> FALSE,
               terminal |-> FALSE, total |-> FALSE]
    /\ spill = <<>> /\ prefix = <<>> /\ sealed = <<>>
    /\ checkpoint = None /\ expected = None
    /\ recovery = "running"
    /\ poisoned = FALSE /\ cleaned = FALSE
    /\ verdict = "none"

-----------------------------------------------------------------------------
(* Helpers *)

\* restarted: the replacement resumed, replay_process_active_.
Restarted == expected # None
Attempt == IF worker[1] = "none" THEN 0 ELSE 1
Live == \E a \in Attempts : worker[a] = "live"
EndWorker == worker' = [a \in Attempts |-> IF worker[a] = "live" THEN "ended" ELSE worker[a]]

\* state() of the session.
State == IF poisoned THEN "failed" ELSE recovery

\* An event of the matrix on the session.
Observe(event) ==
    \E next \in RecoveryStates : Transition(recovery, event, next) /\ recovery' = next

\* observe_output_group_state: the resume token follows the checkpoint, once; the
\* bound batch is opened and sealed once, after the task was accepted.
GroupAccepts(f) ==
    CASE f.kind = "resume" -> /\ checkpoint # None /\ f.seq = checkpoint + 1
                              /\ ~seen.token /\ f.bound
      [] f.kind = "begin" -> seen.accepted /\ f.bound /\ seen.group = "none"
      [] f.kind = "end" -> f.bound /\ seen.group = "open"
      [] OTHER -> TRUE

\* observe_task_accepted: once, and never by the replacement.
AdapterAccepts(f) ==
    /\ f.kind = "accepted" => ~Restarted /\ ~seen.accepted /\ f.bound
    /\ f.kind = "total" /\ ~Restarted => ~seen.total

\* The replay repeats no sequence and leaves none out.
ReplayInOrder(f) == Restarted => f.seq = expected

\* Seeded fault: the frame that seals the batch is not spilled before the checkpoint.
Spilled_BeforeEnd(f) ==
    ~Restarted /\ checkpoint = None /\ f.kind \notin {"resume", "end"} \cup Terminals

\* The frames spilled are those up to the checkpoint.
Spilled(f) == ~Restarted /\ checkpoint = None /\ f.kind \notin {"resume"} \cup Terminals

\* The driver closes the spill after a terminal frame, the session with the sample of
\* the whole total, which it has observed when that frame itself is to be spilled.
SpillOpen(f) == Spilled(f) => ~seen.terminal /\ ~seen.total /\ f.kind # "total"

\* The spill's prefix admits the next sequence only.
SpillAccepts(f) == SpillOpen(f) /\ (Spilled(f) => f.seq = Len(spill))

Accepts(f) == GroupAccepts(f) /\ AdapterAccepts(f) /\ ReplayInOrder(f) /\ SpillAccepts(f)

\* What the driver and the session remember of an accepted frame.  The acceptance
\* of the task restarts the progress clock.
AfterFrame(f) ==
    [accepted |-> seen.accepted \/ f.kind = "accepted",
     group |-> CASE f.kind = "begin" -> "open"
                 [] f.kind = "end" -> "sealed"
                 [] OTHER -> seen.group,
     token |-> seen.token \/ f.kind = "resume",
     terminal |-> seen.terminal \/ f.kind \in Terminals,
     total |-> IF Restarted THEN seen.total
               ELSE f.kind # "accepted" /\ (seen.total \/ f.kind = "total")]

-----------------------------------------------------------------------------
(* The receive loop *)

\* provider_frames_.size(): the token counts, until a replacement clears the frames.
Retained == Len(frames) + IF seen.token /\ ~Restarted THEN 1 ELSE 0

\* receive_provider_frame returns the frame f.
Arrives(f) ==
    /\ pc = "receive"
    /\ f.attempt = Attempt
    /\ Retained < MaximumRetained

\* The driver retains it.  Whoever reads the frames skips the token.
Retain(f) == frames' = IF f.kind = "resume" THEN frames ELSE Append(frames, f)

\* A whole turn of the loop with an accepted frame: group state, session, spill,
\* checkpoint at the end of the bound batch, liveness.
Receive(f, silent) ==
    /\ Arrives(f)
    /\ Accepts(f)
    /\ Retain(f)
    /\ seen' = AfterFrame(f)
    /\ spill' = IF Spilled(f) THEN Append(spill, f) ELSE spill
    /\ checkpoint' = IF f.kind = "end" /\ ~Restarted THEN f.seq ELSE checkpoint
    /\ expected' = IF Restarted THEN expected + 1 ELSE None
    /\ IF silent
       THEN ~Restarted /\ Observe("heartbeat_timeout") /\ pc' = "restart"
       ELSE UNCHANGED <<recovery, pc>>
    /\ UNCHANGED <<worker, prefix, poisoned, cleaned, result>>

\* The append or the fsync of the spill fails: the session is poisoned.
SpillFails(f) ==
    /\ Arrives(f)
    /\ Accepts(f) /\ Spilled(f)
    /\ Retain(f)
    /\ seen' = AfterFrame(f)
    /\ spill' \in {spill} \cup (IF f.kind = "end" THEN {Append(spill, f)} ELSE {})
    /\ poisoned' = TRUE
    /\ pc' = "failing"
    /\ UNCHANGED <<worker, checkpoint, restart, recovery, cleaned, result>>

\* A frame that is not accepted.  The driver's checks and the spill's own poison the
\* session; a spill that is not open and a replay out of sequence leave that to
\* terminal_failure.  The frame is not recorded: after this nobody reads the frames.
ReceiveRefused(f) ==
    LET observed == GroupAccepts(f) /\ AdapterAccepts(f)
    IN  /\ Arrives(f)
        /\ ~Accepts(f)
        /\ f.kind = "total" => AdapterAccepts(f)
        /\ poisoned' = (poisoned \/ ~observed \/ (ReplayInOrder(f) /\ SpillOpen(f)))
        /\ pc' = "failing"
        /\ UNCHANGED <<worker, frames, seen, spill, checkpoint, restart, recovery, cleaned,
                       result>>

\* A control sample of the first worker that the session refuses.
ControlFails(f, event) ==
    /\ Arrives(f)
    /\ f.kind \in {"control", "total"} /\ ~Restarted
    /\ Retain(f)
    /\ event = "heartbeat_timeout" => f.kind = "control"
    /\ Observe(event)
    /\ pc' = IF event = "invalid_heartbeat_clock" THEN "failing" ELSE "restart"
    /\ UNCHANGED <<worker, seen, spill, checkpoint, restart, poisoned, cleaned, result>>

\* check_liveness fails after a poll that brought no frame.  A check that passes,
\* and any poll of the replacement, only goes on with the loop.
PollFindsSilence ==
    /\ pc = "receive" /\ ~Restarted
    /\ Observe("heartbeat_timeout")
    /\ pc' = "restart"
    /\ UNCHANGED <<worker, frames, seen, spill, checkpoint, restart, poisoned, cleaned,
                   result>>

\* Seeded fault: nothing ends the wait for the resume token of the replacement.
ReceiveFails_NotInHandshake ==
    /\ pc = "receive"
    /\ pc' = "failing"
    /\ UNCHANGED <<worker, frames, seen, spill, checkpoint, restart, session, result>>

\* Any other error of the channel: the transport, the frame limit, a cancellation
\* and, at the latest, the wall deadline.
ReceiveFails ==
    /\ pc \in {"receive", "handshake"}
    /\ pc' = "failing"
    /\ UNCHANGED <<worker, frames, seen, spill, checkpoint, restart, session, result>>

\* The provider closed its output.
EndOfOutput ==
    /\ pc = "receive"
    /\ pc' = "finish"
    /\ UNCHANGED <<worker, frames, seen, spill, checkpoint, restart, session, result>>

-----------------------------------------------------------------------------
(* try_one_restart *)

\* Seeded fault: a worker that sent its terminal frame may be replaced.
RestartAllowed_AfterTerminal == ~Restarted /\ checkpoint # None /\ seen.token

RestartAllowed ==
    /\ ~Restarted /\ ~seen.terminal
    /\ checkpoint # None /\ seen.token

\* The restart is not allowed, a cancellation was requested, or terminate failed.
DeclineRestart ==
    /\ pc = "restart"
    /\ pc' = "failing"
    /\ UNCHANGED <<worker, frames, seen, spill, checkpoint, restart, session, result>>

\* durable_wire_prefix: the frames before the replay, which have to be whole: one for
\* each sequence up to the checkpoint, in their order.
Early == { i \in DOMAIN frames : frames[i].seq <= checkpoint }
Whole ==
    /\ { frames[i].seq : i \in Early } = 0 .. checkpoint
    /\ \A i, j \in Early : i < j => frames[i].seq < frames[j].seq
Durable ==
    [n \in 1 .. checkpoint + 1 |-> frames[CHOOSE i \in Early : frames[i].seq = n - 1]]

\* terminate confirms the kill, and the durable prefix is taken from the frames.
KillForRestart ==
    /\ pc = "restart" /\ RestartAllowed
    /\ EndWorker
    /\ Observe("worker_kill_confirmed")
    /\ IF Whole THEN prefix' = Durable /\ pc' = "reopen" ELSE pc' = "failing" /\ UNCHANGED prefix
    /\ UNCHANGED <<frames, seen, spill, checkpoint, expected, poisoned, cleaned, result>>

\* reopen, restore_from_fsync_receipt and replace_durable_spill_for_resume.  When
\* the original cannot be retired the session's spill is left poisoned and cleaned.
ReopenSpill ==
    /\ pc = "reopen"
    /\ \/ pc' = "launch" /\ UNCHANGED <<poisoned, cleaned>>
       \/ pc' = "failing" /\ UNCHANGED <<poisoned, cleaned>>
       \/ pc' = "failing" /\ poisoned' = TRUE /\ cleaned' = TRUE
    /\ UNCHANGED <<worker, frames, seen, spill, checkpoint, restart, recovery, result>>

\* launch_replacement; it fails on a cancellation, at the wall deadline or when the
\* process does not start.
Launch ==
    /\ pc = "launch"
    /\ \/ /\ worker' = [worker EXCEPT ![1] = "live"]
          /\ pc' = "handshake"
          /\ UNCHANGED poisoned
       \/ /\ poisoned' = TRUE
          /\ pc' = "failing"
          /\ UNCHANGED worker
    /\ UNCHANGED <<frames, seen, spill, checkpoint, restart, recovery, cleaned, result>>

\* accept_replacement_resume: the replacement repeats the resume token of the first
\* worker at the acknowledged sequence plus one, and the session accepts it.
Handshake(f) ==
    /\ pc = "handshake" /\ f.attempt = 1
    /\ f.kind = "resume" /\ f.bound /\ f.seq = checkpoint + 1
    /\ \/ /\ Observe("durable_token_valid")
          /\ frames' = <<>>
          /\ expected' = checkpoint + 1
          /\ pc' = "receive"
       \/ /\ Observe("durable_token_invalid")
          /\ pc' = "failing"
          /\ UNCHANGED <<frames, expected>>
    /\ UNCHANGED <<worker, seen, spill, checkpoint, prefix, poisoned, cleaned, result>>

\* Any other frame in place of the token.
HandshakeRefused ==
    /\ pc = "handshake"
    /\ poisoned' = TRUE
    /\ pc' = "failing"
    /\ UNCHANGED <<worker, frames, seen, spill, checkpoint, restart, recovery, cleaned,
                   result>>

-----------------------------------------------------------------------------
(* The end of the output *)

\* finish: the exit status of the worker is collected, or cannot be.
Finish ==
    /\ pc = "finish"
    /\ \/ /\ EndWorker
          /\ UNCHANGED recovery \/ Observe("worker_exit")
          /\ pc' = "validate"
       \/ pc' = "failing" /\ UNCHANGED <<worker, recovery>>
    /\ UNCHANGED <<frames, seen, spill, checkpoint, restart, poisoned, cleaned, result>>

\* The frames that are validated, and what every valid transcript looks like.
Transcript ==
    IF Restarted THEN prefix \o frames ELSE frames
ValidTranscript(t) ==
    /\ t # <<>>
    /\ \A i \in DOMAIN t : t[i].seq = i - 1 /\ (t[i].kind \in Terminals <=> i = Len(t))

ReplayStarts == Restarted => frames # <<>> /\ frames[1].seq = checkpoint + 1

\* finish_provider_process reports an error, or the replay does not start where it has to.
ValidateFails ==
    /\ pc = "validate"
    /\ pc' = "failing"
    /\ UNCHANGED <<worker, frames, seen, spill, checkpoint, restart, session, result>>

\* An outcome that is not a success: a crash, an invalid transcript, a failed task.
ValidateUnsealed ==
    /\ pc = "validate" /\ ReplayStarts
    /\ pc' = "conclude"
    /\ UNCHANGED <<worker, frames, seen, spill, checkpoint, restart, session, result>>

\* A validated success: accept_replay of a replay, then seal_output.
ValidateAndSeal ==
    /\ pc = "validate" /\ ReplayStarts
    /\ ValidTranscript(Transcript) /\ Last(Transcript).kind = "complete"
    /\ \/ /\ IF Restarted
             THEN \E s, t \in RecoveryStates : /\ Transition(recovery, "replay_valid", s)
                                               /\ Transition(s, "output_sealed", t)
                                               /\ recovery' = t
             ELSE seen.total /\ Observe("output_sealed")
          /\ sealed' = Transcript
          /\ pc' = "conclude"
          /\ UNCHANGED poisoned
       \/ /\ ~Restarted /\ recovery = "running" /\ ~seen.total
          /\ poisoned' = TRUE
          /\ pc' = "failing"
          /\ UNCHANGED <<recovery, sealed>>
       \/ /\ ~Restarted /\ recovery # "running"
          /\ pc' = "failing"
          /\ UNCHANGED <<recovery, poisoned, sealed>>
    /\ UNCHANGED <<worker, frames, seen, spill, checkpoint, restart, cleaned, verdict>>

-----------------------------------------------------------------------------
(* The end of the session *)

\* Seeded fault: a session that has failed by itself is not cleaned up.
RejectAndCleanup_OpenOnly(s, succeeds) ==
    IF cleaned \/ poisoned \/ s \in TerminalStates
    THEN recovery' = s /\ UNCHANGED <<poisoned, cleaned>>
    ELSE /\ recovery' = IF s = "resumed" THEN "failed" ELSE s
         /\ poisoned' = (s # "resumed" \/ ~succeeds)
         /\ cleaned' = TRUE

\* reject_output() unless the session is in a terminal state already, then cleanup.
\* s is the recovery state the worker's end has left.
RejectAndCleanup(s, succeeds) ==
    IF cleaned THEN recovery' = s /\ UNCHANGED <<poisoned, cleaned>>
    ELSE LET terminal == poisoned \/ s \in TerminalStates
         IN  /\ recovery' = IF ~terminal /\ s = "resumed" THEN "failed" ELSE s
             /\ poisoned' = \/ poisoned
                            \/ ~terminal /\ s # "resumed"
                            \/ ~succeeds
             /\ cleaned' = TRUE

\* synchronize_process_outcome of a worker that was terminated.
AfterTermination ==
    IF ~poisoned /\ recovery \in {"running", "heartbeat_timeout", "progress_rate_failure"}
    THEN "worker_killed" ELSE recovery

\* Seeded fault: the outcome is returned whatever the cleanup says.
Conclude_IgnoresCleanup ==
    /\ pc = "conclude"
    /\ \E succeeds \in BOOLEAN : RejectAndCleanup(recovery, succeeds)
    /\ verdict' = IF sealed = <<>> THEN "unsealed" ELSE "success"
    /\ pc' = "return"
    /\ UNCHANGED <<worker, frames, seen, spill, checkpoint, restart, sealed>>

\* The outcome is returned only when the cleanup succeeds.
Conclude ==
    /\ pc = "conclude"
    /\ \E succeeds \in BOOLEAN :
          /\ RejectAndCleanup(recovery, succeeds)
          /\ verdict' = IF ~succeeds THEN "error"
                        ELSE IF sealed = <<>> THEN "unsealed"
                        ELSE "success"
    /\ pc' = "return"
    /\ UNCHANGED <<worker, frames, seen, spill, checkpoint, restart, sealed>>

\* terminal_failure and fail_ng1_process.  A worker that cannot be terminated is
\* left to the destructor of the driver, with a session that is not cleaned up; it
\* is rejected already by the one and not by the other.
TerminalFailure ==
    /\ pc = "failing"
    /\ \/ /\ EndWorker
          /\ \E succeeds \in BOOLEAN :
                RejectAndCleanup(IF Live THEN AfterTermination ELSE recovery, succeeds)
       \/ /\ Live
          /\ poisoned' \in {poisoned, TRUE}
          /\ UNCHANGED <<worker, recovery, cleaned>>
    /\ verdict' = "error"
    /\ pc' = "return"
    /\ UNCHANGED <<frames, seen, spill, checkpoint, restart, sealed>>

\* ~ng1_live_session_driver: the process is reaped, the session rejected and cleaned.
Destroy ==
    /\ pc = "return"
    /\ EndWorker
    /\ \E succeeds \in BOOLEAN, s \in {recovery, AfterTermination} :
          /\ s # recovery => Live
          /\ RejectAndCleanup(s, succeeds)
    /\ pc' = "done"
    /\ UNCHANGED <<frames, seen, spill, checkpoint, restart, result>>

-----------------------------------------------------------------------------
(* Specification *)

LivenessEvents == {"heartbeat_timeout", "progress_rate_failure", "invalid_heartbeat_clock"}

ProviderStep ==
    \/ \E f \in Inputs :
          \/ \E silent \in BOOLEAN : Receive(f, silent)
          \/ SpillFails(f) \/ ReceiveRefused(f) \/ Handshake(f)
          \/ \E e \in LivenessEvents : ControlFails(f, e)
    \/ PollFindsSilence \/ EndOfOutput \/ HandshakeRefused

HostStep ==
    \/ ReceiveFails
    \/ DeclineRestart \/ KillForRestart \/ ReopenSpill \/ Launch
    \/ Finish \/ ValidateFails \/ ValidateUnsealed \/ ValidateAndSeal
    \/ Conclude \/ TerminalFailure \/ Destroy

Next == ProviderStep \/ HostStep

\* The host thread does not stop by itself, and a receive that nothing else ends fails
\* at the wall deadline.  Nothing is assumed of the provider.
Fairness == WF_vars(HostStep)

Spec == Init /\ [][Next]_vars /\ Fairness

-----------------------------------------------------------------------------
(* Properties *)

\* The first worker is dead before the second one starts, and its replacement was
\* justified: the first worker had a durable checkpoint and no terminal frame.
OneLiveWorker ==
    worker[1] # "none" =>
        /\ worker[0] = "ended"
        /\ checkpoint # None
        /\ ~\E i \in DOMAIN frames : frames[i].kind \in Terminals /\ frames[i].attempt = 0

\* When the call has returned no worker is alive and the session is cleaned up,
\* whichever step failed and however terminate and cleanup answered.
NothingLeftBehind == pc = "done" => ~Live /\ cleaned /\ State \in TerminalStates

\* The caller is told of a success only with a completed session behind it and for
\* a transcript that holds, frame for frame, what the spill made durable.
SuccessIsSealed ==
    verdict = "success" =>
        /\ State = "completed" /\ cleaned
        /\ IsPrefix(IF checkpoint = None THEN <<>> ELSE spill, sealed)

\* The execution is one of TaskOutcome.
Outcome == INSTANCE TaskOutcome WITH
    Frames <- Frame,
    durable <- IF checkpoint = None THEN <<>> ELSE spill,
    output <- sealed,
    attempt <- Attempt

ImplementsTaskOutcome == Outcome!Spec

\* The call returns, whatever the provider does.
Termination == <>(pc = "done")

\* A worker that accepted its task, reported its total and sent its terminal frame
\* owes no further heartbeat: no poll that brings no frame times it out.
NoTimeoutAfterTerminal ==
    [][ /\ seen.accepted /\ seen.total /\ seen.terminal
        /\ recovery = "running" /\ frames' = frames
        => recovery' # "heartbeat_timeout" ]_vars

=============================================================================
