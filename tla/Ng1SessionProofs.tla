-------------------------- MODULE Ng1SessionProofs --------------------------
(***************************************************************************)
(* Proofs about Ng1Session, for every timeout, grace, window, gap, rate    *)
(* and polling interval, every clock skew of the provider and every        *)
(* sequence of calls.                                                      *)
(***************************************************************************)
EXTENDS Ng1Session, TLAPS

-----------------------------------------------------------------------------
(* The recovery matrix *)

\* No event leads back to the running state or out of a terminal one, and the
\* completed, the replaying and the resumed state have one way in each.
LEMMA MatrixRows ==
    ASSUME NEW s, NEW event, NEW t, Transition(s, event, t)
    PROVE  /\ s \in RecoveryStates /\ t \in RecoveryStates
           /\ s \notin TerminalStates /\ t # "running"
           /\ t = "completed" <=> event = "output_sealed"
           /\ t = "resume_replay" <=> event = "durable_token_valid"
           /\ t = "resumed" <=> event = "replay_valid"
           /\ t = "resumed" => s = "resume_replay"
  BY DEF Transition, Matrix, RecoveryStates, TerminalStates

\* An event of the matrix on an open session.
LEMMA ObserveEffect ==
    ASSUME NEW event, Observe(event)
    PROVE  /\ ~cleaned /\ ~poisoned
           /\ recovery \in RecoveryStates /\ recovery' \in RecoveryStates
           /\ recovery \notin TerminalStates /\ recovery' # "running"
           /\ recovery' = "completed" <=> event = "output_sealed"
           /\ recovery' = "resume_replay" <=> event = "durable_token_valid"
           /\ recovery' = "resumed" <=> event = "replay_valid"
           /\ recovery' = "resumed" => recovery = "resume_replay"
  BY MatrixRows DEF Observe, EnsureOpen

\* The events that a refused sample leads to.
LEMMA RejectEffect ==
    ASSUME NEW verdict, RejectHeartbeat(verdict) \/ RejectProgress(verdict)
    PROVE  /\ ~cleaned /\ ~poisoned
           /\ recovery' \in RecoveryStates \ {"running", "completed", "resume_replay", "resumed"}
           /\ recovery \notin TerminalStates
  BY ObserveEffect DEF RejectHeartbeat, RejectProgress

\* An output that is refused fails a resumed session and poisons any other.
LEMMA RejectSessionEffect ==
    ASSUME poisoned \in BOOLEAN, RejectSession
    PROVE  /\ poisoned' \in BOOLEAN
           /\ \/ /\ UNCHANGED poisoned /\ ~poisoned /\ ~cleaned
                 /\ recovery \notin TerminalStates
                 /\ recovery' \in RecoveryStates
                                  \ {"running", "completed", "resume_replay", "resumed"}
              \/ UNCHANGED recovery /\ poisoned' = TRUE /\ ~cleaned
  <1>1. CASE Observe("output_invalid") /\ UNCHANGED poisoned
    <2>1. /\ ~cleaned /\ ~poisoned /\ recovery \notin TerminalStates
          /\ recovery' \in RecoveryStates \ {"running", "completed", "resume_replay", "resumed"}
      BY <1>1, ObserveEffect
    <2> QED BY <1>1, <2>1
  <1>2. CASE EnsureOpen /\ Poison /\ UNCHANGED recovery
    BY <1>2 DEF EnsureOpen, Poison
  <1> QED BY <1>1, <1>2 DEF RejectSession

-----------------------------------------------------------------------------
(* Types *)

\* A heartbeat sample and the validator's state after it.
LEMMA HeartbeatTypes ==
    ASSUME TypeOK, NEW s \in HeartbeatSamples
    PROVE  /\ s.receipt = now /\ s.bound \in BOOLEAN
           /\ s.time \in Nat /\ s.seq \in Nat
           /\ AfterHeartbeat(hb, s) \in Heartbeat
           /\ AfterHeartbeat(hb, s).start = hb.start
           /\ AfterHeartbeat(hb, s).terminal = hb.terminal
           /\ AfterHeartbeat(hb, s).ackAt = IF s.kind = "ack" THEN s.receipt ELSE hb.ackAt
  <1>1. /\ s.receipt = now /\ s.time \in Nat /\ s.seq \in Nat /\ s.bound \in BOOLEAN
    BY SessionAssumption DEF HeartbeatSamples, ProviderTimes
  <1>2. /\ hb \in Heartbeat /\ s.receipt \in Optional /\ s.time \in Optional
        /\ s.seq \in Optional
    BY <1>1 DEF TypeOK, Optional
  <1> DEFINE seen == [hb EXCEPT !.provider = s.time, !.host = s.receipt]
  <1>3. /\ seen \in Heartbeat /\ seen.start = hb.start /\ seen.terminal = hb.terminal
        /\ seen.ackAt = hb.ackAt
    BY <1>2 DEF Heartbeat
  <1>4. AfterHeartbeat(hb, s) = IF s.kind = "ack"
                                THEN [seen EXCEPT !.ackSeq = s.seq, !.ackAt = s.receipt]
                                ELSE [seen EXCEPT !.probeSeq = s.seq, !.probeAt = s.receipt]
    BY DEF AfterHeartbeat
  <1> HIDE DEF seen
  <1>5. /\ AfterHeartbeat(hb, s) \in Heartbeat
        /\ AfterHeartbeat(hb, s).start = hb.start
        /\ AfterHeartbeat(hb, s).terminal = hb.terminal
        /\ AfterHeartbeat(hb, s).ackAt = IF s.kind = "ack" THEN s.receipt ELSE hb.ackAt
    BY <1>2, <1>3, <1>4 DEF Heartbeat
  <1> QED BY <1>1, <1>5

\* A progress sample and the validator's state after it.
LEMMA ProgressTypes ==
    ASSUME TypeOK, NEW s \in ProgressSamples
    PROVE  /\ s.receipt = now /\ s.completed \in Nat /\ s.terminal \in BOOLEAN
           /\ AfterProgress(pr, s) \in Progress
           /\ AfterProgress(pr, s).host = now
           /\ AfterProgress(pr, s).start = pr.start
           /\ IF pr.host = None \/ RateAdmitted(pr, s)
              THEN /\ AfterProgress(pr, s).rateAt = now
                   /\ AfterProgress(pr, s).rateUnits = s.completed
              ELSE /\ AfterProgress(pr, s).rateAt = pr.rateAt
                   /\ AfterProgress(pr, s).rateUnits = pr.rateUnits
  <1>1. /\ s.receipt = now /\ s.time \in Nat /\ s.seq \in Nat /\ s.completed \in Nat
        /\ s.total \in Nat /\ s.terminal \in BOOLEAN
    <2>1. /\ s.receipt = now /\ s.time \in Nat /\ s.total \in Totals /\ s.terminal \in BOOLEAN
          /\ s.seq \in 0 .. MaxSeq /\ s.completed \in 0 .. MaxUnits
      BY DEF ProgressSamples, ProviderTimes
    <2>2. Totals \subseteq Nat /\ 0 .. MaxSeq \subseteq Nat /\ 0 .. MaxUnits \subseteq Nat
      BY SessionAssumption
    <2> QED BY <2>1, <2>2
  <1>2. /\ pr \in Progress /\ s.receipt \in Optional /\ s.time \in Optional
        /\ s.seq \in Optional /\ s.completed \in Optional /\ s.total \in Optional
    BY <1>1 DEF TypeOK, Optional
  <1> DEFINE seen == [pr EXCEPT !.seq = s.seq, !.provider = s.time, !.host = s.receipt,
                                !.completed = s.completed, !.total = s.total,
                                !.terminal = s.terminal]
  <1>3. /\ seen \in Progress /\ seen.start = pr.start /\ seen.host = s.receipt
        /\ seen.rateAt = pr.rateAt /\ seen.rateUnits = pr.rateUnits
    BY <1>1, <1>2 DEF Progress
  <1>4. AfterProgress(pr, s) = IF pr.host = None \/ RateAdmitted(pr, s)
                               THEN [seen EXCEPT !.rateAt = s.receipt, !.rateUnits = s.completed]
                               ELSE seen
    BY DEF AfterProgress
  <1> HIDE DEF seen
  <1>5. CASE pr.host = None \/ RateAdmitted(pr, s)
    BY <1>1, <1>2, <1>3, <1>4, <1>5 DEF Progress
  <1>6. CASE ~(pr.host = None \/ RateAdmitted(pr, s))
    BY <1>1, <1>3, <1>4, <1>6
  <1> QED BY <1>1, <1>5, <1>6

\* The validators of a task that has just been accepted.
LEMMA FreshTypes ==
    ASSUME NEW start \in Nat
    PROVE  /\ FreshHeartbeat(start) \in Heartbeat
           /\ FreshHeartbeat(start).start = start /\ FreshHeartbeat(start).ackAt = None
           /\ FreshHeartbeat(start).terminal = FALSE
           /\ FreshProgress(start) \in Progress
           /\ FreshProgress(start).host = None /\ FreshProgress(start).rateAt = None
           /\ NoAnchor \in [at : Optional, units : Optional]
  BY DEF FreshHeartbeat, FreshProgress, Heartbeat, Progress, NoAnchor, Optional

\* The controls of a running provider.
LEMMA ControlTypes == ASSUME TypeOK, ControlStep PROVE TypeOK'
  <1>1. ASSUME NEW matches \in BOOLEAN, TaskAccepted(matches)
        PROVE  TypeOK'
    <2>1. /\ hb' \in Heartbeat /\ pr' \in Progress /\ lastReceipt' \in Optional
          /\ anchor' \in [at : Optional, units : Optional]
          /\ taskAccepted' \in BOOLEAN /\ poisoned' \in BOOLEAN
      BY <1>1, FreshTypes DEF TaskAccepted, Poison, TypeOK, Optional
    <2> QED BY <1>1, <2>1 DEF TaskAccepted, TypeOK, clocks, resume
  <1>2. ASSUME NEW s \in HeartbeatSamples, ObserveHeartbeat(s)
        PROVE  TypeOK'
    <2>1. hb' \in Heartbeat /\ lastReceipt' \in Optional /\ recovery' \in RecoveryStates
      BY <1>2, HeartbeatTypes, RejectEffect DEF ObserveHeartbeat, TypeOK, Optional
    <2> QED BY <1>2, <2>1 DEF ObserveHeartbeat, TypeOK, clocks, resume
  <1>3. ASSUME NEW s \in ProgressSamples, ObserveProgress(s)
        PROVE  TypeOK'
    <2> DEFINE next == AfterProgress(pr, s)
    <2>1. next \in Progress /\ s.receipt \in Optional /\ s.terminal \in BOOLEAN
      BY ProgressTypes DEF TypeOK, Optional
    <2>2. [at |-> next.rateAt, units |-> next.rateUnits] \in [at : Optional, units : Optional]
      BY <2>1 DEF Progress
    <2>3. CASE /\ pr' = next
               /\ anchor' = IF AfterGrace(pr, s) THEN anchor
                            ELSE [at |-> next.rateAt, units |-> next.rateUnits]
               /\ lastReceipt' = s.receipt
               /\ progressTerminal' = (progressTerminal \/ s.terminal)
               /\ UNCHANGED recovery
      <3> HIDE DEF next
      <3>1. /\ pr' \in Progress /\ lastReceipt' \in Optional
            /\ anchor' \in [at : Optional, units : Optional]
        BY <2>1, <2>2, <2>3 DEF TypeOK
      <3>2. progressTerminal' \in BOOLEAN
        BY <2>1, <2>3, Zenon DEF TypeOK
      <3> QED BY <1>3, <2>3, <3>1, <3>2 DEF ObserveProgress, TypeOK, clocks, resume
    <2>4. CASE /\ \E verdict : RejectProgress(verdict)
               /\ UNCHANGED <<pr, lastReceipt, progressTerminal, anchor>>
      <3>1. recovery' \in RecoveryStates
        BY <2>4, RejectEffect
      <3> QED BY <1>3, <2>4, <3>1 DEF ObserveProgress, TypeOK, clocks, resume
    <2> QED BY <1>3, <2>3, <2>4 DEF ObserveProgress
  <1>4. ASSUME CheckLiveness
        PROVE  TypeOK'
    <2>1. polledAt' \in Nat /\ lastReceipt' \in Optional /\ recovery' \in RecoveryStates
      BY <1>4, RejectEffect DEF CheckLiveness, TypeOK, Optional
    <2> QED BY <1>4, <2>1 DEF CheckLiveness, TypeOK, resume
  <1> QED BY <1>1, <1>2, <1>3, <1>4 DEF ControlStep

\* The spill, the worker and the durable resume.
LEMMA RecoveryTypes == ASSUME TypeOK, RecoveryStep PROVE TypeOK'
  <1>1. CASE SpillFails \/ FailBeforeWorkerStart
    BY <1>1 DEF SpillFails, FailBeforeWorkerStart, Poison, TypeOK, quiet, clocks, resume
  <1>2. ASSUME NEW e \in WorkerEvents, WorkerEvent(e)
        PROVE  TypeOK'
    BY <1>2, ObserveEffect DEF WorkerEvent, TypeOK, quiet, clocks, resume
  <1>3. ASSUME NEW a \in Acks, NEW valid \in BOOLEAN, AcceptDurableResume(a, valid)
        PROVE  TypeOK'
    <2>1. recovery' \in RecoveryStates /\ resumeAck' \in Optional
      BY <1>3, ObserveEffect, SessionAssumption DEF AcceptDurableResume, TypeOK, Optional
    <2> QED BY <1>3, <2>1 DEF AcceptDurableResume, TypeOK, quiet, clocks
  <1>4. ASSUME NEW a \in Acks, AcceptReplayFrontier(a)
        PROVE  TypeOK'
    BY <1>4, ObserveEffect DEF AcceptReplayFrontier, TypeOK, quiet, clocks, resume
  <1>5. ASSUME NEW a \in Acks, NEW d \in Digests, NEW b \in BOOLEAN, AcceptReplay(a, d, b)
        PROVE  TypeOK'
    <2>1. /\ recovery' \in RecoveryStates /\ replayDigest' \in SUBSET Digests
          /\ progressTerminal' \in BOOLEAN
      BY <1>5, ObserveEffect DEF AcceptReplay, TypeOK
    <2> QED BY <1>5, <2>1 DEF AcceptReplay, TypeOK, clocks
  <1> QED BY <1>1, <1>2, <1>3, <1>4, <1>5 DEF RecoveryStep

\* The output and the cleanup.
LEMMA OutputTypes == ASSUME TypeOK, OutputStep PROVE TypeOK'
  <1>1. ASSUME NEW d \in Digests, NEW matches \in BOOLEAN, SealOutput(d, matches)
        PROVE  TypeOK'
    <2>1. [hb EXCEPT !.terminal = TRUE] \in Heartbeat
      BY DEF TypeOK, Heartbeat
    <2>2. CASE /\ Observe("output_sealed") /\ hb' = [hb EXCEPT !.terminal = TRUE]
               /\ sealed' = sealed \cup {d} /\ UNCHANGED poisoned
      <3>1. recovery' \in RecoveryStates /\ sealed' \in SUBSET Digests
        BY <2>2, ObserveEffect DEF TypeOK
      <3> QED BY <1>1, <2>1, <2>2, <3>1 DEF SealOutput, TypeOK, clocks, resume
    <2>3. CASE RejectSession /\ UNCHANGED <<hb, sealed>>
      <3>1. recovery' \in RecoveryStates /\ poisoned' \in BOOLEAN
        BY <2>3, RejectSessionEffect DEF TypeOK
      <3> QED BY <1>1, <2>3, <3>1 DEF SealOutput, TypeOK, clocks, resume
    <2>4. CASE Poison /\ UNCHANGED <<recovery, hb, sealed>>
      BY <1>1, <2>4 DEF SealOutput, Poison, TypeOK, clocks, resume
    <2> QED BY <1>1, <2>2, <2>3, <2>4 DEF SealOutput
  <1>2. ASSUME RejectOutput
        PROVE  TypeOK'
    <2>1. recovery' \in RecoveryStates /\ poisoned' \in BOOLEAN
      BY <1>2, RejectSessionEffect DEF RejectOutput, TypeOK
    <2> QED BY <1>2, <2>1 DEF RejectOutput, TypeOK, quiet, clocks, resume
  <1>3. ASSUME NEW succeeds \in BOOLEAN, Cleanup(succeeds)
        PROVE  TypeOK'
    <2>1. poisoned' \in BOOLEAN /\ cleaned' \in BOOLEAN
      BY <1>3, Zenon DEF Cleanup, TypeOK
    <2> QED BY <1>3, <2>1 DEF Cleanup, TypeOK, clocks, resume
  <1> QED BY <1>1, <1>2, <1>3 DEF OutputStep

\* At first.
LEMMA TypesInitially == Init => TypeOK
  <1>1. 0 \in Nat
    OBVIOUS
  <1>2. /\ FreshHeartbeat(0) \in Heartbeat /\ FreshProgress(0) \in Progress
        /\ NoAnchor \in [at : Optional, units : Optional]
    BY <1>1, FreshTypes
  <1>3. None \in Optional /\ "running" \in RecoveryStates
    BY DEF Optional, RecoveryStates
  <1> QED BY <1>1, <1>2, <1>3 DEF Init, TypeOK

\* TypeOK: whatever the order of the calls, the validators, the recovery state and the
\* durable resume of a session stay within their types.
THEOREM SessionTypeCorrect == Spec => []TypeOK
  <1>1. TypeOK /\ [Next]_vars => TypeOK'
    <2> SUFFICES ASSUME TypeOK, [Next]_vars PROVE TypeOK'
      OBVIOUS
    <2>1. CASE Tick
      BY <2>1 DEF Tick, TypeOK, resume
    <2>2. CASE UNCHANGED vars
      BY <2>2 DEF vars, TypeOK
    <2> QED BY <2>1, <2>2, ControlTypes, RecoveryTypes, OutputTypes DEF Next
  <1> QED BY TypesInitially, <1>1, PTL DEF Spec

-----------------------------------------------------------------------------
(* What a step may do to the recovery state *)

\* A session that is sealed with the digest d.
Seals(d) ==
    /\ recovery \in {"running", "resumed"} /\ recovery' = "completed"
    /\ ReplaySealed(d) /\ OutputEarned
    /\ sealed' = sealed \cup {d}

\* A poisoned or cleaned session stays so, no step leaves a terminal state or gets back
\* to the running one, only a seal completes a session, and only a durable resume gets
\* it to the replay.
Moves ==
    /\ (poisoned => poisoned') /\ (cleaned => cleaned')
    /\ recovery' # recovery =>
          /\ ~poisoned /\ ~cleaned
          /\ recovery \notin TerminalStates /\ recovery' # "running"
          /\ recovery' = "completed" => \E d \in Digests : Seals(d)
          /\ recovery' = "resume_replay" => resumeAck' \in Nat
          /\ recovery' = "resumed" => recovery = "resume_replay" /\ resumeAck' = resumeAck
    /\ recovery' = recovery => UNCHANGED <<sealed, resumeAck>>
    /\ sealed' # sealed => recovery' = "completed"
    /\ resumeAck' # resumeAck => recovery' = "resume_replay"

\* A step that leaves the recovery state alone.
LEMMA MovesNothing ==
    ASSUME UNCHANGED <<recovery, cleaned, resumeAck, sealed>>, poisoned => poisoned'
    PROVE  Moves
  BY DEF Moves

\* A step that fails or stops the session.
LEMMA MovesAway ==
    ASSUME UNCHANGED <<cleaned, resumeAck, sealed, poisoned>>, ~poisoned, ~cleaned,
           recovery \notin TerminalStates,
           recovery' \in RecoveryStates \ {"running", "completed", "resume_replay", "resumed"}
    PROVE  Moves
  BY DEF Moves

\* The controls of a running provider.
LEMMA ControlMoves == ASSUME TypeOK, ControlStep PROVE Moves
  <1>1. ASSUME NEW matches \in BOOLEAN, TaskAccepted(matches)
        PROVE  Moves
    BY <1>1, MovesNothing DEF TaskAccepted, Poison, resume
  <1>2. ASSUME NEW s \in HeartbeatSamples, ObserveHeartbeat(s)
        PROVE  Moves
    <2>1. UNCHANGED <<cleaned, resumeAck, sealed, poisoned>>
      BY <1>2 DEF ObserveHeartbeat, resume
    <2>2. UNCHANGED recovery \/ \E verdict : RejectHeartbeat(verdict)
      BY <1>2 DEF ObserveHeartbeat
    <2> QED BY <2>1, <2>2, RejectEffect, MovesNothing, MovesAway
  <1>3. ASSUME NEW s \in ProgressSamples, ObserveProgress(s)
        PROVE  Moves
    <2>1. UNCHANGED <<cleaned, resumeAck, sealed, poisoned>>
      BY <1>3 DEF ObserveProgress, resume
    <2>2. UNCHANGED recovery \/ \E verdict : RejectProgress(verdict)
      BY <1>3 DEF ObserveProgress
    <2> QED BY <2>1, <2>2, RejectEffect, MovesNothing, MovesAway
  <1>4. ASSUME CheckLiveness
        PROVE  Moves
    <2>1. UNCHANGED <<cleaned, resumeAck, sealed, poisoned>>
      BY <1>4 DEF CheckLiveness, resume
    <2>2. UNCHANGED recovery \/ \E verdict : RejectHeartbeat(verdict)
      BY <1>4 DEF CheckLiveness
    <2> QED BY <2>1, <2>2, RejectEffect, MovesNothing, MovesAway
  <1> QED BY <1>1, <1>2, <1>3, <1>4 DEF ControlStep

\* The spill, the worker and the durable resume.
LEMMA RecoveryMoves == ASSUME TypeOK, RecoveryStep PROVE Moves
  <1>1. CASE SpillFails \/ FailBeforeWorkerStart
    BY <1>1, MovesNothing DEF SpillFails, FailBeforeWorkerStart, Poison, quiet, resume
  <1>2. ASSUME NEW e \in WorkerEvents, WorkerEvent(e)
        PROVE  Moves
    <2>1. e \notin {"output_sealed", "durable_token_valid", "replay_valid"}
      BY SessionAssumption
    <2>2. UNCHANGED <<cleaned, resumeAck, sealed, poisoned>>
      BY <1>2 DEF WorkerEvent, quiet, resume
    <2> QED BY <1>2, <2>1, <2>2, ObserveEffect, MovesAway DEF WorkerEvent
  <1>3. ASSUME NEW a \in Acks, NEW valid \in BOOLEAN, AcceptDurableResume(a, valid)
        PROVE  Moves
    <2>1. CASE Observe("durable_token_valid") /\ resumeAck' = a
      <3>1. resumeAck' \in Nat
        BY <2>1, SessionAssumption
      <3>2. UNCHANGED <<cleaned, sealed, poisoned>> /\ recovery = "worker_killed"
        BY <1>3 DEF AcceptDurableResume, quiet
      <3>3. recovery' = "resume_replay" /\ ~poisoned /\ ~cleaned
        BY <2>1, ObserveEffect
      <3> QED BY <3>1, <3>2, <3>3 DEF Moves, TerminalStates
    <2>2. CASE Observe("durable_token_invalid") /\ UNCHANGED resumeAck
      <3>1. UNCHANGED <<cleaned, sealed, poisoned>>
        BY <1>3 DEF AcceptDurableResume, quiet
      <3> QED BY <2>2, <3>1, ObserveEffect, MovesAway
    <2> QED BY <1>3, <2>1, <2>2 DEF AcceptDurableResume
  <1>4. ASSUME NEW a \in Acks, AcceptReplayFrontier(a)
        PROVE  Moves
    <2>1. UNCHANGED <<cleaned, resumeAck, sealed, poisoned>>
      BY <1>4 DEF AcceptReplayFrontier, quiet, resume
    <2>2. Observe("replay_valid") \/ Observe("replay_invalid")
      BY <1>4 DEF AcceptReplayFrontier
    <2> QED BY <2>1, <2>2, ObserveEffect DEF Moves
  <1>5. ASSUME NEW a \in Acks, NEW d \in Digests, NEW b \in BOOLEAN, AcceptReplay(a, d, b)
        PROVE  Moves
    <2>1. UNCHANGED <<cleaned, resumeAck, sealed, poisoned>>
      BY <1>5 DEF AcceptReplay
    <2>2. Observe("replay_valid") \/ Observe("replay_invalid")
      BY <1>5 DEF AcceptReplay
    <2> QED BY <2>1, <2>2, ObserveEffect DEF Moves
  <1> QED BY <1>1, <1>2, <1>3, <1>4, <1>5 DEF RecoveryStep

\* The output and the cleanup.
LEMMA OutputMoves == ASSUME TypeOK, OutputStep PROVE Moves
  <1>1. ASSUME NEW d \in Digests, NEW matches \in BOOLEAN, SealOutput(d, matches)
        PROVE  Moves
    <2>1. /\ UNCHANGED <<cleaned, resumeAck>> /\ recovery \in {"running", "resumed"}
      BY <1>1 DEF SealOutput, resume
    <2>2. CASE /\ ReplaySealed(d) /\ OutputEarned /\ Observe("output_sealed")
               /\ sealed' = sealed \cup {d} /\ UNCHANGED poisoned
      <3>1. recovery' = "completed" /\ ~poisoned /\ ~cleaned /\ recovery \notin TerminalStates
        BY <2>2, ObserveEffect
      <3>2. Seals(d)
        BY <2>1, <2>2, <3>1 DEF Seals
      <3> QED BY <2>1, <2>2, <3>1, <3>2 DEF Moves
    <2>3. CASE RejectSession /\ UNCHANGED sealed
      BY <2>1, <2>3, RejectSessionEffect, MovesNothing, MovesAway DEF TypeOK
    <2>4. CASE Poison /\ UNCHANGED <<recovery, sealed>>
      BY <2>1, <2>4, MovesNothing DEF Poison
    <2> QED BY <1>1, <2>2, <2>3, <2>4 DEF SealOutput
  <1>2. ASSUME RejectOutput
        PROVE  Moves
    BY <1>2, RejectSessionEffect, MovesNothing, MovesAway DEF RejectOutput, TypeOK, quiet, resume
  <1>3. ASSUME NEW succeeds \in BOOLEAN, Cleanup(succeeds)
        PROVE  Moves
    BY <1>3 DEF Cleanup, Moves, resume
  <1> QED BY <1>1, <1>2, <1>3 DEF OutputStep

\* Every step.
LEMMA NextMoves == ASSUME TypeOK, [Next]_vars PROVE Moves
  <1>1. CASE Tick
    BY <1>1, MovesNothing DEF Tick, resume
  <1>2. CASE UNCHANGED vars
    BY <1>2, MovesNothing DEF vars
  <1> QED BY <1>1, <1>2, ControlMoves, RecoveryMoves, OutputMoves DEF Next

\* Nothing leaves the failed state, nothing is sealed in a terminal state, and a
\* completed session can only be demoted to failed, whatever is called afterwards.
THEOREM TerminalAlwaysFinal == Spec => TerminalIsFinal
  <1>1. ASSUME TypeOK, Moves PROVE TerminalStep
    BY <1>1 DEF Moves, TerminalStep, TerminalStates, State, TypeOK
  <1>2. TypeOK /\ [Next]_vars => [TerminalStep]_vars
    BY <1>1, NextMoves
  <1> QED BY <1>2, SessionTypeCorrect, PTL DEF Spec, TerminalIsFinal

-----------------------------------------------------------------------------
(* The seal *)

\* A running session was never resumed, a replaying one was, and only a completed one
\* is sealed.
Earned ==
    /\ recovery = "running" => resumeAck = None
    /\ recovery \in {"resume_replay", "resumed"} => resumeAck \in Nat
    /\ recovery # "completed" => sealed = {}

LEMMA EarnedAlways == Spec => []Earned
  <1>1. Init => Earned
    BY DEF Init, Earned
  <1>2. ASSUME TypeOK, Earned, Moves PROVE Earned'
    <2>1. (recovery = "running" => resumeAck = None)'
      BY <1>2 DEF Moves, Earned
    <2>2. (recovery \in {"resume_replay", "resumed"} => resumeAck \in Nat)'
      BY <1>2 DEF Moves, Earned
    <2>3. (recovery # "completed" => sealed = {})'
      BY <1>2 DEF Moves, Earned, TerminalStates
    <2> QED BY <2>1, <2>2, <2>3 DEF Earned
  <1>3. TypeOK /\ Earned /\ [Next]_vars => Earned'
    BY <1>2, NextMoves
  <1> QED BY <1>1, <1>3, SessionTypeCorrect, PTL DEF Spec

\* A session completes by sealing its first and only digest: of a worker that reported
\* its whole total, or of the validated replay of the one that took its place.
THEOREM SealAlwaysEarned == Spec => SealIsEarned
  <1>1. ASSUME TypeOK, Earned, Moves, recovery' = "completed", recovery # "completed"
        PROVE  /\ sealed = {}
               /\ \E d \in Digests :
                     /\ sealed' = {d}
                     /\ \/ resumeAck = None /\ ProgressComplete(pr)
                        \/ resumeAck # None /\ replayDigest = {d}
    <2>1. sealed = {}
      BY <1>1 DEF Earned
    <2>2. PICK d \in Digests : Seals(d)
      BY <1>1 DEF Moves
    <2>3. sealed' = {d}
      BY <2>1, <2>2 DEF Seals
    <2>4. CASE recovery = "running"
      BY <1>1, <2>1, <2>2, <2>3, <2>4 DEF Seals, OutputEarned, Earned
    <2>5. CASE recovery = "resumed"
      <3>1. resumeAck # None
        BY <1>1, <2>5 DEF Earned, None
      <3> QED BY <2>1, <2>2, <2>3, <2>5, <3>1 DEF Seals, ReplaySealed
    <2> QED BY <2>2, <2>4, <2>5 DEF Seals
  <1>2. TypeOK /\ Earned /\ [Next]_vars => [CompletionStep]_vars
    BY <1>1, NextMoves DEF CompletionStep
  <1> QED BY <1>2, EarnedAlways, SessionTypeCorrect, PTL DEF Spec, SealIsEarned

-----------------------------------------------------------------------------
(* Silence *)

\* The receive loop is at most one interval behind with its checks, and the last of
\* them did not find the provider silent.
Heard ==
    /\ polledAt <= now
    /\ recovery = "running" => ~hb.terminal
    /\ Running => now <= polledAt + PollInterval /\ polledAt - LastSign < SilenceLimit

LEMMA HeardInitially == Init => Heard
  BY ClocksAssumption, SessionAssumption
  DEF Init, Heard, LastSign, SilenceLimit, FreshHeartbeat, None

\* A step that leaves the clocks and the heartbeat alone.
LEMMA HeardStays ==
    ASSUME Heard, Moves, UNCHANGED <<now, polledAt, hb>>
    PROVE  Heard'
  <1>1. Running' => Running
    BY DEF Moves, Running, EnsureOpen
  <1>2. LastSign' = LastSign /\ SilenceLimit' = SilenceLimit
    BY DEF LastSign, SilenceLimit
  <1> QED BY <1>1, <1>2 DEF Heard, Moves

\* A sign of life that has just come, or a task that has just started.
LEMMA HeardJustNow ==
    ASSUME TypeOK, Heard, Moves, UNCHANGED <<now, polledAt>>, hb'.terminal \in {FALSE, hb.terminal},
           \/ hb'.ackAt = None /\ hb'.start = now
           \/ hb'.ackAt = now
    PROVE  Heard'
  <1>1. Running' => Running
    BY DEF Moves, Running, EnsureOpen
  <1>2. LastSign' = now
    BY DEF LastSign, TypeOK, None
  <1>3. SilenceLimit' \in Nat \ {0}
    BY ClocksAssumption DEF SilenceLimit
  <1>4. now \in Nat /\ polledAt \in Nat /\ polledAt <= now
    BY DEF TypeOK, Heard
  <1>5. polledAt' - LastSign' < SilenceLimit'
    BY <1>2, <1>3, <1>4
  <1>6. (recovery = "running" => ~hb.terminal)'
    BY DEF Heard, Moves
  <1> QED BY <1>1, <1>5, <1>6 DEF Heard

\* Every step.
LEMMA HeardKept == ASSUME TypeOK, Heard, [Next]_vars PROVE Heard'
  <1>m. Moves
    BY NextMoves
  <1>1. CASE Tick
    <2>1. LastSign' = LastSign /\ SilenceLimit' = SilenceLimit /\ Running' = Running
      BY <1>1 DEF Tick, LastSign, SilenceLimit, Running, EnsureOpen
    <2>2. now' = now + 1 /\ UNCHANGED <<polledAt, hb, recovery>>
      BY <1>1 DEF Tick
    <2>3. Running => now' <= polledAt + PollInterval
      BY <1>1, <2>2, SessionAssumption DEF Tick, TypeOK
    <2>4. now \in Nat /\ polledAt \in Nat
      BY DEF TypeOK
    <2> QED BY <2>1, <2>2, <2>3, <2>4 DEF Heard
  <1>2. ASSUME NEW matches \in BOOLEAN, TaskAccepted(matches)
        PROVE  Heard'
    <2>1. UNCHANGED <<now, polledAt>>
      BY <1>2 DEF TaskAccepted, clocks
    <2>2. CASE hb' = FreshHeartbeat(now)
      <3>1. hb'.ackAt = None /\ hb'.start = now /\ hb'.terminal = FALSE
        BY <2>2 DEF FreshHeartbeat
      <3> QED BY <1>m, <2>1, <3>1, HeardJustNow
    <2> QED BY <1>m, <1>2, <2>1, <2>2, HeardStays DEF TaskAccepted
  <1>3. ASSUME NEW s \in HeartbeatSamples, ObserveHeartbeat(s)
        PROVE  Heard'
    <2>1. UNCHANGED <<now, polledAt>>
      BY <1>3 DEF ObserveHeartbeat, clocks
    <2>2. CASE hb' = AfterHeartbeat(hb, s) /\ UNCHANGED recovery
      <3>1. /\ hb'.start = hb.start /\ hb'.terminal = hb.terminal
            /\ hb'.ackAt = IF s.kind = "ack" THEN now ELSE hb.ackAt
        BY <2>2, HeartbeatTypes
      <3>2. CASE s.kind = "ack"
        BY <1>m, <2>1, <3>1, <3>2, HeardJustNow
      <3>3. CASE s.kind # "ack"
        <4>1. LastSign' = LastSign /\ SilenceLimit' = SilenceLimit
          BY <3>1, <3>3 DEF LastSign, SilenceLimit
        <4>2. Running' = Running
          BY <1>3, <2>2 DEF ObserveHeartbeat, Running, EnsureOpen
        <4> QED BY <2>1, <2>2, <3>1, <4>1, <4>2 DEF Heard
      <3> QED BY <3>2, <3>3
    <2>3. CASE UNCHANGED hb
      BY <1>m, <2>1, <2>3, HeardStays
    <2> QED BY <1>3, <2>2, <2>3 DEF ObserveHeartbeat
  <1>4. CASE CheckLiveness
    <2>1. UNCHANGED <<now, hb>> /\ polledAt' = now /\ Running
      BY <1>4 DEF CheckLiveness
    <2>2. LastSign' = LastSign /\ SilenceLimit' = SilenceLimit
      BY <2>1 DEF LastSign, SilenceLimit
    <2>3. now <= now + PollInterval /\ now \in Nat
      BY SessionAssumption DEF TypeOK
    <2>4. CASE UNCHANGED recovery /\ ~Silent(hb, now)
      <3>1. now - LastSign < SilenceLimit
        BY <2>1, <2>4, ClocksAssumption
        DEF Silent, LastSign, SilenceLimit, Heard, Running, TypeOK, Heartbeat, Optional
      <3>2. (recovery = "running" => ~hb.terminal)'
        BY <2>1, <2>4 DEF Heard
      <3> QED BY <2>1, <2>2, <2>3, <3>1, <3>2 DEF Heard
    <2>5. CASE \E verdict : RejectHeartbeat(verdict)
      <3>1. recovery' # "running"
        BY <2>5, RejectEffect
      <3> QED BY <2>1, <2>3, <3>1 DEF Heard, Running
    <2> QED BY <1>4, <2>4, <2>5 DEF CheckLiveness
  <1>5. ASSUME NEW s \in ProgressSamples, ObserveProgress(s)
        PROVE  Heard'
    BY <1>m, <1>5, HeardStays DEF ObserveProgress, clocks
  <1>6. CASE RecoveryStep
    BY <1>m, <1>6, HeardStays
    DEF RecoveryStep, SpillFails, FailBeforeWorkerStart, WorkerEvent, AcceptDurableResume,
        AcceptReplayFrontier, AcceptReplay, quiet, clocks
  <1>7. ASSUME NEW d \in Digests, NEW matches \in BOOLEAN, SealOutput(d, matches)
        PROVE  Heard'
    <2>1. UNCHANGED <<now, polledAt>>
      BY <1>7 DEF SealOutput, clocks
    <2>2. CASE UNCHANGED hb
      BY <1>m, <2>1, <2>2, HeardStays
    <2>3. CASE Observe("output_sealed")
      <3>1. recovery' # "running"
        BY <2>3, ObserveEffect
      <3> QED BY <2>1, <3>1 DEF Heard, Running
    <2> QED BY <1>7, <2>2, <2>3 DEF SealOutput
  <1>8. CASE RejectOutput \/ \E succeeds \in BOOLEAN : Cleanup(succeeds)
    BY <1>m, <1>8, HeardStays DEF RejectOutput, Cleanup, quiet, clocks
  <1>9. CASE UNCHANGED vars
    BY <1>m, <1>9, HeardStays DEF vars
  <1> QED BY <1>1, <1>2, <1>3, <1>4, <1>5, <1>6, <1>7, <1>8, <1>9
          DEF Next, ControlStep, OutputStep

\* A running session is never silent for longer than the limit and one poll, whatever
\* probes, progress samples and restarts of the clocks lie in between.
THEOREM SilenceAlwaysBounded == Spec => []SilenceBounded
  <1>1. ASSUME TypeOK, Heard PROVE SilenceBounded
    <2>1. /\ now \in Nat /\ polledAt \in Nat /\ PollInterval \in Nat
          /\ LastSign \in Int /\ SilenceLimit \in Nat
      BY <1>1, SessionAssumption, ClocksAssumption
      DEF TypeOK, LastSign, SilenceLimit, Heartbeat, Optional, None
    <2> QED BY <1>1, <2>1 DEF SilenceBounded, Heard
  <1>2. TypeOK /\ Heard /\ [Next]_vars => Heard'
    BY HeardKept
  <1> QED BY HeardInitially, <1>1, <1>2, SessionTypeCorrect, PTL DEF Spec

-----------------------------------------------------------------------------
(* The rate *)

\* Two stretches of work at the minimum rate make one.
LEMMA RatesAdd ==
    ASSUME NEW a \in Int, NEW b \in Int, NEW c \in Int,
           NEW u \in Int, NEW v \in Int, NEW w \in Int,
           RateSatisfied(v - u, b - a), RateSatisfied(w - v, c - b)
    PROVE  RateSatisfied(w - u, c - a)
  <1>1. UnitsPerTick \in Int
    BY ClocksAssumption
  <1>2. (b - a) * UnitsPerTick <= v - u /\ (c - b) * UnitsPerTick <= w - v
    BY DEF RateSatisfied
  <1>3. (c - a) * UnitsPerTick = (b - a) * UnitsPerTick + (c - b) * UnitsPerTick
    BY <1>1
  <1>4. (b - a) * UnitsPerTick \in Int /\ (c - b) * UnitsPerTick \in Int
    BY <1>1
  <1> QED BY <1>2, <1>3, <1>4 DEF RateSatisfied

LEMMA NoRate == ASSUME NEW a \in Int, NEW u \in Int PROVE RateSatisfied(u - u, a - a)
  <1>1. UnitsPerTick \in Int /\ a - a = 0 /\ u - u = 0
    BY ClocksAssumption
  <1>2. 0 * UnitsPerTick = 0
    BY <1>1
  <1> QED BY <1>1, <1>2 DEF RateSatisfied

\* There is a rate checkpoint as soon as there was a sample, and from the last one
\* within the grace to the latest the provider has kept the rate.
Kept ==
    /\ pr.rateAt # None => pr.host # None
    /\ pr.host # None =>
          /\ pr.rateAt \in Nat /\ pr.rateUnits \in Nat
          /\ anchor.at \in Nat /\ anchor.units \in Nat
          /\ RateSatisfied(pr.rateUnits - anchor.units, pr.rateAt - anchor.at)

\* A sample moves the checkpoint by a stretch at the minimum rate, or within the grace,
\* where the measurement starts again from it.
LEMMA KeptBySample ==
    ASSUME TypeOK, Kept, NEW s \in ProgressSamples, ProgressVerdict(pr, s) = "accepted",
           pr' = AfterProgress(pr, s),
           anchor' = IF AfterGrace(pr, s) THEN anchor
                     ELSE [at |-> pr'.rateAt, units |-> pr'.rateUnits]
    PROVE  Kept'
  <1>1. /\ s.receipt = now /\ now \in Nat /\ s.completed \in Nat /\ pr'.host = now
        /\ IF pr.host = None \/ RateAdmitted(pr, s)
           THEN pr'.rateAt = now /\ pr'.rateUnits = s.completed
           ELSE pr'.rateAt = pr.rateAt /\ pr'.rateUnits = pr.rateUnits
    BY ProgressTypes DEF TypeOK
  <1>2. IF pr.host = None THEN s.receipt - pr.start < StartupGrace ELSE ProgressKeepsUp(pr, s)
    BY DEF ProgressVerdict
  <1>3. pr'.rateAt \in Nat /\ pr'.rateUnits \in Nat /\ pr'.host # None
    BY <1>1 DEF Kept, None
  <1>4. CASE ~AfterGrace(pr, s)
    <2>1. anchor'.at = pr'.rateAt /\ anchor'.units = pr'.rateUnits
      BY <1>4
    <2>2. RateSatisfied(pr'.rateUnits - pr'.rateUnits, pr'.rateAt - pr'.rateAt)
      BY <1>3, NoRate
    <2> QED BY <1>3, <2>1, <2>2 DEF Kept, RateSatisfied
  <1>5. CASE AfterGrace(pr, s)
    <2>1. pr.start \in Nat
      BY DEF TypeOK, Progress
    <2>2. pr.host # None
      BY <1>1, <1>2, <1>5, <2>1, ClocksAssumption DEF AfterGrace
    <2>3. /\ anchor.at \in Int /\ anchor.units \in Int /\ anchor.at \in Nat /\ anchor.units \in Nat
          /\ pr.rateAt \in Int /\ pr.rateUnits \in Int
          /\ RateSatisfied(pr.rateUnits - anchor.units, pr.rateAt - anchor.at)
      BY <2>2 DEF Kept
    <2>4. CASE RateAdmitted(pr, s)
      <3>1. RateSatisfied(s.completed - pr.rateUnits, now - pr.rateAt)
        BY <1>1, <1>2, <1>5, <2>2, <2>4 DEF ProgressKeepsUp
      <3>2. RateSatisfied(s.completed - anchor.units, now - anchor.at)
        <4>1. now \in Int /\ s.completed \in Int
          BY <1>1
        <4> QED BY <2>3, <3>1, <4>1, RatesAdd
      <3> QED BY <1>1, <1>3, <1>5, <2>3, <2>4, <3>2 DEF Kept, RateSatisfied
    <2>5. CASE ~RateAdmitted(pr, s)
      BY <1>1, <1>3, <1>5, <2>2, <2>3, <2>5 DEF Kept, RateSatisfied
    <2> QED BY <2>4, <2>5
  <1> QED BY <1>4, <1>5

LEMMA KeptStays == ASSUME Kept, UNCHANGED <<pr, anchor>> PROVE Kept'
  BY DEF Kept, RateSatisfied

\* Every step.
LEMMA KeptByNext == ASSUME TypeOK, Kept, [Next]_vars PROVE Kept'
  <1>1. ASSUME NEW matches \in BOOLEAN, TaskAccepted(matches)
        PROVE  Kept'
    <2>1. CASE pr' = FreshProgress(now)
      <3>1. pr'.host = None /\ pr'.rateAt = None
        BY <2>1 DEF FreshProgress
      <3> QED BY <3>1 DEF Kept
    <2> QED BY <1>1, <2>1, KeptStays DEF TaskAccepted
  <1>2. ASSUME NEW s \in ProgressSamples, ObserveProgress(s)
        PROVE  Kept'
    <2>1. CASE UNCHANGED <<pr, anchor>>
      BY <2>1, KeptStays
    <2>2. CASE ~UNCHANGED <<pr, anchor>>
      <3>1. /\ ProgressVerdict(pr, s) = "accepted" /\ pr' = AfterProgress(pr, s)
            /\ anchor' = IF AfterGrace(pr, s) THEN anchor
                         ELSE [at |-> pr'.rateAt, units |-> pr'.rateUnits]
        BY <1>2, <2>2 DEF ObserveProgress
      <3> QED BY <3>1, KeptBySample
    <2> QED BY <2>1, <2>2
  <1>3. CASE \/ Tick \/ CheckLiveness \/ RecoveryStep \/ OutputStep
             \/ \E s \in HeartbeatSamples : ObserveHeartbeat(s)
             \/ UNCHANGED vars
    <2>1. UNCHANGED <<pr, anchor>>
      BY <1>3
      DEF Tick, CheckLiveness, RecoveryStep, SpillFails, FailBeforeWorkerStart, WorkerEvent,
          AcceptDurableResume, AcceptReplayFrontier, AcceptReplay, OutputStep, SealOutput, RejectOutput, Cleanup,
          ObserveHeartbeat, quiet, vars
    <2> QED BY <2>1, KeptStays
  <1> QED BY <1>1, <1>2, <1>3 DEF Next, ControlStep

\* Between two rate checkpoints after the startup grace, however many lie between
\* them, the provider did the minimum work, at any rate, window and grace.
THEOREM MinimumRateAlwaysHeld == Spec => []MinimumRateHeld
  <1>1. Init => Kept
    BY DEF Init, Kept, FreshProgress
  <1>2. TypeOK /\ Kept /\ [Next]_vars => Kept'
    BY KeptByNext
  <1>3. Kept => MinimumRateHeld
    BY DEF Kept, MinimumRateHeld
  <1> QED BY <1>1, <1>2, <1>3, SessionTypeCorrect, PTL DEF Spec

=============================================================================
