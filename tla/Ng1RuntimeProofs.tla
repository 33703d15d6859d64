-------------------------- MODULE Ng1RuntimeProofs --------------------------
(***************************************************************************)
(* Proofs about Ng1Runtime, for every limit on the retained frames and     *)
(* every set of frames the two workers may send.                           *)
(***************************************************************************)
EXTENDS Ng1Runtime, SequenceTheorems, TLAPS

-----------------------------------------------------------------------------
(* Types *)

\* An event of the matrix starts and ends in a state of it, and no terminal state has one.
LEMMA TransitionEffect ==
    ASSUME NEW s, NEW event, NEW t, Transition(s, event, t)
    PROVE  t \in RecoveryStates /\ s \notin TerminalStates
  BY DEF Transition, Matrix, RecoveryStates, TerminalStates

LEMMA ObserveEffect ==
    ASSUME NEW event, Observe(event)
    PROVE  recovery' \in RecoveryStates /\ recovery \notin TerminalStates
  BY TransitionEffect DEF Observe

\* What a provider sends.
LEMMA InputTypes ==
    ASSUME NEW f \in Inputs
    PROVE  f \in Frame /\ f.seq \in Nat /\ f.kind \in Kinds /\ f.attempt \in Attempts
  BY RuntimeAssumption DEF Frame

\* A frame that has been retained, or spilled.
LEMMA AppendTypes ==
    ASSUME NEW s \in Seq(Frame), NEW f \in Frame
    PROVE  /\ Append(s, f) \in Seq(Frame)
           /\ Append(s, f) # <<>>
           /\ Len(Append(s, f)) = Len(s) + 1
           /\ DOMAIN Append(s, f) = 1 .. Len(s) + 1
           /\ \A i \in 1 .. Len(s) : Append(s, f)[i] = s[i]
           /\ Append(s, f)[Len(s) + 1] = f
  <1>1. /\ Append(s, f) \in Seq(Frame) /\ Append(s, f) # <<>>
        /\ Len(Append(s, f)) = Len(s) + 1
        /\ \A i \in 1 .. Len(s) : Append(s, f)[i] = s[i]
        /\ Append(s, f)[Len(s) + 1] = f
    BY AppendProperties
  <1>2. DOMAIN Append(s, f) = 1 .. Len(Append(s, f))
    BY <1>1, LenProperties
  <1> QED BY <1>1, <1>2

LEMMA RetainTypes ==
    ASSUME TypeOK, NEW f \in Inputs, Arrives(f), Retain(f)
    PROVE  frames' \in Seq(Frame) /\ Len(frames') <= MaximumRetained
  <1>1. Len(frames) \in Nat /\ Len(frames) < MaximumRetained
    BY LenProperties, RuntimeAssumption DEF Arrives, Retained, TypeOK
  <1>2. Append(frames, f) \in Seq(Frame) /\ Len(Append(frames, f)) = Len(frames) + 1
    BY InputTypes, AppendTypes DEF TypeOK
  <1> QED BY <1>1, <1>2, RuntimeAssumption DEF Retain, TypeOK

SeenType ==
    [accepted : BOOLEAN, group : {"none", "open", "sealed"}, token : BOOLEAN,
     terminal : BOOLEAN, total : BOOLEAN]

\* What driver and session remember after a frame.
LEMMA AfterFrameTypes ==
    ASSUME seen \in SeenType, NEW f
    PROVE  /\ AfterFrame(f) \in SeenType
           /\ AfterFrame(f).group = IF f.kind = "begin" THEN "open"
                                    ELSE IF f.kind = "end" THEN "sealed" ELSE seen.group
           /\ AfterFrame(f).terminal <=> seen.terminal \/ f.kind \in Terminals
           /\ AfterFrame(f).token <=> seen.token \/ f.kind = "resume"
  <1>1. /\ seen.accepted \in BOOLEAN /\ seen.token \in BOOLEAN /\ seen.terminal \in BOOLEAN
        /\ seen.total \in BOOLEAN /\ seen.group \in {"none", "open", "sealed"}
    BY DEF SeenType
  <1>2. /\ AfterFrame(f).group = IF f.kind = "begin" THEN "open"
                                 ELSE IF f.kind = "end" THEN "sealed" ELSE seen.group
        /\ AfterFrame(f).terminal = (seen.terminal \/ f.kind \in Terminals)
        /\ AfterFrame(f).token = (seen.token \/ f.kind = "resume")
        /\ AfterFrame(f).accepted = (seen.accepted \/ f.kind = "accepted")
        /\ AfterFrame(f).total = IF Restarted THEN seen.total
                                 ELSE f.kind # "accepted" /\ (seen.total \/ f.kind = "total")
        /\ AfterFrame(f) = [accepted |-> AfterFrame(f).accepted, group |-> AfterFrame(f).group,
                            token |-> AfterFrame(f).token, terminal |-> AfterFrame(f).terminal,
                            total |-> AfterFrame(f).total]
    BY DEF AfterFrame
  <1>3. /\ AfterFrame(f).group \in {"none", "open", "sealed"}
        /\ AfterFrame(f).terminal \in BOOLEAN /\ AfterFrame(f).token \in BOOLEAN
        /\ AfterFrame(f).accepted \in BOOLEAN /\ AfterFrame(f).total \in BOOLEAN
    BY <1>1, <1>2
  <1>4. AfterFrame(f) \in SeenType
    BY <1>2, <1>3 DEF SeenType
  <1> QED BY <1>2, <1>4

\* The sequence of Outcome that is durable.
Durably == IF checkpoint = None THEN <<>> ELSE spill

WorkerStates == {"none", "live", "ended"}

\* The end of the worker.
LEMMA EndWorkerEffect ==
    ASSUME worker \in [Attempts -> WorkerStates], EndWorker
    PROVE  /\ worker' \in [Attempts -> WorkerStates]
           /\ \A a \in Attempts : worker'[a] # "live" /\ (worker'[a] = "none" <=> worker[a] = "none")
           /\ ~Live'
           /\ Attempt' = Attempt
  BY DEF EndWorker, WorkerStates, Live, Attempt, Attempts

\* The frames that are validated.
LEMMA TranscriptType ==
    ASSUME TypeOK PROVE Transcript \in Seq(Frame)
  BY ConcatProperties DEF Transcript, TypeOK

\* The durable prefix has a frame for each sequence up to the checkpoint.
LEMMA DurableType ==
    ASSUME TypeOK, checkpoint # None, Whole
    PROVE  /\ Durable \in Seq(Frame) /\ Len(Durable) = checkpoint + 1
           /\ \A n \in 1 .. checkpoint + 1 :
                 \E i \in Early : frames[i].seq = n - 1 /\ Durable[n] = frames[i]
  <1>1. checkpoint \in Nat /\ frames \in Seq(Frame)
    BY DEF TypeOK
  <1>2. \A i \in Early : frames[i] \in Frame
    BY <1>1 DEF Early
  <1>3. \A n \in 1 .. checkpoint + 1 :
           \E i \in Early : frames[i].seq = n - 1 /\ Durable[n] = frames[i]
    <2> TAKE n \in 1 .. checkpoint + 1
    <2>1. n - 1 \in 0 .. checkpoint
      BY <1>1
    <2>2. \E i \in Early : frames[i].seq = n - 1
      BY <2>1 DEF Whole
    <2> DEFINE i == CHOOSE i \in Early : frames[i].seq = n - 1
    <2>3. i \in Early /\ frames[i].seq = n - 1
      BY <2>2
    <2>4. Durable[n] = frames[i]
      BY DEF Durable
    <2> QED BY <2>3, <2>4
  <1>4. Durable \in [1 .. checkpoint + 1 -> Frame]
    <2>1. DOMAIN Durable = 1 .. checkpoint + 1 /\ Durable = [n \in DOMAIN Durable |-> Durable[n]]
      BY DEF Durable
    <2>2. \A n \in 1 .. checkpoint + 1 : Durable[n] \in Frame
      BY <1>2, <1>3
    <2> HIDE DEF Durable
    <2> QED BY <2>1, <2>2
  <1>5. checkpoint + 1 \in Nat
    BY <1>1
  <1>6. Durable \in Seq(Frame) /\ Len(Durable) = checkpoint + 1
    BY <1>4, <1>5
  <1> QED BY <1>3, <1>6

\* The rejection and the cleanup of a session whose worker's end has left it in s.
LEMMA CleanupEffect ==
    ASSUME NEW s \in RecoveryStates, NEW succeeds \in BOOLEAN, RejectAndCleanup(s, succeeds),
           poisoned \in BOOLEAN, cleaned \in BOOLEAN,
           cleaned => poisoned \/ s \in TerminalStates
    PROVE  /\ recovery' \in RecoveryStates /\ poisoned' \in BOOLEAN /\ cleaned' = TRUE
           /\ poisoned' \/ recovery' \in TerminalStates
           /\ s = "completed" => recovery' = s
           /\ s = "completed" /\ ~poisoned /\ (succeeds \/ cleaned) => ~poisoned'
  <1>1. CASE cleaned
    BY <1>1 DEF RejectAndCleanup
  <1>2. CASE ~cleaned
    <2>1. /\ recovery' = IF ~(poisoned \/ s \in TerminalStates) /\ s = "resumed"
                         THEN "failed" ELSE s
          /\ poisoned' = (\/ poisoned
                          \/ ~(poisoned \/ s \in TerminalStates) /\ s # "resumed"
                          \/ ~succeeds)
          /\ cleaned' = TRUE
      BY <1>2 DEF RejectAndCleanup
    <2>2. recovery' \in RecoveryStates /\ (s = "completed" => recovery' = s)
      BY <2>1 DEF RecoveryStates, TerminalStates
    <2>3. poisoned' \in BOOLEAN
      BY <2>1
    <2>4. poisoned' \/ recovery' \in TerminalStates
      BY <2>1 DEF TerminalStates
    <2>5. s = "completed" /\ ~poisoned /\ succeeds => ~poisoned'
      BY <2>1 DEF TerminalStates
    <2> QED BY <1>2, <2>1, <2>2, <2>3, <2>4, <2>5
  <1> QED BY <1>1, <1>2

\* A cleaned session is over.
CleanedIsOver == cleaned => poisoned \/ recovery \in TerminalStates

LEMMA TerminationEffect ==
    ASSUME recovery \in RecoveryStates
    PROVE  /\ AfterTermination \in RecoveryStates
           /\ AfterTermination # recovery => ~poisoned /\ recovery \notin TerminalStates
  BY DEF AfterTermination, RecoveryStates, TerminalStates

\* The receive loop.
LEMMA ReceiveTypes ==
    ASSUME TypeOK, NEW f \in Inputs,
           \/ \E silent \in BOOLEAN : Receive(f, silent)
           \/ SpillFails(f) \/ ReceiveRefused(f)
           \/ \E e \in LivenessEvents : ControlFails(f, e)
    PROVE  TypeOK'
  <1>0. /\ f \in Frame /\ f.seq \in Nat /\ Append(spill, f) \in Seq(Frame)
        /\ seen \in SeenType
    BY InputTypes, AppendTypes DEF TypeOK, SeenType
  <1>1. ASSUME NEW silent \in BOOLEAN, Receive(f, silent)
        PROVE  TypeOK'
    <2>1. frames' \in Seq(Frame) /\ Len(frames') <= MaximumRetained
      BY <1>1, RetainTypes DEF Receive
    <2>2. seen' \in SeenType
      BY <1>0, <1>1, AfterFrameTypes DEF Receive
    <2>3. spill' \in Seq(Frame) /\ checkpoint' \in Nat \cup {None}
      BY <1>0, <1>1 DEF Receive, TypeOK
    <2>4. expected' \in Nat \cup {None}
      BY <1>1 DEF Receive, TypeOK, Restarted, None
    <2>5. recovery' \in RecoveryStates /\ pc' \in Steps
      BY <1>1, ObserveEffect DEF Receive, TypeOK, Steps
    <2> QED BY <1>1, <2>1, <2>2, <2>3, <2>4, <2>5 DEF Receive, TypeOK, SeenType, result
  <1>2. CASE SpillFails(f)
    <2>1. frames' \in Seq(Frame) /\ Len(frames') <= MaximumRetained
      BY <1>2, RetainTypes DEF SpillFails
    <2>2. seen' \in SeenType
      BY <1>0, <1>2, AfterFrameTypes DEF SpillFails
    <2>3. spill' \in Seq(Frame)
      BY <1>0, <1>2 DEF SpillFails, TypeOK
    <2> QED BY <1>2, <2>1, <2>2, <2>3 DEF SpillFails, TypeOK, SeenType, Steps, restart, result
  <1>3. CASE ReceiveRefused(f)
    <2>1. poisoned' \in BOOLEAN
      BY <1>3 DEF ReceiveRefused
    <2> QED BY <1>3, <2>1 DEF ReceiveRefused, TypeOK, Steps, restart, result
  <1>4. ASSUME NEW e \in LivenessEvents, ControlFails(f, e)
        PROVE  TypeOK'
    <2>1. frames' \in Seq(Frame) /\ Len(frames') <= MaximumRetained
      BY <1>4, RetainTypes DEF ControlFails
    <2>2. recovery' \in RecoveryStates /\ pc' \in Steps
      BY <1>4, ObserveEffect DEF ControlFails, Steps
    <2> QED BY <1>4, <2>1, <2>2 DEF ControlFails, TypeOK, restart, result
  <1> QED BY <1>1, <1>2, <1>3, <1>4

\* The restart.
LEMMA RestartTypes ==
    ASSUME TypeOK,
           \/ DeclineRestart \/ KillForRestart \/ ReopenSpill \/ Launch \/ HandshakeRefused
           \/ \E f \in Inputs : Handshake(f)
    PROVE  TypeOK'
  <1>1. CASE DeclineRestart
    BY <1>1 DEF DeclineRestart, TypeOK, Steps, restart, session, result
  <1>2. CASE KillForRestart
    <2>1. worker' \in [Attempts -> WorkerStates]
      BY <1>2, EndWorkerEffect DEF KillForRestart, TypeOK, WorkerStates
    <2>2. recovery' \in RecoveryStates
      BY <1>2, ObserveEffect DEF KillForRestart
    <2>3. prefix' \in Seq(Frame) /\ pc' \in Steps
      BY <1>2, DurableType DEF KillForRestart, RestartAllowed, TypeOK, Steps
    <2> QED BY <1>2, <2>1, <2>2, <2>3 DEF KillForRestart, TypeOK, WorkerStates, result
  <1>3. CASE ReopenSpill
    <2>1. poisoned' \in BOOLEAN /\ cleaned' \in BOOLEAN /\ pc' \in Steps
      BY <1>3 DEF ReopenSpill, TypeOK, Steps
    <2>2. UNCHANGED <<worker, frames, seen, spill, checkpoint, restart, recovery, result>>
      BY <1>3 DEF ReopenSpill
    <2> QED BY <2>1, <2>2 DEF TypeOK, restart, result
  <1>4. CASE Launch
    <2>1. worker' \in [Attempts -> WorkerStates] /\ poisoned' \in BOOLEAN /\ pc' \in Steps
      BY <1>4 DEF Launch, TypeOK, WorkerStates, Steps
    <2> QED BY <1>4, <2>1 DEF Launch, TypeOK, WorkerStates, restart, result
  <1>5. CASE HandshakeRefused
    BY <1>5 DEF HandshakeRefused, TypeOK, Steps, restart, result
  <1>6. ASSUME NEW f \in Inputs, Handshake(f)
        PROVE  TypeOK'
    <2>1. recovery' \in RecoveryStates /\ pc' \in Steps
      BY <1>6, ObserveEffect DEF Handshake, Steps
    <2>2. frames' \in Seq(Frame) /\ Len(frames') <= MaximumRetained
      <3>1. CASE frames' = <<>>
        <4>1. frames' \in Seq(Frame) /\ Len(frames') = 0
          BY <3>1
        <4> QED BY <4>1, RuntimeAssumption
      <3>2. CASE UNCHANGED frames
        BY <3>2 DEF TypeOK
      <3> QED BY <1>6, <3>1, <3>2 DEF Handshake
    <2>3. expected' \in Nat \cup {None}
      <3>1. f.seq = checkpoint + 1 /\ f.seq \in Nat
        BY <1>6, InputTypes DEF Handshake
      <3> QED BY <1>6, <3>1 DEF Handshake, TypeOK
    <2> QED BY <1>6, <2>1, <2>2, <2>3 DEF Handshake, TypeOK, result
  <1> QED BY <1>1, <1>2, <1>3, <1>4, <1>5, <1>6

\* The end of the output, and of the session.
LEMMA EndTypes ==
    ASSUME TypeOK, CleanedIsOver,
           \/ Finish \/ ValidateFails \/ ValidateUnsealed \/ ValidateAndSeal
           \/ Conclude \/ TerminalFailure \/ Destroy
    PROVE  TypeOK'
  <1>1. CASE Finish
    <2>1. worker' \in [Attempts -> WorkerStates]
      BY <1>1, EndWorkerEffect DEF Finish, TypeOK, WorkerStates
    <2>2. recovery' \in RecoveryStates /\ pc' \in Steps
      BY <1>1, ObserveEffect DEF Finish, TypeOK, Steps
    <2> QED BY <1>1, <2>1, <2>2 DEF Finish, TypeOK, WorkerStates, restart, result
  <1>2. CASE ValidateFails \/ ValidateUnsealed
    BY <1>2 DEF ValidateFails, ValidateUnsealed, TypeOK, Steps, restart, session, result
  <1>3. CASE ValidateAndSeal
    <2>1. recovery' \in RecoveryStates
      BY <1>3, ObserveEffect DEF ValidateAndSeal, TypeOK
    <2>2. sealed' \in Seq(Frame) /\ poisoned' \in BOOLEAN /\ pc' \in Steps
      BY <1>3, TranscriptType DEF ValidateAndSeal, TypeOK, Steps
    <2> QED BY <1>3, <2>1, <2>2 DEF ValidateAndSeal, TypeOK, restart
  <1>4. CASE Conclude
    <2>1. recovery' \in RecoveryStates /\ poisoned' \in BOOLEAN /\ cleaned' = TRUE
      BY <1>4, CleanupEffect DEF Conclude, TypeOK, CleanedIsOver
    <2> QED BY <1>4, <2>1 DEF Conclude, TypeOK, Steps, restart
  <1>5. CASE TerminalFailure
    <2>1. worker' \in [Attempts -> WorkerStates]
      BY <1>5, EndWorkerEffect DEF TerminalFailure, TypeOK, WorkerStates
    <2>2. recovery' \in RecoveryStates /\ poisoned' \in BOOLEAN /\ cleaned' \in BOOLEAN
      <3>1. CASE /\ UNCHANGED <<worker, recovery, cleaned>> /\ poisoned' \in {poisoned, TRUE}
        BY <3>1 DEF TypeOK
      <3>2. ASSUME NEW s \in {recovery, AfterTermination}, NEW succeeds \in BOOLEAN,
                   RejectAndCleanup(s, succeeds)
            PROVE  recovery' \in RecoveryStates /\ poisoned' \in BOOLEAN /\ cleaned' \in BOOLEAN
        <4>1. s \in RecoveryStates /\ (cleaned => poisoned \/ s \in TerminalStates)
          BY <3>2, TerminationEffect DEF TypeOK, CleanedIsOver
        <4> QED BY <3>2, <4>1, CleanupEffect DEF TypeOK
      <3> QED BY <1>5, <3>1, <3>2 DEF TerminalFailure
    <2> QED BY <1>5, <2>1, <2>2 DEF TerminalFailure, TypeOK, WorkerStates, Steps, restart
  <1>6. CASE Destroy
    <2>1. worker' \in [Attempts -> WorkerStates]
      BY <1>6, EndWorkerEffect DEF Destroy, TypeOK, WorkerStates
    <2>2. recovery' \in RecoveryStates /\ poisoned' \in BOOLEAN /\ cleaned' \in BOOLEAN
      <3>1. PICK s \in {recovery, AfterTermination}, succeeds \in BOOLEAN :
                   RejectAndCleanup(s, succeeds)
        BY <1>6 DEF Destroy
      <3>2. s \in RecoveryStates /\ (cleaned => poisoned \/ s \in TerminalStates)
        BY <3>1, TerminationEffect DEF TypeOK, CleanedIsOver
      <3> QED BY <3>1, <3>2, CleanupEffect DEF TypeOK
    <2> QED BY <1>6, <2>1, <2>2 DEF Destroy, TypeOK, WorkerStates, Steps, restart, result
  <1> QED BY <1>1, <1>2, <1>3, <1>4, <1>5, <1>6


-----------------------------------------------------------------------------
(* The invariant *)

\* How the call ends: a poisoned session is on its way out, a sealed transcript has a
\* completed session behind it, and success is told only after the cleanup.
Ending ==
    /\ CleanedIsOver
    /\ pc \notin {"return", "done"} => verdict = "none"
    /\ pc \notin {"conclude", "return", "done"} => sealed = <<>>
    /\ poisoned \/ cleaned => pc \in {"failing", "return", "done"}
    /\ sealed # <<>> => recovery = "completed"
    /\ verdict = "success" => sealed # <<>> /\ cleaned /\ ~poisoned
    /\ pc = "done" => ~Live /\ cleaned

\* Where there is a second worker, and what the first one had done before it started.
Replaced ==
    /\ worker[0] # "none"
    /\ pc \in {"restart", "reopen", "launch", "handshake"} => ~Restarted
    /\ pc \in {"receive", "restart", "finish", "validate", "conclude"}
          => (Restarted <=> worker[1] # "none")
    /\ pc \in {"reopen", "launch"} => worker[1] = "none"
    /\ pc = "handshake" \/ Restarted => worker[1] # "none"
    /\ pc \in {"reopen", "launch"} \/ worker[1] # "none" =>
          /\ worker[0] = "ended" /\ checkpoint # None
          /\ Restarted \/ ~seen.terminal

\* Whose frames the driver and the spill hold.
Producers ==
    /\ \A i \in 1 .. Len(frames) :
          /\ frames[i].attempt = IF Restarted THEN 1 ELSE 0
          /\ ~Restarted /\ frames[i].kind \in Terminals => seen.terminal
    /\ \A i \in 1 .. Len(spill) : spill[i].attempt = 0

Extends(s, t) == Len(s) <= Len(t) /\ \A i \in 1 .. Len(s) : t[i] = s[i]

\* What is durable is what the first worker sent, from its first frame to the one
\* that sealed the batch, and it is what a replay continues.
Continuation ==
    /\ \A i \in 1 .. Len(spill) : spill[i].seq = i - 1
    /\ checkpoint # None => seen.group = "sealed" /\ Len(spill) = checkpoint + 1
    /\ pc = "receive" /\ checkpoint = None /\ ~seen.terminal => frames = spill
    /\ checkpoint # None /\ ~Restarted => Extends(spill, frames)
    /\ pc \in {"reopen", "launch", "handshake"} \/ Restarted => prefix = spill
    /\ sealed # <<>> => Extends(Durably, sealed)

IInv == TypeOK /\ Ending /\ Replaced /\ Producers /\ Continuation

LEMMA InitEstablishes ==
    ASSUME Init PROVE IInv
  <1>1. TypeOK
    <2>1. worker \in [Attempts -> {"none", "live", "ended"}]
      BY DEF Init, Attempts
    <2>2. seen \in SeenType
      BY DEF Init, SeenType
    <2>3. <<>> \in Seq(Frame) /\ Len(<<>>) = 0 /\ 0 <= MaximumRetained
      BY RuntimeAssumption
    <2> QED BY <2>1, <2>2, <2>3 DEF Init, TypeOK, SeenType, Steps, RecoveryStates, None
  <1>2. Ending
    BY DEF Init, Ending, CleanedIsOver
  <1>3. Replaced
    BY DEF Init, Replaced, Restarted, None, Attempts
  <1>4. Producers /\ Continuation
    BY DEF Init, Producers, Continuation, Restarted, None, Extends, Durably
  <1> QED BY <1>1, <1>2, <1>3, <1>4 DEF IInv

LEMMA TypesKept ==
    ASSUME TypeOK, CleanedIsOver, Next PROVE TypeOK'
  <1>1. CASE ReceiveFails \/ PollFindsSilence \/ EndOfOutput
    <2>1. recovery' \in RecoveryStates /\ pc' \in Steps
      BY <1>1, ObserveEffect
      DEF ReceiveFails, PollFindsSilence, EndOfOutput, session, TypeOK, Steps
    <2> QED BY <1>1, <2>1
            DEF ReceiveFails, PollFindsSilence, EndOfOutput, session, restart, result, TypeOK
  <1> QED BY <1>1, ReceiveTypes, RestartTypes, EndTypes DEF Next, ProviderStep, HostStep

\* A turn of the receive loop starts and ends with a live session.
LEMMA EndingKept ==
    ASSUME TypeOK, Ending, Next PROVE Ending'
  <1> USE DEF Ending, CleanedIsOver
  <1>1. ASSUME pc \in {"receive", "restart", "reopen", "launch", "handshake", "finish",
                       "validate"},
               UNCHANGED result, pc' \notin {"return", "done"},
               (poisoned' \/ cleaned') => pc' = "failing",
               cleaned' => poisoned'
        PROVE  Ending'
    BY <1>1 DEF result
  <1>2. ASSUME NEW f \in Inputs,
               \/ \E silent \in BOOLEAN : Receive(f, silent)
               \/ SpillFails(f) \/ ReceiveRefused(f) \/ Handshake(f)
               \/ \E e \in LivenessEvents : ControlFails(f, e)
        PROVE  Ending'
    <2>1. pc \in {"receive", "handshake"}
      BY <1>2 DEF Receive, SpillFails, ReceiveRefused, Handshake, ControlFails, Arrives
    <2>2. UNCHANGED result
      BY <1>2 DEF Receive, SpillFails, ReceiveRefused, Handshake, ControlFails, result
    <2>3. pc' \in {"receive", "restart", "failing"}
      BY <1>2, <2>1
      DEF Receive, SpillFails, ReceiveRefused, Handshake, ControlFails, Arrives
    <2>4. ~poisoned /\ ~cleaned
      BY <2>1
    <2>5. cleaned' = FALSE /\ (poisoned' => pc' = "failing")
      BY <1>2, <2>4 DEF Receive, SpillFails, ReceiveRefused, Handshake, ControlFails, TypeOK
    <2> QED BY <1>1, <2>1, <2>2, <2>3, <2>5
  <1>3. CASE PollFindsSilence \/ EndOfOutput \/ ReceiveFails \/ HandshakeRefused
    BY <1>1, <1>3
    DEF PollFindsSilence, EndOfOutput, HandshakeRefused, ReceiveFails, session, result
  <1>4. CASE DeclineRestart \/ KillForRestart \/ ReopenSpill \/ Launch \/ Finish
    BY <1>1, <1>4
    DEF DeclineRestart, KillForRestart, ReopenSpill, Launch, Finish, session, result
  <1>5. CASE ValidateFails \/ ValidateUnsealed
    BY <1>5 DEF ValidateFails, ValidateUnsealed, session, result
  <1>6. CASE ValidateAndSeal
    <2>1. CASE sealed' = Transcript /\ pc' = "conclude" /\ UNCHANGED poisoned
                 /\ recovery' = "completed"
      BY <1>6, <2>1 DEF ValidateAndSeal
    <2>2. CASE pc' = "failing" /\ UNCHANGED <<recovery, sealed>>
      BY <1>6, <2>2 DEF ValidateAndSeal
    <2>3. \A s, t : Transition(s, "output_sealed", t) => t = "completed"
      BY DEF Transition, Matrix
    <2> QED BY <1>6, <2>1, <2>2, <2>3 DEF ValidateAndSeal, Observe
  <1>7. CASE Conclude
    <2>1. PICK succeeds \in BOOLEAN :
              /\ RejectAndCleanup(recovery, succeeds)
              /\ verdict' = IF ~succeeds THEN "error"
                            ELSE IF sealed = <<>> THEN "unsealed" ELSE "success"
      BY <1>7 DEF Conclude
    <2>2. /\ cleaned' = TRUE /\ (poisoned' \/ recovery' \in TerminalStates)
          /\ recovery = "completed" => recovery' = "completed"
          /\ recovery = "completed" /\ ~poisoned /\ succeeds => ~poisoned'
      BY <2>1, CleanupEffect DEF TypeOK
    <2>3. pc = "conclude" /\ pc' = "return" /\ UNCHANGED sealed /\ ~poisoned
      BY <1>7 DEF Conclude
    <2> QED BY <2>1, <2>2, <2>3
  <1>8. CASE TerminalFailure
    <2>1. pc = "failing" /\ pc' = "return" /\ verdict' = "error" /\ UNCHANGED sealed
      BY <1>8 DEF TerminalFailure
    <2>2. cleaned' => poisoned' \/ recovery' \in TerminalStates
      <3>1. CASE UNCHANGED <<recovery, cleaned>> /\ poisoned' \in {poisoned, TRUE}
        BY <3>1
      <3>2. ASSUME NEW s \in {recovery, AfterTermination}, NEW succeeds \in BOOLEAN,
                   RejectAndCleanup(s, succeeds)
            PROVE  poisoned' \/ recovery' \in TerminalStates
        BY <3>2, TerminationEffect, CleanupEffect DEF TypeOK
      <3> QED BY <1>8, <3>1, <3>2 DEF TerminalFailure
    <2> QED BY <2>1, <2>2
  <1>9. CASE Destroy
    <2>1. PICK s \in {recovery, AfterTermination}, succeeds \in BOOLEAN :
              RejectAndCleanup(s, succeeds)
      BY <1>9 DEF Destroy
    <2>2. s \in RecoveryStates /\ (cleaned => poisoned \/ s \in TerminalStates)
          /\ (recovery = "completed" => s = recovery)
      BY <2>1, TerminationEffect DEF TypeOK, TerminalStates
    <2>3. /\ cleaned' = TRUE /\ (poisoned' \/ recovery' \in TerminalStates)
          /\ recovery = "completed" => recovery' = "completed"
          /\ recovery = "completed" /\ ~poisoned /\ cleaned => ~poisoned'
      BY <2>1, <2>2, CleanupEffect DEF TypeOK
    <2>4. pc = "return" /\ pc' = "done" /\ UNCHANGED <<sealed, verdict>> /\ EndWorker
      BY <1>9 DEF Destroy, result
    <2>5. ~Live'
      BY <2>4, EndWorkerEffect DEF TypeOK, WorkerStates
    <2> QED BY <2>3, <2>4, <2>5
  <1> QED BY <1>2, <1>3, <1>4, <1>5, <1>6, <1>7, <1>8, <1>9 DEF Next, ProviderStep, HostStep

\* Only Launch and the end of a worker change the workers, and only the handshake makes
\* the replacement the one that is listened to.
LEMMA ReplacedKept ==
    ASSUME IInv, Next PROVE Replaced'
  <1> USE DEF IInv, Replaced, Restarted
  <1>0. /\ worker \in [Attempts -> WorkerStates] /\ seen \in SeenType
        /\ checkpoint \in Nat \cup {None} /\ expected \in Nat \cup {None}
    BY DEF TypeOK, WorkerStates, SeenType
  <1>1. ASSUME EndWorker
        PROVE  /\ worker'[0] # "none" /\ (worker'[1] # "none" <=> worker[1] # "none")
               /\ worker[1] # "none" => worker'[0] = "ended"
               /\ worker[1] = "none" => worker'[0] = "ended" /\ worker'[1] = "none"
    BY <1>0, <1>1 DEF EndWorker, WorkerStates, Attempts
  <1>2. ASSUME NEW f \in Inputs,
               \/ \E silent \in BOOLEAN : Receive(f, silent)
               \/ SpillFails(f)
        PROVE  Replaced'
    <2>1. UNCHANGED worker /\ pc = "receive" /\ pc' \in {"receive", "restart", "failing"}
      BY <1>2 DEF Receive, SpillFails, Arrives
    <2>2. (expected' # None <=> expected # None) /\ (pc' = "restart" => expected' = None)
      BY <1>0, <1>2 DEF Receive, SpillFails, restart, None
    <2>3. checkpoint # None => checkpoint' # None
      BY <1>2, InputTypes DEF Receive, SpillFails, None
    <2> QED BY <2>1, <2>2, <2>3
  <1>3. ASSUME NEW f \in Inputs,
               ReceiveRefused(f) \/ \E e \in LivenessEvents : ControlFails(f, e)
        PROVE  Replaced'
    BY <1>3 DEF ReceiveRefused, ControlFails, Arrives, restart
  <1>4. ASSUME NEW f \in Inputs, Handshake(f)
        PROVE  Replaced'
    <2>1. pc = "handshake" /\ checkpoint # None
      BY <1>4 DEF Handshake
    <2>2. checkpoint + 1 # None
      BY <1>0, <2>1 DEF None
    <2> QED BY <1>4, <2>1, <2>2 DEF Handshake
  <1>5. CASE PollFindsSilence \/ EndOfOutput \/ ReceiveFails \/ HandshakeRefused
    BY <1>5 DEF PollFindsSilence, EndOfOutput, HandshakeRefused, ReceiveFails, restart
  <1>6. CASE DeclineRestart \/ ReopenSpill
    BY <1>6 DEF DeclineRestart, ReopenSpill, restart
  <1>7. CASE KillForRestart
    BY <1>1, <1>7 DEF KillForRestart, RestartAllowed
  <1>8. CASE Launch
    <2>1. CASE UNCHANGED worker /\ pc' = "failing"
      BY <1>8, <2>1 DEF Launch, restart
    <2>2. CASE worker' = [worker EXCEPT ![1] = "live"] /\ pc' = "handshake"
      <3>1. worker'[0] = worker[0] /\ worker'[1] = "live"
        BY <1>0, <2>2 DEF Attempts
      <3> QED BY <1>8, <2>2, <3>1 DEF Launch, restart
    <2> QED BY <1>8, <2>1, <2>2 DEF Launch
  <1>9. CASE Finish
    BY <1>1, <1>9 DEF Finish, restart
  <1>10. CASE ValidateFails \/ ValidateUnsealed \/ ValidateAndSeal
    BY <1>10 DEF ValidateFails, ValidateUnsealed, ValidateAndSeal, restart
  <1>11. CASE Conclude \/ TerminalFailure \/ Destroy
    BY <1>1, <1>11 DEF Conclude, TerminalFailure, Destroy, restart
  <1> QED BY <1>2, <1>3, <1>4, <1>5, <1>6, <1>7, <1>8, <1>9, <1>10, <1>11
          DEF Next, ProviderStep, HostStep

\* What a turn of the loop does to the frames that the driver and the spill hold.
LEMMA RetainEffect ==
    ASSUME IInv, NEW f \in Inputs, Arrives(f), Retain(f)
    PROVE  \/ f.kind = "resume" /\ frames' = frames
           \/ /\ f.kind # "resume" /\ frames' = Append(frames, f)
              /\ Len(frames') = Len(frames) + 1
              /\ \A i \in 1 .. Len(frames) : frames'[i] = frames[i]
              /\ frames'[Len(frames) + 1] = f
  BY InputTypes, AppendTypes DEF Retain, IInv, TypeOK

LEMMA SpillEffect ==
    ASSUME IInv, NEW f \in Inputs, spill' = Append(spill, f)
    PROVE  /\ Len(spill') = Len(spill) + 1
           /\ \A i \in 1 .. Len(spill) : spill'[i] = spill[i]
           /\ spill'[Len(spill) + 1] = f
  BY InputTypes, AppendTypes DEF IInv, TypeOK

\* A step outside the loop leaves the frames alone, or drops them for a replay.
LEMMA ProducersKept ==
    ASSUME IInv, Next PROVE Producers'
  <1> USE DEF Producers
  <1>0. /\ Producers /\ Len(frames) \in Nat /\ Len(spill) \in Nat /\ seen \in SeenType
        /\ expected \in Nat \cup {None}
    BY LenProperties DEF IInv, TypeOK, SeenType
  <1>1. ASSUME NEW f \in Inputs, Arrives(f), Retain(f), Restarted' = Restarted,
               seen'.terminal <=> seen.terminal \/ f.kind \in Terminals
        PROVE  \A i \in 1 .. Len(frames)' :
                  /\ frames'[i].attempt = IF Restarted' THEN 1 ELSE 0
                  /\ ~Restarted' /\ frames'[i].kind \in Terminals => seen'.terminal
    <2>1. f.attempt = IF Restarted THEN 1 ELSE 0
      BY <1>1 DEF Arrives, Attempt, IInv, Replaced
    <2> QED BY <1>0, <1>1, <2>1, RetainEffect
  <1>2. ASSUME NEW f \in Inputs, Arrives(f), spill' = spill \/ (Spilled(f) /\ spill' = Append(spill, f))
        PROVE  \A i \in 1 .. Len(spill)' : spill'[i].attempt = 0
    <2>1. CASE spill' = spill
      BY <1>0, <2>1
    <2>2. CASE Spilled(f) /\ spill' = Append(spill, f)
      <3>1. f.attempt = 0
        BY <1>2, <2>2 DEF Arrives, Spilled, Attempt, IInv, Replaced
      <3> QED BY <1>0, <2>2, <3>1, SpillEffect
    <2> QED BY <1>2, <2>1, <2>2
  <1>3. ASSUME NEW f \in Inputs, NEW silent \in BOOLEAN, Receive(f, silent)
        PROVE  Producers'
    <2>1. Arrives(f) /\ Retain(f) /\ (spill' = spill \/ (Spilled(f) /\ spill' = Append(spill, f)))
      BY <1>3 DEF Receive
    <2>2. Restarted' = Restarted
      BY <1>0, <1>3 DEF Receive, Restarted, None
    <2>3. seen'.terminal <=> seen.terminal \/ f.kind \in Terminals
      BY <1>0, <1>3, AfterFrameTypes DEF Receive
    <2> QED BY <1>1, <1>2, <2>1, <2>2, <2>3
  <1>4. ASSUME NEW f \in Inputs, SpillFails(f)
        PROVE  Producers'
    <2>1. Arrives(f) /\ Retain(f) /\ (spill' = spill \/ (Spilled(f) /\ spill' = Append(spill, f)))
      BY <1>4 DEF SpillFails
    <2>2. Restarted' = Restarted
      BY <1>4 DEF SpillFails, Restarted, restart
    <2>3. seen'.terminal <=> seen.terminal \/ f.kind \in Terminals
      BY <1>0, <1>4, AfterFrameTypes DEF SpillFails
    <2> QED BY <1>1, <1>2, <2>1, <2>2, <2>3
  <1>5. ASSUME NEW f \in Inputs, NEW e \in LivenessEvents, ControlFails(f, e)
        PROVE  Producers'
    <2>1. /\ Arrives(f) /\ Retain(f) /\ UNCHANGED <<seen, spill, expected>>
          /\ f.kind \notin Terminals
      BY <1>5 DEF ControlFails, Terminals, restart
    <2> QED BY <1>0, <1>1, <1>2, <2>1 DEF Restarted
  <1>6. ASSUME NEW f \in Inputs, Handshake(f)
        PROVE  Producers'
    <2>1. UNCHANGED spill
      BY <1>6 DEF Handshake
    <2>2. CASE frames' = <<>>
      BY <1>0, <2>1, <2>2
    <2>3. CASE UNCHANGED <<frames, expected>>
      BY <1>0, <1>6, <2>1, <2>3 DEF Handshake, Restarted
    <2> QED BY <1>6, <2>2, <2>3 DEF Handshake
  <1>7. ASSUME NEW f \in Inputs, ReceiveRefused(f)
        PROVE  Producers'
    BY <1>0, <1>7 DEF ReceiveRefused, restart, Restarted
  <1>8. CASE UNCHANGED <<frames, seen, spill, expected>>
    BY <1>0, <1>8 DEF Restarted
  <1>9. CASE PollFindsSilence \/ EndOfOutput \/ ReceiveFails \/ HandshakeRefused
    BY <1>8, <1>9 DEF PollFindsSilence, EndOfOutput, HandshakeRefused, ReceiveFails, restart
  <1>10. CASE DeclineRestart \/ KillForRestart \/ ReopenSpill \/ Launch \/ Finish
    BY <1>8, <1>10 DEF DeclineRestart, KillForRestart, ReopenSpill, Launch, Finish, restart
  <1>11. CASE ValidateFails \/ ValidateUnsealed \/ ValidateAndSeal
    BY <1>8, <1>11 DEF ValidateFails, ValidateUnsealed, ValidateAndSeal, restart
  <1>12. CASE Conclude \/ TerminalFailure \/ Destroy
    BY <1>8, <1>12 DEF Conclude, TerminalFailure, Destroy, restart
  <1> QED BY <1>3, <1>4, <1>5, <1>6, <1>7, <1>9, <1>10, <1>11, <1>12
          DEF Next, ProviderStep, HostStep

LEMMA ExtendsAppend ==
    ASSUME NEW s \in Seq(Frame), NEW t \in Seq(Frame), NEW f \in Frame, Extends(s, t)
    PROVE  Extends(s, Append(t, f)) /\ Extends(Append(s, f), Append(s, f))
  <1>1. Len(s) \in Nat /\ Len(t) \in Nat
    BY LenProperties
  <1> QED BY <1>1, AppendTypes DEF Extends

LEMMA ExtendsItself ==
    ASSUME NEW s \in Seq(Frame) PROVE Extends(s, s)
  <1>1. Len(s) \in Nat
    BY LenProperties
  <1> QED BY <1>1 DEF Extends

\* The frames that are validated start with the durable ones; the rest is the last
\* worker's.
LEMMA TranscriptContinues ==
    ASSUME IInv, pc = "validate"
    PROVE  /\ Extends(Durably, Transcript)
           /\ \A i \in Len(Durably) + 1 .. Len(Transcript) : Transcript[i].attempt = Attempt
  <1> USE DEF IInv, Continuation, Producers, Replaced
  <1>0. /\ spill \in Seq(Frame) /\ frames \in Seq(Frame)
        /\ Len(spill) \in Nat /\ Len(frames) \in Nat
    BY LenProperties DEF TypeOK
  <1>1. CASE Restarted
    <2>1. Durably = spill /\ prefix = spill /\ Attempt = 1 /\ Transcript = spill \o frames
      BY <1>1 DEF Durably, Attempt, Transcript
    <2>2. /\ Len(spill \o frames) = Len(spill) + Len(frames)
          /\ \A i \in 1 .. Len(spill) + Len(frames) :
                (spill \o frames)[i] = IF i <= Len(spill) THEN spill[i]
                                       ELSE frames[i - Len(spill)]
      BY <1>0, ConcatProperties
    <2>3. Extends(Durably, Transcript)
      BY <1>0, <2>1, <2>2 DEF Extends
    <2>4. ASSUME NEW i \in Len(spill) + 1 .. Len(spill) + Len(frames)
          PROVE  (spill \o frames)[i].attempt = 1
      <3>1. i - Len(spill) \in 1 .. Len(frames) /\ ~(i <= Len(spill))
            /\ i \in 1 .. Len(spill) + Len(frames)
        BY <1>0
      <3> QED BY <1>1, <2>2, <3>1
    <2> QED BY <2>1, <2>2, <2>3, <2>4
  <1>2. CASE ~Restarted
    <2>1. Transcript = frames /\ Attempt = 0
      BY <1>2 DEF Attempt, Transcript
    <2>2. Extends(Durably, frames)
      BY <1>0, <1>2 DEF Durably, Extends
    <2>3. Len(Durably) \in Nat
      BY <1>0 DEF Durably
    <2>4. \A i \in 1 .. Len(frames) : frames[i].attempt = 0
      BY <1>2
    <2> QED BY <1>0, <2>1, <2>2, <2>3, <2>4
  <1> QED BY <1>1, <1>2

\* The frames up to the checkpoint are in the driver as they are in the spill, so that a
\* durable prefix that is whole is the spill.
LEMMA DurableIsSpill ==
    ASSUME IInv, ~Restarted, checkpoint # None, Whole
    PROVE  Durable = spill
  <1> USE DEF IInv, Continuation
  <1>0. /\ spill \in Seq(Frame) /\ frames \in Seq(Frame) /\ checkpoint \in Nat
        /\ Len(spill) = checkpoint + 1 /\ Len(frames) \in Nat /\ Len(spill) <= Len(frames)
    BY LenProperties DEF TypeOK, Extends
  <1>1. Durable \in Seq(Frame) /\ Len(Durable) = checkpoint + 1
    BY DurableType
  <1>2. ASSUME NEW n \in 1 .. checkpoint + 1
        PROVE  Durable[n] = spill[n]
    <2>1. PICK i \in Early : frames[i].seq = n - 1 /\ Durable[n] = frames[i]
      BY DurableType
    <2>2. frames[n] = spill[n] /\ frames[n].seq = n - 1
      BY <1>0 DEF Extends
    <2>3. n \in Early /\ i \in 1 .. Len(frames)
      BY <1>0, <2>1, <2>2 DEF Early
    <2>4. ~(i < n) /\ ~(n < i)
      BY <2>1, <2>2, <2>3 DEF Whole
    <2>5. i = n
      BY <1>0, <2>3, <2>4
    <2> QED BY <2>1, <2>2, <2>5
  <1> QED BY <1>0, <1>1, <1>2, SeqEqual

\* A frame is spilled while the driver's frames and the spill are the same.
LEMMA ReceiveContinues ==
    ASSUME IInv, NEW f \in Inputs, NEW silent \in BOOLEAN, Receive(f, silent)
    PROVE  Continuation'
  <1>0. /\ spill \in Seq(Frame) /\ frames \in Seq(Frame) /\ seen \in SeenType
        /\ checkpoint \in Nat \cup {None} /\ expected \in Nat \cup {None}
        /\ f \in Frame /\ f.seq \in Nat
        /\ Len(spill) \in Nat /\ Len(frames) \in Nat
    BY InputTypes, LenProperties DEF IInv, TypeOK, SeenType
  <1>1. /\ Continuation /\ pc = "receive" /\ sealed = <<>> /\ sealed' = <<>>
        /\ prefix' = prefix /\ pc' \in {"receive", "restart"}
        /\ (expected' # None <=> expected # None)
        /\ Accepts(f) /\ Arrives(f) /\ Retain(f)
    BY <1>0 DEF Receive, IInv, Ending, result, Arrives, Restarted, None
  <1>2. /\ AfterFrame(f).group = IF f.kind = "begin" THEN "open"
                                 ELSE IF f.kind = "end" THEN "sealed" ELSE seen.group
        /\ seen'.terminal <=> seen.terminal \/ f.kind \in Terminals
        /\ seen' = AfterFrame(f)
    BY <1>0, AfterFrameTypes DEF Receive
  <1>3. checkpoint # None /\ ~Restarted => f.kind # "begin" /\ f.kind # "end"
    BY <1>1 DEF Accepts, GroupAccepts, Continuation
  <1>4. CASE Restarted
    <2>1. checkpoint # None /\ spill' = spill /\ checkpoint' = checkpoint
      BY <1>4 DEF Receive, Spilled, IInv, Replaced
    <2>2. f.kind # "begin" /\ f.kind # "end"
      BY <1>1, <2>1 DEF Accepts, GroupAccepts, Continuation
    <2>3. seen'.group = "sealed"
      BY <1>1, <1>2, <2>1, <2>2 DEF Continuation
    <2> QED BY <1>1, <1>4, <2>1, <2>3 DEF Continuation, Restarted
  <1>5. CASE ~Restarted /\ checkpoint # None
    <2>1. spill' = spill /\ checkpoint' = checkpoint /\ seen'.group = "sealed"
      BY <1>1, <1>2, <1>3, <1>5 DEF Receive, Spilled, Continuation
    <2>2. Extends(spill, frames')
      <3>1. frames' = frames \/ frames' = Append(frames, f)
        BY <1>1 DEF Retain
      <3> QED BY <1>0, <1>1, <1>5, <3>1, ExtendsAppend DEF Continuation
    <2> QED BY <1>1, <1>5, <2>1, <2>2 DEF Continuation, Restarted
  <1>6. CASE ~Restarted /\ checkpoint = None /\ f.kind \in Terminals
    <2>1. spill' = spill /\ checkpoint' = checkpoint /\ seen'.terminal
      BY <1>2, <1>6 DEF Receive, Spilled, Terminals
    <2> QED BY <1>1, <1>6, <2>1 DEF Continuation, Restarted
  <1>7. CASE ~Restarted /\ checkpoint = None /\ f.kind \notin Terminals
    <2>1. f.kind # "resume"
      BY <1>1, <1>7 DEF Accepts, GroupAccepts
    <2>2. Spilled(f) /\ f.seq = Len(spill) /\ ~seen.terminal
      BY <1>1, <1>7, <2>1 DEF Spilled, Accepts, SpillAccepts, SpillOpen
    <2>3. frames = spill /\ frames' = Append(spill, f) /\ spill' = Append(spill, f)
      BY <1>1, <1>7, <2>1, <2>2 DEF Receive, Retain, Continuation
    <2>4. checkpoint' = IF f.kind = "end" THEN f.seq ELSE None
      BY <1>7 DEF Receive
    <2>5. \A i \in 1 .. Len(spill') : spill'[i].seq = i - 1
      BY <1>0, <1>1, <2>2, <2>3, AppendTypes DEF Continuation
    <2>6. Extends(spill', frames')
      BY <1>0, <2>3, AppendTypes, ExtendsItself
    <2>7. checkpoint' # None => seen'.group = "sealed" /\ Len(spill') = checkpoint' + 1
      BY <1>0, <1>2, <2>2, <2>3, <2>4, AppendTypes
    <2> QED BY <1>1, <1>7, <2>3, <2>5, <2>6, <2>7 DEF Continuation, Restarted
  <1> QED BY <1>4, <1>5, <1>6, <1>7

LEMMA ContinuationKept ==
    ASSUME IInv, Next PROVE Continuation'
  <1>0. /\ spill \in Seq(Frame) /\ frames \in Seq(Frame) /\ Len(spill) \in Nat
        /\ checkpoint \in Nat \cup {None} /\ expected \in Nat \cup {None} /\ Continuation
    BY LenProperties DEF IInv, TypeOK
  <1>1. ASSUME UNCHANGED <<seen, spill, checkpoint, frames, expected, prefix, sealed>>,
               pc' # "receive" \/ pc = "receive",
               pc' \in {"reopen", "launch", "handshake"}
                  => pc \in {"reopen", "launch", "handshake"} \/ prefix = spill
        PROVE  Continuation'
    BY <1>0, <1>1 DEF Continuation, Restarted, Durably
  <1>2. ASSUME NEW f \in Inputs, SpillFails(f)
        PROVE  Continuation'
    <2>1. /\ checkpoint = None /\ ~Restarted /\ f.seq = Len(spill)
          /\ spill' = spill \/ spill' = Append(spill, f)
          /\ UNCHANGED <<checkpoint, prefix, expected, sealed>> /\ pc' = "failing"
      BY <1>2 DEF SpillFails, Spilled, Accepts, SpillAccepts, restart, result
    <2>2. sealed = <<>>
      BY <1>2 DEF SpillFails, Arrives, IInv, Ending
    <2>3. \A i \in 1 .. Len(spill) : spill[i].seq = i - 1
      BY <1>0 DEF Continuation
    <2>4. \A i \in 1 .. Len(spill') : spill'[i].seq = i - 1
      <3>1. CASE spill' = spill
        BY <2>3, <3>1
      <3>2. CASE spill' = Append(spill, f)
        BY <1>0, <2>1, <2>3, <3>2, SpillEffect
      <3> QED BY <2>1, <3>1, <3>2
    <2> QED BY <2>1, <2>2, <2>4 DEF Continuation, Restarted
  <1>3. ASSUME NEW f \in Inputs, ReceiveRefused(f)
        PROVE  Continuation'
    BY <1>1, <1>3 DEF ReceiveRefused, restart, result
  <1>4. ASSUME NEW f \in Inputs, NEW e \in LivenessEvents, ControlFails(f, e)
        PROVE  Continuation'
    <2>1. /\ UNCHANGED <<seen, spill, checkpoint, expected, prefix, sealed>> /\ ~Restarted
          /\ pc' \in {"restart", "failing"}
          /\ frames' = frames \/ frames' = Append(frames, f)
      BY <1>4 DEF ControlFails, Retain, restart, result
    <2>2. checkpoint # None => Extends(spill, frames')
      BY <1>0, <2>1, ExtendsAppend, InputTypes DEF Continuation
    <2> QED BY <1>0, <2>1, <2>2 DEF Continuation, Restarted, Durably
  <1>5. ASSUME NEW f \in Inputs, Handshake(f)
        PROVE  Continuation'
    <2>1. /\ UNCHANGED <<seen, spill, checkpoint, prefix, sealed>> /\ pc = "handshake"
          /\ checkpoint # None /\ prefix = spill
      BY <1>5 DEF Handshake, result, IInv, Replaced, Continuation
    <2>2. CASE expected' = checkpoint + 1
      <3>1. Restarted'
        BY <1>0, <2>1, <2>2 DEF Restarted, None
      <3> QED BY <1>0, <2>1, <3>1 DEF Continuation, Durably
    <2>3. CASE pc' = "failing" /\ UNCHANGED <<frames, expected>>
      BY <1>1, <2>1, <2>3
    <2> QED BY <1>5, <2>2, <2>3 DEF Handshake
  <1>6. CASE PollFindsSilence \/ EndOfOutput \/ ReceiveFails \/ HandshakeRefused
    BY <1>1, <1>6
    DEF PollFindsSilence, EndOfOutput, HandshakeRefused, ReceiveFails, restart, result
  <1>7. CASE DeclineRestart \/ ReopenSpill \/ Launch \/ Finish
    BY <1>1, <1>7 DEF DeclineRestart, ReopenSpill, Launch, Finish, restart, result
  <1>8. CASE KillForRestart
    <2>1. /\ UNCHANGED <<seen, spill, checkpoint, frames, expected, sealed>> /\ ~Restarted
          /\ checkpoint # None
      BY <1>8 DEF KillForRestart, RestartAllowed, result
    <2>2. sealed = <<>>
      BY <1>8 DEF KillForRestart, IInv, Ending
    <2>3. CASE Whole
      <3>1. prefix' = spill /\ pc' = "reopen"
        BY <1>8, <2>1, <2>3, DurableIsSpill DEF KillForRestart
      <3> QED BY <1>0, <2>1, <2>2, <3>1 DEF Continuation, Restarted
    <2>4. CASE ~Whole
      BY <1>1, <1>8, <2>1, <2>4 DEF KillForRestart
    <2> QED BY <2>3, <2>4
  <1>9. CASE ValidateFails \/ ValidateUnsealed
    BY <1>1, <1>9 DEF ValidateFails, ValidateUnsealed, restart, result
  <1>10. CASE ValidateAndSeal
    <2>1. /\ UNCHANGED <<seen, spill, checkpoint, frames, expected, prefix>>
          /\ pc = "validate" /\ pc' \in {"conclude", "failing"}
          /\ sealed' = Transcript \/ sealed' = sealed
      BY <1>10 DEF ValidateAndSeal, restart
    <2>2. Extends(Durably, Transcript)
      BY <2>1, TranscriptContinues
    <2> QED BY <1>0, <2>1, <2>2 DEF Continuation, Restarted, Durably
  <1>11. CASE Conclude \/ TerminalFailure \/ Destroy
    BY <1>1, <1>11 DEF Conclude, TerminalFailure, Destroy, restart, result
  <1> QED BY <1>2, <1>3, <1>4, <1>5, <1>6, <1>7, <1>8, <1>9, <1>10, <1>11, ReceiveContinues
          DEF Next, ProviderStep, HostStep

LEMMA StutterKeeps ==
    ASSUME IInv, UNCHANGED vars PROVE IInv'
  <1>1. TypeOK'
    BY DEF IInv, TypeOK, vars, session, restart, result
  <1>2. Ending'
    BY DEF IInv, Ending, CleanedIsOver, Live, vars, session, restart, result
  <1>3. Replaced' /\ Producers'
    BY DEF IInv, Replaced, Producers, Restarted, vars, session, restart, result
  <1>4. Continuation'
    BY DEF IInv, Continuation, Restarted, Durably, vars, session, restart, result
  <1> QED BY <1>1, <1>2, <1>3, <1>4 DEF IInv

-----------------------------------------------------------------------------
(* Theorems *)

\* IInv is inductive, whatever the two workers send and whenever they stop.
THEOREM RuntimeInvariant == Spec => []IInv
  <1>1. Init => IInv
    BY InitEstablishes
  <1>2. IInv /\ [Next]_vars => IInv'
    BY TypesKept, EndingKept, ReplacedKept, ProducersKept, ContinuationKept, StutterKeeps
    DEF IInv, Ending
  <1> QED BY <1>1, <1>2, PTL DEF Spec

\* Every variable of the task's execution keeps its type.  In particular the driver
\* never retains more frames than an attempt may.
THEOREM RuntimeTypeCorrect == Spec => []TypeOK
  <1>1. IInv => TypeOK
    BY DEF IInv
  <1> QED BY <1>1, RuntimeInvariant, PTL

\* try_one_restart replaces only a worker that is dead, that left a durable checkpoint
\* and that never sent a terminal frame.
THEOREM WorkerAlwaysAlone == Spec => []OneLiveWorker
  <1>1. IInv => OneLiveWorker
    <2> SUFFICES ASSUME IInv, worker[1] # "none"
                 PROVE  /\ worker[0] = "ended" /\ checkpoint # None
                        /\ \A i \in DOMAIN frames :
                              frames[i].kind \in Terminals => frames[i].attempt # 0
      BY DEF OneLiveWorker
    <2>1. worker[0] = "ended" /\ checkpoint # None /\ (Restarted \/ ~seen.terminal)
      BY DEF IInv, Replaced
    <2>2. DOMAIN frames = 1 .. Len(frames)
      BY LenProperties DEF IInv, TypeOK
    <2> QED BY <2>1, <2>2 DEF IInv, Producers
  <1> QED BY <1>1, RuntimeInvariant, PTL

\* Whichever step failed and however terminate and cleanup answered, the call returns
\* with no worker alive and with a cleaned session in a terminal state.
THEOREM NothingEverLeftBehind == Spec => []NothingLeftBehind
  <1>1. IInv => NothingLeftBehind
    BY DEF IInv, Ending, CleanedIsOver, NothingLeftBehind, State, TerminalStates
  <1> QED BY <1>1, RuntimeInvariant, PTL

\* The first frames of a sequence that continues another are that other one.
LEMMA ExtendsIsPrefix ==
    ASSUME NEW s \in Seq(Frame), NEW t \in Seq(Frame), Extends(s, t)
    PROVE  SubSeq(t, 1, Len(s)) = s /\ IsPrefix(s, t)
  <1>1. Len(s) \in Nat /\ Len(t) \in Nat /\ Len(s) <= Len(t)
    BY LenProperties DEF Extends
  <1>2. SubSeq(s, 1, Len(s)) = s
    BY <1>1, SubSeqFull
  <1>3. SubSeq(t, 1, Len(s)) = s
    <2>1. /\ SubSeq(t, 1, Len(s)) \in Seq(Frame)
          /\ Len(SubSeq(t, 1, Len(s))) = Len(s)
          /\ \A i \in 1 .. Len(s) : SubSeq(t, 1, Len(s))[i] = t[i]
      BY <1>1, SubSeqProperties
    <2> QED BY <2>1, SeqEqual DEF Extends
  <1> QED BY <1>1, <1>2, <1>3 DEF IsPrefix

\* A success is told only of a completed and cleaned session, for a transcript that
\* starts, frame for frame, with what the spill made durable.
THEOREM SuccessAlwaysSealed == Spec => []SuccessIsSealed
  <1>1. IInv => SuccessIsSealed
    <2> SUFFICES ASSUME IInv, verdict = "success"
                 PROVE  State = "completed" /\ cleaned /\ IsPrefix(Durably, sealed)
      BY DEF SuccessIsSealed, Durably
    <2>1. sealed # <<>> /\ cleaned /\ ~poisoned /\ recovery = "completed"
      BY DEF IInv, Ending
    <2>2. Durably \in Seq(Frame) /\ sealed \in Seq(Frame) /\ Extends(Durably, sealed)
      BY <2>1 DEF IInv, Continuation, TypeOK, Durably
    <2> QED BY <2>1, <2>2, ExtendsIsPrefix DEF State
  <1> QED BY <1>1, RuntimeInvariant, PTL

-----------------------------------------------------------------------------
(* The execution implements TaskOutcome *)

\* A frame makes the output durable when it ends the bound batch of the first worker,
\* and leaves what is durable alone otherwise.
LEMMA ReceiveRefines ==
    ASSUME IInv, NEW f \in Inputs, NEW silent \in BOOLEAN, Receive(f, silent)
    PROVE  Outcome!Publish \/ UNCHANGED Outcome!vars
  <1>0. /\ spill \in Seq(Frame) /\ Len(spill) \in Nat
        /\ checkpoint \in Nat \cup {None} /\ f \in Frame /\ f.seq \in Nat
    BY InputTypes, LenProperties DEF IInv, TypeOK
  <1>1. /\ UNCHANGED <<sealed, verdict, worker>> /\ sealed = <<>> /\ verdict = "none"
        /\ pc = "receive" /\ Attempt' = Attempt
    BY DEF Receive, IInv, Ending, result, Arrives, Attempt
  <1>2. CASE Durably' = Durably
    BY <1>1, <1>2 DEF Outcome!vars, Durably
  <1>3. CASE Durably' # Durably
    <2>1. ~Restarted
      BY <1>3 DEF Receive, Spilled, Durably
    <2>2. checkpoint = None
      <3>1. checkpoint # None => f.kind # "end"
        BY <2>1 DEF Receive, Accepts, GroupAccepts, IInv, Continuation
      <3> QED BY <1>3, <2>1, <3>1 DEF Receive, Spilled, Durably
    <2>3. f.kind = "end" /\ checkpoint' # None /\ Durably = <<>>
      BY <1>0, <1>3, <2>1, <2>2 DEF Receive, Durably, None
    <2>4. Spilled(f) /\ spill' = Append(spill, f) /\ Durably' = Append(spill, f)
      BY <2>1, <2>2, <2>3 DEF Receive, Spilled, Durably, Terminals
    <2>5. Attempt = 0 /\ f.attempt = 0
      BY <1>1, <2>1 DEF IInv, Replaced, Attempt, Receive, Arrives
    <2>6. /\ Append(spill, f) \in Seq(Frame) /\ Append(spill, f) # <<>>
          /\ Len(Append(spill, f)) = Len(spill) + 1
          /\ \A i \in 1 .. Len(spill) : Append(spill, f)[i] = spill[i]
          /\ Append(spill, f)[Len(spill) + 1] = f
      BY <1>0, AppendTypes
    <2>7. \A i \in 1 .. Len(Append(spill, f)) : Append(spill, f)[i].attempt = 0
      BY <1>0, <2>5, <2>6 DEF IInv, Producers
    <2> QED BY <1>1, <2>3, <2>4, <2>5, <2>6, <2>7
            DEF Outcome!Publish, Outcome!Pending, Outcome!From, Durably
  <1> QED BY <1>2, <1>3

\* launch_replacement starts the second worker on the strength of the checkpoint.
LEMMA LaunchRefines ==
    ASSUME IInv, Launch
    PROVE  Outcome!Replace \/ UNCHANGED Outcome!vars
  <1>1. CASE UNCHANGED worker
    BY <1>1 DEF Launch, result, Outcome!vars, Attempt
  <1>2. CASE worker' = [worker EXCEPT ![1] = "live"]
    <2>1. /\ pc = "launch" /\ sealed = <<>> /\ verdict = "none"
          /\ worker[1] = "none" /\ checkpoint # None
      BY DEF Launch, IInv, Ending, Replaced
    <2>2. Attempt = 0 /\ Attempt' = 1
      BY <1>2, <2>1 DEF Attempt, IInv, TypeOK, Attempts
    <2>3. Durably = spill /\ spill # <<>>
      <3>1. Len(spill) = checkpoint + 1 /\ checkpoint \in Nat
        BY <2>1 DEF IInv, Continuation, TypeOK
      <3>2. Len(spill) # 0
        BY <3>1
      <3> QED BY <2>1, <3>2, EmptySeq DEF Durably
    <2>4. UNCHANGED <<spill, checkpoint, sealed, verdict>>
      BY DEF Launch, result
    <2> QED BY <2>1, <2>2, <2>3, <2>4 DEF Outcome!Replace, Outcome!Pending, Durably
  <1> QED BY <1>1, <1>2 DEF Launch

\* seal_output seals what is durable, followed by frames of the last worker.
LEMMA SealRefines ==
    ASSUME IInv, ValidateAndSeal
    PROVE  Outcome!Seal \/ UNCHANGED Outcome!vars
  <1>1. /\ UNCHANGED <<worker, spill, checkpoint, verdict>> /\ Attempt' = Attempt
        /\ pc = "validate" /\ sealed = <<>> /\ verdict = "none"
    BY DEF ValidateAndSeal, IInv, Ending, Attempt
  <1>2. CASE sealed' = Transcript
    <2>1. Extends(Durably, Transcript)
          /\ \A i \in Len(Durably) + 1 .. Len(Transcript) : Transcript[i].attempt = Attempt
      BY <1>1, TranscriptContinues
    <2>2. Transcript \in Seq(Frame) /\ Durably \in Seq(Frame) /\ Transcript # <<>>
      BY TranscriptType DEF ValidateAndSeal, ValidTranscript, IInv, TypeOK, Durably
    <2>3. SubSeq(Transcript, 1, Len(Durably)) = Durably
      BY <2>1, <2>2, ExtendsIsPrefix
    <2> QED BY <1>1, <1>2, <2>1, <2>2, <2>3
            DEF Outcome!Seal, Outcome!Pending, Outcome!From, Durably, Extends
  <1>3. CASE sealed' = sealed
    BY <1>1, <1>3 DEF Outcome!vars
  <1> QED BY <1>2, <1>3 DEF ValidateAndSeal

\* The caller is told something once, and of a success only with sealed output.
LEMMA ReportRefines ==
    ASSUME IInv, Conclude \/ TerminalFailure
    PROVE  Outcome!Report
  <1>1. verdict = "none" /\ UNCHANGED <<sealed, spill, checkpoint>>
    BY DEF Conclude, TerminalFailure, IInv, Ending
  <1>2. Attempt' = Attempt
    BY EndWorkerEffect DEF Conclude, TerminalFailure, Attempt, IInv, TypeOK, WorkerStates
  <1>3. verdict' \in {"unsealed", "error"} \/ (verdict' = "success" /\ sealed # <<>>)
    BY DEF Conclude, TerminalFailure
  <1> QED BY <1>1, <1>2, <1>3 DEF Outcome!Report

\* Every step is one of TaskOutcome or changes nothing of it.
LEMMA StepRefines ==
    ASSUME IInv, [Next]_vars
    PROVE  [Outcome!Next]_(Outcome!vars)
  <1>1. ASSUME UNCHANGED <<spill, checkpoint, result>>, Attempt' = Attempt
        PROVE  UNCHANGED Outcome!vars
    BY <1>1 DEF Outcome!vars, result
  <1>2. ASSUME NEW f \in Inputs, SpillFails(f)
        PROVE  UNCHANGED Outcome!vars
    BY <1>2 DEF SpillFails, Spilled, result, Outcome!vars, Attempt
  <1>3. ASSUME NEW f \in Inputs,
               \/ ReceiveRefused(f) \/ Handshake(f)
               \/ \E e \in LivenessEvents : ControlFails(f, e)
        PROVE  UNCHANGED Outcome!vars
    BY <1>1, <1>3 DEF ReceiveRefused, Handshake, ControlFails, Attempt
  <1>4. CASE PollFindsSilence \/ EndOfOutput \/ ReceiveFails \/ HandshakeRefused
    BY <1>1, <1>4 DEF PollFindsSilence, EndOfOutput, HandshakeRefused, ReceiveFails, Attempt
  <1>5. CASE DeclineRestart \/ ReopenSpill
    BY <1>1, <1>5 DEF DeclineRestart, ReopenSpill, Attempt
  <1>6. CASE KillForRestart \/ Finish \/ Destroy
    <2>1. UNCHANGED <<spill, checkpoint, result>>
      BY <1>6 DEF KillForRestart, Finish, Destroy
    <2>2. Attempt' = Attempt
      BY <1>6, EndWorkerEffect
      DEF KillForRestart, Finish, Destroy, Attempt, IInv, TypeOK, WorkerStates
    <2> QED BY <1>1, <2>1, <2>2
  <1>7. CASE ValidateFails \/ ValidateUnsealed
    BY <1>1, <1>7 DEF ValidateFails, ValidateUnsealed, Attempt
  <1>8. CASE UNCHANGED vars
    BY <1>1, <1>8 DEF vars, result, Attempt
  <1> QED BY <1>2, <1>3, <1>4, <1>5, <1>6, <1>7, <1>8, ReceiveRefines, LaunchRefines,
             SealRefines, ReportRefines
          DEF Next, ProviderStep, HostStep, Outcome!Next

\* The loop, its restart and its end keep the promise of TaskOutcome: what the first
\* worker made durable is sealed as it is, followed by frames of the last worker.
THEOREM RuntimeImplementsTaskOutcome == Spec => ImplementsTaskOutcome
  <1>1. Init => Outcome!Init
    BY DEF Init, Outcome!Init, Attempt, Attempts
  <1>2. IInv /\ [Next]_vars => [Outcome!Next]_(Outcome!vars)
    BY StepRefines
  <1> QED BY <1>1, <1>2, RuntimeInvariant, PTL DEF Spec, ImplementsTaskOutcome, Outcome!Spec
=============================================================================
