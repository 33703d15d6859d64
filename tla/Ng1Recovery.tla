---------------------------- MODULE Ng1Recovery -----------------------------
(***************************************************************************)
(* The worker recovery matrix of an NG1 provider session                   *)
(* (ng1_recovery_transition): which event moves which recovery state to    *)
(* which.  An event with no entry for a state is refused and changes       *)
(* nothing.                                                                *)
(***************************************************************************)

RecoveryStates ==
    {"running", "heartbeat_timeout", "progress_rate_failure", "cancel_requested",
     "worker_killed", "resume_replay", "resumed", "completed", "failed"}

\* The rows of the matrix: from, event, to.
Matrix ==
    { <<"running", "heartbeat_timeout", "heartbeat_timeout">>,
      <<"running", "progress_rate_failure", "progress_rate_failure">>,
      <<"running", "cancel_requested", "cancel_requested">>,
      <<"running", "worker_exit", "worker_killed">>,
      <<"running", "output_sealed", "completed">>,
      <<"running", "invalid_heartbeat_clock", "failed">>,
      <<"heartbeat_timeout", "worker_kill_confirmed", "worker_killed">>,
      <<"progress_rate_failure", "worker_kill_confirmed", "worker_killed">>,
      <<"cancel_requested", "cancel_acknowledged", "failed">>,
      <<"cancel_requested", "cancel_timeout", "worker_killed">>,
      <<"worker_killed", "durable_token_valid", "resume_replay">>,
      <<"worker_killed", "durable_token_invalid", "failed">>,
      <<"resume_replay", "replay_valid", "resumed">>,
      <<"resume_replay", "replay_invalid", "failed">>,
      <<"resumed", "output_sealed", "completed">>,
      <<"resumed", "output_invalid", "failed">> }

\* The event is accepted in state s and leads to state t.
Transition(s, event, t) == <<s, event, t>> \in Matrix

\* The states an event may be observed in.
Enabled(s, event) == \E t \in RecoveryStates : Transition(s, event, t)

TerminalStates == {"completed", "failed"}
=============================================================================
