---------------------------- MODULE MCNg1Session ----------------------------
EXTENDS Ng1Session, TLC

AllWorkerEvents ==
    {"worker_exit", "heartbeat_timeout", "progress_rate_failure", "cancel_requested",
     "cancel_acknowledged", "cancel_timeout", "worker_kill_confirmed"}
\* Digests are only compared with one another.
Symmetry == Permutations(Digests)
=============================================================================
