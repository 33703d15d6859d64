----------------------------- MODULE Ng1Clocks ------------------------------
(***************************************************************************)
(* The liveness validators of an NG1 session: ng1_heartbeat_state and      *)
(* ng1_progress_state.  Both are values that a sample maps to a verdict    *)
(* and a next value; the session coordinator owns one of each.             *)
(*                                                                         *)
(* Time is counted in ticks of the host's monotonic clock.  The checks of  *)
(* a sample's schema, identity binding, and staged digest are one flag,    *)
(* "bound".                                                                *)
(***************************************************************************)
EXTENDS Integers

CONSTANTS
    HeartbeatTimeout,   \* heartbeat_timeout_ns
    StartupGrace,       \* heartbeat_startup_grace_ns, progress_startup_grace_ns
    SampleWindow,       \* progress_sample_window_ns
    MaximumSampleGap,   \* progress_maximum_sample_gap_ns
    UnitsPerTick        \* progress_units_per_second

ASSUME ClocksAssumption ==
    /\ HeartbeatTimeout \in Nat \ {0}
    /\ StartupGrace \in Nat \ {0}
    /\ SampleWindow \in Nat \ {0}
    /\ MaximumSampleGap \in Nat \ {0}
    /\ UnitsPerTick \in Nat \ {0}

\* An empty std::optional.
None == -1
Optional == Nat \cup {None}

\* accept_contiguous: 0 first, then one more than the last.  The u64 maximum is
\* out of reach of a session.
Contiguous(last, observed) == observed = last + 1

-----------------------------------------------------------------------------
(* ng1_heartbeat_state *)

Heartbeat ==
    [start : Nat, probeSeq : Optional, ackSeq : Optional, provider : Optional,
     host : Optional, probeAt : Optional, ackAt : Optional, terminal : BOOLEAN]

\* create and rebase_start.
FreshHeartbeat(start) ==
    [start |-> start, probeSeq |-> None, ackSeq |-> None, provider |-> None,
     host |-> None, probeAt |-> None, ackAt |-> None, terminal |-> FALSE]

\* The checks both kinds share: an open state, a bound sample, and provider and
\* host times that go neither backwards nor ahead of the host.
HeartbeatInOrder(hb, s) ==
    /\ ~hb.terminal
    /\ s.bound
    /\ s.receipt >= hb.start
    /\ s.time <= s.receipt
    /\ s.time >= hb.provider
    /\ s.receipt >= hb.host

\* An acknowledgement at or past the startup deadline, while there is none yet, or
\* at or past the deadline of the latest probe.
AckTooLate(hb, receipt) ==
    \/ hb.ackAt = None /\ receipt - hb.start >= StartupGrace
    \/ hb.probeAt # None /\ receipt - hb.probeAt >= HeartbeatTimeout

\* accept: "clock" stands for every code but heartbeat-timeout.
HeartbeatVerdict(hb, s) ==
    IF ~HeartbeatInOrder(hb, s) THEN "clock"
    ELSE IF s.kind = "ack" /\ AckTooLate(hb, s.receipt) THEN "timeout"
    ELSE IF ~Contiguous(IF s.kind = "ack" THEN hb.ackSeq ELSE hb.probeSeq, s.seq)
         THEN "clock"
    ELSE IF s.acked > s.observed THEN "clock"
    ELSE "accepted"

AfterHeartbeat(hb, s) ==
    LET seen == [hb EXCEPT !.provider = s.time, !.host = s.receipt]
    IN  IF s.kind = "ack"
        THEN [seen EXCEPT !.ackSeq = s.seq, !.ackAt = s.receipt]
        ELSE [seen EXCEPT !.probeSeq = s.seq, !.probeAt = s.receipt]

\* Seeded fault: once acknowledged, only an unanswered probe counts as silence.
Silent_ProbesOnly(hb, now) ==
    /\ ~hb.terminal
    /\ IF hb.ackAt = None
       THEN now - hb.start >= StartupGrace
       ELSE hb.probeAt # None /\ now - hb.probeAt >= HeartbeatTimeout

\* check_liveness reports heartbeat-timeout.
Silent(hb, now) ==
    /\ ~hb.terminal
    /\ IF hb.ackAt = None
       THEN now - hb.start >= StartupGrace
       ELSE \/ hb.probeAt # None /\ now - hb.probeAt >= HeartbeatTimeout
            \/ now - hb.ackAt >= HeartbeatTimeout

-----------------------------------------------------------------------------
(* ng1_progress_state *)

Progress ==
    [start : Nat, seq : Optional, provider : Optional, host : Optional,
     completed : Optional, total : Optional, rateAt : Optional,
     rateUnits : Optional, terminal : BOOLEAN]

FreshProgress(start) ==
    [start |-> start, seq |-> None, provider |-> None, host |-> None,
     completed |-> None, total |-> None, rateAt |-> None, rateUnits |-> None,
     terminal |-> FALSE]

\* The checks that come before the clock checks.
ProgressInRange(pr, s) ==
    /\ ~pr.terminal
    /\ s.bound
    /\ s.total # 0 /\ s.completed <= s.total
    /\ pr.total \in {None, s.total}

ProgressInOrder(pr, s) ==
    /\ s.receipt >= pr.start
    /\ s.time <= s.receipt
    /\ s.receipt >= pr.host
    /\ s.time >= pr.provider

AfterGrace(pr, s) == s.receipt - pr.start > StartupGrace

\* A sample is admitted to the rate check when it is terminal or a whole window
\* after the last one that was.
RateAdmitted(pr, s) == s.terminal \/ s.receipt - pr.rateAt >= SampleWindow

\* progress_rate_satisfied on the 128-bit products.
RateSatisfied(units, elapsed) == elapsed * UnitsPerTick <= units

\* The checks of a sample against the previous one.
ProgressKeepsUp(pr, s) ==
    /\ s.receipt - pr.host \in 1 .. MaximumSampleGap
    /\ s.completed >= pr.completed
    /\ AfterGrace(pr, s) => s.completed > pr.completed
    /\ RateAdmitted(pr, s) /\ (AfterGrace(pr, s) \/ s.terminal) =>
          RateSatisfied(s.completed - pr.rateUnits, s.receipt - pr.rateAt)

\* observe: "rate" for progress-rate, "clock" for heartbeat-clock-invalid.
ProgressVerdict(pr, s) ==
    IF ~ProgressInRange(pr, s) THEN "rate"
    ELSE IF ~ProgressInOrder(pr, s) THEN "clock"
    ELSE IF /\ Contiguous(pr.seq, s.seq)
            /\ s.terminal => s.completed = s.total
            /\ IF pr.host = None
               THEN s.receipt - pr.start < StartupGrace
               ELSE ProgressKeepsUp(pr, s)
         THEN "accepted"
    ELSE "rate"

\* Seeded fault: every sample moves the rate checkpoint.
AfterProgress_EverySample(pr, s) ==
    [pr EXCEPT !.seq = s.seq, !.provider = s.time, !.host = s.receipt,
               !.completed = s.completed, !.total = s.total, !.terminal = s.terminal,
               !.rateAt = s.receipt, !.rateUnits = s.completed]

AfterProgress(pr, s) ==
    LET seen == [pr EXCEPT !.seq = s.seq, !.provider = s.time, !.host = s.receipt,
                           !.completed = s.completed, !.total = s.total,
                           !.terminal = s.terminal]
    IN  IF pr.host = None \/ RateAdmitted(pr, s)
        THEN [seen EXCEPT !.rateAt = s.receipt, !.rateUnits = s.completed]
        ELSE seen

\* finish.
ProgressComplete(pr) == pr.terminal /\ pr.total # None /\ pr.completed = pr.total
=============================================================================
