----------------------- MODULE MaterializationProofs -----------------------
(***************************************************************************)
(* Proofs about StoreCandidate, for any client, any limits and any answer  *)
(* of the backend, and about MaterializationWriter, for both backends.     *)
(* What is proved of the candidate uses the assumptions of StoreCandidate  *)
(* alone; the publication inherits it, because its steps are the           *)
(* candidate's.                                                            *)
(***************************************************************************)
EXTENDS MaterializationWriter, TLAPS

-----------------------------------------------------------------------------
(* Lemmas about values *)

LEMMA FrameIsNatural ==
    ASSUME NEW n \in Nat, NEW bytes \in Nat
    PROVE  FrameBytes(KeyBytes(n), bytes) \in Nat \ {0}
  BY DEF FrameBytes, KeyBytes

LEMMA TaskBytes ==
    ASSUME NEW t \in Tasks
    PROVE  Size[t] \in Nat
  BY CandidateAssumption

\* A candidate without a terminal has neither of these two.
LEMMA NoVerdict == None \notin {"rejected_stale", "committed_unverified"}
  BY NoVerdictAssumption DEF Terminals, Answers

\* The terminals are as many strings, none of which is None.
LEMMA TerminalValues ==
    /\ None \notin Terminals
    /\ Commitments \subseteq Terminals /\ Rejections \subseteq Terminals
    /\ {"not_attempted", "publication_outcome_unknown"} \subseteq Terminals
    /\ Commitments \cap (Rejections \cup {"not_attempted", "publication_outcome_unknown"}) = {}
    /\ "publication_outcome_unknown" \notin Rejections
    /\ "not_attempted" # "publication_outcome_unknown"
  BY NoVerdictAssumption DEF Terminals, Answers, Commitments, Rejections

\* The callback was run by now, and it is counted once.
LEMMA CleaningTypes ==
    ASSUME TypeOK, Cleanups, NEW fails \in BOOLEAN, RunCleanup(fails)
    PROVE  /\ cleanup' \in [called : BOOLEAN, failed : BOOLEAN]
           /\ cleanup'.called /\ cleanups' = 1 /\ Cleanups'
  <1>1. cleanup \in [called : BOOLEAN, failed : BOOLEAN]
    BY DEF TypeOK
  <1>2. CASE cleanup.called
    BY <1>1, <1>2 DEF Cleanups, RunCleanup, cleaning
  <1>3. CASE ~cleanup.called
    <2>1. cleanups = 0
      BY <1>3 DEF Cleanups
    <2>2. cleanup' = [called |-> TRUE, failed |-> fails] /\ cleanups' = 1
      BY <1>3, <2>1 DEF RunCleanup
    <2>3. cleanup'.called = TRUE
      BY <2>2
    <2> QED BY <2>2, <2>3 DEF Cleanups
  <1> QED BY <1>2, <1>3

\* What the verdict on a reply can be.
LEMMA VerdictCases ==
    ASSUME NEW reply
    PROVE  \/ /\ Verdict(reply) = reply /\ reply \in Terminals \ {"not_attempted"}
              /\ phase = "publication_attempted_once"
           \/ Verdict(reply) = "publication_outcome_unknown"
  BY DEF Verdict

-----------------------------------------------------------------------------
(* The invariant of the candidate *)

LEMMA CandidateInitially ==
    ASSUME Init
    PROVE  CandidateInv
  <1> USE DEF Init
  <1>1. TypeOK
    <2>1. input \in [tasks : Seq(Tasks), bytes : 0 .. MaxAggregateBytes,
                     framed : 0 .. MaxSpoolBytes] /\ Len(input.tasks) <= MaxTasks
      <3>1. 0 \in 0 .. MaxAggregateBytes /\ 0 \in 0 .. MaxSpoolBytes /\ 0 <= MaxTasks
        BY CandidateAssumption
      <3>2. <<>> \in Seq(Tasks) /\ Len(<<>>) = 0
        OBVIOUS
      <3> QED BY <3>1, <3>2
    <2>2. expected \in Spools /\ actual \in Spools
      BY DEF Spools, EmptySpool
    <2>3. report \in [reserved : BOOLEAN, finalized : BOOLEAN, failed : BOOLEAN,
                      bytes : 0 .. ReportTailBytes, terminal : Terminals \cup {None}]
      BY CandidateAssumption DEF NoReport
    <2> QED BY <2>1, <2>2, <2>3 DEF TypeOK, Phases, EmptySpool
  <1>2. Staged /\ Projected
    BY NoVerdictAssumption
       DEF Staged, Projected, Identified, ExpectedBuilt, ActualBuilt, Validated, Reserved
  <1>3. Built /\ Attempted /\ Verdicts /\ ReportAgrees /\ Cleanups
    BY NoVerdictAssumption
       DEF Built, Attempted, Verdicts, OutcomeTruthful, ReportAgrees, Cleanups, Reserved, Concluded,
           NoReport, Commitments, Rejections, Terminals, Answers
  <1> QED BY <1>1, <1>2, <1>3 DEF CandidateInv

\* A failure ends a candidate that has not been attempted.
LEMMA FailureKeeps ==
    ASSUME CandidateInv, FailCandidate, calls = 0, phase \notin Concluded
    PROVE  CandidateInv'
  <1> USE DEF CandidateInv, FailCandidate
  <1>1. PICK fails \in BOOLEAN : RunCleanup(fails)
    OBVIOUS
  <1>2. /\ cleanup' \in [called : BOOLEAN, failed : BOOLEAN]
        /\ cleanup'.called /\ cleanups' = 1 /\ Cleanups'
    BY <1>1, CleaningTypes
  <1>3. TypeOK'
    BY <1>2 DEF TypeOK, Phases, staged, backend
  <1>4. Staged' /\ Projected'
    BY NoVerdictAssumption
       DEF Staged, Projected, Identified, ExpectedBuilt, ActualBuilt, Validated, Reserved,
           staged, backend
  <1>5. Built' /\ Attempted' /\ Verdicts' /\ ReportAgrees'
    BY TerminalValues
       DEF Built, Attempted, Verdicts, OutcomeTruthful, ReportAgrees, Reserved, Concluded, backend,
           Ended
  <1> QED BY <1>2, <1>3, <1>4, <1>5

\* Before the attempt nothing is published, running or concluded.
LEMMA NotAttempted ==
    ASSUME CandidateInv, phase \notin Concluded, phase # "publication_attempted_once"
    PROVE  calls = 0 /\ effect = "none" /\ ~running /\ terminal = None
  BY DEF CandidateInv, Attempted, Verdicts

\* A builder is on the stack only in the phases of the projections, or of its abort().
LEMMA NoBuilder ==
    ASSUME CandidateInv,
           phase \notin {"independently_validating", "expected_projection_sealed", "aborted"}
    PROVE  building = None
  BY DEF CandidateInv, TypeOK, Built

\* A candidate whose builder is on the stack has not been attempted.
LEMMA BuilderAlone ==
    ASSUME CandidateInv, building # None
    PROVE  /\ calls = 0 /\ ~running /\ terminal = None /\ effect = "none" /\ ~gone
           /\ phase \notin Concluded \cup {"publication_attempted_once"}
  <1>1. phase \notin Concluded \cup {"publication_attempted_once"}
    BY NoBuilder DEF Concluded
  <1> QED BY <1>1, NotAttempted DEF CandidateInv, Built

LEMMA StagingKeeps ==
    ASSUME CandidateInv, Stage
    PROVE  CandidateInv'
  <1> USE DEF CandidateInv, staged, backend, cleaning
  <1>1. CASE AppendFails \/ SealFails
    <2>1. phase \in {"staging_session_open", "appending"} /\ FailCandidate
      BY <1>1 DEF AppendFails, SealFails, Staging
    <2>2. phase \notin Concluded /\ phase # "publication_attempted_once"
      BY <2>1 DEF Concluded
    <2> QED BY <2>1, <2>2, NotAttempted, FailureKeeps
  <1>2. ASSUME NEW t \in Tasks, AppendTask(t) PROVE CandidateInv'
    <2> USE DEF AppendTask
    <2>1. phase \in {"staging_session_open", "appending"} /\ phase' = "appending"
      BY <1>2 DEF Staging
    <2>2. input'.tasks = Append(input.tasks, t) /\ input.tasks \in Seq(Tasks)
      BY <1>2 DEF TypeOK
    <2>3. input'.tasks \in Seq(Tasks) /\ input'.tasks # <<>>
          /\ Len(input'.tasks) = Len(input.tasks) + 1
      BY <2>2
    <2>4. TypeOK'
      <3>1. /\ Len(input.tasks) \in Nat /\ Size[t] \in Nat
            /\ input.bytes \in Nat /\ input.framed \in Nat
        BY TaskBytes, <2>2, CandidateAssumption DEF TypeOK
      <3> DEFINE frame == FrameBytes(KeyBytes(Len(input.tasks)), Size[t])
      <3>2. frame \in Nat
        BY <3>1, FrameIsNatural
      <3>3. /\ input'.bytes = input.bytes + Size[t] /\ input'.framed = input.framed + frame
            /\ input' = [tasks |-> input'.tasks, bytes |-> input'.bytes, framed |-> input'.framed]
        BY <1>2
      <3>4. /\ Len(input.tasks) < MaxTasks /\ input.bytes + Size[t] <= MaxAggregateBytes
            /\ input.framed + frame <= MaxSpoolBytes
        BY <1>2 DEF Admits
      <3> HIDE DEF frame
      <3>5. /\ input'.bytes \in 0 .. MaxAggregateBytes /\ input'.framed \in 0 .. MaxSpoolBytes
            /\ Len(input'.tasks) <= MaxTasks
        <4>1. MaxTasks \in Nat /\ MaxAggregateBytes \in Nat /\ MaxSpoolBytes \in Nat
          BY CandidateAssumption
        <4> HIDE DEF CandidateInv, AppendTask
        <4>2. input'.bytes \in 0 .. MaxAggregateBytes
          BY <4>1, <3>1, <3>3, <3>4
        <4>3. input'.framed \in 0 .. MaxSpoolBytes
          BY <4>1, <3>1, <3>2, <3>3, <3>4
        <4>4. Len(input'.tasks) <= MaxTasks
          BY <4>1, <3>1, <3>4, <2>3
        <4> QED BY <4>2, <4>3, <4>4
      <3>6. input' \in [tasks : Seq(Tasks), bytes : 0 .. MaxAggregateBytes,
                        framed : 0 .. MaxSpoolBytes]
        BY <3>3, <3>5, <2>3
      <3> QED BY <1>2, <2>1, <3>5, <3>6 DEF TypeOK, Phases
    <2>5. Staged' /\ Projected'
      BY <1>2, <2>1, <2>3, NoVerdictAssumption, NoBuilder, NotAttempted
         DEF Staged, Projected, Identified, ExpectedBuilt, ActualBuilt, Validated, Reserved,
             Concluded
    <2>6. Built' /\ Attempted' /\ Verdicts' /\ ReportAgrees' /\ Cleanups'
      BY <1>2, <2>1, NotAttempted
         DEF Built, Attempted, Verdicts, OutcomeTruthful, ReportAgrees, Cleanups, Reserved, Concluded,
             Ended
    <2> QED BY <2>4, <2>5, <2>6
  <1>3. ASSUME NEW census \in Censuses, SealInput(census) PROVE CandidateInv'
    <2> USE DEF SealInput
    <2>1. phase = "appending" /\ phase' = "candidate_identity_sealed"
      BY <1>3
    <2>2. TypeOK'
      BY <1>3, <2>1 DEF TypeOK, Phases
    <2>3. Staged' /\ Projected'
      BY <1>3, <2>1, NotAttempted
         DEF Staged, Projected, Identified, ExpectedBuilt, ActualBuilt, Validated, Reserved,
             Concluded
    <2>4. Built' /\ Attempted' /\ Verdicts' /\ ReportAgrees' /\ Cleanups'
      BY <1>3, <2>1, NotAttempted
         DEF Built, Attempted, Verdicts, OutcomeTruthful, ReportAgrees, Cleanups, Reserved, Concluded,
             Ended
    <2> QED BY <2>2, <2>3, <2>4
  <1>4. ASSUME NEW census \in Censuses, SealThrows(census) PROVE CandidateInv'
    <2> USE DEF SealThrows
    <2>1. phase = "appending" /\ phase' = "input_sealed" /\ building' = None
      BY <1>4, NoBuilder
    <2>2. TypeOK'
      BY <1>4, <2>1 DEF TypeOK, Phases
    <2>3. Staged' /\ Projected'
      BY <1>4, <2>1, NotAttempted, NoVerdictAssumption
         DEF Staged, Projected, Identified, ExpectedBuilt, ActualBuilt, Validated, Reserved,
             Concluded
    <2>4. Built' /\ Attempted' /\ Verdicts' /\ ReportAgrees' /\ Cleanups'
      BY <1>4, <2>1, NotAttempted, NoVerdictAssumption
         DEF Built, Attempted, Verdicts, OutcomeTruthful, ReportAgrees, Cleanups, Reserved,
             Concluded, Ended
    <2> QED BY <2>2, <2>3, <2>4
  <1> QED BY <1>1, <1>2, <1>3, <1>4 DEF Stage

LEMMA ValidationKeeps ==
    ASSUME CandidateInv, Validate
    PROVE  CandidateInv'
  <1> USE DEF CandidateInv, staged, backend, cleaning
  <1>1. CASE ExpectedFails \/ ActualFails \/ CompareFails
    <2>1. FailCandidate /\ phase \notin Concluded /\ phase # "publication_attempted_once"
      <3>1. CASE ExpectedFails \/ ActualFails
        BY <3>1, BuilderAlone, NoVerdictAssumption DEF ExpectedFails, ActualFails
      <3>2. CASE CompareFails
        BY <3>2 DEF CompareFails, Concluded
      <3> QED BY <1>1, <3>1, <3>2
    <2> QED BY <2>1, NotAttempted, FailureKeeps
  <1>2. CASE BuildExpected
    <2> USE DEF BuildExpected
    <2>1. /\ phase = "candidate_identity_sealed" /\ phase' = "independently_validating"
          /\ building' = "expected"
      BY <1>2
    <2>2. TypeOK' /\ Cleanups'
      BY <1>2, <2>1 DEF TypeOK, Phases, Cleanups
    <2>3. Staged' /\ Projected'
      BY <1>2, <2>1, NotAttempted
         DEF Staged, Projected, Identified, ExpectedBuilt, ActualBuilt, Validated, Reserved,
             Concluded
    <2>4. Built' /\ Attempted' /\ Verdicts' /\ ReportAgrees'
      BY <1>2, <2>1, NotAttempted
         DEF Built, Attempted, Verdicts, OutcomeTruthful, ReportAgrees, Reserved, Concluded,
             Ended
    <2> QED BY <2>2, <2>3, <2>4
  <1>3. ASSUME NEW records \in Projections, ExpectedReturns(records) PROVE CandidateInv'
    <2> USE DEF ExpectedReturns
    <2>1. /\ building # None /\ building' = None /\ phase' = "expected_projection_sealed"
          /\ records \in Seq(Nat)
      BY <1>3, CandidateAssumption, NoVerdictAssumption
    <2>2. TypeOK' /\ Cleanups'
      BY <1>3, <2>1 DEF TypeOK, Phases, Spools, Cleanups
    <2>3. Staged' /\ Projected'
      BY <1>3, <2>1, BuilderAlone
         DEF Staged, Projected, Identified, ExpectedBuilt, ActualBuilt, Validated, Reserved,
             Concluded
    <2>4. Built' /\ Attempted' /\ Verdicts' /\ ReportAgrees'
      BY <1>3, <2>1, BuilderAlone
         DEF Built, Attempted, Verdicts, OutcomeTruthful, ReportAgrees, Reserved, Concluded,
             Ended
    <2> QED BY <2>2, <2>3, <2>4
  <1>4. CASE ExpectedThrows
    <2> USE DEF ExpectedThrows
    <2>1. building # None /\ building' = None /\ phase' = phase
      BY <1>4, NoVerdictAssumption
    <2>2. TypeOK' /\ Cleanups'
      BY <1>4, <2>1 DEF TypeOK, Cleanups
    <2>3. Staged' /\ Projected'
      BY <1>4, <2>1, NoVerdictAssumption DEF Staged, Projected
    <2>4. Built' /\ Attempted' /\ Verdicts' /\ ReportAgrees'
      BY <1>4, <2>1, NoVerdictAssumption DEF Built, Attempted, Verdicts, OutcomeTruthful, ReportAgrees
    <2> QED BY <2>2, <2>3, <2>4
  <1>5. CASE BuildActual
    <2> USE DEF BuildActual
    <2>1. /\ phase = "expected_projection_sealed" /\ phase' = phase /\ building' = "actual"
      BY <1>5
    <2>2. TypeOK' /\ Cleanups'
      BY <1>5, <2>1 DEF TypeOK, Cleanups
    <2>3. Staged' /\ Projected'
      BY <1>5, <2>1, NotAttempted
         DEF Staged, Projected, Identified, ExpectedBuilt, ActualBuilt, Validated, Reserved,
             Concluded
    <2>4. Built' /\ Attempted' /\ Verdicts' /\ ReportAgrees'
      BY <1>5, <2>1 DEF Built, Attempted, Verdicts, OutcomeTruthful, ReportAgrees
    <2> QED BY <2>2, <2>3, <2>4
  <1>6. ASSUME NEW records \in Projections, ActualReturns(records) PROVE CandidateInv'
    <2> USE DEF ActualReturns
    <2>1. /\ building # None /\ building = "actual" /\ building' = None
          /\ phase' = "actual_projection_sealed"
          /\ records \in Seq(Nat) /\ actual.records \in Seq(Nat)
      BY <1>6, CandidateAssumption, NoVerdictAssumption DEF TypeOK, Spools
    <2>2. actual.records \o records \in Seq(Nat)
      BY <2>1
    <2>3. TypeOK' /\ Cleanups'
      BY <1>6, <2>1, <2>2 DEF TypeOK, Phases, Spools, Cleanups
    <2>4. Staged' /\ Projected'
      BY <1>6, <2>1, BuilderAlone
         DEF Staged, Projected, Identified, ExpectedBuilt, ActualBuilt, Validated, Reserved,
             Concluded
    <2>5. Built' /\ Attempted' /\ Verdicts' /\ ReportAgrees'
      BY <1>6, <2>1, NoVerdictAssumption, BuilderAlone
         DEF Built, Attempted, Verdicts, OutcomeTruthful, ReportAgrees, Reserved, Concluded,
             Ended
    <2> QED BY <2>3, <2>4, <2>5
  <1>7. ASSUME NEW records \in Projections, ActualThrows(records) PROVE CandidateInv'
    <2> USE DEF ActualThrows
    <2>1. /\ building # None /\ building = "actual" /\ building' = None /\ phase' = phase
          /\ records \in Seq(Nat) /\ actual.records \in Seq(Nat) /\ actual.sealed \in BOOLEAN
      BY <1>7, CandidateAssumption, NoVerdictAssumption DEF TypeOK, Spools
    <2>2. actual' = [records |-> actual.records \o records, sealed |-> actual.sealed]
          /\ actual.records \o records \in Seq(Nat)
      <3>1. actual \in [records : Seq(Nat), sealed : BOOLEAN]
        BY DEF TypeOK, Spools
      <3>2. actual' = [actual EXCEPT !.records = @ \o records]
        BY <1>7
      <3>3. actual.records \o records \in Seq(Nat)
        BY <2>1
      <3> HIDE DEF CandidateInv, ActualThrows
      <3> QED BY <3>1, <3>2, <3>3
    <2>3. TypeOK' /\ Cleanups'
      <3>1. actual' \in Spools /\ Fits(actual'.records)
        BY <1>7, <2>1, <2>2 DEF Spools
      <3>2. Cleanups' /\ TypeOK
        BY <1>7 DEF Cleanups
      <3>3. /\ UNCHANGED <<phase, input, candidate, expected, report, terminal, running, calls,
                           effect, cleanup, cleanups, gone>>
            /\ building' = None
        BY <1>7
      <3> HIDE DEF CandidateInv, ActualThrows
      <3> QED BY <3>1, <3>2, <3>3 DEF TypeOK, Fits
    <2>4. phase \notin ActualBuilt /\ calls' = 0
      BY <1>7, <2>1, BuilderAlone DEF Built, ActualBuilt, Validated, Reserved
    <2>5. Staged' /\ Projected'
      BY <1>7, <2>1, <2>4 DEF Staged, Projected, ActualBuilt
    <2>6. Built' /\ Attempted' /\ Verdicts' /\ ReportAgrees'
      BY <1>7, <2>1, NoVerdictAssumption DEF Built, Attempted, Verdicts, OutcomeTruthful, ReportAgrees
    <2> QED BY <2>3, <2>5, <2>6
  <1>8. CASE CompareProjections
    <2> USE DEF CompareProjections, Same
    <2>1. phase = "actual_projection_sealed" /\ phase' = "validation_sealed"
      BY <1>8
    <2>2. TypeOK' /\ Cleanups'
      BY <1>8, <2>1 DEF TypeOK, Phases, Cleanups
    <2>3. Staged' /\ Projected'
      BY <1>8, <2>1, NotAttempted
         DEF Staged, Projected, Identified, ExpectedBuilt, ActualBuilt, Validated, Reserved,
             Concluded
    <2>4. Built' /\ Attempted' /\ Verdicts' /\ ReportAgrees'
      BY <1>8, <2>1, NotAttempted
         DEF Built, Attempted, Verdicts, OutcomeTruthful, ReportAgrees, Reserved, Concluded, Ended
    <2> QED BY <2>2, <2>3, <2>4
  <1> QED BY <1>1, <1>2, <1>3, <1>4, <1>5, <1>6, <1>7, <1>8 DEF Validate

LEMMA PublicationKeeps ==
    ASSUME CandidateInv, Publish
    PROVE  CandidateInv'
  <1> USE DEF CandidateInv, staged, backend
  <1>1. CASE ReserveReportTail
    <2> USE DEF ReserveReportTail, cleaning
    <2>1. phase = "validation_sealed" /\ phase' = "report_tail_reserved"
      BY <1>1
    <2>2. /\ report' \in [reserved : BOOLEAN, finalized : BOOLEAN, failed : BOOLEAN,
                          bytes : 0 .. ReportTailBytes, terminal : Terminals \cup {None}]
          /\ report'.reserved /\ report'.finalized = report.finalized
      <3>1. report \in [reserved : BOOLEAN, finalized : BOOLEAN, failed : BOOLEAN,
                        bytes : 0 .. ReportTailBytes, terminal : Terminals \cup {None}]
        BY DEF TypeOK
      <3>2. report' = [report EXCEPT !.reserved = TRUE]
        BY <1>1
      <3> HIDE DEF ReserveReportTail
      <3> QED BY <3>1, <3>2
    <2>3. TypeOK' /\ Cleanups'
      BY <1>1, <2>1, <2>2 DEF TypeOK, Phases, Cleanups
    <2>4. Staged' /\ Projected'
      BY <1>1, <2>1, NotAttempted
         DEF Staged, Projected, Identified, ExpectedBuilt, ActualBuilt, Validated, Reserved,
             Concluded
    <2>5. Built' /\ Attempted' /\ Verdicts' /\ ReportAgrees'
      BY <1>1, <2>1, <2>2, NotAttempted
         DEF Built, Attempted, Verdicts, OutcomeTruthful, ReportAgrees, Reserved, Concluded, Ended
    <2> QED BY <2>3, <2>4, <2>5
  <1>2. CASE FinishWithoutPublication
    <2> USE DEF FinishWithoutPublication
    <2>1. /\ phase = "report_tail_reserved" /\ phase' = "publication_terminal"
          /\ terminal' = "not_attempted"
      BY <1>2
    <2>2. cleanup' \in [called : BOOLEAN, failed : BOOLEAN] /\ cleanups' \in Nat /\ Cleanups'
      BY <1>2, CleaningTypes
    <2>3. TypeOK'
      BY <1>2, <2>1, <2>2, TerminalValues DEF TypeOK, Phases
    <2>4. Staged' /\ Projected'
      BY <1>2, <2>1, NotAttempted
         DEF Staged, Projected, Identified, ExpectedBuilt, ActualBuilt, Validated, Reserved,
             Concluded
    <2>5. Built' /\ Attempted' /\ Verdicts' /\ ReportAgrees'
      BY <1>2, <2>1, NotAttempted, TerminalValues
         DEF Built, Attempted, Verdicts, OutcomeTruthful, ReportAgrees, Reserved, Concluded, Ended
    <2> QED BY <2>2, <2>3, <2>4, <2>5
  <1>3. CASE PublishOnce
    <2> USE DEF PublishOnce, cleaning
    <2>1. /\ phase = "report_tail_reserved" /\ phase' = "publication_attempted_once"
          /\ calls = 0 /\ calls' = 1 /\ effect' = "none" /\ terminal' = None
      BY <1>3, NotAttempted DEF Concluded
    <2>2. TypeOK' /\ Cleanups'
      BY <1>3, <2>1 DEF TypeOK, Phases, Cleanups
    <2>3. Staged' /\ Projected'
      BY <1>3, <2>1
         DEF Staged, Projected, Identified, ExpectedBuilt, ActualBuilt, Validated, Reserved
    <2>4. Built' /\ Attempted' /\ Verdicts' /\ ReportAgrees'
      BY <1>3, <2>1
         DEF Built, Attempted, Verdicts, OutcomeTruthful, ReportAgrees, Reserved, Concluded, Ended
    <2> QED BY <2>2, <2>3, <2>4
  <1>4. CASE BackendCommits
    <2> USE DEF BackendCommits, cleaning
    <2>1. running /\ calls = 1 /\ terminal \in {None, "publication_outcome_unknown"}
      BY <1>4 DEF Attempted
    <2>2. TypeOK' /\ Cleanups'
      BY <1>4 DEF TypeOK, Cleanups
    <2>3. Staged' /\ Projected'
      BY <1>4 DEF Staged, Projected
    <2>4. Built' /\ Attempted' /\ ReportAgrees'
      BY <1>4, <2>1 DEF Built, Attempted, ReportAgrees
    <2>5. phase # "aborted"
      BY <2>1 DEF Attempted, Concluded
    <2>6. Verdicts'
      BY <1>4, <2>1, <2>5, TerminalValues DEF Verdicts, OutcomeTruthful
    <2> QED BY <2>2, <2>3, <2>4, <2>6
  <1>5. ASSUME NEW answer_ \in Answers \cup {"throws"}, BackendReturns(answer_)
        PROVE  CandidateInv'
    <2> USE DEF BackendReturns
    <2>1. /\ running /\ ~running' /\ calls = 1 /\ calls' = 1 /\ phase' = "publication_terminal"
          /\ terminal' = Verdict(answer_) /\ ~gone
      BY <1>5 DEF Attempted
    <2>2. cleanup' \in [called : BOOLEAN, failed : BOOLEAN] /\ cleanups' \in Nat /\ Cleanups'
      BY <1>5, CleaningTypes
    <2>3. terminal' \in Terminals \ {"not_attempted"}
      BY <2>1, VerdictCases, TerminalValues
    <2>4. TypeOK'
      BY <1>5, <2>1, <2>2, <2>3 DEF TypeOK, Phases
    <2>5. Staged' /\ Projected'
      BY <1>5, <2>1
         DEF Staged, Projected, Identified, ExpectedBuilt, ActualBuilt, Validated, Reserved
    <2>6. Built' /\ Attempted'
      BY <1>5, <2>1 DEF Built, Attempted, Reserved, Concluded
    <2>7. Verdicts'
      <3>1. CASE terminal' = "publication_outcome_unknown"
        BY <1>5, <2>1, <3>1, TerminalValues DEF Verdicts, OutcomeTruthful, Concluded
      <3>2. CASE terminal' = answer_
        BY <1>5, <2>1, <2>3, <3>2, TerminalValues DEF Verdicts, OutcomeTruthful, Concluded
      <3> QED BY <2>1, <3>1, <3>2, VerdictCases
    <2>8. ReportAgrees'
      <3>1. CASE report.finalized
        <4>1. terminal # None /\ phase # "publication_attempted_once"
          BY <3>1 DEF ReportAgrees, Ended
        <4>2. terminal = "publication_outcome_unknown" /\ terminal' = terminal
          BY <2>1, <4>1, VerdictCases DEF Attempted
        <4> QED BY <1>5, <2>1, <4>2 DEF ReportAgrees, Ended
      <3> QED BY <1>5, <3>1 DEF ReportAgrees
    <2> QED BY <2>2, <2>4, <2>5, <2>6, <2>7, <2>8
  <1>6. CASE ReserveFails
    <2>1. FailCandidate /\ phase \notin Concluded /\ phase # "publication_attempted_once"
      BY <1>6 DEF ReserveFails, Concluded
    <2> QED BY <2>1, NotAttempted, FailureKeeps
  <1> QED BY <1>1, <1>2, <1>3, <1>4, <1>5, <1>6 DEF Publish

\* The report changes under a candidate that stays as it is.
LEMMA ReportAppendKeeps ==
    ASSUME CandidateInv, ReportOpen,
           UNCHANGED <<phase, staged, terminal, backend, cleaning, building, gone>>,
           \/ \E n \in Sections : /\ report.bytes + n <= ReportTailBytes
                                  /\ report' = [report EXCEPT !.bytes = @ + n]
           \/ report' = [report EXCEPT !.failed = TRUE]
    PROVE  CandidateInv'
  <1> USE DEF CandidateInv, staged, backend, cleaning
  <1>1. report \in [reserved : BOOLEAN, finalized : BOOLEAN, failed : BOOLEAN,
                    bytes : 0 .. ReportTailBytes, terminal : Terminals \cup {None}]
    BY DEF TypeOK
  <1>2. /\ report' \in [reserved : BOOLEAN, finalized : BOOLEAN, failed : BOOLEAN,
                        bytes : 0 .. ReportTailBytes, terminal : Terminals \cup {None}]
        /\ report'.reserved = report.reserved /\ report'.finalized = report.finalized
        /\ report'.terminal = report.terminal
    <2> HIDE DEF CandidateInv
    <2>1. CASE report' = [report EXCEPT !.failed = TRUE]
      BY <1>1, <2>1
    <2>2. ASSUME NEW n \in Sections, report.bytes + n <= ReportTailBytes,
                 report' = [report EXCEPT !.bytes = @ + n]
          PROVE  /\ report' \in [reserved : BOOLEAN, finalized : BOOLEAN, failed : BOOLEAN,
                                 bytes : 0 .. ReportTailBytes,
                                 terminal : Terminals \cup {None}]
                 /\ report'.reserved = report.reserved /\ report'.finalized = report.finalized
                 /\ report'.terminal = report.terminal
      <3>1. n \in Nat /\ ReportTailBytes \in Nat
        BY CandidateAssumption
      <3>2. report.bytes + n \in 0 .. ReportTailBytes
        BY <1>1, <2>2, <3>1
      <3> QED BY <1>1, <2>2, <3>2
    <2> QED BY <2>1, <2>2
  <1>3. TypeOK'
    BY <1>2 DEF TypeOK
  <1>4. Staged' /\ Projected' /\ Built' /\ Attempted' /\ Verdicts' /\ ReportAgrees' /\ Cleanups'
    BY <1>2
       DEF Staged, Projected, Built, Attempted, Verdicts, OutcomeTruthful, ReportAgrees, Cleanups
  <1> QED BY <1>3, <1>4

\* abort() keeps the invariant in every phase but those that it refuses.
LEMMA AbortKeeps ==
    ASSUME CandidateInv, ~Finished, AbortEffect,
           UNCHANGED <<staged, report, backend, building>>,
           gone' \in BOOLEAN, running \/ building # None => gone' = gone,
           building # None => "build" \in Reentrant
    PROVE  CandidateInv'
  <1> USE DEF CandidateInv, staged, backend, AbortEffect
  <1>1. cleanup' \in [called : BOOLEAN, failed : BOOLEAN] /\ cleanups' \in Nat /\ Cleanups'
    BY CleaningTypes
  <1>2. CASE phase = "publication_attempted_once"
    <2>1. /\ phase' = "publication_terminal" /\ terminal' = "publication_outcome_unknown"
          /\ running /\ gone' = gone /\ calls = 1
      BY <1>2 DEF Attempted
    <2>2. TypeOK'
      BY <1>1, <1>2, <2>1, TerminalValues DEF TypeOK, Phases
    <2>3. Staged' /\ Projected'
      BY <1>2, <2>1
         DEF Staged, Projected, Identified, ExpectedBuilt, ActualBuilt, Validated, Reserved
    <2>4. Built' /\ Attempted' /\ ReportAgrees'
      BY <1>2, <2>1 DEF Built, Attempted, Reserved, Concluded, ReportAgrees, Ended
    <2>5. Verdicts'
      BY <1>2, <2>1, TerminalValues DEF Verdicts, OutcomeTruthful, Concluded
    <2> QED BY <1>1, <2>2, <2>3, <2>4, <2>5
  <1>3. CASE phase = "publication_terminal"
    <2>1. phase' = phase /\ terminal' = terminal
      BY <1>3
    <2>2. TypeOK'
      BY <1>1, <2>1 DEF TypeOK
    <2>3. Staged' /\ Projected' /\ Built' /\ Attempted' /\ Verdicts' /\ ReportAgrees'
      BY <2>1 DEF Staged, Projected, Built, Attempted, Verdicts, OutcomeTruthful, ReportAgrees
    <2> QED BY <1>1, <2>2, <2>3
  <1>4. CASE phase \notin {"publication_attempted_once", "publication_terminal"}
    <2>1. phase' = "aborted" /\ terminal' = terminal /\ phase \notin Concluded
      BY <1>4 DEF Finished, Concluded
    <2>2. calls = 0 /\ effect = "none" /\ ~running /\ terminal = None
      BY <1>4, <2>1, NotAttempted
    <2>3. TypeOK'
      BY <1>1, <2>1 DEF TypeOK, Phases
    <2>4. Staged' /\ Projected'
      BY <2>1, <2>2
         DEF Staged, Projected, Identified, ExpectedBuilt, ActualBuilt, Validated, Reserved
    <2>5. Built' /\ Attempted' /\ Verdicts' /\ ReportAgrees'
      BY <2>1, <2>2, TerminalValues
         DEF Built, Attempted, Verdicts, OutcomeTruthful, ReportAgrees, Reserved, Concluded
    <2> QED BY <1>1, <2>3, <2>4, <2>5
  <1> QED BY <1>2, <1>3, <1>4

LEMMA ConclusionKeeps ==
    ASSUME CandidateInv, Conclude
    PROVE  CandidateInv'
  <1> USE DEF CandidateInv, staged, backend
  <1>1. CASE (\E n \in Sections : ReportAppend(n)) \/ ReportAppendFails
    BY <1>1, ReportAppendKeeps DEF ReportAppend, ReportAppendFails
  <1>2. CASE FinalizeReport
    <2> USE DEF FinalizeReport, cleaning
    <2>1. phase = "publication_terminal" /\ phase' = "report_finalized" /\ terminal # None
      BY <1>2
    <2>2. /\ report' \in [reserved : BOOLEAN, finalized : BOOLEAN, failed : BOOLEAN,
                          bytes : 0 .. ReportTailBytes, terminal : Terminals \cup {None}]
          /\ report'.reserved = report.reserved /\ report'.terminal = terminal
      <3>1. /\ report \in [reserved : BOOLEAN, finalized : BOOLEAN, failed : BOOLEAN,
                           bytes : 0 .. ReportTailBytes, terminal : Terminals \cup {None}]
            /\ terminal \in Terminals \cup {None}
        BY DEF TypeOK
      <3>2. report' = [report EXCEPT !.finalized = TRUE, !.terminal = terminal]
        BY <1>2
      <3> HIDE DEF CandidateInv, FinalizeReport
      <3> QED BY <3>1, <3>2
    <2>3. TypeOK' /\ Cleanups'
      BY <1>2, <2>1, <2>2 DEF TypeOK, Phases, Cleanups
    <2>4. Staged' /\ Projected'
      BY <1>2, <2>1
         DEF Staged, Projected, Identified, ExpectedBuilt, ActualBuilt, Validated, Reserved
    <2>5. Built' /\ Attempted'
      BY <1>2, <2>1, <2>2 DEF Built, Attempted, Reserved, Concluded
    <2>6. Verdicts'
      BY <1>2, <2>1 DEF Verdicts, OutcomeTruthful, Concluded
    <2>7. ReportAgrees'
      BY <1>2, <2>1, <2>2 DEF ReportAgrees, Ended
    <2> QED BY <2>3, <2>4, <2>5, <2>6, <2>7
  <1>3. CASE FinalizeFails
    <2> USE DEF FinalizeFails, cleaning
    <2>1. /\ phase = "publication_terminal" /\ phase' = "report_transport_failed"
          /\ terminal # None
      BY <1>3
    <2>2. /\ report' \in [reserved : BOOLEAN, finalized : BOOLEAN, failed : BOOLEAN,
                          bytes : 0 .. ReportTailBytes, terminal : Terminals \cup {None}]
          /\ report'.reserved = report.reserved /\ report'.terminal = report.terminal
          /\ report'.finalized = report.finalized
      <3>1. report \in [reserved : BOOLEAN, finalized : BOOLEAN, failed : BOOLEAN,
                        bytes : 0 .. ReportTailBytes, terminal : Terminals \cup {None}]
        BY DEF TypeOK
      <3>2. ReportOpen \in BOOLEAN /\ (report.failed \/ ReportOpen) \in BOOLEAN
        BY DEF ReportOpen
      <3>3. report' = [report EXCEPT !.failed = @ \/ ReportOpen]
        BY <1>3
      <3> HIDE DEF CandidateInv, FinalizeFails
      <3> QED BY <3>1, <3>2, <3>3
    <2>3. TypeOK' /\ Cleanups'
      BY <1>3, <2>1, <2>2 DEF TypeOK, Phases, Cleanups
    <2>4. Staged' /\ Projected'
      BY <1>3, <2>1
         DEF Staged, Projected, Identified, ExpectedBuilt, ActualBuilt, Validated, Reserved
    <2>5. Built' /\ Attempted'
      BY <1>3, <2>1, <2>2 DEF Built, Attempted, Reserved, Concluded
    <2>6. Verdicts' /\ ReportAgrees'
      BY <1>3, <2>1, <2>2 DEF Verdicts, OutcomeTruthful, ReportAgrees, Concluded, Ended
    <2> QED BY <2>3, <2>4, <2>5, <2>6
  <1>4. CASE Abort
    <2>1. gone' = gone /\ gone \in BOOLEAN
      BY <1>4 DEF Abort, TypeOK
    <2> QED BY <1>4, <2>1, AbortKeeps DEF Abort, Callable
  <1>5. CASE Destroy
    <2>1. CASE phase \in Ended
      <3> USE DEF Destroy, cleaning
      <3>1. TypeOK' /\ Cleanups'
        BY <1>5, <2>1 DEF TypeOK, Cleanups
      <3>2. Staged' /\ Projected' /\ Built' /\ Attempted' /\ Verdicts' /\ ReportAgrees'
        BY <1>5, <2>1 DEF Staged, Projected, Built, Attempted, Verdicts, OutcomeTruthful, ReportAgrees
      <3> QED BY <3>1, <3>2
    <2>2. CASE phase \notin Ended
      <3>1. ~Finished
        BY <2>2 DEF Finished, Ended
      <3> QED BY <1>5, <2>2, <3>1, AbortKeeps DEF Destroy
    <2> QED BY <2>1, <2>2
  <1>6. CASE AssignOver
    <2> USE DEF AssignOver, cleaning
    <2>1. TypeOK' /\ Cleanups'
      BY <1>6 DEF TypeOK, Cleanups
    <2>2. Staged' /\ Projected' /\ Built' /\ Attempted' /\ Verdicts' /\ ReportAgrees'
      BY <1>6 DEF Staged, Projected, Built, Attempted, Verdicts, OutcomeTruthful, ReportAgrees
    <2> QED BY <2>1, <2>2
  <1> QED BY <1>1, <1>2, <1>3, <1>4, <1>5, <1>6 DEF Conclude

LEMMA CandidateKeeps ==
    ASSUME CandidateInv, [Next]_vars
    PROVE  CandidateInv'
  <1>1. CASE UNCHANGED vars
    <2> USE <1>1 DEF vars, staged, backend, cleaning
    <2>1. TypeOK' /\ Staged' /\ Projected'
      BY DEF CandidateInv, TypeOK, Staged, Projected
    <2>2. Built' /\ Attempted' /\ Verdicts' /\ ReportAgrees' /\ Cleanups'
      BY DEF CandidateInv, Built, Attempted, Verdicts, OutcomeTruthful, ReportAgrees, Cleanups
    <2> QED BY <2>1, <2>2 DEF CandidateInv
  <1> QED BY <1>1, StagingKeeps, ValidationKeeps, PublicationKeeps, ConclusionKeeps DEF Next

\* The invariant holds of every behaviour, for every client and every backend.
THEOREM CandidateAlwaysInv == Spec => []CandidateInv
  <1>1. Init => CandidateInv
    BY CandidateInitially
  <1>2. CandidateInv /\ [Next]_vars => CandidateInv'
    BY CandidateKeeps
  <1> QED BY <1>1, <1>2, PTL DEF Spec

-----------------------------------------------------------------------------
(* What it says *)

\* Types and quotas, whatever the client stages, writes and reports.
THEOREM CandidateTypeCorrect == Spec => []TypeOK
  <1>1. CandidateInv => TypeOK
    BY DEF CandidateInv
  <1> QED BY <1>1, CandidateAlwaysInv, PTL

LEMMA InvProves ==
    ASSUME CandidateInv
    PROVE  PublishedWasProven
  BY DEF CandidateInv, Staged, Projected, Built, Attempted, PublishedWasProven

\* publish_once is reached at most once, and only past the comparison and the
\* reservation of the report (materialization_store_candidate_internal.cpp:870).
THEOREM PublishedAlwaysProven == Spec => []PublishedWasProven
  BY InvProves, CandidateAlwaysInv, PTL

\* No answer, exception or reentrant abort makes the candidate tell what did not happen.
THEOREM CandidateAlwaysTruthful == Spec => []OutcomeTruthful
  <1>1. CandidateInv => OutcomeTruthful
    BY DEF CandidateInv, Verdicts
  <1> QED BY <1>1, CandidateAlwaysInv, PTL

\* The finalized report and the candidate name the same terminal.
THEOREM ReportAlwaysAgrees == Spec => []ReportAgrees
  <1>1. CandidateInv => ReportAgrees
    BY DEF CandidateInv
  <1> QED BY <1>1, CandidateAlwaysInv, PTL

-----------------------------------------------------------------------------
(* Verdicts *)

\* The candidate goes on, or on as it ended: what it tells stays.
Continues ==
    /\ UNCHANGED <<terminal, effect>>
    /\ phase' = "aborted" <=> phase = "aborted"

\* It is aborted before the backend was called.
GivesUp ==
    /\ UNCHANGED <<terminal, effect>>
    /\ terminal = None /\ effect = "none" /\ phase' = "aborted"

\* It reaches a verdict, which is what the backend did, or unknown.
Judges ==
    /\ UNCHANGED effect
    /\ terminal = None /\ phase # "aborted"
    /\ phase' = "publication_terminal" /\ terminal' \in Terminals
    /\ terminal' \in Commitments => effect = "committed"
    /\ terminal' \in Rejections \cup {"not_attempted"} => effect = "none"

\* A builder that aborted it returns, and it goes on.
Revives ==
    /\ UNCHANGED <<terminal, effect>>
    /\ phase = "aborted" /\ "build" \in Reentrant

\* Every step but the commit is one of the four.
LEMMA StepsOfTerminal ==
    ASSUME CandidateInv, Next
    PROVE  Continues \/ GivesUp \/ Judges \/ Revives \/ (BackendCommits /\ running)
  <1>1. /\ terminal # None <=> phase \in Concluded
        /\ phase = "aborted" => effect = "none"
        /\ running => terminal \in {None, "publication_outcome_unknown"}
        /\ running => phase \in Concluded \cup {"publication_attempted_once"}
        /\ phase \notin Concluded \cup {"publication_attempted_once"} => effect = "none"
    BY DEF CandidateInv, Verdicts, OutcomeTruthful, Attempted
  <1> USE DEF Continues, backend
  <1>2. CASE Stage
    <2>1. CASE AppendFails \/ SealFails
      BY <1>1, <2>1 DEF AppendFails, SealFails, Staging, FailCandidate, GivesUp, Concluded
    <2>2. CASE \E t \in Tasks : AppendTask(t)
      BY <2>2 DEF AppendTask, Staging
    <2>3. CASE \E census \in Censuses : SealInput(census) \/ SealThrows(census)
      BY <2>3 DEF SealInput, SealThrows
    <2> QED BY <1>2, <2>1, <2>2, <2>3 DEF Stage
  <1>3. CASE Validate
    <2>1. CASE ExpectedFails \/ ActualFails
      BY <2>1, BuilderAlone, NoVerdictAssumption
         DEF ExpectedFails, ActualFails, FailCandidate, GivesUp
    <2>2. CASE CompareFails
      BY <1>1, <2>2 DEF CompareFails, FailCandidate, GivesUp, Concluded
    <2>3. CASE \E records \in Projections : ExpectedReturns(records)
      BY <2>3, NoVerdictAssumption DEF ExpectedReturns, CandidateInv, Built, Revives
    <2>4. CASE \E records \in Projections : ActualReturns(records)
      BY <2>4, NoVerdictAssumption DEF ActualReturns, CandidateInv, Built, Revives
    <2>5. CASE \E records \in Projections : ActualThrows(records)
      BY <2>5 DEF ActualThrows
    <2>6. CASE BuildExpected \/ ExpectedThrows \/ BuildActual \/ CompareProjections
      BY <2>6 DEF BuildExpected, ExpectedThrows, BuildActual, CompareProjections
    <2> QED BY <1>3, <2>1, <2>2, <2>3, <2>4, <2>5, <2>6 DEF Validate
  <1>4. CASE Publish
    <2>1. CASE ReserveReportTail \/ PublishOnce
      BY <2>1 DEF ReserveReportTail, PublishOnce
    <2>2. CASE FinishWithoutPublication
      BY <1>1, <2>2, TerminalValues DEF FinishWithoutPublication, Judges, Concluded
    <2>3. CASE BackendCommits
      BY <2>3 DEF BackendCommits
    <2>4. ASSUME NEW answer_ \in Answers \cup {"throws"}, BackendReturns(answer_)
          PROVE  Continues \/ Judges
      <3>1. /\ running /\ phase' = "publication_terminal" /\ terminal' = Verdict(answer_)
            /\ UNCHANGED effect
            /\ answer_ \in Commitments => effect = "committed"
            /\ answer_ \in Rejections => effect = "none"
        BY <2>4 DEF BackendReturns
      <3>2. CASE terminal = None
        <4>1. phase # "aborted"
          BY <1>1, <3>1 DEF Concluded
        <4>2. CASE terminal' = "publication_outcome_unknown"
          BY <3>1, <3>2, <4>1, <4>2, TerminalValues DEF Judges
        <4>3. CASE terminal' = answer_ /\ answer_ \in Terminals \ {"not_attempted"}
          BY <3>1, <3>2, <4>1, <4>3 DEF Judges
        <4> QED BY <3>1, <4>2, <4>3, VerdictCases
      <3>3. CASE terminal = "publication_outcome_unknown"
        <4>1. phase \in Concluded
          BY <1>1, <3>3, TerminalValues
        <4>2. terminal' = "publication_outcome_unknown"
          BY <3>1, <4>1, VerdictCases DEF Concluded
        <4> QED BY <3>1, <3>3, <4>1, <4>2 DEF Concluded
      <3> QED BY <1>1, <3>1, <3>2, <3>3
    <2>5. CASE ReserveFails
      BY <1>1, <2>5 DEF ReserveFails, FailCandidate, GivesUp, Concluded
    <2> QED BY <1>4, <2>1, <2>2, <2>3, <2>4, <2>5 DEF Publish
  <1>5. CASE Conclude
    <2>1. CASE (\E n \in Sections : ReportAppend(n)) \/ ReportAppendFails \/ AssignOver
      BY <2>1 DEF ReportAppend, ReportAppendFails, AssignOver
    <2>2. CASE FinalizeReport \/ FinalizeFails
      BY <2>2 DEF FinalizeReport, FinalizeFails
    <2>3. CASE AbortEffect /\ UNCHANGED backend /\ ~Finished
      <3>1. CASE phase = "publication_attempted_once"
        BY <1>1, <2>3, <3>1, TerminalValues DEF AbortEffect, Judges, Concluded
      <3>2. CASE phase = "publication_terminal"
        BY <2>3, <3>2 DEF AbortEffect
      <3>3. CASE phase \notin {"publication_attempted_once", "publication_terminal"}
        BY <1>1, <2>3, <3>3 DEF AbortEffect, GivesUp, Finished, Concluded
      <3> QED BY <3>1, <3>2, <3>3
    <2>4. CASE Abort
      BY <2>3, <2>4 DEF Abort
    <2>5. CASE Destroy
      <3>1. CASE phase \in Ended
        BY <2>5, <3>1 DEF Destroy
      <3>2. CASE phase \notin Ended
        BY <2>3, <2>5, <3>2 DEF Destroy, Ended, Finished
      <3> QED BY <3>1, <3>2
    <2> QED BY <1>5, <2>1, <2>2, <2>4, <2>5 DEF Conclude
  <1> QED BY <1>2, <1>3, <1>4, <1>5 DEF Next

\* A verdict stays, whoever calls what afterwards: abort() after an answer, an answer
\* after abort(), the destructor (materialization_store_candidate_internal.cpp:892).
THEOREM VerdictAlwaysFinal == Spec => VerdictIsFinal
  <1> DEFINE Final == terminal # None => terminal' = terminal
  <1>1. CandidateInv /\ [Next]_vars => [Final]_vars
    <2> SUFFICES ASSUME CandidateInv, Next
                 PROVE  Final
      OBVIOUS
    <2>1. CASE Continues \/ GivesUp \/ Judges \/ Revives
      BY <2>1 DEF Continues, GivesUp, Judges, Revives
    <2>2. CASE BackendCommits
      BY <2>2 DEF BackendCommits
    <2> QED BY <2>1, <2>2, StepsOfTerminal
  <1>2. Spec => [][Final]_vars
    BY <1>1, CandidateAlwaysInv, PTL DEF Spec
  <1> QED BY <1>2 DEF VerdictIsFinal

\* A failed candidate is terminal, if no builder aborts it: the return of one that did
\* writes its phase over (materialization_store_candidate_internal.cpp:782 and 807).
THEOREM AbortAlwaysFinal ==
    ASSUME "build" \notin Reentrant
    PROVE  Spec => AbortedIsFinal
  <1> DEFINE Final == phase = "aborted" => phase' = "aborted"
  <1>1. CandidateInv /\ [Next]_vars => [Final]_vars
    <2> SUFFICES ASSUME CandidateInv, Next
                 PROVE  Final
      OBVIOUS
    <2>1. CASE Continues \/ GivesUp \/ Judges
      BY <2>1 DEF Continues, GivesUp, Judges
    <2>2. CASE BackendCommits
      BY <2>2 DEF BackendCommits
    <2> QED BY <2>1, <2>2, StepsOfTerminal DEF Revives
  <1>2. Spec => [][Final]_vars
    BY <1>1, CandidateAlwaysInv, PTL DEF Spec
  <1> QED BY <1>2 DEF AbortedIsFinal

-----------------------------------------------------------------------------
(* The abstract publication *)

LEMMA ToldCases ==
    ASSUME CandidateInv
    PROVE  /\ phase = "aborted" => Told = "none"
           /\ terminal = None /\ phase # "aborted" => Told = "pending"
           /\ terminal \in Rejections \cup {"not_attempted"} => Told = "none"
           /\ terminal \in Commitments => Told = "committed"
           /\ terminal = "publication_outcome_unknown" => Told = "unclear"
  <1>1. phase = "aborted" => terminal = None
    BY DEF CandidateInv, Verdicts, Concluded
  <1> QED BY <1>1, TerminalValues DEF Told, Commitments, Rejections

LEMMA ToldCasesAfter ==
    ASSUME CandidateInv'
    PROVE  /\ phase' = "aborted" => Told' = "none"
           /\ terminal' = None /\ phase' # "aborted" => Told' = "pending"
           /\ terminal' \in Rejections \cup {"not_attempted"} => Told' = "none"
           /\ terminal' \in Commitments => Told' = "committed"
           /\ terminal' = "publication_outcome_unknown" => Told' = "unclear"
  <1>1. phase' = "aborted" => terminal' = None
    BY DEF CandidateInv, Verdicts, Concluded
  <1> QED BY <1>1, TerminalValues DEF Told, Commitments, Rejections

\* Every terminal is one of these.
LEMMA TerminalSplit ==
    ASSUME NEW t \in Terminals
    PROVE  \/ t \in Rejections \cup {"not_attempted"}
           \/ t \in Commitments
           \/ t = "publication_outcome_unknown"
  BY DEF Terminals, Answers, Rejections, Commitments

LEMMA OneShotStep ==
    ASSUME CandidateInv, CandidateInv', [Next]_vars, "build" \notin Reentrant
    PROVE  [OneShot!Next]_(OneShot!vars)
  <1> USE DEF OneShot!vars
  <1>1. CASE UNCHANGED vars
    <2>1. UNCHANGED <<terminal, phase, effect>>
      BY <1>1 DEF vars, backend
    <2> QED BY <2>1 DEF Told
  <1>2. CASE Continues
    BY <1>2 DEF Continues, Told
  <1>3. CASE GivesUp
    <2>1. CASE phase = "aborted"
      BY <1>3, <2>1 DEF GivesUp, Told
    <2>2. CASE phase # "aborted"
      BY <1>3, <2>2, ToldCases, ToldCasesAfter DEF GivesUp, OneShot!Next, OneShot!Tell
    <2> QED BY <2>1, <2>2
  <1>4. CASE Judges
    <2>1. Told = "pending" /\ UNCHANGED effect
      BY <1>4, ToldCases DEF Judges
    <2>2. Told' \in {effect, "unclear"}
      <3>1. CASE terminal' \in Rejections \cup {"not_attempted"}
        BY <1>4, <3>1, ToldCasesAfter DEF Judges
      <3>2. CASE terminal' \in Commitments
        BY <1>4, <3>2, ToldCasesAfter DEF Judges
      <3>3. CASE terminal' = "publication_outcome_unknown"
        BY <3>3, ToldCasesAfter
      <3>4. terminal' \in Terminals
        BY <1>4 DEF Judges
      <3> QED BY <3>1, <3>2, <3>3, <3>4, TerminalSplit
    <2> QED BY <2>1, <2>2 DEF OneShot!Next, OneShot!Tell
  <1>5. CASE BackendCommits /\ running
    <2>1. phase # "aborted" /\ terminal \in {None, "publication_outcome_unknown"}
      BY <1>5 DEF CandidateInv, Attempted, Concluded
    <2>2. Told \in {"pending", "unclear"}
      BY <2>1, ToldCases
    <2>3. UNCHANGED <<phase, terminal>>
      BY <1>5 DEF BackendCommits
    <2>4. UNCHANGED Told
      BY <2>3 DEF Told
    <2> QED BY <1>5, <2>2, <2>4 DEF BackendCommits, OneShot!Next, OneShot!Commit
  <1> QED BY <1>1, <1>2, <1>3, <1>4, <1>5, StepsOfTerminal DEF Revives

\* To a client whose builders do not abort it the candidate is one attempt with one
\* effect and one verdict, in which only an unknown outcome may be overtaken by the
\* effect.  A builder that aborts and returns is told of no publication, and then of one.
THEOREM CandidateIsOneShot ==
    ASSUME "build" \notin Reentrant
    PROVE  Spec => ImplementsOneShot
  <1>1. Init => OneShot!Init
    <2> SUFFICES ASSUME Init PROVE OneShot!Init
      OBVIOUS
    <2>1. Told = "pending"
      BY CandidateInitially, ToldCases DEF Init
    <2> QED BY <2>1 DEF Init, OneShot!Init
  <1>2. CandidateInv /\ CandidateInv' /\ [Next]_vars => [OneShot!Next]_(OneShot!vars)
    BY OneShotStep
  <1> QED BY <1>1, <1>2, CandidateAlwaysInv, PTL DEF Spec, ImplementsOneShot, OneShot!Spec

-----------------------------------------------------------------------------
(* Cleaning up *)

\* The callback was run when the candidate ends, and not before.
LEMMA EndingCleans ==
    ASSUME CandidateInv, NEW fails \in BOOLEAN, RunCleanup(fails), phase' \in Ended
    PROVE  CleanedInv'
  BY CleaningTypes DEF CandidateInv, CleanedInv

LEMMA GoingOnCleansNot ==
    ASSUME CleanedInv, UNCHANGED <<cleaning, gone>>, phase' \in Ended <=> phase \in Ended
    PROVE  CleanedInv'
  BY DEF CleanedInv, cleaning

\* The assumption is what the code relies on: a builder that called abort(), and a move
\* assignment over a live candidate, both break it.
LEMMA CleanedKeeps ==
    ASSUME CandidateInv, CleanedInv, [Next]_vars,
           "build" \notin Reentrant, ~Reassigned
    PROVE  CleanedInv'
  <1> USE DEF Ended
  <1>1. CASE UNCHANGED vars
    BY <1>1 DEF vars, CleanedInv, cleaning
  <1>2. ASSUME FailCandidate PROVE CleanedInv'
    BY <1>2, EndingCleans DEF FailCandidate
  <1>3. CASE Stage
    <2>1. CASE AppendFails \/ SealFails
      BY <1>2, <2>1 DEF AppendFails, SealFails
    <2>2. CASE \E t \in Tasks : AppendTask(t)
      BY <2>2, GoingOnCleansNot DEF AppendTask, Staging
    <2>3. CASE \E census \in Censuses : SealInput(census) \/ SealThrows(census)
      BY <2>3, GoingOnCleansNot DEF SealInput, SealThrows
    <2> QED BY <1>3, <2>1, <2>2, <2>3 DEF Stage
  <1>4. CASE Validate
    <2>1. CASE ExpectedFails \/ ActualFails \/ CompareFails
      BY <1>2, <2>1 DEF ExpectedFails, ActualFails, CompareFails
    <2>2. CASE \E records \in Projections : ExpectedReturns(records)
      BY <2>2, NoVerdictAssumption, GoingOnCleansNot DEF ExpectedReturns, CandidateInv, Built
    <2>3. CASE \E records \in Projections : ActualReturns(records)
      BY <2>3, GoingOnCleansNot, NoVerdictAssumption DEF ActualReturns, CandidateInv, Built
    <2>4. CASE \E records \in Projections : ActualThrows(records)
      BY <2>4, GoingOnCleansNot DEF ActualThrows
    <2>5. CASE BuildExpected \/ ExpectedThrows \/ BuildActual \/ CompareProjections
      BY <2>5, GoingOnCleansNot DEF BuildExpected, ExpectedThrows, BuildActual, CompareProjections
    <2> QED BY <1>4, <2>1, <2>2, <2>3, <2>4, <2>5 DEF Validate
  <1>5. CASE Publish
    <2>1. CASE ReserveReportTail \/ PublishOnce \/ BackendCommits
      BY <2>1, GoingOnCleansNot DEF ReserveReportTail, PublishOnce, BackendCommits
    <2>2. CASE FinishWithoutPublication
      BY <2>2, EndingCleans DEF FinishWithoutPublication
    <2>3. CASE \E answer_ \in Answers \cup {"throws"} : BackendReturns(answer_)
      BY <2>3, EndingCleans DEF BackendReturns
    <2>4. CASE ReserveFails
      BY <1>2, <2>4 DEF ReserveFails
    <2> QED BY <1>5, <2>1, <2>2, <2>3, <2>4 DEF Publish
  <1>6. CASE Conclude
    <2>1. CASE (\E n \in Sections : ReportAppend(n)) \/ ReportAppendFails
      BY <2>1, GoingOnCleansNot DEF ReportAppend, ReportAppendFails
    <2>2. CASE FinalizeReport \/ FinalizeFails
      BY <2>2, GoingOnCleansNot DEF FinalizeReport, FinalizeFails
    <2>3. ASSUME AbortEffect PROVE CleanedInv'
      BY <2>3, EndingCleans DEF AbortEffect
    <2>4. CASE Abort
      BY <2>3, <2>4 DEF Abort
    <2>5. CASE Destroy
      <3>1. CASE phase \in Ended
        BY <2>5, <3>1 DEF Destroy, CleanedInv, cleaning
      <3> QED BY <2>3, <2>5, <3>1 DEF Destroy
    <2> QED BY <1>6, <2>1, <2>2, <2>4, <2>5 DEF Conclude, AssignOver
  <1> QED BY <1>1, <1>3, <1>4, <1>5, <1>6 DEF Next

LEMMA CleanedInitially ==
    ASSUME Init
    PROVE  CleanedInv
  BY DEF Init, CleanedInv, Ended

\* The staging is cleaned up once, and exactly at the end of the candidate.
THEOREM CleanedAlwaysOnce ==
    ASSUME "build" \notin Reentrant, ~Reassigned
    PROVE  Spec => []CleanedExactlyOnce
  <1>1. Init => CleanedInv
    BY CleanedInitially
  <1>2. CandidateInv /\ CleanedInv /\ [Next]_vars => CleanedInv'
    BY CleanedKeeps
  <1>3. Spec => []CleanedInv
    BY <1>1, <1>2, CandidateAlwaysInv, PTL DEF Spec
  <1>4. CandidateInv /\ CleanedInv => CleanedExactlyOnce
    BY DEF CandidateInv, CleanedInv, Cleanups, CleanedExactlyOnce
  <1> QED BY <1>3, <1>4, CandidateAlwaysInv, PTL

-----------------------------------------------------------------------------
(* The bridge and its candidate *)

\* The callbacks of the bridge do not call the candidate, and it is not assigned to.
LEMMA BridgeLeavesAlone ==
    "build" \notin Reentrant /\ "publish" \notin Reentrant /\ ~Reassigned
  BY WriterAssumption

\* Each step of the publication is one of the candidate, or none.
LEMMA WriterSteps ==
    ASSUME [WriterNext]_writerVars
    PROVE  [Next]_vars
  <1>1. CASE UNCHANGED writerVars
    BY <1>1 DEF writerVars
  <1>2. CASE Preflight \/ PublishStale \/ PublishFails \/ Answer \/ OtherPublishes
    BY <1>2 DEF Preflight, PublishStale, PublishFails, Answer, OtherPublishes
  <1>3. CASE Replay \/ Seal
    BY <1>3, WriterAssumption DEF Replay, Seal, Step, Next, Stage
  <1>4. CASE Expect \/ ReadBack \/ Compare
    BY <1>4, WriterAssumption DEF Expect, ReadBack, Compare, Call, Step, Next, Validate
  <1>5. CASE Reserve \/ Prefix
    BY <1>5 DEF Reserve, Prefix, Step, Next, Publish, Conclude
  <1>6. CASE AbortCandidate \/ Attempt
    BY <1>6 DEF AbortCandidate, Attempt, Next, Publish, Conclude
  <1>7. CASE PublishCommits \/ CommitUnclear \/ CommitThenThrows
    BY <1>7 DEF PublishCommits, CommitUnclear, CommitThenThrows, Next, Publish
  <1>8. ASSUME NEW verdict, AnswerCandidate(verdict), verdict \in Answers \cup {"throws"}
        PROVE  [Next]_vars
    BY <1>8 DEF AnswerCandidate, Next, Publish
  <1>9. CASE Refused \/ Verify \/ Throws
    <2>1. OutcomeOf(publishError) \in Answers
      BY DEF OutcomeOf, Answers
    <2>2. {"committed_verified", "committed_unverified"} \subseteq Answers
      BY DEF Answers
    <2> QED BY <1>8, <1>9, <2>1, <2>2 DEF Refused, Verify, Throws
  <1>10. CASE Outcome \/ Finalize \/ Return
    BY <1>10 DEF Outcome, Finalize, Return, Next, Conclude
  <1> QED
    BY <1>1, <1>2, <1>3, <1>4, <1>5, <1>6, <1>7, <1>9, <1>10 DEF WriterNext, Bridge

\* The bridge is a client of the candidate.
THEOREM WriterImplementsCandidate == WriterSpec => ImplementsCandidate
  <1>1. WriterInit => Init
    BY DEF WriterInit
  <1>2. [WriterNext]_writerVars => [Next]_vars
    BY WriterSteps
  <1> QED BY <1>1, <1>2, PTL DEF WriterSpec, ImplementsCandidate, Spec

-----------------------------------------------------------------------------
(* The invariant of the publication *)

LEMMA CodeValues ==
    /\ None \notin Codes \cup {"ok", "error", "success", Mismatch, Missing, BridgeError}
    /\ Refusals \subseteq Codes /\ Opaque \in Codes /\ StaleCode \in Codes
    /\ Opaque \notin Refusals \cup {StaleCode}
    /\ "store.publication-conflict" \notin Refusals \cup {Opaque}
    /\ Codes = Refusals \cup {Opaque, "store.publication-conflict", "store.publish-stale-parent"}
  BY NoCodeAssumption DEF Codes, Refusals, Opaque, StaleCode

LEMMA WriterInitially ==
    ASSUME WriterInit
    PROVE  WriterInv
  <1>1. CandidateInv /\ CleanedInv
    BY CandidateInitially, CleanedInitially DEF WriterInit
  <1>2. WriterTypeOK
    BY <1>1 DEF WriterInit, WriterTypeOK, CandidateInv
  <1>3. Placed /\ Recorded /\ Answered
    BY CodeValues, NoVerdictAssumption
       DEF WriterInit, Init, Placed, Recorded, Answered, Finishing, PublishesWhileValidating,
           EmptySpool, Terminals, Answers
  <1> QED BY <1>1, <1>2, <1>3 DEF WriterInv

\* While the bridge drives the candidate to its publication.
Driving == {"replay", "seal", "expected", "expecting", "actual", "reading", "compare",
            "report", "prefix", "publish"}

\* One call, which succeeds or leads to abort(), reports nothing yet, and cancels the
\* writer only with the candidate.
LEMMA DrivingKeeps ==
    ASSUME WriterInv, CandidateInv', CleanedInv', Placed',
           at \in Driving, at' \in Driving \cup {"abort"},
           Cancelling, UNCHANGED <<head, answering, effect, terminal>>,
           expected' = expected \/ expected'.records = Claimed
    PROVE  WriterInv'
  <1>1. /\ publishError = None /\ ~published /\ ~postError /\ bridged = None /\ answer = None
        /\ writer = "validating" /\ ~cleanup.called /\ terminal = None
    <2>1. phase \notin Concluded \cup {"publication_attempted_once"}
      BY DEF WriterInv, Placed, Driving, Concluded
    <2>2. effect = "none" /\ terminal = None
      BY <2>1, NotAttempted DEF WriterInv
    <2> QED
      BY <2>2 DEF WriterInv, Recorded, Answered, PublishesWhileValidating, Driving, Finishing
  <1>2. /\ publishError' = None /\ ~published' /\ ~postError' /\ bridged' = None
        /\ answer' = None /\ effect' = effect /\ terminal' = None
    BY <1>1 DEF answering
  <1>3. writer' \in {"validating", "rolled_back"} /\ ~cleanup'.failed
    BY <1>1 DEF Cancelling
  <1>4. WriterTypeOK'
    <2>1. TypeOK'
      BY DEF CandidateInv
    <2>2. UNCHANGED <<head, publishError, postError, published, bridged>> /\ WriterTypeOK
      BY DEF answering, WriterInv
    <2> QED BY <1>3, <2>1, <2>2 DEF WriterTypeOK, Driving
  <1>5. at' \in Driving => ~cleanup'.called /\ writer' = "validating"
    <2>1. ASSUME at' \in Driving PROVE ~cleanup'.called
      BY <2>1 DEF CleanedInv, Placed, Driving, Ended
    <2>2. ASSUME at' \in Driving PROVE cleanups' = cleanups
      BY <1>1, <2>1, <2>2 DEF CandidateInv, Cleanups, WriterInv
    <2> QED BY <1>1, <2>1, <2>2 DEF Cancelling
  <1>6. Recorded'
    <2>1. PublishesWhileValidating'
      BY <1>5 DEF PublishesWhileValidating, Driving
    <2>2. expected'.sealed => expected'.records = Claimed
      BY DEF WriterInv, Recorded
    <2> QED
      BY <1>2, <1>3, <2>1, <2>2, CodeValues, NoVerdict
         DEF Recorded, Driving, Finishing
  <1>7. Answered'
    BY <1>2, CodeValues DEF Answered, Driving, Finishing
  <1> QED BY <1>4, <1>6, <1>7 DEF WriterInv

LEMMA DrivingSteps ==
    ASSUME WriterInv, CandidateInv', CleanedInv',
           Replay \/ Seal \/ Expect \/ ReadBack \/ Compare \/ Reserve \/ Prefix
    PROVE  WriterInv'
  <1> USE DEF Step, staged, backend
  <1>1. ASSUME FailCandidate
        PROVE  phase' = "aborted" /\ UNCHANGED <<effect, terminal, expected>>
    BY <1>1 DEF FailCandidate
  <1>2. CASE Replay
    <2>1. Placed' /\ UNCHANGED <<effect, terminal, expected>>
      BY <1>1, <1>2 DEF Replay, AppendTask, AppendFails, FailCandidate, Placed, Concluded
    <2> QED BY <1>2, <2>1, DrivingKeeps DEF Replay, Driving
  <1>3. CASE Seal
    <2>1. Placed' /\ UNCHANGED <<effect, terminal, expected>>
      BY <1>1, <1>3 DEF Seal, SealInput, SealFails, FailCandidate, Placed, Concluded
    <2> QED BY <1>3, <2>1, DrivingKeeps DEF Seal, Driving
  <1>4. CASE Expect
    <2>1. CASE Call("expected", "expecting", BuildExpected)
      <3>1. Placed' /\ UNCHANGED <<effect, terminal, expected>> /\ Cancelling
        BY <2>1 DEF Call, BuildExpected, Placed, Concluded, Cancelling, cleaning, WriterInv,
                    Recorded
      <3> QED BY <2>1, <3>1, DrivingKeeps DEF Call, Driving
    <2>2. CASE Step("expecting", "actual", ExpectedReturns(Claimed), ExpectedFails)
      <3>1. /\ Placed' /\ UNCHANGED <<effect, terminal>>
            /\ expected' = expected \/ expected'.records = Claimed
        BY <1>1, <2>2 DEF ExpectedReturns, ExpectedFails, FailCandidate, Placed, Concluded
      <3> QED BY <2>2, <3>1, DrivingKeeps DEF Driving
    <2> QED BY <1>4, <2>1, <2>2 DEF Expect
  <1>5. CASE ReadBack
    <2>1. CASE Call("actual", "reading", BuildActual)
      <3>1. Placed' /\ UNCHANGED <<effect, terminal, expected>> /\ Cancelling
        BY <2>1 DEF Call, BuildActual, Placed, Concluded, Cancelling, cleaning, WriterInv,
                    Recorded
      <3> QED BY <2>1, <3>1, DrivingKeeps DEF Call, Driving
    <2>2. CASE Step("reading", "compare",
                    \E records \in Projections : ActualReturns(records), ActualFails)
      <3>1. Placed' /\ UNCHANGED <<effect, terminal, expected>>
        BY <1>1, <2>2 DEF ActualReturns, ActualFails, FailCandidate, Placed, Concluded
      <3> QED BY <2>2, <3>1, DrivingKeeps DEF Driving
    <2> QED BY <1>5, <2>1, <2>2 DEF ReadBack
  <1>6. CASE Compare
    <2>1. Placed' /\ UNCHANGED <<effect, terminal, expected>>
      BY <1>1, <1>6 DEF Compare, CompareProjections, CompareFails, FailCandidate, Placed, Concluded
    <2> QED BY <1>6, <2>1, DrivingKeeps DEF Compare, Driving
  <1>7. CASE Reserve
    <2>1. at = "report" /\ phase = "validation_sealed"
      BY <1>7 DEF Reserve, WriterInv, Placed
    <2>2. Placed' /\ UNCHANGED <<effect, terminal, expected>>
      BY <1>7, <2>1
         DEF Reserve, ReserveReportTail, ReserveFails, FailCandidate, Placed, Concluded, vars
    <2> QED BY <1>7, <2>2, DrivingKeeps DEF Reserve, Driving
  <1>8. CASE Prefix
    <2>1. at = "prefix" /\ phase = "report_tail_reserved"
      BY <1>8 DEF Prefix, WriterInv, Placed
    <2>2. Placed' /\ UNCHANGED <<effect, terminal, expected>>
      BY <1>8, <2>1 DEF Prefix, ReportAppend, ReportAppendFails, Placed, Concluded, vars
    <2> QED BY <1>8, <2>2, DrivingKeeps DEF Prefix, Driving
  <1> QED BY <1>2, <1>3, <1>4, <1>5, <1>6, <1>7, <1>8

\* Nothing the invariant speaks of changes, but the head.
LEMMA HeadMoves ==
    ASSUME WriterInv, UNCHANGED <<vars, at, writer, answering>>, head' \in {head, "other"}
    PROVE  WriterInv'
  <1> USE DEF vars, staged, backend, cleaning, answering
  <1>1. CandidateInv'
    BY CandidateKeeps DEF WriterInv
  <1>2. CleanedInv' /\ Placed'
    BY DEF WriterInv, CleanedInv, Placed
  <1>3. WriterTypeOK'
    BY <1>1 DEF WriterInv, WriterTypeOK, CandidateInv
  <1>4. Recorded'
    BY DEF WriterInv, Recorded, PublishesWhileValidating
  <1>5. Answered'
    BY DEF WriterInv, Answered, Settled, Precedence
  <1> QED BY <1>1, <1>2, <1>3, <1>4, <1>5 DEF WriterInv

LEMMA PreflightKeeps ==
    ASSUME WriterInv, CandidateInv', CleanedInv', Preflight
    PROVE  WriterInv'
  <1> USE DEF Preflight, vars, staged, backend, cleaning
  <1>1. Placed'
    BY DEF WriterInv, Placed
  <1>2. WriterTypeOK'
    BY DEF WriterInv, WriterTypeOK, CandidateInv
  <1>3. Recorded'
    BY DEF WriterInv, Recorded, PublishesWhileValidating, Finishing
  <1>4. Answered'
    BY CodeValues DEF WriterInv, Answered, Finishing
  <1> QED BY <1>1, <1>2, <1>3, <1>4 DEF WriterInv

\* Before the attempt the publication has no error, no handle and no effect.
LEMMA UntilAttempt ==
    ASSUME WriterInv, at \notin Finishing \cup {"refused"}
    PROVE  /\ publishError = None /\ ~postError /\ bridged = None /\ answer = None
           /\ terminal = None
  <1>1. at \in Driving \cup {"preflight", "abort", "attempt", "thrown", "verify"}
    BY DEF WriterInv, WriterTypeOK, Driving, Finishing
  <1>2. phase \notin Concluded
    BY <1>1 DEF WriterInv, Placed, Driving, Concluded
  <1>3. terminal = None
    BY <1>2 DEF WriterInv, CandidateInv, Verdicts
  <1>4. ~postError
    BY <1>3, TerminalValues DEF WriterInv, Recorded, Commitments
  <1>5. publishError = None
    BY DEF WriterInv, Recorded
  <1>6. bridged = None /\ answer = None
    BY DEF WriterInv, Answered, Finishing
  <1> QED BY <1>3, <1>4, <1>5, <1>6

LEMMA AbortingKeeps ==
    ASSUME WriterInv, CandidateInv', CleanedInv', AbortCandidate
    PROVE  WriterInv'
  <1> USE DEF AbortCandidate
  <1>1. /\ at = "abort" /\ at' = "return" /\ bridged' = "error"
        /\ phase \notin Concluded \cup {"publication_attempted_once"}
        /\ UNCHANGED <<head, publishError, postError, published, answer>>
    BY DEF WriterInv, Placed
  <1>2. phase' = "aborted" /\ UNCHANGED <<terminal, effect, expected>>
    BY <1>1 DEF Abort, AbortEffect, Concluded, backend, staged
  <1>3. Placed'
    BY <1>1, <1>2 DEF Placed, Ended
  <1>4. writer' \in {writer, "rolled_back"} /\ ~cleanup'.failed
    BY DEF Cancelling
  <1>5. WriterTypeOK'
    BY <1>1, <1>4 DEF WriterInv, WriterTypeOK, CandidateInv
  <1>6. Recorded'
    BY <1>1, <1>2, <1>4 DEF WriterInv, Recorded, PublishesWhileValidating, Finishing
  <1>7. Answered'
    BY <1>1, CodeValues DEF WriterInv, Answered, Finishing
  <1> QED BY <1>3, <1>5, <1>6, <1>7 DEF WriterInv

LEMMA AttemptKeeps ==
    ASSUME WriterInv, CandidateInv', CleanedInv', Attempt
    PROVE  WriterInv'
  <1> USE DEF Attempt, PublishOnce, staged, cleaning, answering
  <1>1. at = "publish" /\ at' = "attempt" /\ phase = "report_tail_reserved" /\ effect = "none"
    BY NotAttempted DEF WriterInv, Placed, Concluded
  <1>2. Placed'
    BY <1>1 DEF Placed
  <1>3. WriterTypeOK'
    BY <1>1 DEF WriterInv, WriterTypeOK, CandidateInv
  <1>4. Recorded'
    BY <1>1 DEF WriterInv, Recorded, PublishesWhileValidating, Finishing
  <1>5. Answered'
    BY <1>1, CodeValues DEF WriterInv, Answered, Finishing
  <1> QED BY <1>2, <1>3, <1>4, <1>5 DEF WriterInv

\* publish(), which refuses, commits, or does not tell which.
LEMMA StoreKeeps ==
    ASSUME WriterInv, CandidateInv', CleanedInv',
           PublishStale \/ PublishFails \/ PublishCommits \/ CommitUnclear \/ CommitThenThrows
    PROVE  WriterInv'
  <1> USE DEF vars, staged, backend, cleaning, answering
  <1>1. /\ at = "attempt" /\ phase = "publication_attempted_once" /\ effect = "none"
        /\ publishError = None /\ ~postError /\ bridged = None /\ answer = None
        /\ terminal = None /\ ~published /\ ~cleanup.failed
        /\ expected.sealed => expected.records = Claimed
    <2>1. at = "attempt"
      BY DEF PublishStale, PublishFails, PublishCommits, CommitUnclear, CommitThenThrows,
             Publishing
    <2>2. effect = "none" /\ phase = "publication_attempted_once"
      BY <2>1 DEF WriterInv, Placed, Recorded
    <2> QED BY <2>1, <2>2, UntilAttempt DEF WriterInv, Recorded, Finishing
  <1>2. /\ UNCHANGED <<phase, terminal, cleanup, cleanups, expected, postError, bridged, answer>>
        /\ at' \in {"refused", "verify", "thrown"}
        /\ head' \in {head, "ours"}
        /\ writer' \in {writer, "committed", "rejected", "rolled_back"}
    BY DEF PublishStale, PublishFails, PublishCommits, CommitUnclear, CommitThenThrows,
           BackendCommits
  <1>3. /\ publishError' \in Codes \cup {None}
        /\ at' = "refused" <=> publishError' # None
        /\ publishError' \in Codes \ {Opaque} => effect' = "none"
        /\ at' = "verify" <=> published'
        /\ published' \in BOOLEAN
        /\ published' => effect' = "committed"
    <2>1. CASE PublishStale
      BY <1>1, <2>1, CodeValues DEF PublishStale, WriterInv, WriterTypeOK
    <2>2. CASE PublishFails
      BY <1>1, <2>2, CodeValues DEF PublishFails, WriterInv, WriterTypeOK
    <2>3. CASE PublishCommits
      BY <1>1, <2>3, CodeValues DEF PublishCommits, BackendCommits
    <2>4. CASE CommitUnclear
      BY <1>1, <2>4, CodeValues DEF CommitUnclear, WriterInv, WriterTypeOK
    <2>5. CASE CommitThenThrows
      BY <1>1, <2>5, CodeValues DEF CommitThenThrows, WriterInv, WriterTypeOK
    <2> QED BY <2>1, <2>2, <2>3, <2>4, <2>5
  <1>4. Placed'
    BY <1>1, <1>2 DEF Placed
  <1>5. WriterTypeOK'
    BY <1>2, <1>3 DEF WriterInv, WriterTypeOK, CandidateInv
  <1>6. Recorded'
    BY <1>1, <1>2, <1>3, CodeValues, NoVerdict
       DEF Recorded, PublishesWhileValidating, Finishing
  <1>7. Answered'
    BY <1>1, <1>2, CodeValues DEF Answered, Finishing
  <1> QED BY <1>4, <1>5, <1>6, <1>7 DEF WriterInv

\* The candidate takes the answer of an attempt that was not aborted.
LEMMA AnswerTaken ==
    ASSUME WriterInv, NEW verdict \in Answers \cup {"throws"}, AnswerCandidate(verdict),
           phase = "publication_attempted_once"
    PROVE  /\ phase' = "publication_terminal"
           /\ terminal' = IF verdict \in Terminals \ {"not_attempted"}
                          THEN verdict ELSE "publication_outcome_unknown"
           /\ UNCHANGED <<effect, expected, head, publishError, published, answer>>
           /\ ~cleanup'.failed /\ writer' \in {writer, "rolled_back"}
  BY DEF AnswerCandidate, BackendReturns, Verdict, Cancelling, staged

LEMMA OutcomeKeeps ==
    ASSUME WriterInv, CandidateInv', CleanedInv', Refused \/ Verify \/ Throws
    PROVE  WriterInv'
  <1>1. /\ at \in {"refused", "attempt", "thrown", "verify"} /\ at' = "outcome"
        /\ phase = "publication_attempted_once" /\ terminal = None
        /\ bridged = None /\ answer = None /\ postError = FALSE
    <2>1. at \in {"refused", "attempt", "thrown", "verify"} /\ at' = "outcome"
      BY DEF Refused, Verify, Throws
    <2>2. phase = "publication_attempted_once"
      BY <2>1 DEF WriterInv, Placed
    <2>3. terminal = None
      BY <2>2 DEF WriterInv, CandidateInv, Verdicts, Concluded
    <2>4. postError = FALSE
      BY <2>3, TerminalValues DEF WriterInv, WriterTypeOK, Recorded, Commitments
    <2>5. bridged = None /\ answer = None
      BY <2>1 DEF WriterInv, Answered, Finishing
    <2> QED BY <2>1, <2>2, <2>3, <2>4, <2>5
  <1>2. /\ phase' = "publication_terminal"
        /\ UNCHANGED <<effect, expected, head, publishError, published, answer>>
        /\ ~cleanup'.failed /\ writer' \in {writer, "rolled_back"}
    <2>1. OutcomeOf(publishError) \in Answers \cup {"throws"}
      BY DEF OutcomeOf, Answers
    <2>2. {"committed_verified", "committed_unverified"} \subseteq Answers
      BY DEF Answers
    <2> QED BY <1>1, <2>1, <2>2, AnswerTaken DEF Refused, Verify, Throws
  <1>3. /\ publishError = "store.publication-conflict" <=> terminal' = "rejected_stale"
        /\ postError' \in BOOLEAN /\ (postError' => published)
        /\ postError' <=> terminal' = "committed_unverified"
        /\ bridged' \in {None, "error"}
        /\ bridged' = "error" \/ publishError # None
              \/ (published /\ (postError' \/ terminal' = "committed_verified"))
    <2>1. CASE Refused
      <3>1. publishError # None /\ UNCHANGED <<postError, bridged>>
        BY <2>1 DEF Refused, WriterInv, Recorded
      <3>2. terminal' = OutcomeOf(publishError)
        <4>1. /\ OutcomeOf(publishError) \in Answers
              /\ OutcomeOf(publishError) \in Terminals \ {"not_attempted"}
          BY DEF OutcomeOf, Answers, Terminals
        <4> QED BY <1>1, <2>1, <4>1, AnswerTaken DEF Refused
      <3> QED BY <1>1, <3>1, <3>2 DEF OutcomeOf
    <2>2. CASE Verify
      <3>1. at = "verify" /\ published /\ publishError = None /\ UNCHANGED bridged
        BY <2>2 DEF Verify, WriterInv, Recorded
      <3>2. CASE AnswerCandidate("committed_verified") /\ UNCHANGED postError
        <4>1. "committed_verified" \in Answers
              /\ "committed_verified" \in Terminals \ {"not_attempted"}
          BY DEF Answers, Terminals
        <4>2. terminal' = "committed_verified"
          BY <1>1, <3>2, <4>1, AnswerTaken
        <4> QED BY <1>1, <3>1, <3>2, <4>2, CodeValues
      <3>3. CASE AnswerCandidate("committed_unverified") /\ postError' = TRUE
        <4>1. "committed_unverified" \in Answers
              /\ "committed_unverified" \in Terminals \ {"not_attempted"}
          BY DEF Answers, Terminals
        <4>2. terminal' = "committed_unverified"
          BY <1>1, <3>3, <4>1, AnswerTaken
        <4> QED BY <1>1, <3>1, <3>3, <4>2, CodeValues
      <3> QED BY <2>2, <3>2, <3>3 DEF Verify
    <2>3. CASE Throws
      <3>1. publishError = None
        BY <2>3 DEF Throws, WriterInv, Recorded, Finishing
      <3>2. terminal' = "publication_outcome_unknown"
        <4>1. "throws" \notin Terminals
          BY DEF Terminals, Answers
        <4> QED BY <1>1, <2>3, <4>1, AnswerTaken DEF Throws
      <3> QED BY <1>1, <2>3, <3>1, <3>2, CodeValues DEF Throws
    <2> QED BY <2>1, <2>2, <2>3
  <1>4. Placed'
    BY <1>1, <1>2 DEF Placed
  <1>5. WriterTypeOK'
    BY <1>1, <1>2, <1>3 DEF WriterInv, WriterTypeOK, CandidateInv
  <1>6. Recorded'
    BY <1>1, <1>2, <1>3 DEF WriterInv, Recorded, PublishesWhileValidating, Finishing
  <1>7. Answered'
    BY <1>1, <1>2, <1>3, CodeValues DEF Answered, Settled, Finishing
  <1> QED BY <1>4, <1>5, <1>6, <1>7 DEF WriterInv

\* After the answer only the report, the bridge's result and the object change.
LEMMA FinishingKeeps ==
    ASSUME WriterInv, CandidateInv', CleanedInv',
           at \in {"outcome", "finalize", "return"}, at' \in {"finalize", "return", "answer"},
           UNCHANGED <<terminal, effect, expected, cleaning>>,
           UNCHANGED <<writer, head, publishError, postError, published, answer>>,
           at' = "finalize" =>
               at = "outcome" /\ phase' = "publication_terminal" /\ bridged' # "ok",
           phase' \in Ended, bridged' \in {None, "ok", "error"},
           bridged' = "error" \/ bridged' = bridged \/ (bridged # "error" /\ at = "finalize"),
           bridged' = "ok" => report'.finalized
    PROVE  WriterInv'
  <1> USE DEF cleaning
  <1>1. Placed'
    BY DEF Placed
  <1>2. WriterTypeOK'
    BY DEF WriterInv, WriterTypeOK, CandidateInv
  <1>3. Recorded'
    BY DEF WriterInv, Recorded, PublishesWhileValidating, Finishing
  <1>4. Answered'
    <2>1. /\ at \in {"outcome", "finalize"} => bridged # "ok" /\ (bridged = "error" \/ Settled)
          /\ bridged = "ok" => Settled
          /\ answer = None
      BY DEF WriterInv, Answered
    <2>2. Settled' <=> Settled
      BY DEF Settled
    <2>3. answer' = None /\ at' # "done" /\ at' \in Finishing
      BY <2>1 DEF Finishing
    <2>4. bridged' = "ok" => Settled'
      BY <2>1, <2>2
    <2>5. at' = "finalize" => bridged' = "error" \/ Settled'
      BY <2>1, <2>2
    <2> QED BY <2>3, <2>4, <2>5 DEF Answered
  <1> QED BY <1>1, <1>2, <1>3, <1>4 DEF WriterInv

LEMMA ReportingSteps ==
    ASSUME WriterInv, CandidateInv', CleanedInv', Outcome \/ Finalize \/ Return
    PROVE  WriterInv'
  <1> USE DEF staged, backend
  <1>1. at \in {"outcome", "finalize"} => phase = "publication_terminal" /\ bridged # "ok"
    BY DEF WriterInv, Placed, Answered
  <1>2. bridged \in {None, "ok", "error"}
    BY DEF WriterInv, WriterTypeOK
  <1>3. CASE Outcome
    <2>1. at = "outcome" /\ UNCHANGED <<phase, terminal, effect, expected, cleaning>>
      BY <1>3 DEF Outcome, ReportAppend, ReportAppendFails, vars
    <2>2. at' \in {"finalize", "return"} /\ (bridged' = "error" \/ bridged' = bridged)
      BY <1>3 DEF Outcome
    <2>3. bridged' # "ok"
      BY <1>1, <2>1, <2>2
    <2> QED BY <1>1, <1>2, <1>3, <2>1, <2>2, <2>3, FinishingKeeps DEF Outcome, Ended
  <1>4. CASE Finalize
    <2>1. /\ at = "finalize" /\ at' = "return" /\ phase' \in Ended
          /\ UNCHANGED <<terminal, effect, expected, cleaning>>
      BY <1>4 DEF Finalize, FinalizeReport, FinalizeFails, Ended
    <2>2. CASE FinalizeFails /\ bridged' = "error"
      BY <1>4, <2>1, <2>2, FinishingKeeps DEF Finalize
    <2>3. CASE FinalizeReport /\ bridged' = IF bridged = "error" THEN "error" ELSE "ok"
      <3>1. report'.finalized
        <4>1. report \in [reserved : BOOLEAN, finalized : BOOLEAN, failed : BOOLEAN,
                          bytes : 0 .. ReportTailBytes, terminal : Terminals \cup {None}]
          BY DEF WriterInv, CandidateInv, TypeOK
        <4>2. report' = [report EXCEPT !.finalized = TRUE, !.terminal = terminal]
          BY <2>3 DEF FinalizeReport
        <4> QED BY <4>1, <4>2
      <3> QED BY <1>4, <2>1, <2>3, <3>1, FinishingKeeps DEF Finalize
    <2> QED BY <1>4, <2>2, <2>3 DEF Finalize
  <1>5. CASE Return
    <2>1. phase \in Ended
      BY <1>5 DEF Return, WriterInv, Placed
    <2>2. UNCHANGED <<phase, terminal, effect, expected, report, cleaning>>
      BY <1>5, <2>1 DEF Return, Destroy
    <2>3. UNCHANGED <<writer, head, answering>>
      BY <1>5, <2>2 DEF Return, Cancelling, cleaning
    <2>4. bridged = "ok" => report.finalized
      BY DEF WriterInv, Answered
    <2> QED
      BY <1>2, <1>5, <2>1, <2>2, <2>3, <2>4, FinishingKeeps DEF Return, answering
  <1> QED BY <1>3, <1>4, <1>5

LEMMA AnswerKeeps ==
    ASSUME WriterInv, CandidateInv', CleanedInv', Answer
    PROVE  WriterInv'
  <1> USE DEF Answer, vars, staged, backend, cleaning
  <1>1. Placed'
    BY DEF Placed
  <1>2. WriterTypeOK'
    BY DEF WriterInv, WriterTypeOK, CandidateInv
  <1>3. Recorded'
    BY DEF WriterInv, Recorded, PublishesWhileValidating, Finishing
  <1>4. Answered'
    BY DEF WriterInv, Answered, Finishing, Settled, Precedence
  <1> QED BY <1>1, <1>2, <1>3, <1>4 DEF WriterInv

LEMMA WriterKeeps ==
    ASSUME WriterInv, [WriterNext]_writerVars
    PROVE  WriterInv'
  <1>1. CandidateInv' /\ CleanedInv'
    BY WriterSteps, CandidateKeeps, CleanedKeeps, BridgeLeavesAlone DEF WriterInv
  <1>2. CASE UNCHANGED writerVars \/ OtherPublishes
    BY <1>2, HeadMoves DEF writerVars, OtherPublishes
  <1>3. CASE Preflight
    BY <1>1, <1>3, PreflightKeeps
  <1>4. CASE Replay \/ Seal \/ Expect \/ ReadBack \/ Compare \/ Reserve \/ Prefix
    BY <1>1, <1>4, DrivingSteps
  <1>5. CASE AbortCandidate
    BY <1>1, <1>5, AbortingKeeps
  <1>6. CASE Attempt
    BY <1>1, <1>6, AttemptKeeps
  <1>7. CASE PublishStale \/ PublishFails \/ PublishCommits \/ CommitUnclear \/ CommitThenThrows
    BY <1>1, <1>7, StoreKeeps
  <1>8. CASE Refused \/ Verify \/ Throws
    BY <1>1, <1>8, OutcomeKeeps
  <1>9. CASE Outcome \/ Finalize \/ Return
    BY <1>1, <1>9, ReportingSteps
  <1>10. CASE Answer
    BY <1>1, <1>10, AnswerKeeps
  <1> QED
    BY <1>2, <1>3, <1>4, <1>5, <1>6, <1>7, <1>8, <1>9, <1>10 DEF WriterNext, Bridge

\* The bridge, the writer, the errors and the candidate stay in step.
THEOREM WriterAlwaysInv == WriterSpec => []WriterInv
  <1>1. WriterInit => WriterInv
    BY WriterInitially
  <1>2. WriterInv /\ [WriterNext]_writerVars => WriterInv'
    BY WriterKeeps
  <1> QED BY <1>1, <1>2, PTL DEF WriterSpec

-----------------------------------------------------------------------------
(* What the caller can rely on *)

\* Types, of the candidate as well.
THEOREM WriterTypeCorrect == WriterSpec => []WriterTypeOK
  <1>1. WriterInv => WriterTypeOK
    BY DEF WriterInv
  <1> QED BY <1>1, WriterAlwaysInv, PTL

\* The writer is not cancelled by the cleanup of a candidate it still publishes for.
THEOREM AlwaysPublishesWhileValidating == WriterSpec => []PublishesWhileValidating
  <1>1. WriterInv => PublishesWhileValidating
    BY DEF WriterInv, Recorded
  <1> QED BY <1>1, WriterAlwaysInv, PTL

\* What each answer stands for.
LEMMA AnswerCases ==
    ASSUME WriterInv, answer # None
    PROVE  \/ publishError # None /\ answer = publishError
           \/ publishError = None /\ postError /\ answer = Mismatch
           \/ /\ publishError = None /\ ~postError
              /\ bridged # "ok" /\ answer = BridgeError
           \/ /\ publishError = None /\ ~postError /\ bridged = "ok" /\ published
              /\ answer = "success"
  <1>1. answer = Precedence
    BY DEF WriterInv, Answered
  <1>2. bridged = "ok" /\ publishError = None => published
    BY DEF WriterInv, Answered, Settled
  <1> QED BY <1>1, <1>2 DEF Precedence

\* The answers are different strings.
LEMMA AnswersDiffer ==
    /\ \A code \in Codes : code \notin {"success", Mismatch, Missing, BridgeError}
    /\ "success" \notin {Mismatch, Missing, BridgeError}
    /\ Mismatch \notin {Missing, BridgeError} /\ Missing # BridgeError
    /\ None \notin {"success", Mismatch, Missing, BridgeError}
  BY NoCodeAssumption DEF Codes, Refusals, Opaque, Mismatch, Missing, BridgeError

\* The errors of publish() are codes.
LEMMA ErrorIsCode ==
    ASSUME WriterInv, publishError # None
    PROVE  publishError \in Codes
  BY DEF WriterInv, WriterTypeOK

\* Success is told of a publication that is durable, checked, reported and cleaned up.
THEOREM SuccessAlwaysVerified == WriterSpec => []SuccessIsVerified
  <1>1. WriterInv => SuccessIsVerified
    <2> SUFFICES ASSUME WriterInv, answer = "success"
                 PROVE  /\ effect = "committed" /\ published
                        /\ expected.records = Claimed /\ actual.records = Claimed
                        /\ terminal = "committed_verified"
                        /\ report.finalized /\ report.terminal = "committed_verified"
                        /\ cleanup.called /\ ~cleanup.failed
      BY DEF SuccessIsVerified
    <2>1. publishError = None /\ ~postError /\ bridged = "ok" /\ published
      BY AnswerCases, AnswersDiffer, ErrorIsCode
    <2>2. terminal = "committed_verified" /\ report.finalized /\ phase \in Ended
      BY <2>1 DEF WriterInv, Answered, Settled
    <2>3. effect = "committed" /\ ~cleanup.failed
      BY <2>1 DEF WriterInv, Recorded
    <2>4. report.terminal = "committed_verified" /\ cleanup.called
      BY <2>2 DEF WriterInv, CandidateInv, ReportAgrees, CleanedInv
    <2>5. PublishedWasProven /\ calls = 1
      BY <2>3, InvProves DEF WriterInv, CandidateInv, Attempted
    <2>6. expected.records = Claimed /\ actual.records = expected.records
      BY <2>5 DEF PublishedWasProven, WriterInv, Recorded
    <2> QED BY <2>1, <2>2, <2>3, <2>4, <2>6
  <1> QED BY <1>1, WriterAlwaysInv, PTL

\* Every answer is the candidate's terminal: a conflict and a failed check are told exactly
\* when the candidate ended so.
THEOREM AnswerAlwaysExplained == WriterSpec => []AnswerIsExplained
  <1>1. WriterInv => AnswerIsExplained
    <2> SUFFICES ASSUME WriterInv, answer # None
                 PROVE  AnswerIsExplained
      BY AnswersDiffer, CodeValues DEF AnswerIsExplained, Codes
    <2>1. answer # Missing
      BY AnswerCases, AnswersDiffer, ErrorIsCode
    <2>2. answer = Mismatch <=> terminal = "committed_unverified"
      <3>1. postError <=> terminal = "committed_unverified"
        BY DEF WriterInv, Recorded
      <3>2. postError => publishError = None
        BY DEF WriterInv, Recorded
      <3> QED BY <3>1, <3>2, AnswerCases, AnswersDiffer, ErrorIsCode
    <2>3. answer = "store.publication-conflict" <=> terminal = "rejected_stale"
      <3>1. at = "done"
        BY DEF WriterInv, Answered
      <3>2. publishError = "store.publication-conflict" <=> terminal = "rejected_stale"
        BY <3>1 DEF WriterInv, Recorded
      <3>3. "store.publication-conflict" \in Codes /\ "store.publication-conflict" # None
        BY CodeValues
      <3> QED BY <3>2, <3>3, AnswerCases, AnswersDiffer
    <2> QED BY <2>1, <2>2, <2>3 DEF AnswerIsExplained
  <1> QED BY <1>1, WriterAlwaysInv, PTL

-----------------------------------------------------------------------------
(* The caller's publication *)

\* The answers of one kind are none of another.
LEMMA KindsOfAnswer ==
    /\ None \notin {"success", Mismatch, BridgeError} /\ None \notin Codes
    /\ Codes \ {Opaque} = {"store.publication-conflict", "store.publish-stale-parent"}
                              \cup Refusals
    /\ Opaque \notin {"success", Mismatch, BridgeError} /\ Opaque \in Codes
    /\ BridgeError \notin {"success", Mismatch} \cup Codes
    /\ Codes \cap {"success", Mismatch} = {}
  <1>1. None \notin {"success", Mismatch, BridgeError} /\ None \notin Codes
    BY CodeValues
  <1> QED BY <1>1 DEF Codes, Refusals, Opaque, Mismatch, BridgeError

LEMMA CallerToldCases ==
    /\ answer = None => CallerTold = "pending"
    /\ answer \in {"success", Mismatch} => CallerTold = "committed"
    /\ answer \in Codes \ {Opaque} => CallerTold = "none"
    /\ answer \in {Opaque, BridgeError} => CallerTold = "unclear"
  BY KindsOfAnswer DEF CallerTold

LEMMA CallerToldCasesAfter ==
    /\ answer' = None => CallerTold' = "pending"
    /\ answer' \in {"success", Mismatch} => CallerTold' = "committed"
    /\ answer' \in Codes \ {Opaque} => CallerTold' = "none"
    /\ answer' \in {Opaque, BridgeError} => CallerTold' = "unclear"
  BY KindsOfAnswer DEF CallerTold

\* Of the steps of the publication only the answer tells, and only a commit commits.
LEMMA CallerSteps ==
    ASSUME WriterInv, [WriterNext]_writerVars
    PROVE  \/ UNCHANGED <<effect, answer>>
           \/ Answer
           \/ BackendCommits /\ at = "attempt" /\ UNCHANGED answer
  <1> USE DEF backend, answering
  <1>1. CASE UNCHANGED writerVars
    BY <1>1 DEF writerVars, vars
  <1>2. CASE Preflight \/ PublishStale \/ PublishFails \/ OtherPublishes
    BY <1>2 DEF Preflight, PublishStale, PublishFails, OtherPublishes, vars
  <1>3. CASE Replay \/ Seal \/ Expect \/ ReadBack \/ Compare \/ Reserve \/ Prefix
    <2>1. UNCHANGED answer
      BY <1>3 DEF Replay, Seal, Expect, ReadBack, Compare, Reserve, Prefix, Step, Call
    <2>2. UNCHANGED effect
      BY <1>3
         DEF Replay, Seal, Expect, ReadBack, Compare, Reserve, Prefix, Step,
             Call, AppendTask, AppendFails, SealInput, SealFails, BuildExpected,
             ExpectedReturns, ExpectedFails, BuildActual, ActualReturns, ActualFails,
             CompareProjections, CompareFails, FailCandidate, ReserveReportTail, ReserveFails,
             ReportAppend, ReportAppendFails, vars
    <2> QED BY <2>1, <2>2
  <1>4. CASE AbortCandidate \/ Attempt
    BY <1>4 DEF AbortCandidate, Abort, Attempt, PublishOnce
  <1>5. CASE PublishCommits \/ CommitUnclear \/ CommitThenThrows
    BY <1>5 DEF PublishCommits, CommitUnclear, CommitThenThrows, Publishing
  <1>6. CASE Refused \/ Verify \/ Throws
    BY <1>6 DEF Refused, Verify, Throws, AnswerCandidate, BackendReturns
  <1>7. CASE Outcome \/ Finalize \/ Return
    BY <1>7
       DEF Outcome, Finalize, Return, ReportAppend, ReportAppendFails, FinalizeReport,
           FinalizeFails, Destroy, vars
  <1> QED BY <1>1, <1>2, <1>3, <1>4, <1>5, <1>6, <1>7 DEF WriterNext, Bridge

LEMMA CallerStep ==
    ASSUME WriterInv, WriterInv', [WriterNext]_writerVars
    PROVE  [Caller!Next]_(Caller!vars)
  <1> USE DEF Caller!vars
  <1>1. CASE UNCHANGED <<effect, answer>>
    BY <1>1 DEF CallerTold
  <1>2. CASE BackendCommits /\ at = "attempt" /\ UNCHANGED answer
    <2>1. answer = None /\ UNCHANGED CallerTold
      BY <1>2, UntilAttempt DEF CallerTold, Finishing
    <2>2. CallerTold = "pending"
      BY <2>1, CallerToldCases
    <2> QED BY <1>2, <2>1, <2>2 DEF BackendCommits, Caller!Next, Caller!Commit
  <1>3. CASE Answer
    <2>1. answer = None /\ UNCHANGED <<effect, publishError, postError, published>>
      BY <1>3 DEF Answer, WriterInv, Answered, vars, backend
    <2>2. CallerTold = "pending"
      BY <2>1, CallerToldCases
    <2>3. answer' = Precedence
      BY <1>3 DEF Answer
    <2>4. CallerTold' \in {effect, "unclear"}
      <3>1. CASE publishError # None
        <4>1. answer' = publishError /\ publishError \in Codes
          BY <2>3, <3>1, ErrorIsCode DEF Precedence
        <4>2. publishError = Opaque \/ effect = "none"
          BY <4>1 DEF WriterInv, Recorded
        <4> QED BY <4>1, <4>2, CallerToldCasesAfter
      <3>2. CASE publishError = None /\ postError
        <4>1. answer' = Mismatch
          BY <2>3, <3>2 DEF Precedence
        <4>2. effect = "committed"
          BY <3>2 DEF WriterInv, Recorded
        <4> QED BY <4>1, <4>2, CallerToldCasesAfter
      <3>3. CASE publishError = None /\ ~postError /\ bridged # "ok"
        <4>1. answer' = BridgeError
          BY <2>3, <3>3 DEF Precedence
        <4> QED BY <4>1, CallerToldCasesAfter
      <3>4. CASE publishError = None /\ ~postError /\ bridged = "ok"
        <4>1. published
          BY <3>4 DEF WriterInv, Answered, Settled
        <4>2. answer' = "success"
          BY <2>3, <3>4, <4>1 DEF Precedence
        <4>3. effect = "committed"
          BY <4>1 DEF WriterInv, Recorded
        <4> QED BY <4>2, <4>3, CallerToldCasesAfter
      <3> QED BY <3>1, <3>2, <3>3, <3>4
    <2> QED BY <2>1, <2>2, <2>4 DEF Caller!Next, Caller!Tell
  <1> QED BY <1>1, <1>2, <1>3, CallerSteps

\* To its caller publish_materialization_source is one attempt with one effect and one
\* answer.
THEOREM PublicationIsOneShot == WriterSpec => ImplementsPublication
  <1>1. WriterInit => Caller!Init
    <2> SUFFICES ASSUME WriterInit PROVE Caller!Init
      OBVIOUS
    <2>1. CallerTold = "pending"
      BY CallerToldCases DEF WriterInit
    <2> QED BY <2>1 DEF WriterInit, Init, Caller!Init
  <1>2. WriterInv /\ WriterInv' /\ [WriterNext]_writerVars => [Caller!Next]_(Caller!vars)
    BY CallerStep
  <1> QED
    BY <1>1, <1>2, WriterAlwaysInv, PTL DEF WriterSpec, ImplementsPublication, Caller!Spec
=============================================================================
