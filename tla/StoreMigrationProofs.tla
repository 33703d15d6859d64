------------------------ MODULE StoreMigrationProofs ------------------------
(***************************************************************************)
(* Proofs about the arithmetic of AuthorizedDescendant (what the residual  *)
(* solver decides, for all numbers) and about StoreMigration, for every    *)
(* number of processes, every limit of the generation counter and every    *)
(* set of effects that may fail.                                           *)
(***************************************************************************)
EXTENDS StoreMigration, TLAPS

-----------------------------------------------------------------------------
(* Multiplication and division *)

LEMMA TimesMonotone ==
    ASSUME NEW a \in Nat, NEW b \in Nat, NEW c \in Nat, a \leq b
    PROVE  a * c \leq b * c /\ c * a \leq c * b
  <1>1. PICK d \in Nat : b = a + d
    <2> WITNESS b - a \in Nat
    <2> QED OBVIOUS
  <1>2. b * c = a * c + d * c /\ d * c \in Nat /\ a * c \in Nat
    BY <1>1
  <1> QED BY <1>1, <1>2

LEMMA TimesCancels ==
    ASSUME NEW a \in Nat, NEW b \in Nat, NEW c \in Nat, a * c < b * c
    PROVE  a < b
  <1> SUFFICES ASSUME b \leq a PROVE FALSE
    OBVIOUS
  <1>1. b * c \leq a * c
    BY TimesMonotone
  <1>2. a * c \in Nat /\ b * c \in Nat
    OBVIOUS
  <1> QED BY <1>1, <1>2

LEMMA Division ==
    ASSUME NEW a \in Nat, NEW b \in Nat \ {0}
    PROVE  /\ a \div b \in Nat
           /\ a % b \in 0 .. b - 1
           /\ a = b * (a \div b) + (a % b)
  OBVIOUS

\* The quotient is the largest number of times that b goes into a.
LEMMA QuotientLargest ==
    ASSUME NEW a \in Nat, NEW b \in Nat \ {0}, NEW k \in Nat
    PROVE  k * b \leq a <=> k \leq a \div b
  <1> DEFINE q == a \div b
             r == a % b
  <1>1. q \in Nat /\ r \in 0 .. b - 1 /\ a = b * q + r
    BY Division
  <1> HIDE DEF q, r
  <1>2. k * b \in Nat /\ q * b = b * q /\ q * b \in Nat
    BY <1>1
  <1>3. ASSUME k \leq q PROVE k * b \leq a
    <2>1. k * b \leq q * b
      BY <1>1, <1>3, TimesMonotone
    <2> QED BY <1>1, <1>2, <2>1
  <1>4. ASSUME k * b \leq a PROVE k \leq q
    <2>1. (q + 1) * b = q * b + b
      BY <1>1
    <2>2. k * b < (q + 1) * b
      BY <1>1, <1>2, <1>4, <2>1
    <2>3. k < q + 1
      BY <1>1, <2>2, TimesCancels
    <2> QED BY <1>1, <2>3
  <1> QED BY <1>3, <1>4 DEF q

-----------------------------------------------------------------------------
(* The residual solver *)

\* delta is the sum of k compactions of between lower and upper publications.
Spread(delta, lower, upper) ==
    \E k \in Nat : k * lower \leq delta /\ delta \leq k * upper

\* The fewest compactions that are enough, as the code computes them.
LEMMA FewestRuns ==
    ASSUME NEW delta \in Nat \ {0}, NEW upper \in Nat \ {0}
    PROVE  LET runs == 1 + ((delta - 1) \div upper)
           IN  /\ runs \in Nat \ {0}
               /\ \A k \in Nat : delta \leq k * upper <=> runs \leq k
  <1> DEFINE q == (delta - 1) \div upper
  <1>1. q \in Nat
    BY Division
  <1>2. ASSUME NEW k \in Nat PROVE delta \leq k * upper <=> 1 + q \leq k
    <2>1. k * upper \leq delta - 1 <=> k \leq q
      BY QuotientLargest
    <2>2. k * upper \in Nat
      OBVIOUS
    <2> HIDE DEF q
    <2> QED BY <1>1, <2>1, <2>2
  <1> QED BY <1>1, <1>2

\* Whatever the numbers, the solver finds a schedule if and only if there is one, although
\* it tries a single number of compactions (sqlite_terminal_reclassifier_internal.cpp:698).
THEOREM SolverExact ==
    ASSUME NEW delta \in Nat, NEW lower \in Nat \ {0}, NEW upper \in Nat, lower \leq upper
    PROVE  Reachable(delta, lower, upper) <=> Spread(delta, lower, upper)
  <1>1. CASE delta = 0
    <2>1. 0 * lower \leq delta /\ delta \leq 0 * upper
      BY <1>1
    <2> QED BY <1>1, <2>1 DEF Reachable, Spread
  <1>2. CASE delta # 0
    <2> DEFINE runs == 1 + ((delta - 1) \div upper)
               base == delta \div runs
               rest == delta % runs
    <2>1. runs \in Nat \ {0} /\ \A k \in Nat : delta \leq k * upper <=> runs \leq k
      BY <1>2, FewestRuns
    <2>2. Reachable(delta, lower, upper) <=>
            /\ runs \leq delta \div lower
            /\ base \in lower .. upper
            /\ rest # 0 => base # upper
      BY <1>2 DEF Reachable
    <2>3. \A k \in Nat : k * lower \leq delta <=> k \leq delta \div lower
      BY QuotientLargest
    <2> HIDE DEF runs
    <2>4. base \in Nat /\ rest \in 0 .. runs - 1 /\ delta = runs * base + rest
      BY <2>1, Division
    <2>5. ASSUME Reachable(delta, lower, upper) PROVE Spread(delta, lower, upper)
      <3>1. runs * lower \leq delta
        BY <2>1, <2>2, <2>3, <2>5
      <3>2. delta \leq runs * upper
        BY <2>1
      <3> QED BY <2>1, <3>1, <3>2 DEF Spread
    <2>6. ASSUME Spread(delta, lower, upper) PROVE Reachable(delta, lower, upper)
      <3>1. PICK k \in Nat : k * lower \leq delta /\ delta \leq k * upper
        BY <2>6 DEF Spread
      <3>2. runs \leq k /\ k \leq delta \div lower /\ delta \div lower \in Nat
        BY <2>1, <2>3, <3>1, Division
      <3>3. runs \leq delta \div lower
        BY <2>1, <3>2
      <3>4. runs * lower \leq delta /\ delta \leq runs * upper
        BY <2>1, <2>3, <3>3
      <3>5. lower \leq base
        <4>1. lower * runs \leq delta
          BY <2>1, <3>4
        <4> QED BY <2>1, <4>1, QuotientLargest
      <3>6. base \leq upper
        <4>1. runs * base \leq runs * upper /\ runs * base \in Nat /\ runs * upper \in Nat
          BY <2>1, <2>4, <3>4
        <4>2. (upper + 1) * runs = runs * upper + runs
          BY <2>1
        <4>3. base * runs < (upper + 1) * runs
          BY <2>1, <2>4, <4>1, <4>2
        <4> QED BY <2>1, <2>4, <4>3, TimesCancels
      <3>7. ASSUME base = upper PROVE rest = 0
        <4> HIDE DEF base, rest
        <4>1. runs * base \in Nat
          BY <2>1, <2>4
        <4> QED BY <2>4, <3>4, <3>7, <4>1
      <3> QED BY <2>2, <2>4, <3>3, <3>5, <3>6, <3>7
    <2> QED BY <2>5, <2>6
  <1> QED BY <1>1, <1>2

-----------------------------------------------------------------------------
(* The generations of the store *)

Generations == Seq(1 .. GenerationMax)

-----------------------------------------------------------------------------
(* Lemmas about generations *)

\* The highest generation is within the limit.
LEMMA TopInRange ==
    ASSUME NEW g \in Generations
    PROVE  History!Top(g) \in 0 .. GenerationMax
  <1>1. CASE g = <<>>
    BY <1>1, MigrationAssumption DEF History!Top
  <1>2. CASE g # <<>>
    <2>1. Len(g) \in 1 .. Len(g)
      BY <1>2 DEF Generations
    <2> QED BY <1>2, <2>1, MigrationAssumption DEF History!Top, Generations
  <1> QED BY <1>1, <1>2

\* A compaction has as many generations as it found.
LEMMA RenumberedLength ==
    ASSUME NEW g \in Generations
    PROVE  /\ Len(History!Renumbered(g)) = Len(g)
           /\ History!Renumbered(g) \in Seq(Nat)
  <1>1. \A i \in 1 .. Len(g) : History!Top(g) + i \in Nat
    BY TopInRange, MigrationAssumption
  <1> QED BY <1>1 DEF History!Renumbered, Generations

\* A compaction that fits stays within the limit.
LEMMA RenumberedInRange ==
    ASSUME NEW g \in Generations, History!Fits(History!Renumbered(g))
    PROVE  History!Renumbered(g) \in Generations
  <1> DEFINE r == History!Renumbered(g)
  <1>1. r = [i \in 1 .. Len(g) |-> History!Top(g) + i] /\ Len(r) = Len(g) /\ Len(g) \in Nat
    BY RenumberedLength DEF History!Renumbered, Generations
  <1>2. ASSUME NEW i \in 1 .. Len(g) PROVE History!Top(g) + i \in 1 .. GenerationMax
    <2>1. Len(g) \in 1 .. Len(g) /\ r # <<>>
      BY <1>1, <1>2
    <2>2. History!Top(r) = History!Top(g) + Len(g)
      BY <1>1, <2>1 DEF History!Top
    <2>3. History!Top(g) + Len(g) \leq GenerationMax
      BY <2>2 DEF History!Fits
    <2> QED BY <1>1, <1>2, <2>3, TopInRange, MigrationAssumption
  <1> QED BY <1>1, <1>2 DEF Generations, History!Renumbered

\* So does a publication.
LEMMA PublishedInRange ==
    ASSUME NEW g \in Generations, History!Fits(History!Published(g))
    PROVE  History!Published(g) \in Generations
  <1> DEFINE t == History!Top(g) + 1
  <1>1. t \in Nat \ {0}
    BY TopInRange, MigrationAssumption
  <1>2. History!Published(g) = Append(g, t)
    BY DEF History!Published
  <1>3. Append(g, t) \in Seq(Nat) /\ Append(g, t) # <<>>
        /\ Append(g, t)[Len(Append(g, t))] = t
    <2>1. g \in Seq(Nat)
      BY MigrationAssumption DEF Generations
    <2> HIDE DEF t
    <2> QED BY <1>1, <2>1
  <1>4. t \leq GenerationMax
    BY <1>2, <1>3 DEF History!Fits, History!Top
  <1>5. t \in 1 .. GenerationMax
    BY <1>1, <1>4, MigrationAssumption
  <1> QED BY <1>2, <1>5 DEF Generations

LEMMA AuthorityShape ==
    ASSUME NEW a \in History!Authorities
    PROVE  /\ a.format \in History!Formats
           /\ a.generations \in Generations
           /\ a = [format |-> a.format, generations |-> a.generations]
           /\ \A g : [a EXCEPT !.generations = g] = [format |-> a.format, generations |-> g]
  BY DEF History!Authorities, Generations

-----------------------------------------------------------------------------
(* What a step does to the database *)

\* The result of a call is one that its caller knows.
LEMMA PublicResultKnown ==
    ASSUME NEW p, NEW c
    PROVE  PublicResult(p, c) \in Results
  BY DEF PublicResult, Results, Authorized
-----------------------------------------------------------------------------
(* Type correctness *)

\* A close touches only the connection, and the main file.
LEMMA CloseTyped ==
    ASSUME TypeOK, NEW h \in Handles, NEW closed \in BOOLEAN, CloseExactlyOnce(h, closed)
    PROVE  /\ connection' \in [Handles -> {"none", "denied", "coordination", "writer"}]
           /\ quarantined' \in [Handles -> BOOLEAN]
           /\ main' \in History!Authorities
  BY Zenon DEF CloseExactlyOnce, CheckpointIfLast, TypeOK

LEMMA CommittedTyped ==
    ASSUME TypeOK, NEW new \in History!Authorities, Committed(new)
    PROVE  authority' \in History!Authorities /\ main' \in History!Authorities
  BY DEF Committed, TypeOK

LEMMA CensusTyped ==
    ASSUME TypeOK
    PROVE  Census \in Anchors
  BY DEF TypeOK, Census, Anchors, Sidecars, HoldsSidecars

\* Everything that a call keeps.
CallTyped ==
    /\ source' \in [Handles -> History!Authorities \cup {None}]
    /\ candidate' \in [Handles -> History!Authorities \cup {None}]
    /\ found' \in [Handles -> History!Authorities \cup {None}]
    /\ phase' \in [Handles -> Phases]
    /\ trigger' \in [Handles -> {"failure", "concurrent_authority_change"}]
    /\ applied' \in [Handles -> BOOLEAN]
    /\ result' \in [Handles -> Results]

LEMMA TellTyped ==
    ASSUME TypeOK, NEW h \in Handles, NEW told \in Results, Tell(h, told)
    PROVE  CallTyped /\ pc' = [pc EXCEPT ![h] = "returned"]
  BY DEF Tell, ForgetCall, CallTyped, TypeOK, Goto, Phases

\* The process ends, or begins.
LEMMA ProcessTyped ==
    ASSUME TypeOK, NEW h \in Handles, Open(h) \/ Exit(h)
    PROVE  TypeOK'
  <1>1. CASE Open(h)
    <2>1. authority.format \in History!Formats /\ Census \in Anchors
      BY CensusTyped, AuthorityShape DEF TypeOK
    <2> QED BY <1>1, <2>1 DEF Open, Goto, TypeOK, database, call
  <1>2. CASE Exit(h)
    <2>1. main' \in History!Authorities
      BY <1>2 DEF Exit, CheckpointIfLast, TypeOK
    <2> QED BY <1>2, <2>1
            DEF Exit, ForgetCall, Goto, TypeOK, Phases, Results, History!Formats
  <1> QED BY <1>1, <1>2

\* Every edge leads to an authority.
LEMMA EdgesTyped ==
    ASSUME NEW a \in History!Authorities
    PROVE  /\ \A f \in History!Formats :
                /\ History!Fits(History!Published(a.generations)) =>
                     [format |-> f, generations |-> History!Published(a.generations)]
                        \in History!Authorities
                /\ History!Fits(History!Renumbered(a.generations)) =>
                     [format |-> f, generations |-> History!Renumbered(a.generations)]
                        \in History!Authorities
  BY AuthorityShape, RenumberedInRange, PublishedInRange DEF History!Authorities, Generations

\* A write from outside the call.
Writes ==
    \/ Committed([format |-> authority.format,
                  generations |-> History!Published(authority.generations)])
    \/ Committed([format |-> authority.format,
                  generations |-> History!Renumbered(authority.generations)])

LEMMA WriteIsEdge ==
    ASSUME TypeOK, LegacyWrite \/ \E h \in Handles : CurrentWrite(h)
    PROVE  Writes /\ History!Fits(authority'.generations) /\ lock = None
  <1>1. CASE LegacyWrite
    <2>1. PICK g \in {History!Published(authority.generations),
                      History!Renumbered(authority.generations)} :
             /\ History!Fits(g)
             /\ Committed([format |-> "legacy_v2", generations |-> g])
      BY <1>1 DEF LegacyWrite
    <2>2. authority'.generations = g /\ authority.format = "legacy_v2" /\ lock = None
      BY <1>1, <2>1 DEF LegacyWrite, Committed
    <2> QED BY <2>1, <2>2 DEF Writes
  <1>2. ASSUME NEW h \in Handles, CurrentWrite(h)
        PROVE  Writes /\ History!Fits(authority'.generations) /\ lock = None
    <2>1. \A g : [authority EXCEPT !.generations = g] =
                    [format |-> authority.format, generations |-> g]
      BY AuthorityShape DEF TypeOK
    <2> QED BY <1>2, <2>1 DEF CurrentWrite, Writes
  <1> QED BY <1>1, <1>2

LEMMA WritesTyped ==
    ASSUME TypeOK, Writes, History!Fits(authority'.generations)
    PROVE  authority' \in History!Authorities /\ main' \in History!Authorities
  <1>1. PICK g \in {History!Published(authority.generations),
                    History!Renumbered(authority.generations)} :
           Committed([format |-> authority.format, generations |-> g])
    BY DEF Writes
  <1>2. History!Fits(g)
    BY <1>1 DEF Committed
  <1>3. [format |-> authority.format, generations |-> g] \in History!Authorities
    <2>1. authority \in History!Authorities
      BY DEF TypeOK
    <2>2. authority.format \in History!Formats
      BY <2>1, AuthorityShape
    <2> QED BY <1>2, <2>1, <2>2, EdgesTyped
  <1> QED BY <1>1, <1>3, CommittedTyped

LEMMA OthersTyped ==
    ASSUME TypeOK, LegacyWrite \/ \E h \in Handles : CurrentWrite(h)
    PROVE  TypeOK'
  <1>1. authority' \in History!Authorities /\ main' \in History!Authorities
    BY WriteIsEdge, WritesTyped
  <1>2. CASE LegacyWrite
    BY <1>1, <1>2 DEF LegacyWrite, TypeOK, handle, call
  <1>3. ASSUME NEW h \in Handles, CurrentWrite(h) PROVE TypeOK'
    BY <1>1, <1>3 DEF CurrentWrite, TypeOK, call
  <1> QED BY <1>2, <1>3

\* Until its transaction begins.
LEMMA PrologueTyped ==
    ASSUME TypeOK, NEW h \in Handles,
           Start(h) \/ Coordinate(h) \/ Refused(h) \/ BeginFails(h) \/ Begin(h)
    PROVE  TypeOK'
  <1>1. CASE Start(h)
    BY <1>1 DEF Start, Goto, TypeOK, database, handle
  <1>2. CASE Coordinate(h)
    BY <1>2 DEF Coordinate, Goto, TypeOK, database, handle, call
  <1>3. CASE Refused(h)
    <2>1. PICK closed \in BOOLEAN : CloseExactlyOnce(h, closed)
      BY <1>3 DEF Refused
    <2>2. /\ connection' \in [Handles -> {"none", "denied", "coordination", "writer"}]
          /\ quarantined' \in [Handles -> BOOLEAN]
          /\ main' \in History!Authorities
      BY <2>1, CloseTyped
    <2>3. CallTyped /\ pc' = [pc EXCEPT ![h] = "returned"]
      BY <1>3, TellTyped DEF Refused, Results
    <2> QED BY <1>3, <2>2, <2>3 DEF Refused, TypeOK, CallTyped, handle
  <1>4. CASE BeginFails(h)
    BY <1>4 DEF BeginFails, Goto, TypeOK, database, handle, call
  <1>5. CASE Begin(h)
    BY <1>5 DEF Begin, SourceUnderLock, Goto, TypeOK, handle
  <1> QED BY <1>1, <1>2, <1>3, <1>4, <1>5

-----------------------------------------------------------------------------
(* The transaction of a call *)

\* A process between its BEGIN and its COMMIT has the lock, and what it has sealed and
\* rewritten is what the database holds.
Sealed(h) ==
    /\ pc[h] \in {"began", "built"} =>
         /\ lock = h
         /\ source[h] = authority
         /\ authority.format = "legacy_v2"
    /\ pc[h] = "built" =>
         /\ candidate[h] = [format |-> "current_v3",
                            generations |-> History!Renumbered(authority.generations)]
         /\ History!Fits(candidate[h].generations)

Transactions == \A h \in Handles : Sealed(h)

TInv == TypeOK /\ Transactions

\* What a build makes of a sealed source.
LEMMA CandidateTyped ==
    ASSUME TInv, NEW h \in Handles, pc[h] = "began", History!Fits(Candidate(h).generations)
    PROVE  /\ Candidate(h) \in History!Authorities
           /\ Candidate(h) = [format |-> "current_v3",
                              generations |-> History!Renumbered(authority.generations)]
  <1>1. source[h] = authority /\ authority \in History!Authorities
    BY DEF TInv, Transactions, Sealed, TypeOK
  <1>2. History!Fits(History!Renumbered(authority.generations))
    BY <1>1 DEF Candidate
  <1>3. "current_v3" \in History!Formats
    BY DEF History!Formats
  <1> QED BY <1>1, <1>2, <1>3, EdgesTyped DEF Candidate

LEMMA BuiltIsAuthority ==
    ASSUME TInv, NEW h \in Handles, pc[h] = "built"
    PROVE  candidate[h] \in History!Authorities
  <1>1. /\ candidate[h] = [format |-> "current_v3",
                           generations |-> History!Renumbered(authority.generations)]
        /\ History!Fits(candidate[h].generations)
    BY DEF TInv, Transactions, Sealed
  <1>2. authority \in History!Authorities /\ "current_v3" \in History!Formats
    BY DEF TInv, TypeOK, History!Formats
  <1>3. History!Fits(History!Renumbered(authority.generations))
    BY <1>1
  <1> QED BY <1>1, <1>2, <1>3, EdgesTyped

LEMMA TransactionTyped ==
    ASSUME TInv, NEW h \in Handles, Build(h) \/ BuildFails(h) \/ Commit(h)
    PROVE  TypeOK'
  <1>1. CASE Build(h)
    <2>1. Candidate(h) \in History!Authorities
      BY <1>1, CandidateTyped DEF Build
    <2>2. "current_v3" \in History!Formats
      BY DEF History!Formats
    <2> QED BY <1>1, <2>1, <2>2 DEF Build, Goto, TypeOK, TInv, database
  <1>2. CASE BuildFails(h)
    <2>1. PICK format \in History!Formats :
             sqlite_format' = [sqlite_format EXCEPT ![h] = format]
      BY <1>2 DEF BuildFails, History!Formats
    <2> QED BY <1>2, <2>1 DEF BuildFails, Goto, TypeOK, TInv, database, call
  <1>3. CASE Commit(h)
    <2>1. candidate[h] \in History!Authorities
      BY <1>3, BuiltIsAuthority DEF Commit
    <2>2. authority' \in History!Authorities /\ main' \in History!Authorities
          /\ lock' \in Handles \cup {None}
      <3>1. CASE Committed(candidate[h]) /\ lock' = None
        BY <2>1, <3>1, CommittedTyped DEF TInv
      <3>2. CASE UNCHANGED database
        BY <3>2 DEF database, TInv, TypeOK
      <3> QED BY <1>3, <3>1, <3>2 DEF Commit
    <2> QED BY <1>3, <2>2 DEF Commit, Goto, TypeOK, TInv, Phases, handle
  <1> QED BY <1>1, <1>2, <1>3

\* What follows it.
LEMMA ConclusionTyped ==
    ASSUME TypeOK, NEW h \in Handles,
           Release(h) \/ Reopen(h) \/ ReopenFails(h) \/ Resolve(h) \/ ResolveStopped(h)
             \/ Return(h)
    PROVE  TypeOK'
  <1> USE DEF TypeOK
  <1>1. CASE Release(h)
    <2>1. PICK rolled \in BOOLEAN, closed \in BOOLEAN :
             /\ CloseExactlyOnce(h, closed)
             /\ lock' = IF lock = h /\ (rolled \/ closed) THEN None ELSE lock
             /\ \/ Goto(h, "released") /\ UNCHANGED <<availability, call>>
                \/ Poison(h) /\ Tell(h, "recovery_opaque")
      BY <1>1 DEF Release
    <2>2. /\ connection' \in [Handles -> {"none", "denied", "coordination", "writer"}]
          /\ quarantined' \in [Handles -> BOOLEAN]
          /\ main' \in History!Authorities
      BY <2>1, CloseTyped
    <2>3. CallTyped /\ availability' \in [Handles -> {"available", "poisoned"}]
          /\ pc' \in [Handles -> {"closed", "idle", "opened", "coordinated", "began",
                                  "built", "concluding", "released", "reopened", "returned"}]
      <3>1. CASE Goto(h, "released") /\ UNCHANGED <<availability, call>>
        BY <3>1 DEF Goto, call, CallTyped
      <3>2. CASE Poison(h) /\ Tell(h, "recovery_opaque")
        BY <3>2, TellTyped DEF Poison, Results
      <3> QED BY <2>1, <3>1, <3>2
    <2> QED BY <1>1, <2>1, <2>2, <2>3 DEF Release, CallTyped
  <1>2. CASE Reopen(h)
    <2>1. authority.format \in History!Formats
      BY AuthorityShape
    <2> QED BY <1>2, <2>1 DEF Reopen, Goto, database
  <1>3. CASE ReopenFails(h)
    <2>1. CallTyped /\ pc' = [pc EXCEPT ![h] = "returned"]
      BY <1>3, TellTyped DEF ReopenFails, Results
    <2> QED BY <1>3, <2>1 DEF ReopenFails, Poison, CallTyped, database
  <1>4. CASE Resolve(h)
    <2>1. CallTyped /\ pc' = [pc EXCEPT ![h] = "returned"]
      BY <1>4, TellTyped, PublicResultKnown DEF Resolve
    <2>2. Census \in Anchors
      BY CensusTyped
    <2> QED BY <1>4, <2>1, <2>2 DEF Resolve, Poison, CallTyped, database
  <1>5. CASE ResolveStopped(h)
    <2>1. CallTyped /\ pc' = [pc EXCEPT ![h] = "returned"]
      BY <1>5, TellTyped DEF ResolveStopped, Results
    <2> QED BY <1>5, <2>1 DEF ResolveStopped, Poison, CallTyped, database
  <1>6. CASE Return(h)
    BY <1>6 DEF Return, Goto, Results, database, handle
  <1> QED BY <1>1, <1>2, <1>3, <1>4, <1>5, <1>6

LEMMA TypeKept ==
    ASSUME TInv, [Next]_vars
    PROVE  TypeOK'
  <1>1. CASE UNCHANGED vars
    BY <1>1 DEF TInv, TypeOK, vars, database, handle, call
  <1>2. CASE LegacyWrite \/ \E h \in Handles : CurrentWrite(h)
    BY <1>2, OthersTyped DEF TInv
  <1>3. ASSUME NEW h \in Handles, Open(h) \/ Exit(h) PROVE TypeOK'
    BY <1>3, ProcessTyped DEF TInv
  <1>4. ASSUME NEW h \in Handles,
               Start(h) \/ Coordinate(h) \/ Refused(h) \/ BeginFails(h) \/ Begin(h)
        PROVE  TypeOK'
    BY <1>4, PrologueTyped DEF TInv
  <1>5. ASSUME NEW h \in Handles, Build(h) \/ BuildFails(h) \/ Commit(h) PROVE TypeOK'
    BY <1>5, TransactionTyped
  <1>6. ASSUME NEW h \in Handles,
               Release(h) \/ Reopen(h) \/ ReopenFails(h) \/ Resolve(h) \/ ResolveStopped(h)
                 \/ Return(h)
        PROVE  TypeOK'
    BY <1>6, ConclusionTyped DEF TInv
  <1> QED BY <1>1, <1>2, <1>3, <1>4, <1>5, <1>6 DEF Next

-----------------------------------------------------------------------------
(* The edges of the history, and the inductive invariant *)

\* A write from outside is an edge of the history.
LEMMA WritesAreEdges ==
    ASSUME TypeOK, Writes, History!Fits(authority'.generations)
    PROVE  /\ History!PublishEdge(authority, authority')
                \/ History!CompactEdge(authority, authority')
           /\ authority'.format = authority.format
  <1>1. \A g : [authority EXCEPT !.generations = g] =
                  [format |-> authority.format, generations |-> g]
    BY AuthorityShape DEF TypeOK
  <1>2. \/ authority' = [format |-> authority.format,
                         generations |-> History!Published(authority.generations)]
        \/ authority' = [format |-> authority.format,
                         generations |-> History!Renumbered(authority.generations)]
    BY DEF Writes, Committed
  <1> QED BY <1>1, <1>2 DEF History!PublishEdge, History!CompactEdge

\* A commit is the migration of what the database holds.
LEMMA CommitIsMigration ==
    ASSUME TInv, NEW h \in Handles, Commit(h), authority' # authority
    PROVE  History!MigrateEdge(authority, authority')
  <1>1. authority' = candidate[h]
    BY DEF Commit, Committed, database
  <1>2. Sealed(h) /\ pc[h] = "built"
    BY DEF TInv, Transactions, Commit
  <1> QED BY <1>1, <1>2 DEF Sealed, History!MigrateEdge

\* Who holds the lock keeps it, and the database, until it commits or concludes.
LEMMA LockProtects ==
    ASSUME TInv, [Next]_vars, NEW h \in Handles, pc[h] \in {"began", "built"},
           pc'[h] \in {"began", "built"}
    PROVE  lock' = h /\ authority' = authority
  <1>1. lock = h /\ h # None
    BY MigrationAssumption DEF TInv, Transactions, Sealed
  <1>2. CASE UNCHANGED vars
    BY <1>1, <1>2 DEF vars, database
  <1>3. CASE LegacyWrite \/ \E k \in Handles : CurrentWrite(k)
    BY <1>1, <1>3, WriteIsEdge DEF TInv
  <1>4. ASSUME NEW k \in Handles, Commit(k) PROVE lock' = h /\ authority' = authority
    <2>1. k = h
      BY <1>1, <1>4 DEF TInv, Transactions, Sealed, Commit
    <2>2. pc'[h] = "concluding"
      BY <1>4, <2>1 DEF Commit, Goto, TInv, TypeOK
    <2> QED BY <2>2
  <1>5. ASSUME NEW k \in Handles, Exit(k) \/ Release(k)
        PROVE  lock' = h /\ authority' = authority
    <2>1. k # h
      <3>1. Exit(k) => pc' = [pc EXCEPT ![k] = "closed"]
        BY DEF Exit, Goto
      <3>2. Release(k) => pc[k] = "concluding"
        BY DEF Release
      <3> QED BY <1>5, <3>1, <3>2 DEF TInv, TypeOK
    <2> QED BY <1>1, <1>5, <2>1 DEF Exit, Release
  <1>6. ASSUME NEW k \in Handles,
               Open(k) \/ Start(k) \/ Coordinate(k) \/ Refused(k) \/ BeginFails(k) \/ Begin(k)
                 \/ Build(k) \/ BuildFails(k) \/ Reopen(k) \/ ReopenFails(k) \/ Resolve(k)
                 \/ ResolveStopped(k) \/ Return(k)
        PROVE  lock' = h /\ authority' = authority
    BY <1>1, <1>6
       DEF Open, Start, Coordinate, Refused, BeginFails, Begin, Build, BuildFails, Reopen,
           ReopenFails, Resolve, ResolveStopped, Return, database
  <1> QED BY <1>2, <1>3, <1>4, <1>5, <1>6 DEF Next

\* A step of one process leaves the call of another alone.
LEMMA OnlyItsOwnCall ==
    ASSUME TInv, [Next]_vars, NEW h \in Handles, pc'[h] \in {"began", "built"}
    PROVE  \/ /\ pc'[h] = pc[h]
              /\ source'[h] = source[h]
              /\ candidate'[h] = candidate[h]
           \/ Begin(h)
           \/ Build(h)
  <1>1. CASE UNCHANGED vars
    BY <1>1 DEF vars, call
  <1>2. CASE LegacyWrite
    BY <1>2 DEF LegacyWrite, call
  <1>3. ASSUME NEW k \in Handles,
               \/ Open(k) \/ Exit(k) \/ CurrentWrite(k)
               \/ Start(k) \/ Coordinate(k) \/ Refused(k)
               \/ BeginFails(k) \/ Begin(k) \/ Build(k) \/ BuildFails(k) \/ Commit(k)
               \/ Release(k) \/ Reopen(k) \/ ReopenFails(k) \/ Resolve(k)
               \/ ResolveStopped(k) \/ Return(k)
        PROVE  \/ /\ pc'[h] = pc[h]
                  /\ source'[h] = source[h]
                  /\ candidate'[h] = candidate[h]
               \/ Begin(h)
               \/ Build(h)
    <2>1. CASE k # h
      <3> USE <2>1 DEF TInv, TypeOK, Goto, Tell, ForgetCall, call
      <3>1. CASE Open(k) \/ Exit(k) \/ CurrentWrite(k) \/ Return(k)
        <4>1. CASE Open(k)
          BY <4>1 DEF Open
        <4>2. CASE Exit(k)
          BY <4>2 DEF Exit
        <4>3. CASE CurrentWrite(k)
          BY <4>3 DEF CurrentWrite
        <4>4. CASE Return(k)
          BY <4>4 DEF Return
        <4> QED BY <3>1, <4>1, <4>2, <4>3, <4>4
      <3>2. CASE Start(k) \/ Coordinate(k) \/ Refused(k) \/ BeginFails(k)
        BY <3>2 DEF Start, Coordinate, Refused, BeginFails
      <3>3. CASE Begin(k) \/ Build(k) \/ BuildFails(k) \/ Commit(k)
        BY <3>3 DEF Begin, Build, BuildFails, Commit
      <3>4. CASE Release(k) \/ Reopen(k) \/ ReopenFails(k) \/ Resolve(k) \/ ResolveStopped(k)
        BY <3>4 DEF Release, Reopen, ReopenFails, Resolve, ResolveStopped
      <3> QED BY <1>3, <3>1, <3>2, <3>3, <3>4
    <2>2. CASE k = h
      <3> USE <2>2 DEF TInv, TypeOK, Goto, Tell
      <3>1. CASE Open(k) \/ Exit(k) \/ CurrentWrite(k) \/ Return(k)
        <4>1. CASE Open(k)
          BY <4>1 DEF Open
        <4>2. CASE Exit(k)
          BY <4>2 DEF Exit
        <4>3. CASE CurrentWrite(k)
          BY <4>3 DEF CurrentWrite
        <4>4. CASE Return(k)
          BY <4>4 DEF Return
        <4> QED BY <3>1, <4>1, <4>2, <4>3, <4>4
      <3>2. CASE Start(k) \/ Coordinate(k) \/ Refused(k) \/ BeginFails(k)
        BY <3>2 DEF Start, Coordinate, Refused, BeginFails
      <3>3. CASE Begin(k) \/ Build(k) \/ BuildFails(k) \/ Commit(k)
        BY <3>3 DEF BuildFails, Commit
      <3>4. CASE Release(k) \/ Reopen(k) \/ ReopenFails(k) \/ Resolve(k) \/ ResolveStopped(k)
        BY <3>4 DEF Release, Reopen, ReopenFails, Resolve, ResolveStopped
      <3> QED BY <1>3, <3>1, <3>2, <3>3, <3>4
    <2> QED BY <2>1, <2>2
  <1> QED BY <1>1, <1>2, <1>3 DEF Next

LEMMA TransactionsKept ==
    ASSUME TInv, [Next]_vars
    PROVE  Transactions'
  <1> SUFFICES ASSUME NEW h \in Handles, pc'[h] \in {"began", "built"}
               PROVE  Sealed(h)'
    BY DEF Transactions, Sealed
  <1>1. CASE Begin(h)
    BY <1>1 DEF Begin, SourceUnderLock, Goto, Sealed, TInv, TypeOK
  <1>2. CASE Build(h)
    <2>1. pc[h] = "began" /\ pc'[h] = "built" /\ source' = source
          /\ candidate'[h] = Candidate(h) /\ History!Fits(Candidate(h).generations)
      BY <1>2 DEF Build, Goto, TInv, TypeOK
    <2>2. lock' = h /\ authority' = authority
      BY <2>1, LockProtects
    <2>3. Candidate(h) = [format |-> "current_v3",
                          generations |-> History!Renumbered(authority.generations)]
      BY <2>1, CandidateTyped
    <2>4. source[h] = authority /\ authority.format = "legacy_v2"
      BY <2>1 DEF TInv, Transactions, Sealed
    <2> QED BY <2>1, <2>2, <2>3, <2>4 DEF Sealed
  <1>3. CASE /\ pc'[h] = pc[h]
             /\ source'[h] = source[h]
             /\ candidate'[h] = candidate[h]
    <2>1. lock' = h /\ authority' = authority
      BY <1>3, LockProtects
    <2> QED BY <1>3, <2>1 DEF TInv, Transactions, Sealed
  <1> QED BY <1>1, <1>2, <1>3, OnlyItsOwnCall

LEMMA TInvInit ==
    ASSUME Init
    PROVE  TInv
  <1>1. authority \in History!Authorities
    <2>1. <<>> \in Seq(1 .. GenerationMax)
      OBVIOUS
    <2>2. "legacy_v2" \in History!Formats
      BY DEF History!Formats
    <2> QED BY <2>1, <2>2 DEF Init, History!Authorities
  <1>2. "legacy_v2" \in History!Formats
    BY DEF History!Formats
  <1> QED BY <1>1, <1>2 DEF Init, TInv, TypeOK, Transactions, Sealed, Phases, Results

\* Type correctness together with what the write lock protects is inductive.
THEOREM TInvAlways == Spec => []TInv
  <1>1. Init => TInv
    BY TInvInit
  <1>2. TInv /\ [Next]_vars => TInv'
    <2> SUFFICES ASSUME TInv, [Next]_vars PROVE TypeOK' /\ Transactions'
      BY DEF TInv
    <2> QED BY TypeKept, TransactionsKept
  <1> QED BY <1>1, <1>2, PTL DEF Spec

\* Every variable keeps its type: no compaction, publication or migration passes the
\* limit of the generation counter, whoever makes it (store.cpp:8662).
THEOREM TypeCorrect == Spec => []TypeOK
  <1>1. TInv => TypeOK
    BY DEF TInv
  <1> QED BY <1>1, TInvAlways, PTL

\* Each step leaves the authority alone or takes it along one edge of the algebra.
AuthorityStep ==
    \/ UNCHANGED authority
    \/ /\ History!PublishEdge(authority, authority') \/ History!CompactEdge(authority, authority')
       /\ authority'.format = authority.format
    \/ History!MigrateEdge(authority, authority')

LEMMA NextIsAuthorityStep ==
    ASSUME TInv, [Next]_vars
    PROVE  AuthorityStep
  <1>1. CASE UNCHANGED vars
    BY <1>1 DEF AuthorityStep, vars, database
  <1>2. CASE LegacyWrite \/ \E h \in Handles : CurrentWrite(h)
    BY <1>2, WriteIsEdge, WritesAreEdges DEF AuthorityStep, TInv
  <1>3. ASSUME NEW h \in Handles, Commit(h) PROVE AuthorityStep
    BY <1>3, CommitIsMigration DEF AuthorityStep
  <1>4. ASSUME NEW h \in Handles,
               \/ Open(h) \/ Exit(h) \/ Start(h) \/ Coordinate(h) \/ Refused(h)
               \/ BeginFails(h) \/ Begin(h) \/ Build(h) \/ BuildFails(h)
               \/ Release(h) \/ Reopen(h) \/ ReopenFails(h) \/ Resolve(h)
               \/ ResolveStopped(h) \/ Return(h)
        PROVE  AuthorityStep
    BY <1>4 DEF AuthorityStep, Open, Exit, Start, Coordinate, Refused, BeginFails, Begin,
                Build, BuildFails, Release, Reopen, ReopenFails, Resolve, ResolveStopped,
                Return, database
  <1> QED BY <1>1, <1>2, <1>3, <1>4 DEF Next

\* The migration implements the history of the database: with any number of processes,
\* whatever fails and wherever one ends, a migration renumbers exactly the publications
\* that are there when it commits (store.cpp:8605).
THEOREM HistoryImplemented == Spec => ImplementsHistory
  <1>1. Init => History!Init
    BY DEF Init, History!Init
  <1>2. TInv /\ [Next]_vars => [History!Next]_authority
    <2>1. AuthorityStep => [History!Next]_authority
      BY DEF AuthorityStep, History!Next
    <2> QED BY <2>1, NextIsAuthorityStep
  <1> QED BY <1>1, <1>2, TInvAlways, PTL DEF Spec, ImplementsHistory, History!Spec

-----------------------------------------------------------------------------
(* A handle that goes on *)

\* What a handle may rely on at each point of a call.
Safe(h) ==
    /\ lock = h => \/ pc[h] \in {"began", "built", "concluding"}
                   \/ pc[h] \in {"idle", "returned"} /\ availability[h] = "poisoned"
    /\ pc[h] \in {"idle", "opened", "coordinated", "returned"} /\ availability[h] = "available" =>
         /\ sqlite_format[h] = view[h].format
         /\ sqlite_format[h] = "current_v3" =>
              /\ pc[h] \in {"idle", "returned"}
              /\ authority.format = "current_v3"
              /\ connection[h] = "writer"
         /\ sqlite_format[h] = "legacy_v2" => anchor[h] # None
         /\ sqlite_format[h] = "legacy_v2" /\ pc[h] \in {"idle", "returned"} =>
              connection[h] = "none"
    /\ pc[h] \in {"closed", "released", "reopened"} => connection[h] = "none"
    /\ pc[h] = "reopened" =>
         /\ sqlite_format[h] = found[h].format
         /\ sqlite_format[h] = "current_v3" => authority.format = "current_v3"

AllSafe == \A h \in Handles : Safe(h)

SInv == TInv /\ AllSafe

\* A database that is v3 stays v3.
LEMMA FormatStays ==
    ASSUME TInv, [Next]_vars, authority.format = "current_v3"
    PROVE  authority'.format = "current_v3"
  BY NextIsAuthorityStep DEF AuthorityStep, History!MigrateEdge

\* Nobody loses the safety of its handle by a step of another process.
LEMMA SafeByOthers ==
    ASSUME SInv, [Next]_vars, NEW h \in Handles,
           pc'[h] = pc[h], availability'[h] = availability[h], view'[h] = view[h],
           sqlite_format'[h] = sqlite_format[h], anchor'[h] = anchor[h],
           connection'[h] = connection[h], found'[h] = found[h],
           lock' = h => lock = h
    PROVE  Safe(h)'
  <1>1. Safe(h)
    BY DEF SInv, AllSafe
  <1>2. authority.format = "current_v3" => authority'.format = "current_v3"
    BY FormatStays DEF SInv
  <1> QED BY <1>1, <1>2 DEF Safe

\* The state of a handle.
Mine(h) == <<pc[h], availability[h], view[h], sqlite_format[h], anchor[h], connection[h],
             found[h]>>

LEMMA OnlyItsOwnHandle ==
    ASSUME TypeOK, NEW h \in Handles, NEW k \in Handles, k # h,
           \/ Open(k) \/ Exit(k) \/ CurrentWrite(k)
           \/ Start(k) \/ Coordinate(k) \/ Refused(k)
           \/ BeginFails(k) \/ Begin(k) \/ Build(k) \/ BuildFails(k) \/ Commit(k)
           \/ Release(k) \/ Reopen(k) \/ ReopenFails(k) \/ Resolve(k)
           \/ ResolveStopped(k) \/ Return(k)
    PROVE  Mine(h)' = Mine(h) /\ (lock' = h => lock = h)
  <1> USE DEF Mine, TypeOK, Goto, Tell, ForgetCall, Poison, call, handle, database
  <1>1. CASE Open(k) \/ Exit(k) \/ CurrentWrite(k) \/ Return(k)
    <2>1. CASE Open(k)
      BY <2>1 DEF Open
    <2>2. CASE Exit(k)
      BY <2>2, MigrationAssumption DEF Exit
    <2>3. CASE CurrentWrite(k) \/ Return(k)
      BY <2>3 DEF CurrentWrite, Return
    <2> QED BY <1>1, <2>1, <2>2, <2>3
  <1>2. CASE Start(k) \/ Coordinate(k) \/ Refused(k) \/ BeginFails(k)
    BY <1>2 DEF Start, Coordinate, Refused, BeginFails, CloseExactlyOnce
  <1>3. CASE Begin(k) \/ Build(k) \/ BuildFails(k) \/ Commit(k)
    BY <1>3, MigrationAssumption DEF Begin, Build, BuildFails, Commit
  <1>4. CASE Release(k) \/ Reopen(k) \/ ReopenFails(k) \/ Resolve(k) \/ ResolveStopped(k)
    BY <1>4, MigrationAssumption
       DEF Release, Reopen, ReopenFails, Resolve, ResolveStopped, CloseExactlyOnce
  <1> QED BY <1>1, <1>2, <1>3, <1>4

\* The process itself, until its transaction.
LEMMA SafeBefore ==
    ASSUME SInv, NEW h \in Handles,
           Open(h) \/ Exit(h) \/ CurrentWrite(h) \/ Return(h) \/ Start(h) \/ Coordinate(h)
             \/ Refused(h)
    PROVE  Safe(h)'
  <1>1. Safe(h) /\ h # None
    BY MigrationAssumption DEF SInv, AllSafe
  <1> USE <1>1 DEF SInv, TInv, TypeOK, Safe, Goto, database
  <1>2. CASE Open(h)
    <2>1. Census # None
      BY CensusTyped, NoneAssumption
    <2>2. authority.format \in {"legacy_v2", "current_v3"}
      BY AuthorityShape DEF History!Formats
    <2>3. /\ pc'[h] = "idle" /\ lock' = lock /\ authority' = authority
          /\ view'[h] = authority /\ sqlite_format'[h] = authority.format
          /\ authority.format = "legacy_v2" => anchor'[h] = Census /\ UNCHANGED connection
          /\ authority.format # "legacy_v2" => connection'[h] = "writer"
      BY <1>2 DEF Open
    <2>4. lock # h /\ connection[h] = "none"
      BY <1>2 DEF Open
    <2> QED BY <2>1, <2>2, <2>3, <2>4
  <1>3. CASE Exit(h)
    BY <1>3 DEF Exit
  <1>4. CASE CurrentWrite(h)
    <2>1. authority'.format = authority.format
      BY <1>4, WriteIsEdge, WritesAreEdges
    <2> QED BY <1>4, <2>1 DEF CurrentWrite, call
  <1>5. CASE Return(h)
    BY <1>5 DEF Return, handle
  <1>6. CASE Start(h)
    BY <1>6 DEF Start, handle
  <1>7. CASE Coordinate(h)
    BY <1>7 DEF Coordinate, handle, call
  <1>8. CASE Refused(h)
    <2>1. pc[h] \in {"opened", "coordinated"} /\ pc'[h] = "returned" /\ connection'[h] = "none"
          /\ UNCHANGED <<authority, lock, handle>>
      BY <1>8 DEF Refused, Tell, CloseExactlyOnce
    <2> QED BY <2>1 DEF handle
  <1> QED BY <1>2, <1>3, <1>4, <1>5, <1>6, <1>7, <1>8

\* And after it began.
LEMMA SafeAfter ==
    ASSUME SInv, NEW h \in Handles,
           BeginFails(h) \/ Begin(h) \/ Build(h) \/ BuildFails(h) \/ Commit(h) \/ Release(h)
             \/ Reopen(h) \/ ReopenFails(h) \/ Resolve(h) \/ ResolveStopped(h)
    PROVE  Safe(h)'
  <1>1. Safe(h) /\ h # None
    BY MigrationAssumption DEF SInv, AllSafe
  <1> USE <1>1 DEF SInv, TInv, TypeOK, Safe, Goto
  <1>2. CASE BeginFails(h) \/ Begin(h) \/ Build(h) \/ BuildFails(h) \/ Commit(h)
    <2>1. pc'[h] \in {"began", "built", "concluding"}
      BY <1>2 DEF BeginFails, Begin, Build, BuildFails, Commit
    <2> QED BY <2>1
  <1>3. CASE Release(h)
    <2>1. PICK rolled \in BOOLEAN, closed \in BOOLEAN :
             /\ CloseExactlyOnce(h, closed)
             /\ lock' = IF lock = h /\ (rolled \/ closed) THEN None ELSE lock
             /\ \/ closed /\ Goto(h, "released") /\ UNCHANGED <<availability, call>>
                \/ Poison(h) /\ Tell(h, "recovery_opaque")
      BY <1>3 DEF Release
    <2>2. connection'[h] = "none"
      BY <2>1 DEF CloseExactlyOnce
    <2>3. CASE closed /\ Goto(h, "released")
      BY <2>1, <2>2, <2>3
    <2>4. CASE Poison(h) /\ Tell(h, "recovery_opaque")
      BY <2>1, <2>2, <2>4 DEF Poison, Tell
    <2> QED BY <2>1, <2>3, <2>4
  <1>4. CASE Reopen(h)
    BY <1>4 DEF Reopen, database
  <1>5. CASE ReopenFails(h) \/ ResolveStopped(h)
    BY <1>5 DEF ReopenFails, ResolveStopped, Poison, Tell, database
  <1>6. CASE Resolve(h)
    <2>1. Census # None
      BY CensusTyped, NoneAssumption
    <2>2. sqlite_format[h] \in {"legacy_v2", "current_v3"}
      BY DEF History!Formats
    <2>3. pc'[h] = "returned" /\ UNCHANGED <<database, sqlite_format>>
      BY <1>6 DEF Resolve, Tell
    <2>4. CASE Poison(h)
      BY <1>6, <2>3, <2>4 DEF Resolve, Poison, database
    <2>5. CASE /\ view' = [view EXCEPT ![h] = found[h]]
               /\ IF sqlite_format[h] = "current_v3"
                  THEN connection' = [connection EXCEPT ![h] = "writer"]
                  ELSE /\ anchor' = [anchor EXCEPT ![h] = Census]
                       /\ UNCHANGED connection
      BY <1>6, <2>1, <2>2, <2>3, <2>5 DEF Resolve, database
    <2> QED BY <1>6, <2>4, <2>5 DEF Resolve
  <1> QED BY <1>2, <1>3, <1>4, <1>5, <1>6

LEMMA SafeKept ==
    ASSUME SInv, [Next]_vars
    PROVE  AllSafe'
  <1> SUFFICES ASSUME NEW h \in Handles PROVE Safe(h)'
    BY DEF AllSafe
  <1>1. CASE Mine(h)' = Mine(h) /\ (lock' = h => lock = h)
    BY <1>1, SafeByOthers DEF Mine
  <1>2. CASE UNCHANGED vars
    BY <1>1, <1>2 DEF vars, Mine, database, handle, call
  <1>3. CASE LegacyWrite
    BY <1>1, <1>3, MigrationAssumption DEF LegacyWrite, Mine, handle, call
  <1>4. ASSUME NEW k \in Handles,
               \/ Open(k) \/ Exit(k) \/ CurrentWrite(k)
               \/ Start(k) \/ Coordinate(k) \/ Refused(k)
               \/ BeginFails(k) \/ Begin(k) \/ Build(k) \/ BuildFails(k) \/ Commit(k)
               \/ Release(k) \/ Reopen(k) \/ ReopenFails(k) \/ Resolve(k)
               \/ ResolveStopped(k) \/ Return(k)
        PROVE  Safe(h)'
    <2>1. CASE k = h
      BY <1>4, <2>1, SafeBefore, SafeAfter
    <2>2. CASE k # h
      BY <1>1, <1>4, <2>2, OnlyItsOwnHandle DEF SInv, TInv
    <2> QED BY <2>1, <2>2
  <1> QED BY <1>2, <1>3, <1>4 DEF Next

\* A handle that is available has let go of the lock and goes by the format of the
\* database, although the call sets the format before its COMMIT (store.cpp:9094) and
\* any close, rollback or reopen may fail (sqlite_connection_lifecycle_internal.cpp:578).
THEOREM AvailableAlwaysSafe == Spec => []AvailableIsSafe
  <1>1. Init => SInv
    <2> SUFFICES ASSUME Init PROVE TInv /\ AllSafe
      BY DEF SInv
    <2>1. AllSafe
      BY MigrationAssumption DEF Init, AllSafe, Safe
    <2> QED BY <2>1, TInvInit
  <1>2. SInv /\ [Next]_vars => SInv'
    <2> SUFFICES ASSUME SInv, [Next]_vars PROVE TInv' /\ AllSafe'
      BY DEF SInv
    <2> QED BY TypeKept, TransactionsKept, SafeKept DEF SInv, TInv
  <1>3. SInv => AvailableIsSafe
    BY DEF SInv, AllSafe, Safe, AvailableIsSafe
  <1> QED BY <1>1, <1>2, <1>3, PTL DEF Spec

-----------------------------------------------------------------------------
(* What has grown out of a sealed source is recognised *)

\* What the edges do to the counts.
LEMMA CountsOf ==
    ASSUME NEW a \in History!Authorities
    PROVE  /\ Count(a) \in Nat
           /\ Maximum(a) \in Nat
           /\ Maximum(a) = History!Top(a.generations)
  <1>1. a.generations \in Generations
    BY AuthorityShape
  <1>2. Maximum(a) = History!Top(a.generations)
    BY DEF Maximum, History!Top
  <1>3. History!Top(a.generations) \in Nat
    BY <1>1, TopInRange, MigrationAssumption
  <1> QED BY <1>1, <1>2, <1>3 DEF Count, Generations

LEMMA PublishCounts ==
    ASSUME NEW a \in History!Authorities, NEW b, History!PublishEdge(a, b)
    PROVE  /\ b.format = a.format
           /\ Count(b) = Count(a) + 1
           /\ Maximum(b) = Maximum(a) + 1
  <1> DEFINE g == a.generations
             t == History!Top(g) + 1
  <1>1. g \in Generations /\ t \in Nat
    BY AuthorityShape, TopInRange, MigrationAssumption
  <1>2. b = [format |-> a.format, generations |-> Append(g, t)]
    BY AuthorityShape DEF History!PublishEdge, History!Published
  <1>3. /\ Len(Append(g, t)) = Len(g) + 1
        /\ Append(g, t) # <<>>
        /\ Append(g, t)[Len(Append(g, t))] = t
    <2>1. g \in Seq(Nat)
      BY <1>1, MigrationAssumption DEF Generations
    <2> HIDE DEF g, t
    <2> QED BY <1>1, <2>1
  <1>4. Count(b) = Count(a) + 1 /\ Maximum(b) = t
    BY <1>2, <1>3 DEF Count, Maximum
  <1> QED BY <1>2, <1>4, CountsOf

LEMMA ResetCounts ==
    ASSUME NEW a \in History!Authorities, NEW f,
           NEW b, b = [format |-> f, generations |-> History!Renumbered(a.generations)]
    PROVE  /\ Count(b) = Count(a)
           /\ Maximum(b) = Maximum(a) + Count(a)
  <1> DEFINE g == a.generations
             r == History!Renumbered(g)
  <1>1. g \in Generations /\ Len(r) = Len(g) /\ Len(g) \in Nat /\ History!Top(g) \in Nat
    BY AuthorityShape, RenumberedLength, TopInRange, MigrationAssumption DEF Generations
  <1>2. Count(b) = Count(a)
    BY <1>1 DEF Count
  <1>3. Maximum(b) = History!Top(g) + Len(g)
    <2>1. CASE Len(g) = 0
      <3>1. g = <<>> /\ r = <<>>
        BY <1>1, <2>1 DEF Generations, History!Renumbered
      <3> QED BY <1>1, <2>1, <3>1 DEF Maximum, History!Top
    <2>2. CASE Len(g) # 0
      <3>1. Len(g) \in 1 .. Len(g) /\ r # <<>>
        BY <1>1, <2>2
      <3> QED BY <1>1, <3>1 DEF Maximum, History!Renumbered
    <2> QED BY <2>1, <2>2
  <1> QED BY <1>2, <1>3, CountsOf DEF Count

\* A schedule of compactions, and one compaction more.
LEMMA SpreadGrows ==
    ASSUME NEW d \in Nat, NEW lower \in Nat, NEW upper \in Nat, NEW p \in Nat,
           lower \leq upper, upper \leq p
    PROVE  /\ Spread(0, lower, p)
           /\ Spread(d, lower, upper) => Spread(d, lower, p) /\ Spread(d + upper, lower, p)
  <1>1. Spread(0, lower, p)
    <2>1. 0 * lower \leq 0 /\ 0 \leq 0 * p
      OBVIOUS
    <2> QED BY <2>1 DEF Spread
  <1>2. ASSUME Spread(d, lower, upper)
        PROVE  Spread(d, lower, p) /\ Spread(d + upper, lower, p)
    <2>1. PICK k \in Nat : k * lower \leq d /\ d \leq k * upper
      BY <1>2 DEF Spread
    <2>2. k * upper \leq k * p /\ k * upper \in Nat /\ k * p \in Nat /\ k * lower \in Nat
      BY TimesMonotone
    <2>3. d \leq k * p
      BY <2>1, <2>2
    <2>4. (k + 1) * lower = k * lower + lower /\ (k + 1) * p = k * p + p
      OBVIOUS
    <2>5. (k + 1) * lower \leq d + upper /\ d + upper \leq (k + 1) * p
      BY <2>1, <2>2, <2>3, <2>4
    <2>6. k + 1 \in Nat
      OBVIOUS
    <2> QED BY <2>1, <2>3, <2>5, <2>6 DEF Spread
  <1> QED BY <1>1, <1>2

\* The sums that compactions of `lower` up to at most `count` publications make, the last
\* being the largest.
Compactions(residual, lower, count) ==
    \/ residual = 0
    \/ \E last \in Nat :
         /\ lower \leq last /\ last \leq count /\ last \leq residual
         /\ Spread(residual - last, lower, last)

LEMMA SameFormatIs ==
    ASSUME NEW residual \in Nat, NEW lower \in Nat \ {0}, NEW count \in Nat
    PROVE  Compactions(residual, lower, count) <=>
              \/ residual = 0
              \/ \E last \in lower .. Lesser(count, residual) :
                    Reachable(residual - last, lower, last)
  <1>1. ASSUME NEW last \in Nat, lower \leq last, last \leq residual
        PROVE  Reachable(residual - last, lower, last) <=> Spread(residual - last, lower, last)
    <2>1. residual - last \in Nat
      BY <1>1
    <2> QED BY <1>1, <2>1, SolverExact
  <1>2. \A last : last \in lower .. Lesser(count, residual) <=>
                    last \in Nat /\ lower \leq last /\ last \leq count /\ last \leq residual
    BY DEF Lesser
  <1> QED BY <1>1, <1>2 DEF Compactions

LEMMA CompactionsGrow ==
    ASSUME NEW residual \in Nat, NEW lower \in Nat \ {0}, NEW count \in Nat,
           Compactions(residual, lower, count)
    PROVE  /\ Compactions(residual, lower, count + 1)
           /\ lower \leq count =>
                /\ Spread(residual, lower, count)
                /\ Compactions(residual + count, lower, count)
  <1>1. Compactions(residual, lower, count + 1)
    BY DEF Compactions
  <1>2. ASSUME lower \leq count PROVE Spread(residual, lower, count)
    <2>1. CASE residual = 0
      BY <1>2, <2>1, SpreadGrows
    <2>2. ASSUME NEW last \in Nat, lower \leq last, last \leq count, last \leq residual,
                 Spread(residual - last, lower, last)
          PROVE  Spread(residual, lower, count)
      <3>1. residual - last \in Nat /\ (residual - last) + last = residual
        BY <2>2
      <3> QED BY <2>2, <3>1, SpreadGrows
    <2> QED BY <2>1, <2>2 DEF Compactions
  <1>3. ASSUME lower \leq count PROVE Compactions(residual + count, lower, count)
    <2>1. (residual + count) - count = residual /\ count \leq residual + count
      OBVIOUS
    <2> QED BY <1>2, <1>3, <2>1 DEF Compactions
  <1> QED BY <1>1, <1>2, <1>3

\* The same with one migration in between, from which on v3 compactions follow.
Migrated(residual, lower, sealed, count) ==
    \E m \in Nat :
        /\ sealed \leq m /\ m \leq count /\ m \leq residual
        /\ \/ m = 0 /\ residual - m = 0
           \/ m # 0 /\ Spread(residual - m, lower, m)
           \/ \E last \in Nat :
                /\ 1 \leq last /\ m \leq last /\ last \leq count /\ last \leq residual - m
                /\ Spread((residual - m) - last, lower, last)

LEMMA MigrationIs ==
    ASSUME NEW residual \in Nat, NEW sealed \in Nat, NEW count \in Nat
    PROVE  LET lower == Greater(1, sealed)
           IN  Migrated(residual, lower, sealed, count) <=>
                 \E m \in sealed .. Lesser(count, residual) :
                   \/ IF m = 0 THEN residual - m = 0 ELSE Reachable(residual - m, lower, m)
                   \/ \E last \in Greater(1, m) .. Lesser(count, residual - m) :
                        Reachable((residual - m) - last, lower, last)
  <1> DEFINE lower == Greater(1, sealed)
  <1>1. lower \in Nat \ {0} /\ sealed \leq lower
        /\ \A m \in Nat : m # 0 /\ sealed \leq m => lower \leq m
    BY DEF Greater
  <1>2. \A m : m \in sealed .. Lesser(count, residual) <=>
                 m \in Nat /\ sealed \leq m /\ m \leq count /\ m \leq residual
    BY DEF Lesser
  <1>3. ASSUME NEW m \in Nat, sealed \leq m, m \leq count, m \leq residual
        PROVE  /\ m # 0 => (Reachable(residual - m, lower, m)
                              <=> Spread(residual - m, lower, m))
               /\ \A last : last \in Greater(1, m) .. Lesser(count, residual - m) <=>
                     /\ last \in Nat
                     /\ 1 \leq last /\ m \leq last /\ last \leq count /\ last \leq residual - m
               /\ \A last \in Greater(1, m) .. Lesser(count, residual - m) :
                     Reachable((residual - m) - last, lower, last)
                       <=> Spread((residual - m) - last, lower, last)
    <2>1. residual - m \in Nat
      BY <1>3
    <2> HIDE DEF lower
    <2>2. m # 0 => (Reachable(residual - m, lower, m) <=> Spread(residual - m, lower, m))
      BY <1>1, <1>3, <2>1, SolverExact
    <2>3. \A last : last \in Greater(1, m) .. Lesser(count, residual - m) <=>
             /\ last \in Nat
             /\ 1 \leq last /\ m \leq last /\ last \leq count /\ last \leq residual - m
      BY <1>3, <2>1 DEF Greater, Lesser
    <2>4. ASSUME NEW last \in Nat, 1 \leq last, m \leq last, last \leq residual - m
          PROVE  Reachable((residual - m) - last, lower, last)
                   <=> Spread((residual - m) - last, lower, last)
      <3>1. (residual - m) - last \in Nat /\ lower \leq last
        BY <1>1, <1>3, <2>1, <2>4
      <3> QED BY <1>1, <2>4, <3>1, SolverExact
    <2> QED BY <2>2, <2>3, <2>4
  <1> HIDE DEF lower
  <1>4. ASSUME NEW m \in Nat, sealed \leq m, m \leq count, m \leq residual
        PROVE  (\/ m = 0 /\ residual - m = 0
                \/ m # 0 /\ Spread(residual - m, lower, m)
                \/ \E last \in Nat :
                     /\ 1 \leq last /\ m \leq last /\ last \leq count /\ last \leq residual - m
                     /\ Spread((residual - m) - last, lower, last))
               <=>
               (\/ IF m = 0 THEN residual - m = 0 ELSE Reachable(residual - m, lower, m)
                \/ \E last \in Greater(1, m) .. Lesser(count, residual - m) :
                     Reachable((residual - m) - last, lower, last))
    <2>1. (\E last \in Nat :
                     /\ 1 \leq last /\ m \leq last /\ last \leq count /\ last \leq residual - m
                     /\ Spread((residual - m) - last, lower, last))
          <=> \E last \in Greater(1, m) .. Lesser(count, residual - m) :
                     Reachable((residual - m) - last, lower, last)
      BY <1>3, <1>4
    <2> QED BY <1>3, <1>4, <2>1
  <1> QED BY <1>2, <1>4, Zenon DEF Migrated, lower

LEMMA MigratedGrows ==
    ASSUME NEW residual \in Nat, NEW sealed \in Nat, NEW count \in Nat,
           NEW lower \in Nat \ {0}, lower = Greater(1, sealed),
           Migrated(residual, lower, sealed, count)
    PROVE  /\ Migrated(residual, lower, sealed, count + 1)
           /\ lower \leq count => Migrated(residual + count, lower, sealed, count)
  <1>1. Migrated(residual, lower, sealed, count + 1)
    <2>1. \A n \in Nat : n \leq count => n \leq count + 1
      OBVIOUS
    <2>2. count + 1 \in Nat
      OBVIOUS
    <2> QED BY <2>1, <2>2, Zenon DEF Migrated
  <1>2. ASSUME lower \leq count PROVE Migrated(residual + count, lower, sealed, count)
    <2>1. PICK m \in Nat :
        /\ sealed \leq m /\ m \leq count /\ m \leq residual
        /\ \/ m = 0 /\ residual - m = 0
           \/ m # 0 /\ Spread(residual - m, lower, m)
           \/ \E last \in Nat :
                /\ 1 \leq last /\ m \leq last /\ last \leq count /\ last \leq residual - m
                /\ Spread((residual - m) - last, lower, last)
      BY DEF Migrated
    <2>2. residual - m \in Nat
      BY <2>1
    <2>3. \A x \in Nat : x # 0 /\ m \leq x => lower \leq x
      BY <2>1 DEF Greater
    <2>4. Spread(residual - m, lower, count)
      <3>1. CASE m = 0 /\ residual - m = 0
        BY <1>2, <3>1, SpreadGrows
      <3>2. CASE m # 0 /\ Spread(residual - m, lower, m)
        BY <2>1, <2>2, <2>3, <3>2, SpreadGrows
      <3>3. ASSUME NEW last \in Nat, 1 \leq last, m \leq last, last \leq count,
                   last \leq residual - m, Spread((residual - m) - last, lower, last)
            PROVE  Spread(residual - m, lower, count)
        <4>1. (residual - m) - last \in Nat /\ ((residual - m) - last) + last = residual - m
          BY <2>2, <3>3
        <4>2. lower \leq last
          BY <2>3, <3>3
        <4> QED BY <3>3, <4>1, <4>2, SpreadGrows
      <3> QED BY <2>1, <3>1, <3>2, <3>3
    <2>5. /\ 1 \leq count /\ m \leq count /\ count \leq (residual + count) - m
          /\ ((residual + count) - m) - count = residual - m
          /\ m \leq residual + count
      BY <1>2, <2>1, <2>2
    <2>6. Spread(((residual + count) - m) - count, lower, count)
      BY <2>4, <2>5
    <2>7. count \leq count
      OBVIOUS
    <2> QED BY <2>1, <2>5, <2>6, <2>7, Zenon DEF Migrated
  <1> QED BY <1>1, <1>2

LEMMA MigrationSpread ==
    ASSUME NEW residual \in Nat, NEW sealed \in Nat, NEW count \in Nat, sealed \leq count,
           NEW lower \in Nat \ {0}, lower = Greater(1, sealed),
           Compactions(residual, lower, count)
    PROVE  Migrated(residual + count, lower, sealed, count)
  <1>1. (residual + count) - count = residual /\ count \leq residual + count
    OBVIOUS
  <1>2. CASE count = 0
    <2>1. residual = 0
      BY <1>2 DEF Compactions
    <2>2. residual + count = 0 /\ sealed \leq 0 /\ 0 \leq count
      BY <1>2, <2>1
    <2>3. 0 \leq 0 /\ 0 - 0 = 0 /\ 0 \in Nat
      OBVIOUS
    <2> QED BY <2>2, <2>3, Zenon DEF Migrated
  <1>3. CASE count # 0
    <2>1. lower \leq count
      BY <1>3 DEF Greater
    <2>2. Spread(residual, lower, count)
      BY <2>1, CompactionsGrow
    <2> QED BY <1>1, <1>3, <2>2 DEF Migrated
  <1> QED BY <1>2, <1>3

\* The authority a is what the sealed source s may have become.
Grown(s, a) ==
    /\ s \in History!Authorities
    /\ s.format = "legacy_v2"
    /\ Count(s) \leq Count(a)
    /\ Residual(s, a) \in Nat
    /\ IF a.format = "legacy_v2"
       THEN Compactions(Residual(s, a), LowerPopulation(s), Count(a))
       ELSE Migrated(Residual(s, a), LowerPopulation(s), Count(s), Count(a))

LEMMA GrownAtFirst ==
    ASSUME NEW a \in History!Authorities, a.format = "legacy_v2"
    PROVE  Grown(a, a)
  <1>1. Count(a) \in Nat /\ Maximum(a) \in Nat
    BY CountsOf
  <1>2. Residual(a, a) = 0
    BY <1>1 DEF Residual
  <1> QED BY <1>1, <1>2 DEF Grown, Compactions

LEMMA GrownKept ==
    ASSUME NEW s, NEW a \in History!Authorities, NEW b \in History!Authorities, Grown(s, a),
           \/ /\ History!PublishEdge(a, b) \/ History!CompactEdge(a, b)
              /\ b.format = a.format
           \/ History!MigrateEdge(a, b)
    PROVE  Grown(s, b)
  <1> DEFINE r == Residual(s, a)
             l == LowerPopulation(s)
  <1>1. /\ Count(s) \in Nat /\ Maximum(s) \in Nat /\ Count(a) \in Nat /\ Maximum(a) \in Nat
        /\ Count(b) \in Nat /\ Maximum(b) \in Nat
    BY CountsOf DEF Grown
  <1>2. l \in Nat \ {0} /\ l = Greater(1, Count(s)) /\ r \in Nat /\ Count(s) \leq Count(a)
    BY <1>1 DEF LowerPopulation, Greater, Grown
  <1>3. Count(a) # 0 => l \leq Count(a)
    BY <1>1, <1>2 DEF Greater
  <1>4. CASE History!PublishEdge(a, b)
    <2>1. b.format = a.format /\ Count(b) = Count(a) + 1 /\ Maximum(b) = Maximum(a) + 1
      BY <1>4, PublishCounts
    <2>2. Residual(s, b) = r
      BY <1>1, <2>1 DEF Residual
    <2> HIDE DEF r, l
    <2>3. CASE a.format = "legacy_v2"
      <3>1. Compactions(r, l, Count(a))
        BY <2>3 DEF Grown, r, l
      <3>2. Compactions(r, l, Count(b))
        BY <1>1, <1>2, <2>1, <3>1, CompactionsGrow
      <3> QED BY <1>1, <1>2, <2>1, <2>2, <2>3, <3>2 DEF Grown, l
    <2>4. CASE a.format # "legacy_v2"
      <3>1. Migrated(r, l, Count(s), Count(a))
        BY <2>4 DEF Grown, r, l
      <3>2. Migrated(r, l, Count(s), Count(b))
        BY <1>1, <1>2, <2>1, <3>1, MigratedGrows
      <3> QED BY <1>1, <1>2, <2>1, <2>2, <2>4, <3>2 DEF Grown, l
    <2> QED BY <2>3, <2>4
  <1>5. ASSUME Count(b) = Count(a), Maximum(b) = Maximum(a) + Count(a)
        PROVE  Residual(s, b) = r + Count(a)
    BY <1>1, <1>5 DEF Residual
  <1>6. CASE History!CompactEdge(a, b) /\ b.format = a.format
    <2>1. b = [format |-> a.format, generations |-> History!Renumbered(a.generations)]
      BY <1>6, AuthorityShape DEF History!CompactEdge
    <2>2. Count(b) = Count(a) /\ Maximum(b) = Maximum(a) + Count(a)
      BY <2>1, ResetCounts
    <2>3. Residual(s, b) = r + Count(a)
      BY <1>5, <2>2
    <2> HIDE DEF r, l
    <2>4. CASE Count(a) = 0
      <3>1. Residual(s, b) = r
        BY <1>2, <2>3, <2>4
      <3> QED BY <1>6, <2>2, <3>1 DEF Grown, r
    <2>5. CASE Count(a) # 0 /\ a.format = "legacy_v2"
      <3>1. Compactions(r, l, Count(a))
        BY <2>5 DEF Grown, r, l
      <3>2. Compactions(r + Count(a), l, Count(a))
        BY <1>1, <1>2, <1>3, <2>5, <3>1, CompactionsGrow
      <3> QED BY <1>1, <1>2, <1>6, <2>2, <2>3, <2>5, <3>2 DEF Grown, l
    <2>6. CASE Count(a) # 0 /\ a.format # "legacy_v2"
      <3>1. Migrated(r, l, Count(s), Count(a))
        BY <2>6 DEF Grown, r, l
      <3>2. Migrated(r + Count(a), l, Count(s), Count(a))
        BY <1>1, <1>2, <1>3, <2>6, <3>1, MigratedGrows
      <3> QED BY <1>1, <1>2, <1>6, <2>2, <2>3, <2>6, <3>2 DEF Grown, l
    <2> QED BY <2>4, <2>5, <2>6
  <1>7. CASE History!MigrateEdge(a, b)
    <2>1. /\ b = [format |-> "current_v3", generations |-> History!Renumbered(a.generations)]
          /\ a.format = "legacy_v2"
      BY <1>7 DEF History!MigrateEdge
    <2>2. Count(b) = Count(a) /\ Maximum(b) = Maximum(a) + Count(a)
      BY <2>1, ResetCounts
    <2>3. Residual(s, b) = r + Count(a)
      BY <1>5, <2>2
    <2> HIDE DEF r, l
    <2>4. Compactions(r, l, Count(a))
      BY <2>1 DEF Grown, r, l
    <2>5. Migrated(r + Count(a), l, Count(s), Count(a))
      BY <1>1, <1>2, <2>4, MigrationSpread
    <2>6. b.format # "legacy_v2"
      BY <2>1
    <2> QED BY <1>1, <1>2, <2>2, <2>3, <2>5, <2>6 DEF Grown, l
  <1> QED BY <1>4, <1>6, <1>7

\* What has grown out of a source, the reclassifier takes for its descendant.
LEMMA GrownDescends ==
    ASSUME NEW s, NEW a \in History!Authorities, Grown(s, a)
    PROVE  Descends(s, a)
  <1> DEFINE r == Residual(s, a)
             l == LowerPopulation(s)
  <1>1. /\ Count(s) \in Nat /\ Maximum(s) \in Nat /\ Count(a) \in Nat
        /\ l \in Nat \ {0} /\ l = Greater(1, Count(s)) /\ r \in Nat
    BY CountsOf DEF Grown, LowerPopulation, Greater
  <1>2. s.format = "legacy_v2" /\ Count(a) \geq Count(s) /\ r \geq 0
    BY <1>1 DEF Grown
  <1>3. CASE a.format = "legacy_v2"
    <2>1. SameFormatReached(s, a)
      <3>1. Compactions(r, l, Count(a))
        BY <1>3 DEF Grown
      <3> QED BY <1>1, <3>1, SameFormatIs DEF SameFormatReached
    <2> QED BY <1>2, <1>3, <2>1 DEF Descends
  <1>4. CASE a.format # "legacy_v2"
    <2>1. MigrationReached(s, a)
      <3>1. Migrated(r, l, Count(s), Count(a))
        BY <1>4 DEF Grown
      <3> HIDE DEF r, l
      <3>2. \E m \in Count(s) .. Lesser(Count(a), r) :
              \/ IF m = 0 THEN r - m = 0 ELSE Reachable(r - m, l, m)
              \/ \E last \in Greater(1, m) .. Lesser(Count(a), r - m) :
                    Reachable((r - m) - last, l, last)
        BY <1>1, <3>1, MigrationIs
      <3> QED BY <3>2 DEF MigrationReached, r, l
    <2> QED BY <1>2, <1>4, <2>1 DEF Descends
  <1> QED BY <1>3, <1>4

\* Where a process is when it has sealed nothing.
Resting == {"closed", "idle", "opened", "coordinated", "returned"}

\* What a call keeps of the database it found and of the one it made.
Traced(h) ==
    /\ source[h] # None => Grown(source[h], authority)
    /\ candidate[h] # None => source[h] # None /\ ValidCandidate(source[h], candidate[h])
    /\ pc[h] \in Resting => source[h] = None

AllTraced == \A h \in Handles : Traced(h)

DInv == TInv /\ AllTraced

\* What one step can do to them.
CallStep(h) ==
    \/ /\ source'[h] = source[h] /\ candidate'[h] = candidate[h]
       /\ pc'[h] \in Resting => pc[h] \in Resting
    \/ source'[h] = None /\ candidate'[h] = None
    \/ Begin(h)
    \/ Build(h)

LEMMA NextIsCallStep ==
    ASSUME TInv, [Next]_vars, NEW h \in Handles
    PROVE  CallStep(h)
  <1> USE DEF CallStep, Resting
  <1>1. CASE UNCHANGED vars
    BY <1>1 DEF vars, call
  <1>2. CASE LegacyWrite
    BY <1>2 DEF LegacyWrite, call
  <1>3. ASSUME NEW k \in Handles,
               \/ Open(k) \/ Exit(k) \/ CurrentWrite(k)
               \/ Start(k) \/ Coordinate(k) \/ Refused(k)
               \/ BeginFails(k) \/ Begin(k) \/ Build(k) \/ BuildFails(k) \/ Commit(k)
               \/ Release(k) \/ Reopen(k) \/ ReopenFails(k) \/ Resolve(k)
               \/ ResolveStopped(k) \/ Return(k)
        PROVE  CallStep(h)
    <2> USE DEF TInv, TypeOK, Goto, Tell, ForgetCall, call
    <2>1. CASE Open(k) \/ CurrentWrite(k) \/ Return(k)
      BY <2>1 DEF Open, CurrentWrite, Return
    <2>2. CASE Exit(k) \/ Refused(k)
      <3>1. /\ pc'[k] \in Resting
            /\ source' = [source EXCEPT ![k] = None] /\ candidate' = [candidate EXCEPT ![k] = None]
            /\ k # h => pc'[h] = pc[h]
        BY <2>2 DEF Exit, Refused
      <3> QED BY <3>1
    <2>3. CASE Start(k) \/ Coordinate(k) \/ BeginFails(k)
      BY <2>3 DEF Start, Coordinate, BeginFails
    <2>4. CASE (Begin(k) \/ Build(k)) /\ k # h
      BY <2>4 DEF Begin, Build
    <2>5. CASE BuildFails(k) \/ Commit(k)
      BY <2>5 DEF BuildFails, Commit
    <2>6. CASE Release(k) \/ Reopen(k)
      BY <2>6 DEF Release, Reopen
    <2>7. CASE ReopenFails(k) \/ Resolve(k) \/ ResolveStopped(k)
      BY <2>7 DEF ReopenFails, Resolve, ResolveStopped
    <2> QED BY <1>3, <2>1, <2>2, <2>3, <2>4, <2>5, <2>6, <2>7
  <1> QED BY <1>1, <1>2, <1>3 DEF Next

\* In one step the authority only grows.
LEMMA GrownNext ==
    ASSUME TInv, [Next]_vars, NEW s, Grown(s, authority)
    PROVE  Grown(s, authority')
  <1>1. authority \in History!Authorities /\ authority' \in History!Authorities
    BY TypeKept DEF TInv, TypeOK
  <1>2. AuthorityStep
    BY NextIsAuthorityStep
  <1> QED BY <1>1, <1>2, GrownKept DEF AuthorityStep

LEMMA BuiltIsValid ==
    ASSUME TInv, NEW h \in Handles, Build(h)
    PROVE  ValidCandidate(source[h], Candidate(h)) /\ source[h] \in History!Authorities
  <1>1. source[h] = authority /\ authority \in History!Authorities
    BY DEF Build, TInv, Transactions, Sealed, TypeOK
  <1>2. Candidate(h) = [format |-> "current_v3",
                        generations |-> History!Renumbered(source[h].generations)]
    BY DEF Candidate
  <1> QED BY <1>1, <1>2, ResetCounts DEF ValidCandidate

LEMMA TracedKept ==
    ASSUME DInv, [Next]_vars
    PROVE  AllTraced'
  <1> SUFFICES ASSUME NEW h \in Handles PROVE Traced(h)'
    BY DEF AllTraced
  <1> USE DEF DInv
  <1>1. Traced(h) /\ CallStep(h)
    BY NextIsCallStep DEF AllTraced
  <1>2. CASE source'[h] = None /\ candidate'[h] = None
    BY <1>2 DEF Traced
  <1>3. CASE Begin(h)
    <2>1. /\ source[h] = None /\ candidate[h] = None /\ candidate' = candidate
          /\ authority' = authority /\ pc'[h] \notin Resting
      BY <1>1, <1>3 DEF Traced, Begin, Armed, Resting, Goto, TInv, TypeOK
    <2>2. CASE source'[h] = None
      BY <2>1, <2>2 DEF Traced
    <2>3. CASE source'[h] = authority /\ authority.format = "legacy_v2"
      <3>1. Grown(authority, authority)
        BY <2>3, GrownAtFirst DEF TInv, TypeOK
      <3> QED BY <2>1, <2>3, <3>1 DEF Traced
    <2> QED BY <1>3, <2>1, <2>2, <2>3 DEF Begin, SourceUnderLock, TInv, TypeOK
  <1>4. CASE Build(h)
    <2>1. /\ source' = source /\ candidate'[h] = Candidate(h) /\ authority' = authority
          /\ pc'[h] \notin Resting
      BY <1>4 DEF Build, Resting, Goto, TInv, TypeOK, database
    <2>2. ValidCandidate(source[h], Candidate(h)) /\ source[h] # None
      BY <1>4, BuiltIsValid, NoneAssumption
    <2> QED BY <1>1, <2>1, <2>2 DEF Traced
  <1>5. CASE /\ source'[h] = source[h] /\ candidate'[h] = candidate[h]
             /\ pc'[h] \in Resting => pc[h] \in Resting
    <2>1. source[h] # None => Grown(source[h], authority')
      BY <1>1, GrownNext DEF Traced
    <2>2. pc'[h] \in Resting => source'[h] = None
      BY <1>1, <1>5 DEF Traced
    <2> QED BY <1>1, <1>5, <2>1, <2>2 DEF Traced
  <1> QED BY <1>1, <1>2, <1>3, <1>4, <1>5 DEF CallStep

\* What others make of the database that a call has sealed is never taken for a
\* concurrent replacement: however many publications, compactions and the migration come
\* in between, the reclassifier finds how they add up
\* (sqlite_terminal_reclassifier_internal.cpp:440).
THEOREM DescendantAlwaysRecognised == Spec => []DescendantRecognised
  <1>1. Init => DInv
    <2> SUFFICES ASSUME Init PROVE TInv /\ AllTraced
      BY DEF DInv
    <2>1. AllTraced
      BY DEF Init, AllTraced, Traced
    <2> QED BY <2>1, TInvInit
  <1>2. DInv /\ [Next]_vars => DInv'
    <2> SUFFICES ASSUME DInv, [Next]_vars PROVE TInv' /\ AllTraced'
      BY DEF DInv
    <2> QED BY TypeKept, TransactionsKept, TracedKept DEF DInv, TInv
  <1>3. DInv => DescendantRecognised
    <2> SUFFICES ASSUME DInv, NEW h \in Handles, source[h] # None
                 PROVE  /\ Descends(source[h], authority)
                        /\ candidate[h] # None =>
                             Classify(source[h], candidate[h], authority) =
                                 IF authority = source[h] THEN "pre_state"
                                 ELSE IF authority.format = "current_v3" THEN "with_edge"
                                 ELSE "without_edge"
      BY DEF DescendantRecognised
    <2>1. Grown(source[h], authority) /\ authority \in History!Authorities
      BY DEF DInv, AllTraced, Traced, TInv, TypeOK
    <2>2. Descends(source[h], authority)
      BY <2>1, GrownDescends
    <2>3. candidate[h] # None => ValidCandidate(source[h], candidate[h])
      BY DEF DInv, AllTraced, Traced
    <2>4. source[h].format = "legacy_v2" /\ authority.format \in {"legacy_v2", "current_v3"}
      BY <2>1, AuthorityShape DEF Grown, History!Formats
    <2> QED BY <2>2, <2>3, <2>4, Zenon DEF Classify
  <1> QED BY <1>1, <1>2, <1>3, PTL DEF Spec

-----------------------------------------------------------------------------
(* What the caller is told *)

Truthful(h) ==
    /\ result[h] = "recovered_success" =>
          authority.format = "current_v3" /\ view[h].format = "current_v3"
    /\ result[h] \in {"original_trigger", "refused", "concurrent_authority_change"} =>
          ~ applied[h]
    /\ applied[h] /\ availability[h] = "available" => result[h] = "recovered_success"

\* What is known of a call whose transaction took effect, and of what the reopen found.
Told(h) ==
    /\ applied[h] =>
         /\ authority.format = "current_v3"
         /\ pc[h] \in {"concluding", "released", "reopened", "returned"}
         /\ pc[h] # "returned" => candidate[h] # None
    /\ pc[h] = "released" => source[h] # None
    /\ pc[h] = "reopened" =>
         /\ source[h] # None
         /\ found[h] \in History!Authorities
         /\ Grown(source[h], found[h])
         /\ found[h].format = "current_v3" => authority.format = "current_v3"
         /\ applied[h] => found[h].format = "current_v3"
    /\ pc[h] = "returned" => Truthful(h)

AllTold == \A h \in Handles : Told(h)

OInv == DInv /\ AllTold

Outcome(h) == <<pc[h], applied[h], candidate[h], source[h], found[h], result[h],
                availability[h], view[h]>>

LEMMA ToldByOthers ==
    ASSUME OInv, [Next]_vars, NEW h \in Handles, Outcome(h)' = Outcome(h)
    PROVE  Told(h)'
  <1>1. Told(h)
    BY DEF OInv, AllTold
  <1>2. authority.format = "current_v3" => authority'.format = "current_v3"
    BY FormatStays DEF OInv, DInv
  <1> QED BY <1>1, <1>2 DEF Outcome, Told, Truthful

LEMMA OnlyItsOwnOutcome ==
    ASSUME TypeOK, NEW h \in Handles, NEW k \in Handles, k # h,
           \/ Open(k) \/ Exit(k) \/ CurrentWrite(k)
           \/ Start(k) \/ Coordinate(k) \/ Refused(k)
           \/ BeginFails(k) \/ Begin(k) \/ Build(k) \/ BuildFails(k) \/ Commit(k)
           \/ Release(k) \/ Reopen(k) \/ ReopenFails(k) \/ Resolve(k)
           \/ ResolveStopped(k) \/ Return(k)
    PROVE  Outcome(h)' = Outcome(h)
  <1> USE DEF Outcome, TypeOK, Goto, Tell, ForgetCall, Poison, call, handle, database
  <1>1. CASE Open(k) \/ CurrentWrite(k) \/ Return(k)
    BY <1>1 DEF Open, CurrentWrite, Return
  <1>2. CASE Exit(k)
    BY <1>2 DEF Exit
  <1>3. CASE Start(k) \/ Coordinate(k) \/ Refused(k) \/ BeginFails(k)
    BY <1>3 DEF Start, Coordinate, Refused, BeginFails
  <1>4. CASE Begin(k) \/ Build(k) \/ BuildFails(k) \/ Commit(k)
    BY <1>4 DEF Begin, Build, BuildFails, Commit
  <1>5. CASE Release(k) \/ Reopen(k)
    BY <1>5 DEF Release, Reopen
  <1>6. CASE ReopenFails(k) \/ Resolve(k) \/ ResolveStopped(k)
    BY <1>6 DEF ReopenFails, Resolve, ResolveStopped
  <1> QED BY <1>1, <1>2, <1>3, <1>4, <1>5, <1>6

\* Before it is clear how the transaction ended.
LEMMA ToldBefore ==
    ASSUME OInv, NEW h \in Handles,
           \/ Open(h) \/ Exit(h) \/ CurrentWrite(h) \/ Return(h) \/ Start(h) \/ Coordinate(h)
           \/ Refused(h) \/ BeginFails(h) \/ Begin(h) \/ Build(h) \/ BuildFails(h)
    PROVE  Told(h)'
  <1>1. Told(h) /\ TypeOK
    BY DEF OInv, AllTold, DInv, TInv
  <1> USE <1>1 DEF Told, TypeOK, Goto
  <1>2. CASE Open(h) \/ CurrentWrite(h) \/ Start(h) \/ Coordinate(h)
    BY <1>2 DEF Open, CurrentWrite, Start, Coordinate, database, call
  <1>3. CASE Exit(h) \/ Return(h)
    <2>1. pc'[h] \in {"closed", "idle"} /\ ~applied'[h]
      BY <1>3 DEF Exit, Return
    <2> QED BY <2>1
  <1>4. CASE Refused(h)
    <2>1. /\ pc[h] \in {"opened", "coordinated"} /\ pc'[h] = "returned" /\ applied' = applied
          /\ result'[h] = "refused"
      BY <1>4 DEF Refused, Tell, Results
    <2> QED BY <2>1 DEF Truthful
  <1>5. CASE BeginFails(h) \/ Begin(h) \/ Build(h) \/ BuildFails(h)
    <2>1. /\ pc[h] \in {"coordinated", "began"} /\ applied' = applied
          /\ pc'[h] \in {"began", "built", "concluding"}
      BY <1>5 DEF BeginFails, Begin, Build, BuildFails, Armed, call
    <2> QED BY <2>1
  <1> QED BY <1>2, <1>3, <1>4, <1>5

\* The class of what was found, of a call that has taken effect.
LEMMA FoundClass ==
    ASSUME NEW h \in Handles, DInv, Told(h), pc[h] = "reopened"
    PROVE  LET class == Classify(source[h], candidate[h], found[h])
           IN  /\ class = "with_edge" => found[h].format = "current_v3"
               /\ applied[h] => class = "with_edge"
  <1> DEFINE s == source[h]
             c == candidate[h]
             f == found[h]
  <1>1. s # None /\ f \in History!Authorities /\ Grown(s, f) /\ s.format = "legacy_v2"
        /\ (applied[h] => f.format = "current_v3" /\ c # None)
    BY DEF Told, Grown
  <1>2. Descends(s, f)
    BY <1>1, GrownDescends
  <1>3. c # None => ValidCandidate(s, c)
    BY DEF DInv, AllTraced, Traced
  <1>4. f.format \in {"legacy_v2", "current_v3"}
    BY <1>1, AuthorityShape DEF History!Formats
  <1> HIDE DEF s, c, f
  <1>5. Classify(s, c, f) = "with_edge" => f.format = "current_v3"
    BY <1>1, <1>3, <1>4, Zenon DEF Classify
  <1>6. f.format = "current_v3" => f # s
    BY <1>1
  <1>7. applied[h] => Classify(s, c, f) = "with_edge"
    BY <1>1, <1>2, <1>3, <1>6, Zenon DEF Classify
  <1> QED BY <1>5, <1>7 DEF s, c, f

LEMMA ToldAfter ==
    ASSUME OInv, [Next]_vars, NEW h \in Handles,
           Commit(h) \/ Release(h) \/ Reopen(h) \/ ReopenFails(h) \/ Resolve(h)
             \/ ResolveStopped(h)
    PROVE  Told(h)'
  <1>1. Told(h) /\ TypeOK /\ TInv /\ Traced(h) /\ DInv
    BY DEF OInv, AllTold, DInv, TInv, AllTraced
  <1> USE <1>1 DEF TypeOK, Goto
  <1>2. CASE Commit(h)
    <2>1. candidate[h].format = "current_v3" /\ candidate[h] # None /\ ~applied[h]
          /\ candidate' = candidate /\ pc'[h] = "concluding"
      <3>1. candidate[h].format = "current_v3"
        BY <1>2 DEF Commit, TInv, Transactions, Sealed
      <3>2. candidate[h] # None
        <4>1. candidate[h] \in History!Authorities
          BY <1>2, BuiltIsAuthority DEF Commit
        <4> QED BY <4>1, NoneAssumption
      <3> QED BY <1>2, <3>1, <3>2 DEF Commit, Told
    <2>2. applied'[h] => authority' = candidate[h]
      BY <1>2 DEF Commit, Committed
    <2> QED BY <2>1, <2>2 DEF Told
  <1>3. CASE Release(h)
    <2>1. pc[h] = "concluding" /\ authority' = authority
          /\ \/ Goto(h, "released") /\ source[h] # None /\ UNCHANGED <<availability, call>>
             \/ Poison(h) /\ Tell(h, "recovery_opaque")
      BY <1>3 DEF Release
    <2>2. CASE Goto(h, "released") /\ source[h] # None /\ UNCHANGED <<availability, call>>
      BY <2>1, <2>2 DEF Told, call
    <2>3. CASE Poison(h) /\ Tell(h, "recovery_opaque")
      BY <2>1, <2>3 DEF Told, Truthful, Poison, Tell
    <2> QED BY <2>1, <2>2, <2>3
  <1>4. CASE Reopen(h)
    <2>1. pc[h] = "released" /\ pc'[h] = "reopened" /\ found'[h] = authority
          /\ UNCHANGED <<authority, source, candidate, applied>>
      BY <1>4 DEF Reopen, database
    <2>2. Grown(source[h], authority)
      BY <2>1 DEF Told, Traced
    <2> QED BY <2>1, <2>2 DEF Told
  <1>5. CASE ReopenFails(h) \/ ResolveStopped(h)
    <2>1. pc[h] \in {"released", "reopened"} /\ Poison(h) /\ Tell(h, "recovery_opaque")
          /\ authority' = authority
      BY <1>5 DEF ReopenFails, ResolveStopped, database
    <2> QED BY <2>1 DEF Told, Truthful, Poison, Tell
  <1>6. CASE Resolve(h)
    <2> DEFINE class == Classify(source[h], candidate[h], found[h])
    <2>1. /\ class = "with_edge" => found[h].format = "current_v3"
          /\ applied[h] => class = "with_edge"
      BY <1>6, FoundClass DEF Resolve
    <2> HIDE DEF class
    <2>2. /\ pc[h] = "reopened" /\ pc'[h] = "returned" /\ UNCHANGED <<authority, applied>>
          /\ result'[h] = PublicResult(phase[h], class)
          /\ Installs(class) => view'[h] = found[h]
      BY <1>6 DEF Resolve, Tell, database, class
    <2>3. /\ class = "with_edge" <=> result'[h] = "recovered_success"
          /\ class = "with_edge" => Installs(class)
      BY <2>2, Zenon DEF PublicResult, Installs, Authorized
    <2> QED BY <2>1, <2>2, <2>3 DEF Told, Truthful
  <1> QED BY <1>2, <1>3, <1>4, <1>5, <1>6

LEMMA ToldKept ==
    ASSUME OInv, [Next]_vars
    PROVE  AllTold'
  <1> SUFFICES ASSUME NEW h \in Handles PROVE Told(h)'
    BY DEF AllTold
  <1>1. CASE UNCHANGED vars
    BY <1>1, ToldByOthers DEF vars, Outcome, handle, call
  <1>2. CASE LegacyWrite
    BY <1>2, ToldByOthers DEF LegacyWrite, Outcome, handle, call
  <1>3. ASSUME NEW k \in Handles,
               \/ Open(k) \/ Exit(k) \/ CurrentWrite(k)
               \/ Start(k) \/ Coordinate(k) \/ Refused(k)
               \/ BeginFails(k) \/ Begin(k) \/ Build(k) \/ BuildFails(k) \/ Commit(k)
               \/ Release(k) \/ Reopen(k) \/ ReopenFails(k) \/ Resolve(k)
               \/ ResolveStopped(k) \/ Return(k)
        PROVE  Told(h)'
    <2>1. CASE k = h
      BY <1>3, <2>1, ToldBefore, ToldAfter
    <2>2. CASE k # h
      BY <1>3, <2>2, OnlyItsOwnOutcome, ToldByOthers DEF OInv, DInv, TInv
    <2> QED BY <2>1, <2>2
  <1> QED BY <1>1, <1>2, <1>3 DEF Next

\* The caller is told what happened: an error that stands for "nothing done" is never the
\* answer of a call whose COMMIT took effect, also if the COMMIT reported a failure and
\* others wrote before the terminal reopen (store.cpp:9115).
THEOREM OutcomeAlwaysTruthful == Spec => []OutcomeTruthful
  <1>1. Init => OInv
    <2> SUFFICES ASSUME Init PROVE TInv /\ AllTraced /\ AllTold
      BY DEF OInv, DInv
    <2>1. AllTraced
      BY DEF Init, AllTraced, Traced
    <2>2. AllTold
      BY DEF Init, AllTold, Told
    <2> QED BY <2>1, <2>2, TInvInit
  <1>2. OInv /\ [Next]_vars => OInv'
    <2> SUFFICES ASSUME OInv, [Next]_vars PROVE TInv' /\ AllTraced' /\ AllTold'
      BY DEF OInv, DInv
    <2> QED BY TypeKept, TransactionsKept, TracedKept, ToldKept DEF OInv, DInv, TInv
  <1>3. OInv => OutcomeTruthful
    BY DEF OInv, AllTold, Told, Truthful, OutcomeTruthful
  <1> QED BY <1>1, <1>2, <1>3, PTL DEF Spec
=============================================================================
