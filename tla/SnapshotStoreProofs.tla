------------------------- MODULE SnapshotStoreProofs -------------------------
(***************************************************************************)
(* Proofs about SnapshotStore, for every number of handles, writers,       *)
(* series and snapshots, every basis relation and every counter limit.     *)
(***************************************************************************)
EXTENDS SnapshotStore, FiniteSetTheorems, WellFoundedInduction, TLAPS

Records(R) == \A r \in R : IsRecord(r)

Consistent(R, h) == CensusValid(R, h) /\ OneSequenceEach(R) /\ Chained(R)

-----------------------------------------------------------------------------
(* Lemmas about sets of records *)

\* MaxOf is what it is named for, on sets of numbers with a bound.
LEMMA MaxExists ==
    ASSUME NEW N \in Nat, NEW S, S \subseteq 0 .. N
    PROVE  /\ MaxOf(S) \in S \cup {0}
           /\ \A m \in S : m <= MaxOf(S)
  <1> DEFINE T == { N - n : n \in S \cup {0} }
  <1>1. T \subseteq Nat /\ T # {}
    OBVIOUS
  <1>2. PICK x \in T : \A y \in T : ~ (<<y, x>> \in OpToRel(<, Nat))
    <2> HIDE DEF T
    <2> QED BY <1>1, WFMin, NatLessThanWellFounded, Zenon
  <1>3. PICK n \in S \cup {0} : x = N - n
    OBVIOUS
  <1>4. \A m \in S : m <= n
    <2> TAKE m \in S
    <2>1. ~ (<<N - m, x>> \in OpToRel(<, Nat))
      BY <1>2
    <2>2. ~ (N - m < x)
      BY <2>1, <1>1, <1>2 DEF OpToRel
    <2> QED BY <2>2, <1>3
  <1> QED BY <1>4 DEF MaxOf

\* The latest generation of a set of records.
LEMMA LatestGeneration ==
    ASSUME NEW R, Records(R)
    PROVE  /\ MaxGeneration(R) \in 0 .. CounterMax
           /\ \A r \in Intact(R) : r.generation <= MaxGeneration(R)
  <1> DEFINE S == { r.generation : r \in Intact(R) }
  <1>1. S \subseteq 0 .. CounterMax
    BY DEF Records, IsRecord, Intact
  <1>2. MaxOf(S) \in S \cup {0} /\ \A m \in S : m <= MaxOf(S)
    <2> HIDE DEF S
    <2> QED BY <1>1, MaxExists, StoreAssumption
  <1> QED BY <1>1, <1>2, StoreAssumption DEF MaxGeneration

\* A series that is not empty has a head.
LEMMA HeadExists ==
    ASSUME NEW R, Records(R), NEW x, InSeries(R, x) # {}
    PROVE  /\ HeadRecord(R, x) \in InSeries(R, x)
           /\ \A q \in InSeries(R, x) : q.sequence <= HeadRecord(R, x).sequence
  <1> DEFINE S == { r.sequence : r \in InSeries(R, x) }
  <1>1. S \subseteq 1 .. CounterMax
    BY DEF Records, IsRecord, InSeries
  <1>2. MaxOf(S) \in S \cup {0} /\ \A m \in S : m <= MaxOf(S)
    <2>1. S \subseteq 0 .. CounterMax
      BY <1>1
    <2> HIDE DEF S
    <2> QED BY <2>1, MaxExists, StoreAssumption
  <1>3. MaxOf(S) \in S
    <2>1. PICK m \in S : TRUE
      OBVIOUS
    <2>2. m >= 1 /\ m <= MaxOf(S)
      BY <1>1, <1>2
    <2> HIDE DEF S
    <2> QED BY <1>1, <1>2, <2>2
  <1>4. PICK r \in InSeries(R, x) : r.sequence = MaxOf(S)
    BY <1>3
  <1>5. \A q \in InSeries(R, x) : q.sequence <= r.sequence
    BY <1>2, <1>4
  <1> QED BY <1>5 DEF HeadRecord

\* And only one, if no two of its records have the same sequence.
LEMMA HeadIs ==
    ASSUME NEW R, Records(R), OneSequenceEach(R), NEW x, NEW h \in InSeries(R, x),
           \A q \in InSeries(R, x) : q.sequence <= h.sequence
    PROVE  HeadRecord(R, x) = h
  <1>1. /\ HeadRecord(R, x) \in InSeries(R, x)
        /\ \A q \in InSeries(R, x) : q.sequence <= HeadRecord(R, x).sequence
    BY HeadExists
  <1>2. HeadRecord(R, x).sequence = h.sequence
    BY <1>1 DEF Records, IsRecord, InSeries
  <1> QED BY <1>1, <1>2 DEF OneSequenceEach, InSeries

\* The heads of consistent records derive.
LEMMA ChainsDerive ==
    ASSUME NEW R, OneSequenceEach(R), Chained(R)
    PROVE  DiagnosticHeadsDerive(R)
  <1> SUFFICES ASSUME NEW x \in Series PROVE Chained(InSeries(R, x))
    BY DEF DiagnosticHeadsDerive
  <1>1. ASSUME NEW r \in InSeries(R, x), r.parent # Root
        PROVE  \E p \in InSeries(R, x) : /\ PublicationId(p) = r.parent
                                         /\ p.series = r.series
                                         /\ r.sequence = p.sequence + 1
    BY <1>1 DEF Chained, InSeries
  <1> QED BY <1>1 DEF Chained, InSeries

-----------------------------------------------------------------------------
(* What a compaction and a damaged payload do to the records *)

\* The records of T are those of R, with later generations in the order of the
\* resolver, or with damage.
Rewrites(f, R, T) ==
    /\ f \in [R -> T]
    /\ \A t \in T : \E r \in R : f[r] = t
    /\ \A r \in R : /\ f[r].series = r.series /\ f[r].snapshot = r.snapshot
                    /\ f[r].parent = r.parent /\ f[r].sequence = r.sequence
                    /\ f[r].generation >= r.generation
    /\ \A q, r \in R : Before(f[q], f[r]) <=> Before(q, r)
Rewritten(R, T) == \E f : Rewrites(f, R, T)

\* Chains and heads do not depend on generations or damage.
LEMMA RewrittenChains ==
    ASSUME NEW R, NEW T, Records(R), Records(T), OneSequenceEach(R), Chained(R),
           NEW f, Rewrites(f, R, T)
    PROVE  /\ OneSequenceEach(T) /\ Chained(T)
           /\ DerivedHeads(T) = DerivedHeads(R)
  <1>1. \A r \in R : PublicationId(f[r]) = PublicationId(r)
    BY DEF Rewrites, PublicationId
  <1>2. OneSequenceEach(T)
    BY DEF Rewrites, OneSequenceEach
  <1>3. ASSUME NEW t \in T, t.parent # Root
        PROVE  \E p \in T : /\ PublicationId(p) = t.parent
                            /\ p.series = t.series
                            /\ t.sequence = p.sequence + 1
    <2>1. PICK r \in R : f[r] = t
      BY DEF Rewrites
    <2>2. PICK p \in R : /\ PublicationId(p) = r.parent
                         /\ p.series = r.series
                         /\ r.sequence = p.sequence + 1
      BY <1>3, <2>1 DEF Chained, Rewrites
    <2>3. f[p] \in T
      BY DEF Rewrites
    <2> QED BY <2>1, <2>2, <2>3, <1>1 DEF Rewrites
  <1>4. ASSUME NEW t \in T, NEW u \in T, t.parent = Root, u.parent = Root,
               t.series = u.series
        PROVE  t = u
    BY <1>4 DEF Chained, Rewrites
  <1>5. Chained(T)
    BY <1>3, <1>4 DEF Chained
  <1>6. ASSUME NEW x \in Series
        PROVE  DerivedHeads(T)[x] = DerivedHeads(R)[x]
    <2>1. InSeries(T, x) = {} <=> InSeries(R, x) = {}
      BY DEF InSeries, Rewrites
    <2>2. CASE InSeries(R, x) = {}
      BY <2>1, <2>2 DEF DerivedHeads
    <2>3. CASE InSeries(R, x) # {}
      <3> DEFINE h == HeadRecord(R, x)
      <3>1. h \in InSeries(R, x) /\ \A q \in InSeries(R, x) : q.sequence <= h.sequence
        BY <2>3, HeadExists
      <3>2. /\ f[h] \in InSeries(T, x)
            /\ \A q \in InSeries(T, x) : q.sequence <= f[h].sequence
        BY <3>1 DEF InSeries, Rewrites
      <3>3. HeadRecord(T, x) = f[h]
        BY <3>2, <1>2, HeadIs
      <3>4. h \in R
        BY <3>1 DEF InSeries
      <3> QED BY <2>1, <2>3, <3>3, <3>4, <1>1 DEF DerivedHeads
    <2> QED BY <2>2, <2>3
  <1> QED BY <1>2, <1>5, <1>6 DEF DerivedHeads

\* The other fields of a record found damaged.
LEMMA MarkedRecord ==
    ASSUME NEW r, IsRecord(r)
    PROVE  [r EXCEPT !.corrupt = TRUE]
           = [series |-> r.series, snapshot |-> r.snapshot, parent |-> r.parent,
              sequence |-> r.sequence, generation |-> r.generation, corrupt |-> TRUE]
  <1>1. \A k \in BOOLEAN :
           [r EXCEPT !.corrupt = k]
           = [series |-> r.series, snapshot |-> r.snapshot, parent |-> r.parent,
              sequence |-> r.sequence, generation |-> r.generation, corrupt |-> k]
    <2> SUFFICES ASSUME NEW S, NEW k \in S
                 PROVE  [r EXCEPT !.corrupt = k]
                        = [series |-> r.series, snapshot |-> r.snapshot,
                           parent |-> r.parent, sequence |-> r.sequence,
                           generation |-> r.generation, corrupt |-> k]
      OBVIOUS
    <2> QED BY SMT DEF IsRecord
  <1> QED BY <1>1, Zenon

\* A damaged payload costs nothing but the record's generation.
LEMMA DamageKeeps ==
    ASSUME NEW R, NEW h, NEW r \in Intact(R), Records(R), IsFiniteSet(R), Consistent(R, h)
    PROVE  LET T == (R \ {r}) \cup {[r EXCEPT !.corrupt = TRUE]}
           IN  Records(T) /\ IsFiniteSet(T) /\ Consistent(T, h) /\ Rewritten(R, T)
  <1> DEFINE bad == [r EXCEPT !.corrupt = TRUE]
             T == (R \ {r}) \cup {bad}
             f == [q \in R |-> IF q = r THEN bad ELSE q]
  <1>1. r \in R /\ IsRecord(r)
    BY DEF Intact, Records
  <1>2. /\ bad.series = r.series /\ bad.snapshot = r.snapshot /\ bad.parent = r.parent
        /\ bad.sequence = r.sequence /\ bad.generation = r.generation /\ bad.corrupt = TRUE
        /\ IsRecord(bad)
    <2>1. bad = [series |-> r.series, snapshot |-> r.snapshot, parent |-> r.parent,
                 sequence |-> r.sequence, generation |-> r.generation, corrupt |-> TRUE]
      BY <1>1, MarkedRecord
    <2> HIDE DEF bad
    <2>2. /\ bad.series = r.series /\ bad.snapshot = r.snapshot /\ bad.parent = r.parent
          /\ bad.sequence = r.sequence /\ bad.generation = r.generation
          /\ bad.corrupt = TRUE
      BY <2>1
    <2> QED BY <1>1, <2>1, <2>2 DEF IsRecord
  <1>3. Records(T)
    BY <1>2 DEF Records
  <1>4. IsFiniteSet(T)
    BY FS_RemoveElement, FS_AddElement
  <1>5. Rewrites(f, R, T)
    <2> HIDE DEF bad
    <2>1. f \in [R -> T]
      OBVIOUS
    <2>2. \A t \in T : \E q \in R : f[q] = t
      BY <1>1
    <2>3. \A q \in R : /\ f[q].series = q.series /\ f[q].snapshot = q.snapshot
                       /\ f[q].parent = q.parent /\ f[q].sequence = q.sequence
                       /\ f[q].generation = q.generation
      BY <1>2
    <2>4. \A q \in R : q.generation \in Nat
      BY StoreAssumption DEF Records, IsRecord
    <2>5. \A q, u \in R : Before(f[q], f[u]) <=> Before(q, u)
      BY <2>3 DEF Before
    <2> HIDE DEF f, T
    <2> QED BY <2>1, <2>2, <2>3, <2>4, <2>5 DEF Rewrites
  <1>6. Intact(T) \subseteq Intact(R)
    BY <1>2 DEF Intact
  <1> HIDE DEF f, T
  <1>7. OneSequenceEach(T) /\ Chained(T) /\ DerivedHeads(T) = DerivedHeads(R)
    BY <1>3, <1>5, RewrittenChains DEF Consistent
  <1>8. DiagnosticHeadsDerive(T)
    BY <1>7, ChainsDerive
  <1>9. Consistent(T, h)
    BY <1>6, <1>7, <1>8 DEF Consistent, CensusValid
  <1>10. Rewritten(R, T)
    BY <1>5 DEF Rewritten
  <1> QED BY <1>3, <1>4, <1>9, <1>10 DEF T

\* Records that all are intact have different ranks, below their number.
LEMMA Ranks ==
    ASSUME NEW R, Records(R), IsFiniteSet(R),
           \A r, q \in R : r.generation = q.generation => r = q
    PROVE  /\ \A r \in R : Rank(R, r) \in 0 .. Cardinality(R) - 1
           /\ \A r, q \in R : Rank(R, r) = Rank(R, q) => r = q
           /\ \A r, q \in R : Rank(R, q) < Rank(R, r) <=> Before(q, r)
  <1> DEFINE B(r) == { q \in R : Before(q, r) }
  <1>1. \A r \in R : r.sequence \in Nat /\ r.generation \in Nat
    BY StoreAssumption DEF Records, IsRecord
  <1>2. Cardinality(R) \in Nat
    BY FS_CardinalityType
  <1>3. \A r \in R : IsFiniteSet(B(r)) /\ Cardinality(B(r)) \in Nat
    BY FS_Subset, FS_CardinalityType
  <1>4. ASSUME NEW r \in R
        PROVE  Cardinality(B(r)) <= Cardinality(R) - 1
    <2>1. B(r) \in SUBSET (R \ {r})
      BY <1>1 DEF Before
    <2>2. IsFiniteSet(R \ {r}) /\ Cardinality(R \ {r}) = Cardinality(R) - 1
      BY FS_RemoveElement
    <2> HIDE DEF B
    <2> QED BY <2>1, <2>2, FS_Subset
  <1>5. ASSUME NEW r \in R, NEW q \in R, Before(q, r)
        PROVE  Cardinality(B(q)) < Cardinality(B(r))
    <2>1. B(q) \in SUBSET B(r)
      BY <1>1, <1>5 DEF Before
    <2>2. q \in B(r) /\ q \notin B(q)
      BY <1>1, <1>5 DEF Before
    <2>3. IsFiniteSet(B(r)) /\ Cardinality(B(r)) \in Nat /\ Cardinality(B(q)) \in Nat
      BY <1>3
    <2> HIDE DEF B
    <2>4. /\ Cardinality(B(q)) <= Cardinality(B(r))
          /\ Cardinality(B(r)) = Cardinality(B(q)) => B(r) = B(q)
      BY <2>1, <2>3, FS_Subset
    <2> QED BY <2>2, <2>3, <2>4
  <1>6. \A r, q \in R : r # q => Before(q, r) \/ Before(r, q)
    BY <1>1 DEF Before
  <1>7. \A r \in R : Rank(R, r) = Cardinality(B(r))
    BY DEF Rank
  <1> HIDE DEF B
  <1>8. \A r \in R : Rank(R, r) \in 0 .. Cardinality(R) - 1
    BY <1>2, <1>3, <1>4, <1>7
  <1>9. \A r, q \in R : Rank(R, r) = Rank(R, q) => r = q
    <2> SUFFICES ASSUME NEW r \in R, NEW q \in R, r # q PROVE Rank(R, r) # Rank(R, q)
      OBVIOUS
    <2>1. CASE Before(q, r)
      BY <2>1, <1>3, <1>5, <1>7
    <2>2. CASE Before(r, q)
      BY <2>2, <1>3, <1>5, <1>7
    <2> QED BY <2>1, <2>2, <1>6
  <1>10. \A r, q \in R : Rank(R, q) < Rank(R, r) <=> Before(q, r)
    <2> TAKE r, q \in R
    <2>1. CASE r = q
      BY <2>1, <1>1, <1>3, <1>7 DEF Before
    <2>2. CASE Before(q, r)
      BY <2>2, <1>5, <1>7
    <2>3. CASE Before(r, q)
      <3>1. ~Before(q, r)
        BY <2>3, <1>1 DEF Before
      <3>2. Rank(R, r) < Rank(R, q)
        BY <2>3, <1>5, <1>7
      <3> QED BY <3>1, <3>2, <1>3, <1>7
    <2> QED BY <2>1, <2>2, <2>3, <1>6
  <1> QED BY <1>8, <1>9, <1>10

\* A compaction gives every record a generation of its own and moves no head.
LEMMA RecountedKeeps ==
    ASSUME NEW R, NEW h, Records(R), IsFiniteSet(R), Intact(R) = R,
           Consistent(R, h), RecountFits(R)
    PROVE  /\ Records(Recounted(R)) /\ IsFiniteSet(Recounted(R))
           /\ Intact(Recounted(R)) = Recounted(R)
           /\ Consistent(Recounted(R), h)
           /\ Rewritten(R, Recounted(R))
  <1> DEFINE g(r) == MaxGeneration(R) + 1 + Rank(R, r)
             n(r) == [r EXCEPT !.generation = g(r)]
             T == { n(r) : r \in R }
             f == [r \in R |-> n(r)]
  <1>1. T = Recounted(R)
    BY DEF Recounted
  <1>2. /\ \A r \in R : Rank(R, r) \in 0 .. Cardinality(R) - 1
        /\ \A r, q \in R : Rank(R, r) = Rank(R, q) => r = q
        /\ \A r, q \in R : Rank(R, q) < Rank(R, r) <=> Before(q, r)
    BY Ranks DEF Consistent, CensusValid
  <1>3. MaxGeneration(R) \in Nat /\ Cardinality(R) \in Nat
    BY LatestGeneration, FS_CardinalityType, StoreAssumption
  <1>4. \A r \in R : g(r) \in 1 .. CounterMax
    BY <1>2, <1>3, StoreAssumption DEF RecountFits
  <1>5. \A r, q \in R : g(r) = g(q) => r = q
    <2> TAKE r, q \in R
    <2>1. Rank(R, r) \in Int /\ Rank(R, q) \in Int
      BY <1>2, <1>3
    <2>2. g(r) = g(q) => Rank(R, r) = Rank(R, q)
      BY <2>1, <1>3
    <2> QED BY <2>2, <1>2
  <1>g. \A r \in R : g(r) >= r.generation /\ \A q \in R : g(q) < g(r) <=> Before(q, r)
    <2> TAKE r \in R
    <2>1. r.generation \in Nat /\ r.generation <= MaxGeneration(R)
      BY LatestGeneration, StoreAssumption DEF Records, IsRecord
    <2>2. \A q \in R : Rank(R, q) \in Nat
      BY <1>2, <1>3
    <2>3. \A q \in R : g(q) < g(r) <=> Rank(R, q) < Rank(R, r)
      BY <2>2, <1>3
    <2>4. g(r) >= r.generation
      BY <2>1, <2>2, <1>3
    <2> QED BY <2>3, <2>4, <1>2
  <1> HIDE DEF g
  <1>6. \A r \in R : /\ n(r).series = r.series /\ n(r).snapshot = r.snapshot
                     /\ n(r).parent = r.parent /\ n(r).sequence = r.sequence
                     /\ n(r).generation = g(r) /\ n(r).corrupt = r.corrupt
                     /\ IsRecord(n(r))
    BY <1>4 DEF Records, IsRecord
  <1> HIDE DEF n
  <1>7. Records(T)
    BY <1>6 DEF Records
  <1>8. Intact(T) = T
    BY <1>6 DEF Intact
  <1>9. \A t, u \in T : t.generation = u.generation => t = u
    BY <1>5, <1>6
  <1>10. f \in Surjection(R, T)
    BY DEF Surjection
  <1>11. Rewrites(f, R, T)
    <2>1. \A q, r \in R : Before(n(q), n(r)) <=> Before(q, r)
      <3> TAKE q, r \in R
      <3>1. q.sequence \in Nat /\ r.sequence \in Nat
        BY StoreAssumption DEF Records, IsRecord
      <3> QED BY <3>1, <1>6, <1>g DEF Before
    <2> QED BY <1>6, <1>g, <2>1 DEF Rewrites
  <1> HIDE DEF f, T
  <1>12. IsFiniteSet(T)
    BY <1>10, FS_Surjection
  <1>13. OneSequenceEach(T) /\ Chained(T) /\ DerivedHeads(T) = DerivedHeads(R)
    BY <1>7, <1>11, RewrittenChains DEF Consistent
  <1>14. DiagnosticHeadsDerive(T)
    BY <1>13, ChainsDerive
  <1>15. Consistent(T, h)
    BY <1>8, <1>9, <1>13, <1>14 DEF Consistent, CensusValid
  <1>16. Rewritten(R, T)
    BY <1>11 DEF Rewritten
  <1> QED BY <1>1, <1>7, <1>8, <1>12, <1>15, <1>16

-----------------------------------------------------------------------------
(* What a publication does to the records *)

\* The record new continues the series of R that d names, whose head is head.
Follows(new, R, d, head) ==
    /\ IsRecord(new)
    /\ new.corrupt = FALSE
    /\ new.series = d.series /\ new.snapshot = d.snapshot
    /\ new.parent = d.expected
    /\ \A q \in InSeries(R, d.series) : q.sequence < new.sequence
    /\ \A q \in Intact(R) : q.generation < new.generation
    /\ \/ head = Root /\ InSeries(R, d.series) = {} /\ new.sequence = 1
       \/ /\ head # Root
          /\ HeadRecord(R, d.series) \in InSeries(R, d.series)
          /\ head = PublicationId(HeadRecord(R, d.series))
          /\ new.sequence = HeadRecord(R, d.series).sequence + 1

\* The record a writer's candidate becomes, when it expects the head and the
\* counters have room for it.
LEMMA CandidateFollows ==
    ASSUME NEW R, Records(R), NEW d, d.series \in Series, d.snapshot \in Snapshots,
           NEW head, head = DerivedHeads(R)[d.series],
           CountersFit(Candidate(d, R, head))
    PROVE  Follows(Candidate(d, R, head), R, d, head)
  <1> DEFINE x == d.series
             new == Candidate(d, R, head)
             h == HeadRecord(R, x)
  <1>1. /\ new.series = x /\ new.snapshot = d.snapshot /\ new.parent = d.expected
        /\ new.sequence = IF head = Root THEN 1 ELSE head[3] + 1
        /\ new.generation = MaxGeneration(R) + 1
        /\ new.corrupt = FALSE
        /\ new = [series |-> new.series, snapshot |-> new.snapshot, parent |-> new.parent,
                  sequence |-> new.sequence, generation |-> new.generation,
                  corrupt |-> new.corrupt]
    BY DEF Candidate
  <1>fit. new.sequence <= CounterMax /\ new.generation <= CounterMax
    BY DEF CountersFit
  <1>2. MaxGeneration(R) \in Nat /\ \A q \in Intact(R) : q.generation <= MaxGeneration(R)
    BY LatestGeneration, StoreAssumption
  <1>3. \A q \in Intact(R) : q.generation \in Nat
    BY StoreAssumption DEF Records, IsRecord, Intact
  <1>4. new.generation \in 1 .. CounterMax /\ \A q \in Intact(R) : q.generation < new.generation
    <2> HIDE DEF new
    <2> QED BY <1>1, <1>2, <1>3, <1>fit, StoreAssumption
  <1>5. \A a, b, c, e : <<a, b, c, e>> # Root
    BY DEF Root
  <1>6. \/ head = Root /\ InSeries(R, x) = {} /\ new.sequence = 1
        \/ /\ head # Root
           /\ h \in InSeries(R, x)
           /\ \A q \in InSeries(R, x) : q.sequence <= h.sequence
           /\ head = PublicationId(h)
           /\ new.sequence = h.sequence + 1
    <2> HIDE DEF new, h
    <2>1. CASE InSeries(R, x) = {}
      BY <2>1, <1>1 DEF DerivedHeads
    <2>2. CASE InSeries(R, x) # {}
      <3>1. h \in InSeries(R, x) /\ \A q \in InSeries(R, x) : q.sequence <= h.sequence
        BY <2>2, HeadExists DEF h
      <3>2. head = PublicationId(h)
        BY <2>2 DEF DerivedHeads, h
      <3>3. head # Root /\ head[3] = h.sequence
        BY <3>2, <1>5 DEF PublicationId
      <3> QED BY <3>1, <3>2, <3>3, <1>1
    <2> QED BY <2>1, <2>2
  <1>7. \A q \in InSeries(R, x) : q.sequence \in Nat
    BY StoreAssumption DEF Records, IsRecord, InSeries
  <1> HIDE DEF new, h
  <1>8. new.sequence \in 1 .. CounterMax /\ \A q \in InSeries(R, x) : q.sequence < new.sequence
    BY <1>6, <1>7, <1>fit, StoreAssumption
  <1>9. IsRecord(new)
    BY <1>1, <1>4, <1>8 DEF IsRecord
  <1>10. Follows(new, R, d, head)
    BY <1>1, <1>4, <1>6, <1>8, <1>9 DEF Follows, h
  <1> QED BY <1>10 DEF new

\* A publication on top of the head keeps the chains, and becomes the head.
LEMMA PublicationKeeps ==
    ASSUME NEW R, NEW h, Records(R), IsFiniteSet(R), Intact(R) = R, Consistent(R, h),
           NEW d, d.series \in Series, d.snapshot \in Snapshots,
           NEW head, head = DerivedHeads(R)[d.series], head = d.expected,
           CountersFit(Candidate(d, R, head))
    PROVE  LET new == Candidate(d, R, head)
               T == R \cup {new}
           IN  /\ Records(T) /\ IsFiniteSet(T) /\ Intact(T) = T
               /\ Consistent(T, [h EXCEPT ![d.series] = PublicationId(new)])
  <1> DEFINE x == d.series
             new == Candidate(d, R, head)
             top == HeadRecord(R, x)
             T == R \cup {new}
             h2 == [h EXCEPT ![x] = PublicationId(new)]
  <1>1. /\ IsRecord(new) /\ ~new.corrupt
        /\ new.series = x /\ new.parent = head
        /\ \A q \in InSeries(R, x) : q.sequence < new.sequence
        /\ \A q \in R : q.generation < new.generation
        /\ \/ head = Root /\ InSeries(R, x) = {} /\ new.sequence = 1
           \/ /\ head # Root /\ top \in InSeries(R, x)
              /\ head = PublicationId(top) /\ new.sequence = top.sequence + 1
    <2>1. Follows(new, R, d, head)
      BY CandidateFollows
    <2> HIDE DEF new
    <2> QED BY <2>1 DEF Follows
  <1> HIDE DEF new, top
  <1>2. Records(T) /\ IsFiniteSet(T) /\ Intact(T) = T
    BY <1>1, FS_AddElement DEF Records, Intact
  <1>3. \A q \in R : q.sequence \in Nat /\ q.generation \in Nat
    BY StoreAssumption DEF Records, IsRecord
  <1>4. \A r, q \in T : r.generation = q.generation => r = q
    <2>1. \A r, q \in R : r.generation = q.generation => r = q
      BY DEF Consistent, CensusValid
    <2>2. \A q \in R : q.generation # new.generation
      BY <1>1, <1>3
    <2> QED BY <2>1, <2>2
  <1>5. OneSequenceEach(T)
    <2>1. OneSequenceEach(R)
      BY DEF Consistent
    <2>2. \A q \in R : q.series = x => q.sequence # new.sequence
      BY <1>1, <1>3 DEF InSeries
    <2> QED BY <2>1, <2>2, <1>1 DEF OneSequenceEach
  <1>6. Chained(T)
    <2>1. Chained(R)
      BY DEF Consistent
    <2>2. ASSUME new.parent # Root
          PROVE  \E p \in R : /\ PublicationId(p) = new.parent /\ p.series = new.series
                              /\ new.sequence = p.sequence + 1
      BY <2>2, <1>1 DEF InSeries
    <2>3. new.parent = Root => \A q \in R : q.series # x
      BY <1>1 DEF InSeries
    <2> QED BY <2>1, <2>2, <2>3, <1>1 DEF Chained
  <1>7. DiagnosticHeadsDerive(T)
    BY <1>5, <1>6, ChainsDerive
  <1>8. h = DerivedHeads(R)
    BY DEF Consistent, CensusValid
  <1>9. HeadRecord(T, x) = new /\ InSeries(T, x) # {}
    <2>1. new \in InSeries(T, x)
      BY <1>1 DEF InSeries
    <2>2. \A q \in InSeries(T, x) : q.sequence <= new.sequence
      <3>1. new.sequence \in Nat
        BY <1>1, StoreAssumption DEF IsRecord
      <3> QED BY <3>1, <1>1, <1>3 DEF InSeries
    <2> HIDE DEF T
    <2> QED BY <2>1, <2>2, <1>2, <1>5, HeadIs
  <1>10. \A y \in Series : y # x => InSeries(T, y) = InSeries(R, y)
    BY <1>1 DEF InSeries
  <1>11. h2 = DerivedHeads(T)
    <2>1. \A y \in Series : y # x => HeadRecord(T, y) = HeadRecord(R, y)
      BY <1>10 DEF HeadRecord
    <2> HIDE DEF T
    <2> QED BY <2>1, <1>8, <1>9, <1>10 DEF DerivedHeads
  <1>12. Consistent(T, h2)
    BY <1>2, <1>4, <1>5, <1>6, <1>7, <1>11 DEF Consistent, CensusValid
  <1> QED BY <1>2, <1>12 DEF new

-----------------------------------------------------------------------------
(* The inductive invariant *)

\* With the memory backend the maps of the handle are the database, and no record
\* of them is ever damaged.
MemoryIsDatabase ==
    \A s \in Stores :
       /\ conn[s] = "memory" <=> Backend = "memory"
       /\ Backend = "memory" =>
             /\ avail[s] = "available"
             /\ view[s].rows = rows /\ view[s].heads = heads /\ Intact(rows) = rows

\* A call keeps the mutex only from the recovery it had to make to its own end, and
\* its writer waits in the state it was in.
CallerWaits ==
    \A s \in Stores : calling[s] # None =>
       /\ \/ conn[s] = "deferred" /\ avail[s] = "recovery_handoff_pending"
          \/ conn[s] = "writable" /\ avail[s] = "available"
       /\ calling[s] \in Writers =>
             /\ writer[calling[s]] # None
             /\ writer[calling[s]].store = s /\ writer[calling[s]].state = "validating"

Inv ==
    /\ TypeOK
    /\ IsFiniteSet(rows)
    /\ DatabaseConsistent
    /\ MemoryIsDatabase
    /\ CallerWaits

\* Nothing is published at first.
LEMMA InvInitially == Init => Inv
  <1> SUFFICES ASSUME Init PROVE Inv
    OBVIOUS
  <1>1. rows = {} /\ Records({}) /\ IsFiniteSet({}) /\ Intact({}) = {}
    BY FS_EmptySet DEF Init, Records, Intact
  <1>2. MaxGeneration({}) \in 0 .. CounterMax
    BY <1>1, LatestGeneration
  <1>3. TypeOK
    BY <1>1, <1>2 DEF Init, TypeOK, IsView, NoView, ViewOf, Connections, Availability
  <1>4. DatabaseConsistent
    BY <1>1 DEF Init, DatabaseConsistent, CensusValid, DiagnosticHeadsDerive,
                OneSequenceEach, Chained, InSeries, Intact
  <1>5. MemoryIsDatabase
    BY <1>1 DEF Init, MemoryIsDatabase, NoView, ViewOf
  <1>6. CallerWaits
    BY DEF Init, CallerWaits
  <1> QED BY <1>1, <1>3, <1>4, <1>5, <1>6 DEF Inv

\* A handle's maps after a load, and of a closed handle.
LEMMA ViewOfType ==
    ASSUME NEW R, Records(R)
    PROVE  IsView(ViewOf(R)) /\ IsView(NoView)
  <1>1. MaxGeneration(R) \in 0 .. CounterMax /\ MaxGeneration({}) \in 0 .. CounterMax
    BY LatestGeneration DEF Records
  <1> QED BY <1>1 DEF IsView, ViewOf, NoView, Records

\* A step of a writer's state diagram.
LEMMA SetStateType ==
    ASSUME TypeOK, NEW w \in Writers, writer[w] # None, NEW state \in WriterStates,
           state \in {"created", "rolled_back"} \/ writer[w].snapshot \in Snapshots,
           SetState(w, state)
    PROVE  /\ writer' = [v \in Writers |-> writer'[v]]
           /\ \A v \in Writers : writer'[v] # None => IsWriter(writer'[v])
           /\ \A v \in Writers : v # w => writer'[v] = writer[v]
  <1> DEFINE e == [writer[w] EXCEPT !.state = state]
  <1>1. IsWriter(writer[w]) /\ writer = [v \in Writers |-> writer[v]]
    BY DEF TypeOK
  <1>2. writer' = [v \in Writers |-> IF v = w THEN e ELSE writer[v]]
    BY <1>1 DEF SetState
  <1>3. IsWriter(e)
    BY <1>1 DEF IsWriter, WriterStates
  <1> HIDE DEF e
  <1> QED BY <1>2, <1>3 DEF TypeOK

\* The end of a process takes its calls, its maps and its writers with it.
LEMMA DiesType ==
    ASSUME TypeOK, NEW s \in Stores, Dies(s)
    PROVE  /\ conn' \in [Stores -> Connections]
           /\ avail' \in [Stores -> Availability]
           /\ calling' \in [Stores -> Writers \cup {"compact", None}]
           /\ view' = [t \in Stores |-> view'[t]]
           /\ \A t \in Stores : IsView(view'[t])
           /\ writer' = [w \in Writers |-> writer'[w]]
           /\ \A w \in Writers : writer'[w] # None => IsWriter(writer'[w])
  <1>1. IsView(NoView)
    <2>1. Records({})
      BY DEF Records
    <2> QED BY <2>1, ViewOfType
  <1>2. view' = [t \in Stores |-> IF t = s THEN NoView ELSE view[t]]
    BY DEF Dies, TypeOK
  <1> QED BY <1>1, <1>2 DEF Dies, TypeOK, Connections, Availability

-----------------------------------------------------------------------------
(* Steps that leave the publications alone *)

WritersTyped ==
    /\ writer = [w \in Writers |-> writer[w]]
    /\ \A w \in Writers : writer[w] # None => IsWriter(writer[w])

\* A step that changes neither the database nor a handle's maps.
LEMMA QuietStep ==
    ASSUME Inv, UNCHANGED <<rows, heads, view>>, walOnly' \in BOOLEAN,
           conn' \in [Stores -> Connections], avail' \in [Stores -> Availability],
           calling' \in [Stores -> Writers \cup {"compact", None}],
           WritersTyped',
           \A s \in Stores : /\ conn'[s] = "memory" <=> conn[s] = "memory"
                             /\ conn[s] = "memory" => avail'[s] = avail[s],
           CallerWaits'
    PROVE  Inv'
  <1>1. TypeOK'
    BY DEF Inv, TypeOK, WritersTyped
  <1>2. MemoryIsDatabase'
    BY DEF Inv, MemoryIsDatabase
  <1>3. IsFiniteSet(rows)' /\ DatabaseConsistent'
    BY DEF Inv, DatabaseConsistent
  <1> QED BY <1>1, <1>2, <1>3 DEF Inv

\* A step of one writer that no call is waiting for.
LEMMA WriterOnlyStep ==
    ASSUME Inv, UNCHANGED <<rows, heads, view, walOnly, conn, avail, calling>>,
           NEW w \in Writers, \A s \in Stores : calling[s] # w,
           WritersTyped', \A v \in Writers : v # w => writer'[v] = writer[v]
    PROVE  Inv'
  <1>1. CallerWaits'
    BY DEF Inv, CallerWaits
  <1> QED BY <1>1, QuietStep DEF Inv, TypeOK, Connections, Availability

\* A call waits for a writer only in its own store, and only when it is validating.
LEMMA NobodyWaits ==
    ASSUME Inv, NEW w \in Writers,
           \/ writer[w] = None
           \/ writer[w].state # "validating"
           \/ calling[writer[w].store] # w
           \/ avail[writer[w].store] = "poisoned"
           \/ conn[writer[w].store] \notin {"deferred", "writable"}
    PROVE  \A s \in Stores : calling[s] # w
  BY StoreAssumption DEF Inv, CallerWaits

\* The other fields of a writer that stages a snapshot.
LEMMA StagedRecord ==
    ASSUME NEW d, IsWriter(d), NEW c \in Snapshots, NEW state \in WriterStates
    PROVE  [d EXCEPT !.snapshot = c, !.state = state]
           = [store |-> d.store, series |-> d.series, expected |-> d.expected,
              snapshot |-> c, state |-> state]
  <1> DEFINE e == [d EXCEPT !.snapshot = c]
  <1>1. e = [store |-> d.store, series |-> d.series, expected |-> d.expected,
             snapshot |-> c, state |-> d.state]
    BY DEF IsWriter
  <1>2. [d EXCEPT !.snapshot = c, !.state = state] = [e EXCEPT !.state = state]
    BY DEF IsWriter
  <1> HIDE DEF e
  <1>3. [e EXCEPT !.state = state]
        = [store |-> e.store, series |-> e.series, expected |-> e.expected,
           snapshot |-> e.snapshot, state |-> state]
    BY <1>1
  <1>4. e.store = d.store /\ e.series = d.series /\ e.expected = d.expected /\ e.snapshot = c
    BY <1>1
  <1> QED BY <1>2, <1>3, <1>4

\* The steps of a writer up to its publication.
LEMMA WriterStepKeeps == ASSUME Inv, WriterStep PROVE Inv'
  <1>1. ASSUME NEW w \in Writers, NEW s \in Stores, NEW x \in Series,
               NEW p \in ExpectedParents(s, x), Begin(w, s, x, p)
        PROVE  Inv'
    <2> DEFINE d == [store |-> s, series |-> x, expected |-> p,
                     snapshot |-> None, state |-> "created"]
    <2>1. \A t \in Stores : calling[t] # w
      BY <1>1, NobodyWaits DEF Begin
    <2>2. IsWriter(d)
      BY DEF IsWriter, WriterStates
    <2> HIDE DEF d
    <2>3. writer' = [v \in Writers |-> IF v = w THEN d ELSE writer[v]]
      BY <1>1 DEF Begin, Inv, TypeOK, d
    <2>4. WritersTyped'
      BY <2>2, <2>3 DEF WritersTyped, Inv, TypeOK
    <2> QED BY <1>1, <2>1, <2>3, <2>4, WriterOnlyStep DEF Begin, database
  <1>2. ASSUME NEW w \in Writers, NEW c \in Snapshots, Stage(w, c)
        PROVE  Inv'
    <2> DEFINE d == [writer[w] EXCEPT !.snapshot = c, !.state = "staged"]
    <2>1. \A t \in Stores : calling[t] # w
      BY <1>2, NobodyWaits DEF Stage
    <2>2. IsWriter(d)
      <3>1. IsWriter(writer[w])
        BY <1>2 DEF Stage, Inv, TypeOK
      <3>2. d = [store |-> writer[w].store, series |-> writer[w].series,
                 expected |-> writer[w].expected, snapshot |-> c, state |-> "staged"]
        BY <3>1, StagedRecord DEF WriterStates
      <3> HIDE DEF d
      <3> QED BY <3>1, <3>2 DEF IsWriter, WriterStates
    <2>3. writer' = [v \in Writers |-> IF v = w THEN d ELSE writer[v]]
      BY <1>2 DEF Stage, Inv, TypeOK
    <2> HIDE DEF d
    <2>4. WritersTyped'
      BY <2>2, <2>3 DEF WritersTyped, Inv, TypeOK
    <2> QED BY <1>2, <2>1, <2>3, <2>4, WriterOnlyStep DEF Stage, database
  <1>3. ASSUME NEW w \in Writers, Validate(w)
        PROVE  Inv'
    <2>1. \A t \in Stores : calling[t] # w
      BY <1>3, NobodyWaits DEF Validate
    <2>2. WritersTyped' /\ \A v \in Writers : v # w => writer'[v] = writer[v]
      BY <1>3, SetStateType DEF Validate, WritersTyped, Inv, TypeOK, IsWriter, WriterStates
    <2> QED BY <1>3, <2>1, <2>2, WriterOnlyStep DEF Validate, database
  <1>4. ASSUME NEW w \in Writers, Cancel(w)
        PROVE  Inv'
    <2>1. \A t \in Stores : calling[t] # w
      BY <1>4, NobodyWaits DEF Cancel
    <2>2. WritersTyped' /\ \A v \in Writers : v # w => writer'[v] = writer[v]
      BY <1>4, SetStateType DEF Cancel, WritersTyped, Inv, WriterStates
    <2> QED BY <1>4, <2>1, <2>2, WriterOnlyStep DEF Cancel, database
  <1>5. ASSUME NEW w \in Writers, Destroy(w)
        PROVE  Inv'
    <2>1. \A t \in Stores : calling[t] # w
      BY <1>5, NobodyWaits DEF Destroy
    <2>2. writer' = [v \in Writers |-> IF v = w THEN None ELSE writer[v]]
      BY <1>5 DEF Destroy, Inv, TypeOK
    <2>3. WritersTyped'
      BY <2>2 DEF WritersTyped, Inv, TypeOK
    <2> QED BY <1>5, <2>1, <2>2, <2>3, WriterOnlyStep DEF Destroy, database
  <1> QED BY <1>1, <1>2, <1>3, <1>4, <1>5 DEF WriterStep

\* Recovery decides about a handle and the writer that waits for it.
LEMMA RecoverStepKeeps == ASSUME Inv, RecoverStep PROVE Inv'
  <1>1. ASSUME NEW s \in Stores, NEW call \in Mutations(s), RecoverArm(s, call)
        PROVE  Inv'
    <2>1. CallerWaits'
      <3>1. call \in Writers => /\ writer[call] # None
                                /\ writer[call].store = s /\ writer[call].state = "validating"
        BY <1>1, StoreAssumption DEF Mutations
      <3>2. /\ calling' = [t \in Stores |-> IF t = s THEN call ELSE calling[t]]
            /\ avail' = [t \in Stores |-> IF t = s THEN "recovery_handoff_pending" ELSE avail[t]]
            /\ conn' = conn /\ conn[s] = "deferred" /\ writer' = writer
        BY <1>1 DEF RecoverArm, Inv, TypeOK
      <3> QED BY <3>1, <3>2 DEF CallerWaits, Inv
    <2>2. /\ calling' \in [Stores -> Writers \cup {"compact", None}]
          /\ avail' \in [Stores -> Availability] /\ walOnly' \in BOOLEAN
      BY <1>1 DEF RecoverArm, Mutations, Inv, TypeOK, Availability
    <2>3. \A t \in Stores : conn[t] = "memory" => avail'[t] = avail[t]
      BY <1>1 DEF RecoverArm, Inv, TypeOK
    <2> QED BY <1>1, <2>1, <2>2, <2>3, QuietStep
            DEF RecoverArm, Inv, TypeOK, WritersTyped
  <1>2. ASSUME NEW w \in Writers, RecoverRefused(w)
        PROVE  Inv'
    <2>1. writer[w].store \in Stores
      BY <1>2 DEF RecoverRefused, Inv, TypeOK, IsWriter
    <2>2. \A t \in Stores : calling[t] # w
      BY <1>2, <2>1, StoreAssumption DEF RecoverRefused, Usable, Inv, CallerWaits
    <2>3. WritersTyped' /\ \A v \in Writers : v # w => writer'[v] = writer[v]
      BY <1>2, SetStateType DEF RecoverRefused, WritersTyped, Inv, WriterStates
    <2> QED BY <1>2, <2>2, <2>3, WriterOnlyStep DEF RecoverRefused, database
  <1>3. ASSUME NEW s \in Stores, Recover(s)
        PROVE  Inv'
    <2>1. conn[s] # "memory"
      BY <1>3 DEF Recover, Inv, MemoryIsDatabase
    <2>2. CallerWaits'
      BY <1>3 DEF Recover, CallerWaits, Inv, TypeOK
    <2>3. /\ conn' \in [Stores -> Connections] /\ avail' \in [Stores -> Availability]
          /\ \A t \in Stores : /\ conn'[t] = "memory" <=> conn[t] = "memory"
                               /\ conn[t] = "memory" => avail'[t] = avail[t]
      BY <1>3, <2>1 DEF Recover, Inv, TypeOK, Connections, Availability
    <2> QED BY <1>3, <2>2, <2>3, QuietStep DEF Recover, database, Inv, TypeOK, WritersTyped
  <1>4. ASSUME NEW s \in Stores, RecoverPoisons(s)
        PROVE  Inv'
    <2>1. conn[s] # "memory"
      BY <1>4 DEF RecoverPoisons, Inv, MemoryIsDatabase
    <2>2. /\ conn' \in [Stores -> Connections] /\ avail' \in [Stores -> Availability]
          /\ calling' \in [Stores -> Writers \cup {"compact", None}]
          /\ \A t \in Stores : /\ conn'[t] = "memory" <=> conn[t] = "memory"
                               /\ conn[t] = "memory" => avail'[t] = avail[t]
      BY <1>4, <2>1 DEF RecoverPoisons, Inv, TypeOK, Connections, Availability
    <2>3. calling[s] \in Writers => writer[calling[s]] # None /\ writer[calling[s]].store = s
      BY StoreAssumption DEF Inv, CallerWaits
    <2>4. /\ WritersTyped'
          /\ \A v \in Writers : v # calling[s] => writer'[v] = writer[v]
      <3>1. CASE calling[s] \in Writers
        BY <1>4, <2>3, <3>1, SetStateType DEF RecoverPoisons, WritersTyped, Inv, WriterStates
      <3>2. CASE calling[s] \notin Writers
        BY <1>4, <3>2 DEF RecoverPoisons, WritersTyped, Inv, TypeOK
      <3> QED BY <3>1, <3>2
    <2>5. CallerWaits'
      <3> SUFFICES ASSUME NEW t \in Stores, calling'[t] # None
                   PROVE  /\ \/ conn'[t] = "deferred" /\ avail'[t] = "recovery_handoff_pending"
                             \/ conn'[t] = "writable" /\ avail'[t] = "available"
                          /\ calling'[t] \in Writers =>
                                /\ writer'[calling'[t]] # None
                                /\ writer'[calling'[t]].store = t
                                /\ writer'[calling'[t]].state = "validating"
        BY DEF CallerWaits
      <3>1. t # s /\ calling'[t] = calling[t] /\ conn'[t] = conn[t] /\ avail'[t] = avail[t]
        BY <1>4 DEF RecoverPoisons, Inv, TypeOK
      <3>2. calling[t] \in Writers => calling[t] # calling[s]
        BY <3>1, <2>3 DEF Inv, CallerWaits
      <3> QED BY <3>1, <3>2, <2>4 DEF Inv, CallerWaits
    <2> QED BY <1>4, <2>2, <2>4, <2>5, QuietStep DEF RecoverPoisons, database, Inv, TypeOK
  <1> QED BY <1>1, <1>2, <1>3, <1>4 DEF RecoverStep

\* Nothing the environment does makes the publications inconsistent.
LEMMA EnvironmentKeeps == ASSUME Inv, Environment PROVE Inv'
  <1>1. ASSUME NEW s \in Stores, OpenStore(s)
        PROVE  Inv'
    <2>1. IsView(ViewOf(rows))
      BY ViewOfType DEF Inv, TypeOK, Records
    <2>2. /\ view' = [t \in Stores |-> IF t = s THEN ViewOf(rows) ELSE view[t]]
          /\ conn' = [t \in Stores |-> IF t = s THEN conn'[s] ELSE conn[t]]
          /\ conn'[s] \in {"deferred", "detached", "writable"}
      BY <1>1 DEF OpenStore, Inv, TypeOK
    <2>3. TypeOK'
      BY <1>1, <2>1, <2>2 DEF OpenStore, database, Inv, TypeOK, Connections
    <2>4. MemoryIsDatabase'
      BY <1>1, <2>2 DEF OpenStore, Open, database, Inv, MemoryIsDatabase
    <2>5. CallerWaits'
      BY <1>1, <2>2 DEF OpenStore, Open, Inv, CallerWaits
    <2> QED BY <1>1, <2>3, <2>4, <2>5 DEF OpenStore, database, Inv, DatabaseConsistent
  <1>2. ASSUME NEW s \in Stores, Crash(s)
        PROVE  Inv'
    <2>1. TypeOK'
      BY <1>2, DiesType DEF Crash, database, Inv, TypeOK
    <2>2. MemoryIsDatabase'
      BY <1>2 DEF Crash, Dies, database, Inv, TypeOK, MemoryIsDatabase
    <2>3. CallerWaits'
      BY <1>2 DEF Crash, Dies, Inv, TypeOK, CallerWaits
    <2> QED BY <1>2, <2>1, <2>2, <2>3 DEF Crash, database, Inv, DatabaseConsistent
  <1>3. ASSUME LoseSharedMemory
        PROVE  Inv'
    <2>1. CallerWaits'
      BY <1>3 DEF LoseSharedMemory, Inv, CallerWaits
    <2> QED BY <1>3, <2>1, QuietStep DEF LoseSharedMemory, Inv, TypeOK, WritersTyped
  <1>4. ASSUME NEW r \in rows, Damage(r)
        PROVE  Inv'
    <2>1. Records(rows') /\ IsFiniteSet(rows') /\ Consistent(rows', heads)
      BY <1>4, DamageKeeps
      DEF Damage, Inv, TypeOK, Records, DatabaseConsistent, Consistent
    <2>2. TypeOK'
      BY <1>4, <2>1 DEF Damage, Inv, TypeOK, Records
    <2>3. MemoryIsDatabase' /\ CallerWaits'
      BY <1>4 DEF Damage, Inv, MemoryIsDatabase, CallerWaits
    <2> QED BY <1>4, <2>1, <2>2, <2>3 DEF Damage, Inv, DatabaseConsistent, Consistent
  <1> QED BY <1>1, <1>2, <1>3, <1>4 DEF Environment

-----------------------------------------------------------------------------
(* Publications *)

\* A writer whose call has ended, and the store it released.
LEMMA ReleaseStep ==
    ASSUME Inv, NEW w \in Writers, writer[w] # None, writer[w].state = "validating",
           MayCall(writer[w].store, w),
           NEW state \in {"committed", "rejected", "rolled_back"},
           SetState(w, state), Releases(w)
    PROVE  /\ WritersTyped' /\ writer[w].store \in Stores
           /\ calling' \in [Stores -> Writers \cup {"compact", None}]
           /\ calling' = [s \in Stores |-> IF s = writer[w].store THEN None ELSE calling[s]]
           /\ \A s \in Stores : calling'[s] # None => calling[s] # w
           /\ UNCHANGED <<conn, avail>> => CallerWaits'
  <1>1. IsWriter(writer[w])
    BY DEF Inv, TypeOK
  <1>2. WritersTyped' /\ \A v \in Writers : v # w => writer'[v] = writer[v]
    BY <1>1, SetStateType DEF WritersTyped, Inv, IsWriter, WriterStates
  <1>3. /\ calling' \in [Stores -> Writers \cup {"compact", None}]
        /\ calling' = [s \in Stores |-> IF s = writer[w].store THEN None ELSE calling[s]]
    BY DEF Releases, Inv, TypeOK
  <1>4. \A s \in Stores : calling'[s] # None => calling[s] # w
    BY <1>3, StoreAssumption DEF Inv, CallerWaits
  <1>5. UNCHANGED <<conn, avail>> => CallerWaits'
    BY <1>2, <1>3, <1>4 DEF Inv, CallerWaits
  <1> QED BY <1>1, <1>2, <1>3, <1>4, <1>5 DEF IsWriter

\* The memory backend's publication is one of the database; a handle that let go of
\* a damaged database publishes to its own maps.
LEMMA PublishLocalKeeps == ASSUME Inv, NEW w \in Writers, PublishLocal(w) PROVE Inv'
  <1> DEFINE d == writer[w]
             s == d.store
             R == view[s].rows
             new == Candidate(d, R, LocalParent(d))
             h2 == [view[s].heads EXCEPT ![d.series] = PublicationId(new)]
             v2 == [rows |-> R \cup {new}, heads |-> h2, generation |-> new.generation]
  <1>1. /\ d # None /\ d.state = "validating"
        /\ conn[s] \in {"memory", "detached"}
        /\ UNCHANGED <<walOnly, conn, avail, calling>>
    BY DEF PublishLocal, ReadyToPublish
  <1>2. IsWriter(d) /\ s \in Stores /\ d.series \in Series /\ d.snapshot \in Snapshots
    BY <1>1 DEF Inv, TypeOK, IsWriter
  <1>3. \A t \in Stores : calling[t] # w
    BY <1>1, NobodyWaits
  <1>4. CASE SetState(w, "rejected") /\ UNCHANGED <<rows, heads, view>>
    <2>1. WritersTyped' /\ \A v \in Writers : v # w => writer'[v] = writer[v]
      BY <1>1, <1>2, <1>4, SetStateType DEF WritersTyped, Inv, WriterStates
    <2> QED BY <1>1, <1>3, <1>4, <2>1, WriterOnlyStep
  <1>5. CASE /\ LocalHeadsAgree(s) /\ LocalParent(d) = d.expected /\ CountersFit(new)
             /\ SetState(w, "committed")
             /\ view' = [view EXCEPT ![s] = v2]
             /\ IF Backend = "memory"
                THEN rows' = view'[s].rows /\ heads' = view'[s].heads
                ELSE UNCHANGED <<rows, heads>>
    <2>1. WritersTyped' /\ \A v \in Writers : v # w => writer'[v] = writer[v]
      BY <1>1, <1>2, <1>5, SetStateType DEF WritersTyped, Inv, WriterStates
    <2>2. CallerWaits'
      BY <1>1, <1>3, <2>1 DEF Inv, CallerWaits
    <2>3. Records(R) /\ Records(Intact(R))
      BY <1>2 DEF Inv, TypeOK, IsView, Records, Intact
    <2>4. MaxGeneration(Intact(R)) = MaxGeneration(R)
      BY DEF MaxGeneration, Intact
    <2>5. new = Candidate(d, Intact(R), LocalParent(d))
      BY <2>4 DEF Candidate
    <2>6. IsRecord(new)
      <3> DEFINE head == LocalParent(d)
      <3>1. head = DerivedHeads(Intact(R))[d.series]
        BY DEF LocalParent
      <3> HIDE DEF head
      <3>2. CountersFit(Candidate(d, Intact(R), head))
        BY <1>5, <2>5 DEF head
      <3>3. Follows(Candidate(d, Intact(R), head), Intact(R), d, head)
        BY <1>2, <2>3, <3>1, <3>2, CandidateFollows
      <3> QED BY <2>5, <3>3 DEF Follows, head
    <2>7. IsView(v2)
      <3> HIDE DEF new, h2
      <3>1. new.generation \in 0 .. CounterMax
        BY <2>6, StoreAssumption DEF IsRecord
      <3> QED BY <2>3, <2>6, <3>1 DEF IsView, Records
    <2>8. /\ view' = [t \in Stores |-> IF t = s THEN v2 ELSE view[t]]
          /\ view'[s] = v2
      BY <1>2, <1>5 DEF Inv, TypeOK
    <2>9. CASE Backend = "memory"
      <3>1. /\ R = rows /\ view[s].heads = heads /\ Intact(rows) = rows
            /\ \A t \in Stores : t = s
        BY <1>2, <2>9, StoreAssumption DEF Inv, MemoryIsDatabase
      <3>2. rows' = rows \cup {new} /\ heads' = h2
        BY <1>5, <2>8, <2>9, <3>1
      <3>3. /\ Records(rows') /\ IsFiniteSet(rows') /\ Intact(rows') = rows'
            /\ Consistent(rows', heads')
        <4> DEFINE head == LocalParent(d)
        <4>1. /\ head = DerivedHeads(rows)[d.series] /\ head = d.expected
              /\ CountersFit(Candidate(d, rows, head))
              /\ new = Candidate(d, rows, head)
          BY <1>5, <3>1 DEF LocalParent
        <4> HIDE DEF head, new
        <4>2. /\ Records(rows) /\ IsFiniteSet(rows) /\ Intact(rows) = rows
              /\ Consistent(rows, heads)
          BY <2>3, <3>1 DEF Inv, DatabaseConsistent, Consistent
        <4> DEFINE add == Candidate(d, rows, head)
                   T == rows \cup {add}
        <4>3. /\ Records(T) /\ IsFiniteSet(T) /\ Intact(T) = T
              /\ Consistent(T, [heads EXCEPT ![d.series] = PublicationId(add)])
          <5> HIDE DEF d
          <5> QED BY <1>2, <4>1, <4>2, PublicationKeeps, Zenon
        <4>4. rows' = T /\ heads' = [heads EXCEPT ![d.series] = PublicationId(add)]
          BY <3>1, <3>2, <4>1
        <4> HIDE DEF T, add
        <4> QED BY <4>3, <4>4
      <3>4. TypeOK'
        BY <1>1, <2>1, <2>7, <2>8, <3>3 DEF Inv, TypeOK, WritersTyped, Records
      <3>5. MemoryIsDatabase'
        BY <1>1, <2>8, <3>1, <3>2, <3>3 DEF Inv, MemoryIsDatabase
      <3> QED BY <2>2, <3>3, <3>4, <3>5 DEF Inv, DatabaseConsistent, Consistent
    <2>10. CASE Backend # "memory"
      <3>1. UNCHANGED <<rows, heads>>
        BY <1>5, <2>10
      <3>2. TypeOK'
        BY <1>1, <2>1, <2>7, <2>8, <3>1 DEF Inv, TypeOK, WritersTyped
      <3>3. MemoryIsDatabase'
        BY <1>1, <2>10 DEF Inv, MemoryIsDatabase
      <3> QED BY <2>2, <3>1, <3>2, <3>3 DEF Inv, DatabaseConsistent
    <2> QED BY <2>9, <2>10
  <1> HIDE DEF new
  <1> QED BY <1>4, <1>5 DEF PublishLocal, new

\* A committed publication of the SQLite backend, reported or not.
LEMMA PublishDurableKeeps ==
    ASSUME Inv, NEW w \in Writers, NEW returns \in BOOLEAN, PublishDurable(w, returns)
    PROVE  Inv'
  <1> DEFINE d == writer[w]
             s == d.store
             new == DurableCandidate(d)
             h2 == [heads EXCEPT ![d.series] = PublicationId(new)]
  <1>1. /\ d # None /\ d.state = "validating" /\ MayCall(s, w)
        /\ conn[s] = "writable" /\ UNCHANGED walOnly
        /\ MutationAuthority
        /\ ActualParent(d) = d.expected /\ CountersFit(new)
        /\ rows' = rows \cup {new} /\ heads' = h2
    BY DEF PublishDurable, ReadyToPublish
  <1>2. IsWriter(d) /\ s \in Stores /\ d.series \in Series /\ d.snapshot \in Snapshots
    BY <1>1 DEF Inv, TypeOK, IsWriter
  <1>3. Backend # "memory" /\ \A t \in Stores : conn[t] # "memory"
    BY <1>1, <1>2 DEF Inv, MemoryIsDatabase
  <1>4. /\ Records(rows) /\ IsFiniteSet(rows) /\ Intact(rows) = rows
        /\ Consistent(rows, heads)
    BY <1>1 DEF Inv, TypeOK, Records, DatabaseConsistent, Consistent, MutationAuthority, Damaged
  <1>5. /\ Records(rows') /\ IsFiniteSet(rows')
        /\ Consistent(rows', heads')
    <2> DEFINE head == ActualParent(d)
    <2>1. /\ head = DerivedHeads(rows)[d.series] /\ head = d.expected
          /\ CountersFit(Candidate(d, rows, head))
          /\ new = Candidate(d, rows, head)
      BY <1>1 DEF ActualParent, DurableCandidate
    <2> DEFINE add == Candidate(d, rows, head)
               T == rows \cup {add}
    <2> HIDE DEF head, new
    <2>2. /\ Records(T) /\ IsFiniteSet(T) /\ Intact(T) = T
          /\ Consistent(T, [heads EXCEPT ![d.series] = PublicationId(add)])
      <3> HIDE DEF d
      <3> QED BY <1>2, <1>4, <2>1, PublicationKeeps, Zenon
    <2>3. rows' = T /\ heads' = [heads EXCEPT ![d.series] = PublicationId(add)]
      BY <1>1, <2>1
    <2> HIDE DEF T, add
    <2> QED BY <2>2, <2>3
  <1>6. IsRecord(new)
    BY <1>1, <1>5 DEF Records
  <1>7. CASE returns
    <2> DEFINE v2 == [rows |-> rows', heads |-> heads', generation |-> new.generation]
    <2>1. /\ view' = [view EXCEPT ![s] = v2]
          /\ SetState(w, "committed") /\ Releases(w) /\ UNCHANGED <<conn, avail>>
      BY <1>7 DEF PublishDurable
    <2>2. /\ WritersTyped' /\ CallerWaits'
          /\ calling' \in [Stores -> Writers \cup {"compact", None}]
      BY <1>1, <2>1, ReleaseStep
    <2>3. IsView(v2)
      <3> HIDE DEF new
      <3>1. new.generation \in 0 .. CounterMax
        BY <1>6, StoreAssumption DEF IsRecord
      <3> QED BY <1>5, <3>1 DEF IsView, Records
    <2>4. view' = [t \in Stores |-> IF t = s THEN v2 ELSE view[t]]
      BY <2>1 DEF Inv, TypeOK
    <2> HIDE DEF v2
    <2>5. TypeOK'
      BY <1>1, <1>5, <2>1, <2>2, <2>3, <2>4 DEF Inv, TypeOK, WritersTyped, Records
    <2>6. MemoryIsDatabase'
      BY <1>3, <2>1 DEF MemoryIsDatabase
    <2> QED BY <1>5, <2>2, <2>5, <2>6 DEF Inv, DatabaseConsistent, Consistent
  <1>8. CASE ~returns
    <2>1. Dies(s)
      BY <1>8 DEF PublishDurable
    <2>2. TypeOK'
      BY <1>1, <1>2, <1>5, <2>1, DiesType DEF Inv, TypeOK, Records
    <2>3. MemoryIsDatabase'
      BY <1>3, <2>1 DEF Dies, Inv, TypeOK, MemoryIsDatabase
    <2>4. CallerWaits'
      BY <2>1 DEF Dies, Inv, TypeOK, CallerWaits
    <2> QED BY <1>5, <2>2, <2>3, <2>4 DEF Inv, DatabaseConsistent, Consistent
  <1> QED BY <1>7, <1>8

\* Every outcome of publish.
LEMMA PublishStepKeeps == ASSUME Inv, PublishStep PROVE Inv'
  <1>1. ASSUME NEW w \in Writers, PublishUnavailable(w)
        PROVE  Inv'
    <2>1. \A t \in Stores : calling[t] # w
      BY <1>1, NobodyWaits DEF PublishUnavailable
    <2>2. WritersTyped' /\ \A v \in Writers : v # w => writer'[v] = writer[v]
      BY <1>1, SetStateType DEF PublishUnavailable, WritersTyped, Inv, WriterStates
    <2> QED BY <1>1, <2>1, <2>2, WriterOnlyStep DEF PublishUnavailable, database
  <1>2. ASSUME NEW w \in Writers, PublishConflicts(w)
        PROVE  Inv'
    <2>1. /\ WritersTyped' /\ CallerWaits'
          /\ calling' \in [Stores -> Writers \cup {"compact", None}]
      BY <1>2, ReleaseStep DEF PublishConflicts, ReadyToPublish
    <2> QED BY <1>2, <2>1, QuietStep DEF PublishConflicts, database, Inv, TypeOK
  <1>3. ASSUME NEW w \in Writers, PublishFails(w)
        PROVE  Inv'
    <2>1. /\ WritersTyped' /\ CallerWaits'
          /\ calling' \in [Stores -> Writers \cup {"compact", None}]
      BY <1>3, ReleaseStep DEF PublishFails, ReadyToPublish
    <2> QED BY <1>3, <2>1, QuietStep DEF PublishFails, database, Inv, TypeOK
  <1> QED BY <1>1, <1>2, <1>3, PublishLocalKeeps, PublishDurableKeeps DEF PublishStep

-----------------------------------------------------------------------------
(* Compactions *)

\* Every outcome of compact.
LEMMA CompactStepKeeps == ASSUME Inv, CompactStep PROVE Inv'
  <1>1. ASSUME NEW s \in Stores, CompactLocal(s)
        PROVE  Inv'
    <2> DEFINE T == Recounted(rows)
               v2 == [rows |-> T, heads |-> view[s].heads, generation |-> MaxGeneration(T)]
    <2>1. /\ conn[s] = "memory" /\ Backend = "memory"
          /\ view[s].rows = rows /\ view[s].heads = heads /\ Intact(rows) = rows
          /\ \A t \in Stores : t = s
      BY <1>1, StoreAssumption DEF CompactLocal, Inv, MemoryIsDatabase
    <2>2. /\ Records(T) /\ IsFiniteSet(T) /\ Intact(T) = T /\ Consistent(T, heads)
      <3>1. Records(rows) /\ IsFiniteSet(rows) /\ Consistent(rows, heads) /\ RecountFits(rows)
        BY <1>1, <2>1 DEF CompactLocal, Inv, TypeOK, Records, DatabaseConsistent, Consistent
      <3> QED BY <2>1, <3>1, RecountedKeeps
    <2> HIDE DEF T
    <2>3. MaxGeneration(T) \in 0 .. CounterMax
      BY <2>2, LatestGeneration
    <2>4. IsView(v2)
      BY <2>2, <2>3 DEF IsView, Records
    <2>5. view' = [t \in Stores |-> v2] /\ rows' = T
      <3>1. view' = [view EXCEPT ![s].rows = T, ![s].generation = MaxGeneration(T)]
        BY <1>1, <2>1 DEF CompactLocal, T
      <3>2. IsView(view[s]) /\ view = [t \in Stores |-> view[t]]
        BY DEF Inv, TypeOK
      <3>3. view'[s] = v2
        BY <2>1, <3>1, <3>2 DEF IsView
      <3> QED BY <1>1, <2>1, <3>1, <3>2, <3>3 DEF CompactLocal
    <2> HIDE DEF v2
    <2>6. TypeOK'
      BY <1>1, <2>2, <2>4, <2>5 DEF CompactLocal, Inv, TypeOK, Records
    <2>7. MemoryIsDatabase'
      BY <1>1, <2>1, <2>2, <2>5 DEF CompactLocal, Inv, MemoryIsDatabase, v2
    <2>8. CallerWaits'
      BY <1>1 DEF CompactLocal, Inv, CallerWaits
    <2> QED BY <1>1, <2>2, <2>5, <2>6, <2>7, <2>8
            DEF CompactLocal, Inv, DatabaseConsistent, Consistent
  <1>2. ASSUME NEW s \in Stores, NEW returns \in BOOLEAN, CompactDurable(s, returns)
        PROVE  Inv'
    <2>1. /\ conn[s] = "writable" /\ UNCHANGED <<heads, walOnly>>
          /\ rows' = Recounted(rows) /\ RecountFits(rows) /\ MutationAuthority
      BY <1>2 DEF CompactDurable
    <2>2. Backend # "memory" /\ \A t \in Stores : conn[t] # "memory"
      BY <2>1 DEF Inv, MemoryIsDatabase
    <2>3. /\ Records(rows') /\ IsFiniteSet(rows') /\ Consistent(rows', heads')
      <3>1. /\ Records(rows) /\ IsFiniteSet(rows) /\ Consistent(rows, heads)
            /\ Intact(rows) = rows
        BY <2>1
        DEF Inv, TypeOK, Records, DatabaseConsistent, Consistent, MutationAuthority, Damaged
      <3> QED BY <2>1, <3>1, RecountedKeeps
    <2>4. CASE returns
      <3> DEFINE v2 == [rows |-> rows', heads |-> heads, generation |-> MaxGeneration(rows')]
      <3>1. /\ view' = [view EXCEPT ![s] = v2]
            /\ calling' = [calling EXCEPT ![s] = None]
            /\ UNCHANGED <<conn, avail, writer>>
        BY <1>2, <2>4 DEF CompactDurable
      <3>2. IsView(v2)
        <4>1. MaxGeneration(rows') \in 0 .. CounterMax
          BY <2>3, LatestGeneration
        <4> QED BY <2>3, <4>1 DEF IsView, Records
      <3> HIDE DEF v2
      <3>3. view' = [t \in Stores |-> IF t = s THEN v2 ELSE view[t]]
        BY <3>1 DEF Inv, TypeOK
      <3>4. TypeOK'
        BY <2>1, <2>3, <3>1, <3>2, <3>3 DEF Inv, TypeOK, Records
      <3>5. MemoryIsDatabase'
        BY <2>2, <3>1 DEF MemoryIsDatabase
      <3>6. CallerWaits'
        BY <3>1 DEF Inv, TypeOK, CallerWaits
      <3> QED BY <2>3, <3>4, <3>5, <3>6 DEF Inv, DatabaseConsistent, Consistent
    <2>5. CASE ~returns
      <3>1. Dies(s)
        BY <1>2, <2>5 DEF CompactDurable
      <3>2. TypeOK'
        BY <2>1, <2>3, <3>1, DiesType DEF Inv, TypeOK, Records
      <3>3. MemoryIsDatabase'
        BY <2>2, <3>1 DEF Dies, Inv, TypeOK, MemoryIsDatabase
      <3>4. CallerWaits'
        BY <3>1 DEF Dies, Inv, TypeOK, CallerWaits
      <3> QED BY <2>3, <3>2, <3>3, <3>4 DEF Inv, DatabaseConsistent, Consistent
    <2> QED BY <2>4, <2>5
  <1>3. ASSUME NEW s \in Stores, CompactFails(s)
        PROVE  Inv'
    <2>1. /\ CallerWaits'
          /\ calling' \in [Stores -> Writers \cup {"compact", None}]
      BY <1>3 DEF CompactFails, Inv, TypeOK, CallerWaits
    <2> QED BY <1>3, <2>1, QuietStep DEF CompactFails, database, Inv, TypeOK, WritersTyped
  <1> QED BY <1>1, <1>2, <1>3 DEF CompactStep

-----------------------------------------------------------------------------
(* Theorems *)

\* No step of a writer, a call, a recovery or the environment leaves the invariant.
LEMMA InvAlways == Spec => []Inv
  <1>1. Inv /\ UNCHANGED vars => Inv'
    <2> SUFFICES ASSUME Inv, UNCHANGED vars PROVE Inv'
      OBVIOUS
    <2>1. CallerWaits'
      BY DEF vars, Inv, CallerWaits
    <2> QED BY <2>1, QuietStep DEF vars, Inv, TypeOK, WritersTyped
  <1>2. Inv /\ [Next]_vars => Inv'
    BY <1>1, WriterStepKeeps, PublishStepKeeps, CompactStepKeeps, RecoverStepKeeps,
       EnvironmentKeeps DEF Next
  <1> QED BY InvInitially, <1>2, PTL DEF Spec

\* TypeOK: every store, writer and record stays within its type, the counters below their
\* limit included, whatever the interleaving of handles, recoveries and crashes.
THEOREM StoreTypeCorrect == Spec => []TypeOK
  <1>1. Inv => TypeOK
    BY DEF Inv
  <1> QED BY <1>1, InvAlways, PTL

\* However publications, compactions, crashes and recoveries of any number of
\* processes interleave, no census of the database is ever refused: no fork, no gap,
\* no generation twice, and the head table is the one that the chains derive.
THEOREM DatabaseAlwaysConsistent == Spec => []DatabaseConsistent
  <1>1. Inv => DatabaseConsistent
    BY DEF Inv
  <1> QED BY <1>1, InvAlways, PTL

-----------------------------------------------------------------------------
(* The series *)

\* The number of a series' publications by its head.
Length(h, x) == IF h[x] = Root THEN 0 ELSE h[x][3]

HistoryOf(R) == [x \in Series |-> { Publication(r) : r \in InSeries(R, x) }]

\* A head's sequence is the number of publications of its series.
Counted(R, h) ==
    /\ \A r \in R : r.parent = Root => r.sequence = 1
    /\ \A x \in Series : /\ IsFiniteSet(HistoryOf(R)[x])
                         /\ Cardinality(HistoryOf(R)[x]) = Length(h, x)

Published(R, h, d) ==
    /\ d.series \in Series /\ d.snapshot \in Snapshots
    /\ h[d.series] = d.expected
    /\ CountersFit(Candidate(d, R, d.expected))

\* The data of a writer that is in its publish call, or may make it.
Validating(d) == \E w \in Writers : /\ writer[w] # None /\ writer[w].state = "validating"
                                    /\ d = writer[w]

\* What a step can do to the publications: nothing, a rewriting of the records, or
\* one publication on top of a head.
DatabaseStep ==
    \/ UNCHANGED <<rows, heads>>
    \/ Rewritten(rows, rows') /\ UNCHANGED heads
    \/ /\ Intact(rows) = rows
       /\ \E d : /\ Validating(d) /\ Published(rows, heads, d)
                 /\ rows' = rows \cup {Candidate(d, rows, d.expected)}
                 /\ heads' = [heads EXCEPT ![d.series] =
                                PublicationId(Candidate(d, rows, d.expected))]

\* A rewriting changes nothing of the series.
LEMMA RewrittenHistory ==
    ASSUME NEW R, NEW T, NEW h, Counted(R, h), Rewritten(R, T)
    PROVE  HistoryOf(T) = HistoryOf(R) /\ Counted(T, h)
  <1>1. PICK f : Rewrites(f, R, T)
    BY DEF Rewritten
  <1>2. \A r \in R : Publication(f[r]) = Publication(r)
    BY <1>1 DEF Rewrites, Publication
  <1>3. \A t \in T : t.parent = Root => t.sequence = 1
    BY <1>1 DEF Rewrites, Counted
  <1>4. ASSUME NEW x \in Series
        PROVE  HistoryOf(T)[x] = HistoryOf(R)[x]
    <2>1. \A p \in HistoryOf(T)[x] : p \in HistoryOf(R)[x]
      BY <1>1, <1>2 DEF HistoryOf, InSeries, Rewrites
    <2>2. \A p \in HistoryOf(R)[x] : p \in HistoryOf(T)[x]
      BY <1>1, <1>2 DEF HistoryOf, InSeries, Rewrites
    <2> QED BY <2>1, <2>2
  <1>5. HistoryOf(T) = HistoryOf(R)
    BY <1>4 DEF HistoryOf
  <1> QED BY <1>3, <1>5 DEF Counted

\* A publication is one publication of the abstract series, based on all before it.
LEMMA PublishedHistory ==
    ASSUME NEW R, NEW h, Records(R), Intact(R) = R, Consistent(R, h), Counted(R, h),
           NEW d, Published(R, h, d)
    PROVE  LET new == Candidate(d, R, d.expected)
               x == d.series
           IN  /\ HistoryOf(R \cup {new})
                  = [HistoryOf(R) EXCEPT ![x] =
                       @ \cup {[snapshot |-> d.snapshot, basedOn |-> Cardinality(@)]}]
               /\ Counted(R \cup {new}, [h EXCEPT ![x] = PublicationId(new)])
  <1> DEFINE x == d.series
             head == d.expected
             new == Candidate(d, R, head)
             top == HeadRecord(R, x)
             T == R \cup {new}
             h2 == [h EXCEPT ![x] = PublicationId(new)]
             H == HistoryOf(R)
             p2 == [snapshot |-> d.snapshot, basedOn |-> Cardinality(H[x])]
  <1>1. x \in Series /\ d.snapshot \in Snapshots /\ h[x] = head /\ h = DerivedHeads(R)
    BY DEF Published, Consistent, CensusValid
  <1>2. /\ IsRecord(new) /\ new.series = x /\ new.snapshot = d.snapshot /\ new.parent = head
        /\ \A q \in InSeries(R, x) : q.sequence < new.sequence
        /\ \/ head = Root /\ InSeries(R, x) = {} /\ new.sequence = 1
           \/ /\ head # Root /\ top \in InSeries(R, x)
              /\ head = PublicationId(top) /\ new.sequence = top.sequence + 1
    <2>1. head = DerivedHeads(R)[x] /\ CountersFit(Candidate(d, R, head))
      BY <1>1 DEF Published
    <2>2. Follows(new, R, d, head)
      BY <1>1, <2>1, CandidateFollows
    <2> HIDE DEF new
    <2> QED BY <2>2 DEF Follows
  <1> HIDE DEF new, top
  <1>3. \A q \in T : q.sequence \in Nat \ {0}
    BY <1>2, StoreAssumption DEF Records, IsRecord
  <1>4. /\ Length(h, x) = new.sequence - 1 /\ Length(h2, x) = new.sequence
        /\ Publication(new) = [snapshot |-> d.snapshot, basedOn |-> Length(h, x)]
    <2>1. \A a, b, c, e : <<a, b, c, e>> # Root
      BY DEF Root
    <2>2. h2[x] = PublicationId(new)
      BY <1>1 DEF DerivedHeads
    <2>3. Length(h2, x) = new.sequence
      BY <2>1, <2>2 DEF Length, PublicationId
    <2>4. Length(h, x) = new.sequence - 1
      <3>1. CASE head = Root
        BY <1>1, <1>2, <3>1 DEF Length
      <3>2. CASE head # Root
        <4>1. head[3] = top.sequence /\ new.sequence = top.sequence + 1
          BY <1>2, <3>2 DEF PublicationId
        <4>2. top.sequence \in Nat
          BY <1>2, <1>3, <3>2 DEF InSeries
        <4> QED BY <1>1, <3>2, <4>1, <4>2 DEF Length
      <3> QED BY <3>1, <3>2
    <2>5. Publication(new) = [snapshot |-> d.snapshot, basedOn |-> Length(h, x)]
      BY <1>1, <1>2 DEF Publication, Length
    <2> QED BY <2>3, <2>4, <2>5
  <1>5. /\ IsFiniteSet(H[x]) /\ Cardinality(H[x]) = Length(h, x)
        /\ Publication(new) = p2
    BY <1>1, <1>4 DEF Counted
  <1>6. \A q \in InSeries(R, x) : Publication(q).basedOn = q.sequence - 1
    <2> TAKE q \in InSeries(R, x)
    <2>1. q \in R
      BY DEF InSeries
    <2>2. CASE q.parent = Root
      BY <2>1, <2>2 DEF Publication, Counted
    <2>3. CASE q.parent # Root
      <3>1. PICK p \in R : PublicationId(p) = q.parent /\ q.sequence = p.sequence + 1
        BY <2>1, <2>3 DEF Consistent, Chained
      <3>2. q.parent[3] = p.sequence /\ p.sequence \in Nat
        BY <1>3, <3>1 DEF PublicationId
      <3> QED BY <2>3, <3>1, <3>2 DEF Publication
    <2> QED BY <2>2, <2>3
  <1>7. p2 \notin H[x]
    <2>1. p2.basedOn = new.sequence - 1
      BY <1>4, <1>5
    <2>2. \A q \in InSeries(R, x) : Publication(q).basedOn # p2.basedOn
      BY <1>2, <1>3, <1>6, <2>1 DEF InSeries
    <2> HIDE DEF p2
    <2> QED BY <1>1, <2>2 DEF HistoryOf
  <1> HIDE DEF p2
  <1>8. HistoryOf(T)[x] = H[x] \cup {p2}
    <2>1. InSeries(T, x) = InSeries(R, x) \cup {new}
      BY <1>2 DEF InSeries
    <2>2. HistoryOf(T)[x] = { Publication(r) : r \in InSeries(R, x) \cup {new} }
      BY <1>1, <2>1 DEF HistoryOf
    <2>3. H[x] = { Publication(r) : r \in InSeries(R, x) }
      BY <1>1 DEF HistoryOf
    <2> HIDE DEF H
    <2> QED BY <1>5, <2>2, <2>3
  <1>9. \A y \in Series : y # x => HistoryOf(T)[y] = H[y]
    <2>1. \A y \in Series : y # x => InSeries(T, y) = InSeries(R, y)
      BY <1>2 DEF InSeries
    <2> HIDE DEF T
    <2> QED BY <2>1 DEF HistoryOf
  <1>10. HistoryOf(T) = [H EXCEPT ![x] = H[x] \cup {p2}]
    <2>1. H = [y \in Series |-> H[y]] /\ HistoryOf(T) = [y \in Series |-> HistoryOf(T)[y]]
      BY DEF HistoryOf
    <2> HIDE DEF H, T
    <2> QED BY <1>8, <1>9, <2>1
  <1>11. Counted(T, h2)
    <2>1. ASSUME NEW y \in Series
          PROVE  /\ IsFiniteSet(HistoryOf(T)[y])
                 /\ Cardinality(HistoryOf(T)[y]) = Length(h2, y)
      <3>1. CASE y = x
        <4>1. /\ IsFiniteSet(H[x] \cup {p2})
              /\ Cardinality(H[x] \cup {p2}) = Cardinality(H[x]) + 1
          BY <1>5, <1>7, FS_AddElement
        <4>2. new.sequence \in Nat
          BY <1>3
        <4>3. Cardinality(H[x]) = new.sequence - 1
          BY <1>4, <1>5
        <4>4. HistoryOf(T)[y] = H[x] \cup {p2} /\ Length(h2, y) = new.sequence
          BY <1>4, <1>8, <3>1
        <4> HIDE DEF H, h2, T
        <4> QED BY <4>1, <4>2, <4>3, <4>4
      <3>2. CASE y # x
        <4>1. Length(h2, y) = Length(h, y)
          BY <1>1, <3>2 DEF Length, DerivedHeads
        <4> QED BY <1>9, <3>2, <4>1 DEF Counted
      <3> QED BY <3>1, <3>2
    <2>2. \A r \in T : r.parent = Root => r.sequence = 1
      BY <1>2 DEF Counted
    <2> QED BY <2>1, <2>2 DEF Counted
  <1> QED BY <1>10, <1>11 DEF new, p2

\* No step does anything else to the publications.
LEMMA NextIsDatabaseStep == ASSUME Inv, [Next]_vars PROVE DatabaseStep
  <1>1. CASE UNCHANGED vars
    BY <1>1 DEF vars, DatabaseStep
  <1>2. CASE WriterStep
    BY <1>2 DEF WriterStep, Begin, Stage, Validate, Cancel, Destroy, database, DatabaseStep
  <1>3. CASE RecoverStep
    BY <1>3 DEF RecoverStep, RecoverArm, RecoverRefused, Recover, RecoverPoisons, database,
                DatabaseStep
  <1>4. CASE Environment
    <2>1. ASSUME NEW r \in rows, Damage(r)
          PROVE  DatabaseStep
      <3>1. Rewritten(rows, rows') /\ UNCHANGED heads
        BY <2>1, DamageKeeps
        DEF Damage, Inv, TypeOK, Records, DatabaseConsistent, Consistent
      <3> QED BY <3>1 DEF DatabaseStep
    <2> QED BY <1>4, <2>1
            DEF Environment, OpenStore, Crash, LoseSharedMemory, database, DatabaseStep
  <1>5. CASE CompactStep
    <2>1. ASSUME Intact(rows) = rows, RecountFits(rows), rows' = Recounted(rows), heads' = heads
          PROVE  DatabaseStep
      <3>1. Rewritten(rows, rows')
        BY <2>1, RecountedKeeps DEF Inv, TypeOK, Records, DatabaseConsistent, Consistent
      <3> QED BY <2>1, <3>1 DEF DatabaseStep
    <2>2. ASSUME NEW s \in Stores, CompactLocal(s)
          PROVE  DatabaseStep
      <3>1. view[s].rows = rows /\ Intact(rows) = rows
        BY <2>2 DEF CompactLocal, Inv, MemoryIsDatabase
      <3>2. view'[s].rows = Recounted(rows)
        <4>1. IsView(view[s]) /\ view = [t \in Stores |-> view[t]]
          BY DEF Inv, TypeOK
        <4> QED BY <2>2, <3>1, <4>1 DEF CompactLocal, IsView
      <3> QED BY <2>1, <2>2, <3>1, <3>2 DEF CompactLocal
    <2>3. ASSUME NEW s \in Stores, NEW returns \in BOOLEAN, CompactDurable(s, returns)
          PROVE  DatabaseStep
      BY <2>1, <2>3 DEF CompactDurable, MutationAuthority, Damaged
    <2> QED BY <1>5, <2>2, <2>3 DEF CompactStep, CompactFails, database, DatabaseStep
  <1>6. CASE PublishStep
    <2>1. ASSUME NEW w \in Writers, NEW returns \in BOOLEAN, PublishDurable(w, returns)
          PROVE  DatabaseStep
      <3> DEFINE d == writer[w]
                 head == DerivedHeads(rows)[d.series]
      <3>1. /\ d # None /\ d.state = "validating" /\ head = d.expected
            /\ CountersFit(Candidate(d, rows, head))
            /\ MutationAuthority
            /\ rows' = rows \cup {Candidate(d, rows, head)}
            /\ heads' = [heads EXCEPT ![d.series] = PublicationId(Candidate(d, rows, head))]
        BY <2>1 DEF PublishDurable, ReadyToPublish, DurableCandidate, ActualParent
      <3>2. d.series \in Series /\ d.snapshot \in Snapshots
        BY <3>1 DEF Inv, TypeOK, IsWriter
      <3>3. Intact(rows) = rows /\ heads = DerivedHeads(rows)
        BY <3>1 DEF MutationAuthority, Damaged, CensusValid
      <3>4. Published(rows, heads, d)
        BY <3>1, <3>2, <3>3 DEF Published
      <3>5. Validating(d)
        BY <3>1 DEF Validating
      <3> HIDE DEF d
      <3> QED BY <3>1, <3>3, <3>4, <3>5 DEF DatabaseStep
    <2>2. ASSUME NEW w \in Writers, PublishLocal(w)
          PROVE  DatabaseStep
      <3> DEFINE d == writer[w]
                 s == d.store
                 head == LocalParent(d)
      <3>1. /\ d # None /\ d.state = "validating"
            /\ \/ UNCHANGED <<rows, heads>>
               \/ /\ Backend = "memory"
                  /\ head = d.expected /\ CountersFit(Candidate(d, view[s].rows, head))
                  /\ view' = [view EXCEPT ![s] =
                        [rows |-> view[s].rows \cup {Candidate(d, view[s].rows, head)},
                         heads |-> [view[s].heads EXCEPT
                            ![d.series] = PublicationId(Candidate(d, view[s].rows, head))],
                         generation |-> Candidate(d, view[s].rows, head).generation]]
                  /\ rows' = view'[s].rows /\ heads' = view'[s].heads
        BY <2>2 DEF PublishLocal, ReadyToPublish
      <3>2. d.series \in Series /\ d.snapshot \in Snapshots /\ s \in Stores
        BY <3>1 DEF Inv, TypeOK, IsWriter
      <3>3. CASE UNCHANGED <<rows, heads>>
        BY <3>3 DEF DatabaseStep
      <3>4. CASE Backend = "memory" /\ ~UNCHANGED <<rows, heads>>
        <4>1. view[s].rows = rows /\ view[s].heads = heads /\ Intact(rows) = rows
          BY <3>2, <3>4 DEF Inv, MemoryIsDatabase
        <4>2. heads = DerivedHeads(rows) /\ view = [t \in Stores |-> view[t]]
          BY DEF Inv, TypeOK, DatabaseConsistent, CensusValid
        <4>3. head = heads[d.series]
          BY <4>1, <4>2 DEF LocalParent
        <4>v. Validating(d)
          BY <3>1 DEF Validating
        <4> HIDE DEF d, s, head
        <4>4. /\ head = d.expected /\ CountersFit(Candidate(d, rows, head))
              /\ rows' = rows \cup {Candidate(d, rows, head)}
              /\ heads' = [heads EXCEPT ![d.series] = PublicationId(Candidate(d, rows, head))]
          BY <3>1, <3>2, <3>4, <4>1, <4>2
        <4>5. Published(rows, heads, d)
          BY <3>2, <4>3, <4>4 DEF Published
        <4> QED BY <4>1, <4>4, <4>5, <4>v DEF DatabaseStep
      <3> QED BY <3>1, <3>3, <3>4
    <2> QED BY <1>6, <2>1, <2>2
            DEF PublishStep, PublishUnavailable, PublishConflicts, PublishFails, database,
                DatabaseStep
  <1> QED BY <1>1, <1>2, <1>3, <1>4, <1>5, <1>6 DEF Next

\* The store implements its promise about the series, whatever the backend: a
\* publication is always made on top of all that the series holds, through crashes,
\* recoveries, damage and compactions by any number of handles.
THEOREM SeriesImplemented == Spec => ImplementsSeries
  <1> DEFINE C == Counted(rows, heads)
  <1>1. History = HistoryOf(rows)
    BY DEF History, HistoryOf
  <1>2. Init => Abstract!Init /\ C
    <2> SUFFICES ASSUME Init PROVE Abstract!Init /\ C
      OBVIOUS
    <2>1. rows = {} /\ heads = [x \in Series |-> Root]
      BY DEF Init, DerivedHeads, InSeries
    <2>2. HistoryOf(rows) = [x \in Series |-> {}]
      BY <2>1 DEF HistoryOf, InSeries
    <2>3. C
      BY <2>1, <2>2, FS_EmptySet DEF Counted, Length
    <2> QED BY <1>1, <2>2, <2>3 DEF Abstract!Init
  <1>3. Inv /\ C /\ DatabaseStep => C' /\ [Abstract!Next]_History
    <2> SUFFICES ASSUME Inv, C, DatabaseStep PROVE C' /\ [Abstract!Next]_History
      OBVIOUS
    <2>1. CASE UNCHANGED <<rows, heads>>
      BY <2>1 DEF History
    <2>2. CASE Rewritten(rows, rows') /\ UNCHANGED heads
      <3>1. HistoryOf(rows') = HistoryOf(rows) /\ Counted(rows', heads)
        BY <2>2, RewrittenHistory
      <3> QED BY <1>1, <2>2, <3>1 DEF History, HistoryOf
    <2>3. ASSUME Intact(rows) = rows, NEW d, Published(rows, heads, d),
                 rows' = rows \cup {Candidate(d, rows, d.expected)},
                 heads' = [heads EXCEPT ![d.series] =
                             PublicationId(Candidate(d, rows, d.expected))]
          PROVE  C' /\ [Abstract!Next]_History
      <3>1. Records(rows) /\ Consistent(rows, heads)
        BY DEF Inv, TypeOK, Records, DatabaseConsistent, Consistent
      <3>2. /\ HistoryOf(rows')
               = [HistoryOf(rows) EXCEPT ![d.series] =
                    @ \cup {[snapshot |-> d.snapshot, basedOn |-> Cardinality(@)]}]
            /\ Counted(rows', heads')
        BY <2>3, <3>1, PublishedHistory
      <3>3. Abstract!Publish(d.series, d.snapshot)
        <4>1. History' = HistoryOf(rows')
          BY DEF History, HistoryOf
        <4>2. \A S : Abstract!Cardinality(S) = Cardinality(S)
          BY DEF Abstract!Cardinality, Cardinality
        <4> QED BY <1>1, <3>2, <4>1, <4>2 DEF Abstract!Publish
      <3>4. d.series \in Series /\ d.snapshot \in Snapshots
        BY <2>3 DEF Published
      <3> QED BY <3>2, <3>3, <3>4 DEF Abstract!Next
    <2> QED BY <2>1, <2>2, <2>3 DEF DatabaseStep
  <1>4. Inv /\ [Next]_vars => DatabaseStep
    BY NextIsDatabaseStep
  <1> QED BY <1>2, <1>3, <1>4, InvAlways, PTL DEF Spec, ImplementsSeries, Abstract!Spec

-----------------------------------------------------------------------------
(* What a handle may conclude from its own maps *)

\* A set of sequences has a least one.
LEMMA LeastExists ==
    ASSUME NEW S, S \subseteq Nat, S # {}
    PROVE  \E m \in S : \A n \in S : m <= n
  <1>1. PICK m \in S : \A n \in S : ~ (<<n, m>> \in OpToRel(<, Nat))
    BY WFMin, NatLessThanWellFounded, Zenon
  <1>2. \A n \in S : ~ (n < m)
    BY <1>1 DEF OpToRel
  <1>3. \A n \in S : m <= n
    BY <1>2
  <1> QED BY <1>3

\* The heads of a chain's intact records differ from its own, or do not derive, as
\* soon as one record is damaged: an older one leaves a gap or a second root.
LEMMA DamageShows ==
    ASSUME NEW R, Records(R), OneSequenceEach(R), Chained(R),
           AuthorityHeadsDerive(Intact(R)), DerivedHeads(Intact(R)) = DerivedHeads(R)
    PROVE  Intact(R) = R
  <1> DEFINE I == Intact(R)
  <1>1. I \subseteq R /\ Records(I) /\ OneSequenceEach(I)
    BY DEF Intact, Records, AuthorityHeadsDerive
  <1> SUFFICES ASSUME NEW r \in R, r \notin I PROVE FALSE
    BY <1>1
  <1> DEFINE x == r.series
             Later == { q \in InSeries(I, x) : r.sequence < q.sequence }
  <1>2. x \in Series /\ r \in InSeries(R, x)
    BY DEF Records, IsRecord, InSeries
  <1>3. \A q \in R : q.sequence \in Nat
    BY StoreAssumption DEF Records, IsRecord
  <1>4. \A a, b, c, e : <<a, b, c, e>> # Root
    BY DEF Root
  <1>5. PICK h \in InSeries(R, x) : /\ DerivedHeads(R)[x] = PublicationId(h)
                                    /\ r.sequence <= h.sequence
    BY <1>2, HeadExists DEF DerivedHeads
  <1>6. PICK g \in InSeries(I, x) : DerivedHeads(I)[x] = PublicationId(g)
    <2>1. DerivedHeads(I)[x] # Root
      BY <1>4, <1>5 DEF PublicationId
    <2>2. InSeries(I, x) # {}
      BY <1>2, <2>1 DEF DerivedHeads
    <2>3. HeadRecord(I, x) \in InSeries(I, x)
      BY <1>1, <2>2, HeadExists
    <2> QED BY <1>2, <2>2, <2>3 DEF DerivedHeads
  <1>7. g = h
    <2>1. g.series = h.series /\ g.sequence = h.sequence
      BY <1>5, <1>6 DEF PublicationId
    <2> QED BY <1>1, <1>5, <1>6, <2>1 DEF OneSequenceEach, InSeries
  <1>8. h \in Later
    <2>1. h.sequence # r.sequence
      BY <1>2, <1>5, <1>6, <1>7 DEF OneSequenceEach, InSeries
    <2> QED BY <1>3, <1>5, <1>6, <1>7, <2>1 DEF InSeries
  <1>9. PICK q \in Later : \A p \in Later : q.sequence <= p.sequence
    <2> DEFINE S == { p.sequence : p \in Later }
    <2>1. S \subseteq Nat /\ S # {}
      BY <1>1, <1>3, <1>8 DEF InSeries
    <2>2. PICK m \in S : \A n \in S : m <= n
      <3> HIDE DEF S
      <3> QED BY <2>1, LeastExists
    <2>3. PICK p \in Later : p.sequence = m
      BY <2>2
    <2>4. \A o \in Later : p.sequence <= o.sequence
      BY <2>2, <2>3
    <2> QED BY <2>4
  <1>10. q \in I /\ q \in R /\ q.series = x /\ r.sequence < q.sequence
    BY <1>1, <1>9 DEF InSeries
  <1>11. CASE q.parent # Root
    <2>1. PICK p \in I : p.series = q.series /\ q.sequence = p.sequence + 1
      BY <1>10, <1>11 DEF AuthorityHeadsDerive, Chained
    <2>2. p \notin Later /\ p \in InSeries(I, x)
      BY <1>1, <1>3, <1>9, <1>10, <2>1 DEF InSeries
    <2>3. p.sequence = r.sequence
      BY <1>1, <1>3, <1>10, <2>1, <2>2
    <2> QED BY <1>1, <1>10, <2>1, <2>3 DEF OneSequenceEach
  <1>12. CASE q.parent = Root
    <2> DEFINE S == { p.sequence : p \in InSeries(R, x) }
    <2>1. S \subseteq Nat /\ S # {} /\ r.sequence \in S
      BY <1>2, <1>3 DEF InSeries
    <2>2. PICK m \in S : \A n \in S : m <= n
      <3> HIDE DEF S
      <3> QED BY <2>1, LeastExists
    <2>3. PICK p \in InSeries(R, x) : p.sequence = m
      BY <2>2
    <2>4. p \in R /\ p.series = x /\ p.sequence <= r.sequence
      BY <2>1, <2>2, <2>3 DEF InSeries
    <2>5. p.parent = Root
      <3> SUFFICES ASSUME p.parent # Root PROVE FALSE
        OBVIOUS
      <3>1. PICK o \in R : o.series = p.series /\ p.sequence = o.sequence + 1
        BY <2>4 DEF Chained
      <3>2. o.sequence \in S
        BY <2>4, <3>1 DEF InSeries
      <3> HIDE DEF S
      <3> QED BY <1>3, <2>2, <2>3, <2>4, <3>1, <3>2
    <2>6. p = q
      BY <1>10, <1>12, <2>4, <2>5 DEF Chained
    <2> QED BY <1>2, <1>3, <1>10, <2>4, <2>6
  <1> QED BY <1>11, <1>12

\* A new record's generation is the latest one.
LEMMA NewestGeneration ==
    ASSUME NEW R, Records(R), NEW new, IsRecord(new), ~new.corrupt,
           \A q \in Intact(R) : q.generation < new.generation
    PROVE  MaxGeneration(R \cup {new}) = new.generation
  <1> DEFINE T == R \cup {new}
             S == { r.generation : r \in Intact(T) }
  <1>1. Intact(T) = Intact(R) \cup {new}
    BY DEF Intact
  <1>2. S \subseteq 0 .. CounterMax /\ new.generation \in S
    BY <1>1 DEF Records, IsRecord, Intact
  <1>3. MaxOf(S) \in S \cup {0} /\ \A m \in S : m <= MaxOf(S)
    <2> HIDE DEF S
    <2> QED BY <1>2, MaxExists, StoreAssumption
  <1>4. new.generation \in 1 .. CounterMax
    BY DEF IsRecord
  <1>5. \A m \in S : m <= new.generation
    BY <1>1, <1>4, StoreAssumption DEF Records, IsRecord, Intact
  <1> DEFINE m == MaxOf(S)
  <1>6. m \in S \cup {0} /\ new.generation <= m
    BY <1>2, <1>3
  <1>7. m = new.generation
    <2>1. CASE m \in S
      <3>1. m \in 0 .. CounterMax /\ m <= new.generation
        BY <1>2, <1>5, <2>1
      <3> HIDE DEF m
      <3> QED BY <1>4, <1>6, <3>1, StoreAssumption
    <2>2. CASE m = 0
      <3> HIDE DEF m
      <3> QED BY <1>4, <1>6, <2>2, StoreAssumption
    <2> QED BY <1>6, <2>1, <2>2
  <1> QED BY <1>7 DEF MaxGeneration


-----------------------------------------------------------------------------
(* What no step does to the publications *)

\* The publications of R are in T, at their generation or a later one.
Grows(R, T) ==
    \A r \in R : \E q \in T : PublicationId(q) = PublicationId(r) /\ q.generation >= r.generation

\* The record that a step has added, if it has added one.
Adds(R, T, new) == T = R \cup {new} /\ \A r \in R : PublicationId(r) # PublicationId(new)

\* The one record a database step can add, and what is known of it.
LEMMA PublishedRecord ==
    ASSUME Inv, Intact(rows) = rows, NEW d, Published(rows, heads, d),
           rows' = rows \cup {Candidate(d, rows, d.expected)}
    PROVE  /\ Follows(Candidate(d, rows, d.expected), rows, d, d.expected)
           /\ Adds(rows, rows', Candidate(d, rows, d.expected))
           /\ MaxGeneration(rows') = Candidate(d, rows, d.expected).generation
  <1> DEFINE new == Candidate(d, rows, d.expected)
             head == d.expected
  <1>1. Records(rows) /\ heads = DerivedHeads(rows)
    BY DEF Inv, TypeOK, Records, DatabaseConsistent, CensusValid
  <1>2. /\ head = DerivedHeads(rows)[d.series] /\ CountersFit(Candidate(d, rows, head))
        /\ d.series \in Series /\ d.snapshot \in Snapshots
    BY <1>1 DEF Published
  <1>3. Follows(new, rows, d, head)
    <2> HIDE DEF head
    <2> QED BY <1>1, <1>2, CandidateFollows DEF head
  <1> HIDE DEF new, head
  <1>4. \A r \in rows : PublicationId(r) # PublicationId(new)
    <2> SUFFICES ASSUME NEW r \in rows, PublicationId(r) = PublicationId(new) PROVE FALSE
      OBVIOUS
    <2>1. r.series = new.series /\ r.sequence = new.sequence
      BY DEF PublicationId
    <2>2. r.sequence < new.sequence /\ r.sequence \in Nat
      BY <1>1, <1>3, <2>1, StoreAssumption DEF Follows, InSeries, Records, IsRecord
    <2> QED BY <2>1, <2>2
  <1>5. rows' = rows \cup {new}
    BY DEF new
  <1>6. MaxGeneration(rows') = new.generation
    BY <1>1, <1>3, <1>5, NewestGeneration DEF Follows
  <1> QED BY <1>3, <1>4, <1>5, <1>6 DEF Adds, new, head

\* No step loses a publication or takes back a generation.
LEMMA DatabaseGrows == ASSUME Inv, DatabaseStep PROVE Grows(rows, rows')
  <1>1. \A r \in rows : r.generation \in Nat
    BY StoreAssumption DEF Inv, TypeOK, IsRecord
  <1>2. CASE UNCHANGED <<rows, heads>>
    BY <1>1, <1>2 DEF Grows
  <1>3. CASE Rewritten(rows, rows')
    <2>1. PICK f : Rewrites(f, rows, rows')
      BY <1>3 DEF Rewritten
    <2>2. \A r \in rows : /\ f[r] \in rows' /\ PublicationId(f[r]) = PublicationId(r)
                          /\ f[r].generation >= r.generation
      BY <2>1 DEF Rewrites, PublicationId
    <2> QED BY <2>2 DEF Grows
  <1>4. ASSUME NEW new, rows' = rows \cup {new} PROVE Grows(rows, rows')
    BY <1>1, <1>4 DEF Grows
  <1> QED BY <1>2, <1>3, <1>4 DEF DatabaseStep

\* No step reorders two publications that were there.
LEMMA OrderKept == ASSUME Inv, DatabaseStep PROVE SameOrder(rows, rows')
  <1>1. OneSequenceEach(rows)
    BY DEF Inv, DatabaseConsistent
  <1>2. \A q, r \in rows : PublicationId(q) = PublicationId(r) => q = r
    BY <1>1 DEF OneSequenceEach, PublicationId
  <1>3. CASE UNCHANGED <<rows, heads>>
    BY <1>2, <1>3 DEF SameOrder
  <1>4. CASE Rewritten(rows, rows')
    <2>1. PICK f : Rewrites(f, rows, rows')
      BY <1>4 DEF Rewritten
    <2>2. \A r \in rows : PublicationId(f[r]) = PublicationId(r)
      BY <2>1 DEF Rewrites, PublicationId
    <2>3. \A q \in rows, q2 \in rows' : PublicationId(q) = PublicationId(q2) => q2 = f[q]
      BY <1>2, <2>1, <2>2 DEF Rewrites
    <2>4. \A q, r \in rows : Before(f[q], f[r]) <=> Before(q, r)
      BY <2>1 DEF Rewrites
    <2> QED BY <2>3, <2>4 DEF SameOrder
  <1>5. ASSUME Intact(rows) = rows, NEW d, Published(rows, heads, d),
               rows' = rows \cup {Candidate(d, rows, d.expected)}
        PROVE  SameOrder(rows, rows')
    <2>1. Adds(rows, rows', Candidate(d, rows, d.expected))
      BY <1>5, PublishedRecord
    <2>2. \A q \in rows, q2 \in rows' : PublicationId(q) = PublicationId(q2) => q2 = q
      BY <1>2, <2>1 DEF Adds
    <2> QED BY <2>2 DEF SameOrder
  <1> QED BY <1>3, <1>4, <1>5 DEF DatabaseStep

\* open(snapshot_id) goes by (sequence, generation): among the publications of one
\* snapshot no later publication, compaction or damage, not even of another series,
\* reorders two that were there, whatever the number of handles and writers.
THEOREM ResolverOrderAlwaysKept == Spec => ResolverOrderKept
  <1>1. Inv /\ [Next]_vars => [SameOrder(rows, rows')]_vars
    BY NextIsDatabaseStep, OrderKept
  <1> QED BY <1>1, InvAlways, PTL DEF Spec, ResolverOrderKept

-----------------------------------------------------------------------------
(* What the handles and the writers know of the database *)

\* A handle without a connection to its database keeps maps that show the damage,
\* unless a failed recovery has poisoned it.
DetachedShows ==
    \A s \in Stores : conn[s] = "detached" /\ avail[s] = "available" => Damaged(view[s].rows)

\* A writer that may publish has input snapshots that were published.
BasisKnown ==
    \A w \in Writers : writer[w] # None /\ writer[w].state = "validating" =>
        \A b \in InputSnapshots[writer[w].snapshot] : \E q \in rows : q.snapshot = b

Known ==
    /\ \A s \in Stores : IsPast(view[s])
    /\ DetachedShows
    /\ CommittedIsDurable
    /\ BasisKnown

\* The maps of a handle after a step that has read or written the database.
Latest(v) == v = [rows |-> rows', heads |-> heads', generation |-> MaxGeneration(rows')]

InDatabase(d) ==
    \E r \in rows' : r.series = d.series /\ r.snapshot = d.snapshot /\ r.parent = d.expected

ViewStep == \A s \in Stores : view'[s] = view[s] \/ view'[s] = NoView \/ Latest(view'[s])

DetachStep ==
    \A s \in Stores : conn'[s] = "detached" /\ avail'[s] = "available" =>
        \/ conn[s] = "detached" /\ avail[s] = "available" /\ view'[s] = view[s]
        \/ Damaged(view'[s].rows)

\* Only a publication commits a writer, and only with a known basis it is validated.
CommitStep ==
    \A w \in Writers : writer'[w] # None /\ writer'[w].state \in {"committed", "validating"} =>
        \/ writer'[w] = writer[w]
        \/ writer'[w].state = "committed" /\ InDatabase(writer'[w])
        \/ /\ writer'[w].state = "validating" /\ writer'[w].store \in Stores
           /\ BasisIsPrior(writer'[w].store, writer'[w].snapshot)

Learns == ViewStep /\ DetachStep /\ CommitStep

\* A step that learns nothing: the maps, the connections and the other writers stay.
LEMMA LearnsNothing ==
    ASSUME UNCHANGED <<view, conn, avail>>, CommitStep
    PROVE  Learns
  BY DEF Learns, ViewStep, DetachStep

\* The writers after a step of one of them.
LEMMA SetStateLearns ==
    ASSUME Inv, NEW w \in Writers, writer[w] # None,
           NEW state \in {"rejected", "rolled_back"}, SetState(w, state)
    PROVE  CommitStep
  <1>1. \A v \in Writers : v # w => writer'[v] = writer[v]
    BY DEF SetState, Inv, TypeOK
  <1>2. writer'[w].state = state
    BY DEF SetState, Inv, TypeOK, IsWriter
  <1> QED BY <1>1, <1>2 DEF CommitStep

\* A writer that commits changes nothing of itself but the state.
LEMMA CommitLearns ==
    ASSUME Inv, NEW w \in Writers, writer[w] # None, writer[w].snapshot \in Snapshots,
           SetState(w, "committed"), InDatabase(writer[w])
    PROVE  CommitStep
  <1>1. \A v \in Writers : v # w => writer'[v] = writer[v]
    BY DEF SetState, Inv, TypeOK
  <1>2. /\ writer'[w].state = "committed" /\ writer'[w].series = writer[w].series
        /\ writer'[w].snapshot = writer[w].snapshot /\ writer'[w].expected = writer[w].expected
    BY DEF SetState, Inv, TypeOK, IsWriter
  <1>3. InDatabase(writer'[w])
    BY <1>2 DEF InDatabase
  <1> QED BY <1>1, <1>2, <1>3 DEF CommitStep

\* The end of a process leaves nothing to know.
LEMMA DiesLearns == ASSUME Inv, NEW s \in Stores, Dies(s) PROVE Learns
  <1>1. view' = [t \in Stores |-> IF t = s THEN NoView ELSE view[t]]
    BY DEF Dies, Inv, TypeOK
  <1>2. ViewStep
    BY <1>1 DEF ViewStep
  <1>3. DetachStep
    <2>1. \A t \in Stores : t # s => conn'[t] = conn[t] /\ avail'[t] = avail[t]
      BY DEF Dies, Inv, TypeOK
    <2>2. conn'[s] = "closed"
      BY DEF Dies, Inv, TypeOK
    <2> QED BY <1>1, <2>1, <2>2 DEF DetachStep
  <1>4. CommitStep
    BY DEF Dies, CommitStep
  <1> QED BY <1>2, <1>3, <1>4 DEF Learns

\* Before its publication a writer learns of its basis when it is validated.
LEMMA WriterLearns == ASSUME Inv, WriterStep PROVE Learns
  <1>1. ASSUME NEW w \in Writers, NEW s \in Stores, NEW x \in Series,
               NEW p \in ExpectedParents(s, x), Begin(w, s, x, p)
        PROVE  Learns
    <2>1. CommitStep
      BY <1>1 DEF Begin, Inv, TypeOK, CommitStep
    <2> QED BY <1>1, <2>1, LearnsNothing DEF Begin
  <1>2. ASSUME NEW w \in Writers, NEW c \in Snapshots, Stage(w, c)
        PROVE  Learns
    <2> DEFINE d == [writer[w] EXCEPT !.snapshot = c, !.state = "staged"]
    <2>1. d.state = "staged"
      <3>1. IsWriter(writer[w])
        BY <1>2 DEF Stage, Inv, TypeOK
      <3>2. d = [store |-> writer[w].store, series |-> writer[w].series,
                 expected |-> writer[w].expected, snapshot |-> c, state |-> "staged"]
        BY <3>1, StagedRecord, "staged" \in WriterStates DEF WriterStates
      <3> HIDE DEF d
      <3> QED BY <3>2
    <2> HIDE DEF d
    <2>2. writer' = [v \in Writers |-> IF v = w THEN d ELSE writer[v]]
      BY <1>2 DEF Stage, Inv, TypeOK, d
    <2>3. CommitStep
      BY <2>1, <2>2 DEF CommitStep
    <2> QED BY <1>2, <2>3, LearnsNothing DEF Stage
  <1>3. ASSUME NEW w \in Writers, Validate(w)
        PROVE  Learns
    <2>1. \A v \in Writers : v # w => writer'[v] = writer[v]
      BY <1>3 DEF Validate, SetState, Inv, TypeOK
    <2>2. /\ writer'[w].state = "validating" /\ writer'[w].store = writer[w].store
          /\ writer'[w].snapshot = writer[w].snapshot
      BY <1>3 DEF Validate, SetState, Inv, TypeOK, IsWriter
    <2>3. writer[w].store \in Stores
      BY <1>3 DEF Validate, Inv, TypeOK, IsWriter
    <2>4. CommitStep
      BY <1>3, <2>1, <2>2, <2>3 DEF Validate, CommitStep
    <2> QED BY <1>3, <2>4, LearnsNothing DEF Validate
  <1>4. ASSUME NEW w \in Writers, Cancel(w)
        PROVE  Learns
    BY <1>4, SetStateLearns, LearnsNothing DEF Cancel
  <1>5. ASSUME NEW w \in Writers, Destroy(w)
        PROVE  Learns
    <2>1. CommitStep
      BY <1>5 DEF Destroy, Inv, TypeOK, CommitStep
    <2> QED BY <1>5, <2>1, LearnsNothing DEF Destroy
  <1> QED BY <1>1, <1>2, <1>3, <1>4, <1>5 DEF WriterStep

\* A recovery ends with the maps it began with.
LEMMA RecoverLearns == ASSUME Inv, RecoverStep PROVE Learns
  <1>1. ASSUME NEW s \in Stores, NEW call \in Mutations(s), RecoverArm(s, call)
        PROVE  Learns
    <2>1. avail'[s] = "recovery_handoff_pending" /\ \A t \in Stores : t # s => avail'[t] = avail[t]
      BY <1>1 DEF RecoverArm, Inv, TypeOK
    <2> QED BY <1>1, <2>1 DEF RecoverArm, Learns, ViewStep, DetachStep, CommitStep
  <1>2. ASSUME NEW w \in Writers, RecoverRefused(w)
        PROVE  Learns
    BY <1>2, SetStateLearns, LearnsNothing DEF RecoverRefused
  <1>3. ASSUME NEW s \in Stores, Recover(s)
        PROVE  Learns
    <2>1. /\ conn'[s] = "writable"
          /\ \A t \in Stores : t # s => conn'[t] = conn[t] /\ avail'[t] = avail[t]
      BY <1>3 DEF Recover, Inv, TypeOK
    <2> QED BY <1>3, <2>1 DEF Recover, Learns, ViewStep, DetachStep, CommitStep
  <1>4. ASSUME NEW s \in Stores, RecoverPoisons(s)
        PROVE  Learns
    <2>1. /\ avail'[s] = "poisoned"
          /\ \A t \in Stores : t # s => conn'[t] = conn[t] /\ avail'[t] = avail[t]
      BY <1>4 DEF RecoverPoisons, Inv, TypeOK
    <2>2. CommitStep
      <3>1. CASE calling[s] \in Writers
        <4>1. writer[calling[s]] # None /\ SetState(calling[s], "rolled_back")
          BY <1>4, <3>1, StoreAssumption DEF RecoverPoisons, Inv, CallerWaits
        <4> QED BY <3>1, <4>1, SetStateLearns
      <3>2. CASE calling[s] \notin Writers
        BY <1>4, <3>2 DEF RecoverPoisons, CommitStep
      <3> QED BY <3>1, <3>2
    <2> QED BY <1>4, <2>1, <2>2 DEF RecoverPoisons, Learns, ViewStep, DetachStep
  <1> QED BY <1>1, <1>2, <1>3, <1>4 DEF RecoverStep

\* The maps of a handle that let go of a damaged database show the damage, so that
\* it publishes nothing: what the local publication adds is the memory backend's.
LEMMA LocalIsMemory ==
    ASSUME Inv, Known, NEW w \in Writers, PublishLocal(w),
           ~(SetState(w, "rejected") /\ UNCHANGED <<rows, heads, view>>)
    PROVE  Backend = "memory"
  <1> DEFINE s == writer[w].store
             R == view[s].rows
  <1>1. /\ conn[s] \in {"memory", "detached"} /\ avail[s] = "available"
        /\ LocalHeadsAgree(s)
    BY DEF PublishLocal, ReadyToPublish
  <1>2. s \in Stores
    BY DEF PublishLocal, ReadyToPublish, Inv, TypeOK, IsWriter
  <1>3. ASSUME conn[s] = "detached" PROVE FALSE
    <2>1. Damaged(R)
      BY <1>1, <1>2, <1>3 DEF Known, DetachedShows
    <2>2. Records(R)
      BY <1>2 DEF Inv, TypeOK, IsView, Records
    <2>3. OneSequenceEach(R) /\ Chained(R) /\ view[s].heads = DerivedHeads(R)
      BY <1>2 DEF Known, IsPast
    <2>4. AuthorityHeadsDerive(Intact(R)) /\ DerivedHeads(Intact(R)) = DerivedHeads(R)
      BY <1>1, <2>3 DEF LocalHeadsAgree
    <2> QED BY <2>1, <2>2, <2>3, <2>4, DamageShows DEF Damaged
  <1> QED BY <1>1, <1>2, <1>3 DEF Inv, MemoryIsDatabase

\* A publication of the memory backend, which is one of the database.
LEMMA PublishLocalLearns == ASSUME Inv, Known, NEW w \in Writers, PublishLocal(w) PROVE Learns
  <1> DEFINE d == writer[w]
             s == d.store
             new == Candidate(d, rows, d.expected)
  <1>1. d # None /\ d.state = "validating" /\ UNCHANGED <<walOnly, conn, avail, calling>>
    BY DEF PublishLocal, ReadyToPublish
  <1>2. IsWriter(d) /\ s \in Stores /\ d.series \in Series /\ d.snapshot \in Snapshots
    BY <1>1 DEF Inv, TypeOK, IsWriter
  <1>3. CASE SetState(w, "rejected") /\ UNCHANGED <<rows, heads, view>>
    BY <1>1, <1>3, SetStateLearns, LearnsNothing
  <1>4. CASE ~(SetState(w, "rejected") /\ UNCHANGED <<rows, heads, view>>)
    <2>1. Backend = "memory"
      BY <1>4, LocalIsMemory
    <2>2. view[s].rows = rows /\ view[s].heads = heads /\ Intact(rows) = rows
      BY <1>2, <2>1 DEF Inv, MemoryIsDatabase
    <2>3. heads = DerivedHeads(rows) /\ view = [t \in Stores |-> view[t]]
      BY DEF Inv, TypeOK, DatabaseConsistent, CensusValid
    <2>4. LocalParent(d) = heads[d.series]
      BY <2>2, <2>3 DEF LocalParent
    <2>5. /\ LocalParent(d) = d.expected /\ SetState(w, "committed")
          /\ CountersFit(Candidate(d, view[s].rows, LocalParent(d)))
          /\ view' = [view EXCEPT ![s] =
                [rows |-> view[s].rows \cup {Candidate(d, view[s].rows, LocalParent(d))},
                 heads |-> [view[s].heads EXCEPT
                   ![d.series] = PublicationId(Candidate(d, view[s].rows, LocalParent(d)))],
                 generation |-> Candidate(d, view[s].rows, LocalParent(d)).generation]]
          /\ rows' = view'[s].rows /\ heads' = view'[s].heads
      BY <1>4, <2>1 DEF PublishLocal
    <2>6. /\ CountersFit(new)
          /\ view' = [view EXCEPT ![s] =
                [rows |-> rows \cup {new},
                 heads |-> [heads EXCEPT ![d.series] = PublicationId(new)],
                 generation |-> new.generation]]
      BY <2>2, <2>5
    <2> HIDE DEF new
    <2>7. /\ rows' = rows \cup {new}
          /\ view'[s] = [rows |-> rows', heads |-> heads', generation |-> new.generation]
          /\ \A t \in Stores : t # s => view'[t] = view[t]
      <3>1. rows' = view'[s].rows /\ heads' = view'[s].heads
        BY <2>5
      <3>2. view'[s] = [rows |-> rows \cup {new},
                        heads |-> [heads EXCEPT ![d.series] = PublicationId(new)],
                        generation |-> new.generation]
        BY <1>2, <2>3, <2>6
      <3>3. \A t \in Stores : t # s => view'[t] = view[t]
        BY <2>3, <2>6
      <3> QED BY <3>1, <3>2, <3>3
    <2>8. Published(rows, heads, d)
      BY <1>2, <2>4, <2>5, <2>6 DEF Published, new
    <2>9. Follows(new, rows, d, d.expected) /\ MaxGeneration(rows') = new.generation
      BY <2>2, <2>7, <2>8, PublishedRecord DEF new
    <2>10. ViewStep
      BY <2>7, <2>9 DEF ViewStep, Latest
    <2>11. DetachStep
      BY <1>1, <2>1 DEF DetachStep, Inv, MemoryIsDatabase
    <2>12. InDatabase(d)
      BY <2>7, <2>9 DEF InDatabase, Follows
    <2>13. CommitStep
      BY <1>1, <1>2, <2>5, <2>12, CommitLearns
    <2> QED BY <2>10, <2>11, <2>13 DEF Learns
  <1> QED BY <1>3, <1>4

\* A publication of the SQLite backend.
LEMMA PublishDurableLearns ==
    ASSUME Inv, NEW w \in Writers, NEW returns \in BOOLEAN, PublishDurable(w, returns)
    PROVE  Learns
  <1> DEFINE d == writer[w]
             s == d.store
             new == Candidate(d, rows, d.expected)
  <1>1. /\ d # None /\ d.state = "validating" /\ conn[s] = "writable"
        /\ ActualParent(d) = d.expected /\ MutationAuthority
        /\ CountersFit(new) /\ rows' = rows \cup {new}
        /\ DurableCandidate(d) = new
    BY DEF PublishDurable, ReadyToPublish, DurableCandidate
  <1>2. IsWriter(d) /\ s \in Stores /\ d.series \in Series /\ d.snapshot \in Snapshots
    BY <1>1 DEF Inv, TypeOK, IsWriter
  <1>3. Intact(rows) = rows /\ heads[d.series] = d.expected
    BY <1>1 DEF MutationAuthority, CensusValid, Damaged, ActualParent
  <1>4. Published(rows, heads, d)
    BY <1>1, <1>2, <1>3 DEF Published
  <1>5. Follows(new, rows, d, d.expected) /\ MaxGeneration(rows') = new.generation
    BY <1>1, <1>3, <1>4, PublishedRecord
  <1> HIDE DEF new
  <1>6. CASE returns
    <2>1. /\ view' = [view EXCEPT ![s] =
                [rows |-> rows', heads |-> heads', generation |-> new.generation]]
          /\ SetState(w, "committed") /\ UNCHANGED <<conn, avail>>
      BY <1>1, <1>6 DEF PublishDurable
    <2>2. /\ view'[s] = [rows |-> rows', heads |-> heads', generation |-> new.generation]
          /\ \A t \in Stores : t # s => view'[t] = view[t]
      BY <1>2, <2>1 DEF Inv, TypeOK
    <2>3. ViewStep
      BY <1>5, <2>2 DEF ViewStep, Latest
    <2>4. DetachStep
      BY <1>1, <2>1, <2>2 DEF DetachStep
    <2>5. InDatabase(d)
      BY <1>1, <1>5 DEF InDatabase, Follows
    <2>6. CommitStep
      BY <1>1, <1>2, <2>1, <2>5, CommitLearns
    <2> QED BY <2>3, <2>4, <2>6 DEF Learns
  <1>7. CASE ~returns
    BY <1>2, <1>7, DiesLearns DEF PublishDurable
  <1> QED BY <1>6, <1>7

\* Every outcome of publish.
LEMMA PublishLearns == ASSUME Inv, Known, PublishStep PROVE Learns
  <1>1. ASSUME NEW w \in Writers, PublishUnavailable(w)
        PROVE  Learns
    BY <1>1, SetStateLearns, LearnsNothing DEF PublishUnavailable
  <1>2. ASSUME NEW w \in Writers, PublishConflicts(w)
        PROVE  Learns
    BY <1>2, SetStateLearns, LearnsNothing DEF PublishConflicts, ReadyToPublish
  <1>3. ASSUME NEW w \in Writers, PublishFails(w)
        PROVE  Learns
    BY <1>3, SetStateLearns, LearnsNothing DEF PublishFails, ReadyToPublish
  <1> QED BY <1>1, <1>2, <1>3, PublishLocalLearns, PublishDurableLearns DEF PublishStep

\* A compaction, which touches no writer.
LEMMA CompactLearns == ASSUME Inv, CompactStep PROVE Learns
  <1>1. ASSUME NEW s \in Stores, CompactLocal(s)
        PROVE  Learns
    <2>1. /\ Backend = "memory" /\ view[s].rows = rows /\ view[s].heads = heads
          /\ \A t \in Stores : t = s
      BY <1>1, StoreAssumption DEF CompactLocal, Inv, MemoryIsDatabase
    <2>2. view' = [view EXCEPT ![s].rows = Recounted(rows),
                               ![s].generation = MaxGeneration(Recounted(rows))]
      BY <1>1, <2>1 DEF CompactLocal
    <2>3. IsView(view[s]) /\ view = [t \in Stores |-> view[t]]
      BY DEF Inv, TypeOK
    <2>4. view'[s] = [rows |-> Recounted(rows), heads |-> heads,
                      generation |-> MaxGeneration(Recounted(rows))]
      BY <2>1, <2>2, <2>3 DEF IsView
    <2>5. rows' = Recounted(rows) /\ UNCHANGED <<heads, conn, avail, writer>>
      <3>1. rows' = view'[s].rows /\ UNCHANGED <<heads, conn, avail, writer>>
        BY <1>1 DEF CompactLocal
      <3> QED BY <2>4, <3>1
    <2>6. ViewStep
      BY <2>1, <2>4, <2>5 DEF ViewStep, Latest
    <2>7. DetachStep
      BY <2>1, <2>5 DEF DetachStep, Inv, MemoryIsDatabase
    <2> QED BY <2>5, <2>6, <2>7 DEF Learns, CommitStep
  <1>2. ASSUME NEW s \in Stores, NEW returns \in BOOLEAN, CompactDurable(s, returns)
        PROVE  Learns
    <2>1. CASE returns
      <3>1. /\ view'[s] = [rows |-> rows', heads |-> heads, generation |-> MaxGeneration(rows')]
            /\ \A t \in Stores : t # s => view'[t] = view[t]
        BY <1>2, <2>1 DEF CompactDurable, Inv, TypeOK
      <3>2. conn[s] = "writable" /\ UNCHANGED <<heads, conn, avail, writer>>
        BY <1>2, <2>1 DEF CompactDurable
      <3> QED BY <3>1, <3>2 DEF Learns, ViewStep, Latest, DetachStep, CommitStep
    <2>2. CASE ~returns
      BY <1>2, <2>2, DiesLearns DEF CompactDurable
    <2> QED BY <2>1, <2>2
  <1>3. ASSUME NEW s \in Stores, CompactFails(s)
        PROVE  Learns
    BY <1>3 DEF CompactFails, Learns, ViewStep, DetachStep, CommitStep
  <1> QED BY <1>1, <1>2, <1>3 DEF CompactStep

\* What the environment does to the handles.
LEMMA EnvironmentLearns == ASSUME Inv, Environment PROVE Learns
  <1>1. ASSUME NEW s \in Stores, OpenStore(s)
        PROVE  Learns
    <2>1. heads = DerivedHeads(rows) /\ UNCHANGED <<rows, heads, avail, writer>>
      BY <1>1 DEF OpenStore, CensusValid, database
    <2>2. /\ view'[s] = ViewOf(rows)
          /\ conn'[s] = "detached" => Damaged(rows)
          /\ \A t \in Stores : t # s => view'[t] = view[t] /\ conn'[t] = conn[t]
      BY <1>1 DEF OpenStore, Inv, TypeOK
    <2>3. view'[s].rows = rows /\ Latest(view'[s])
      BY <2>1, <2>2 DEF ViewOf, Latest
    <2> QED BY <2>1, <2>2, <2>3 DEF Learns, ViewStep, DetachStep, CommitStep
  <1>2. ASSUME NEW s \in Stores, Crash(s)
        PROVE  Learns
    BY <1>2, DiesLearns DEF Crash
  <1> QED BY <1>1, <1>2, LearnsNothing
          DEF Environment, LoseSharedMemory, Damage, CommitStep

\* Every step.
LEMMA NextLearns == ASSUME Inv, Known, [Next]_vars PROVE Learns
  <1>1. CASE UNCHANGED vars
    BY <1>1 DEF vars, Learns, ViewStep, DetachStep, CommitStep
  <1> QED BY <1>1, WriterLearns, PublishLearns, CompactLearns, RecoverLearns,
             EnvironmentLearns DEF Next

\* At first nothing is published, and no handle shows anything.
LEMMA NoViewIsPast == IsPast(NoView)
  BY DEF IsPast, NoView, ViewOf, OneSequenceEach, Chained

LEMMA KnownInitially == Init => Known
  <1> SUFFICES ASSUME Init PROVE Known
    OBVIOUS
  <1>1. \A s \in Stores : view[s] = NoView /\ conn[s] # "detached"
    BY DEF Init
  <1>2. \A w \in Writers : writer[w] = None
    BY DEF Init
  <1> QED BY <1>1, <1>2, NoViewIsPast DEF Known, DetachedShows, CommittedIsDurable, BasisKnown

\* What is known stays true: the database only grows.
LEMMA KnownKept ==
    ASSUME Inv, Inv', Known, Learns, Grows(rows, rows')
    PROVE  Known'
  <1>1. /\ \A r \in rows : IsRecord(r) /\ r.generation \in Nat
        /\ \A r \in rows' : IsRecord(r) /\ r.generation \in Nat
    BY StoreAssumption DEF Inv, TypeOK, IsRecord
  <1>2. ASSUME NEW s \in Stores PROVE IsPast(view[s])'
    <2>1. CASE view'[s] = view[s]
      <3>1. \A r \in view[s].rows : r.generation \in Nat
        BY StoreAssumption DEF Inv, TypeOK, IsView, IsRecord
      <3>2. ASSUME NEW r \in view[s].rows
            PROVE  \E q \in rows' : /\ PublicationId(q) = PublicationId(r)
                                    /\ q.generation >= r.generation
        <4>1. PICK p \in rows : /\ PublicationId(p) = PublicationId(r)
                                /\ p.generation >= r.generation
          BY DEF Known, IsPast
        <4>2. PICK q \in rows' : /\ PublicationId(q) = PublicationId(p)
                                 /\ q.generation >= p.generation
          BY DEF Grows
        <4> QED BY <1>1, <3>1, <4>1, <4>2
      <3> QED BY <2>1, <3>2 DEF Known, IsPast
    <2>2. CASE view'[s] = NoView
      <3>1. /\ NoView.rows = {} /\ OneSequenceEach(NoView.rows) /\ Chained(NoView.rows)
            /\ NoView.heads = DerivedHeads(NoView.rows)
            /\ NoView.generation = MaxGeneration(NoView.rows)
        BY NoViewIsPast DEF IsPast, NoView, ViewOf
      <3> QED BY <2>2, <3>1 DEF IsPast
    <2>3. CASE Latest(view'[s])
      <3>1. /\ view'[s].rows = rows' /\ view'[s].heads = heads'
            /\ view'[s].generation = MaxGeneration(rows')
        BY <2>3 DEF Latest
      <3>2. OneSequenceEach(rows') /\ Chained(rows') /\ heads' = DerivedHeads(rows')
        BY DEF Inv, DatabaseConsistent, CensusValid
      <3> QED BY <1>1, <3>1, <3>2 DEF IsPast
    <2> QED BY <2>1, <2>2, <2>3 DEF Learns, ViewStep
  <1>3. DetachedShows'
    <2>1. \A R : Damaged(R)' <=> Damaged(R)
      BY DEF Damaged, Intact
    <2> QED BY <2>1 DEF Learns, DetachStep, Known, DetachedShows, Damaged, Intact
  <1>4. \A r \in rows : \E q \in rows' : /\ q.series = r.series /\ q.snapshot = r.snapshot
                                         /\ q.parent = r.parent
    BY DEF Grows, PublicationId
  <1>5. CommittedIsDurable'
    <2> SUFFICES ASSUME NEW w \in Writers, writer'[w] # None, writer'[w].state = "committed"
                 PROVE  InDatabase(writer'[w])
      BY DEF CommittedIsDurable, InDatabase
    <2>1. CASE writer'[w] = writer[w]
      <3>1. PICK r \in rows : /\ r.series = writer[w].series /\ r.snapshot = writer[w].snapshot
                              /\ r.parent = writer[w].expected
        BY <2>1 DEF Known, CommittedIsDurable
      <3> QED BY <1>4, <2>1, <3>1 DEF InDatabase
    <2> QED BY <2>1 DEF Learns, CommitStep
  <1>6. BasisKnown'
    <2> SUFFICES ASSUME NEW w \in Writers, writer'[w] # None, writer'[w].state = "validating",
                        NEW b \in InputSnapshots[writer'[w].snapshot]
                 PROVE  \E q \in rows' : q.snapshot = b
      BY DEF BasisKnown
    <2>1. CASE writer'[w] = writer[w]
      BY <1>4, <2>1 DEF Known, BasisKnown
    <2>2. CASE writer'[w].store \in Stores /\ BasisIsPrior(writer'[w].store, writer'[w].snapshot)
      <3>1. PICK r \in view[writer'[w].store].rows : r.snapshot = b
        BY <2>2 DEF BasisIsPrior, Resolves
      <3>2. PICK q \in rows : PublicationId(q) = PublicationId(r)
        BY <2>2 DEF Known, IsPast
      <3> QED BY <1>4, <3>1, <3>2 DEF PublicationId
    <2> QED BY <2>1, <2>2 DEF Learns, CommitStep
  <1> QED BY <1>2, <1>3, <1>5, <1>6 DEF Known

\* It holds from the start and after every step.
LEMMA KnownAlways == Spec => [](Inv /\ Known)
  <1>1. Inv /\ Known /\ Inv' /\ [Next]_vars => Known'
    BY NextLearns, NextIsDatabaseStep, DatabaseGrows, KnownKept
  <1> QED BY KnownInitially, <1>1, InvAlways, PTL DEF Spec

\* A writer that reads committed has its publication in the database, whatever it
\* went through: no handle, not even one cut off from a damaged database, publishes to
\* its own maps only, and no later step takes a publication away.
THEOREM CommittedAlwaysDurable == Spec => []CommittedIsDurable
  <1>1. Known => CommittedIsDurable
    BY DEF Known
  <1> QED BY <1>1, KnownAlways, PTL

\* What any handle shows at any time is a consistent past of the database.
THEOREM ViewsAlwaysPast == Spec => []ViewsArePast
  <1>1. Known => ViewsArePast
    BY DEF Known, ViewsArePast
  <1> QED BY <1>1, KnownAlways, PTL

\* The basis of a publication is committed, intact and of an earlier generation when
\* it commits, whatever other processes did since the writer was validated.
THEOREM BasisAlwaysPrior == Spec => BasisStrictlyPrior
  <1> DEFINE Prior == \A r \in rows' : PublicationId(r) \notin Ids(rows) => BasisCommitted(r)
  <1>1. Inv /\ Known /\ DatabaseStep => Prior
    <2> SUFFICES ASSUME Inv, Known, DatabaseStep,
                        NEW r \in rows', PublicationId(r) \notin Ids(rows)
                 PROVE  BasisCommitted(r)
      OBVIOUS
    <2>1. r \notin rows /\ ~UNCHANGED <<rows, heads>>
      BY DEF Ids
    <2>2. ASSUME Rewritten(rows, rows') PROVE FALSE
      <3>1. PICK f : Rewrites(f, rows, rows')
        BY <2>2 DEF Rewritten
      <3>2. PICK q \in rows : f[q] = r
        BY <3>1 DEF Rewrites
      <3>3. PublicationId(r) = PublicationId(q)
        BY <3>1, <3>2 DEF Rewrites, PublicationId
      <3> QED BY <3>3 DEF Ids
    <2>3. ASSUME Intact(rows) = rows, NEW d, Validating(d), Published(rows, heads, d),
                 rows' = rows \cup {Candidate(d, rows, d.expected)}
          PROVE  BasisCommitted(r)
      <3>1. r = Candidate(d, rows, d.expected)
        BY <2>1, <2>3
      <3>2. Follows(r, rows, d, d.expected)
        BY <2>3, <3>1, PublishedRecord
      <3>3. \A b \in InputSnapshots[r.snapshot] : \E q \in rows : q.snapshot = b
        BY <2>3, <3>2 DEF Follows, Validating, Known, BasisKnown
      <3>4. \A q \in rows : ~q.corrupt /\ q.generation < r.generation
        BY <2>3, <3>2 DEF Follows, Intact
      <3> QED BY <3>3, <3>4 DEF BasisCommitted
    <2> QED BY <2>1, <2>2, <2>3 DEF DatabaseStep
  <1>2. Inv /\ Known /\ [Next]_vars => [Prior]_vars
    BY <1>1, NextIsDatabaseStep
  <1> QED BY <1>2, KnownAlways, PTL DEF Spec, BasisStrictlyPrior
=============================================================================
