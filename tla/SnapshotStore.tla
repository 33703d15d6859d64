--------------------------- MODULE SnapshotStore ---------------------------
(***************************************************************************)
(* snapshot_store and snapshot_writer (src/sdk/store.cpp): immutable       *)
(* snapshots published into series by compare-and-swap of the series head. *)
(*                                                                         *)
(* Each member of Stores is a store handle in a process of its own.  With  *)
(* the SQLite backend the handles share one database: a handle decides on  *)
(* the census it takes inside its write transaction and answers reads from *)
(* its own maps, which are as old as its latest load, publish or compact.  *)
(* With the memory backend the maps of the one handle are the database.    *)
(*                                                                         *)
(* A call holds the handle's mutex and a transaction the database's write  *)
(* lock, so a call is one step, except a publish or compact that first has *)
(* to recover a database with a WAL and no shared memory: other processes  *)
(* may get in between.  Transactions are atomic (SQLite); a process may    *)
(* die at any point, and the payload of a row may be found damaged.        *)
(***************************************************************************)
EXTENDS Integers, FiniteSets

CONSTANTS
    Backend,            \* "memory" or "sqlite"
    Stores,             \* store handles, one process each
    Writers,            \* snapshot_writer objects
    Series,             \* publication series
    Snapshots,          \* semantic snapshots, named by their identity
    InputSnapshots,     \* the snapshots whose claims a snapshot is derived from
    CounterMax,         \* UINT64_MAX
    MaxDamage,          \* bound on the rows found damaged
    None                \* an absent optional

ASSUME StoreAssumption ==
    /\ Backend \in {"memory", "sqlite"}
    /\ Backend = "memory" => \A s, t \in Stores : s = t
    /\ InputSnapshots \in [Snapshots -> SUBSET Snapshots]
    /\ CounterMax \in Nat /\ MaxDamage \in Nat
    /\ None \notin Stores \cup Writers \cup Series \cup Snapshots
    /\ "compact" \notin Writers

VARIABLES
    rows,       \* the publication table
    heads,      \* the series_head table
    walOnly,    \* the database has a WAL and no shared memory
    conn,       \* per store: its connection
    avail,      \* per store: availability
    calling,    \* per store: the call that holds the mutex across a recovery
    view,       \* per store: records, heads and generation
    writer      \* per writer object: its data, or None

database == <<rows, heads, walOnly>>
vars == <<rows, heads, walOnly, conn, avail, calling, view, writer>>

-----------------------------------------------------------------------------
(* Publication records *)

\* The parent of a first publication, and the head of an empty series.
Root == <<>>

\* publication_record_identity: neither the generation nor the damage is part of it.
PublicationId(r) == <<r.series, r.snapshot, r.sequence, r.parent>>
Ids(R) == { PublicationId(r) : r \in R }
Intact(R) == { r \in R : ~r.corrupt }
InSeries(R, x) == { r \in R : r.series = x }

MaxOf(S) == CHOOSE n \in S \cup {0} : \A m \in S : m <= n
MaxGeneration(R) == MaxOf({ r.generation : r \in Intact(R) })

HeadRecord(R, x) ==
    CHOOSE r \in InSeries(R, x) : \A q \in InSeries(R, x) : q.sequence <= r.sequence
DerivedHeads(R) ==
    [x \in Series |-> IF InSeries(R, x) = {} THEN Root ELSE PublicationId(HeadRecord(R, x))]

OneSequenceEach(R) ==
    \A r, q \in R : r.series = q.series /\ r.sequence = q.sequence => r = q

\* One parentless root, and every other record follows a record of R by one.
Chained(R) ==
    /\ \A r \in R : r.parent # Root =>
          \E p \in R : /\ PublicationId(p) = r.parent
                       /\ p.series = r.series
                       /\ r.sequence = p.sequence + 1
    /\ \A r, q \in R : r.parent = Root /\ q.parent = Root /\ r.series = q.series => r = q

\* derive_authority_heads succeeds on the intact records R.
AuthorityHeadsDerive(R) ==
    /\ OneSequenceEach(R) /\ Chained(R)
    /\ \A r, q \in R : /\ r.snapshot = q.snapshot
                       /\ r.sequence = q.sequence /\ r.generation = q.generation
                       => r = q

\* derive_diagnostic_heads: a series with a damaged record is not checked further.
DiagnosticHeadsDerive(R) ==
    /\ OneSequenceEach(R)
    /\ \A x \in Series : InSeries(Intact(R), x) = InSeries(R, x) => Chained(InSeries(R, x))

\* database_authority_census accepts the database.
CensusValid(R, h) ==
    /\ \A r, q \in Intact(R) : r.generation = q.generation => r = q
    /\ DiagnosticHeadsDerive(R)
    /\ h = DerivedHeads(R)

\* The order of resolve_snapshot_publication and of the compaction.
Before(q, r) ==
    \/ q.sequence < r.sequence
    \/ q.sequence = r.sequence /\ q.generation < r.generation

\* resolve_snapshot_publication: the latest committed record of a snapshot, and an
\* error if it is damaged; never an older one.
Resolves(R, c) ==
    \E r \in R : /\ r.snapshot = c /\ ~r.corrupt
                 /\ \A q \in R : q.snapshot = c /\ q # r => Before(q, r)

\* Seeded fault: a damaged record counts for the generation.
ViewOf_AllGenerations(R) ==
    [rows |-> R, heads |-> DerivedHeads(R), generation |-> MaxOf({ r.generation : r \in R })]

ViewOf(R) == [rows |-> R, heads |-> DerivedHeads(R), generation |-> MaxGeneration(R)]
NoView == ViewOf({})

-----------------------------------------------------------------------------
(* Types and initial states *)

Connections == {"closed", "memory", "writable", "deferred", "detached"}
Availability == {"available", "recovery_handoff_pending", "poisoned"}
WriterStates == {"created", "staged", "validating", "committed", "rejected", "rolled_back"}

IsRecord(r) ==
    /\ r = [series |-> r.series, snapshot |-> r.snapshot, parent |-> r.parent,
            sequence |-> r.sequence, generation |-> r.generation, corrupt |-> r.corrupt]
    /\ r.series \in Series /\ r.snapshot \in Snapshots
    /\ r.sequence \in 1 .. CounterMax /\ r.generation \in 1 .. CounterMax
    /\ r.corrupt \in BOOLEAN

IsWriter(d) ==
    /\ d = [store |-> d.store, series |-> d.series, expected |-> d.expected,
            snapshot |-> d.snapshot, state |-> d.state]
    /\ d.store \in Stores /\ d.series \in Series
    /\ d.state \in WriterStates
    /\ d.snapshot \in Snapshots \cup {None}
    /\ d.state \notin {"created", "rolled_back"} => d.snapshot \in Snapshots

IsView(v) ==
    /\ v = [rows |-> v.rows, heads |-> v.heads, generation |-> v.generation]
    /\ \A r \in v.rows : IsRecord(r)
    /\ v.generation \in 0 .. CounterMax

TypeOK ==
    /\ \A r \in rows : IsRecord(r)
    /\ walOnly \in BOOLEAN
    /\ conn \in [Stores -> Connections]
    /\ avail \in [Stores -> Availability]
    /\ calling \in [Stores -> Writers \cup {"compact", None}]
    /\ view = [s \in Stores |-> view[s]]
    /\ \A s \in Stores : IsView(view[s])
    /\ writer = [w \in Writers |-> writer[w]]
    /\ \A w \in Writers : writer[w] # None => IsWriter(writer[w])

Init ==
    /\ rows = {} /\ heads = DerivedHeads({})
    /\ walOnly = FALSE
    /\ conn = [s \in Stores |-> IF Backend = "memory" THEN "memory" ELSE "closed"]
    /\ avail = [s \in Stores |-> "available"]
    /\ calling = [s \in Stores |-> None]
    /\ view = [s \in Stores |-> NoView]
    /\ writer = [w \in Writers |-> None]

-----------------------------------------------------------------------------
(* Opening and losing a handle *)

Damaged(R) == Intact(R) # R
Open(s) == conn[s] # "closed"
Usable(s) == Open(s) /\ avail[s] = "available" /\ calling[s] = None

\* open_sqlite and load.  A database with a WAL only is read and left alone until
\* the first mutation; one with a damaged record is read and then let go of.
OpenStore(s) ==
    /\ Backend = "sqlite" /\ ~Open(s)
    /\ CensusValid(rows, heads)
    /\ view' = [view EXCEPT ![s] = ViewOf(rows)]
    /\ conn' = [conn EXCEPT ![s] = IF walOnly THEN "deferred"
                                   ELSE IF Damaged(rows) THEN "detached"
                                   ELSE "writable"]
    /\ UNCHANGED <<database, avail, calling, writer>>

\* The handle's process ends, and with it everything it kept in memory.
Dies(s) ==
    /\ conn' = [conn EXCEPT ![s] = "closed"]
    /\ avail' = [avail EXCEPT ![s] = "available"]
    /\ calling' = [calling EXCEPT ![s] = None]
    /\ view' = [view EXCEPT ![s] = NoView]
    /\ writer' = [w \in Writers |->
                     IF writer[w] # None /\ writer[w].store = s THEN None ELSE writer[w]]

Crash(s) ==
    /\ Backend = "sqlite" /\ Open(s)
    /\ Dies(s)
    /\ UNCHANGED database

\* The environment: nobody has the database open, and it is found without its
\* shared memory file, or with a damaged payload.
LoseSharedMemory ==
    /\ \A s \in Stores : conn[s] \in {"closed", "deferred"}
    /\ Backend = "sqlite" /\ rows # {} /\ ~walOnly
    /\ walOnly' = TRUE
    /\ UNCHANGED <<rows, heads, conn, avail, calling, view, writer>>

Damage(r) ==
    /\ Backend = "sqlite" /\ r \in Intact(rows)
    /\ Cardinality(rows \ Intact(rows)) < MaxDamage
    /\ rows' = (rows \ {r}) \cup {[r EXCEPT !.corrupt = TRUE]}
    /\ UNCHANGED <<heads, walOnly, conn, avail, calling, view, writer>>

-----------------------------------------------------------------------------
(* A writer up to its publication *)

SetState(w, state) == writer' = [writer EXCEPT ![w].state = state]

\* begin: the caller names the publication it expects to be the head.
Begin(w, s, x, expected) ==
    /\ writer[w] = None
    /\ Usable(s)
    /\ writer' = [writer EXCEPT ![w] =
                     [store |-> s, series |-> x, expected |-> expected,
                      snapshot |-> None, state |-> "created"]]
    /\ UNCHANGED <<database, conn, avail, calling, view>>

\* stage and add_closure: what is staged determines the snapshot's identity.
Stage(w, c) ==
    /\ writer[w] # None /\ writer[w].state \in {"created", "staged"}
    /\ writer' = [writer EXCEPT ![w].snapshot = c, ![w].state = "staged"]
    /\ UNCHANGED <<database, conn, avail, calling, view>>

\* Seeded fault: the basis of a derived claim is taken on trust.
BasisIsPrior_Unchecked(s, c) == TRUE

\* Every input snapshot resolves, in the handle's own maps.
BasisIsPrior(s, c) ==
    \A b \in InputSnapshots[c] :
        /\ Resolves(view[s].rows, b)
        /\ \A r \in view[s].rows : r.snapshot = b => r.generation <= view[s].generation

\* validate: on any failure the writer stays staged.
Validate(w) ==
    /\ writer[w] # None /\ writer[w].state = "staged"
    /\ InputSnapshots[writer[w].snapshot] # {} => calling[writer[w].store] = None
    /\ BasisIsPrior(writer[w].store, writer[w].snapshot)
    /\ SetState(w, "validating")
    /\ UNCHANGED <<database, conn, avail, calling, view>>

\* cancel.
Cancel(w) ==
    /\ writer[w] # None /\ writer[w].state # "rolled_back"
    /\ calling[writer[w].store] # w
    /\ SetState(w, "rolled_back")
    /\ UNCHANGED <<database, conn, avail, calling, view>>

\* ~snapshot_writer.
Destroy(w) ==
    /\ writer[w] # None
    /\ calling[writer[w].store] # w
    /\ writer' = [writer EXCEPT ![w] = None]
    /\ UNCHANGED <<database, conn, avail, calling, view>>

-----------------------------------------------------------------------------
(* Recovery of a database with a WAL only, before the first mutation *)

\* The calls that may have to recover it.
Mutations(s) ==
    { w \in Writers : /\ writer[w] # None
                      /\ writer[w].store = s /\ writer[w].state = "validating" }
    \cup (IF Damaged(view[s].rows) THEN {} ELSE {"compact"})

\* recover_wal_only_for_mutation up to the authorised coordination effect.
RecoverArm(s, call) ==
    /\ conn[s] = "deferred" /\ Usable(s)
    /\ walOnly
    /\ avail' = [avail EXCEPT ![s] = "recovery_handoff_pending"]
    /\ calling' = [calling EXCEPT ![s] = call]
    /\ walOnly' = FALSE
    /\ UNCHANGED <<rows, heads, conn, view, writer>>

\* It ends before that effect: the source has changed or cannot be opened.
RecoverRefused(w) ==
    /\ writer[w] # None /\ writer[w].state = "validating"
    /\ conn[writer[w].store] = "deferred" /\ Usable(writer[w].store)
    /\ SetState(w, "rolled_back")
    /\ UNCHANGED <<database, conn, avail, calling, view>>

\* exact_eager_state, inside the write transaction.
SameState(s) ==
    /\ CensusValid(rows, heads)
    /\ view[s] = [rows |-> rows, heads |-> heads, generation |-> MaxGeneration(rows)]

\* From there to the end of the recovery.
Recover(s) ==
    /\ avail[s] = "recovery_handoff_pending"
    /\ SameState(s)
    /\ conn' = [conn EXCEPT ![s] = "writable"]
    /\ avail' = [avail EXCEPT ![s] = "available"]
    /\ UNCHANGED <<database, calling, view, writer>>

\* Any failure after the effect poisons the handle.
RecoverPoisons(s) ==
    /\ avail[s] = "recovery_handoff_pending"
    /\ avail' = [avail EXCEPT ![s] = "poisoned"]
    /\ conn' = [conn EXCEPT ![s] = "detached"]
    /\ calling' = [calling EXCEPT ![s] = None]
    /\ IF calling[s] \in Writers THEN SetState(calling[s], "rolled_back") ELSE UNCHANGED writer
    /\ UNCHANGED <<database, view>>

-----------------------------------------------------------------------------
(* publish *)

Releases(w) == calling' = [calling EXCEPT ![writer[w].store] = None]

\* The mutex is free, or this writer kept it across its recovery.
MayCall(s, call) == calling[s] \in {None, call}

ReadyToPublish(w) ==
    /\ writer[w] # None /\ writer[w].state = "validating"
    /\ avail[writer[w].store] = "available"
    /\ MayCall(writer[w].store, w)

\* What the writer's candidate becomes on top of the intact authority records R.
Candidate(d, R, head) ==
    [series |-> d.series, snapshot |-> d.snapshot, parent |-> d.expected,
     sequence |-> IF head = Root THEN 1 ELSE head[3] + 1,
     generation |-> MaxGeneration(R) + 1,
     corrupt |-> FALSE]

\* Seeded fault: only the sequence is incremented with a check.
CountersFit_SequenceOnly(r) == r.sequence <= CounterMax

\* checked_counter_increment of the sequence and of the generation.
CountersFit(r) == r.sequence <= CounterMax /\ r.generation <= CounterMax

\* The handle has been poisoned: the writer is rolled back whatever its state.
PublishUnavailable(w) ==
    /\ writer[w] # None /\ writer[w].state # "rolled_back"
    /\ avail[writer[w].store] = "poisoned"
    /\ SetState(w, "rolled_back")
    /\ UNCHANGED <<database, conn, avail, calling, view>>

\* Seeded fault: the heads of the intact records stand in for the store's heads.
LocalHeadsAgree_Intact(s) == AuthorityHeadsDerive(Intact(view[s].rows))

\* The maps' heads are those of their intact records.
LocalHeadsAgree(s) ==
    LET intact == Intact(view[s].rows)
    IN  AuthorityHeadsDerive(intact) /\ view[s].heads = DerivedHeads(intact)

\* The head by the handle's own intact records.
LocalParent(d) == DerivedHeads(Intact(view[d.store].rows))[d.series]

\* publish without a connection: the memory backend, and a handle on a damaged
\* database.  Every failure rejects.
PublishLocal(w) ==
    LET d == writer[w]
        s == d.store
        new == Candidate(d, view[s].rows, LocalParent(d))
    IN  /\ ReadyToPublish(w)
        /\ conn[s] \in {"memory", "detached"}
        /\ IF LocalHeadsAgree(s) /\ LocalParent(d) = d.expected /\ CountersFit(new)
           THEN /\ SetState(w, "committed")
                /\ view' = [view EXCEPT ![s] =
                       [rows |-> @.rows \cup {new},
                        heads |-> [@.heads EXCEPT ![d.series] = PublicationId(new)],
                        generation |-> new.generation]]
                /\ IF Backend = "memory"
                   THEN rows' = view'[s].rows /\ heads' = view'[s].heads
                   ELSE UNCHANGED <<rows, heads>>
           ELSE SetState(w, "rejected") /\ UNCHANGED <<rows, heads, view>>
        /\ UNCHANGED <<walOnly, conn, avail, calling>>

\* Seeded fault: the expected parent is compared with the handle's own head.
ActualParent_Cached(d) == view[d.store].heads[d.series]

\* The head by the census of the open transaction.
ActualParent(d) == DerivedHeads(rows)[d.series]

\* Seeded fault: the handle's own latest generation is counted on.
DurableCandidate_Cached(d) ==
    [Candidate(d, rows, ActualParent(d)) EXCEPT !.generation = view[d.store].generation + 1]

DurableCandidate(d) == Candidate(d, rows, ActualParent(d))

\* The census admits a mutation at all.
MutationAuthority == CensusValid(rows, heads) /\ ~Damaged(rows)

\* persist_new commits and the handle's maps become the census; or the process dies
\* between the COMMIT and the return of the call.
PublishDurable(w, returns) ==
    LET d == writer[w]
        new == DurableCandidate(d)
    IN  /\ ReadyToPublish(w) /\ conn[d.store] = "writable"
        /\ MutationAuthority
        /\ ActualParent(d) = d.expected
        /\ CountersFit(new)
        /\ rows' = rows \cup {new}
        /\ heads' = [heads EXCEPT ![d.series] = PublicationId(new)]
        /\ IF returns
           THEN /\ view' = [view EXCEPT ![d.store] =
                       [rows |-> rows', heads |-> heads', generation |-> new.generation]]
                /\ SetState(w, "committed")
                /\ Releases(w)
                /\ UNCHANGED <<conn, avail>>
           ELSE Dies(d.store)
        /\ UNCHANGED walOnly

\* Another writer's publication advanced the series.
PublishConflicts(w) ==
    /\ ReadyToPublish(w) /\ conn[writer[w].store] = "writable"
    /\ MutationAuthority
    /\ ActualParent(writer[w]) # writer[w].expected
    /\ MaxGeneration(rows) < CounterMax
    /\ SetState(w, "rejected")
    /\ Releases(w)
    /\ UNCHANGED <<database, conn, avail, view>>

\* Every other failure of the transaction: the environment, a damaged or invalid
\* database, a counter at its limit.
PublishFails(w) ==
    /\ ReadyToPublish(w) /\ conn[writer[w].store] = "writable"
    /\ SetState(w, "rolled_back")
    /\ Releases(w)
    /\ UNCHANGED <<database, conn, avail, view>>

-----------------------------------------------------------------------------
(* compact *)

Rank(R, r) == Cardinality({ q \in R : Before(q, r) })

\* Seeded fault: all replacements of one compaction get one generation.
Recounted_Together(R) == { [r EXCEPT !.generation = MaxGeneration(R) + 1] : r \in R }

\* Every record gets a new generation, in the order of the resolver.
Recounted(R) == { [r EXCEPT !.generation = MaxGeneration(R) + 1 + Rank(R, r)] : r \in R }
RecountFits(R) == MaxGeneration(R) + Cardinality(R) <= CounterMax

CompactLocal(s) ==
    /\ conn[s] = "memory" /\ Usable(s)
    /\ LocalHeadsAgree(s)
    /\ ~Damaged(view[s].rows)
    /\ view[s].rows # {} /\ RecountFits(view[s].rows)
    /\ view' = [view EXCEPT ![s].rows = Recounted(@),
                            ![s].generation = MaxGeneration(Recounted(view[s].rows))]
    /\ rows' = view'[s].rows
    /\ UNCHANGED <<heads, walOnly, conn, avail, calling, writer>>

\* One transaction replaces every record of the census.
CompactDurable(s, returns) ==
    /\ conn[s] = "writable" /\ avail[s] = "available" /\ MayCall(s, "compact")
    /\ MutationAuthority
    /\ rows # {} /\ RecountFits(rows)
    /\ rows' = Recounted(rows)
    /\ IF returns
       THEN /\ view' = [view EXCEPT ![s] =
                   [rows |-> rows', heads |-> heads, generation |-> MaxGeneration(rows')]]
            /\ calling' = [calling EXCEPT ![s] = None]
            /\ UNCHANGED <<conn, avail, writer>>
       ELSE Dies(s)
    /\ UNCHANGED <<heads, walOnly>>

\* After a recovery, a compact that finds nothing to do or fails.
CompactFails(s) ==
    /\ conn[s] = "writable" /\ avail[s] = "available" /\ calling[s] = "compact"
    /\ calling' = [calling EXCEPT ![s] = None]
    /\ UNCHANGED <<database, conn, avail, view, writer>>

-----------------------------------------------------------------------------
(* Specification *)

\* The parents a caller names: none, or what current() shows it.
ExpectedParents(s, x) == {Root, view[s].heads[x]}

WriterStep ==
    \/ \E w \in Writers, s \in Stores, x \in Series :
          \E p \in ExpectedParents(s, x) : Begin(w, s, x, p)
    \/ \E w \in Writers, c \in Snapshots : Stage(w, c)
    \/ \E w \in Writers : Validate(w) \/ Cancel(w) \/ Destroy(w)

PublishStep ==
    \E w \in Writers :
       \/ PublishUnavailable(w) \/ PublishLocal(w)
       \/ PublishConflicts(w) \/ PublishFails(w)
       \/ \E returns \in BOOLEAN : PublishDurable(w, returns)

CompactStep ==
    \E s \in Stores :
       \/ CompactLocal(s) \/ CompactFails(s)
       \/ \E returns \in BOOLEAN : CompactDurable(s, returns)

RecoverStep ==
    \/ \E s \in Stores : \E call \in Mutations(s) : RecoverArm(s, call)
    \/ \E w \in Writers : RecoverRefused(w)
    \/ \E s \in Stores : Recover(s) \/ RecoverPoisons(s)

Environment ==
    \/ \E s \in Stores : OpenStore(s) \/ Crash(s)
    \/ LoseSharedMemory
    \/ \E r \in rows : Damage(r)

Next == WriterStep \/ PublishStep \/ CompactStep \/ RecoverStep \/ Environment

Spec == Init /\ [][Next]_vars

-----------------------------------------------------------------------------
(* Properties *)

\* However publications, compactions and crashes of several processes interleave,
\* the next census of the database is not refused: no fork, no gap, no generation
\* used twice, and the head table names the head of each chain.
DatabaseConsistent == CensusValid(rows, heads) /\ OneSequenceEach(rows) /\ Chained(rows)

\* A writer that reads committed has its publication in the database: no handle,
\* not even one cut off from a damaged database, publishes to its own maps only.
CommittedIsDurable ==
    \A w \in Writers :
        writer[w] # None /\ writer[w].state = "committed" =>
            \E r \in rows : /\ r.series = writer[w].series
                            /\ r.snapshot = writer[w].snapshot
                            /\ r.parent = writer[w].expected

\* What a handle shows is a consistent past of the database: its publications are
\* all there still, at this generation or a later one, and its heads, chains and
\* latest generation belong together.
IsPast(v) ==
    /\ \A r \in v.rows : \E q \in rows : /\ PublicationId(q) = PublicationId(r)
                                         /\ q.generation >= r.generation
    /\ OneSequenceEach(v.rows) /\ Chained(v.rows)
    /\ v.heads = DerivedHeads(v.rows) /\ v.generation = MaxGeneration(v.rows)
ViewsArePast == \A s \in Stores : Open(s) => IsPast(view[s])

\* open(snapshot_id) goes by (sequence, generation): among the publications of one
\* snapshot no later publication or compaction, not even of another series, reorders
\* two that were there.
SameOrder(R, T) ==
    \A q \in R, q2 \in T : PublicationId(q) = PublicationId(q2) =>
        \A r \in R, r2 \in T :
            r.snapshot = q.snapshot /\ PublicationId(r) = PublicationId(r2) =>
                (Before(q, r) <=> Before(q2, r2))
ResolverOrderKept == [][ SameOrder(rows, rows') ]_vars

\* A publication's input snapshots are committed, intact and of an earlier
\* generation at the moment it commits, although the writer validated them against
\* maps that other processes have since left behind.
BasisCommitted(r) ==
    \A b \in InputSnapshots[r.snapshot] :
        \E q \in rows : q.snapshot = b /\ ~q.corrupt /\ q.generation < r.generation
BasisStrictlyPrior ==
    [][ \A r \in rows' : PublicationId(r) \notin Ids(rows) => BasisCommitted(r) ]_vars

\* The series as the abstract specification sees them: each publication with the
\* number of those its parent stands for.
Publication(r) ==
    [snapshot |-> r.snapshot, basedOn |-> IF r.parent = Root THEN 0 ELSE r.parent[3]]
History == [x \in Series |-> { Publication(r) : r \in InSeries(rows, x) }]
Abstract == INSTANCE PublicationSeries WITH history <- History
ImplementsSeries == Abstract!Spec

=============================================================================
