# cxxlens: specifications, model checking and proofs

cxxlens is a C++23 platform that turns compiler observations of C++ code into versioned
relations, stores them as immutable snapshots and answers queries over them. This directory
specifies, in TLA+, the parts of it where control is hard: a provider process that is watched,
killed and replaced; the durable spill its replacement resumes from; the one-shot candidate by
which its materialized output is published; the snapshot store that several processes publish to and
migrate; and the leases on the shared memory mappings below it.
TLC checks each module on small instances; TLAPS proves every safety property of the passing runs,
the refinements included, for every value of the constants. `PROJECT.json` lists components, runs,
the source lines behind each definition, findings, hazards and theorems.

Source paths below are relative to `src/sdk/` of the repository unless they say otherwise.

## Inventory

| Component | State it keeps | Operations | What makes it correct |
|---|---|---|---|
| NG1 durable spill (`provider_ng1_spill_port_internal.cpp`) | `spill.data`, `spill.commit`, `spill.frontier`; two ports, two staging sessions | append, fsync, reopen, restore, custody handoff, cleanup | what is published can be read back after any failed effect; one custodian; cleaned up in the end |
| NG1 recovery matrix (`provider_ng1_recovery.cpp`) | one state | one transition per event | terminal states are final |
| NG1 validators (`provider_ng1_validation.cpp`) | heartbeat and progress clocks, spill prefix, receipts | probe, ack, sample, check, prefix append, fsync receipt | silence and slowness are noticed in bounded time |
| NG1 session coordinator (`provider_ng1_session.cpp`) | the above, poison and cleanup flags, digests | about twenty calls, in any order | a session completes only with evidence of the attempt that completes |
| NG1 live driver (`provider_ng1_live_driver.cpp`) | the process, retained frames, output group | receive, check, replace, finish, terminate, destruction | one live worker; nothing left behind |
| Provider runtime (`provider_runtime.cpp`) | the loop of one execution, the durable wire prefix | receive loop, one restart, seal, conclude | success only for sealed output; the durable prefix survives a restart |
| Snapshot store (`store.cpp`) | publication and head tables; per handle: maps, connection, availability; writers | open, begin, stage, validate, publish, cancel, compact, recovery | no fork, no lost or invisible commit, one order of resolution |
| Migration and terminal reclassification (`store.cpp`, `sqlite_terminal_reclassifier_internal.cpp`, `sqlite_store_terminal_internal.cpp`) | per call: sealed source and candidate, phase, trigger; per handle: format, anchor | coordinate, arm, begin, seal, rewrite, commit, conclude | what the caller is told is what happened, whatever failed and whoever wrote meanwhile |
| Connection lifecycle and effect gate (`sqlite_connection_lifecycle_internal.cpp`, `sqlite_backend_effect_gate_internal.hpp`) | what a connection may do to the file; what could not be closed | deny, arm for coordination, arm fully, close once | no effect before its anchor is rechecked; a failed close is never repeated and keeps what it pins |
| SHM mapping leases (`sqlite_same_process_shm_mapping_lease_internal.cpp`) | generation, writer attempts and holders, attachments, reader sessions and groups, quarantine, under one mutex | admissions and completions around native callbacks that run unlocked | writers' memory is unmapped only when nobody needs it; a generation has an end |
| Forwarding VFS, mapping registry, WAL recovery workspace (`sqlite_*`) | families, opens, receipts; file copies | forwarding of file operations and callbacks | - |
| Publication candidate (`materialization_store_candidate_internal.cpp`) | the phase, three spools and their quotas, the reserved report, the verdict, whether it was cleaned up | append, seal, build expected, build actual, compare, reserve, publish once, finalize, abort, destruction | only what was proven is published, once; the verdict told is true and final; cleaned up once |
| Materialization writer (`materialization_store_candidate_bridge_internal.cpp`, `materialization_writer_internal.cpp`) | the place in the candidate's order, the snapshot writer, the errors of the publication and of the check after it | one call, `publish_materialization_source` | the caller gets one answer, and it is what happened |
| Bounded store v6 (`bounded_store_v6_*`) | a resource ledger | preflight and sequencing | limits hold |
| Provider transcript validator (`provider.cpp`), protocol 2 (`protocol_v2/`) | credit, batches, fragments; closure sets | frame by frame validation | limits hold, order is canonical |
| Query engine (`query*.cpp`) | budgets and cursor of one execution | scan, join, closure, page | the first limit met ends the execution |
| Claims, relations, recipes, domain projections, incremental planning | none: pure functions | - | canonical results |
| Capture, replay, detached runs, Clang adapters, application services | none that outlives a call | sequential I/O | - |

How they interact. `execute_provider_process_ng1` (`provider_runtime.cpp`) is one thread. It owns a
live driver, which owns the worker process and a session coordinator; the coordinator owns the
clocks, the recovery matrix and, by move, a staging session, which owns the storage port. Frames
arrive through the driver and are offered, in that order, to the spill, to the session and to the
transcript. The sealed transcript becomes claims, and those a draft that a materialization writer
publishes into a snapshot store. Store handles of different processes share nothing but the
database file; threads of one process share a handle through its mutex, which a call holds from its
first line to its last. Below a handle is its SQLite connection; the connections of one process to
one file share its native SHM mappings through a registry, whose lease state decides who may map and
unmap.

What is hard: file effects that fail half way; a restart that puts the output of two workers
together; deadlines that interact; a compare-and-swap against maps that are older than the database;
a recovery that lets other processes in between its check and its transaction; a COMMIT that fails
and may have happened; a decision to unmap that is taken before the callback that does it.
`PROJECT.json` names each hazard at its line, and the property that is about it.

## Modules

| Module | Models |
|---|---|
| `SpillStorage` | the three spill files, both ports and sessions, and the gate of the coordinator. A record is a cell, so a byte count is a number of cells; a torn write is a `Torn` cell; a digest is the prefix it is of |
| `SpillStorageProofs` | the inductive invariant `IInv` and the theorems |
| `Ng1Recovery` | the transition matrix, row by row, as a relation |
| `Ng1Clocks` | heartbeat and progress validators as operators on records, time in ticks |
| `Ng1Session` | the coordinator: one action per public call, over `Ng1Clocks` and `Ng1Recovery` |
| `TaskOutcome` | abstract: what an execution promises to its caller |
| `Ng1SessionProofs` | the invariants `Earned`, `Heard` and `Kept`, the action property `Moves`, five theorems |
| `Ng1Runtime` | the receive loop, the restart, the driver and the end. Implements `TaskOutcome` |
| `Ng1RuntimeProofs` | the inductive invariant `IInv`, its theorems and the refinement |
| `PublicationSeries` | abstract: a series grows one publication at a time, by drafts that had seen all of it |
| `SnapshotStore` | both backends, several handles, writers, recovery, crashes, damage. Implements `PublicationSeries` |
| `SnapshotStoreProofs` | the inductive invariant `Inv`, its theorems and the refinement |
| `AuthorityHistory` | abstract: a database is published to, compacted and migrated once |
| `AuthorizedDescendant` | the terminal reclassifier as operators: which database may have come from which, and what to answer |
| `StoreMigration` | `migrate_predecessor_v2` with its connection, gate, close, reopen and answer, among other programs. Implements `AuthorityHistory` |
| `StoreMigrationProofs` | the residual solver of `AuthorizedDescendant` is exact; the invariants `TInv`, `SInv`, `DInv`, `OInv` and five theorems |
| `GenerationCustody` | abstract: a mapping generation opens, gains and loses users, drains, closes |
| `ShmLeases` | the lease state of one file family, writers and readers. Implements `GenerationCustody` |
| `ShmLeasesProofs` | the inductive invariant `Inv`, four theorems |
| `ShmCustodyProofs` | the invariant `CInv` on top of it, what supports a page, and the refinement |
| `OneShotPublication` | abstract: an attempt to publish has one effect at most, and tells one thing, once |
| `StoreCandidate` | `bounded_store_candidate` with its spools, its report writer and the backend it calls, for any client. Implements `OneShotPublication` |
| `MaterializationWriter` | the bridge and `publish_materialization_source`: the candidate over a snapshot writer, among other publishers. Each step is one of `StoreCandidate`; towards its caller it implements `OneShotPublication` |
| `MaterializationProofs` | the invariants `CandidateInv`, `CleanedInv` and `WriterInv`, sixteen theorems |
| `MC*` | the instances: finite sets, symmetric where no liveness is checked |

Correspondence. Variables carry the names of the fields (`recovery_`, `poisoned`, `checkpoint` for
`latest_fsync_receipt_`, `view` for `records`/`heads`/`generation`, `avail` for `availability`). One
action is one call, with every call it makes: `FsyncSpill` is the data fsync, the commit, the
receipt and the frontier; `PublishDurable` is the whole transaction with the update of the maps.
`StoreMigration` takes a call apart where other processes get in: between two effects on the file.
`ShmLeases` does so where the native callbacks run: `BeginWriter`, the callback,
`RecordNativeMapping`, and so on; a writer record and the holder it becomes are one map attempt `m`,
told apart by its phase. `StoreCandidate` does so where the client's callbacks run: `PublishOnce`
ends with the backend on the stack (`running`), `BackendReturns` takes its answer, and between them
the client may call any method; `BuildExpected` and `BuildActual` end with a builder on the stack
(`building`), which returns, fails or throws in a step of its own and may call `abort()` before. The
cleanup callback of `MaterializationWriter` is `writer->cancel()` (`Cancelling`). A record is its
place in the key order, a digest what it is taken of, and a spool counts the bytes of its frames.
Where a call may fail between two durable effects there is an action for the failure with every
state it may leave (`FsyncFails`, `ReopenFails`, `PublishDurable(w, FALSE)`, `CommitUnclear`). In
`Ng1Runtime` `frames` is `provider_frames_` without the resume token, which every reader of the
frames skips; `Retained` is their number with it, which the driver compares with its limit.

`SpillStorage` and `Ng1Session` see the coordinator from its two sides, the files and the clocks,
and `Ng1Runtime` sees it as the loop does: a check of the clocks or an effect on the files fails or
does not, whichever `Ng1Session` and `SpillStorage` allow in some state.

Definitions marked as a seeded fault are not used by any specification. Each is a plausible mistake
in one definition; `PROJECT.json` ("mutants") pairs it with the property that catches it.

## Runs

| Run | Question | Bounds, and why they are enough |
|---|---|---|
| `spill` | do the files stay recoverable, custody unique and the directory cleaned, with any effect failing? | 3 records, 3 generations, 2 payloads: two publications with a tail beyond the second, and a restart; payloads only need to differ |
| `session` | is a dead or slow provider noticed in bounded time? what may complete a session, and what may happen afterwards? | all calls in any order; 4 ticks hold a startup grace or a timeout, a window, a largest gap and a restart of the clocks; clocks of the provider equal and ahead; up to 3 samples; 2 digests and 2 sequences tell a right one from a wrong one |
| `startup_grace` | finding 1 | a probe soon after the start |
| `runtime` | one worker, nothing left behind, success only if sealed, termination | batches of one to three frames, two attempts, right and wrong sequences and bindings |
| `terminal_grace` | finding 2 | as `runtime`, with a provider that makes no mistake: one frame of each kind, each in its place |
| `store_races` | do two processes keep the database consistent, also when a payload is found damaged? | SQLite; two handles, one writer that moves between them, one damaged row, generations up to 4, the limit of the counters; one series, a snapshot derived from another: a publication, a derived one or a conflict, and a compaction between. More writers are left to the proofs |
| `store_memory` | does compaction keep the order of resolution? | the memory backend; two writers, two series with the same snapshot, generations up to 4 |
| `shm_leases` | is memory unmapped under a user? does every generation end in one way? | two writer connections with a map attempt each, one reader connection with two sessions, two threads, two pages, two generations: a last and a non-last cleanup, a reader borrowing from a mapping that goes, a second reader map of one thread while the other waits |
| `migration` | is what `compact()` tells of a v2 database true? | two processes and an older program, up to 4 publications or renumberings, every effect may fail and every process die at every step |
| `migration_race` | finding 3 | two processes, two generations, nothing fails |
| `candidate` | is only what was proven published, and one true thing told of it, whatever the client does? | two tasks of 1 and 2 bytes with limits that a third exceeds; projections that agree, differ, are out of order or a prefix of one another; right and wrong censuses; sections of 1 and 3 bytes in a tail of 4; builders that throw and are called again, any call from inside the backend, and an assignment over the candidate. An abort from inside a builder, under which `ImplementsOneShot` is false (see below), is left to the proof of `PublishedWasProven` |
| `materialization` | does the caller get one answer, and is it true? is the staging cleaned up once? | SQLite; the one task there is, a store that reads back what was claimed, less, or out of order; any step fails; the head moves at any time; a COMMIT that may not tell. The memory backend, where a stale parent has another code and another outcome, is left to the proofs |

All counters are bounded by a CONSTANT that is either the limit of the code (`MaxRecords`,
`MaximumRetained`, `CounterMax`, `GenerationMax`, the six limits of `StoreCandidate`) or declared as
a bound (`MaxGeneration`, `MaxTime`, `MaxSeq`, `MaxUnits`, `MaxDamage`, `Inputs`, the number of
`Maps` and `Sessions`). A limit of the code is reached in the run, so its error path is taken.
Deadlock is checked in the store and migration runs, whose writers and handles can always be
destroyed and begun again; NG1 executions end, and so do the attempts and sessions of `shm_leases`,
a candidate and a publication, so those runs do not check it. Nothing bounds the candidate but its
own limits and phases. Symmetry (of writers, stores, series, handles, digests, map attempts,
attachments, threads and sessions) is declared only in runs of safety properties: no liveness is
checked under it.

Fairness. Two specifications have any. `Ng1Runtime` assumes weak fairness of the host's own
steps: one thread runs the call to its end, and every receive ends at the wall deadline at the
latest (`provider_process_adapter.cpp`, `check_deadline`). Nothing is assumed of the provider.
`SpillStorage` assumes the same of the restart and the end of the session, not of appends. Under it
`Termination` and `EventuallyCleaned` hold. The session's clocks, the store and the candidate
promise safety only, and the bridge is one straight line of code whose end no schedule can delay;
their specifications have no fairness.

### What the runs show

* **Spill.** `FrontierRecoverable`: wherever an effect fails, the data file still starts with the
  records of the frontier on disk. `CheckpointIsPublished`: the receipt in memory is the one on disk
  as long as a resume may use it; a failed fsync that did reach the disk poisons the coordinator, so
  that the newer frontier on disk is never resumed by an older receipt. `ResumedPrefixExact`,
  `SoleCustodian` and `NoUncleanedDestructor` are about the restart, `PublishedOnlyGrows` about
  two publications, `EventuallyCleaned` about the end.
* **Session.** `SilenceBounded` and `MinimumRateHeld` bound what a provider can hide.
  `SealIsEarned`: a replaced worker completes on the validated replay, one that was not replaced on
  its whole total, and neither on evidence that a restart of the clocks has wiped.
  `TerminalIsFinal`: a completed session may only be demoted.
* **Runtime.** `ImplementsTaskOutcome`: the sealed output is the durable prefix as the first worker
  wrote it, followed by frames of the last worker alone. `OneLiveWorker`, `NothingLeftBehind`,
  `SuccessIsSealed`, `Termination` as their names say.
* **Store.** `DatabaseConsistent`: the next census always accepts the database, and the head table
  names the ends of unforked chains with distinct generations. `ImplementsSeries`: a publication is
  made by a draft that had seen exactly the publications of the series, although the writer may have
  a stale view. `BasisStrictlyPrior`: a derived publication's inputs are committed, intact and of an
  earlier generation when it commits. `CommittedIsDurable`: a handle cut off from a damaged database
  runs the code of the memory backend and still commits nothing, because the heads of its intact
  records differ from its heads. `ViewsArePast`, `ResolverOrderKept`: what a handle shows is a past
  of the database, and compaction never changes which publication of a snapshot is the latest.
* **Migration.** `ImplementsHistory`: what is rewritten is what is there under the write lock, and
  no publication is lost or counted twice, whoever publishes, compacts or migrates before it.
  `DescendantRecognised`: whatever becomes of the database after the call has sealed its source, the
  reclassifier finds how it came about and never answers opaque. `OutcomeTruthful`: success means
  migrated, the error of a step means that this call changed nothing, and a COMMIT that took effect
  and reported a failure ends in success or in a poisoned handle. `AvailableIsSafe`: a handle that
  goes on has no lock, no lost connection and goes by the format of the database.
* **Mapping leases.** `NoUnmapUnderUse`: while the last attachment is inside its `xShmUnmap` no map
  callback, session or other attachment needs the mapping, though all of them could be admitted
  while the callback runs. `PagesSupported`: a page offered to readers has a mapping.
  `ProjectionHasHolder`: what a reader was lent stays mapped until its attempt is decided.
  `RetirementHasOneOwner`: a generation that admits nobody any more is ended by exactly one cleanup.
  `GateIsComplete`: no mapping is left waiting behind an open gate. `ImplementsCustody`: all of it
  together is one generation after the other, none opened while a borrower of the last one is left.
  An owner may be abandoned anywhere, and every refusal that quarantines the family is a step.
* **Candidate.** `PublishedWasProven`: the backend is called once at most, for a sealed input whose
  two ordered projections agree, with room for the report; a builder that threw and was called
  again does not change that. `ImplementsOneShot`: an abort or a finalize from inside
  the backend is answered before the backend is, its verdict is "unknown", and the effect may still
  come; no other verdict is overtaken or revised.
* **Materialization.** `ImplementsPublication`: no error of the caller denies a publication that
  is durable. `SuccessIsVerified`: success means durable, compared with the claim before the
  publication and checked after it, and reported so. `AnswerIsExplained`: a conflict is told exactly
  when the candidate's terminal is a stale parent, a failed check exactly when it is a publication
  not verified, whatever error of the bridge comes with it. `CleanedExactlyOnce`: the writer is
  cancelled once, exactly when the candidate ends, on every early return.

## Findings

1. `startup_grace`: the first acknowledgement is judged by the 5 s probe deadline although the
   contract (`schemas/cxxlens_ng_provider_ng1_hardening.yaml:143,157`, ADR 0099) makes the 10 s
   startup grace the only deadline until then (`provider_ng1_validation.cpp:416`).
2. `terminal_grace`: the contract requires no heartbeat after the terminal frame (same file, line
   160); the runtime checks liveness until the output closes (`provider_runtime.cpp:3577`). The
   trace: the task is accepted, a batch begins and ends, the whole progress and the end are
   reported, and the next poll finds the silence.
3. `migration_race`: of two processes that migrate one v2 database, the one that gets the write lock
   second finds a v3 database before it has sealed a source, answers an opaque recovery failure and
   is poisoned (`store.cpp:8601`, `8398`). The contract
   (`schemas/cxxlens_ng_snapshot_store_contract.yaml:776`) and ADR 0097 (1156-1160) promise it
   success. Observations that are not findings: `check_liveness` times out on a probe that was
   answered if the probe is old enough; a lack of progress samples is noticed only by the next
   sample; a second `task_accepted` or an explicit rejection demotes a completed session; the
   replacement worker is bounded by the wall deadline only; the branch of `reopen` that rewrites the
   commit is not reached by an execution that is still alive. `current()` answers from the handle's
   maps and may be older than the database. Compaction numbers by sequence first, so a derived
   publication may afterwards have a lower generation than its basis: `BasisStrictlyPrior` is about
   the moment of the commit. `snapshot_writer::cancel()` takes even a committed writer to
   `rolled_back` (`store.cpp:10270`); the publication stays.

Of the candidate (`materialization_store_candidate_internal.cpp`): a spooled record is charged 88
bytes beside its key and payload (75), because its digest is kept as text; ADR 0103 (89-91) says 49,
with a 32-byte checksum. An `abort()` from inside a projection builder cleans up and ends the
candidate (948); if the builder then returns without an error, the phase is overwritten (782, 807)
and the candidate goes on, up to a publication; the header (10) and ADR 0103 (136) call a failed
candidate terminal. The model has both steps: with `"build"` in `Reentrant` TLC finds
`AbortedIsFinal` and `ImplementsOneShot` violated, and the theorems of these two assume that it is
not. The bridge's builders do not abort. The defaulted move assignment (647) drops a live candidate
without `abort()`, so its cleanup never runs; ADR 0103 (58-59) asks for it. Nothing assigns so.

Of the materialization: every error of `publish()` but a conflict is reported as an unknown outcome
(`materialization_writer_internal.cpp:913`), also `store.counter-overflow`, `store.hash-collision`
and `store.corrupt`, which refuse before anything is written. The table of ADR 0096 and
`schemas/cxxlens_ng_clang22_materialization_contract.yaml:1801-1810` make them rejections of the
store. The caller is told too little there, never anything false.

Of the migration: an arm that fails after the coordination effect is answered without the
classification that ADR 0097 asks for; `SQLITE_BUSY` at BEGIN poisons the handle; only
`migrate_predecessor_v2` calls the reclassifier, whose branches for other operations have no caller.

Of the leases: a cleanup that finds a projection pending while other attachments live is told to
wait, but its generation stays live, so its next poll answers that the generation is stale and
quarantines; removing the only mapping of a page, without being the last, quarantines at once
(a comment at 17607 leaves it to "the next slice"), while the contract
(`schemas/cxxlens_ng_snapshot_store_contract.yaml:901,910`) describes both as supported. A writer
that joined an installation can never be promoted once another attachment has minted the
generation. A reader map that commits after an unmap of its group was cut, or after its generation
gained a page, quarantines. The branch of the retirement poll for a callback of its own thread is
never taken: `WaitsAlone`, part of the proof below, says so.

## Proofs

`SpillStorageProofs` proves, for all `Payloads`, `MaxRecords` and `MaxGeneration`, from
`SpillAssumption` alone (positive bounds; `Torn` and `Hole` are no payloads):

| Theorem | States |
|---|---|
| `TypeCorrect` | `Spec => []TypeOK` |
| `FrontierAlwaysRecoverable` | `Spec => []FrontierRecoverable` |
| `CheckpointAlwaysPublished` | `Spec => []CheckpointIsPublished` |
| `ResumedPrefixAlwaysExact` | `Spec => []ResumedPrefixExact` |
| `AlwaysOneCustodian` | `Spec => []SoleCustodian` |
| `DestructorsAlwaysClean` | `Spec => []NoUncleanedDestructor` |
| `Invariant` | `Spec => []IInv`, the strengthening that all of these follow from |
| `PublishedAlwaysGrows` | `Spec => PublishedOnlyGrows` |

Argument. None of the invariants is inductive. `FrontierRecoverable` speaks of the frontier and the
data file only, and a write goes where the port in memory says the end is, so `IInv == TypeOK /\
Published /\ InStep /\ Held /\ Owned /\ Exact` adds: `Published`, the frontier is a prefix of the
data file and not ahead of the commit, which is not ahead of the file; `InStep`, an unpoisoned
session's prefix, its port's offsets and the files agree, cell for cell; `Held`, an unpoisoned
coordinator holds the receipt that is on disk; `Owned`, exactly one port has the custody, a session
that is not the coordinator's is over except between a reopen and its installation, and a removed
directory has no live session; `Exact`, from the restore on the replacement stands on the data file,
and from the installation on that is the receipt's prefix. `InitInvariant`, `SpillInvariant` and
`HostInvariant` (one step per action) give `NextInvariant`; the theorems follow by PTL. `IInv` was
model-checked with the configuration of `spill` before it was proved. The lemmas about a write at
the end of a file and about prefixes stand at the start of the module. Digests are equal only for
equal prefixes: SHA-256 is taken to be free of collisions.

`SnapshotStoreProofs` proves, for any number of handles, writers, series and snapshots, any basis
relation and any `CounterMax`, from `StoreAssumption` alone (the memory backend has one handle,
`None` is no handle, writer, series or snapshot, and `"compact"` is no writer):

| Theorem | States |
|---|---|
| `StoreTypeCorrect` | `Spec => []TypeOK`, the counters below their limit included |
| `DatabaseAlwaysConsistent` | `Spec => []DatabaseConsistent` |
| `SeriesImplemented` | `Spec => ImplementsSeries`: `SnapshotStore` implements `PublicationSeries` |
| `ResolverOrderAlwaysKept` | `Spec => ResolverOrderKept` |
| `CommittedAlwaysDurable` | `Spec => []CommittedIsDurable` |
| `ViewsAlwaysPast` | `Spec => []ViewsArePast` |
| `BasisAlwaysPrior` | `Spec => BasisStrictlyPrior` |

Argument. `DatabaseConsistent` is not inductive: a rolled back caller must have a writer, a
compaction numbers a finite set, and with the memory backend a publication goes by the handle's
maps. `Inv` adds `IsFiniteSet(rows)`; `MemoryIsDatabase`, the maps of the memory backend are the
database and undamaged; and `CallerWaits`, a call keeps the mutex only across its recovery, and its
writer stays validating meanwhile. What a step does to the records is stated once for sets of
records: `DamageKeeps` and `RecountedKeeps` go by `RewrittenChains` (chains and heads do not depend
on generations or damage), the latter with `Ranks` (intact records have different ranks, below
their number, so the new generations are distinct and within `RecountFits`); `PublicationKeeps`
extends a chain at its head. The refinement adds `Counted`: a head's sequence is the number of the
publications of its series, so the number that the abstract draft had seen is the one its parent
stands for. `NextIsDatabaseStep` reduces every step to one of three changes of the database.

From this the order follows at once (`OrderKept`: a compaction numbers in the resolver's order, a
publication adds a record, which no other has the identity of). The other three need what handles
and writers know: `Known` says that every handle shows a past of the database, that the maps of a
detached handle which still answers show the damage it was detached for, that a committed writer's
record is in the database, and that the inputs of a writer that may publish were published once.
`DatabaseGrows` keeps a past a past. The crux is `DamageShows`: if any record of an unforked chain
is damaged, the heads derived from the intact ones differ from the chain's, or do not derive at all,
so a detached handle can never pass the comparison of the heads before it commits to its own maps.

`StoreMigrationProofs` proves, for any number of processes, any `GenerationMax` and any set of
failing effects, from `MigrationAssumption` (a positive limit, `None` is no handle) and
`NoneAssumption` (`None` is no database and no anchor):

| Theorem | States |
|---|---|
| `SolverExact` | the residual solver finds a schedule if and only if some `k` compactions fit: `\E k : k * lower <= delta <= k * upper` |
| `TypeCorrect` | `Spec => []TypeOK` |
| `HistoryImplemented` | `Spec => ImplementsHistory` |
| `AvailableAlwaysSafe` | `Spec => []AvailableIsSafe` |
| `DescendantAlwaysRecognised` | `Spec => []DescendantRecognised` |
| `OutcomeAlwaysTruthful` | `Spec => []OutcomeTruthful` |

Argument, in four layers, each an invariant relative to the one before. `TInv` adds to the types
`Transactions`: between BEGIN and COMMIT the process has the lock and the sealed source is what the
database holds. `SInv` adds, per program counter, what connection, lock and format belong together
(`Safe`). `DInv` adds how far the database may have come from the sealed source (`Traced`): some
publications before and after some number of compactions, each of which renumbers a population
between the old and the new one, so that the residual of the generation counter is a schedule the
solver must find; its lemmas about descent show that publishing, compacting and migrating keep this.
`OInv` adds what a call may claim from its phase and from whether it took effect (`Told`).

`Ng1SessionProofs` proves, for every timeout, grace, window, gap, rate and polling interval, any
clock skew and any sequence of calls, from `ClocksAssumption` (the limits are positive) and
`SessionAssumption` (the inputs are of their kinds):

| Theorem | States |
|---|---|
| `SessionTypeCorrect` | `Spec => []TypeOK` |
| `TerminalAlwaysFinal` | `Spec => TerminalIsFinal` |
| `SealAlwaysEarned` | `Spec => SealIsEarned` |
| `SilenceAlwaysBounded` | `Spec => []SilenceBounded` |
| `MinimumRateAlwaysHeld` | `Spec => []MinimumRateHeld` |

Argument. `Moves` says what any call may do to the recovery state, the seal and the durable resume;
each group of calls is shown to keep to it, from the rows of the matrix (`MatrixRows`), and
`TerminalIsFinal` is part of it. `Earned` adds when there can be a seal or a resume at all.
`Heard`: the last poll of a running session was not longer ago than one interval and did not find
the provider silent, so its silence is bounded by the sum. `Kept`: from the last sample within the
grace to the latest checkpoint the provider has kept the rate, because a stretch at the rate and
another one make a stretch at the rate (`RatesAdd`); rounding each window down would break it.

`Ng1RuntimeProofs` proves, for any limit on retained frames and any set of frames that two workers
may send, from `RuntimeAssumption` (the limit is positive, the inputs are frames):

| Theorem | States |
|---|---|
| `RuntimeTypeCorrect` | `Spec => []TypeOK`, the limit on frames included |
| `WorkerAlwaysAlone` | `Spec => []OneLiveWorker` |
| `NothingEverLeftBehind` | `Spec => []NothingLeftBehind` |
| `SuccessAlwaysSealed` | `Spec => []SuccessIsSealed` |
| `RuntimeImplementsTaskOutcome` | `Spec => ImplementsTaskOutcome`: every step is one of `TaskOutcome` or a stutter |

Argument. `IInv == TypeOK /\ Ending /\ Replaced /\ Producers /\ Continuation`. `Ending`: what the
program counter says of the session, the seal and the verdict. `Replaced`: where there can be a
second worker, and that the first one is then ended, left a checkpoint and had sent no terminal
frame. `Producers`: whose frames the driver and the spill hold. `Continuation`: frame `i` of the
spill is the first worker's frame of sequence `i`, up to the checkpoint once there is one, the
driver's frames extend it until the replacement clears them, and the prefix taken for the replay is
it. The prefix that
`try_one_restart` collects from the driver's frames is therefore the durable one (`DurableIsSpill`),
and the transcript, replayed or not, starts with it (`TranscriptContinues`), which is what the step
`Seal` of `TaskOutcome` asks for; `ReceiveRefines`, `LaunchRefines`, `SealRefines` and
`ReportRefines` are the others.

`ShmLeasesProofs` and `ShmCustodyProofs` prove, for any number of map attempts, attachments,
threads, readers and sessions and any `MaxGeneration`, from `PagesAssumption` and `OpensAssumption`
(finitely many pages, which are numbers, and readers), `BoundAssumption`, `NoneAssumption` (`None`
is none of the others) and `KindsAssumption` (a map attempt is no session: they are tokens of
different classes):

| Theorem | States |
|---|---|
| `LeaseTypeCorrect` | `Spec => []TypeOK` |
| `NeverUnmappedUnderUse` | `Spec => []NoUnmapUnderUse` |
| `RetirementAlwaysOwned` | `Spec => []RetirementHasOneOwner` |
| `GateAlwaysComplete` | `Spec => []GateIsComplete` |
| `PagesAlwaysSupported` | `Spec => []PagesSupported` |
| `ProjectionAlwaysHeld` | `Spec => []ProjectionHasHolder` |
| `LeasesImplementCustody` | `Spec => ImplementsCustody`: every step is one of `GenerationCustody` or a stutter |

Argument. `NoUnmapUnderUse` is a statement about the past: the decision was taken before the
callback, and every later operation must keep what it found. `Inv == TInv /\ WaitsAlone /\ SInv`.
`TInv` is the types and what they rest on: members of an attachment are the attempts that name it
(`Belongs`), sessions have readers and threads (`Placed`, `Seated`), a reserved group has one
session (`Reserving`), hand-offs are counted by published groups (`Counted`). `WaitsAlone`: a thread
that waits to clean up is in no callback the cleanup could wait for, so a poll never finds its own.
`SInv` holds until the family is quarantined: an attempt that is not decided, or a holder, has an
attachment nobody cleans up (`InCollecting`), a generation that retires has one owner (`OneOwner`)
and no holder (`Drained`), one that is over has no attempt left (`Settled`), and what the decision
found is still so (`StillUnused`). Each of them needs the others: an admission is refused because
the generation retires (`OneOwner`), and a promotion because its attachment would be collecting.
There is one lemma per action and part.

What supports the pages is a second layer, `CInv == Inv /\ (quarantined \/ Support)`. `Support` has
four parts. `HoldersCurrent`: the authorities are the active holders, all of the present generation,
which is live if there are any; a generation that is gone leaves nothing behind, and one that is
over has no owner. `Covered`: the pages of a live generation are those of the holders that are
active or wait sealed for readers. `Projecting`: the holder of a projection is one of them, of the
session's generation and page. `Lending`: the hand-offs are exactly the groups not yet returned.
The step that could break them is the seal (`SealSupport`): if the attachment is not the last, each
of its pages has another active holder (`Redundant`) and no reader was lent one of them; if it is,
or a reader was lent one, its holders wait. `GateEffect`, `CleanupEffect` and the `...Moves` lemmas
say what an operation does to the users and borrowers of the mapping; the `Custody...` lemmas turn
each into the step of `GenerationCustody` it is. That a generation opens with no borrower left needs
`Lending`: the record is dropped at zero hand-offs, and zero hand-offs means no group.
`Support` was model-checked with the configuration of `shm_leases` before it was proved.

`MaterializationProofs` proves, for any tasks, projections, censuses and limits, any client and any
answer of the backend, from `CandidateAssumption` (the code's bounds on the limits, and the kinds of
the inputs) and `NoVerdictAssumption` (`None` is no verdict):

| Theorem | States |
|---|---|
| `CandidateTypeCorrect` | `Spec => []TypeOK`, with the quota of every spool and of the report |
| `CandidateAlwaysInv` | `Spec => []CandidateInv`, the inductive invariant |
| `PublishedAlwaysProven` | `Spec => []PublishedWasProven` |
| `CandidateAlwaysTruthful` | `Spec => []OutcomeTruthful` |
| `ReportAlwaysAgrees` | `Spec => []ReportAgrees` |
| `VerdictAlwaysFinal` | `Spec => VerdictIsFinal`, also for a client whose builders abort |
| `AbortAlwaysFinal` | `Spec => AbortedIsFinal`, if no builder aborts the candidate |
| `CandidateIsOneShot` | `Spec => ImplementsOneShot`, if no builder aborts the candidate |
| `CleanedAlwaysOnce` | `Spec => []CleanedExactlyOnce`, if no builder aborts the candidate and nothing is assigned over it |

and, for both backends, from these, `WriterAssumption` (the census is the bridge's own, the
callbacks leave the candidate alone) and `NoCodeAssumption` (`None` is no error code):

| Theorem | States |
|---|---|
| `WriterImplementsCandidate` | `WriterSpec => ImplementsCandidate`: every step of the bridge is one of the candidate, so all of the above holds of it |
| `WriterAlwaysInv`, `WriterTypeCorrect` | `WriterSpec => []WriterInv`, `WriterSpec => []WriterTypeOK` |
| `AlwaysPublishesWhileValidating` | `WriterSpec => []PublishesWhileValidating` |
| `SuccessAlwaysVerified` | `WriterSpec => []SuccessIsVerified` |
| `AnswerAlwaysExplained` | `WriterSpec => []AnswerIsExplained` |
| `PublicationIsOneShot` | `WriterSpec => ImplementsPublication` |

Argument. `CandidateInv` adds to what it proves: `Staged` and `Projected`, what a phase stands for,
and, once the backend was called, stands for whatever the phase; `Attempted`, the backend is on the
stack only under an attempt, or under a verdict left unknown, so its effect cannot come after a
refusal; `Verdicts`, there is a verdict exactly in the last phases; `Cleanups`, the callback is
counted once. `Built`, a builder is on the stack only before anything was attempted, and finds the
phase changed only if it aborted. That a phase is written over after a builder's abort breaks none
of them, because the spools stay as they were and nothing has been told. `StepsOfTerminal` reduces
every step to five: it goes on, gives up, judges, commits, or brings an aborted candidate back
(`Revives`), which only the return of a builder that aborted does; finality and the refinement
follow from these. `CleanedInv` is inductive only under its two conditions; the two observations
about the candidate above are what happens without one of them, so neither can be dropped.
`WriterInv` adds `Placed`, the candidate's phase at each place of the bridge; `Recorded`, what an
error or a handle says of the publication, the crux being that every code but SQLite's opaque one is
from before the write; and `Answered`, a bridge that does not fail leaves either an error of
`publish()` or a publication that was checked (`Settled`), so the last branch, a missing handle
without an error, is never taken. All of these were model-checked on the instances of `candidate`
and `materialization` before they were proved.

The type invariant of every module is proved; only `SnapshotStore`'s, whose counters have a limit to
keep, is also checked by a run. Only model-checked: `Termination` and `EventuallyCleaned`, since
liveness under fairness is beyond the prover here. No operator of these modules is declared
RECURSIVE. The findings are counterexamples of TLC. Every leaf of every proof was also checked with
a tenth of the prover's usual time limits, so that a slower machine proves the same.

## Not modelled

* Byte-level codecs, digests and canonical encodings; a value is what it decodes to, or damaged.
* Of the store: pins on retained generations, hash collisions of snapshots, lists of partitions, the
  receipts of a logical read. SQLite's transactions are atomic and its write lock excludes; what is
  below is one bit in `SnapshotStore`, a WAL without shared memory, and the main file and sidecars
  of an anchor in `StoreMigration`.
* Of the migration: corrupt rows (a BEGIN that fails), several series, a database that is WAL-only
  at the terminal reopen, replacement of the main file. A crash leaves no WAL behind: what the next
  open writes back is written back at the crash. SQLite's automatic checkpoint is a refused arm.
* Of the leases: registration and close of a reader's open, unpublished and late-close cleanups,
  predecessor families, legacy readers, `emergency_quarantine`, identities, receipts and custody
  sequences that a correct caller always presents; a callback nested in another of its thread
  (`callback_can_start_locked` admits a greater depth). The two scopes of the mutex in
  `advance_positive_registry_writer_attachment_gate` are one step. The fields of a record that is
  over are reset. No fairness: whether a native callback returns is not the leases' to say.
* Of the candidate: a builder that calls another method than `abort()` of its own candidate, a
  cleanup that calls back, and the encoding of records.
* Of the materialization: the validation and derivation of the source before the writer is staged,
  the bounded-store preflight, which is one step that agrees or does not, and why the snapshot
  writer refuses, beyond its codes.
* Of the runtime: the completed-process path without NG1, the transcript rules beyond sequence
  and terminal order, process launch.
* Of the process adapter and the query engine: the 100 ms wait for the acknowledgement of a process
  group (`src/runtime/provider_process_adapter.cpp:1691`) and the budgets that are checked in
  different places (`query_execution.cpp:728`), two hazards no module reaches.
* The other components of the inventory; `PROJECT.json` says of each why, or that it is planned.

## Plan

Written, in this order: `SpillStorage` with its proofs, `Ng1Recovery`, `Ng1Clocks`, `Ng1Session`,
`TaskOutcome`, `Ng1Runtime`, `PublicationSeries`, `SnapshotStore` with its proofs,
`AuthorityHistory`, `AuthorizedDescendant`, `StoreMigration` with their proofs, `GenerationCustody`,
`ShmLeases` with its proofs, the proofs of `Ng1Session`, `Ng1Runtime` and of the custody,
`OneShotPublication`, `StoreCandidate` and `MaterializationWriter` with their proofs.

Next, in order of weight:

1. The reader's opens and late closes in `ShmLeases`, and the forwarding VFS that calls it.
2. `ProviderTranscript`: credit, fragments and batches of the validator, composed with
   `Ng1Runtime`'s receive loop.
3. Query budgets, protocol 2 closure and the incremental plan as operators against reference
   definitions over bounded inputs.

Proved: every safety property, action property and refinement of the passing runs. To be proved
next: the properties of the modules planned above, each with the module.
