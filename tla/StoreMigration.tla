--------------------------- MODULE StoreMigration ---------------------------
(***************************************************************************)
(* The migration of a store database from format v2 to v3 (store.cpp,      *)
(* migrate_predecessor_v2), with the effect gate and the lifecycle of its  *)
(* connection.  Several processes, each with one store handle, and older   *)
(* programs that still write v2, share the database file.                  *)
(*                                                                         *)
(* A call opens a connection that may not write, arms it in two steps,     *)
(* takes the write lock, seals what it finds, rewrites everything and      *)
(* commits.  However that ends, it closes the connection, opens the        *)
(* database again, and decides from what it finds there what to tell its   *)
(* caller and whether the handle may go on.                                *)
(***************************************************************************)
EXTENDS AuthorizedDescendant

CONSTANTS
    Handles,            \* processes with one handle each
    GenerationMax,      \* the limit of the generation counter
    Failing             \* the effects that may fail

Effects == {"arm", "begin", "build", "commit", "rollback", "close", "reopen"}

ASSUME MigrationAssumption ==
    /\ GenerationMax \in Nat \ {0}
    /\ Failing \subseteq Effects
    /\ None \notin Handles

VARIABLES
    authority,      \* what a reader of the database sees
    main,           \* what the main file holds: authority at the last checkpoint
    lock,           \* the handle whose connection holds the write lock, or None
    pc,             \* where the process is
    availability,   \* of the handle
    view,           \* its maps
    sqlite_format,  \* the format it goes by
    anchor,         \* the main file and the sidecar files it last observed
    connection,     \* its connection: what the gate lets it do
    quarantined,    \* has the process a connection it could not close?
    source,         \* source_projection of the call, or None
    candidate,      \* candidate_projection of the call, or None
    found,          \* what the terminal reopen read
    phase,          \* how far the call came
    trigger,        \* why it stopped
    applied,        \* did its transaction take effect?
    result          \* what the caller is told

database == <<authority, main, lock>>
handle == <<availability, view, sqlite_format, anchor>>
call == <<source, candidate, found, phase, trigger, applied, result>>
vars == <<database, pc, handle, connection, quarantined, call>>

History == INSTANCE AuthorityHistory

Phases == {"precommit", "commit_outcome_unknown", "successful_handoff"}
Results == {"none", "refused", "recovered_success", "original_trigger",
            "database_opaque", "concurrent_authority_change", "recovery_opaque"}
Anchors == [main : History!Authorities, sidecars : BOOLEAN]

ASSUME NoneAssumption == None \notin History!Authorities /\ None \notin Anchors

TypeOK ==
    /\ authority \in History!Authorities
    /\ main \in History!Authorities
    /\ lock \in Handles \cup {None}
    /\ pc \in [Handles -> {"closed", "idle", "opened", "coordinated", "began",
                           "built", "concluding", "released", "reopened", "returned"}]
    /\ availability \in [Handles -> {"available", "poisoned"}]
    /\ view \in [Handles -> History!Authorities \cup {None}]
    /\ sqlite_format \in [Handles -> History!Formats]
    /\ anchor \in [Handles -> Anchors \cup {None}]
    /\ connection \in [Handles -> {"none", "denied", "coordination", "writer"}]
    /\ quarantined \in [Handles -> BOOLEAN]
    /\ source \in [Handles -> History!Authorities \cup {None}]
    /\ candidate \in [Handles -> History!Authorities \cup {None}]
    /\ found \in [Handles -> History!Authorities \cup {None}]
    /\ phase \in [Handles -> Phases]
    /\ trigger \in [Handles -> {"failure", "concurrent_authority_change"}]
    /\ applied \in [Handles -> BOOLEAN]
    /\ result \in [Handles -> Results]

Init ==
    /\ authority = [format |-> "legacy_v2", generations |-> <<>>]
    /\ main = authority
    /\ lock = None
    /\ pc = [h \in Handles |-> "closed"]
    /\ availability = [h \in Handles |-> "available"]
    /\ view = [h \in Handles |-> None]
    /\ sqlite_format = [h \in Handles |-> "legacy_v2"]
    /\ anchor = [h \in Handles |-> None]
    /\ connection = [h \in Handles |-> "none"]
    /\ quarantined = [h \in Handles |-> FALSE]
    /\ source = [h \in Handles |-> None]
    /\ candidate = [h \in Handles |-> None]
    /\ found = [h \in Handles |-> None]
    /\ phase = [h \in Handles |-> "precommit"]
    /\ trigger = [h \in Handles |-> "failure"]
    /\ applied = [h \in Handles |-> FALSE]
    /\ result = [h \in Handles |-> "none"]

(***************************************************************************)
(* The file.  A connection that may coordinate has the WAL and the shared  *)
(* memory file in place; the last one to go writes the WAL back.           *)
(***************************************************************************)

HoldsSidecars(h) == connection[h] \in {"coordination", "writer"} \/ quarantined[h]
Sidecars == \E h \in Handles : HoldsSidecars(h)
Census == [main |-> main, sidecars |-> Sidecars]

\* revalidate_stored_quiescent_source: the entries and the bytes of the main file
SourceStable(h) == anchor[h] = Census

\* A commit stays in the WAL as long as a connection has it open.
Committed(new) ==
    /\ authority' = new
    /\ main' = IF Sidecars THEN main ELSE new

\* After a connection of h is gone, with `kept` if it could not be closed.
CheckpointIfLast(h, kept) ==
    main' = IF kept \/ \E k \in Handles \ {h} : HoldsSidecars(k) THEN main ELSE authority

MayFail(effect) == effect \in Failing

Goto(h, label) == pc' = [pc EXCEPT ![h] = label]

\* sqlite_connection_lifecycle::close_exactly_once: what is not closed is kept for the
\* rest of the process, and nobody closes it again.
CloseExactlyOnce(h, closed) ==
    /\ closed \/ MayFail("close")
    /\ connection' = [connection EXCEPT ![h] = "none"]
    /\ quarantined' = [quarantined EXCEPT
                         ![h] = @ \/ (~closed /\ connection[h] # "denied")]
    /\ CheckpointIfLast(h, quarantined'[h])

ForgetCall(h) ==
    /\ source' = [source EXCEPT ![h] = None]
    /\ candidate' = [candidate EXCEPT ![h] = None]
    /\ found' = [found EXCEPT ![h] = None]
    /\ phase' = [phase EXCEPT ![h] = "precommit"]

Tell(h, told) ==
    /\ result' = [result EXCEPT ![h] = told]
    /\ ForgetCall(h)
    /\ UNCHANGED <<trigger, applied>>
    /\ Goto(h, "returned")

\* poison_result_operations: the handle gives no result any more.
Poison(h) == availability' = [availability EXCEPT ![h] = "poisoned"]

(***************************************************************************)
(* Processes, and the other writers.                                       *)
(***************************************************************************)

\* open_sqlite: a v2 database is read and closed again, a v3 database stays open.
Open(h) ==
    /\ pc[h] = "closed"
    /\ view' = [view EXCEPT ![h] = authority]
    /\ sqlite_format' = [sqlite_format EXCEPT ![h] = authority.format]
    /\ availability' = [availability EXCEPT ![h] = "available"]
    /\ IF authority.format = "legacy_v2"
       THEN anchor' = [anchor EXCEPT ![h] = Census] /\ UNCHANGED connection
       ELSE connection' = [connection EXCEPT ![h] = "writer"] /\ UNCHANGED anchor
    /\ Goto(h, "idle")
    /\ UNCHANGED <<database, quarantined, call>>

\* The process ends, by a crash too: its locks and connections end with it.  After a
\* crash it is the next open that writes the WAL back; here it is done already.
Exit(h) ==
    /\ pc[h] # "closed"
    /\ lock' = IF lock = h THEN None ELSE lock
    /\ connection' = [connection EXCEPT ![h] = "none"]
    /\ quarantined' = [quarantined EXCEPT ![h] = FALSE]
    /\ CheckpointIfLast(h, FALSE)
    /\ view' = [view EXCEPT ![h] = None]
    /\ anchor' = [anchor EXCEPT ![h] = None]
    /\ sqlite_format' = [sqlite_format EXCEPT ![h] = "legacy_v2"]
    /\ availability' = [availability EXCEPT ![h] = "available"]
    /\ ForgetCall(h)
    /\ trigger' = [trigger EXCEPT ![h] = "failure"]
    /\ applied' = [applied EXCEPT ![h] = FALSE]
    /\ result' = [result EXCEPT ![h] = "none"]
    /\ Goto(h, "closed")
    /\ UNCHANGED authority

\* An older program publishes or compacts while the database still is v2.
LegacyWrite ==
    /\ lock = None
    /\ authority.format = "legacy_v2"
    /\ \E new \in [format : {"legacy_v2"},
                   generations : {History!Published(authority.generations),
                                  History!Renumbered(authority.generations)}] :
         /\ History!Fits(new.generations)
         /\ new # authority
         /\ Committed(new)
    /\ UNCHANGED <<lock, pc, handle, connection, quarantined, call>>

\* publish and compact of a handle that begin() admits: one transaction that reads
\* the database again before it writes.
CurrentWrite(h) ==
    /\ pc[h] = "idle"
    /\ availability[h] = "available"
    /\ sqlite_format[h] = "current_v3"
    /\ lock = None
    /\ sqlite_format[h] = authority.format
    /\ \/ /\ Len(view[h].generations) = Len(authority.generations)
          /\ Committed([authority EXCEPT !.generations = History!Published(@)])
       \/ /\ authority.generations # <<>>
          /\ Committed([authority EXCEPT !.generations = History!Renumbered(@)])
    /\ History!Fits(authority'.generations)
    /\ view' = [view EXCEPT ![h] = authority']
    /\ UNCHANGED <<lock, pc, availability, sqlite_format, anchor, connection, quarantined, call>>

(***************************************************************************)
(* The call.  Until the gate is fully armed a failure returns as it is,    *)
(* and the handle stays as it was.                                         *)
(***************************************************************************)

\* compact(): begin() refuses a v2 handle, compact() migrates.  The connection is open
\* and its gate denies every effect.
Start(h) ==
    /\ pc[h] = "idle"
    /\ availability[h] = "available"
    /\ sqlite_format[h] = "legacy_v2"
    /\ SourceStable(h)
    /\ connection' = [connection EXCEPT ![h] = "denied"]
    /\ applied' = [applied EXCEPT ![h] = FALSE]
    /\ trigger' = [trigger EXCEPT ![h] = "failure"]
    /\ Goto(h, "opened")
    /\ UNCHANGED <<database, handle, quarantined, source, candidate, found, phase, result>>

\* arm_now with wal_shm_coordination_only: the source is checked once more, and the
\* connection may then put the sidecar files in place.
Coordinate(h) ==
    /\ pc[h] = "opened"
    /\ SourceStable(h)
    /\ connection' = [connection EXCEPT ![h] = "coordination"]
    /\ Goto(h, "coordinated")
    /\ UNCHANGED <<database, handle, quarantined, call>>

\* arm_now with fully_armed: the main file has the bytes it had.  Others may have
\* committed to the WAL since, and may do so until the lock is taken: an action of its
\* own before BEGIN would allow no other outcome.
Armed(h) == pc[h] = "coordinated" /\ anchor[h].main = main

\* An arm is refused.  The destructor closes the connection.
Refused(h) ==
    /\ \/ pc[h] = "opened" /\ (MayFail("arm") \/ ~ SourceStable(h))
       \/ pc[h] = "coordinated" /\ (MayFail("arm") \/ ~ Armed(h))
    /\ \E closed \in BOOLEAN : CloseExactlyOnce(h, closed)
    /\ Tell(h, "refused")
    /\ UNCHANGED <<authority, lock, handle>>

\* BEGIN IMMEDIATE does not get the lock.
BeginFails(h) ==
    /\ Armed(h)
    /\ MayFail("begin") \/ lock # None
    /\ Goto(h, "concluding")
    /\ UNCHANGED <<database, handle, connection, quarantined, call>>

\* Seeded fault: what the handle has read before is what is migrated.
SourceFromView(h) == view[h]

\* What is read under the lock, whatever the handle has read before.
SourceUnderLock(h) == authority

Begin(h) ==
    /\ Armed(h)
    /\ lock = None
    /\ lock' = h
    /\ \/ /\ authority.format = "legacy_v2"
          /\ source' = [source EXCEPT ![h] = SourceUnderLock(h)]
          /\ Goto(h, "began")
          /\ UNCHANGED trigger
       \/ /\ authority.format # "legacy_v2"
          /\ trigger' = [trigger EXCEPT ![h] = "concurrent_authority_change"]
          /\ Goto(h, "concluding")
          /\ UNCHANGED source
       \/ /\ MayFail("begin")       \* the census fails
          /\ Goto(h, "concluding")
          /\ UNCHANGED <<source, trigger>>
    /\ UNCHANGED <<authority, main, handle, connection, quarantined,
                   candidate, found, phase, applied, result>>

\* The shadow tables, the final tables and the marker.  All publications get new
\* generations above the highest one.
Candidate(h) ==
    [format |-> "current_v3", generations |-> History!Renumbered(source[h].generations)]

Build(h) ==
    /\ pc[h] = "began"
    /\ History!Fits(Candidate(h).generations)
    /\ candidate' = [candidate EXCEPT ![h] = Candidate(h)]
    /\ sqlite_format' = [sqlite_format EXCEPT ![h] = "current_v3"]
    /\ Goto(h, "built")
    /\ UNCHANGED <<database, availability, view, anchor, connection, quarantined,
                   source, found, phase, trigger, applied, result>>

\* It fails, at worst with the handle already at the new format.
BuildFails(h) ==
    /\ pc[h] = "began"
    /\ MayFail("build") \/ ~ History!Fits(Candidate(h).generations)
    /\ \E format \in (IF MayFail("build") THEN History!Formats ELSE {"legacy_v2"}) :
         sqlite_format' = [sqlite_format EXCEPT ![h] = format]
    /\ Goto(h, "concluding")
    /\ UNCHANGED <<database, availability, view, anchor, connection, quarantined, call>>

\* COMMIT, which may take effect although it reports a failure.
Commit(h) ==
    /\ pc[h] = "built"
    /\ \E reported \in BOOLEAN, effective \in BOOLEAN :
         /\ reported => effective
         /\ reported \/ MayFail("commit")
         /\ phase' = [phase EXCEPT ![h] = IF reported THEN "successful_handoff"
                                          ELSE "commit_outcome_unknown"]
         /\ applied' = [applied EXCEPT ![h] = effective]
         /\ IF effective THEN Committed(candidate[h]) /\ lock' = None
            ELSE UNCHANGED database
    /\ Goto(h, "concluding")
    /\ UNCHANGED <<handle, connection, quarantined, source, candidate, found, trigger, result>>

(***************************************************************************)
(* conclude.  Other processes run between its steps.                       *)
(***************************************************************************)

\* The rollback may fail; closing the connection ends its transaction all the same.
\* A close that is not confirmed poisons the handle, and the transaction may go on.
Release(h) ==
    /\ pc[h] = "concluding"
    /\ \E rolled \in BOOLEAN, closed \in BOOLEAN :
         /\ rolled \/ MayFail("rollback")
         /\ CloseExactlyOnce(h, closed)
         /\ lock' = IF lock = h /\ (rolled \/ closed) THEN None ELSE lock
         /\ IF closed /\ source[h] # None
            THEN Goto(h, "released") /\ UNCHANGED <<availability, call>>
            ELSE Poison(h) /\ Tell(h, "recovery_opaque")
    /\ UNCHANGED <<authority, view, sqlite_format, anchor>>

\* Seeded fault: the handle keeps the format that the failed call has set.
Reopen_KeepsFormat(h) ==
    /\ pc[h] = "released"
    /\ found' = [found EXCEPT ![h] = authority]
    /\ Goto(h, "reopened")
    /\ UNCHANGED <<database, availability, view, sqlite_format, anchor, connection,
                   quarantined, source, candidate, phase, trigger, applied, result>>

\* open_observed_store_database: the database as it is now, by a private read.
Reopen(h) ==
    /\ pc[h] = "released"
    /\ found' = [found EXCEPT ![h] = authority]
    /\ sqlite_format' = [sqlite_format EXCEPT ![h] = authority.format]
    /\ Goto(h, "reopened")
    /\ UNCHANGED <<database, availability, view, anchor, connection, quarantined,
                   source, candidate, phase, trigger, applied, result>>

ReopenFails(h) ==
    /\ pc[h] \in {"released", "reopened"}
    /\ MayFail("reopen")
    /\ Poison(h)
    /\ Tell(h, "recovery_opaque")
    /\ UNCHANGED <<database, view, sqlite_format, anchor, connection, quarantined>>

\* The class of what was found decides.  A v3 database is opened for writing first; of
\* a v2 database the anchor is captured anew, which fails on a WAL with content.
Resolve(h) ==
    LET class == Classify(source[h], candidate[h], found[h])
    IN  /\ pc[h] = "reopened"
        /\ sqlite_format[h] = "legacy_v2" => main = authority
        /\ IF Installs(class)
           THEN /\ view' = [view EXCEPT ![h] = found[h]]
                /\ IF sqlite_format[h] = "current_v3"
                   THEN /\ connection' = [connection EXCEPT ![h] = "writer"]
                        /\ anchor' = [anchor EXCEPT ![h] = None]
                   ELSE /\ anchor' = [anchor EXCEPT ![h] = Census]
                        /\ UNCHANGED connection
                /\ UNCHANGED availability
           ELSE Poison(h) /\ UNCHANGED <<view, anchor, connection>>
        /\ Tell(h, PublicResult(phase[h], class))
        /\ UNCHANGED <<database, sqlite_format, quarantined>>

\* The WAL of a v2 database has content, as it must with commits that are not in the
\* main file and as it may while somebody has it open.
ResolveStopped(h) ==
    /\ pc[h] = "reopened"
    /\ sqlite_format[h] = "legacy_v2"
    /\ main # authority \/ Sidecars
    /\ Poison(h)
    /\ Tell(h, "recovery_opaque")
    /\ UNCHANGED <<database, view, sqlite_format, anchor, connection, quarantined>>

\* compact() returns.
Return(h) ==
    /\ pc[h] = "returned"
    /\ result' = [result EXCEPT ![h] = "none"]
    /\ applied' = [applied EXCEPT ![h] = FALSE]
    /\ trigger' = [trigger EXCEPT ![h] = "failure"]
    /\ Goto(h, "idle")
    /\ UNCHANGED <<database, handle, connection, quarantined, source, candidate, found, phase>>

Next ==
    \/ LegacyWrite
    \/ \E h \in Handles :
         \/ Open(h) \/ Exit(h) \/ CurrentWrite(h)
         \/ Start(h) \/ Coordinate(h) \/ Refused(h)
         \/ BeginFails(h) \/ Begin(h) \/ Build(h) \/ BuildFails(h) \/ Commit(h)
         \/ Release(h) \/ Reopen(h) \/ ReopenFails(h) \/ Resolve(h) \/ ResolveStopped(h)
         \/ Return(h)

Spec == Init /\ [][Next]_vars

(***************************************************************************)
(* Properties.                                                             *)
(***************************************************************************)

\* The database only grows along the edges of the algebra, whichever processes migrate,
\* write and crash: a migration renumbers exactly the publications that are there when
\* it commits, none of them lost and none twice (store.cpp:8605, read under the lock).
ImplementsHistory == History!Spec

\* What a call has sealed under the lock, the database always descends from, as far as
\* the reclassifier can tell: whatever others publish, compact or migrate before the
\* terminal reopen, it does not take them for a concurrent replacement
\* (sqlite_terminal_reclassifier_internal.cpp:440).
DescendantRecognised ==
    \A h \in Handles :
        source[h] # None =>
            /\ Descends(source[h], authority)
            /\ candidate[h] # None =>
                  Classify(source[h], candidate[h], authority) =
                      IF authority = source[h] THEN "pre_state"
                      ELSE IF authority.format = "current_v3" THEN "with_edge"
                      ELSE "without_edge"

\* What compact() tells is what happened (store.cpp:9115, resolve_sqlite_terminal): on
\* success the database is migrated; the error of a step means that this call changed
\* nothing; and a handle that goes on after its COMMIT took effect reported success.
OutcomeTruthful ==
    \A h \in Handles : pc[h] = "returned" =>
        /\ result[h] = "recovered_success" =>
              authority.format = "current_v3" /\ view[h].format = "current_v3"
        /\ result[h] \in {"original_trigger", "refused", "concurrent_authority_change"} =>
              ~ applied[h]
        /\ applied[h] /\ availability[h] = "available" => result[h] = "recovered_success"

\* A handle that goes on has let go of the write lock and goes by the format of the
\* database: begin() never admits a v3 publication to a v2 database, although the call
\* sets the format before its COMMIT (store.cpp:9094), and no close that failed has left
\* a transaction behind it (sqlite_connection_lifecycle_internal.cpp:578).
AvailableIsSafe ==
    \A h \in Handles : pc[h] \in {"idle", "returned"} /\ availability[h] = "available" =>
        /\ lock # h
        /\ sqlite_format[h] = view[h].format
        /\ sqlite_format[h] = "current_v3" =>
              authority.format = "current_v3" /\ connection[h] = "writer"
        /\ sqlite_format[h] = "legacy_v2" => connection[h] = "none" /\ anchor[h] # None

\* The contract (schemas/cxxlens_ng_snapshot_store_contract.yaml:776) and ADR 0097: a
\* migrator that finds under its lock that another one was faster ends in success.
ConcurrentMigratorSucceeds ==
    \A h \in Handles :
        pc[h] = "returned" /\ trigger[h] = "concurrent_authority_change" =>
            result[h] = "recovered_success"
=============================================================================
