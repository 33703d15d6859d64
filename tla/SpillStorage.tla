---------------------------- MODULE SpillStorage ----------------------------
(***************************************************************************)
(* The durable spill of one NG1 provider session: the three files of the   *)
(* spill directory (spill.data, spill.commit, spill.frontier), the storage *)
(* ports that have them open, the staging session on each port, and the    *)
(* gate the session coordinator puts in front of them.                     *)
(*                                                                         *)
(* One record occupies one cell of the data file, so a byte count is a     *)
(* number of cells.  A write that stops half way leaves a Torn cell, a     *)
(* write past the end of the file leaves Hole cells.  The spill digest of  *)
(* a prefix is the prefix itself: SHA-256 is taken to be free of           *)
(* collisions.  The file system may fail at any effect; a failed rename or *)
(* directory fsync leaves either the old or the new file in place.         *)
(***************************************************************************)
EXTENDS Naturals, Sequences

CONSTANTS
    Payloads,       \* what a provider frame carries
    Torn, Hole,     \* cells that do not decode to a record
    MaxRecords,     \* ng1_spill_maximum_records, the record quota
    MaxGeneration   \* bound on the resume generations a caller asks for

ASSUME SpillAssumption ==
    /\ MaxRecords \in Nat \ {0}
    /\ MaxGeneration \in Nat \ {0}
    /\ Torn \notin Payloads
    /\ Hole \notin Payloads

VARIABLES
    dir,         \* "present" until the custodian removes the directory
    data,        \* spill.data, a sequence of cells
    commit,      \* spill.commit: [bytes, seq]
    frontier,    \* spill.frontier, NoFrontier when there is no such file
    port,        \* per handle, the storage port
    session,     \* per handle, the staging session that owns the port
    current,     \* the handle installed in the coordinator
    checkpoint,  \* latest_fsync_receipt_ with its resume generation
    poisoned,    \* the coordinator's poisoned(): its own flag or its spill's
    phase        \* where the coordinator and its caller are

files == <<dir, data, commit, frontier>>
vars == <<dir, data, commit, frontier, port, session, current, checkpoint,
          poisoned, phase>>

-----------------------------------------------------------------------------
(* Values *)

\* The port create_new() returns, and the one reopen() returns.
Handles == {"original", "replacement"}

Record == [ordinal : Nat, payload : Payloads]
Cell == [ordinal : Nat, payload : Payloads \cup {Torn, Hole}]

\* A fsync receipt together with the resume generation it was published under.
\* frontier.validate() refuses generation 0, which stands for "no frontier".
Frontier == [bytes : Nat, seq : Nat, gen : Nat, ack : Nat, digest : Seq(Record)]
NoFrontier == [bytes |-> 0, seq |-> 0, gen |-> 0, ack |-> 0, digest |-> <<>>]

Phases == {"running", "killed", "reopened", "restored", "installed",
           "resumed", "completed", "rejected", "cleaned"}

ClosedPort == [open |-> FALSE, bytes |-> 0, committed |-> 0, seq |-> 0,
               frontier |-> NoFrontier, custody |-> FALSE,
               poisoned |-> FALSE, cleaned |-> FALSE]
NoSession == [live |-> FALSE, prefix |-> <<>>, lastSeq |-> 0, lastGen |-> 0,
              poisoned |-> FALSE, cleaned |-> FALSE]

Port == [open : BOOLEAN, bytes : Nat, committed : Nat, seq : Nat,
         frontier : Frontier, custody : BOOLEAN, poisoned : BOOLEAN,
         cleaned : BOOLEAN]
Session == [live : BOOLEAN, prefix : Seq(Record), lastSeq : Nat, lastGen : Nat,
            poisoned : BOOLEAN, cleaned : BOOLEAN]

TypeOK ==
    /\ dir \in {"present", "removed"}
    /\ data \in Seq(Cell)
    /\ commit \in [bytes : Nat, seq : Nat]
    /\ frontier \in Frontier
    /\ port \in [Handles -> Port]
    /\ session \in [Handles -> Session]
    /\ current \in Handles
    /\ checkpoint \in Frontier
    /\ poisoned \in BOOLEAN
    /\ phase \in Phases

-----------------------------------------------------------------------------
(* Helpers *)

\* pwrite of one cell at an offset: the file grows if it has to, and whatever
\* lies between its old end and the offset reads as zeros.
WriteAt(file, offset, cell) ==
    [i \in 1 .. (IF offset < Len(file) THEN Len(file) ELSE offset + 1) |->
        IF i = offset + 1 THEN cell
        ELSE IF i <= Len(file) THEN file[i]
        ELSE [ordinal |-> 0, payload |-> Hole]]

\* A port or a session that can still be used.
PortUsable(h) == port[h].open /\ ~port[h].poisoned /\ ~port[h].cleaned
SessionUsable(h) == session[h].live /\ ~session[h].poisoned /\ ~session[h].cleaned

\* ng1_session_coordinator::ensure_open.
EnsureOpen == ~poisoned /\ SessionUsable(current)

\* decode_framed_record and prefix_state::append over the whole file: every cell
\* is a whole record and the ordinals count up from 0.
Decodes(file) ==
    \A i \in 1 .. Len(file) : file[i].payload \in Payloads /\ file[i].ordinal = i - 1

\* staging_session::recover: read_all sees the size the port expects, and the
\* bytes decode to a prefix.
Recoverable(h) ==
    /\ SessionUsable(h) /\ PortUsable(h)
    /\ Len(data) = port[h].bytes
    /\ Decodes(data)

\* read_resume_frontier refuses a frontier ahead of the commit or of the file.
FrontierReadable ==
    /\ commit.bytes <= Len(data)
    /\ frontier.seq <= commit.seq
    /\ frontier.bytes <= commit.bytes

\* validate_persisted_frontier: the file holds exactly this receipt and generation.
PersistedFrontierIs(h, f) ==
    /\ SessionUsable(h) /\ PortUsable(h)
    /\ FrontierReadable
    /\ f.gen # 0
    /\ frontier = f

\* observe_host_fsync on a prefix.
Receipt(prefix, ack, seq, gen) ==
    [bytes |-> Len(prefix), seq |-> seq, gen |-> gen, ack |-> ack, digest |-> prefix]

\* Seeded fault: a failed effect poisons the port only.
PoisonAll_PortOnly ==
    /\ port' = [port EXCEPT ![current].poisoned = TRUE]
    /\ UNCHANGED <<session, poisoned>>

\* An effect of the current port failed: the port and its session are poisoned,
\* and so is the coordinator.
PoisonAll ==
    /\ port' = [port EXCEPT ![current].poisoned = TRUE]
    /\ session' = [session EXCEPT ![current].poisoned = TRUE]
    /\ poisoned' = TRUE

-----------------------------------------------------------------------------
(* The running worker: append_spill and fsync_spill *)

\* create_new() and staging_session::create: an empty data file, commit (0, 0).
Init ==
    /\ dir = "present"
    /\ data = <<>>
    /\ commit = [bytes |-> 0, seq |-> 0]
    /\ frontier = NoFrontier
    /\ port = [h \in Handles |->
                 IF h = "original"
                 THEN [ClosedPort EXCEPT !.open = TRUE, !.custody = TRUE]
                 ELSE ClosedPort]
    /\ session = [h \in Handles |->
                    IF h = "original" THEN [NoSession EXCEPT !.live = TRUE] ELSE NoSession]
    /\ current = "original"
    /\ checkpoint = NoFrontier
    /\ poisoned = FALSE
    /\ phase = "running"

\* Seeded fault: the spill also takes records while the replacement is installed.
SpillOpen_WhenInstalled == phase \in {"running", "installed"} /\ EnsureOpen

\* is_running(recovery_.state()) on an open session.  That no record follows the
\* terminal progress sample is Ng1Runtime's: here one may.
SpillOpen == phase = "running" /\ EnsureOpen

\* prefix_state::append admits the next record only: ordinal and sequence are the
\* length of the prefix, and the record quota is not used up.
Admits(prefix, sequence) == Len(prefix) < MaxRecords /\ sequence = Len(prefix)

\* append_spill of an admissible record that reaches the file whole.
AppendRecord(sequence, payload) ==
    LET record == [ordinal |-> sequence, payload |-> payload]
    IN  /\ SpillOpen
        /\ PortUsable(current)
        /\ Admits(session[current].prefix, sequence)
        /\ data' = WriteAt(data, port[current].bytes, record)
        /\ port' = [port EXCEPT ![current].bytes = @ + 1]
        /\ session' = [session EXCEPT ![current].prefix = Append(@, record)]
        /\ UNCHANGED <<dir, commit, frontier, current, checkpoint, poisoned, phase>>

\* append_spill of an admissible record whose write fails, before or after a part
\* of it reached the file.
AppendFails(sequence, payload) ==
    /\ SpillOpen
    /\ PortUsable(current)
    /\ Admits(session[current].prefix, sequence)
    /\ data' \in {data, WriteAt(data, port[current].bytes,
                                [ordinal |-> sequence, payload |-> Torn])}
    /\ PoisonAll
    /\ UNCHANGED <<dir, commit, frontier, current, checkpoint, phase>>

\* append_spill of a record the prefix refuses: nothing is written, the staging
\* session stays usable, the coordinator is poisoned.
AppendRefused(sequence) ==
    /\ SpillOpen
    /\ ~Admits(session[current].prefix, sequence)
    /\ poisoned' = TRUE
    /\ UNCHANGED <<files, port, session, current, checkpoint, phase>>

\* The argument checks of staging_session::fsync: a new generation, and an
\* acknowledged sequence inside the prefix.
AdmitsFsync(s, ack, gen) ==
    /\ gen # 0 /\ gen > s.lastGen
    /\ ack < Len(s.prefix)

\* The commit and the frontier that staging_session::fsync is about to publish.
NextCommit == [bytes |-> port[current].bytes, seq |-> port[current].seq + 1]
NextFrontier(ack, gen) ==
    Receipt(session[current].prefix, ack, port[current].seq + 1, gen)

\* persist_resume_frontier publishes only a receipt that names the current commit
\* and a generation and fsync sequence beyond the last ones.
AdmitsFrontier(f) ==
    /\ f.bytes = NextCommit.bytes
    /\ f.gen > port[current].frontier.gen
    /\ f.seq > port[current].frontier.seq

\* Seeded fault: a published generation is not remembered.
FsyncSpill_ForgetsGeneration(ack, gen) ==
    LET f == NextFrontier(ack, gen)
    IN  /\ SpillOpen
        /\ PortUsable(current)
        /\ AdmitsFsync(session[current], ack, gen)
        /\ AdmitsFrontier(f)
        /\ commit' = NextCommit
        /\ frontier' = f
        /\ port' = [port EXCEPT ![current].committed = NextCommit.bytes,
                                ![current].seq = NextCommit.seq]
        /\ session' = [session EXCEPT ![current].lastSeq = NextCommit.seq]
        /\ checkpoint' = f
        /\ UNCHANGED <<dir, data, current, poisoned, phase>>

\* fsync_spill: fsync of the data, atomic commit, receipt, atomic frontier.
FsyncSpill(ack, gen) ==
    LET f == NextFrontier(ack, gen)
    IN  /\ SpillOpen
        /\ PortUsable(current)
        /\ AdmitsFsync(session[current], ack, gen)
        /\ AdmitsFrontier(f)
        /\ commit' = NextCommit
        /\ frontier' = f
        /\ port' = [port EXCEPT ![current].committed = NextCommit.bytes,
                                ![current].seq = NextCommit.seq,
                                ![current].frontier = f]
        /\ session' = [session EXCEPT ![current].lastSeq = NextCommit.seq,
                                      ![current].lastGen = gen]
        /\ checkpoint' = f
        /\ UNCHANGED <<dir, data, current, poisoned, phase>>

\* Seeded fault: the frontier is published before the commit.
FsyncFails_FrontierFirst(ack, gen) ==
    /\ SpillOpen
    /\ PortUsable(current)
    /\ AdmitsFsync(session[current], ack, gen)
    /\ \/ UNCHANGED <<commit, frontier>>
       \/ frontier' = NextFrontier(ack, gen) /\ commit' \in {commit, NextCommit}
    /\ PoisonAll
    /\ UNCHANGED <<dir, data, current, checkpoint, phase>>

\* fsync_spill with an effect that fails: nothing is published, or the commit
\* alone, or the commit and the frontier.
FsyncFails(ack, gen) ==
    /\ SpillOpen
    /\ PortUsable(current)
    /\ AdmitsFsync(session[current], ack, gen)
    /\ \/ UNCHANGED <<commit, frontier>>
       \/ commit' = NextCommit /\ frontier' \in {frontier, NextFrontier(ack, gen)}
    /\ PoisonAll
    /\ UNCHANGED <<dir, data, current, checkpoint, phase>>

\* fsync_spill whose arguments are refused: the coordinator is poisoned.
FsyncRefused(ack, gen) ==
    /\ SpillOpen
    /\ ~AdmitsFsync(session[current], ack, gen)
    /\ poisoned' = TRUE
    /\ UNCHANGED <<files, port, session, current, checkpoint, phase>>

\* The worker is terminated after a liveness failure: recovery state worker_killed,
\* from which neither append_spill nor fsync_spill is accepted.
WorkerKilled ==
    /\ phase = "running" /\ EnsureOpen
    /\ phase' = "killed"
    /\ UNCHANGED <<files, port, session, current, checkpoint, poisoned>>

-----------------------------------------------------------------------------
(* The restart: reopen, restore_from_fsync_receipt, replace_spill_for_resume *)

\* The restart is only tried on an open session with a published checkpoint.
RestartPossible == EnsureOpen /\ checkpoint.gen # 0

\* open_existing accepts the files.
Reopenable == PortUsable(current) /\ FrontierReadable

\* reopen() and staging_session::create: the unpublished tail is cut off, the
\* commit is rewritten to the published frontier, and a second port without
\* cleanup custody looks at the same files.
Reopen ==
    /\ phase = "killed" /\ RestartPossible
    /\ Reopenable
    /\ data' = SubSeq(data, 1, frontier.bytes)
    /\ commit' = [bytes |-> frontier.bytes, seq |-> frontier.seq]
    /\ port' = [port EXCEPT !["replacement"] =
                  [ClosedPort EXCEPT !.open = TRUE, !.bytes = frontier.bytes,
                                     !.committed = frontier.bytes, !.seq = frontier.seq,
                                     !.frontier = frontier]]
    /\ session' = [session EXCEPT !["replacement"] = [NoSession EXCEPT !.live = TRUE]]
    /\ phase' = "reopened"
    /\ UNCHANGED <<dir, frontier, current, checkpoint, poisoned>>

\* terminal_failure and reject_output: the coordinator is poisoned.
RejectTo(next) == poisoned' = TRUE /\ phase' = next

\* reopen() gives up: before any effect, after cutting the tail, or after the
\* commit was rewritten as well.
ReopenFails ==
    /\ phase = "killed" /\ RestartPossible
    /\ \/ UNCHANGED <<data, commit>>
       \/ /\ Reopenable
          /\ data' = SubSeq(data, 1, frontier.bytes)
          /\ commit' \in {commit, [bytes |-> frontier.bytes, seq |-> frontier.seq]}
    /\ RejectTo("rejected")
    /\ UNCHANGED <<dir, frontier, port, session, current, checkpoint>>

\* restore_from_fsync_receipt on the fresh replacement.
Restore ==
    /\ phase = "reopened" /\ EnsureOpen
    /\ session["replacement"].prefix = <<>> /\ session["replacement"].lastSeq = 0
    /\ Recoverable("replacement")
    /\ checkpoint.ack < Len(data)
    /\ Receipt(data, checkpoint.ack, checkpoint.seq, checkpoint.gen) = checkpoint
    /\ PersistedFrontierIs("replacement", checkpoint)
    /\ session' = [session EXCEPT !["replacement"].prefix = data,
                                  !["replacement"].lastSeq = checkpoint.seq,
                                  !["replacement"].lastGen = checkpoint.gen]
    /\ phase' = "restored"
    /\ UNCHANGED <<files, port, current, checkpoint, poisoned>>

\* What replace_spill_for_resume and handoff_cleanup_custody_to compare before
\* custody moves: both sessions are the checkpoint, and the files still are.
HandoffAgrees ==
    /\ Len(session["original"].prefix) = checkpoint.bytes
    /\ Len(session["replacement"].prefix) = checkpoint.bytes
    /\ PersistedFrontierIs("original", checkpoint)
    /\ PersistedFrontierIs("replacement", checkpoint)
    /\ Recoverable("replacement")
    /\ data = checkpoint.digest
    /\ session["original"].lastSeq = session["replacement"].lastSeq
    /\ session["original"].lastGen = session["replacement"].lastGen
    /\ session["original"].prefix = session["replacement"].prefix
    /\ port["original"].custody /\ ~port["replacement"].custody

\* Seeded fault: the original keeps the custody it hands over.
RetireOriginal_KeepsCustody(retired) ==
    /\ port' = [port EXCEPT !["original"].open = FALSE,
                            !["original"].cleaned = TRUE,
                            !["original"].poisoned = ~retired,
                            !["replacement"].custody = TRUE]
    /\ session' = [session EXCEPT !["original"].live = FALSE,
                                  !["original"].cleaned = TRUE,
                                  !["original"].poisoned = ~retired]

\* The original is closed without unlinking: its custody is gone.
RetireOriginal(retired) ==
    /\ port' = [port EXCEPT !["original"].custody = FALSE,
                            !["original"].open = FALSE,
                            !["original"].cleaned = TRUE,
                            !["original"].poisoned = ~retired,
                            !["replacement"].custody = TRUE]
    /\ session' = [session EXCEPT !["original"].live = FALSE,
                                  !["original"].cleaned = TRUE,
                                  !["original"].poisoned = ~retired]

\* replace_spill_for_resume: custody moves, the original is retired and the
\* replacement is move-assigned into the coordinator.
Replace ==
    /\ phase = "restored" /\ EnsureOpen
    /\ HandoffAgrees
    /\ RetireOriginal(TRUE)
    /\ current' = "replacement"
    /\ phase' = "installed"
    /\ UNCHANGED <<files, checkpoint, poisoned>>

\* Custody moved but closing the original failed: the replacement stays with the
\* caller, which has to clean it up.
RetireFails ==
    /\ phase = "restored" /\ EnsureOpen
    /\ HandoffAgrees
    /\ RetireOriginal(FALSE)
    /\ phase' = "reopened"
    /\ poisoned' = TRUE
    /\ UNCHANGED <<files, current, checkpoint>>

\* port::cleanup: close, and unlink and rmdir if this port has the custody.  An
\* effect may fail; the directory is then left behind, or gone all the same.
ClosePort(h, failed) ==
    /\ port' = [port EXCEPT ![h].open = FALSE, ![h].cleaned = TRUE,
                            ![h].poisoned = @ \/ failed]
    /\ session' = [session EXCEPT ![h].live = FALSE, ![h].cleaned = TRUE,
                                  ![h].poisoned = @ \/ failed]
    /\ dir' \in IF ~port[h].custody THEN {dir}
                ELSE IF failed THEN {"removed", dir}
                ELSE {"removed"}

\* Seeded fault: a failed restart leaves its replacement to the destructor.
RestartFails_NoCleanup ==
    /\ phase \in {"reopened", "restored"}
    /\ RejectTo("rejected")
    /\ UNCHANGED <<files, port, session, current, checkpoint>>

\* The restart fails while the caller still owns the replacement: it is cleaned up
\* before its destructor runs, and the coordinator is rejected.
RestartFails ==
    /\ phase \in {"reopened", "restored"}
    /\ \E failed \in BOOLEAN : ClosePort("replacement", failed)
    /\ RejectTo("rejected")
    /\ UNCHANGED <<data, commit, frontier, current, checkpoint>>

\* accept_durable_resume: the installed spill is recovered once more and must be
\* the latest receipt.
AcceptResume ==
    /\ phase = "installed" /\ EnsureOpen
    /\ Recoverable(current)
    /\ checkpoint.digest = data /\ checkpoint.bytes = Len(data)
    /\ PersistedFrontierIs(current, checkpoint)
    /\ phase' = "resumed"
    /\ UNCHANGED <<files, port, session, current, checkpoint, poisoned>>

-----------------------------------------------------------------------------
(* The end *)

\* seal_output from the running or the resumed worker.
Seal ==
    /\ phase \in {"running", "resumed"} /\ EnsureOpen
    /\ phase' = "completed"
    /\ UNCHANGED <<files, port, session, current, checkpoint, poisoned>>

\* terminal_failure in any other place.
Reject ==
    /\ phase \in {"running", "killed", "installed", "resumed"}
    /\ RejectTo("rejected")
    /\ UNCHANGED <<files, port, session, current, checkpoint>>

\* Seeded fault: a rejected session is not cleaned up.
Cleanup_CompletedOnly ==
    /\ phase = "completed"
    /\ ~session[current].cleaned
    /\ \E failed \in BOOLEAN : ClosePort(current, failed) /\ poisoned' = (poisoned \/ failed)
    /\ phase' = "cleaned"
    /\ UNCHANGED <<data, commit, frontier, current, checkpoint>>

\* coordinator::cleanup, skipped when the spill is already cleaned.
Cleanup ==
    /\ phase \in {"completed", "rejected"}
    /\ \/ /\ session[current].cleaned
          /\ UNCHANGED <<dir, port, session, poisoned>>
       \/ /\ ~session[current].cleaned
          /\ \E failed \in BOOLEAN :
                ClosePort(current, failed) /\ poisoned' = (poisoned \/ failed)
    /\ phase' = "cleaned"
    /\ UNCHANGED <<data, commit, frontier, current, checkpoint>>

-----------------------------------------------------------------------------
(* Specification *)

Sequences0 == 0 .. MaxRecords
Generations == 0 .. MaxGeneration

SpillStep ==
    \/ \E s \in Sequences0, p \in Payloads : AppendRecord(s, p) \/ AppendFails(s, p)
    \/ \E s \in Sequences0 : AppendRefused(s)
    \/ \E a \in Sequences0, g \in Generations :
          FsyncSpill(a, g) \/ FsyncFails(a, g) \/ FsyncRefused(a, g)

RestartStep ==
    Reopen \/ ReopenFails \/ Restore \/ Replace \/ RetireFails \/ RestartFails \/ AcceptResume

HostStep == RestartStep \/ Seal \/ Reject \/ Cleanup

Next == SpillStep \/ WorkerKilled \/ HostStep

\* One thread runs execute_provider_process_ng1 to its end, and its wall deadline
\* ends a worker that does not end by itself.
Fairness == WF_vars(HostStep)

Spec == Init /\ [][Next]_vars /\ Fairness

-----------------------------------------------------------------------------
(* Properties *)

\* The published frontier can always be recovered from the files, whatever effect
\* failed and wherever the restart stopped: the data file starts with exactly the
\* records of the receipt, and the commit file is between the two.
FrontierRecoverable ==
    frontier.gen # 0 /\ dir = "present" =>
        /\ FrontierReadable
        /\ SubSeq(data, 1, frontier.bytes) = frontier.digest
        /\ frontier.ack < Len(frontier.digest)

\* The receipt the host holds is the one on disk for as long as the session may
\* still be resumed from it.
CheckpointIsPublished ==
    EnsureOpen /\ phase # "cleaned" => frontier = checkpoint

\* A resumed session stands on exactly the acknowledged prefix: no record of the
\* unpublished tail, none missing, and the retired port can write no more.
ResumedPrefixExact ==
    phase \in {"installed", "resumed"} /\ ~poisoned =>
        /\ data = checkpoint.digest
        /\ session[current].prefix = checkpoint.digest
        /\ ~port["original"].open

\* One port at a time may unlink the files, and while a staging session is alive
\* the files are there, or it is the one that just lost a removal.
SoleCustodian ==
    /\ \E h \in Handles : /\ port[h].custody
                          /\ \A o \in Handles \ {h} : ~port[o].custody
    /\ dir = "removed" => \A h \in Handles : ~session[h].live \/ ~port[h].custody

\* No staging session reaches its destructor uncleaned (it would call
\* std::terminate): once the restart is over or the run has ended, only the
\* installed session may be alive.
NoUncleanedDestructor ==
    /\ phase \in {"rejected", "completed"} =>
          \A h \in Handles \ {current} : ~session[h].live
    /\ phase = "cleaned" => \A h \in Handles : ~session[h].live

\* What is published only grows: a newer frontier has a later generation and a
\* later fsync, and keeps every record of the older one.
PublishedOnlyGrows ==
    [][frontier' # frontier =>
         /\ frontier'.gen > frontier.gen
         /\ frontier'.seq > frontier.seq
         /\ SubSeq(frontier'.digest, 1, frontier.bytes) = frontier.digest]_vars

\* Every session ends with its spill cleaned up, wherever an effect failed.
EventuallyCleaned == <>(phase = "cleaned")

=============================================================================
