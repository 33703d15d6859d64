------------------------------ MODULE ShmLeases ------------------------------
(***************************************************************************)
(* The leases on the native SHM mappings of one SQLite file family that    *)
(* this process opens more than once:                                      *)
(* sdk/sqlite_same_process_shm_mapping_lease_internal.cpp, class           *)
(* sqlite_shm_mapping_lease_state.  A writer connection maps pages one     *)
(* callback at a time, but one xShmUnmap releases its whole attachment; a  *)
(* generation is the time during which such mappings are usable, and a     *)
(* reader borrows from it.  The class has one mutex and every operation    *)
(* below runs under it; between two operations the caller is in a native   *)
(* callback, or waiting, and any other thread may run.                     *)
(*                                                                         *)
(* Tokens are merged with what they stand for: a map attempt m is a        *)
(* writer_record while it is in a WriterPhase and the holder_record it was *)
(* promoted to while it is in a HolderPhase.  Identities, receipts and     *)
(* nonces that a correct caller always presents are left out.              *)
(***************************************************************************)
EXTENDS Integers, FiniteSets, Sequences

CONSTANTS
    Maps,          \* writer xShmMap attempts; each is made once
    Attachments,   \* writer sqlite3_files: one open epoch each, never reused
    Threads,       \* threads that run the callbacks
    Pages,         \* SHM page numbers, 0 .. n
    Opens,         \* reader sqlite3_files
    Sessions,      \* reader use sessions; each is used once
    MaxGeneration, \* bound: generations minted in one behaviour
    None

ASSUME PagesAssumption == Pages \subseteq Nat /\ IsFiniteSet(Pages)
ASSUME OpensAssumption == IsFiniteSet(Opens)
ASSUME BoundAssumption == MaxGeneration \in Nat
\* An attempt and a session are different tokens.
ASSUME KindsAssumption == Maps \cap Sessions = {}
ASSUME NoneAssumption ==
    None \notin Maps /\ None \notin Attachments /\ None \notin Threads /\ None \notin Opens

VARIABLES
    maps,         \* writers_ and holders_, one record per attempt
    atts,         \* writer_attachments_
    elig,         \* eligibilities_: the Store gate's verdict on a connection
    gen,          \* generation_; value 0 when absent
    minted,       \* the last generation number the shared mint gave out
    installing,   \* installing_epoch_authority_: the attempt that may install
    sessions,     \* reader_sessions_, with the map attempt each has in flight
    groups,       \* reader_attachment_groups_, at most one unresolved per open
    shmSize,      \* pages of the native SHM file
    quarantined   \* quarantined_: sticky, refuses every later admission

vars == <<maps, atts, elig, gen, minted, installing, sessions, groups, shmSize, quarantined>>
readerVars == <<sessions, groups>>

WriterPhase == {"inflight", "post_native", "pending", "writer_sealed"}
HolderPhase == {"active", "holder_sealed"}
MapPhase == {"unused", "failed", "cleaned", "terminal"} \cup WriterPhase \cup HolderPhase
AttPhase == {"collecting", "nonlast_admitted", "last_waiting", "last_admitted",
             "retired", "terminal"}
CleaningPhase == {"nonlast_admitted", "last_waiting", "last_admitted"}
GatePhase == {"unsealed", "sealing", "active"}
GenPhase == {"live", "retiring", "retired", "quarantined"}
GroupPhase == {"none", "reserved", "active", "sealing", "admitted", "terminal"}
SessionPhase == {"unused", "reserved", "owner", "done", "terminal"}
ProjectionPhase == {"none", "reserved", "permit"}

NoGen == [value |-> 0, phase |-> "retired", pages |-> {}, size |-> 0,
          authorities |-> {}, handoffs |-> 0]
NoMap == [phase |-> "unused", att |-> None, thread |-> None, page |-> None, size |-> 0,
          gated |-> FALSE, gen |-> 0, installer |-> None]
NoReaderMap == [page |-> None, size |-> 0, count |-> 0, blocker |-> FALSE,
                projection |-> "none", holder |-> None]
NoSession == [phase |-> "unused", open |-> None, thread |-> None, gen |-> 0,
              map |-> NoReaderMap]
NoGroup == [phase |-> "none", gen |-> 0, pages |-> {}, projected |-> FALSE, thread |-> None]

GenPresent == gen.value # 0
Generations == 0 .. MaxGeneration
Sizes == 0 .. Cardinality(Pages)

TypeOK ==
    /\ maps \in [Maps -> [phase : MapPhase, att : Attachments \cup {None},
                          thread : Threads \cup {None}, page : Pages \cup {None},
                          size : Nat, gated : BOOLEAN, gen : Nat,
                          installer : Maps \cup {None}]]
    /\ atts \in [Attachments -> [phase : AttPhase, gate : GatePhase,
                                 members : Seq(Maps), cleanupThread : Threads \cup {None}]]
    /\ elig \in [Attachments -> {"none", "live", "revoked"}]
    /\ gen \in [value : Nat, phase : GenPhase, pages : SUBSET Pages, size : Nat,
                authorities : SUBSET Maps, handoffs : 0 .. Cardinality(Opens)]
    /\ minted \in Nat
    /\ installing \in Maps \cup {None}
    /\ sessions \in [Sessions -> [phase : SessionPhase, open : Opens \cup {None},
                                  thread : Threads \cup {None}, gen : Nat,
                                  map : [page : Pages \cup {None}, size : Nat, count : Nat,
                                         blocker : BOOLEAN, projection : ProjectionPhase,
                                         holder : Maps \cup {None}]]]
    /\ groups \in [Opens -> [phase : GroupPhase, gen : Nat, pages : SUBSET Pages,
                             projected : BOOLEAN, thread : Threads \cup {None}]]
    /\ shmSize \in Nat
    /\ quarantined \in BOOLEAN

Init ==
    /\ maps = [m \in Maps |-> NoMap]
    /\ atts = [a \in Attachments |-> [phase |-> "collecting", gate |-> "unsealed",
                                      members |-> <<>>, cleanupThread |-> None]]
    /\ elig = [a \in Attachments |-> "none"]
    /\ gen = NoGen
    /\ minted = 0
    /\ installing = None
    /\ sessions = [s \in Sessions |-> NoSession]
    /\ groups = [o \in Opens |-> NoGroup]
    /\ shmSize = 0
    /\ quarantined = FALSE

-----------------------------------------------------------------------------
(* What the operations look up. *)

Members(a) == {atts[a].members[i] : i \in 1 .. Len(atts[a].members)}
MembersIn(a, phases) == {m \in Members(a) : maps[m].phase \in phases}

\* derive_complete_attachment_prefix_locked: a cleanup group is complete and
\* exact, or there is none.  A member whose owner was dropped spoils it.
Complete(a) ==
    /\ atts[a].phase = "collecting"
    /\ atts[a].members # <<>>
    /\ \A m \in Members(a) :
         \/ maps[m].phase \in {"inflight", "post_native", "pending"}
         \/ maps[m].phase = "active" /\ GenPresent /\ maps[m].gen = gen.value

HasActiveHolder(a) == MembersIn(a, {"active"}) # {}

\* live_attachment_group_count_locked, as the set it counts.
OtherLiveGroups_Collecting(a) ==
    {b \in Attachments \ {a} : atts[b].phase = "collecting" /\ HasActiveHolder(b)}
OtherLiveGroups(a) ==
    {b \in Attachments \ {a} :
        \/ atts[b].phase = "collecting" /\ HasActiveHolder(b)
        \/ atts[b].phase \in {"last_waiting", "last_admitted"}}

\* A thread runs one native callback at a time.  callback_can_start_locked would also
\* admit a nested one of a greater reentrancy depth, which is left out.
ReaderMapInFlight(s) == sessions[s].phase \in {"reserved", "owner"} /\ sessions[s].map.page # None
Idle(t) ==
    /\ \A m \in Maps : maps[m].thread = t => maps[m].phase \notin {"inflight", "post_native"}
    /\ \A a \in Attachments : atts[a].cleanupThread = t => atts[a].phase \notin CleaningPhase
    /\ \A s \in Sessions : sessions[s].thread = t => ~ReaderMapInFlight(s)
    /\ \A o \in Opens : groups[o].thread = t => groups[o].phase \notin {"sealing", "admitted"}

\* quarantine_locked
QuarantineGen(g) == IF g.value = 0 THEN g ELSE [g EXCEPT !.phase = "quarantined"]
Quarantine == quarantined' = TRUE /\ gen' = QuarantineGen(gen)

\* retirement_decision_for_prefix_locked, for the sealed prefix of a.
BlockingMaps(a) ==
    {m \in Maps : maps[m].att # a /\ maps[m].phase \in {"inflight", "post_native", "pending"}}
BlockingAttachments(a) == {b \in Attachments \ {a} : atts[b].phase \in CleaningPhase}
BlockingReaderMaps ==
    {s \in Sessions : ReaderMapInFlight(s)
                      /\ (sessions[s].map.blocker \/ sessions[s].map.projection # "none")}
ReservedSessions == {s \in Sessions : sessions[s].phase = "reserved"}
Blocked_NotByReserved(a) ==
    BlockingMaps(a) # {} \/ BlockingAttachments(a) # {} \/ BlockingReaderMaps # {}
Blocked(a) ==
    \/ BlockingMaps(a) # {} \/ BlockingAttachments(a) # {}
    \/ BlockingReaderMaps # {} \/ ReservedSessions # {}
RetirementDecision(a, t) ==
    IF \/ \E m \in BlockingMaps(a) : maps[m].thread = t
       \/ \E b \in BlockingAttachments(a) : atts[b].cleanupThread = t
       \/ \E s \in BlockingReaderMaps : sessions[s].thread = t
    THEN "same_thread"
    ELSE IF Blocked(a) THEN "wait" ELSE "ready"

-----------------------------------------------------------------------------
(* Eligibility: the Store gate's verdict, one per connection (a bound). *)

InstallEligibility(a) ==
    /\ ~quarantined /\ elig[a] = "none"
    /\ elig' = [elig EXCEPT ![a] = "live"]
    /\ UNCHANGED <<maps, atts, gen, minted, installing, readerVars, shmSize, quarantined>>

RevokeEligibility(a) ==
    /\ elig[a] = "live"
    /\ elig' = [elig EXCEPT ![a] = "revoked"]
    /\ UNCHANGED <<maps, atts, gen, minted, installing, readerVars, shmSize, quarantined>>

-----------------------------------------------------------------------------
(* A writer maps a page. *)

\* begin_writer: the attempt joins its attachment and reserves a place in the
\* generation, or in the installation of the first one.
BeginWriter(m, a, t, p) ==
    /\ ~quarantined /\ Idle(t)
    /\ maps[m].phase = "unused" /\ atts[a].phase = "collecting"
    /\ \/ atts[a].gate = "unsealed"
       \/ atts[a].gate = "active" /\ elig[a] = "live"
    /\ GenPresent => gen.phase = "live"
    /\ LET installer == IF GenPresent THEN None ELSE IF installing = None THEN m ELSE installing
       IN /\ maps' = [maps EXCEPT ![m] =
                [phase |-> "inflight", att |-> a, thread |-> t, page |-> p, size |-> 0,
                 gated |-> atts[a].gate = "active", gen |-> gen.value, installer |-> installer]]
          /\ installing' = IF GenPresent THEN installing ELSE installer
    /\ atts' = [atts EXCEPT ![a].members = Append(@, m)]
    /\ UNCHANGED <<elig, gen, minted, readerVars, shmSize, quarantined>>

\* record_native_mapping: xShmMap with extend 1 grew the file if it had to.
RecordNativeMapping(m) ==
    /\ maps[m].phase = "inflight"
    /\ shmSize' = IF maps[m].page < shmSize THEN shmSize ELSE maps[m].page + 1
    /\ maps' = [maps EXCEPT ![m].phase = "post_native", ![m].size = shmSize']
    /\ UNCHANGED <<atts, elig, gen, minted, installing, readerVars, quarantined>>

\* The sequence s, in which m is once, without it.
Without(s, m) ==
    LET k == CHOOSE i \in 1 .. Len(s) : s[i] = m
    IN [i \in 1 .. Len(s) - 1 |-> IF i < k THEN s[i] ELSE s[i + 1]]

\* resolve_writer_failure: the native call mapped nothing.
WriterMapFails(m) ==
    /\ maps[m].phase = "inflight"
    /\ maps' = [maps EXCEPT ![m] = [NoMap EXCEPT !.phase = "failed"]]
    /\ atts' = [atts EXCEPT ![maps[m].att].members = Without(@, m)]
    /\ installing' = IF installing = m THEN None ELSE installing
    /\ UNCHANGED <<elig, gen, minted, readerVars, shmSize, quarantined>>

\* install_registry_pending: a mapping that must wait for the Store gate.
InstallPending(m) ==
    /\ maps[m].phase = "post_native" /\ ~maps[m].gated /\ ~quarantined
    /\ maps' = [maps EXCEPT ![m].phase = "pending"]
    /\ UNCHANGED <<atts, elig, gen, minted, installing, readerVars, shmSize, quarantined>>

\* join_mapping for the members ms in their order: a page the generation has
\* must have the size the generation has then, a new page may only grow it.
Joins(ms, pages, size) ==
    \A i \in 1 .. Len(ms) :
        LET Size(k) == maps[ms[k]].size
            earlier == 1 .. i - 1
        IN /\ Size(i) >= size /\ \A j \in earlier : Size(i) >= Size(j)
           /\ maps[ms[i]].page \in pages \cup {maps[ms[j]].page : j \in earlier}
                => Size(i) \in {size} \cup {Size(j) : j \in earlier}

\* The reservation each attempt took in BeginWriter still stands.
Reserved(ms) ==
    IF GenPresent
    THEN gen.phase = "live" /\ \A i \in 1 .. Len(ms) : maps[ms[i]].gen = gen.value
    ELSE /\ installing # None
         /\ \A i \in 1 .. Len(ms) :
              maps[ms[i]].gen = 0 /\ maps[ms[i]].installer = installing

\* holder_record: what is left of a writer_record once it is promoted.
Holder(m, value) ==
    [NoMap EXCEPT !.phase = "active", !.att = maps[m].att, !.page = maps[m].page,
                  !.gen = value]

\* The tail of promote_registry_writer_attachment_group and of
\* complete_gate_winning_...: mint a generation or join it, writers to holders.
Promote(ms) ==
    LET added == {ms[i] : i \in 1 .. Len(ms)}
        value == IF GenPresent THEN gen.value ELSE minted + 1
    IN /\ Reserved(ms)
       /\ Joins(ms, gen.pages, gen.size)
       /\ GenPresent \/ minted < MaxGeneration
       /\ minted' = IF GenPresent THEN minted ELSE value
       /\ installing' = IF GenPresent THEN installing ELSE None
       /\ gen' = [value |-> value, phase |-> "live",
                  pages |-> gen.pages \cup {maps[m].page : m \in added},
                  size |-> maps[ms[Len(ms)]].size,
                  authorities |-> gen.authorities \cup added, handoffs |-> gen.handoffs]
       /\ maps' = [m \in Maps |-> IF m \in added THEN Holder(m, value) ELSE maps[m]]

\* The members the gate decides on: all that began before it.
GateMembers_Pending(a) == SelectSeq(atts[a].members, LAMBDA m : maps[m].phase = "pending")
GateMembers(a) == atts[a].members
Promotable(ms) ==
    /\ \A i \in 1 .. Len(ms) : maps[ms[i]].phase = "pending" /\ ~maps[ms[i]].gated
    /\ Reserved(ms) /\ Joins(ms, gen.pages, gen.size)

\* advance_positive_registry_writer_attachment_gate: seal the gate; while a
\* member is in its native call only that; then promote all of them or none.  The mutex
\* is let go between the two, which are one step here.
AdvanceGate(a) ==
    LET ms == GateMembers(a)
        inCallback == \E i \in 1 .. Len(ms) : maps[ms[i]].phase \in {"inflight", "post_native"}
    IN /\ ~quarantined /\ elig[a] = "live"
       /\ atts[a].phase = "collecting" /\ atts[a].gate # "active"
       /\ IF inCallback \/ (ms # <<>> /\ ~Promotable(ms))
          THEN /\ atts[a].gate = "unsealed"
               /\ atts' = [atts EXCEPT ![a].gate = "sealing"]
               /\ UNCHANGED <<maps, gen, minted, installing>>
          ELSE /\ atts' = [atts EXCEPT ![a].gate = "active"]
               /\ IF ms = <<>> THEN UNCHANGED <<maps, gen, minted, installing>> ELSE Promote(ms)
       /\ UNCHANGED <<elig, readerVars, shmSize, quarantined>>

\* complete_gate_winning_registry_writer_map_before_callback_return: the gate
\* was positive before the map, which is promoted inside its own callback.
CompleteGateWinning(m) ==
    LET a == maps[m].att IN
    /\ ~quarantined
    /\ maps[m].phase = "post_native" /\ maps[m].gated
    /\ atts[a].phase = "collecting" /\ atts[a].gate = "active" /\ elig[a] = "live"
    /\ ~GenPresent => installing = m
    /\ Promote(<<m>>)
    /\ UNCHANGED <<atts, elig, readerVars, shmSize, quarantined>>

-----------------------------------------------------------------------------
(* A writer's attachment is cleaned up as a whole. *)

ProjectionPending_Permits(a) ==
    \E s \in Sessions : ReaderMapInFlight(s) /\ sessions[s].map.projection = "permit"
                        /\ sessions[s].map.holder \in Members(a)
ProjectionPending(a) ==
    \E s \in Sessions : ReaderMapInFlight(s) /\ sessions[s].map.projection # "none"
                        /\ sessions[s].map.holder \in Members(a)

\* target_pages_have_exact_redundant_support_locked
Redundant_AnyPage(a) ==
    \A m \in MembersIn(a, {"active"}) :
        \E n \in Maps : maps[n].phase = "active" /\ maps[n].att # a /\ n \in gen.authorities
Redundant(a) ==
    \A m \in MembersIn(a, {"active"}) :
        \E n \in Maps : /\ maps[n].phase = "active" /\ maps[n].att # a
                        /\ maps[n].page = maps[m].page
                        /\ atts[maps[n].att].phase = "collecting"
                        /\ n \in gen.authorities

SealDecision(a, t) ==
    IF ~ProjectionPending(a) /\ (OtherLiveGroups(a) # {} \/ ~GenPresent)
    THEN "not_last" ELSE RetirementDecision(a, t)

Sealable(a, decision, waits) ==
    /\ Complete(a) /\ MembersIn(a, {"inflight"}) = {}
    /\ MembersIn(a, {"active"}) = {} \/ MembersIn(a, {"post_native", "pending"}) = {}
    /\ {m \in gen.authorities : maps[m].att = a} = MembersIn(a, {"active"})
    /\ decision = "not_last" /\ GenPresent => Redundant(a)
    /\ decision = "wait" => waits

Sealed(m) ==
    IF maps[m].phase = "active" THEN [maps[m] EXCEPT !.phase = "holder_sealed"]
    ELSE [NoMap EXCEPT !.phase = "writer_sealed", !.att = maps[m].att]
AdmittedPhase(a, decision) ==
    IF decision = "same_thread" THEN "terminal"
    ELSE IF decision = "wait" THEN "last_waiting"
    ELSE IF OtherLiveGroups(a) # {} \/ ~GenPresent THEN "nonlast_admitted"
    ELSE "last_admitted"

\* seal_attachment_cleanup_locked as its callers use it: the group of m is
\* sealed and classified, or the anchor, the attachment and the family are lost.
Seal(m, t, waits) ==
    LET a == maps[m].att
        decision == SealDecision(a, t)
        unsupported == [gen EXCEPT !.authorities = @ \ Members(a)]
    IN IF Sealable(a, decision, waits)
       THEN /\ maps' = [n \in Maps |-> IF n \in Members(a) THEN Sealed(n) ELSE maps[n]]
            /\ atts' = [atts EXCEPT ![a].phase = AdmittedPhase(a, decision),
                                    ![a].cleanupThread = t]
            /\ quarantined' = (quarantined \/ decision = "same_thread")
            /\ gen' = IF decision = "same_thread" THEN QuarantineGen(unsupported)
                      ELSE IF GenPresent /\ OtherLiveGroups(a) = {}
                      THEN [unsupported EXCEPT !.phase = "retiring"]
                      ELSE unsupported
       ELSE /\ maps' = [maps EXCEPT ![m].phase = "terminal"]
            /\ atts' = [atts EXCEPT ![a].phase = "terminal"]
            /\ Quarantine

\* begin_writer_cleanup, of a mapping that did not become a holder: inside the
\* callback that made it, or in a later one.
BeginWriterCleanup(m, t) ==
    /\ \/ maps[m].phase = "post_native" /\ maps[m].thread = t
       \/ maps[m].phase = "pending" /\ Idle(t)
    /\ atts[maps[m].att].phase = "collecting"
    /\ Seal(m, t, FALSE)
    /\ UNCHANGED <<elig, minted, installing, readerVars, shmSize>>

\* release_holder
ReleaseHolder(m, t) ==
    /\ maps[m].phase = "active" /\ Idle(t)
    /\ maps[m].gen = gen.value /\ gen.phase \in {"live", "quarantined"}
    /\ atts[maps[m].att].phase = "collecting"
    /\ Seal(m, t, TRUE)
    /\ UNCHANGED <<elig, minted, installing, readerVars, shmSize>>

\* poll_retirement
PollRetirement(a) ==
    LET decision == RetirementDecision(a, atts[a].cleanupThread)
        stale == gen.phase \notin {"retiring", "quarantined"}
    IN /\ atts[a].phase = "last_waiting"
       /\ stale \/ decision # "wait"
       /\ atts' = [atts EXCEPT ![a].phase = IF stale \/ decision = "same_thread"
                                            THEN "terminal" ELSE "last_admitted"]
       /\ IF stale THEN Quarantine ELSE UNCHANGED <<gen, quarantined>>
       /\ UNCHANGED <<maps, elig, minted, installing, readerVars, shmSize>>

\* fail_retirement_wait: the bounded wait ran out.
FailRetirementWait(a) ==
    /\ atts[a].phase = "last_waiting"
    /\ atts' = [atts EXCEPT ![a].phase = "terminal"]
    /\ Quarantine
    /\ UNCHANGED <<maps, elig, minted, installing, readerVars, shmSize>>

\* The rechecks of complete_writer_cleanup before it commits the last cleanup.
LastCleanupExact ==
    /\ gen.phase = "retiring"
    /\ \A m \in Maps : maps[m].phase \notin {"inflight", "post_native", "pending", "active"}
    /\ \A s \in Sessions : ~(ReaderMapInFlight(s) /\ sessions[s].map.blocker)
    /\ ReservedSessions = {}

\* complete_writer_cleanup: the native xShmUnmap returned, with ok or not.
CompleteCleanup(a, ok) ==
    LET last == atts[a].phase = "last_admitted" IN
    /\ atts[a].phase \in {"nonlast_admitted", "last_admitted"}
    /\ IF ok /\ ~quarantined /\ (last => LastCleanupExact)
       THEN /\ atts' = [atts EXCEPT ![a] = [phase |-> "retired", gate |-> @.gate,
                                           members |-> <<>>, cleanupThread |-> None]]
            /\ maps' = [m \in Maps |-> IF m \in Members(a)
                                       THEN [NoMap EXCEPT !.phase = "cleaned"] ELSE maps[m]]
            /\ installing' = IF installing \in Members(a) THEN None ELSE installing
            /\ gen' = IF ~last THEN gen
                      ELSE IF gen.handoffs = 0 THEN NoGen
                      ELSE [gen EXCEPT !.phase = "retired"]
            /\ UNCHANGED quarantined
       ELSE /\ atts' = [atts EXCEPT ![a].phase = "terminal"]
            /\ Quarantine
            /\ UNCHANGED <<maps, installing>>
    /\ UNCHANGED <<elig, minted, readerVars, shmSize>>

\* abandon: a writer, holder or cleanup token is destroyed with its obligation.
AbandonWriter(m) ==
    /\ maps[m].phase \in {"inflight", "post_native", "pending", "active"}
    /\ maps' = [maps EXCEPT ![m].phase = "terminal"]
    /\ atts' = IF maps[m].phase = "inflight" THEN atts
               ELSE [atts EXCEPT ![maps[m].att].phase = "terminal"]
    /\ Quarantine
    /\ UNCHANGED <<elig, minted, installing, readerVars, shmSize>>
AbandonCleanup(a) ==
    /\ atts[a].phase \in CleaningPhase
    /\ atts' = [atts EXCEPT ![a].phase = "terminal"]
    /\ Quarantine
    /\ UNCHANGED <<maps, elig, minted, installing, readerVars, shmSize>>

-----------------------------------------------------------------------------
(* A reader borrows from the generation, one use session at a time. *)

writerVars == <<maps, atts, elig, minted, installing, shmSize>>

LiveSessions(o) == {s \in Sessions : sessions[s].open = o
                                     /\ sessions[s].phase \in {"reserved", "owner"}}

\* quarantine_reader_session_locked: the session takes its group with it.
QuarantineSession(s) ==
    /\ sessions' = [sessions EXCEPT ![s] = [NoSession EXCEPT !.phase = "terminal"]]
    /\ groups' = [groups EXCEPT ![sessions[s].open].phase = "terminal"]
    /\ Quarantine

\* A live generation with a holder: what a first session reserves a place in.
Borrowable_Draining == GenPresent /\ gen.phase \in {"live", "retiring"}
Borrowable ==
    /\ GenPresent /\ gen.phase = "live"
    /\ \E m \in Maps : maps[m].phase = "active" /\ maps[m].gen = gen.value

\* admit_registry_reader_session: into the published group of its open, or as
\* the one that will publish it.  Any other outcome leaves no session.
AdmitSession(s, o, t) ==
    /\ ~quarantined /\ Idle(t) /\ sessions[s].phase = "unused"
    /\ \/ /\ groups[o].phase = "active"
          /\ sessions' = [sessions EXCEPT ![s] =
                [phase |-> "owner", open |-> o, thread |-> t, gen |-> groups[o].gen,
                 map |-> NoReaderMap]]
          /\ UNCHANGED groups
       \/ /\ groups[o].phase = "none"
          /\ Borrowable
          /\ sessions' = [sessions EXCEPT ![s] =
                [phase |-> "reserved", open |-> o, thread |-> t, gen |-> gen.value,
                 map |-> NoReaderMap]]
          /\ groups' = [groups EXCEPT ![o] =
                [NoGroup EXCEPT !.phase = "reserved", !.gen = gen.value]]
    /\ UNCHANGED <<writerVars, gen, quarantined>>

\* A page that the group of the session has already.
Known(s, p) == sessions[s].phase = "owner" /\ p \in groups[sessions[s].open].pages

\* begin_reader: a page its group has is revalidated whatever the generation
\* does, any other page needs a live generation and blocks its retirement.
BeginReader(s, p) ==
    LET group == groups[sessions[s].open]
        known == Known(s, p)
    IN /\ ~quarantined /\ Idle(sessions[s].thread)
       /\ sessions[s].phase \in {"reserved", "owner"}
       /\ sessions[s].gen = gen.value
       /\ group.phase = IF sessions[s].phase = "owner" THEN "active" ELSE "reserved"
       /\ known \/ gen.phase = "live"
       /\ p \in gen.pages
       /\ sessions' = [sessions EXCEPT ![s].map =
             [NoReaderMap EXCEPT !.page = p, !.size = gen.size,
                                 !.count = Cardinality(gen.pages), !.blocker = ~known]]
       /\ UNCHANGED <<writerVars, gen, groups, quarantined>>

\* prepare_reader_native_ok_projection: pick the holder to borrow the page from.
PrepareProjection(s) ==
    /\ ReaderMapInFlight(s) /\ sessions[s].map.projection = "none"
    /\ gen.value = sessions[s].gen /\ gen.phase = "live"
    /\ sessions[s].map.size = gen.size
    /\ \E m \in Maps :
         /\ maps[m].phase = "active" /\ maps[m].gen = gen.value
         /\ maps[m].page = sessions[s].map.page
         /\ sessions' = [sessions EXCEPT ![s].map.projection = "reserved",
                                         ![s].map.holder = m]
    /\ UNCHANGED <<writerVars, gen, groups, quarantined>>

\* attach_reader_native_ok_projection: the source was observed without any
\* mutex since; the holder has to be active still.
AttachProjection(s) ==
    LET m == sessions[s].map.holder IN
    /\ ~quarantined /\ ReaderMapInFlight(s) /\ sessions[s].map.projection = "reserved"
    /\ maps[m].phase = "active" /\ maps[m].gen = sessions[s].gen
    /\ sessions' = [sessions EXCEPT ![s].map.projection = "permit"]
    /\ UNCHANGED <<writerVars, gen, groups, quarantined>>

\* The generation is the one the map attempt was begun in, unchanged.
SameGeneration(s) ==
    /\ gen.value = sessions[s].gen /\ gen.size = sessions[s].map.size
    /\ Cardinality(gen.pages) = sessions[s].map.count

PermitHolds(s) ==
    LET m == sessions[s].map.holder IN
    sessions[s].map.projection = "permit" =>
        \/ maps[m].phase = "active"
        \/ maps[m].phase = "holder_sealed" /\ atts[maps[m].att].phase = "last_waiting"

\* commit_reader: the native map is published in the group of its open, which
\* the first one creates, or everything the session has is quarantined.
CommitReader(s) ==
    LET session == sessions[s]
        o == session.open
        permit == session.map.projection = "permit"
        published == [sessions EXCEPT ![s].map = NoReaderMap, ![s].phase = "owner"]
        withPage == groups[o].pages \cup {session.map.page}
    IN /\ ReaderMapInFlight(s)
       /\ IF ~PermitHolds(s) \/ ~SameGeneration(s)
          THEN QuarantineSession(s)
          ELSE IF quarantined /\ session.phase = "owner"
          THEN /\ sessions' = [sessions EXCEPT ![s].map = NoReaderMap]
               /\ Quarantine
               /\ UNCHANGED groups
          ELSE IF session.phase = "owner"
          THEN IF /\ groups[o].phase = "active" /\ groups[o].projected = permit
                  /\ session.map.page \in groups[o].pages \/ gen.phase \in {"live", "retiring"}
               THEN /\ sessions' = published
                    /\ groups' = [groups EXCEPT ![o].pages = withPage]
                    /\ UNCHANGED <<gen, quarantined>>
               ELSE QuarantineSession(s)
          ELSE IF ~quarantined /\ gen.phase \in {"live", "retiring"}
          THEN /\ sessions' = published
               /\ groups' = [groups EXCEPT ![o].phase = "active", ![o].pages = withPage,
                                           ![o].projected = permit]
               /\ gen' = [gen EXCEPT !.handoffs = @ + 1]
               /\ UNCHANGED quarantined
          ELSE QuarantineSession(s)
       /\ UNCHANGED writerVars

\* complete_reader_zero_attachment: the native call attached nothing.
ZeroAttachment(s) ==
    LET o == sessions[s].open IN
    /\ ReaderMapInFlight(s)
    /\ IF \/ ~SameGeneration(s)
          \/ sessions[s].phase = "reserved" /\ gen.phase = "retired"
          \/ sessions[s].phase = "owner" /\ groups[o].phase \notin {"active", "sealing"}
       THEN QuarantineSession(s)
       ELSE /\ sessions' = [sessions EXCEPT ![s] =
                   IF sessions[s].phase = "reserved" THEN [NoSession EXCEPT !.phase = "done"]
                   ELSE [@ EXCEPT !.map = NoReaderMap]]
            /\ groups' = IF sessions[s].phase = "reserved"
                         THEN [groups EXCEPT ![o] = NoGroup] ELSE groups
            /\ UNCHANGED <<gen, quarantined>>
    /\ UNCHANGED writerVars

\* complete_reader_session, of a session with no map in flight.
CompleteSession(s) ==
    /\ sessions[s].phase \in {"reserved", "owner"} /\ ~ReaderMapInFlight(s)
    /\ groups[sessions[s].open].phase \in
          IF sessions[s].phase = "reserved" THEN {"reserved"} ELSE {"active", "sealing", "terminal"}
    /\ sessions' = [sessions EXCEPT ![s] = [NoSession EXCEPT !.phase = "done"]]
    /\ groups' = IF sessions[s].phase = "reserved"
                 THEN [groups EXCEPT ![sessions[s].open] = NoGroup] ELSE groups
    /\ UNCHANGED <<writerVars, gen, quarantined>>

\* abandon, of a session or of its map attempt.
AbandonSession(s) ==
    /\ sessions[s].phase \in {"reserved", "owner"}
    /\ QuarantineSession(s)
    /\ UNCHANGED writerVars

\* begin_reader_unmap: the cut of the group, with the sessions left in it.
BeginUnmap(o, t) ==
    /\ groups[o].phase = "active" /\ Idle(t)
    /\ LET same == \E s \in LiveSessions(o) : sessions[s].thread = t
       IN /\ groups' = [groups EXCEPT
                ![o].phase = IF LiveSessions(o) = {} THEN "admitted"
                             ELSE IF same THEN "terminal" ELSE "sealing",
                ![o].thread = t]
          /\ IF same THEN Quarantine ELSE UNCHANGED <<gen, quarantined>>
    /\ UNCHANGED <<writerVars, sessions>>

\* poll_reader_unmap_cut
PollUnmapCut(o) ==
    /\ groups[o].phase = "sealing" /\ LiveSessions(o) = {}
    /\ groups' = [groups EXCEPT ![o].phase = "admitted"]
    /\ UNCHANGED <<writerVars, gen, sessions, quarantined>>

\* fail_reader_unmap_cut_wait, abandon of a published group or of its unmap, and
\* complete_reader_unmap_exact when the native xShmUnmap was not ok.
LoseGroup(o, phases) ==
    /\ groups[o].phase \in phases
    /\ groups' = [groups EXCEPT ![o].phase = "terminal"]
    /\ Quarantine
    /\ UNCHANGED <<writerVars, sessions>>
FailUnmapWait(o) == LoseGroup(o, {"sealing"})
AbandonGroup(o) == LoseGroup(o, {"active", "sealing", "admitted"})

\* complete_reader_unmap_exact
CompleteUnmap(o) ==
    /\ groups[o].phase = "admitted"
    /\ IF groups[o].gen = gen.value /\ gen.handoffs > 0
       THEN /\ groups' = [groups EXCEPT ![o] = NoGroup]
            /\ gen' = IF gen.phase = "retired" /\ gen.handoffs = 1
                      THEN NoGen ELSE [gen EXCEPT !.handoffs = @ - 1]
            /\ UNCHANGED quarantined
       ELSE groups' = [groups EXCEPT ![o].phase = "terminal"] /\ Quarantine
    /\ UNCHANGED <<writerVars, sessions>>

-----------------------------------------------------------------------------
Writer ==
    \/ \E m \in Maps, a \in Attachments, t \in Threads, p \in Pages : BeginWriter(m, a, t, p)
    \/ \E m \in Maps, t \in Threads : BeginWriterCleanup(m, t) \/ ReleaseHolder(m, t)
    \/ \E m \in Maps : \/ RecordNativeMapping(m) \/ WriterMapFails(m) \/ InstallPending(m)
                       \/ CompleteGateWinning(m) \/ AbandonWriter(m)
    \/ \E a \in Attachments : \/ InstallEligibility(a) \/ RevokeEligibility(a) \/ AdvanceGate(a)
                              \/ PollRetirement(a) \/ FailRetirementWait(a)
                              \/ CompleteCleanup(a, TRUE) \/ CompleteCleanup(a, FALSE)
                              \/ AbandonCleanup(a)

Reader ==
    \/ \E s \in Sessions, o \in Opens, t \in Threads : AdmitSession(s, o, t)
    \/ \E s \in Sessions, p \in Pages : BeginReader(s, p)
    \/ \E s \in Sessions : \/ PrepareProjection(s) \/ AttachProjection(s) \/ CommitReader(s)
                           \/ ZeroAttachment(s) \/ CompleteSession(s) \/ AbandonSession(s)
    \/ \E o \in Opens, t \in Threads : BeginUnmap(o, t)
    \/ \E o \in Opens : PollUnmapCut(o) \/ FailUnmapWait(o) \/ AbandonGroup(o) \/ CompleteUnmap(o)

Next == Writer \/ Reader
Spec == Init /\ [][Next]_vars

-----------------------------------------------------------------------------
(* Properties.  A quarantined family promises only that nothing new starts.  *)

ActiveHolders == {m \in Maps : maps[m].phase = "active"}
Resolving(a) == BlockingMaps(a) # {} \/ BlockingReaderMaps # {} \/ ReservedSessions # {}

\* While the last attachment is inside its native xShmUnmap nobody is inside a
\* map callback that needs the mapping, reserves a place in the generation or
\* holds one: the retirement decision was taken before the callback, on a state
\* that every later operation must keep.
NoUnmapUnderUse ==
    \A a \in Attachments :
        atts[a].phase = "last_admitted" /\ ~quarantined => ~Resolving(a) /\ ActiveHolders = {}

\* The authorities of a live generation are exactly its active holders, and each
\* page it offers to readers is mapped by one of them, or by a sealed holder
\* that waits for a reader to be done with that page.
PagesSupported ==
    ~quarantined /\ gen.phase = "live" =>
        /\ gen.authorities = {m \in ActiveHolders : maps[m].gen = gen.value}
        /\ gen.pages = {maps[m].page : m \in gen.authorities
                            \cup {n \in Maps : /\ maps[n].phase = "holder_sealed"
                                               /\ atts[maps[n].att].phase = "last_waiting"}}

\* A reader that was given a holder's page may use it until its map attempt is
\* decided: the holder is active, or sealed in a cleanup that still waits.
ProjectionHasHolder ==
    ~quarantined => \A s \in Sessions :
        ReaderMapInFlight(s) /\ sessions[s].map.projection # "none" =>
            LET m == sessions[s].map.holder IN
            /\ maps[m].gen = sessions[s].gen /\ maps[m].page = sessions[s].map.page
            /\ \/ maps[m].phase = "active" /\ m \in gen.authorities
               \/ maps[m].phase = "holder_sealed" /\ atts[maps[m].att].phase = "last_waiting"

\* A generation that is retiring, and so admits nobody, is in the hands of one
\* cleanup, which is the only one that can end it; and the last native unmap is
\* only ever made under a generation that is retiring.
RetirementHasOneOwner ==
    ~quarantined =>
        LET owners == {a \in Attachments : atts[a].phase \in {"last_waiting", "last_admitted"}}
        IN /\ gen.phase = "retiring" => \E a \in Attachments : owners = {a}
           /\ (\E a \in owners : atts[a].phase = "last_admitted") => gen.phase = "retiring"

\* Once an attachment's gate is active no mapping of it still waits for the
\* gate: advancing it promoted every one that had begun before.
GateIsComplete ==
    \A a \in Attachments : atts[a].phase = "collecting" /\ atts[a].gate = "active" =>
        \A m \in MembersIn(a, WriterPhase) : maps[m].gated

\* The leases implement the custody of one generation after the other: while a
\* generation drains it gains no user, its mapping is closed with no user left,
\* the next one opens with no borrower of the last one left, and nothing
\* survives a quarantine.
Custody == INSTANCE GenerationCustody WITH
    Users <- Maps \cup Sessions,
    Borrowers <- Opens,
    number <- minted,
    phase <- IF quarantined THEN "lost"
             ELSE CASE gen.phase = "live" -> "open"
                    [] gen.phase = "retiring" -> "draining"
                    [] OTHER -> "closed",
    users <- IF quarantined THEN {} ELSE ActiveHolders \cup BlockingReaderMaps \cup ReservedSessions,
    borrowers <- IF quarantined THEN {}
                 ELSE {o \in Opens : groups[o].phase \in {"active", "sealing", "admitted"}}
ImplementsCustody == Custody!Spec
=============================================================================
