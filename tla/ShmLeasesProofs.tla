--------------------------- MODULE ShmLeasesProofs ---------------------------
(***************************************************************************)
(* Proofs about ShmLeases, for every number of map attempts, attachments,  *)
(* threads, pages, readers and sessions, and every bound on generations.   *)
(***************************************************************************)
EXTENDS ShmLeases, FiniteSetTheorems, TLAPS

-----------------------------------------------------------------------------
(* The invariant behind the types *)

\* An attachment's members are the attempts that name it, each once.
Belongs ==
    /\ \A a \in Attachments :
         /\ \A m \in Maps : m \in Members(a) <=> maps[m].att = a
         /\ \A i, j \in 1 .. Len(atts[a].members) :
              atts[a].members[i] = atts[a].members[j] => i = j
    /\ \A m \in Maps : maps[m].att = None <=> maps[m].phase \in {"unused", "failed", "cleaned"}

\* An attempt that is not decided is for a page.
Attempting == {"inflight", "post_native", "pending"}
Placed == \A m \in Maps : maps[m].phase \in Attempting => maps[m].page \in Pages

\* A session that is not over has a reader and a thread; a projection a holder.
Seated ==
    \A s \in Sessions :
        /\ sessions[s].phase \in {"reserved", "owner"} =>
             sessions[s].open \in Opens /\ sessions[s].thread \in Threads
        /\ sessions[s].map.projection # "none" => sessions[s].map.holder \in Maps

\* A session that is to publish its reader's first map is alone there; one that
\* is in a published group has not seen it go.
Alive == {s \in Sessions : sessions[s].phase \in {"reserved", "owner"}}
Reserving ==
    \A s \in Sessions :
        /\ sessions[s].phase = "reserved" =>
             /\ groups[sessions[s].open].phase = "reserved"
             /\ \A r \in Alive : sessions[r].open = sessions[s].open => r = s
        /\ sessions[s].phase = "owner" =>
             groups[sessions[s].open].phase \in {"active", "sealing", "terminal"}

\* A hand-off that a generation waits for is a group that was published.
Published == {o \in Opens : groups[o].phase \in {"active", "sealing", "admitted", "terminal"}}
Counted == gen.handoffs \leq Cardinality(Published)

TInv == TypeOK /\ Belongs /\ Placed /\ Seated /\ Reserving /\ Counted

-----------------------------------------------------------------------------
(* Lemmas about sequences of members *)

LEMMA AppendMembers ==
    ASSUME NEW S, NEW s \in Seq(S), NEW m \in S, \A i \in 1 .. Len(s) : s[i] # m,
           \A i, j \in 1 .. Len(s) : s[i] = s[j] => i = j
    PROVE  LET r == Append(s, m) IN
           /\ r \in Seq(S)
           /\ \A n : (\E i \in 1 .. Len(r) : r[i] = n) <=> n = m \/ \E i \in 1 .. Len(s) : s[i] = n
           /\ \A i, j \in 1 .. Len(r) : r[i] = r[j] => i = j
  <1> DEFINE r == Append(s, m)
  <1>1. r \in Seq(S) /\ Len(r) = Len(s) + 1 /\ Len(s) \in Nat
    OBVIOUS
  <1>2. \A i \in 1 .. Len(s) : r[i] = s[i]
    OBVIOUS
  <1>3. r[Len(s) + 1] = m
    OBVIOUS
  <1> HIDE DEF r
  <1>4. \A i \in 1 .. Len(r) : i \in 1 .. Len(s) \/ i = Len(s) + 1
    BY <1>1
  <1>5. \A i \in 1 .. Len(s) : i \in 1 .. Len(r)
    BY <1>1
  <1>6. Len(s) + 1 \in 1 .. Len(r)
    BY <1>1
  <1>7. \A n : (\E i \in 1 .. Len(r) : r[i] = n) <=> n = m \/ \E i \in 1 .. Len(s) : s[i] = n
    BY <1>2, <1>3, <1>4, <1>5, <1>6
  <1>8. \A i, j \in 1 .. Len(r) : r[i] = r[j] => i = j
    BY <1>2, <1>3, <1>4
  <1> QED BY <1>1, <1>7, <1>8 DEF r

LEMMA WithoutMember ==
    ASSUME NEW S, NEW s \in Seq(S), NEW m, \E i \in 1 .. Len(s) : s[i] = m,
           \A i, j \in 1 .. Len(s) : s[i] = s[j] => i = j
    PROVE  LET r == Without(s, m) IN
           /\ r \in Seq(S)
           /\ \A n : (\E i \in 1 .. Len(r) : r[i] = n) <=> n # m /\ \E i \in 1 .. Len(s) : s[i] = n
           /\ \A i, j \in 1 .. Len(r) : r[i] = r[j] => i = j
  <1> DEFINE k == CHOOSE i \in 1 .. Len(s) : s[i] = m
             r == Without(s, m)
  <1>1. k \in 1 .. Len(s) /\ s[k] = m /\ Len(s) \in Nat
    OBVIOUS
  <1>2. r = [i \in 1 .. Len(s) - 1 |-> IF i < k THEN s[i] ELSE s[i + 1]]
    BY DEF Without
  <1> HIDE DEF k, r
  <1>3. Len(s) - 1 \in Nat
    BY <1>1
  <1>4. \A i \in 1 .. Len(s) - 1 : (IF i < k THEN s[i] ELSE s[i + 1]) \in S
    BY <1>1
  <1>5. r \in Seq(S) /\ Len(r) = Len(s) - 1
    BY <1>2, <1>3, <1>4
  <1>6. \A i \in 1 .. Len(r) : r[i] = IF i < k THEN s[i] ELSE s[i + 1]
    BY <1>2, <1>5
  <1>7. \A i \in 1 .. Len(s) : i # k => IF i < k THEN i \in 1 .. Len(r) /\ r[i] = s[i]
                                                ELSE i - 1 \in 1 .. Len(r) /\ r[i - 1] = s[i]
    BY <1>1, <1>5, <1>6
  <1>8. \A i \in 1 .. Len(r) : \E j \in 1 .. Len(s) : j # k /\ r[i] = s[j]
    BY <1>1, <1>5, <1>6
  <1>9. \A n : (\E i \in 1 .. Len(r) : r[i] = n) <=> n # m /\ \E i \in 1 .. Len(s) : s[i] = n
    <2> TAKE n
    <2>1. ASSUME NEW i \in 1 .. Len(r), r[i] = n
          PROVE  n # m /\ \E j \in 1 .. Len(s) : s[j] = n
      BY <1>1, <1>8, <2>1
    <2>2. ASSUME n # m, NEW i \in 1 .. Len(s), s[i] = n
          PROVE  \E j \in 1 .. Len(r) : r[j] = n
      BY <1>1, <1>7, <2>2
    <2> QED BY <2>1, <2>2
  <1>10. \A i, j \in 1 .. Len(r) : r[i] = r[j] => i = j
    BY <1>1, <1>5, <1>6
  <1> QED BY <1>5, <1>9, <1>10 DEF r

-----------------------------------------------------------------------------
(* The parts of the type invariant *)

MapRecords == [phase : MapPhase, att : Attachments \cup {None},
               thread : Threads \cup {None}, page : Pages \cup {None},
               size : Nat, gated : BOOLEAN, gen : Nat, installer : Maps \cup {None}]
AttRecords == [phase : AttPhase, gate : GatePhase, members : Seq(Maps),
               cleanupThread : Threads \cup {None}]
GenRecords == [value : Nat, phase : GenPhase, pages : SUBSET Pages, size : Nat,
               authorities : SUBSET Maps, handoffs : 0 .. Cardinality(Opens)]
ReaderMapRecords == [page : Pages \cup {None}, size : Nat, count : Nat, blocker : BOOLEAN,
                     projection : ProjectionPhase, holder : Maps \cup {None}]
SessionRecords == [phase : SessionPhase, open : Opens \cup {None},
                   thread : Threads \cup {None}, gen : Nat, map : ReaderMapRecords]
GroupRecords == [phase : GroupPhase, gen : Nat, pages : SUBSET Pages,
                 projected : BOOLEAN, thread : Threads \cup {None}]

WriterTyped ==
    /\ maps \in [Maps -> MapRecords]
    /\ atts \in [Attachments -> AttRecords]
    /\ elig \in [Attachments -> {"none", "live", "revoked"}]
    /\ minted \in Nat
    /\ installing \in Maps \cup {None}
    /\ shmSize \in Nat
ReaderTyped ==
    /\ sessions \in [Sessions -> SessionRecords]
    /\ groups \in [Opens -> GroupRecords]
SharedTyped == gen \in GenRecords /\ quarantined \in BOOLEAN

LEMMA TypeParts == TypeOK <=> WriterTyped /\ ReaderTyped /\ SharedTyped
  BY DEF TypeOK, WriterTyped, ReaderTyped, SharedTyped, MapRecords, AttRecords, GenRecords,
         ReaderMapRecords, SessionRecords, GroupRecords

LEMMA TypePartsNext == TypeOK' <=> WriterTyped' /\ ReaderTyped' /\ SharedTyped'
  BY DEF TypeOK, WriterTyped, ReaderTyped, SharedTyped, MapRecords, AttRecords, GenRecords,
         ReaderMapRecords, SessionRecords, GroupRecords

\* The constant records.
LEMMA ConstantsTyped ==
    /\ NoMap \in MapRecords
    /\ \A p \in {"unused", "failed", "cleaned"} : [NoMap EXCEPT !.phase = p] \in MapRecords
    /\ NoReaderMap \in ReaderMapRecords
    /\ NoSession \in SessionRecords
    /\ \A p \in SessionPhase : [NoSession EXCEPT !.phase = p] \in SessionRecords
    /\ NoGroup \in GroupRecords
  <1>1. NoMap \in MapRecords
    BY DEF NoMap, MapRecords, MapPhase
  <1>2. \A p \in {"unused", "failed", "cleaned"} : [NoMap EXCEPT !.phase = p] \in MapRecords
    BY DEF NoMap, MapRecords, MapPhase
  <1>3. NoReaderMap \in ReaderMapRecords
    BY DEF NoReaderMap, ReaderMapRecords, ProjectionPhase
  <1>4. NoSession \in SessionRecords
    BY <1>3 DEF NoSession, SessionRecords, SessionPhase
  <1>5. \A p \in SessionPhase : [NoSession EXCEPT !.phase = p] \in SessionRecords
    BY <1>4 DEF SessionRecords
  <1>6. NoGroup \in GroupRecords
    BY DEF NoGroup, GroupRecords, GroupPhase
  <1> QED BY <1>1, <1>2, <1>3, <1>4, <1>5, <1>6

LEMMA OpensCounted == Cardinality(Opens) \in Nat
  BY OpensAssumption, FS_CardinalityType

LEMMA NoGenTyped == NoGen \in GenRecords
  BY OpensCounted DEF NoGen, GenRecords, GenPhase

\* A quarantined generation differs in its phase only.
LEMMA QuarantineTyped ==
    ASSUME NEW g \in GenRecords
    PROVE  QuarantineGen(g) \in GenRecords /\ QuarantineGen(g).handoffs = g.handoffs
  BY DEF QuarantineGen, GenRecords, GenPhase

\* What the steps of the writers leave alone.
LEMMA ReaderSideKept ==
    ASSUME TInv, UNCHANGED readerVars, gen'.handoffs = gen.handoffs
    PROVE  ReaderTyped' /\ Seated' /\ Reserving' /\ Counted'
  <1>1. sessions' = sessions /\ groups' = groups
    BY DEF readerVars
  <1>2. ReaderTyped' /\ Seated'
    BY <1>1, TypeParts DEF TInv, ReaderTyped, Seated
  <1>3. Reserving'
    BY <1>1 DEF TInv, Reserving, Alive
  <1>4. Counted'
    BY <1>1 DEF TInv, Counted, Published
  <1> QED BY <1>2, <1>3, <1>4

\* Belongs speaks of members, attachments and phases that are over.
Over == {"unused", "failed", "cleaned"}
LEMMA BelongsKept ==
    ASSUME Belongs,
           \A a \in Attachments : atts'[a].members = atts[a].members,
           \A m \in Maps : maps'[m].att = maps[m].att
                           /\ (maps'[m].phase \in Over <=> maps[m].phase \in Over)
    PROVE  Belongs'
  BY DEF Belongs, Members, Over

\* A map that is not over has an attachment, and is a member of it.
LEMMA MapHasAttachment ==
    ASSUME TInv, NEW m \in Maps, maps[m].phase \notin Over
    PROVE  maps[m].att \in Attachments /\ m \in Members(maps[m].att)
  BY TypeParts DEF TInv, WriterTyped, MapRecords, Belongs, Over

LEMMA QuarantineStep ==
    ASSUME TInv, Quarantine
    PROVE  SharedTyped' /\ gen'.handoffs = gen.handoffs
  BY QuarantineTyped, TypeParts DEF TInv, Quarantine, SharedTyped

-----------------------------------------------------------------------------
(* TInv and the steps of the writers *)

\* What is left to show of a step of a writer.
LEMMA WriterStep ==
    ASSUME TInv, UNCHANGED readerVars, WriterTyped', SharedTyped', Belongs', Placed',
           gen'.handoffs = gen.handoffs
    PROVE  TInv'
  BY ReaderSideKept, TypePartsNext DEF TInv

LEMMA EligibilityTInv ==
    ASSUME TInv, NEW a \in Attachments, InstallEligibility(a) \/ RevokeEligibility(a)
    PROVE  TInv'
  <1>1. UNCHANGED <<maps, atts, gen, minted, installing, readerVars, shmSize, quarantined>>
    BY DEF InstallEligibility, RevokeEligibility
  <1>2. elig' \in [Attachments -> {"none", "live", "revoked"}]
    BY TypeParts DEF TInv, WriterTyped, InstallEligibility, RevokeEligibility
  <1>3. Belongs' /\ Placed'
    BY <1>1, BelongsKept DEF TInv, Placed
  <1>4. WriterTyped' /\ SharedTyped'
    BY <1>1, <1>2, TypeParts DEF TInv, WriterTyped, SharedTyped
  <1> QED BY <1>1, <1>3, <1>4, WriterStep

LEMMA BeginWriterTInv ==
    ASSUME TInv, NEW m \in Maps, NEW a \in Attachments, NEW t \in Threads, NEW p \in Pages,
           BeginWriter(m, a, t, p)
    PROVE  TInv'
  <1> DEFINE new == maps'[m]
  <1>0. WriterTyped /\ SharedTyped /\ Belongs
    BY TypeParts DEF TInv
  <1> USE <1>0 DEF WriterTyped, SharedTyped
  <1>1. /\ new \in MapRecords /\ new.phase = "inflight" /\ new.att = a
        /\ maps' = [maps EXCEPT ![m] = new]
    <2>1. PICK i \in Maps \cup {None} :
            maps' = [maps EXCEPT ![m] =
                [phase |-> "inflight", att |-> a, thread |-> t, page |-> p, size |-> 0,
                 gated |-> atts[a].gate = "active", gen |-> gen.value, installer |-> i]]
      BY Zenon DEF BeginWriter
    <2>2. gen.value \in Nat
      BY DEF GenRecords
    <2> QED BY <2>1, <2>2 DEF MapRecords, MapPhase, WriterPhase
  <1>2. installing' \in Maps \cup {None}
    BY DEF BeginWriter
  <1>3. atts[a].members \in Seq(Maps) /\ \A i \in 1 .. Len(atts[a].members) : atts[a].members[i] # m
    <2>1. maps[m].att = None
      BY DEF BeginWriter, Belongs
    <2> QED BY <2>1, NoneAssumption DEF Belongs, Members, AttRecords
  <1> DEFINE ms == Append(atts[a].members, m)
  <1>4. /\ ms \in Seq(Maps)
        /\ \A n : (\E i \in 1 .. Len(ms) : ms[i] = n) <=>
              n = m \/ \E i \in 1 .. Len(atts[a].members) : atts[a].members[i] = n
        /\ \A i, j \in 1 .. Len(ms) : ms[i] = ms[j] => i = j
    <2>1. \A i, j \in 1 .. Len(atts[a].members) :
              atts[a].members[i] = atts[a].members[j] => i = j
      BY DEF Belongs
    <2> QED BY <1>3, <2>1, AppendMembers
  <1> HIDE DEF ms, new
  <1>5. atts' = [atts EXCEPT ![a].members = ms]
    BY DEF BeginWriter, ms
  <1>6. atts' \in [Attachments -> AttRecords] /\ atts'[a].members = ms
        /\ \A b \in Attachments \ {a} : atts'[b] = atts[b]
    <2>1. ms \in Seq(Maps)
      BY <1>4
    <2>2. [atts[a] EXCEPT !.members = ms] \in AttRecords
      BY <2>1 DEF AttRecords
    <2>3. [atts[a] EXCEPT !.members = ms].members = ms
      BY DEF AttRecords
    <2> QED BY <1>5, <2>2, <2>3
  <1>7. Members(a)' = Members(a) \cup {m} /\ \A b \in Attachments \ {a} : Members(b)' = Members(b)
    <2>1. \A n : n \in Members(a)' <=> \E i \in 1 .. Len(ms) : ms[i] = n
      BY <1>6 DEF Members
    <2>2. \A n : n \in Members(a)' <=> n = m \/ n \in Members(a)
      <3>1. \A n : n \in Members(a) <=> \E i \in 1 .. Len(atts[a].members) : atts[a].members[i] = n
        BY DEF Members
      <3> QED BY Zenon, <1>4, <2>1, <3>1
    <2>3. \A b \in Attachments \ {a} : Members(b)' = Members(b)
      BY <1>6 DEF Members
    <2> QED BY <2>2, <2>3
  <1>8. Belongs'
    <2>1. \A b \in Attachments, n \in Maps : n \in Members(b)' <=> maps'[n].att = b
      <3>1. maps[m].att = None
        BY DEF BeginWriter, Belongs
      <3> QED BY <1>1, <1>7, <3>1, NoneAssumption DEF Belongs
    <2>2. \A n \in Maps : maps'[n].att = None <=> maps'[n].phase \in Over
      BY <1>1, NoneAssumption DEF Belongs, Over
    <2>3. \A b \in Attachments : \A i, j \in 1 .. Len(atts'[b].members) :
              atts'[b].members[i] = atts'[b].members[j] => i = j
      <3> TAKE b \in Attachments
      <3>1. CASE b = a
        BY <1>4, <1>6, <3>1
      <3>2. CASE b # a
        BY <1>6, <3>2 DEF Belongs
      <3> QED BY <3>1, <3>2
    <2> QED BY <2>1, <2>2, <2>3 DEF Belongs, Over
  <1>9. UNCHANGED <<elig, gen, minted, readerVars, shmSize, quarantined>>
    BY DEF BeginWriter
  <1>10. WriterTyped' /\ SharedTyped'
    BY <1>1, <1>2, <1>6, <1>9
  <1>11. Placed'
    <2>1. new.page = p
      BY DEF BeginWriter, new
    <2> QED BY <1>1, <2>1 DEF TInv, Placed, MapRecords
  <1> QED BY <1>8, <1>9, <1>10, <1>11, WriterStep

LEMMA NativeTInv ==
    ASSUME TInv, NEW m \in Maps, RecordNativeMapping(m) \/ InstallPending(m)
    PROVE  TInv'
  <1>0. WriterTyped /\ SharedTyped /\ Belongs
    BY TypeParts DEF TInv
  <1> USE <1>0 DEF WriterTyped, SharedTyped
  <1>1. UNCHANGED <<atts, elig, gen, minted, installing, readerVars, quarantined>>
    BY DEF RecordNativeMapping, InstallPending
  <1>2. maps[m].page \in Nat
    <2>1. maps[m].phase \in Attempting
      BY DEF RecordNativeMapping, InstallPending, Attempting
    <2> QED BY <2>1, PagesAssumption DEF TInv, Placed
  <1>3. shmSize' \in Nat
    <2>1. CASE InstallPending(m)
      BY <2>1 DEF InstallPending
    <2>2. CASE RecordNativeMapping(m)
      BY <1>2, <2>2 DEF RecordNativeMapping, MapRecords
    <2> QED BY <2>1, <2>2
  <1>4. maps' \in [Maps -> MapRecords]
        /\ \A n \in Maps : maps'[n].att = maps[n].att
                           /\ (maps'[n].phase \in Over <=> maps[n].phase \in Over)
    BY <1>3 DEF RecordNativeMapping, InstallPending, MapRecords, MapPhase, WriterPhase, Over
  <1>5. Belongs'
    BY <1>1, <1>4, BelongsKept
  <1>6. Placed'
    BY <1>4 DEF TInv, Placed, Attempting, RecordNativeMapping, InstallPending, MapRecords
  <1> QED BY <1>1, <1>3, <1>4, <1>5, <1>6, WriterStep

LEMMA WriterMapFailsTInv ==
    ASSUME TInv, NEW m \in Maps, WriterMapFails(m)
    PROVE  TInv'
  <1>0. WriterTyped /\ SharedTyped /\ Belongs
    BY TypeParts DEF TInv
  <1> USE <1>0 DEF WriterTyped, SharedTyped
  <1>1. PICK a \in Attachments : a = maps[m].att /\ m \in Members(a)
    BY MapHasAttachment DEF WriterMapFails, Over
  <1> DEFINE ms == Without(atts[a].members, m)
  <1>2. /\ ms \in Seq(Maps)
        /\ \A n : (\E i \in 1 .. Len(ms) : ms[i] = n) <=>
              n # m /\ \E i \in 1 .. Len(atts[a].members) : atts[a].members[i] = n
        /\ \A i, j \in 1 .. Len(ms) : ms[i] = ms[j] => i = j
    <2>1. atts[a].members \in Seq(Maps)
      BY <1>1 DEF AttRecords
    <2>2. \A i, j \in 1 .. Len(atts[a].members) :
              atts[a].members[i] = atts[a].members[j] => i = j
      BY <1>1 DEF Belongs
    <2>3. \E i \in 1 .. Len(atts[a].members) : atts[a].members[i] = m
      BY <1>1 DEF Members
    <2> QED BY <2>1, <2>2, <2>3, WithoutMember
  <1>3. maps' = [maps EXCEPT ![m] = [NoMap EXCEPT !.phase = "failed"]]
        /\ atts' = [atts EXCEPT ![a].members = ms]
    BY <1>1 DEF WriterMapFails
  <1> HIDE DEF ms
  <1>4. maps' \in [Maps -> MapRecords]
    BY <1>3, ConstantsTyped
  <1>5. atts' \in [Attachments -> AttRecords] /\ atts'[a].members = ms
        /\ \A b \in Attachments \ {a} : atts'[b] = atts[b]
    <2>1. ms \in Seq(Maps)
      BY <1>2
    <2>2. [atts[a] EXCEPT !.members = ms] \in AttRecords /\ [atts[a] EXCEPT !.members = ms].members = ms
      BY <2>1 DEF AttRecords
    <2> QED BY <1>3, <2>2
  <1>6. Members(a)' = Members(a) \ {m} /\ \A b \in Attachments \ {a} : Members(b)' = Members(b)
    <2>1. \A n : n \in Members(a)' <=> \E i \in 1 .. Len(ms) : ms[i] = n
      BY <1>5 DEF Members
    <2>2. \A n : n \in Members(a)' <=> n # m /\ n \in Members(a)
      <3>1. \A n : n \in Members(a) <=> \E i \in 1 .. Len(atts[a].members) : atts[a].members[i] = n
        BY DEF Members
      <3> QED BY Zenon, <1>2, <2>1, <3>1
    <2>3. \A b \in Attachments \ {a} : Members(b)' = Members(b)
      BY <1>5 DEF Members
    <2> QED BY <2>2, <2>3
  <1>7. maps'[m].att = None /\ maps'[m].phase = "failed" /\ \A n \in Maps \ {m} : maps'[n] = maps[n]
    BY <1>3 DEF NoMap
  <1>8. Belongs'
    <2>1. \A b \in Attachments, n \in Maps : n \in Members(b)' <=> maps'[n].att = b
      BY <1>1, <1>6, <1>7, NoneAssumption DEF Belongs
    <2>2. \A n \in Maps : maps'[n].att = None <=> maps'[n].phase \in Over
      BY <1>7 DEF Belongs, Over
    <2>3. \A b \in Attachments : \A i, j \in 1 .. Len(atts'[b].members) :
              atts'[b].members[i] = atts'[b].members[j] => i = j
      <3> TAKE b \in Attachments
      <3>1. CASE b = a
        BY <1>2, <1>5, <3>1
      <3>2. CASE b # a
        BY <1>5, <3>2 DEF Belongs
      <3> QED BY <3>1, <3>2
    <2> QED BY <2>1, <2>2, <2>3 DEF Belongs, Over
  <1>9. UNCHANGED <<elig, gen, minted, readerVars, shmSize, quarantined>> /\ installing' \in Maps \cup {None}
    BY DEF WriterMapFails
  <1>10. Placed'
    BY <1>7 DEF TInv, Placed, Attempting
  <1> QED BY <1>4, <1>5, <1>8, <1>9, <1>10, WriterStep

\* A promotion makes holders of the members it is given.
LEMMA PromoteTyped ==
    ASSUME TInv, NEW ms \in Seq(Maps), ms # <<>>, Promote(ms),
           \A i \in 1 .. Len(ms) : maps[ms[i]].phase \in Attempting
    PROVE  /\ maps' \in [Maps -> MapRecords]
           /\ \A m \in Maps : /\ maps'[m].att = maps[m].att
                              /\ maps'[m].phase \in Over <=> maps[m].phase \in Over
                              /\ IF \E i \in 1 .. Len(ms) : ms[i] = m
                                 THEN /\ maps'[m].phase = "active"
                                      /\ maps'[m].gen = gen'.value
                                      /\ maps'[m].page = maps[m].page
                                 ELSE maps'[m] = maps[m]
           /\ gen' \in GenRecords /\ gen'.handoffs = gen.handoffs
           /\ gen'.phase = "live" /\ gen'.value # 0
           /\ minted' \in Nat /\ installing' \in Maps \cup {None}
  <1>0. WriterTyped /\ SharedTyped /\ Placed
    BY TypeParts DEF TInv
  <1> DEFINE added == {ms[i] : i \in 1 .. Len(ms)}
             value == IF GenPresent THEN gen.value ELSE minted + 1
  <1>1. value \in Nat /\ value # 0
    BY <1>0 DEF WriterTyped, SharedTyped, GenRecords, GenPresent
  <1>2. \A m \in added : m \in Maps /\ maps[m].phase \in Attempting /\ maps[m].page \in Pages
    BY <1>0 DEF Placed
  <1>3. added \subseteq Maps
    BY <1>2
  <1>4. /\ minted' = (IF GenPresent THEN minted ELSE value)
        /\ installing' = (IF GenPresent THEN installing ELSE None)
        /\ gen' = [value |-> value, phase |-> "live",
                   pages |-> gen.pages \cup {maps[m].page : m \in added},
                   size |-> maps[ms[Len(ms)]].size,
                   authorities |-> gen.authorities \cup added, handoffs |-> gen.handoffs]
        /\ maps' = [m \in Maps |-> IF m \in added THEN Holder(m, value) ELSE maps[m]]
    BY Zenon DEF Promote
  <1>5. \A m : m \in added <=> \E i \in 1 .. Len(ms) : ms[i] = m
    OBVIOUS
  <1>6. maps[ms[Len(ms)]].size \in Nat
    <2>1. ms[Len(ms)] \in Maps
      OBVIOUS
    <2> QED BY <1>0, <2>1 DEF WriterTyped, MapRecords
  <1> HIDE DEF added, value
  <1>7. gen' \in GenRecords /\ gen'.handoffs = gen.handoffs /\ gen'.phase = "live" /\ gen'.value = value
    <2>1. {maps[m].page : m \in added} \subseteq Pages
      BY <1>2
    <2> QED BY <1>0, <1>1, <1>3, <1>4, <1>6, <2>1 DEF SharedTyped, GenRecords, GenPhase
  <1>8. ASSUME NEW m \in added
        PROVE  /\ Holder(m, value) \in MapRecords
               /\ Holder(m, value).att = maps[m].att /\ Holder(m, value).phase = "active"
               /\ Holder(m, value).gen = value /\ Holder(m, value).page = maps[m].page
    BY <1>0, <1>1, <1>3 DEF Holder, NoMap, WriterTyped, MapRecords, MapPhase, HolderPhase
  <1>9. maps' \in [Maps -> MapRecords]
    BY <1>0, <1>4, <1>8 DEF WriterTyped
  <1>10. ASSUME NEW m \in Maps
         PROVE  /\ maps'[m].att = maps[m].att
                /\ maps'[m].phase \in Over <=> maps[m].phase \in Over
                /\ IF m \in added
                   THEN /\ maps'[m].phase = "active"
                        /\ maps'[m].gen = gen'.value
                        /\ maps'[m].page = maps[m].page
                   ELSE maps'[m] = maps[m]
    <2>1. CASE m \in added
      BY <1>2, <1>4, <1>7, <1>8, <2>1 DEF Over, Attempting
    <2>2. CASE m \notin added
      BY <1>4, <2>2
    <2> QED BY <2>1, <2>2
  <1>11. minted' \in Nat /\ installing' \in Maps \cup {None}
    BY <1>0, <1>1, <1>4 DEF WriterTyped
  <1> QED BY <1>1, <1>5, <1>7, <1>9, <1>10, <1>11

\* The members the gate decides on are all that began before it.
LEMMA GateMembersAre ==
    ASSUME TInv, NEW a \in Attachments
    PROVE  /\ GateMembers(a) \in Seq(Maps)
           /\ \A m : m \in Members(a) <=> \E i \in 1 .. Len(GateMembers(a)) : GateMembers(a)[i] = m
  BY TypeParts DEF TInv, WriterTyped, AttRecords, GateMembers, Members

\* A gate that advances is sealed, or opens with all its members promoted.
LEMMA AdvanceGateEffect ==
    ASSUME TInv, NEW a \in Attachments, AdvanceGate(a)
    PROVE  /\ atts[a].phase = "collecting"
           /\ UNCHANGED <<elig, readerVars, shmSize, quarantined>>
           /\ \/ /\ atts' = [atts EXCEPT ![a].gate = "sealing"]
                 /\ UNCHANGED <<maps, gen, minted, installing>>
              \/ /\ atts' = [atts EXCEPT ![a].gate = "active"]
                 /\ Members(a) = {}
                 /\ UNCHANGED <<maps, gen, minted, installing>>
              \/ /\ atts' = [atts EXCEPT ![a].gate = "active"]
                 /\ GateMembers(a) # <<>>
                 /\ \A i \in 1 .. Len(GateMembers(a)) : maps[GateMembers(a)[i]].phase \in Attempting
                 /\ Promote(GateMembers(a))
  <1> DEFINE ms == GateMembers(a)
             inCallback == \E i \in 1 .. Len(ms) : maps[ms[i]].phase \in {"inflight", "post_native"}
  <1>1. atts[a].phase = "collecting" /\ UNCHANGED <<elig, readerVars, shmSize, quarantined>>
    BY DEF AdvanceGate
  <1>2. IF inCallback \/ (ms # <<>> /\ ~Promotable(ms))
        THEN /\ atts' = [atts EXCEPT ![a].gate = "sealing"]
             /\ UNCHANGED <<maps, gen, minted, installing>>
        ELSE /\ atts' = [atts EXCEPT ![a].gate = "active"]
             /\ IF ms = <<>> THEN UNCHANGED <<maps, gen, minted, installing>> ELSE Promote(ms)
    BY Zenon DEF AdvanceGate
  <1>3. ms = <<>> => Members(a) = {}
    BY DEF GateMembers, Members
  <1>4. Promotable(ms) => \A i \in 1 .. Len(ms) : maps[ms[i]].phase \in Attempting
    BY DEF Promotable, Attempting
  <1> QED BY Zenon, <1>1, <1>2, <1>3, <1>4

LEMMA AdvanceGateTInv ==
    ASSUME TInv, NEW a \in Attachments, AdvanceGate(a)
    PROVE  TInv'
  <1>0. WriterTyped /\ SharedTyped /\ Belongs /\ Placed
    BY TypeParts DEF TInv
  <1>1. PICK g \in GatePhase : atts' = [atts EXCEPT ![a].gate = g]
    BY AdvanceGateEffect DEF GatePhase
  <1>2. /\ atts' \in [Attachments -> AttRecords]
        /\ \A b \in Attachments : atts'[b].members = atts[b].members
    BY <1>0, <1>1 DEF WriterTyped, AttRecords
  <1>3. UNCHANGED <<elig, readerVars, shmSize, quarantined>>
    BY AdvanceGateEffect
  <1>4. CASE UNCHANGED <<maps, gen, minted, installing>>
    BY <1>0, <1>2, <1>3, <1>4, BelongsKept, WriterStep DEF WriterTyped, SharedTyped, Placed
  <1>5. CASE /\ Promote(GateMembers(a)) /\ GateMembers(a) # <<>>
             /\ \A i \in 1 .. Len(GateMembers(a)) : maps[GateMembers(a)[i]].phase \in Attempting
    <2>1. /\ maps' \in [Maps -> MapRecords]
          /\ \A m \in Maps : /\ maps'[m].att = maps[m].att
                             /\ maps'[m].phase \in Over <=> maps[m].phase \in Over
                             /\ maps'[m].phase = "active" \/ maps'[m] = maps[m]
          /\ gen' \in GenRecords /\ gen'.handoffs = gen.handoffs
          /\ minted' \in Nat /\ installing' \in Maps \cup {None}
      BY <1>5, PromoteTyped, GateMembersAre
    <2>2. Belongs'
      BY <1>0, <1>2, <2>1, BelongsKept
    <2>3. Placed'
      BY <1>0, <2>1 DEF Placed, Attempting
    <2> QED BY <1>0, <1>2, <1>3, <2>1, <2>2, <2>3, WriterStep DEF WriterTyped, SharedTyped
  <1> QED BY <1>4, <1>5, AdvanceGateEffect

LEMMA CompleteGateWinningTInv ==
    ASSUME TInv, NEW m \in Maps, CompleteGateWinning(m)
    PROVE  TInv'
  <1>0. WriterTyped /\ SharedTyped /\ Belongs /\ Placed
    BY TypeParts DEF TInv
  <1>1. /\ Promote(<<m>>) /\ maps[m].phase = "post_native"
        /\ UNCHANGED <<atts, elig, readerVars, shmSize, quarantined>>
    BY DEF CompleteGateWinning
  <1>2. /\ maps' \in [Maps -> MapRecords]
        /\ \A n \in Maps : /\ maps'[n].att = maps[n].att
                           /\ maps'[n].phase \in Over <=> maps[n].phase \in Over
                           /\ maps'[n].phase = "active" \/ maps'[n] = maps[n]
        /\ gen' \in GenRecords /\ gen'.handoffs = gen.handoffs
        /\ minted' \in Nat /\ installing' \in Maps \cup {None}
    <2>1. <<m>> \in Seq(Maps) /\ <<m>> # <<>>
          /\ \A i \in 1 .. Len(<<m>>) : maps[(<<m>>)[i]].phase \in Attempting
      BY <1>1 DEF Attempting
    <2> QED BY <1>1, <2>1, PromoteTyped
  <1>3. Belongs'
    BY <1>0, <1>1, <1>2, BelongsKept
  <1>4. Placed'
    BY <1>0, <1>2 DEF Placed, Attempting
  <1> QED BY <1>0, <1>1, <1>2, <1>3, <1>4, WriterStep DEF WriterTyped, SharedTyped

\* A member that is sealed stays with its attachment.
LEMMA SealedTyped ==
    ASSUME WriterTyped, NEW m \in Maps
    PROVE  /\ Sealed(m) \in MapRecords
           /\ Sealed(m).att = maps[m].att
           /\ Sealed(m).phase \in {"holder_sealed", "writer_sealed"}
           /\ maps[m].phase = "active" => Sealed(m) = [maps[m] EXCEPT !.phase = "holder_sealed"]
  <1>1. CASE maps[m].phase = "active"
    BY <1>1 DEF Sealed, WriterTyped, MapRecords, MapPhase, HolderPhase
  <1>2. CASE maps[m].phase # "active"
    <2>1. /\ Sealed(m) = [NoMap EXCEPT !.phase = "writer_sealed", !.att = maps[m].att]
          /\ maps[m].att \in Attachments \cup {None}
      BY <1>2 DEF Sealed, WriterTyped, MapRecords
    <2>2. "writer_sealed" \in MapPhase
      BY DEF MapPhase, WriterPhase
    <2>3. Sealed(m) = [phase |-> "writer_sealed", att |-> maps[m].att, thread |-> None,
                       page |-> None, size |-> 0, gated |-> FALSE, gen |-> 0,
                       installer |-> None]
      BY <2>1 DEF NoMap
    <2>4. maps[m].att \in Attachments \cup {None}
      BY <2>1
    <2>5. /\ Sealed(m) \in MapRecords /\ Sealed(m).att = maps[m].att
          /\ Sealed(m).phase = "writer_sealed"
      BY <2>2, <2>3, <2>4 DEF MapRecords
    <2> QED BY <1>2, <2>5
  <1> QED BY <1>1, <1>2

LEMMA DecisionTyped ==
    ASSUME NEW a, NEW t
    PROVE  /\ SealDecision(a, t) \in {"not_last", "same_thread", "wait", "ready"}
           /\ \A d : AdmittedPhase(a, d) \in {"terminal", "last_waiting", "nonlast_admitted",
                                              "last_admitted"}
  BY DEF SealDecision, RetirementDecision, AdmittedPhase

LEMMA SealTInv ==
    ASSUME TInv, NEW m \in Maps, NEW t \in Threads, NEW waits \in BOOLEAN,
           maps[m].phase \in Attempting \cup {"active"}, Seal(m, t, waits),
           UNCHANGED <<elig, minted, installing, readerVars, shmSize>>
    PROVE  TInv'
  <1>0. WriterTyped /\ SharedTyped /\ Belongs /\ Placed
    BY TypeParts DEF TInv
  <1>1. PICK a \in Attachments : a = maps[m].att /\ m \in Members(a)
    BY MapHasAttachment DEF Attempting, Over
  <1> DEFINE decision == SealDecision(a, t)
             unsupported == [gen EXCEPT !.authorities = @ \ Members(a)]
  <1>2. CASE Sealable(a, decision, waits)
    <2>1. /\ maps' = [n \in Maps |-> IF n \in Members(a) THEN Sealed(n) ELSE maps[n]]
          /\ atts' = [atts EXCEPT ![a].phase = AdmittedPhase(a, decision),
                                  ![a].cleanupThread = t]
          /\ quarantined' = (quarantined \/ decision = "same_thread")
          /\ gen' = IF decision = "same_thread" THEN QuarantineGen(unsupported)
                    ELSE IF GenPresent /\ OtherLiveGroups(a) = {}
                    THEN [unsupported EXCEPT !.phase = "retiring"]
                    ELSE unsupported
      BY <1>1, <1>2 DEF Seal
    <2>2. unsupported \in GenRecords /\ unsupported.handoffs = gen.handoffs
      BY <1>0 DEF SharedTyped, GenRecords
    <2> HIDE DEF unsupported, decision
    <2>3. gen' \in GenRecords /\ gen'.handoffs = gen.handoffs
      <3>1. /\ QuarantineGen(unsupported) \in GenRecords
            /\ QuarantineGen(unsupported).handoffs = gen.handoffs
        BY <2>2, QuarantineTyped
      <3>2. /\ [unsupported EXCEPT !.phase = "retiring"] \in GenRecords
            /\ [unsupported EXCEPT !.phase = "retiring"].handoffs = gen.handoffs
        BY <2>2 DEF GenRecords, GenPhase
      <3> QED BY <2>1, <2>2, <3>1, <3>2
    <2>4. AdmittedPhase(a, decision) \in AttPhase
      BY DecisionTyped DEF AttPhase
    <2>5. /\ atts' \in [Attachments -> AttRecords]
          /\ \A b \in Attachments : atts'[b].members = atts[b].members
      BY <1>0, <2>1, <2>4 DEF WriterTyped, AttRecords
    <2>6. ASSUME NEW n \in Members(a)
          PROVE  n \in Maps /\ maps[n].phase \in Attempting \cup {"active"}
      <3>1. n \in Maps
        BY <1>0 DEF WriterTyped, AttRecords, Members
      <3> QED BY <1>2, <3>1 DEF Sealable, Complete, Attempting
    <2>7. /\ maps' \in [Maps -> MapRecords]
          /\ \A n \in Maps : /\ maps'[n].att = maps[n].att
                             /\ maps'[n].phase \in Over <=> maps[n].phase \in Over
                             /\ maps'[n] = maps[n] \/ maps'[n].phase \notin Attempting
      <3>1. ASSUME NEW n \in Maps
            PROVE  /\ maps'[n] \in MapRecords
                   /\ maps'[n].att = maps[n].att
                   /\ maps'[n].phase \in Over <=> maps[n].phase \in Over
                   /\ maps'[n] = maps[n] \/ maps'[n].phase \notin Attempting
        <4>1. CASE n \in Members(a)
          BY <1>0, <2>1, <2>6, <4>1, SealedTyped DEF Over, Attempting
        <4>2. CASE n \notin Members(a)
          BY <1>0, <2>1, <4>2 DEF WriterTyped
        <4> QED BY <4>1, <4>2
      <3> QED BY <2>1, <3>1
    <2>8. Belongs' /\ Placed'
      BY <1>0, <2>5, <2>7, BelongsKept DEF Placed
    <2> QED BY <1>0, <2>1, <2>3, <2>5, <2>7, <2>8, WriterStep DEF WriterTyped, SharedTyped
  <1>3. CASE ~Sealable(a, decision, waits)
    <2>1. /\ maps' = [maps EXCEPT ![m].phase = "terminal"]
          /\ atts' = [atts EXCEPT ![a].phase = "terminal"]
          /\ Quarantine
      BY <1>1, <1>3 DEF Seal
    <2>2. /\ atts' \in [Attachments -> AttRecords]
          /\ \A b \in Attachments : atts'[b].members = atts[b].members
      BY <1>0, <2>1 DEF WriterTyped, AttRecords, AttPhase
    <2>3. /\ maps' \in [Maps -> MapRecords]
          /\ \A n \in Maps : /\ maps'[n].att = maps[n].att
                             /\ maps'[n].phase \in Over <=> maps[n].phase \in Over
                             /\ maps'[n] = maps[n] \/ maps'[n].phase \notin Attempting
      BY <1>0, <2>1 DEF WriterTyped, MapRecords, MapPhase, Over, Attempting
    <2>4. Belongs' /\ Placed'
      BY <1>0, <2>2, <2>3, BelongsKept DEF Placed
    <2> QED BY <1>0, <2>1, <2>2, <2>3, <2>4, QuarantineStep, WriterStep DEF WriterTyped
  <1> QED BY <1>2, <1>3

\* A cleanup, or its wait, that is lost.
LEMMA AttachmentLost ==
    ASSUME TInv, NEW a \in Attachments, NEW p \in AttPhase,
           atts' = [atts EXCEPT ![a].phase = p],
           Quarantine \/ UNCHANGED <<gen, quarantined>>,
           UNCHANGED <<maps, elig, minted, installing, readerVars, shmSize>>
    PROVE  TInv'
  <1>0. WriterTyped /\ SharedTyped /\ Belongs /\ Placed
    BY TypeParts DEF TInv
  <1>1. /\ atts' \in [Attachments -> AttRecords]
        /\ \A b \in Attachments : atts'[b].members = atts[b].members
    BY <1>0 DEF WriterTyped, AttRecords
  <1>2. Belongs' /\ Placed'
    BY <1>0, <1>1, BelongsKept DEF Placed
  <1>3. SharedTyped' /\ gen'.handoffs = gen.handoffs
    BY <1>0, QuarantineStep DEF SharedTyped
  <1> QED BY <1>0, <1>1, <1>2, <1>3, WriterStep DEF WriterTyped

LEMMA CleanupTInv ==
    ASSUME TInv, NEW a \in Attachments,
           PollRetirement(a) \/ FailRetirementWait(a) \/ AbandonCleanup(a)
    PROVE  TInv'
  <1>1. CASE PollRetirement(a)
    <2>1. PICK p \in AttPhase : atts' = [atts EXCEPT ![a].phase = p]
      BY <1>1 DEF PollRetirement, AttPhase
    <2>2. Quarantine \/ UNCHANGED <<gen, quarantined>>
      BY <1>1 DEF PollRetirement
    <2>3. UNCHANGED <<maps, elig, minted, installing, readerVars, shmSize>>
      BY <1>1 DEF PollRetirement
    <2> QED BY <2>1, <2>2, <2>3, AttachmentLost
  <1>2. CASE FailRetirementWait(a) \/ AbandonCleanup(a)
    BY <1>2, AttachmentLost DEF FailRetirementWait, AbandonCleanup, AttPhase
  <1> QED BY <1>1, <1>2

LEMMA CompleteCleanupTInv ==
    ASSUME TInv, NEW a \in Attachments, NEW ok \in BOOLEAN, CompleteCleanup(a, ok)
    PROVE  TInv'
  <1>0. WriterTyped /\ SharedTyped /\ Belongs /\ Placed
    BY TypeParts DEF TInv
  <1> DEFINE last == atts[a].phase = "last_admitted"
  <1>1. UNCHANGED <<elig, minted, readerVars, shmSize>>
    BY DEF CompleteCleanup
  <1>2. CASE ok /\ ~quarantined /\ (last => LastCleanupExact)
    <2>1. /\ atts' = [atts EXCEPT ![a] = [phase |-> "retired", gate |-> @.gate,
                                         members |-> <<>>, cleanupThread |-> None]]
          /\ maps' = [m \in Maps |-> IF m \in Members(a)
                                     THEN [NoMap EXCEPT !.phase = "cleaned"] ELSE maps[m]]
          /\ installing' = IF installing \in Members(a) THEN None ELSE installing
          /\ gen' = IF ~last THEN gen
                    ELSE IF gen.handoffs = 0 THEN NoGen
                    ELSE [gen EXCEPT !.phase = "retired"]
          /\ UNCHANGED quarantined
      BY <1>2 DEF CompleteCleanup
    <2>2. gen' \in GenRecords /\ gen'.handoffs = gen.handoffs
      <3>1. [gen EXCEPT !.phase = "retired"] \in GenRecords
            /\ [gen EXCEPT !.phase = "retired"].handoffs = gen.handoffs
        BY <1>0 DEF SharedTyped, GenRecords, GenPhase
      <3>2. NoGen.handoffs = 0
        BY DEF NoGen
      <3> QED BY <1>0, <2>1, <3>1, <3>2, NoGenTyped DEF SharedTyped
    <2>3. maps' \in [Maps -> MapRecords]
      BY <1>0, <2>1, ConstantsTyped DEF WriterTyped
    <2>4. /\ atts' \in [Attachments -> AttRecords] /\ atts'[a].members = <<>>
          /\ \A b \in Attachments \ {a} : atts'[b] = atts[b]
      BY <1>0, <2>1 DEF WriterTyped, AttRecords, AttPhase
    <2>5. Members(a)' = {} /\ \A b \in Attachments \ {a} : Members(b)' = Members(b)
      BY <2>4 DEF Members
    <2>6. \A m \in Maps : IF m \in Members(a) THEN maps'[m].att = None /\ maps'[m].phase = "cleaned"
                                              ELSE maps'[m] = maps[m]
      BY <2>1 DEF NoMap
    <2>7. Belongs'
      <3>1. \A b \in Attachments, n \in Maps : n \in Members(b)' <=> maps'[n].att = b
        <4> TAKE b \in Attachments, n \in Maps
        <4>1. CASE n \in Members(a)
          <5>1. maps[n].att = a
            BY <1>0, <4>1 DEF Belongs
          <5>2. b # a => n \notin Members(b)
            BY <1>0, <5>1 DEF Belongs
          <5> QED BY <2>5, <2>6, <4>1, <5>2, NoneAssumption
        <4>2. CASE n \notin Members(a)
          BY <1>0, <2>5, <2>6, <4>2 DEF Belongs
        <4> QED BY <4>1, <4>2
      <3>2. \A n \in Maps : maps'[n].att = None <=> maps'[n].phase \in Over
        BY <1>0, <2>6 DEF Belongs, Over
      <3>3. \A b \in Attachments : \A i, j \in 1 .. Len(atts'[b].members) :
                atts'[b].members[i] = atts'[b].members[j] => i = j
        BY <1>0, <2>4 DEF Belongs
      <3> QED BY <3>1, <3>2, <3>3 DEF Belongs, Over
    <2>8. Placed'
      BY <1>0, <2>6 DEF Placed, Attempting
    <2>9. installing' \in Maps \cup {None}
      BY <1>0, <2>1 DEF WriterTyped
    <2> QED BY <1>0, <1>1, <2>1, <2>2, <2>3, <2>4, <2>7, <2>8, <2>9, WriterStep
            DEF WriterTyped, SharedTyped
  <1>3. CASE ~(ok /\ ~quarantined /\ (last => LastCleanupExact))
    BY <1>1, <1>3, AttachmentLost DEF CompleteCleanup, AttPhase
  <1> QED BY <1>2, <1>3

LEMMA AbandonWriterTInv ==
    ASSUME TInv, NEW m \in Maps, AbandonWriter(m)
    PROVE  TInv'
  <1>0. WriterTyped /\ SharedTyped /\ Belongs /\ Placed
    BY TypeParts DEF TInv
  <1>1. /\ maps[m].phase \notin Over
        /\ maps' = [maps EXCEPT ![m].phase = "terminal"]
        /\ atts' = atts \/ atts' = [atts EXCEPT ![maps[m].att].phase = "terminal"]
        /\ Quarantine
        /\ UNCHANGED <<elig, minted, installing, readerVars, shmSize>>
    BY DEF AbandonWriter, Over
  <1>2. /\ atts' \in [Attachments -> AttRecords]
        /\ \A b \in Attachments : atts'[b].members = atts[b].members
    <2>1. PICK a \in Attachments : a = maps[m].att
      BY <1>1, MapHasAttachment
    <2>2. [atts[a] EXCEPT !.phase = "terminal"] \in AttRecords
          /\ [atts[a] EXCEPT !.phase = "terminal"].members = atts[a].members
      BY <1>0 DEF WriterTyped, AttRecords, AttPhase
    <2> QED BY <1>0, <1>1, <2>1, <2>2 DEF WriterTyped
  <1>3. /\ maps' \in [Maps -> MapRecords]
        /\ \A n \in Maps : /\ maps'[n].att = maps[n].att
                           /\ maps'[n].phase \in Over <=> maps[n].phase \in Over
                           /\ maps'[n] = maps[n] \/ maps'[n].phase \notin Attempting
    BY <1>0, <1>1 DEF WriterTyped, MapRecords, MapPhase, Over, Attempting
  <1>4. Belongs' /\ Placed'
    BY <1>0, <1>2, <1>3, BelongsKept DEF Placed
  <1> QED BY <1>0, <1>1, <1>2, <1>3, <1>4, QuarantineStep, WriterStep DEF WriterTyped

-----------------------------------------------------------------------------
(* TInv and the steps of the readers *)

\* What is left to show of a step of a reader.
LEMMA ReaderStep ==
    ASSUME TInv, UNCHANGED writerVars, ReaderTyped', SharedTyped', Seated', Reserving', Counted'
    PROVE  TInv'
  <1>1. UNCHANGED <<maps, atts, elig, minted, installing, shmSize>>
    BY DEF writerVars
  <1>2. Belongs' /\ Placed' /\ WriterTyped'
    BY <1>1, BelongsKept, TypeParts DEF TInv, Placed, WriterTyped
  <1> QED BY <1>2, TypePartsNext DEF TInv

\* No group that was published is forgotten while its hand-off counts.
LEMMA CountedKept ==
    ASSUME TInv, Published \subseteq Published', gen'.handoffs = gen.handoffs
    PROVE  Counted'
  <1>1. IsFiniteSet(Published') /\ IsFiniteSet(Published)
    BY OpensAssumption, FS_Subset DEF Published
  <1>2. Cardinality(Published) \leq Cardinality(Published')
    BY <1>1, FS_Subset
  <1>3. gen.handoffs \in Nat /\ Cardinality(Published) \in Nat /\ Cardinality(Published') \in Nat
    BY <1>1, FS_CardinalityType, TypeParts, OpensCounted DEF TInv, SharedTyped, GenRecords
  <1> QED BY <1>2, <1>3 DEF TInv, Counted

\* A step that changes the map attempt of a live session, and no group's phase.
LEMMA MapChanged ==
    ASSUME TInv, NEW s \in Sessions, NEW x \in ReaderMapRecords,
           x.projection # "none" => x.holder \in Maps,
           sessions' = [sessions EXCEPT ![s].map = x],
           groups' \in [Opens -> GroupRecords],
           \A o \in Opens : groups'[o].phase = groups[o].phase,
           SharedTyped', gen'.handoffs = gen.handoffs, UNCHANGED writerVars
    PROVE  TInv'
  <1>0. ReaderTyped /\ Seated /\ Reserving
    BY TypeParts DEF TInv
  <1>1. /\ sessions' \in [Sessions -> SessionRecords]
        /\ \A r \in Sessions : /\ sessions'[r].phase = sessions[r].phase
                               /\ sessions'[r].open = sessions[r].open
                               /\ sessions'[r].thread = sessions[r].thread
                               /\ sessions'[r].map = IF r = s THEN x ELSE sessions[r].map
    BY <1>0 DEF ReaderTyped, SessionRecords
  <1>2. Seated'
    BY <1>0, <1>1 DEF Seated
  <1>3. Alive' = Alive
    BY <1>1 DEF Alive
  <1>4. Reserving'
    BY <1>0, <1>1, <1>2, <1>3 DEF Reserving, Seated
  <1>5. Counted'
    BY CountedKept DEF Published
  <1> QED BY <1>1, <1>2, <1>4, <1>5, ReaderStep DEF ReaderTyped

LEMMA InFlight ==
    ASSUME TInv, NEW s \in Sessions, ReaderMapInFlight(s) \/ s \in Alive
    PROVE  /\ sessions[s].phase \in {"reserved", "owner"}
           /\ sessions[s].open \in Opens /\ sessions[s].thread \in Threads
           /\ sessions[s].map \in ReaderMapRecords
           /\ groups[sessions[s].open] \in GroupRecords
           /\ ReaderMapInFlight(s) => sessions[s].map.page \in Pages
  BY TypeParts DEF TInv, ReaderMapInFlight, Alive, Seated, ReaderTyped, SessionRecords,
                   ReaderMapRecords

LEMMA MapAttemptTInv ==
    ASSUME TInv, NEW s \in Sessions,
           (\E p \in Pages : BeginReader(s, p)) \/ PrepareProjection(s) \/ AttachProjection(s)
    PROVE  TInv'
  <1>0. ReaderTyped /\ SharedTyped /\ Seated
    BY TypeParts DEF TInv
  <1>1. UNCHANGED <<writerVars, gen, groups, quarantined>>
    BY DEF BeginReader, PrepareProjection, AttachProjection
  <1>2. PICK x \in ReaderMapRecords :
          (x.projection # "none" => x.holder \in Maps) /\ sessions' = [sessions EXCEPT ![s].map = x]
    <2>1. ASSUME NEW p \in Pages, BeginReader(s, p)
          PROVE  \E x \in ReaderMapRecords : x.projection = "none"
                                             /\ sessions' = [sessions EXCEPT ![s].map = x]
      <3> DEFINE x == [NoReaderMap EXCEPT !.page = p, !.size = gen.size,
                           !.count = Cardinality(gen.pages), !.blocker = ~Known(s, p)]
      <3>1. sessions' = [sessions EXCEPT ![s].map = x]
        BY <2>1 DEF BeginReader
      <3>2. Cardinality(gen.pages) \in Nat
        BY <1>0, PagesAssumption, FS_Subset, FS_CardinalityType DEF SharedTyped, GenRecords
      <3>3. x \in ReaderMapRecords /\ x.projection = "none"
        BY <1>0, <3>2 DEF NoReaderMap, ReaderMapRecords, ProjectionPhase, SharedTyped, GenRecords
      <3> QED BY <3>1, <3>3
    <2>2. CASE PrepareProjection(s)
      <3>1. PICK m \in Maps : sessions' = [sessions EXCEPT ![s].map.projection = "reserved",
                                                           ![s].map.holder = m]
        BY <2>2 DEF PrepareProjection
      <3> DEFINE x == [sessions[s].map EXCEPT !.projection = "reserved", !.holder = m]
      <3>2. x \in ReaderMapRecords /\ x.holder \in Maps
        <4>1. sessions[s].map \in ReaderMapRecords
          BY <1>0 DEF ReaderTyped, SessionRecords
        <4> QED BY <4>1 DEF ReaderMapRecords, ProjectionPhase
      <3>3. sessions' = [sessions EXCEPT ![s].map = x]
        BY <1>0, <3>1 DEF ReaderTyped, SessionRecords, ReaderMapRecords
      <3> QED BY <3>2, <3>3
    <2>3. CASE AttachProjection(s)
      <3> DEFINE x == [sessions[s].map EXCEPT !.projection = "permit"]
      <3>1. sessions[s].map.holder \in Maps
        BY <1>0, <2>3 DEF AttachProjection, Seated
      <3>2. x \in ReaderMapRecords /\ x.holder \in Maps
        BY <1>0, <3>1 DEF ReaderTyped, SessionRecords, ReaderMapRecords, ProjectionPhase
      <3>3. sessions' = [sessions EXCEPT ![s].map = x]
        BY <1>0, <2>3 DEF AttachProjection, ReaderTyped, SessionRecords, ReaderMapRecords
      <3> QED BY <3>2, <3>3
    <2> QED BY <2>1, <2>2, <2>3
  <1> QED BY <1>0, <1>1, <1>2, MapChanged DEF ReaderTyped, SharedTyped

\* A first session: of a published group, or the one that reserves a group.
LEMMA AdmitSessionTInv ==
    ASSUME TInv, NEW s \in Sessions, NEW o \in Opens, NEW t \in Threads, AdmitSession(s, o, t)
    PROVE  TInv'
  <1>0. ReaderTyped /\ SharedTyped /\ Seated /\ Reserving
    BY TypeParts DEF TInv
  <1>1. UNCHANGED <<writerVars, gen, quarantined>> /\ sessions[s].phase = "unused"
    BY DEF AdmitSession
  <1>2. SharedTyped'
    BY <1>0, <1>1 DEF SharedTyped
  <1>3. ASSUME NEW p \in {"reserved", "owner"}, NEW g \in Nat,
               sessions' = [sessions EXCEPT ![s] =
                  [phase |-> p, open |-> o, thread |-> t, gen |-> g, map |-> NoReaderMap]]
        PROVE  /\ sessions' \in [Sessions -> SessionRecords]
               /\ Seated'
               /\ sessions'[s].phase = p /\ sessions'[s].open = o
               /\ \A r \in Sessions \ {s} : sessions'[r] = sessions[r]
               /\ Alive' = Alive \cup {s} /\ s \notin Alive
    <2>1. sessions'[s] = [phase |-> p, open |-> o, thread |-> t, gen |-> g, map |-> NoReaderMap]
          /\ \A r \in Sessions \ {s} : sessions'[r] = sessions[r]
      BY <1>0, <1>3 DEF ReaderTyped
    <2>2. sessions'[s] \in SessionRecords
      BY <2>1, ConstantsTyped DEF SessionRecords, SessionPhase
    <2>3. sessions' \in [Sessions -> SessionRecords]
      BY <1>0, <1>3, <2>1, <2>2 DEF ReaderTyped
    <2>4. NoReaderMap.projection = "none"
      BY DEF NoReaderMap
    <2>5. Seated'
      BY <1>0, <2>1, <2>4 DEF Seated
    <2>6. Alive' = Alive \cup {s} /\ s \notin Alive
      BY <1>1, <2>1 DEF Alive
    <2> QED BY <2>1, <2>3, <2>5, <2>6
  <1>4. CASE /\ groups[o].phase = "active"
             /\ sessions' = [sessions EXCEPT ![s] =
                   [phase |-> "owner", open |-> o, thread |-> t, gen |-> groups[o].gen,
                    map |-> NoReaderMap]]
             /\ UNCHANGED groups
    <2>1. groups[o].gen \in Nat
      BY <1>0 DEF ReaderTyped, GroupRecords
    <2>2. /\ sessions' \in [Sessions -> SessionRecords] /\ Seated'
          /\ sessions'[s].phase = "owner" /\ sessions'[s].open = o
          /\ \A r \in Sessions \ {s} : sessions'[r] = sessions[r]
          /\ Alive' = Alive \cup {s} /\ s \notin Alive
      BY <1>3, <1>4, <2>1
    <2>3. Reserving'
      BY <1>0, <1>4, <2>2 DEF Reserving
    <2>4. Counted'
      BY <1>1, <1>4, CountedKept DEF Published
    <2> QED BY <1>0, <1>1, <1>2, <1>4, <2>2, <2>3, <2>4, ReaderStep DEF ReaderTyped
  <1>5. CASE /\ groups[o].phase = "none"
             /\ sessions' = [sessions EXCEPT ![s] =
                   [phase |-> "reserved", open |-> o, thread |-> t, gen |-> gen.value,
                    map |-> NoReaderMap]]
             /\ groups' = [groups EXCEPT ![o] =
                   [NoGroup EXCEPT !.phase = "reserved", !.gen = gen.value]]
    <2>1. gen.value \in Nat
      BY <1>0 DEF SharedTyped, GenRecords
    <2>2. /\ sessions' \in [Sessions -> SessionRecords] /\ Seated'
          /\ sessions'[s].phase = "reserved" /\ sessions'[s].open = o
          /\ \A r \in Sessions \ {s} : sessions'[r] = sessions[r]
          /\ Alive' = Alive \cup {s} /\ s \notin Alive
      BY <1>3, <1>5, <2>1
    <2>3. /\ groups' \in [Opens -> GroupRecords] /\ groups'[o].phase = "reserved"
          /\ \A b \in Opens \ {o} : groups'[b] = groups[b]
      BY <1>0, <1>5, <2>1 DEF ReaderTyped, GroupRecords, NoGroup, GroupPhase
    <2>4. \A r \in Alive : sessions[r].open # o
      BY <1>0, <1>5 DEF Alive, Reserving
    <2>5. Reserving'
      <3> SUFFICES ASSUME NEW r \in Sessions
                   PROVE  /\ sessions'[r].phase = "reserved" =>
                               /\ groups'[sessions'[r].open].phase = "reserved"
                               /\ \A q \in Alive' : sessions'[q].open = sessions'[r].open => q = r
                          /\ sessions'[r].phase = "owner" =>
                               groups'[sessions'[r].open].phase \in {"active", "sealing", "terminal"}
        BY DEF Reserving
      <3>1. CASE r = s
        BY <2>2, <2>3, <2>4, <3>1 DEF Alive
      <3>2. CASE r # s
        <4>1. sessions'[r] = sessions[r]
          BY <2>2, <3>2
        <4>2. sessions[r].phase \in {"reserved", "owner"} =>
                sessions[r].open \in Opens \ {o}
          BY <1>0, <2>4 DEF Alive, Seated
        <4>3. sessions[r].phase = "reserved" =>
                \A q \in Alive' : sessions'[q].open = sessions[r].open => q = r
          <5> SUFFICES ASSUME sessions[r].phase = "reserved", NEW q \in Alive',
                              sessions'[q].open = sessions[r].open
                       PROVE  q = r
            OBVIOUS
          <5>1. q # s
            BY <2>2, <4>2
          <5>2. q \in Alive /\ sessions'[q] = sessions[q]
            BY <2>2, <5>1 DEF Alive
          <5> QED BY <1>0, <5>2 DEF Reserving
        <4> QED BY <1>0, <2>3, <4>1, <4>2, <4>3 DEF Reserving
      <3> QED BY <3>1, <3>2
    <2>6. Counted'
      <3>1. Published \subseteq Published'
        BY <1>5, <2>3 DEF Published
      <3> QED BY <1>1, <3>1, CountedKept
    <2> QED BY <1>1, <1>2, <2>2, <2>3, <2>5, <2>6, ReaderStep DEF ReaderTyped
  <1> QED BY Zenon, <1>4, <1>5 DEF AdmitSession

\* A session that ends; one that was to publish leaves no group behind.
LEMMA SessionEnded ==
    ASSUME TInv, NEW s \in Alive, NEW p \in {"done", "terminal"},
           sessions' = [sessions EXCEPT ![s] = [NoSession EXCEPT !.phase = p]],
           groups' \in [Opens -> GroupRecords],
           \A o \in Opens \ {sessions[s].open} : groups'[o] = groups[o],
           \/ sessions[s].phase = "reserved"
           \/ groups'[sessions[s].open].phase \in {groups[sessions[s].open].phase, "terminal"},
           SharedTyped', gen'.handoffs = gen.handoffs, UNCHANGED writerVars
    PROVE  TInv'
  <1> DEFINE old == sessions[s].open
  <1>0. ReaderTyped /\ Seated /\ Reserving /\ s \in Sessions
    BY TypeParts DEF TInv, Alive
  <1>1. /\ sessions' \in [Sessions -> SessionRecords]
        /\ sessions'[s].phase = p /\ sessions'[s].map.projection = "none"
        /\ \A r \in Sessions \ {s} : sessions'[r] = sessions[r]
    <2>1. [NoSession EXCEPT !.phase = p] \in SessionRecords
      BY ConstantsTyped DEF SessionPhase
    <2>2. /\ [NoSession EXCEPT !.phase = p].phase = p
          /\ [NoSession EXCEPT !.phase = p].map.projection = "none"
      BY DEF NoSession, NoReaderMap
    <2> QED BY <1>0, <2>1, <2>2 DEF ReaderTyped
  <1>2. Alive' = Alive \ {s}
    BY <1>1 DEF Alive
  <1>3. Seated'
    BY <1>0, <1>1 DEF Seated
  <1>4. Reserving'
    <2> SUFFICES ASSUME NEW r \in Alive'
                 PROVE  /\ sessions'[r].phase = "reserved" =>
                             /\ groups'[sessions'[r].open].phase = "reserved"
                             /\ \A q \in Alive' : sessions'[q].open = sessions'[r].open => q = r
                        /\ sessions'[r].phase = "owner" =>
                             groups'[sessions'[r].open].phase \in {"active", "sealing", "terminal"}
      BY DEF Reserving, Alive
    <2>1. r \in Alive /\ r # s /\ r \in Sessions /\ sessions'[r] = sessions[r]
          /\ sessions[r].open \in Opens
      BY <1>0, <1>1, <1>2 DEF Alive, Seated
    <2>2. \A q \in Alive' : q \in Alive /\ sessions'[q] = sessions[q]
      BY <1>1, <1>2 DEF Alive
    <2>3. CASE sessions[r].open # old
      <3>1. groups'[sessions[r].open] = groups[sessions[r].open]
        BY <2>1, <2>3
      <3>2. sessions[r].phase = "reserved" =>
              \A q \in Alive' : sessions[q].open = sessions[r].open => q = r
        BY <1>0, <2>1, <2>2 DEF Reserving
      <3>3. /\ sessions[r].phase = "reserved" => groups[sessions[r].open].phase = "reserved"
            /\ sessions[r].phase = "owner" =>
                 groups[sessions[r].open].phase \in {"active", "sealing", "terminal"}
        BY <1>0, <2>1 DEF Reserving
      <3>4. sessions'[r].phase = "reserved" =>
              \A q \in Alive' : sessions'[q].open = sessions'[r].open => q = r
        BY <2>1, <2>2, <3>2
      <3> QED BY <2>1, <3>1, <3>3, <3>4
    <2>4. CASE sessions[r].open = old
      <3>1. sessions[s].phase # "reserved" /\ sessions[r].phase # "reserved"
        BY <1>0, <2>1, <2>4 DEF Reserving
      <3> QED BY <1>0, <2>1, <2>4, <3>1 DEF Reserving
    <2> QED BY <2>3, <2>4
  <1>5. Counted'
    <2>1. Published \subseteq Published'
      <3> SUFFICES ASSUME NEW o \in Published PROVE o \in Published'
        OBVIOUS
      <3>1. CASE o # old
        BY <3>1 DEF Published
      <3>2. CASE o = old
        <4>1. sessions[s].phase # "reserved"
          BY <1>0, <3>2 DEF Reserving, Published
        <4> QED BY <3>2, <4>1 DEF Published
      <3> QED BY <3>1, <3>2
    <2> QED BY <2>1, CountedKept
  <1> QED BY <1>1, <1>3, <1>4, <1>5, ReaderStep DEF ReaderTyped

LEMMA QuarantineSessionTInv ==
    ASSUME TInv, NEW s \in Alive, QuarantineSession(s), UNCHANGED writerVars
    PROVE  TInv'
  <1> DEFINE o == sessions[s].open
  <1>1. /\ sessions' = [sessions EXCEPT ![s] = [NoSession EXCEPT !.phase = "terminal"]]
        /\ groups' = [groups EXCEPT ![o].phase = "terminal"]
        /\ Quarantine
    BY DEF QuarantineSession
  <1>2. o \in Opens /\ groups \in [Opens -> GroupRecords]
    BY InFlight, TypeParts DEF TInv, ReaderTyped, Alive
  <1>3. [groups[o] EXCEPT !.phase = "terminal"] \in GroupRecords
        /\ [groups[o] EXCEPT !.phase = "terminal"].phase = "terminal"
    BY <1>2 DEF GroupRecords, GroupPhase
  <1> HIDE DEF o
  <1>4. /\ groups' \in [Opens -> GroupRecords] /\ groups'[o].phase = "terminal"
        /\ \A b \in Opens \ {o} : groups'[b] = groups[b]
    BY <1>1, <1>2, <1>3
  <1>5. SharedTyped' /\ gen'.handoffs = gen.handoffs
    BY <1>1, QuarantineStep
  <1> QED BY <1>1, <1>4, <1>5, SessionEnded DEF o

LEMMA ZeroAttachmentTInv ==
    ASSUME TInv, NEW s \in Sessions, ZeroAttachment(s)
    PROVE  TInv'
  <1> DEFINE o == sessions[s].open
  <1>0. ReaderTyped /\ SharedTyped /\ UNCHANGED writerVars /\ ReaderMapInFlight(s)
    BY TypeParts DEF TInv, ZeroAttachment
  <1>1. s \in Alive /\ o \in Opens
    BY <1>0, InFlight DEF Alive
  <1>2. CASE QuarantineSession(s)
    BY <1>0, <1>1, <1>2, QuarantineSessionTInv
  <1>3. CASE /\ sessions[s].phase = "reserved"
             /\ sessions' = [sessions EXCEPT ![s] = [NoSession EXCEPT !.phase = "done"]]
             /\ groups' = [groups EXCEPT ![o] = NoGroup]
             /\ UNCHANGED <<gen, quarantined>>
    <2>1. groups' \in [Opens -> GroupRecords] /\ \A b \in Opens \ {o} : groups'[b] = groups[b]
      BY <1>0, <1>1, <1>3, ConstantsTyped DEF ReaderTyped
    <2> QED BY <1>0, <1>1, <1>3, <2>1, SessionEnded DEF SharedTyped
  <1>4. CASE /\ sessions' = [sessions EXCEPT ![s].map = NoReaderMap]
             /\ UNCHANGED groups
             /\ UNCHANGED <<gen, quarantined>>
    <2>1. NoReaderMap.projection = "none"
      BY DEF NoReaderMap
    <2> QED BY <1>0, <1>4, <2>1, ConstantsTyped, MapChanged DEF ReaderTyped, SharedTyped
  <1>5. QuarantineSession(s) \/
        /\ sessions' = [sessions EXCEPT ![s] =
                   IF sessions[s].phase = "reserved" THEN [NoSession EXCEPT !.phase = "done"]
                   ELSE [@ EXCEPT !.map = NoReaderMap]]
        /\ groups' = IF sessions[s].phase = "reserved"
                     THEN [groups EXCEPT ![o] = NoGroup] ELSE groups
        /\ UNCHANGED <<gen, quarantined>>
    BY Zenon DEF ZeroAttachment
  <1> QED BY <1>2, <1>3, <1>4, <1>5

LEMMA SessionOverTInv ==
    ASSUME TInv, NEW s \in Sessions, CompleteSession(s) \/ AbandonSession(s)
    PROVE  TInv'
  <1> DEFINE o == sessions[s].open
  <1>0. ReaderTyped /\ SharedTyped /\ UNCHANGED writerVars /\ s \in Alive
    BY TypeParts DEF TInv, CompleteSession, AbandonSession, Alive
  <1>1. CASE AbandonSession(s)
    BY <1>0, <1>1, QuarantineSessionTInv DEF AbandonSession
  <1>2. CASE CompleteSession(s)
    <2>1. o \in Opens
      BY <1>0, InFlight
    <2>2. /\ sessions' = [sessions EXCEPT ![s] = [NoSession EXCEPT !.phase = "done"]]
          /\ groups' = (IF sessions[s].phase = "reserved"
                        THEN [groups EXCEPT ![o] = NoGroup] ELSE groups)
          /\ UNCHANGED <<gen, quarantined>>
      BY <1>2 DEF CompleteSession
    <2>3. groups' \in [Opens -> GroupRecords] /\ \A b \in Opens \ {o} : groups'[b] = groups[b]
      BY <1>0, <2>1, <2>2, ConstantsTyped DEF ReaderTyped
    <2>4. sessions[s].phase = "reserved" \/ groups' = groups
      BY <2>2
    <2> QED BY <1>0, <2>2, <2>3, <2>4, SessionEnded DEF SharedTyped
  <1> QED BY <1>1, <1>2

\* A published page, and perhaps the hand-off that comes with the first one.
LEMMA CommitReaderTInv ==
    ASSUME TInv, NEW s \in Sessions, CommitReader(s)
    PROVE  TInv'
  <1> DEFINE session == sessions[s]
             o == session.open
             permit == session.map.projection = "permit"
             published == [sessions EXCEPT ![s].map = NoReaderMap, ![s].phase = "owner"]
             withPage == groups[o].pages \cup {session.map.page}
  <1>0. ReaderTyped /\ SharedTyped /\ Seated /\ Reserving /\ Counted
        /\ UNCHANGED writerVars /\ ReaderMapInFlight(s)
    BY TypeParts DEF TInv, CommitReader
  <1>1. /\ s \in Alive /\ o \in Opens /\ groups[o] \in GroupRecords
        /\ withPage \subseteq Pages /\ permit \in BOOLEAN
    BY <1>0, InFlight DEF Alive, GroupRecords
  <1>2. NoReaderMap.projection = "none"
    BY DEF NoReaderMap
  <1>3. CASE QuarantineSession(s)
    BY <1>0, <1>1, <1>3, QuarantineSessionTInv
  <1>4. CASE /\ sessions' = [sessions EXCEPT ![s].map = NoReaderMap]
             /\ Quarantine
             /\ UNCHANGED groups
    BY <1>0, <1>2, <1>4, QuarantineStep, ConstantsTyped, MapChanged DEF ReaderTyped
  <1>5. CASE /\ session.phase = "owner"
             /\ sessions' = published
             /\ groups' = [groups EXCEPT ![o].pages = withPage]
             /\ UNCHANGED <<gen, quarantined>>
    <2>1. sessions' = [sessions EXCEPT ![s].map = NoReaderMap]
      BY <1>0, <1>5 DEF ReaderTyped, SessionRecords
    <2>2. [groups[o] EXCEPT !.pages = withPage] \in GroupRecords
          /\ [groups[o] EXCEPT !.pages = withPage].phase = groups[o].phase
      BY <1>1 DEF GroupRecords
    <2> HIDE DEF withPage, o, session, published, permit
    <2>3. /\ groups' \in [Opens -> GroupRecords]
          /\ \A b \in Opens : groups'[b].phase = groups[b].phase
      BY <1>0, <1>1, <1>5, <2>2 DEF ReaderTyped
    <2> QED BY <1>0, <1>2, <1>5, <2>1, <2>3, ConstantsTyped, MapChanged DEF SharedTyped
  <1>6. CASE /\ session.phase = "reserved"
             /\ sessions' = published
             /\ groups' = [groups EXCEPT ![o].phase = "active", ![o].pages = withPage,
                                         ![o].projected = permit]
             /\ gen' = [gen EXCEPT !.handoffs = @ + 1]
             /\ UNCHANGED quarantined
    <2>1. /\ sessions' \in [Sessions -> SessionRecords]
          /\ sessions'[s].phase = "owner" /\ sessions'[s].open = o
          /\ sessions'[s].thread = sessions[s].thread /\ sessions'[s].map = NoReaderMap
          /\ \A r \in Sessions \ {s} : sessions'[r] = sessions[r]
      BY <1>0, <1>6, ConstantsTyped DEF ReaderTyped, SessionRecords, SessionPhase
    <2>2. LET x == [groups[o] EXCEPT !.phase = "active", !.pages = withPage, !.projected = permit]
          IN x \in GroupRecords /\ x.phase = "active"
      BY <1>1 DEF GroupRecords, GroupPhase
    <2> HIDE DEF withPage, permit, published
    <2>3. /\ groups' \in [Opens -> GroupRecords] /\ groups'[o].phase = "active"
          /\ \A b \in Opens \ {o} : groups'[b] = groups[b]
      BY <1>0, <1>1, <1>6, <2>2 DEF ReaderTyped
    <2>4. Seated'
      BY <1>0, <1>1, <1>2, <2>1 DEF Seated, Alive
    <2>5. Alive' = Alive
      BY <1>1, <2>1 DEF Alive
    <2>6. Reserving'
      <3> SUFFICES ASSUME NEW r \in Alive
                   PROVE  /\ sessions'[r].phase = "reserved" =>
                               /\ groups'[sessions'[r].open].phase = "reserved"
                               /\ \A q \in Alive : sessions'[q].open = sessions'[r].open => q = r
                          /\ sessions'[r].phase = "owner" =>
                               groups'[sessions'[r].open].phase \in {"active", "sealing", "terminal"}
        BY <2>5 DEF Reserving, Alive
      <3>1. CASE r = s
        BY <2>1, <2>3, <3>1
      <3>2. CASE r # s
        <4>1. r \in Sessions /\ sessions'[r] = sessions[r] /\ sessions[r].open \in Opens \ {o}
          BY <1>0, <1>1, <1>6, <2>1, <3>2 DEF Reserving, Alive, Seated
        <4>2. \A q \in Alive : sessions'[q].open = sessions[q].open
          BY <2>1 DEF Alive
        <4> QED BY <1>0, <2>3, <4>1, <4>2 DEF Reserving
      <3> QED BY <3>1, <3>2
    <2>7. Published' = Published \cup {o} /\ o \notin Published
      <3>1. groups[o].phase = "reserved"
        BY <1>0, <1>6 DEF Reserving
      <3>2. \A b \in Opens : b \in Published' <=> b = o \/ b \in Published
        BY <2>3 DEF Published
      <3>3. Published' \subseteq Opens /\ Published \subseteq Opens
        BY DEF Published
      <3> QED BY <1>1, <3>1, <3>2, <3>3 DEF Published
    <2>8. /\ IsFiniteSet(Published)
          /\ Cardinality(Published) \in Nat
          /\ Cardinality(Published') = Cardinality(Published) + 1
          /\ Cardinality(Published') \leq Cardinality(Opens)
      <3>1. IsFiniteSet(Published) /\ Published \in SUBSET Opens
        BY OpensAssumption, FS_Subset DEF Published
      <3>2. Published' \in SUBSET Opens
        BY DEF Published
      <3> QED BY <2>7, <3>1, <3>2, OpensAssumption, FS_Subset, FS_AddElement, FS_CardinalityType
    <2>9. gen'.handoffs = gen.handoffs + 1 /\ gen.handoffs \in Nat
      BY <1>0, <1>6, OpensCounted DEF SharedTyped, GenRecords
    <2>10. Counted'
      BY <1>0, <2>8, <2>9 DEF Counted
    <2>11. SharedTyped'
      <3>1. gen.handoffs + 1 \in 0 .. Cardinality(Opens)
        BY <1>0, <2>8, <2>9, OpensCounted DEF Counted
      <3> QED BY <1>0, <1>6, <3>1 DEF SharedTyped, GenRecords
    <2> QED BY <1>0, <2>1, <2>3, <2>4, <2>6, <2>10, <2>11, ReaderStep DEF ReaderTyped
  <1>7. session.phase \in {"reserved", "owner"}
    BY <1>1 DEF Alive
  <1>8. \/ QuarantineSession(s)
        \/ /\ sessions' = [sessions EXCEPT ![s].map = NoReaderMap]
           /\ Quarantine
           /\ UNCHANGED groups
        \/ /\ session.phase = "owner"
           /\ sessions' = published
           /\ groups' = [groups EXCEPT ![o].pages = withPage]
           /\ UNCHANGED <<gen, quarantined>>
        \/ /\ session.phase # "owner"
           /\ sessions' = published
           /\ groups' = [groups EXCEPT ![o].phase = "active", ![o].pages = withPage,
                                       ![o].projected = permit]
           /\ gen' = [gen EXCEPT !.handoffs = @ + 1]
           /\ UNCHANGED quarantined
    BY Zenon DEF CommitReader
  <1> QED BY <1>3, <1>4, <1>5, <1>6, <1>7, <1>8

\* A group moves on, but not out of what is published.
LEMMA GroupMoved ==
    ASSUME TInv, NEW o \in Opens, NEW new \in GroupRecords,
           groups[o].phase \notin {"none", "reserved"},
           new.phase \in {"active", "sealing", "admitted", "terminal"},
           LiveSessions(o) # {} => new.phase # "admitted",
           groups' = [groups EXCEPT ![o] = new],
           SharedTyped', gen'.handoffs = gen.handoffs, UNCHANGED <<writerVars, sessions>>
    PROVE  TInv'
  <1>0. ReaderTyped /\ Seated /\ Reserving
    BY TypeParts DEF TInv
  <1>1. /\ groups' \in [Opens -> GroupRecords] /\ groups'[o] = new
        /\ \A b \in Opens \ {o} : groups'[b] = groups[b]
    BY <1>0 DEF ReaderTyped
  <1>2. Seated' /\ Alive' = Alive
    BY <1>0 DEF Seated, Alive
  <1>3. Reserving'
    <2> SUFFICES ASSUME NEW r \in Alive
                 PROVE  /\ sessions[r].phase = "reserved" =>
                             /\ groups'[sessions[r].open].phase = "reserved"
                             /\ \A q \in Alive : sessions[q].open = sessions[r].open => q = r
                        /\ sessions[r].phase = "owner" =>
                             groups'[sessions[r].open].phase \in {"active", "sealing", "terminal"}
      BY <1>2 DEF Reserving, Alive
    <2>1. CASE sessions[r].open = o
      <3>1. LiveSessions(o) # {}
        BY <2>1 DEF Alive, LiveSessions
      <3>2. sessions[r].phase # "reserved"
        BY <1>0, <2>1 DEF Reserving, Alive
      <3> QED BY <1>1, <2>1, <3>1, <3>2
    <2>2. CASE sessions[r].open # o
      <3>1. r \in Sessions /\ sessions[r].open \in Opens \ {o}
        BY <1>0, <2>2 DEF Seated, Alive
      <3> QED BY <1>0, <1>1, <3>1 DEF Reserving, Alive
    <2> QED BY <2>1, <2>2
  <1>4. Published \subseteq Published'
    BY <1>1 DEF Published
  <1> QED BY <1>0, <1>1, <1>2, <1>3, <1>4, CountedKept, ReaderStep DEF ReaderTyped

LEMMA GroupTInv ==
    ASSUME TInv, NEW o \in Opens,
           \/ \E t \in Threads : BeginUnmap(o, t)
           \/ PollUnmapCut(o) \/ FailUnmapWait(o) \/ AbandonGroup(o)
    PROVE  TInv'
  <1>0. ReaderTyped /\ SharedTyped /\ groups[o] \in GroupRecords
    BY TypeParts DEF TInv, ReaderTyped
  <1>1. ASSUME NEW t \in Threads, BeginUnmap(o, t)
        PROVE  TInv'
    <2> DEFINE same == \E s \in LiveSessions(o) : sessions[s].thread = t
               p == IF LiveSessions(o) = {} THEN "admitted" ELSE IF same THEN "terminal" ELSE "sealing"
               new == [groups[o] EXCEPT !.phase = p, !.thread = t]
    <2>1. /\ groups[o].phase = "active"
          /\ groups' = [groups EXCEPT ![o].phase = p, ![o].thread = t]
          /\ Quarantine \/ UNCHANGED <<gen, quarantined>>
          /\ UNCHANGED <<writerVars, sessions>>
      BY <1>1 DEF BeginUnmap
    <2>2. /\ p \in {"active", "sealing", "admitted", "terminal"}
          /\ LiveSessions(o) # {} => p # "admitted"
      OBVIOUS
    <2> HIDE DEF p
    <2>3. new \in GroupRecords /\ new.phase = p
      BY <1>0, <2>2 DEF GroupRecords, GroupPhase
    <2>4. groups' = [groups EXCEPT ![o] = new]
      BY <1>0, <2>1 DEF ReaderTyped, GroupRecords
    <2>5. SharedTyped' /\ gen'.handoffs = gen.handoffs
      BY <1>0, <2>1, QuarantineStep DEF SharedTyped
    <2> HIDE DEF new
    <2> QED BY <2>1, <2>2, <2>3, <2>4, <2>5, GroupMoved
  <1>2. CASE PollUnmapCut(o)
    <2> DEFINE new == [groups[o] EXCEPT !.phase = "admitted"]
    <2>1. new \in GroupRecords /\ new.phase = "admitted"
      BY <1>0 DEF GroupRecords, GroupPhase
    <2>2. groups' = [groups EXCEPT ![o] = new]
      BY <1>2 DEF PollUnmapCut
    <2> QED BY <1>0, <1>2, <2>1, <2>2, GroupMoved DEF PollUnmapCut, SharedTyped
  <1>3. CASE FailUnmapWait(o) \/ AbandonGroup(o)
    <2> DEFINE new == [groups[o] EXCEPT !.phase = "terminal"]
    <2>1. /\ groups[o].phase \in {"active", "sealing", "admitted"}
          /\ groups' = [groups EXCEPT ![o] = new]
          /\ Quarantine /\ UNCHANGED <<writerVars, sessions>>
      BY <1>3 DEF FailUnmapWait, AbandonGroup, LoseGroup
    <2>2. new \in GroupRecords /\ new.phase = "terminal"
      BY <1>0 DEF GroupRecords, GroupPhase
    <2>3. SharedTyped' /\ gen'.handoffs = gen.handoffs
      BY <2>1, QuarantineStep
    <2> QED BY <2>1, <2>2, <2>3, GroupMoved
  <1> QED BY <1>1, <1>2, <1>3

\* The hand-off of a group that is unmapped no longer counts.
LEMMA CompleteUnmapTInv ==
    ASSUME TInv, NEW o \in Opens, CompleteUnmap(o)
    PROVE  TInv'
  <1>0. ReaderTyped /\ SharedTyped /\ Seated /\ Reserving /\ Counted /\ groups[o] \in GroupRecords
    BY TypeParts DEF TInv, ReaderTyped
  <1>1. groups[o].phase = "admitted" /\ UNCHANGED <<writerVars, sessions>>
    BY DEF CompleteUnmap
  <1>2. CASE groups[o].gen = gen.value /\ gen.handoffs > 0
    <2>1. /\ groups' = [groups EXCEPT ![o] = NoGroup]
          /\ gen' = (IF gen.phase = "retired" /\ gen.handoffs = 1
                     THEN NoGen ELSE [gen EXCEPT !.handoffs = @ - 1])
          /\ UNCHANGED quarantined
      BY <1>2 DEF CompleteUnmap
    <2>2. /\ groups' \in [Opens -> GroupRecords] /\ groups'[o].phase = "none"
          /\ \A b \in Opens \ {o} : groups'[b] = groups[b]
      <3>1. NoGroup.phase = "none"
        BY DEF NoGroup
      <3> QED BY <1>0, <2>1, <3>1, ConstantsTyped DEF ReaderTyped
    <2>3. gen.handoffs \in 1 .. Cardinality(Opens)
      BY <1>0, <1>2, OpensCounted DEF SharedTyped, GenRecords
    <2>4. SharedTyped' /\ gen'.handoffs = gen.handoffs - 1
      <3>1. NoGen.handoffs = 0
        BY DEF NoGen
      <3>2. gen.handoffs - 1 \in 0 .. Cardinality(Opens)
        BY <2>3, OpensCounted
      <3>3. [gen EXCEPT !.handoffs = @ - 1] \in GenRecords
            /\ [gen EXCEPT !.handoffs = @ - 1].handoffs = gen.handoffs - 1
        BY <1>0, <3>2 DEF SharedTyped, GenRecords
      <3> QED BY <1>0, <2>1, <2>3, <3>1, <3>3, NoGenTyped DEF SharedTyped
    <2>5. Published' = Published \ {o} /\ o \in Published
      BY <1>1, <2>2 DEF Published
    <2>6. IsFiniteSet(Published) /\ Cardinality(Published) \in Nat
      BY OpensAssumption, FS_Subset, FS_CardinalityType DEF Published
    <2>7. Cardinality(Published') = Cardinality(Published) - 1
      BY <2>5, <2>6, FS_RemoveElement
    <2>8. Counted'
      BY <1>0, <2>3, <2>4, <2>6, <2>7, OpensCounted DEF Counted
    <2>9. Seated' /\ Alive' = Alive
      BY <1>0, <1>1 DEF Seated, Alive
    <2>10. \A r \in Alive : r \in Sessions /\ sessions[r].open \in Opens \ {o}
      BY <1>0, <1>1 DEF Reserving, Seated, Alive
    <2>11. Reserving'
      BY <1>0, <1>1, <2>2, <2>9, <2>10 DEF Reserving, Alive
    <2> QED BY <1>0, <1>1, <2>2, <2>4, <2>8, <2>9, <2>11, ReaderStep DEF ReaderTyped
  <1>3. CASE ~(groups[o].gen = gen.value /\ gen.handoffs > 0)
    <2> DEFINE new == [groups[o] EXCEPT !.phase = "terminal"]
    <2>1. groups' = [groups EXCEPT ![o] = new] /\ Quarantine
      BY <1>3 DEF CompleteUnmap
    <2>2. new \in GroupRecords /\ new.phase = "terminal"
      BY <1>0 DEF GroupRecords, GroupPhase
    <2>3. SharedTyped' /\ gen'.handoffs = gen.handoffs
      BY <2>1, QuarantineStep
    <2> QED BY <1>1, <2>1, <2>2, <2>3, GroupMoved
  <1> QED BY <1>2, <1>3

-----------------------------------------------------------------------------
(* The invariant *)

LEMMA TInvInit == Init => TInv
  <1> SUFFICES ASSUME Init PROVE TInv
    OBVIOUS
  <1>1. WriterTyped
    BY ConstantsTyped DEF Init, WriterTyped, AttRecords, AttPhase, GatePhase
  <1>2. ReaderTyped /\ SharedTyped
    BY ConstantsTyped, NoGenTyped DEF Init, ReaderTyped, SharedTyped
  <1>3. Belongs /\ Placed
    BY NoneAssumption DEF Init, NoMap, Belongs, Placed, Members, Attempting
  <1>4. Seated /\ Reserving
    BY DEF Init, NoSession, NoReaderMap, Seated, Reserving
  <1>5. Counted
    <2>1. Published = {}
      BY DEF Init, NoGroup, Published
    <2> QED BY <2>1, FS_EmptySet DEF Init, NoGen, Counted
  <1> QED BY <1>1, <1>2, <1>3, <1>4, <1>5, TypeParts DEF TInv

LEMMA TInvNext == TInv /\ [Next]_vars => TInv'
  <1> SUFFICES ASSUME TInv, [Next]_vars PROVE TInv'
    OBVIOUS
  <1>1. CASE Writer
    <2>1. ASSUME NEW m \in Maps, NEW t \in Threads, BeginWriterCleanup(m, t) \/ ReleaseHolder(m, t)
          PROVE  TInv'
      <3>1. /\ \E waits \in BOOLEAN : Seal(m, t, waits)
            /\ maps[m].phase \in Attempting \cup {"active"}
            /\ UNCHANGED <<elig, minted, installing, readerVars, shmSize>>
        BY <2>1 DEF BeginWriterCleanup, ReleaseHolder, Attempting
      <3> QED BY <3>1, SealTInv
    <2>2. ASSUME NEW m \in Maps,
                 \/ RecordNativeMapping(m) \/ WriterMapFails(m) \/ InstallPending(m)
                 \/ CompleteGateWinning(m) \/ AbandonWriter(m)
          PROVE  TInv'
      BY <2>2, NativeTInv, WriterMapFailsTInv, CompleteGateWinningTInv, AbandonWriterTInv
    <2>3. ASSUME NEW a \in Attachments,
                 \/ InstallEligibility(a) \/ RevokeEligibility(a) \/ AdvanceGate(a)
                 \/ PollRetirement(a) \/ FailRetirementWait(a) \/ AbandonCleanup(a)
                 \/ CompleteCleanup(a, TRUE) \/ CompleteCleanup(a, FALSE)
          PROVE  TInv'
      BY <2>3, EligibilityTInv, AdvanceGateTInv, CleanupTInv, CompleteCleanupTInv
    <2> QED BY <1>1, <2>1, <2>2, <2>3, BeginWriterTInv DEF Writer
  <1>2. CASE Reader
    <2>1. ASSUME NEW s \in Sessions,
                 \/ \E p \in Pages : BeginReader(s, p)
                 \/ PrepareProjection(s) \/ AttachProjection(s) \/ CommitReader(s)
                 \/ ZeroAttachment(s) \/ CompleteSession(s) \/ AbandonSession(s)
          PROVE  TInv'
      BY <2>1, MapAttemptTInv, CommitReaderTInv, ZeroAttachmentTInv, SessionOverTInv
    <2>2. ASSUME NEW o \in Opens,
                 \/ \E t \in Threads : BeginUnmap(o, t)
                 \/ PollUnmapCut(o) \/ FailUnmapWait(o) \/ AbandonGroup(o) \/ CompleteUnmap(o)
          PROVE  TInv'
      BY <2>2, GroupTInv, CompleteUnmapTInv
    <2> QED BY <1>2, <2>1, <2>2, AdmitSessionTInv DEF Reader
  <1>3. CASE UNCHANGED vars
    <2>1. UNCHANGED <<maps, atts, elig, gen, minted, installing, sessions, groups, shmSize,
                      quarantined>>
      BY <1>3 DEF vars, readerVars
    <2>2. Belongs' /\ Placed'
      BY <2>1, BelongsKept DEF TInv, Placed
    <2>3. TypeOK'
      BY <2>1, TypeParts, TypePartsNext DEF TInv, WriterTyped, ReaderTyped, SharedTyped
    <2>4. Seated' /\ Reserving' /\ Counted'
      BY <2>1 DEF TInv, Seated, Reserving, Alive, Counted, Published
    <2> QED BY <2>2, <2>3, <2>4 DEF TInv
  <1> QED BY <1>1, <1>2, <1>3 DEF Next

\* The types are kept by every operation; in particular a generation never waits
\* for more hand-offs than there are readers.
THEOREM LeaseTypeCorrect == Spec => []TypeOK
  <1>1. TInv => TypeOK
    BY DEF TInv
  <1> QED BY TInvInit, TInvNext, <1>1, PTL DEF Spec

-----------------------------------------------------------------------------
(* The invariant behind retirement.  All of it is about a family that is not *)
(* quarantined.                                                              *)

Owners == {a \in Attachments : atts[a].phase \in {"last_waiting", "last_admitted"}}

\* A generation that is not there is not in any phase that matters.
PhaseHonest == gen.phase # "quarantined" /\ (gen.value = 0 => gen.phase = "retired")

\* What is not decided, or holds a page, has an attachment nobody cleans up.
InCollecting ==
    \A m \in Maps : maps[m].phase \in Attempting \cup {"active"} =>
        atts[maps[m].att].phase = "collecting"

OneOwner ==
    /\ gen.phase = "retiring" => \E a \in Attachments : Owners = {a}
    /\ \A a \in Attachments : atts[a].phase = "last_admitted" => gen.phase = "retiring"

\* A generation that drains has no holder, and one that is over no attempt.
Drained ==
    gen.value # 0 /\ gen.phase \in {"retiring", "retired"} =>
        \A m \in Maps : maps[m].phase # "active"
Settled ==
    gen.value # 0 /\ gen.phase = "retired" => \A m \in Maps : maps[m].phase \notin Attempting

\* What the decision to unmap the last attachment found is true until it is done.
StillUnused == \A a \in Attachments : atts[a].phase = "last_admitted" => ~Resolving(a)

\* A thread that waits to clean up is in no callback that could be waiting for it.
WaitsAlone ==
    \A a \in Attachments : atts[a].phase = "last_waiting" =>
        LET t == atts[a].cleanupThread IN
        /\ \A m \in Maps : maps[m].phase \in Attempting => maps[m].thread # t
        /\ \A b \in Attachments \ {a} : atts[b].phase \in CleaningPhase => atts[b].cleanupThread # t
        /\ \A s \in Sessions : ReaderMapInFlight(s) => sessions[s].thread # t

Retirement == PhaseHonest /\ InCollecting /\ OneOwner /\ Drained /\ Settled /\ StillUnused
SInv == quarantined \/ Retirement

\* Nothing takes a quarantine back.
LEMMA QuarantineSticky == TInv /\ [Next]_vars /\ quarantined => quarantined'
  <1> SUFFICES ASSUME TInv, [Next]_vars, quarantined PROVE quarantined'
    OBVIOUS
  <1>1. Quarantine => quarantined'
    BY DEF Quarantine
  <1>2. ASSUME NEW s \in Sessions, QuarantineSession(s) PROVE quarantined'
    BY <1>1, <1>2 DEF QuarantineSession
  <1>3. CASE Writer
    <2>1. ASSUME NEW m \in Maps, NEW t, NEW waits, Seal(m, t, waits) PROVE quarantined'
      BY <1>1, <2>1 DEF Seal
    <2>2. ASSUME NEW m \in Maps, NEW t \in Threads, BeginWriterCleanup(m, t) \/ ReleaseHolder(m, t)
          PROVE  quarantined'
      BY <2>1, <2>2 DEF BeginWriterCleanup, ReleaseHolder
    <2>3. ASSUME NEW m \in Maps,
                 \/ RecordNativeMapping(m) \/ WriterMapFails(m) \/ InstallPending(m)
                 \/ CompleteGateWinning(m) \/ AbandonWriter(m)
          PROVE  quarantined'
      BY <1>1, <2>3
         DEF RecordNativeMapping, WriterMapFails, InstallPending, CompleteGateWinning, AbandonWriter
    <2>4. ASSUME NEW a \in Attachments,
                 \/ InstallEligibility(a) \/ RevokeEligibility(a) \/ AdvanceGate(a)
                 \/ PollRetirement(a) \/ FailRetirementWait(a) \/ AbandonCleanup(a)
                 \/ CompleteCleanup(a, TRUE) \/ CompleteCleanup(a, FALSE)
          PROVE  quarantined'
      BY <1>1, <2>4
         DEF InstallEligibility, RevokeEligibility, AdvanceGate, PollRetirement,
             FailRetirementWait, AbandonCleanup, CompleteCleanup
    <2>5. ASSUME NEW m \in Maps, NEW a \in Attachments, NEW t \in Threads, NEW p \in Pages,
                 BeginWriter(m, a, t, p)
          PROVE  quarantined'
      BY <2>5 DEF BeginWriter
    <2> QED BY <1>3, <2>2, <2>3, <2>4, <2>5 DEF Writer
  <1>4. CASE Reader
    <2>1. ASSUME NEW s \in Sessions,
                 \/ \E p \in Pages : BeginReader(s, p)
                 \/ PrepareProjection(s) \/ AttachProjection(s) \/ CompleteSession(s)
          PROVE  quarantined'
      BY <2>1 DEF BeginReader, PrepareProjection, AttachProjection, CompleteSession
    <2>2. ASSUME NEW s \in Sessions, ZeroAttachment(s) \/ AbandonSession(s)
          PROVE  quarantined'
      BY <1>2, <2>2 DEF ZeroAttachment, AbandonSession
    <2>3. ASSUME NEW s \in Sessions, CommitReader(s)
          PROVE  quarantined'
      BY Zenon, <1>1, <1>2, <2>3 DEF CommitReader
    <2>4. ASSUME NEW o \in Opens,
                 \/ \E t \in Threads : BeginUnmap(o, t)
                 \/ PollUnmapCut(o) \/ FailUnmapWait(o) \/ AbandonGroup(o) \/ CompleteUnmap(o)
          PROVE  quarantined'
      BY <1>1, <2>4 DEF BeginUnmap, PollUnmapCut, FailUnmapWait, AbandonGroup, LoseGroup,
                        CompleteUnmap
    <2>5. ASSUME NEW s \in Sessions, NEW o \in Opens, NEW t \in Threads, AdmitSession(s, o, t)
          PROVE  quarantined'
      BY <2>5 DEF AdmitSession
    <2> QED BY <1>4, <2>1, <2>2, <2>3, <2>4, <2>5 DEF Reader
  <1>5. CASE UNCHANGED vars
    BY <1>5 DEF vars
  <1> QED BY <1>3, <1>4, <1>5 DEF Next

\* A step in which neither the phases of attempts and attachments nor the
\* generation's phase change, and nobody starts to resolve while it drains.
LEMMA RetirementKept ==
    ASSUME Retirement,
           gen'.phase = gen.phase, gen'.value = gen.value,
           \A m \in Maps : /\ maps'[m].phase \in Attempting => maps[m].phase \in Attempting
                           /\ maps'[m].phase = "active" => maps[m].phase = "active"
                           /\ maps'[m].phase \in Attempting \cup {"active"} =>
                                maps'[m].att = maps[m].att,
           \A a \in Attachments : atts'[a].phase = atts[a].phase,
           gen.phase = "retiring" => /\ BlockingReaderMaps' \subseteq BlockingReaderMaps
                                     /\ ReservedSessions' \subseteq ReservedSessions,
           TInv
    PROVE  Retirement'
  <1>1. PhaseHonest' /\ Drained' /\ Settled'
    BY DEF Retirement, PhaseHonest, Drained, Settled
  <1>2. InCollecting'
    <2> SUFFICES ASSUME NEW m \in Maps, maps'[m].phase \in Attempting \cup {"active"}
                 PROVE  atts'[maps'[m].att].phase = "collecting"
      BY DEF InCollecting
    <2>1. maps[m].phase \in Attempting \cup {"active"} /\ maps'[m].att = maps[m].att
      OBVIOUS
    <2>2. maps[m].att \in Attachments
      BY <2>1, MapHasAttachment DEF Attempting, Over
    <2> QED BY <2>1, <2>2 DEF Retirement, InCollecting
  <1>3. Owners' = Owners
    BY DEF Owners
  <1>4. OneOwner'
    BY <1>3 DEF Retirement, OneOwner
  <1>5. StillUnused'
    <2> SUFFICES ASSUME NEW a \in Attachments, atts'[a].phase = "last_admitted"
                 PROVE  ~Resolving(a)'
      BY DEF StillUnused
    <2>1. BlockingMaps(a)' \subseteq BlockingMaps(a)
      BY DEF BlockingMaps, Attempting
    <2>2. ~Resolving(a)
      BY DEF Retirement, StillUnused
    <2>3. gen.phase = "retiring"
      BY DEF Retirement, OneOwner
    <2> QED BY <2>1, <2>2, <2>3 DEF Resolving
  <1> QED BY <1>1, <1>2, <1>4, <1>5 DEF Retirement

\* The same, of a step of a reader.
LEMMA ReaderKeepsRetirement ==
    ASSUME TInv, Retirement, UNCHANGED writerVars,
           gen'.phase = gen.phase, gen'.value = gen.value,
           gen.phase = "retiring" => /\ BlockingReaderMaps' \subseteq BlockingReaderMaps
                                     /\ ReservedSessions' \subseteq ReservedSessions
    PROVE  Retirement'
  <1>1. maps' = maps /\ atts' = atts
    BY DEF writerVars
  <1> QED BY <1>1, RetirementKept

\* A reader's step takes nothing from a cleanup.
LEMMA ReaderRetirement ==
    ASSUME TInv, Retirement, Reader, ~quarantined'
    PROVE  Retirement'
  <1>0. ReaderTyped /\ SharedTyped
    BY TypeParts DEF TInv
  <1>1. ~Quarantine
    BY DEF Quarantine
  <1>2. \A s : ~QuarantineSession(s)
    BY <1>1 DEF QuarantineSession
  <1>3. ASSUME NEW s \in Sessions, NEW o \in Opens, NEW t \in Threads, AdmitSession(s, o, t)
        PROVE  Retirement'
    <2>1. UNCHANGED <<writerVars, gen, quarantined>>
      BY <1>3 DEF AdmitSession
    <2>2. CASE gen.phase # "retiring"
      BY <2>1, <2>2, ReaderKeepsRetirement
    <2>3. CASE gen.phase = "retiring"
      <3>1. PICK g : sessions' = [sessions EXCEPT ![s] =
                        [phase |-> "owner", open |-> o, thread |-> t, gen |-> g, map |-> NoReaderMap]]
        BY <1>3, <2>3 DEF AdmitSession, Borrowable
      <3>2. \A r \in Sessions \ {s} : sessions'[r] = sessions[r]
        BY <1>0, <3>1 DEF ReaderTyped
      <3>3. sessions'[s].phase = "owner" /\ sessions'[s].map.page = None
        BY <1>0, <3>1 DEF ReaderTyped, NoReaderMap
      <3>4. /\ BlockingReaderMaps' \subseteq BlockingReaderMaps
            /\ ReservedSessions' \subseteq ReservedSessions
        BY <3>2, <3>3 DEF BlockingReaderMaps, ReservedSessions, ReaderMapInFlight
      <3> QED BY <2>1, <3>4, ReaderKeepsRetirement
    <2> QED BY <2>2, <2>3
  <1>4. ASSUME NEW s \in Sessions, NEW p \in Pages, BeginReader(s, p)
        PROVE  Retirement'
    <2>1. UNCHANGED <<writerVars, gen, quarantined>>
      BY <1>4 DEF BeginReader
    <2>2. CASE gen.phase # "retiring"
      BY <2>1, <2>2, ReaderKeepsRetirement
    <2>3. CASE gen.phase = "retiring"
      <3>1. sessions' = [sessions EXCEPT ![s].map =
               [NoReaderMap EXCEPT !.page = p, !.size = gen.size,
                                   !.count = Cardinality(gen.pages), !.blocker = ~Known(s, p)]]
        BY <1>4 DEF BeginReader
      <3>2. Known(s, p)
        BY <1>4, <2>3 DEF BeginReader
      <3>3. /\ ~sessions'[s].map.blocker /\ sessions'[s].map.projection = "none"
            /\ sessions'[s].phase = sessions[s].phase
            /\ \A r \in Sessions \ {s} : sessions'[r] = sessions[r]
        BY <1>0, <3>1, <3>2 DEF ReaderTyped, SessionRecords, NoReaderMap
      <3>4. /\ BlockingReaderMaps' \subseteq BlockingReaderMaps
            /\ ReservedSessions' \subseteq ReservedSessions
        BY <3>3 DEF BlockingReaderMaps, ReservedSessions, ReaderMapInFlight
      <3> QED BY <2>1, <3>4, ReaderKeepsRetirement
    <2> QED BY <2>2, <2>3
  <1>5. ASSUME NEW s \in Sessions, PrepareProjection(s)
        PROVE  Retirement'
    BY <1>5, ReaderKeepsRetirement DEF PrepareProjection
  <1>6. ASSUME NEW s \in Sessions, AttachProjection(s)
        PROVE  Retirement'
    <2>1. UNCHANGED <<writerVars, gen, quarantined>> /\ s \in BlockingReaderMaps
      BY <1>6 DEF AttachProjection, BlockingReaderMaps
    <2>2. /\ sessions'[s].phase = sessions[s].phase
          /\ \A r \in Sessions \ {s} : sessions'[r] = sessions[r]
      BY <1>0, <1>6 DEF AttachProjection, ReaderTyped, SessionRecords
    <2>3. /\ BlockingReaderMaps' \subseteq BlockingReaderMaps
          /\ ReservedSessions' \subseteq ReservedSessions
      BY <2>1, <2>2 DEF BlockingReaderMaps, ReservedSessions, ReaderMapInFlight
    <2> QED BY <2>1, <2>3, ReaderKeepsRetirement
  <1>7. ASSUME NEW s \in Sessions,
               \/ sessions' = [sessions EXCEPT ![s] = [NoSession EXCEPT !.phase = "done"]]
               \/ sessions' = [sessions EXCEPT ![s].map = NoReaderMap]
               \/ sessions' = [sessions EXCEPT ![s].map = NoReaderMap, ![s].phase = "owner"]
        PROVE  /\ BlockingReaderMaps' \subseteq BlockingReaderMaps
               /\ ReservedSessions' \subseteq ReservedSessions
    <2>1. /\ sessions'[s].map.page = None
          /\ sessions'[s].phase \in {"done", "owner", sessions[s].phase}
          /\ \A r \in Sessions \ {s} : sessions'[r] = sessions[r]
      BY <1>0, <1>7 DEF ReaderTyped, SessionRecords, NoSession, NoReaderMap
    <2> QED BY <2>1 DEF BlockingReaderMaps, ReservedSessions, ReaderMapInFlight
  <1>8. ASSUME NEW s \in Sessions, CommitReader(s)
        PROVE  Retirement'
    <2>1. /\ UNCHANGED writerVars
          /\ sessions' = [sessions EXCEPT ![s].map = NoReaderMap, ![s].phase = "owner"]
          /\ gen' = gen \/ gen' = [gen EXCEPT !.handoffs = @ + 1]
      BY Zenon, <1>1, <1>2, <1>8 DEF CommitReader
    <2>2. gen'.phase = gen.phase /\ gen'.value = gen.value
      BY <1>0, <2>1 DEF SharedTyped, GenRecords
    <2> QED BY <1>7, <2>1, <2>2, ReaderKeepsRetirement
  <1>9. ASSUME NEW s \in Sessions, ZeroAttachment(s)
        PROVE  Retirement'
    <2>1. /\ UNCHANGED <<writerVars, gen>>
          /\ sessions' = [sessions EXCEPT ![s] =
                   IF sessions[s].phase = "reserved" THEN [NoSession EXCEPT !.phase = "done"]
                   ELSE [@ EXCEPT !.map = NoReaderMap]]
      BY Zenon, <1>2, <1>9 DEF ZeroAttachment
    <2>2. \/ sessions' = [sessions EXCEPT ![s] = [NoSession EXCEPT !.phase = "done"]]
          \/ sessions' = [sessions EXCEPT ![s].map = NoReaderMap]
      BY <2>1
    <2> QED BY <1>7, <2>1, <2>2, ReaderKeepsRetirement
  <1>10. ASSUME NEW s \in Sessions, CompleteSession(s)
         PROVE  Retirement'
    <2>1. /\ UNCHANGED <<writerVars, gen>>
          /\ sessions' = [sessions EXCEPT ![s] = [NoSession EXCEPT !.phase = "done"]]
      BY <1>10 DEF CompleteSession
    <2> QED BY <1>7, <2>1, ReaderKeepsRetirement
  <1>11. ASSUME UNCHANGED sessions
         PROVE  BlockingReaderMaps' = BlockingReaderMaps /\ ReservedSessions' = ReservedSessions
    BY <1>11 DEF BlockingReaderMaps, ReservedSessions, ReaderMapInFlight
  <1>12. ASSUME NEW o \in Opens, (\E t \in Threads : BeginUnmap(o, t)) \/ PollUnmapCut(o)
         PROVE  Retirement'
    <2>1. UNCHANGED <<writerVars, sessions, gen>>
      BY <1>1, <1>12 DEF BeginUnmap, PollUnmapCut
    <2> QED BY <1>11, <2>1, ReaderKeepsRetirement
  <1>13. ASSUME NEW o \in Opens, CompleteUnmap(o)
         PROVE  Retirement'
    <2>1. /\ UNCHANGED <<writerVars, sessions>>
          /\ \/ gen.phase = "retired" /\ gen' = NoGen
             \/ gen' = [gen EXCEPT !.handoffs = @ - 1]
      BY <1>1, <1>13 DEF CompleteUnmap
    <2>2. CASE gen' = [gen EXCEPT !.handoffs = @ - 1]
      <3>1. gen'.phase = gen.phase /\ gen'.value = gen.value
        BY <1>0, <2>2 DEF SharedTyped, GenRecords
      <3> QED BY <1>11, <2>1, <3>1, ReaderKeepsRetirement
    <2>3. CASE gen.phase = "retired" /\ gen' = NoGen
      <3>1. gen'.phase = "retired" /\ gen'.value = 0
        BY <2>3 DEF NoGen
      <3>2. maps' = maps /\ atts' = atts
        BY <2>1 DEF writerVars
      <3>3. \A a \in Attachments : atts[a].phase # "last_admitted"
        BY <2>3 DEF Retirement, OneOwner
      <3>4. InCollecting'
        BY <3>2 DEF Retirement, InCollecting
      <3> QED BY <3>1, <3>2, <3>3, <3>4
              DEF Retirement, PhaseHonest, OneOwner, Drained, Settled, StillUnused
    <2> QED BY <2>1, <2>2, <2>3
  <1>14. ASSUME NEW s \in Sessions, AbandonSession(s) PROVE FALSE
    BY <1>2, <1>14 DEF AbandonSession
  <1>15. ASSUME NEW o \in Opens, FailUnmapWait(o) \/ AbandonGroup(o) PROVE FALSE
    BY <1>1, <1>15 DEF FailUnmapWait, AbandonGroup, LoseGroup
  <1> QED BY <1>3, <1>4, <1>5, <1>6, <1>8, <1>9, <1>10, <1>12, <1>13, <1>14, <1>15 DEF Reader

\* Steps of a writer that decide nothing.
LEMMA AttemptRetirement ==
    ASSUME TInv, Retirement,
           \/ \E a \in Attachments : InstallEligibility(a) \/ RevokeEligibility(a)
           \/ \E m \in Maps : RecordNativeMapping(m) \/ InstallPending(m) \/ WriterMapFails(m)
    PROVE  Retirement'
  <1>0. WriterTyped
    BY TypeParts DEF TInv
  <1>1. UNCHANGED <<gen, readerVars>>
    BY DEF InstallEligibility, RevokeEligibility, RecordNativeMapping, InstallPending, WriterMapFails
  <1>2. BlockingReaderMaps' = BlockingReaderMaps /\ ReservedSessions' = ReservedSessions
    BY <1>1 DEF readerVars, BlockingReaderMaps, ReservedSessions, ReaderMapInFlight
  <1>3. \A a \in Attachments : atts'[a].phase = atts[a].phase
    <2>1. ASSUME NEW m \in Maps, WriterMapFails(m)
          PROVE  \A a \in Attachments : atts'[a].phase = atts[a].phase
      <3>1. atts' = [atts EXCEPT ![maps[m].att].members = Without(@, m)]
        BY <2>1 DEF WriterMapFails
      <3> QED BY <1>0, <3>1 DEF WriterTyped, AttRecords
    <2> QED BY <2>1 DEF InstallEligibility, RevokeEligibility, RecordNativeMapping, InstallPending
  <1>4. \A n \in Maps : /\ maps'[n].phase \in Attempting => maps[n].phase \in Attempting
                        /\ maps'[n].phase = "active" => maps[n].phase = "active"
                        /\ maps'[n].phase \in Attempting \cup {"active"} =>
                             maps'[n].att = maps[n].att
    <2>1. ASSUME NEW m \in Maps, RecordNativeMapping(m) \/ InstallPending(m)
          PROVE  /\ \A n \in Maps \ {m} : maps'[n] = maps[n]
                 /\ maps[m].phase \in Attempting /\ maps'[m].phase \in Attempting
                 /\ maps'[m].att = maps[m].att
      BY <1>0, <2>1 DEF RecordNativeMapping, InstallPending, WriterTyped, MapRecords, Attempting
    <2>2. ASSUME NEW m \in Maps, WriterMapFails(m)
          PROVE  (\A n \in Maps \ {m} : maps'[n] = maps[n]) /\ maps'[m].phase = "failed"
      BY <1>0, <2>2 DEF WriterMapFails, NoMap, WriterTyped
    <2>3. ASSUME NEW a \in Attachments, InstallEligibility(a) \/ RevokeEligibility(a)
          PROVE  maps' = maps
      BY <2>3 DEF InstallEligibility, RevokeEligibility
    <2>4. "failed" \notin Attempting \cup {"active"} /\ "active" \notin Attempting
      BY DEF Attempting
    <2> QED BY <2>1, <2>2, <2>3, <2>4
  <1> QED BY <1>1, <1>2, <1>3, <1>4, RetirementKept

\* A new attempt joins a generation that is live, or the one to come.
LEMMA BeginWriterRetirement ==
    ASSUME TInv, Retirement, NEW m \in Maps, NEW a \in Attachments, NEW t \in Threads,
           NEW p \in Pages, BeginWriter(m, a, t, p)
    PROVE  Retirement'
  <1>0. WriterTyped
    BY TypeParts DEF TInv
  <1>1. /\ UNCHANGED <<gen, readerVars>> /\ atts[a].phase = "collecting"
        /\ GenPresent => gen.phase = "live"
    BY DEF BeginWriter
  <1>2. \A b \in Attachments : atts'[b].phase = atts[b].phase
    BY <1>0 DEF BeginWriter, WriterTyped, AttRecords
  <1>3. /\ \A n \in Maps \ {m} : maps'[n] = maps[n]
        /\ maps'[m].phase = "inflight" /\ maps'[m].att = a
    BY <1>0 DEF BeginWriter, WriterTyped
  <1>4. gen.phase # "retiring" /\ ~(gen.value # 0 /\ gen.phase = "retired")
    BY <1>1 DEF Retirement, PhaseHonest, GenPresent
  <1>5. InCollecting'
    <2> SUFFICES ASSUME NEW n \in Maps, maps'[n].phase \in Attempting \cup {"active"}
                 PROVE  atts'[maps'[n].att].phase = "collecting"
      BY DEF InCollecting
    <2>1. CASE n = m
      BY <1>1, <1>2, <1>3, <2>1
    <2>2. CASE n # m
      <3>1. maps[n].att \in Attachments
        BY <1>3, <2>2, MapHasAttachment DEF Attempting, Over
      <3> QED BY <1>2, <1>3, <2>2, <3>1 DEF Retirement, InCollecting
    <2> QED BY <2>1, <2>2
  <1> QED BY <1>1, <1>2, <1>4, <1>5
          DEF Retirement, PhaseHonest, OneOwner, Owners, Drained, Settled, StillUnused

\* A promotion happens under a live generation, or makes one.
LEMMA PromoteRetirement ==
    ASSUME TInv, Retirement, NEW a \in Attachments, atts[a].phase = "collecting",
           NEW ms \in Seq(Maps), ms # <<>>, Promote(ms),
           \A i \in 1 .. Len(ms) : maps[ms[i]].phase \in Attempting,
           \A b \in Attachments : atts'[b].phase = atts[b].phase
    PROVE  Retirement'
  <1>1. /\ gen'.phase = "live" /\ gen'.value # 0
        /\ \A m \in Maps : /\ maps'[m].att = maps[m].att
                           /\ maps'[m].phase \in Attempting \cup {"active"} =>
                                maps[m].phase \in Attempting \cup {"active"}
    <2>1. \A m \in Maps : (\E i \in 1 .. Len(ms) : ms[i] = m) => maps[m].phase \in Attempting
      OBVIOUS
    <2> QED BY <2>1, PromoteTyped
  <1>2. gen.phase # "retiring"
    <2>1. Reserved(ms)
      BY DEF Promote
    <2> QED BY <2>1 DEF Reserved, GenPresent, Retirement, PhaseHonest
  <1>3. \A b \in Attachments : atts'[b].phase # "last_admitted"
    BY <1>2 DEF Retirement, OneOwner
  <1>4. InCollecting'
    <2> SUFFICES ASSUME NEW n \in Maps, maps'[n].phase \in Attempting \cup {"active"}
                 PROVE  atts'[maps'[n].att].phase = "collecting"
      BY DEF InCollecting
    <2>1. maps[n].phase \in Attempting \cup {"active"} /\ maps'[n].att = maps[n].att
      BY <1>1
    <2>2. maps[n].att \in Attachments
      BY <2>1, MapHasAttachment DEF Attempting, Over
    <2> QED BY <2>1, <2>2 DEF Retirement, InCollecting
  <1> QED BY <1>1, <1>3, <1>4 DEF Retirement, PhaseHonest, OneOwner, Drained, Settled, StillUnused

LEMMA GateRetirement ==
    ASSUME TInv, Retirement,
           \/ \E a \in Attachments : AdvanceGate(a)
           \/ \E m \in Maps : CompleteGateWinning(m)
    PROVE  Retirement'
  <1>0. WriterTyped
    BY TypeParts DEF TInv
  <1>1. ASSUME NEW a \in Attachments, AdvanceGate(a)
        PROVE  Retirement'
    <2>1. PICK g : atts' = [atts EXCEPT ![a].gate = g]
      BY <1>1, AdvanceGateEffect
    <2>2. \A b \in Attachments : atts'[b].phase = atts[b].phase
      BY <1>0, <2>1 DEF WriterTyped, AttRecords
    <2>3. atts[a].phase = "collecting" /\ UNCHANGED readerVars
      BY <1>1, AdvanceGateEffect
    <2>4. CASE UNCHANGED <<maps, gen>>
      <3>1. BlockingReaderMaps' = BlockingReaderMaps /\ ReservedSessions' = ReservedSessions
        BY <2>3 DEF readerVars, BlockingReaderMaps, ReservedSessions, ReaderMapInFlight
      <3> QED BY <2>2, <2>4, <3>1, RetirementKept
    <2>5. CASE /\ Promote(GateMembers(a)) /\ GateMembers(a) # <<>>
               /\ \A i \in 1 .. Len(GateMembers(a)) : maps[GateMembers(a)[i]].phase \in Attempting
      BY <2>2, <2>3, <2>5, GateMembersAre, PromoteRetirement
    <2> QED BY <1>1, <2>4, <2>5, AdvanceGateEffect
  <1>2. ASSUME NEW m \in Maps, CompleteGateWinning(m)
        PROVE  Retirement'
    <2>1. /\ Promote(<<m>>) /\ maps[m].phase = "post_native" /\ UNCHANGED atts
          /\ atts[maps[m].att].phase = "collecting"
      BY <1>2 DEF CompleteGateWinning
    <2>2. maps[m].att \in Attachments
      BY <2>1, MapHasAttachment DEF Over
    <2>3. <<m>> \in Seq(Maps) /\ <<m>> # <<>>
          /\ \A i \in 1 .. Len(<<m>>) : maps[(<<m>>)[i]].phase \in Attempting
      BY <2>1 DEF Attempting
    <2> QED BY <2>1, <2>2, <2>3, PromoteRetirement
  <1> QED BY <1>1, <1>2

-----------------------------------------------------------------------------
(* Threads that wait *)

\* No cleanup waits on this thread.
Free(t) == \A a \in Attachments : atts[a].phase = "last_waiting" => atts[a].cleanupThread # t

LEMMA IdleIsFree ==
    ASSUME NEW t, Idle(t)
    PROVE  Free(t)
  BY DEF Idle, Free, CleaningPhase

\* A step that makes no new wait, and starts callbacks on free threads only.
LEMMA WaitsKept ==
    ASSUME WaitsAlone,
           \A a \in Attachments : atts'[a].phase = "last_waiting" =>
              atts[a].phase = "last_waiting" /\ atts'[a].cleanupThread = atts[a].cleanupThread,
           \A m \in Maps : maps'[m].phase \in Attempting =>
              \/ maps[m].phase \in Attempting /\ maps'[m].thread = maps[m].thread
              \/ Free(maps'[m].thread),
           \A b \in Attachments : atts'[b].phase \in CleaningPhase =>
              \/ atts[b].phase \in CleaningPhase /\ atts'[b].cleanupThread = atts[b].cleanupThread
              \/ Free(atts'[b].cleanupThread),
           \A s \in Sessions : ReaderMapInFlight(s)' =>
              \/ ReaderMapInFlight(s) /\ sessions'[s].thread = sessions[s].thread
              \/ Free(sessions'[s].thread)
    PROVE  WaitsAlone'
  <1> SUFFICES ASSUME NEW a \in Attachments, atts'[a].phase = "last_waiting"
               PROVE  LET t == atts'[a].cleanupThread IN
                      /\ \A m \in Maps : maps'[m].phase \in Attempting => maps'[m].thread # t
                      /\ \A b \in Attachments \ {a} :
                           atts'[b].phase \in CleaningPhase => atts'[b].cleanupThread # t
                      /\ \A s \in Sessions : ReaderMapInFlight(s)' => sessions'[s].thread # t
    BY DEF WaitsAlone
  <1> DEFINE t == atts'[a].cleanupThread
  <1>1. atts[a].phase = "last_waiting" /\ t = atts[a].cleanupThread
    OBVIOUS
  <1>2. \A u : Free(u) => u # t
    BY <1>1 DEF Free
  <1>3. /\ \A m \in Maps : maps[m].phase \in Attempting => maps[m].thread # t
        /\ \A b \in Attachments \ {a} : atts[b].phase \in CleaningPhase => atts[b].cleanupThread # t
        /\ \A s \in Sessions : ReaderMapInFlight(s) => sessions[s].thread # t
    BY <1>1 DEF WaitsAlone
  <1> HIDE DEF t
  <1>4. \A m \in Maps : maps'[m].phase \in Attempting => maps'[m].thread # t
    BY <1>2, <1>3
  <1>5. \A b \in Attachments \ {a} : atts'[b].phase \in CleaningPhase => atts'[b].cleanupThread # t
    BY <1>2, <1>3
  <1>6. \A s \in Sessions : ReaderMapInFlight(s)' => sessions'[s].thread # t
    BY <1>2, <1>3
  <1> QED BY <1>4, <1>5, <1>6 DEF t

\* Sealing makes a wait, if at all, on a thread that does nothing else.
LEMMA SealWaits ==
    ASSUME TInv, WaitsAlone, NEW m \in Maps, NEW t \in Threads, NEW waits \in BOOLEAN,
           maps[m].phase \in Attempting \cup {"active"},
           Seal(m, t, waits), UNCHANGED readerVars,
           waits => Idle(t),
           Idle(t) \/ (maps[m].phase = "post_native" /\ maps[m].thread = t)
    PROVE  WaitsAlone'
  <1> DEFINE a == maps[m].att
             decision == SealDecision(a, t)
  <1>0. WriterTyped /\ a \in Attachments /\ m \in Members(a)
    BY TypeParts, MapHasAttachment DEF TInv, Attempting, Over
  <1>1. sessions' = sessions
    BY DEF readerVars
  <1>2. Free(t)
    BY IdleIsFree DEF WaitsAlone, Free, Attempting
  <1>3. CASE ~Sealable(a, decision, waits)
    <2>1. /\ maps' = [maps EXCEPT ![m].phase = "terminal"]
          /\ atts' = [atts EXCEPT ![a].phase = "terminal"]
      BY <1>3 DEF Seal
    <2> HIDE DEF a, decision
    <2>2. /\ atts'[a].phase = "terminal" /\ \A b \in Attachments \ {a} : atts'[b] = atts[b]
          /\ maps'[m].phase = "terminal" /\ \A n \in Maps \ {m} : maps'[n] = maps[n]
      BY <1>0, <2>1 DEF WriterTyped, AttRecords, MapRecords
    <2> QED BY <1>1, <2>2, WaitsKept DEF ReaderMapInFlight, Attempting, CleaningPhase
  <1>4. CASE Sealable(a, decision, waits)
    <2>1. /\ maps' = [n \in Maps |-> IF n \in Members(a) THEN Sealed(n) ELSE maps[n]]
          /\ atts' = [atts EXCEPT ![a].phase = AdmittedPhase(a, decision),
                                  ![a].cleanupThread = t]
      BY <1>4 DEF Seal
    <2>2. decision = "wait" => waits
      BY <1>4 DEF Sealable
    <2>3. AdmittedPhase(a, decision) = "last_waiting" => decision = "wait"
      BY DEF AdmittedPhase
    <2>4. decision = "wait" => RetirementDecision(a, t) = "wait"
      BY DEF SealDecision
    <2> HIDE DEF a, decision
    <2>5. /\ atts'[a].phase = AdmittedPhase(a, decision) /\ atts'[a].cleanupThread = t
          /\ \A b \in Attachments \ {a} : atts'[b] = atts[b]
      BY <1>0, <2>1 DEF WriterTyped, AttRecords
    <2>6. \A n \in Maps : maps'[n].phase \in Attempting =>
            n \notin Members(a) /\ maps'[n] = maps[n]
      BY <1>0, <2>1, SealedTyped DEF Attempting
    <2>7. CASE atts'[a].phase # "last_waiting"
      BY <1>1, <1>2, <2>5, <2>6, <2>7, WaitsKept DEF ReaderMapInFlight
    <2>8. CASE atts'[a].phase = "last_waiting"
      <3>1. waits /\ Idle(t) /\ RetirementDecision(a, t) = "wait"
        BY <2>2, <2>3, <2>4, <2>5, <2>8
      <3>2. \A n \in BlockingMaps(a) : maps[n].thread # t
        BY <3>1 DEF RetirementDecision
      <3>3. \A n \in Maps : maps'[n].phase \in Attempting => maps'[n].thread # t
        <4> SUFFICES ASSUME NEW n \in Maps, maps'[n].phase \in Attempting PROVE maps[n].thread # t
          BY <2>6
        <4>1. n \notin Members(a) /\ maps[n].phase \in Attempting
          BY <2>6
        <4>2. maps[n].att # a
          BY <1>0, <4>1 DEF TInv, Belongs
        <4> QED BY <3>2, <4>1, <4>2 DEF BlockingMaps, Attempting
      <3>4. \A b \in Attachments \ {a} : atts'[b].phase \in CleaningPhase => atts'[b].cleanupThread # t
        BY <2>5, <3>1 DEF Idle
      <3>5. \A s \in Sessions : ReaderMapInFlight(s)' => sessions'[s].thread # t
        BY <1>1, <3>1 DEF Idle, ReaderMapInFlight
      <3>6. ASSUME NEW b \in Attachments \ {a}, atts'[b].phase = "last_waiting"
            PROVE  LET u == atts'[b].cleanupThread IN
                   /\ \A n \in Maps : maps'[n].phase \in Attempting => maps'[n].thread # u
                   /\ \A c \in Attachments \ {b} :
                        atts'[c].phase \in CleaningPhase => atts'[c].cleanupThread # u
                   /\ \A s \in Sessions : ReaderMapInFlight(s)' => sessions'[s].thread # u
        <4>1. atts[b].phase = "last_waiting" /\ atts'[b].cleanupThread = atts[b].cleanupThread
          BY <2>5, <3>6
        <4>2. atts[b].cleanupThread # t
          BY <1>2, <4>1 DEF Free
        <4> QED BY <1>1, <2>5, <2>6, <4>1, <4>2 DEF WaitsAlone, ReaderMapInFlight
      <3> QED BY <2>5, <3>3, <3>4, <3>5, <3>6 DEF WaitsAlone
    <2> QED BY <2>7, <2>8
  <1> QED BY <1>3, <1>4

\* The steps of the writers that leave the sessions alone.
LEMMA WriterWaits ==
    ASSUME TInv, WaitsAlone, UNCHANGED readerVars,
           \A a \in Attachments : /\ atts'[a].phase \in CleaningPhase =>
                                       /\ atts[a].phase \in CleaningPhase
                                       /\ atts'[a].cleanupThread = atts[a].cleanupThread
                                  /\ atts'[a].phase = "last_waiting" => atts[a].phase = "last_waiting",
           \A m \in Maps : maps'[m].phase \in Attempting =>
              \/ maps[m].phase \in Attempting /\ maps'[m].thread = maps[m].thread
              \/ Free(maps'[m].thread)
    PROVE  WaitsAlone'
  <1>1. \A s \in Sessions : ReaderMapInFlight(s)' =>
            ReaderMapInFlight(s) /\ sessions'[s].thread = sessions[s].thread
    BY DEF readerVars, ReaderMapInFlight
  <1>2. "last_waiting" \in CleaningPhase
    BY DEF CleaningPhase
  <1> QED BY <1>1, <1>2, WaitsKept

\* The steps of the readers, which only start callbacks on idle threads.
LEMMA ReaderWaits ==
    ASSUME TInv, WaitsAlone, UNCHANGED writerVars,
           \A s \in Sessions : ReaderMapInFlight(s)' =>
              \/ ReaderMapInFlight(s) /\ sessions'[s].thread = sessions[s].thread
              \/ Idle(sessions'[s].thread)
    PROVE  WaitsAlone'
  <1>1. maps' = maps /\ atts' = atts
    BY DEF writerVars
  <1>2. \A s \in Sessions : ReaderMapInFlight(s)' =>
          \/ ReaderMapInFlight(s) /\ sessions'[s].thread = sessions[s].thread
          \/ Free(sessions'[s].thread)
    BY IdleIsFree
  <1> QED BY <1>1, <1>2, WaitsKept

LEMMA WaitsNextWriter ==
    ASSUME TInv, WaitsAlone, Writer
    PROVE  WaitsAlone'
  <1>0. WriterTyped
    BY TypeParts DEF TInv
  <1>1. ASSUME NEW m \in Maps, NEW a \in Attachments, NEW t \in Threads, NEW p \in Pages,
               BeginWriter(m, a, t, p)
        PROVE  WaitsAlone'
    <2>1. /\ UNCHANGED readerVars
          /\ \A b \in Attachments : /\ atts'[b].phase = atts[b].phase
                                    /\ atts'[b].cleanupThread = atts[b].cleanupThread
      BY <1>0, <1>1 DEF BeginWriter, WriterTyped, AttRecords
    <2>2. maps'[m].thread = t /\ Free(t) /\ \A n \in Maps \ {m} : maps'[n] = maps[n]
      BY <1>0, <1>1, IdleIsFree DEF BeginWriter, WriterTyped
    <2> QED BY <2>1, <2>2, WriterWaits
  <1>2. ASSUME NEW m \in Maps, RecordNativeMapping(m) \/ InstallPending(m) \/ WriterMapFails(m)
        PROVE  WaitsAlone'
    <2>1. /\ UNCHANGED readerVars
          /\ \A b \in Attachments : /\ atts'[b].phase = atts[b].phase
                                    /\ atts'[b].cleanupThread = atts[b].cleanupThread
      <3>1. CASE WriterMapFails(m)
        <4>1. PICK ms : atts' = [atts EXCEPT ![maps[m].att].members = ms] /\ UNCHANGED readerVars
          BY <3>1 DEF WriterMapFails
        <4> QED BY <1>0, <4>1 DEF WriterTyped, AttRecords
      <3>2. CASE RecordNativeMapping(m) \/ InstallPending(m)
        BY <3>2 DEF RecordNativeMapping, InstallPending
      <3> QED BY <1>2, <3>1, <3>2
    <2>2. /\ maps[m].phase \in Attempting
          /\ maps'[m].phase = "failed" \/ maps'[m].thread = maps[m].thread
          /\ \A n \in Maps \ {m} : maps'[n] = maps[n]
      BY <1>0, <1>2
         DEF RecordNativeMapping, InstallPending, WriterMapFails, NoMap, WriterTyped, MapRecords,
             Attempting
    <2>3. "failed" \notin Attempting
      BY DEF Attempting
    <2> QED BY <2>1, <2>2, <2>3, WriterWaits
  <1>3. ASSUME NEW ms \in Seq(Maps), ms # <<>>, Promote(ms), UNCHANGED readerVars,
               \A i \in 1 .. Len(ms) : maps[ms[i]].phase \in Attempting,
               \A b \in Attachments : /\ atts'[b].phase = atts[b].phase
                                      /\ atts'[b].cleanupThread = atts[b].cleanupThread
        PROVE  WaitsAlone'
    <2>1. \A n \in Maps : maps'[n].phase = "active" \/ maps'[n] = maps[n]
      BY <1>3, PromoteTyped
    <2>2. "active" \notin Attempting
      BY DEF Attempting
    <2> QED BY <1>3, <2>1, <2>2, WriterWaits
  <1>4. ASSUME NEW m \in Maps, CompleteGateWinning(m)
        PROVE  WaitsAlone'
    <2>1. <<m>> \in Seq(Maps) /\ <<m>> # <<>>
          /\ \A i \in 1 .. Len(<<m>>) : maps[(<<m>>)[i]].phase \in Attempting
      BY <1>4 DEF CompleteGateWinning, Attempting
    <2> QED BY <1>3, <1>4, <2>1 DEF CompleteGateWinning
  <1>5. ASSUME NEW a \in Attachments, AdvanceGate(a)
        PROVE  WaitsAlone'
    <2>1. PICK g : atts' = [atts EXCEPT ![a].gate = g]
      BY <1>5, AdvanceGateEffect
    <2>2. \A b \in Attachments : /\ atts'[b].phase = atts[b].phase
                                 /\ atts'[b].cleanupThread = atts[b].cleanupThread
      BY <1>0, <2>1 DEF WriterTyped, AttRecords
    <2>3. CASE UNCHANGED maps
      BY <1>5, <2>2, <2>3, AdvanceGateEffect, WriterWaits
    <2>4. CASE /\ Promote(GateMembers(a)) /\ GateMembers(a) # <<>>
               /\ \A i \in 1 .. Len(GateMembers(a)) : maps[GateMembers(a)[i]].phase \in Attempting
      BY <1>3, <1>5, <2>2, <2>4, AdvanceGateEffect, GateMembersAre
    <2> QED BY <1>5, <2>3, <2>4, AdvanceGateEffect
  <1>6. ASSUME NEW m \in Maps, NEW t \in Threads, BeginWriterCleanup(m, t) \/ ReleaseHolder(m, t)
        PROVE  WaitsAlone'
    <2>1. CASE BeginWriterCleanup(m, t)
      <3>1. UNCHANGED readerVars
        BY <2>1 DEF BeginWriterCleanup
      <3>2. \E w \in BOOLEAN : Seal(m, t, w) /\ ~w
        BY <2>1 DEF BeginWriterCleanup
      <3>3. maps[m].phase \in {"post_native", "pending"}
        BY <2>1 DEF BeginWriterCleanup
      <3>4. Idle(t) \/ (maps[m].phase = "post_native" /\ maps[m].thread = t)
        BY <2>1 DEF BeginWriterCleanup
      <3>5. maps[m].phase \in Attempting \cup {"active"}
        BY <3>3 DEF Attempting
      <3> QED BY Zenon, <3>1, <3>2, <3>4, <3>5, SealWaits
    <2>2. CASE ReleaseHolder(m, t)
      <3>1. UNCHANGED readerVars
        BY <2>2 DEF ReleaseHolder
      <3>2. \E w \in BOOLEAN : Seal(m, t, w)
        BY <2>2 DEF ReleaseHolder
      <3>3. Idle(t) /\ maps[m].phase \in Attempting \cup {"active"}
        BY <2>2 DEF ReleaseHolder
      <3>4. PICK w \in BOOLEAN : Seal(m, t, w)
        BY <3>2
      <3>5. w => Idle(t)
        BY <3>3
      <3>6. Idle(t) \/ (maps[m].phase = "post_native" /\ maps[m].thread = t)
        BY <3>3
      <3> QED BY <3>1, <3>3, <3>4, <3>5, <3>6, SealWaits
    <2> QED BY <1>6, <2>1, <2>2
  <1>7. ASSUME NEW a \in Attachments, NEW p,
               p \in CleaningPhase => atts[a].phase \in CleaningPhase,
               p # "last_waiting", atts' = [atts EXCEPT ![a].phase = p],
               UNCHANGED <<maps, readerVars>>
        PROVE  WaitsAlone'
    <2>1. /\ atts'[a].phase = p /\ atts'[a].cleanupThread = atts[a].cleanupThread
          /\ \A b \in Attachments \ {a} : atts'[b] = atts[b]
      BY <1>0, <1>7 DEF WriterTyped, AttRecords
    <2> QED BY <1>7, <2>1, WriterWaits
  <1>8. ASSUME NEW a \in Attachments,
               PollRetirement(a) \/ FailRetirementWait(a) \/ AbandonCleanup(a)
        PROVE  WaitsAlone'
    <2>1. PICK p \in {"terminal", "last_admitted"} : atts' = [atts EXCEPT ![a].phase = p]
      BY <1>8 DEF PollRetirement, FailRetirementWait, AbandonCleanup
    <2>2. atts[a].phase \in CleaningPhase /\ UNCHANGED <<maps, readerVars>>
      BY <1>8 DEF PollRetirement, FailRetirementWait, AbandonCleanup, CleaningPhase
    <2> QED BY <1>7, <2>1, <2>2
  <1>9. ASSUME NEW a \in Attachments, NEW ok \in BOOLEAN, CompleteCleanup(a, ok)
        PROVE  WaitsAlone'
    <2>1. UNCHANGED readerVars /\ atts[a].phase \in CleaningPhase
      BY <1>9 DEF CompleteCleanup, CleaningPhase
    <2>2. CASE atts' = [atts EXCEPT ![a].phase = "terminal"] /\ UNCHANGED maps
      BY <1>7, <2>1, <2>2 DEF CleaningPhase
    <2>3. CASE /\ atts' = [atts EXCEPT ![a] = [phase |-> "retired", gate |-> @.gate,
                                              members |-> <<>>, cleanupThread |-> None]]
               /\ maps' = [m \in Maps |-> IF m \in Members(a)
                                          THEN [NoMap EXCEPT !.phase = "cleaned"] ELSE maps[m]]
      <3>1. /\ atts'[a].phase = "retired" /\ \A b \in Attachments \ {a} : atts'[b] = atts[b]
            /\ \A m \in Maps : maps'[m] = maps[m] \/ maps'[m].phase = "cleaned"
        BY <1>0, <2>3 DEF WriterTyped, NoMap
      <3>2. "retired" \notin CleaningPhase /\ "cleaned" \notin Attempting
        BY DEF CleaningPhase, Attempting
      <3> QED BY <2>1, <3>1, <3>2, WriterWaits
    <2> QED BY Zenon, <1>9, <2>2, <2>3 DEF CompleteCleanup
  <1>10. ASSUME NEW m \in Maps, AbandonWriter(m)
         PROVE  WaitsAlone'
    <2>1. PICK a \in Attachments : a = maps[m].att
      BY <1>10, MapHasAttachment DEF AbandonWriter, Over
    <2>2. /\ atts' = atts \/ atts' = [atts EXCEPT ![a].phase = "terminal"]
          /\ maps' = [maps EXCEPT ![m].phase = "terminal"] /\ UNCHANGED readerVars
      BY <1>10, <2>1 DEF AbandonWriter
    <2>3. /\ \A b \in Attachments : atts'[b] = atts[b] \/ atts'[b].phase = "terminal"
          /\ \A n \in Maps : maps'[n] = maps[n] \/ maps'[n].phase = "terminal"
      BY <1>0, <2>2 DEF WriterTyped, AttRecords, MapRecords
    <2>4. "terminal" \notin CleaningPhase /\ "terminal" \notin Attempting
      BY DEF CleaningPhase, Attempting
    <2> QED BY <2>2, <2>3, <2>4, WriterWaits
  <1>11. ASSUME NEW a \in Attachments, InstallEligibility(a) \/ RevokeEligibility(a)
         PROVE  WaitsAlone'
    BY <1>11, WriterWaits DEF InstallEligibility, RevokeEligibility
  <1> QED BY <1>1, <1>2, <1>4, <1>5, <1>6, <1>8, <1>9, <1>10, <1>11 DEF Writer

LEMMA WaitsNextReader ==
    ASSUME TInv, WaitsAlone, Reader
    PROVE  WaitsAlone'
  <1>0. ReaderTyped
    BY TypeParts DEF TInv
  <1>1. UNCHANGED writerVars
    BY DEF Reader, AdmitSession, BeginReader, PrepareProjection, AttachProjection, CommitReader,
           ZeroAttachment, CompleteSession, AbandonSession, BeginUnmap, PollUnmapCut,
           FailUnmapWait, AbandonGroup, LoseGroup, CompleteUnmap
  <1>2. ASSUME UNCHANGED sessions
        PROVE  WaitsAlone'
    BY <1>1, <1>2, ReaderWaits DEF ReaderMapInFlight
  <1>3. ASSUME NEW s \in Sessions, NEW x, sessions' = [sessions EXCEPT ![s] = x],
               \/ x.phase \notin {"reserved", "owner"}
               \/ x.map.page = None
               \/ x.thread = sessions[s].thread /\ (ReaderMapInFlight(s) \/ Idle(x.thread))
        PROVE  WaitsAlone'
    <2>1. sessions'[s] = x /\ \A r \in Sessions \ {s} : sessions'[r] = sessions[r]
      BY <1>0, <1>3 DEF ReaderTyped
    <2> QED BY <1>1, <1>3, <2>1, ReaderWaits DEF ReaderMapInFlight
  <1>4. ASSUME NEW s \in Sessions, NEW o \in Opens, NEW t \in Threads, AdmitSession(s, o, t)
        PROVE  WaitsAlone'
    <2>1. NoReaderMap.page = None
      BY DEF NoReaderMap
    <2> QED BY <1>3, <1>4, <2>1 DEF AdmitSession
  <1>5. ASSUME NEW s \in Sessions, NEW p \in Pages, BeginReader(s, p)
        PROVE  WaitsAlone'
    <2>1. PICK y : sessions' = [sessions EXCEPT ![s].map = y] /\ Idle(sessions[s].thread)
      BY <1>5 DEF BeginReader
    <2> DEFINE x == [sessions[s] EXCEPT !.map = y]
    <2>2. sessions' = [sessions EXCEPT ![s] = x] /\ x.thread = sessions[s].thread
      BY <1>0, <2>1 DEF ReaderTyped, SessionRecords
    <2> QED BY <1>3, <2>1, <2>2
  <1>6. ASSUME NEW s \in Sessions, PrepareProjection(s) \/ AttachProjection(s)
        PROVE  WaitsAlone'
    <2>1. /\ ReaderMapInFlight(s) /\ sessions'[s].thread = sessions[s].thread
          /\ \A r \in Sessions \ {s} : sessions'[r] = sessions[r]
      BY <1>0, <1>6 DEF PrepareProjection, AttachProjection, ReaderTyped, SessionRecords
    <2> QED BY <1>1, <2>1, ReaderWaits DEF ReaderMapInFlight
  <1>7. ASSUME NEW s \in Sessions, NEW p \in {"done", "terminal"},
               sessions' = [sessions EXCEPT ![s] = [NoSession EXCEPT !.phase = p]]
        PROVE  WaitsAlone'
    <2>1. [NoSession EXCEPT !.phase = p].phase = p
      BY DEF NoSession
    <2> QED BY <1>3, <1>7, <2>1
  <1>8. ASSUME NEW s \in Sessions,
               \/ sessions' = [sessions EXCEPT ![s].map = NoReaderMap]
               \/ sessions' = [sessions EXCEPT ![s].map = NoReaderMap, ![s].phase = "owner"]
        PROVE  WaitsAlone'
    <2>1. /\ sessions'[s].map.page = None
          /\ \A r \in Sessions \ {s} : sessions'[r] = sessions[r]
      BY <1>0, <1>8 DEF ReaderTyped, SessionRecords, NoReaderMap
    <2> QED BY <1>1, <2>1, ReaderWaits DEF ReaderMapInFlight
  <1>9. ASSUME NEW s \in Sessions, CommitReader(s) \/ ZeroAttachment(s)
        PROVE  WaitsAlone'
    <2>1. \/ sessions' = [sessions EXCEPT ![s] = [NoSession EXCEPT !.phase = "terminal"]]
          \/ sessions' = [sessions EXCEPT ![s] = [NoSession EXCEPT !.phase = "done"]]
          \/ sessions' = [sessions EXCEPT ![s].map = NoReaderMap]
          \/ sessions' = [sessions EXCEPT ![s].map = NoReaderMap, ![s].phase = "owner"]
      BY <1>9 DEF CommitReader, ZeroAttachment, QuarantineSession
    <2> QED BY <1>7, <1>8, <2>1
  <1>10. ASSUME NEW s \in Sessions, CompleteSession(s) \/ AbandonSession(s)
         PROVE  WaitsAlone'
    BY <1>7, <1>10 DEF CompleteSession, AbandonSession, QuarantineSession
  <1>11. ASSUME NEW o \in Opens,
                \/ \E t \in Threads : BeginUnmap(o, t)
                \/ PollUnmapCut(o) \/ FailUnmapWait(o) \/ AbandonGroup(o) \/ CompleteUnmap(o)
         PROVE  WaitsAlone'
    BY <1>2, <1>11 DEF BeginUnmap, PollUnmapCut, FailUnmapWait, AbandonGroup, LoseGroup, CompleteUnmap
  <1> QED BY <1>4, <1>5, <1>6, <1>9, <1>10, <1>11 DEF Reader

LEMMA WaitsNext == TInv /\ WaitsAlone /\ [Next]_vars => WaitsAlone'
  <1> SUFFICES ASSUME TInv, WaitsAlone, [Next]_vars PROVE WaitsAlone'
    OBVIOUS
  <1>1. CASE UNCHANGED vars
    BY <1>1, WriterWaits DEF vars, readerVars
  <1> QED BY <1>1, WaitsNextWriter, WaitsNextReader DEF Next

-----------------------------------------------------------------------------
(* Retirement and the cleanups *)

\* A page that a reader was given keeps the decision from being "ready".
LEMMA ReadyDecision ==
    ASSUME NEW a \in Attachments, NEW t
    PROVE  /\ SealDecision(a, t) = "ready" =>
                /\ ~Blocked(a) /\ OtherLiveGroups(a) = {} /\ GenPresent
           /\ SealDecision(a, t) = "not_last" => OtherLiveGroups(a) # {} \/ ~GenPresent
  <1>1. ProjectionPending(a) => BlockingReaderMaps # {}
    BY DEF ProjectionPending, BlockingReaderMaps
  <1>2. RetirementDecision(a, t) = "ready" => ~Blocked(a)
    BY DEF RetirementDecision
  <1>3. RetirementDecision(a, t) # "not_last"
    BY DEF RetirementDecision
  <1>4. BlockingReaderMaps # {} => Blocked(a)
    BY DEF Blocked
  <1> QED BY <1>1, <1>2, <1>3, <1>4 DEF SealDecision

\* What a decision makes of an attachment.
LEMMA AdmittedCases ==
    ASSUME NEW a \in Attachments, NEW t, SealDecision(a, t) # "same_thread"
    PROVE  LET p == AdmittedPhase(a, SealDecision(a, t)) IN
           /\ p = "last_admitted" => ~Blocked(a) /\ OtherLiveGroups(a) = {} /\ GenPresent
           /\ p = "last_waiting" <=> SealDecision(a, t) = "wait"
           /\ OtherLiveGroups(a) = {} /\ GenPresent => p \in {"last_waiting", "last_admitted"}
  <1>1. SealDecision(a, t) \in {"not_last", "same_thread", "wait", "ready"}
    BY DecisionTyped
  <1> QED BY <1>1, ReadyDecision DEF AdmittedPhase

LEMMA SealRetirement ==
    ASSUME TInv, Retirement, NEW m \in Maps, NEW t \in Threads, NEW waits \in BOOLEAN,
           Seal(m, t, waits), UNCHANGED readerVars,
           \/ maps[m].phase \in Attempting /\ ~waits
           \/ maps[m].phase = "active" /\ gen.phase = "live",
           atts[maps[m].att].phase = "collecting",
           ~quarantined'
    PROVE  Retirement'
  <1>0. /\ WriterTyped /\ SharedTyped /\ Belongs
        /\ maps[m].phase \in Attempting \cup {"active"}
    BY TypeParts DEF TInv
  <1>1. PICK a \in Attachments : a = maps[m].att /\ m \in Members(a)
    BY <1>0, MapHasAttachment DEF Attempting, Over
  <1> DEFINE decision == SealDecision(a, t)
             unsupported == [gen EXCEPT !.authorities = @ \ Members(a)]
             last == GenPresent /\ OtherLiveGroups(a) = {}
  <1>2. Sealable(a, decision, waits)
    BY <1>1 DEF Seal, Quarantine
  <1>3. /\ maps' = [n \in Maps |-> IF n \in Members(a) THEN Sealed(n) ELSE maps[n]]
        /\ atts' = [atts EXCEPT ![a].phase = AdmittedPhase(a, decision), ![a].cleanupThread = t]
        /\ decision # "same_thread"
        /\ gen' = IF last THEN [unsupported EXCEPT !.phase = "retiring"] ELSE unsupported
    BY <1>1, <1>2 DEF Seal
  <1>4. decision = "wait" => waits
    BY <1>2 DEF Sealable
  <1> DEFINE p == AdmittedPhase(a, decision)
  <1>5. /\ p = "last_admitted" => ~Blocked(a) /\ last
        /\ p = "last_waiting" <=> decision = "wait"
        /\ last => p \in {"last_waiting", "last_admitted"}
        /\ p \in {"terminal", "last_waiting", "nonlast_admitted", "last_admitted"}
    BY <1>3, AdmittedCases, DecisionTyped
  <1>6. gen'.value = gen.value /\ gen'.phase = IF last THEN "retiring" ELSE gen.phase
    BY <1>0, <1>3 DEF SharedTyped, GenRecords
  <1> HIDE DEF decision, unsupported, p
  <1>7. /\ atts'[a].phase = p /\ \A b \in Attachments \ {a} : atts'[b] = atts[b]
    BY <1>0, <1>3 DEF WriterTyped, AttRecords, p
  <1>8. \A n \in Maps : maps'[n].phase \in Attempting \cup {"active"} =>
          n \notin Members(a) /\ maps'[n] = maps[n]
    BY <1>0, <1>3, SealedTyped DEF Attempting
  <1>9. UNCHANGED <<BlockingReaderMaps, ReservedSessions>>
    BY DEF readerVars, BlockingReaderMaps, ReservedSessions, ReaderMapInFlight
  <1>10. InCollecting'
    <2> SUFFICES ASSUME NEW n \in Maps, maps'[n].phase \in Attempting \cup {"active"}
                 PROVE  atts'[maps'[n].att].phase = "collecting"
      BY DEF InCollecting
    <2>1. n \notin Members(a) /\ maps'[n] = maps[n]
      BY <1>8
    <2>2. maps[n].att \in Attachments \ {a}
      BY <1>0, <2>1, MapHasAttachment DEF Attempting, Over
    <2> QED BY <1>7, <2>1, <2>2 DEF Retirement, InCollecting
  <1>11. CASE gen.phase = "retiring"
    <2>1. PICK b \in Attachments : Owners = {b}
      BY <1>11 DEF Retirement, OneOwner
    <2>2. b # a /\ b \in Owners
      BY <1>1, <2>1 DEF Owners
    <2>3. ~last
      BY <2>2 DEF OtherLiveGroups, Owners
    <2>4. p = "nonlast_admitted" \/ p = "terminal"
      BY <1>4, <1>5, <1>11, <2>3
    <2>5. Owners' = Owners
      BY <1>1, <1>7, <2>4 DEF Owners
    <2>6. OneOwner'
      BY <1>6, <1>11, <2>1, <2>3, <2>5 DEF OneOwner
    <2>7. PhaseHonest' /\ Drained' /\ Settled'
      BY <1>6, <1>8, <1>11, <2>3 DEF Retirement, PhaseHonest, Drained, Settled
    <2>8. StillUnused'
      <3> SUFFICES ASSUME NEW c \in Attachments, atts'[c].phase = "last_admitted"
                   PROVE  ~Resolving(c)'
        BY DEF StillUnused
      <3>1. atts[c].phase = "last_admitted"
        BY <1>7, <2>4
      <3>2. ~Resolving(c)
        BY <3>1 DEF Retirement, StillUnused
      <3>3. BlockingMaps(c)' \subseteq BlockingMaps(c)
        BY <1>8 DEF BlockingMaps, Attempting
      <3> QED BY <1>9, <3>2, <3>3 DEF Resolving
    <2> QED BY <1>10, <2>6, <2>7, <2>8 DEF Retirement
  <1>12. CASE gen.phase # "retiring"
    <2>1. \A b \in Attachments : atts[b].phase # "last_admitted"
      BY <1>12 DEF Retirement, OneOwner
    <2>2. ~(gen.value # 0 /\ gen.phase = "retired")
      BY DEF Retirement, Settled
    <2>3. CASE last
      <3>1. Owners' = {a}
        <4>1. \A b \in Attachments \ {a} : b \notin Owners
          BY <2>3 DEF OtherLiveGroups, Owners
        <4>2. Owners' \subseteq Attachments /\ a \in Owners'
          BY <1>5, <1>7, <2>3 DEF Owners
        <4>3. \A b \in Attachments \ {a} : b \notin Owners'
          BY <1>7, <4>1 DEF Owners
        <4> QED BY <4>2, <4>3
      <3>2. OneOwner'
        BY <1>6, <2>3, <3>1 DEF OneOwner
      <3>3. \A n \in Maps : maps'[n].phase # "active"
        <4> SUFFICES ASSUME NEW n \in Maps, maps'[n].phase = "active" PROVE FALSE
          OBVIOUS
        <4>1. n \notin Members(a) /\ maps[n].phase = "active"
          BY <1>8
        <4>2. PICK b \in Attachments : b = maps[n].att /\ n \in Members(b)
          BY <4>1, MapHasAttachment DEF Over
        <4>3. b # a /\ atts[b].phase = "collecting"
          BY <4>1, <4>2 DEF Retirement, InCollecting
        <4>4. b \in OtherLiveGroups(a)
          BY <4>1, <4>2, <4>3 DEF OtherLiveGroups, HasActiveHolder, MembersIn
        <4> QED BY <2>3, <4>4
      <3>4. PhaseHonest' /\ Drained' /\ Settled'
        BY <1>6, <2>3, <3>3 DEF PhaseHonest, Drained, Settled, GenPresent
      <3>5. StillUnused'
        <4> SUFFICES ASSUME NEW c \in Attachments, atts'[c].phase = "last_admitted"
                     PROVE  ~Resolving(c)'
          BY DEF StillUnused
        <4>1. c = a /\ p = "last_admitted"
          BY <1>7, <2>1
        <4>2. ~Blocked(a)
          BY <1>5, <4>1
        <4>3. BlockingMaps(a)' \subseteq BlockingMaps(a)
          BY <1>8 DEF BlockingMaps, Attempting
        <4> QED BY <1>9, <4>1, <4>2, <4>3 DEF Resolving, Blocked
      <3> QED BY <1>10, <3>2, <3>4, <3>5 DEF Retirement
    <2>4. CASE ~last
      <3>1. \A b \in Attachments : atts'[b].phase # "last_admitted"
        BY <1>5, <1>7, <2>1, <2>4
      <3> QED BY <1>6, <1>10, <1>12, <2>2, <2>4, <3>1
              DEF Retirement, PhaseHonest, OneOwner, Drained, Settled, StillUnused
    <2> QED BY <2>3, <2>4
  <1> QED BY <1>11, <1>12

\* The wait is over: what it waited for is gone, and stays gone.
LEMMA PollRetirementKeeps ==
    ASSUME TInv, Retirement, WaitsAlone, NEW a \in Attachments, PollRetirement(a), ~quarantined'
    PROVE  Retirement'
  <1> DEFINE t == atts[a].cleanupThread
             decision == RetirementDecision(a, t)
  <1>0. WriterTyped
    BY TypeParts DEF TInv
  <1>1. /\ atts[a].phase = "last_waiting"
        /\ gen.phase \in {"retiring", "quarantined"} /\ decision # "wait"
        /\ atts' = [atts EXCEPT ![a].phase = IF decision = "same_thread"
                                             THEN "terminal" ELSE "last_admitted"]
        /\ UNCHANGED <<maps, readerVars, gen>>
    BY DEF PollRetirement, Quarantine
  <1>2. gen.phase = "retiring"
    BY <1>1 DEF Retirement, PhaseHonest
  <1>3. decision # "same_thread"
    <2>1. \A m \in BlockingMaps(a) : maps[m].thread # t
      BY <1>1 DEF WaitsAlone, BlockingMaps, Attempting
    <2>2. \A b \in BlockingAttachments(a) : atts[b].cleanupThread # t
      BY <1>1 DEF WaitsAlone, BlockingAttachments
    <2>3. \A s \in BlockingReaderMaps : sessions[s].thread # t
      BY <1>1 DEF WaitsAlone, BlockingReaderMaps
    <2> QED BY <2>1, <2>2, <2>3 DEF RetirementDecision
  <1>4. ~Blocked(a)
    BY <1>1, <1>3 DEF RetirementDecision
  <1>5. atts'[a].phase = "last_admitted" /\ \A b \in Attachments \ {a} : atts'[b] = atts[b]
    BY <1>0, <1>1, <1>3 DEF WriterTyped, AttRecords
  <1>6. Owners' = Owners /\ a \in Owners
    BY <1>1, <1>5 DEF Owners
  <1>7. OneOwner'
    BY <1>1, <1>2, <1>6 DEF Retirement, OneOwner
  <1>8. InCollecting'
    <2> SUFFICES ASSUME NEW n \in Maps, maps[n].phase \in Attempting \cup {"active"}
                 PROVE  atts'[maps[n].att].phase = "collecting"
      BY <1>1 DEF InCollecting
    <2>1. maps[n].att \in Attachments /\ atts[maps[n].att].phase = "collecting"
      BY MapHasAttachment DEF Retirement, InCollecting, Attempting, Over
    <2> QED BY <1>1, <1>5, <2>1
  <1>9. StillUnused'
    <2> SUFFICES ASSUME NEW c \in Attachments, atts'[c].phase = "last_admitted"
                 PROVE  ~Resolving(c)'
      BY DEF StillUnused
    <2>1. c = a
      BY <1>2, <1>5, <1>6 DEF Retirement, OneOwner, Owners
    <2>2. UNCHANGED <<BlockingMaps(c), BlockingReaderMaps, ReservedSessions>>
      BY <1>1 DEF readerVars, BlockingMaps, BlockingReaderMaps, ReservedSessions, ReaderMapInFlight
    <2> QED BY <1>4, <2>1, <2>2 DEF Resolving, Blocked
  <1> QED BY <1>1, <1>7, <1>8, <1>9 DEF Retirement, PhaseHonest, Drained, Settled

\* A cleanup that is confirmed; the last one ends the generation.
LEMMA CompleteCleanupKeeps ==
    ASSUME TInv, Retirement, NEW a \in Attachments, NEW ok \in BOOLEAN, CompleteCleanup(a, ok),
           ~quarantined'
    PROVE  Retirement'
  <1> DEFINE last == atts[a].phase = "last_admitted"
  <1>0. WriterTyped /\ SharedTyped /\ Belongs
    BY TypeParts DEF TInv
  <1>1. /\ atts[a].phase \in {"nonlast_admitted", "last_admitted"}
        /\ last => LastCleanupExact
        /\ atts' = [atts EXCEPT ![a] = [phase |-> "retired", gate |-> @.gate,
                                        members |-> <<>>, cleanupThread |-> None]]
        /\ maps' = [m \in Maps |-> IF m \in Members(a)
                                   THEN [NoMap EXCEPT !.phase = "cleaned"] ELSE maps[m]]
        /\ gen' = IF ~last THEN gen
                  ELSE IF gen.handoffs = 0 THEN NoGen
                  ELSE [gen EXCEPT !.phase = "retired"]
        /\ UNCHANGED readerVars
    BY DEF CompleteCleanup, Quarantine
  <1>2. atts'[a].phase = "retired" /\ \A b \in Attachments \ {a} : atts'[b] = atts[b]
    BY <1>0, <1>1 DEF WriterTyped
  <1>3. \A n \in Maps : maps'[n].phase \in Attempting \cup {"active"} =>
          n \notin Members(a) /\ maps'[n] = maps[n]
    <2>1. [NoMap EXCEPT !.phase = "cleaned"].phase \notin Attempting \cup {"active"}
      BY DEF NoMap, Attempting
    <2> QED BY <1>1, <2>1
  <1>4. InCollecting'
    <2> SUFFICES ASSUME NEW n \in Maps, maps'[n].phase \in Attempting \cup {"active"}
                 PROVE  atts'[maps'[n].att].phase = "collecting"
      BY DEF InCollecting
    <2>1. maps'[n] = maps[n] /\ maps[n].att \in Attachments \ {a}
      BY <1>0, <1>3, MapHasAttachment DEF Attempting, Over
    <2> QED BY <1>2, <2>1 DEF Retirement, InCollecting
  <1>5. CASE ~last
    <2>1. Owners' = Owners
      BY <1>1, <1>2, <1>5 DEF Owners
    <2>2. StillUnused'
      <3> SUFFICES ASSUME NEW c \in Attachments, atts'[c].phase = "last_admitted"
                   PROVE  ~Resolving(c)'
        BY DEF StillUnused
      <3>1. ~Resolving(c)
        BY <1>2 DEF Retirement, StillUnused
      <3>2. BlockingMaps(c)' \subseteq BlockingMaps(c)
        BY <1>3 DEF BlockingMaps, Attempting
      <3>3. UNCHANGED <<BlockingReaderMaps, ReservedSessions>>
        BY <1>1 DEF readerVars, BlockingReaderMaps, ReservedSessions, ReaderMapInFlight
      <3> QED BY <3>1, <3>2, <3>3 DEF Resolving
    <2>3. OneOwner'
      BY <1>1, <1>2, <1>5, <2>1 DEF Retirement, OneOwner
    <2>4. PhaseHonest' /\ Drained' /\ Settled'
      BY <1>1, <1>3, <1>5 DEF Retirement, PhaseHonest, Drained, Settled
    <2> QED BY <1>4, <2>2, <2>3, <2>4 DEF Retirement
  <1>6. CASE last
    <2>1. gen.phase = "retiring" /\ \A m \in Maps : maps[m].phase \notin Attempting \cup {"active"}
      BY <1>1, <1>6 DEF LastCleanupExact, Attempting
    <2>2. \A b \in Attachments : atts'[b].phase # "last_admitted"
      BY <1>2, <1>6, <2>1 DEF Retirement, OneOwner, Owners
    <2>3. \A m \in Maps : maps'[m].phase \notin Attempting \cup {"active"}
      BY <1>3, <2>1
    <2>4. gen'.phase = "retired"
      BY <1>0, <1>1, <1>6 DEF NoGen, SharedTyped, GenRecords
    <2> QED BY <1>4, <2>2, <2>3, <2>4
            DEF Retirement, PhaseHonest, OneOwner, Drained, Settled, StillUnused
  <1> QED BY <1>5, <1>6

-----------------------------------------------------------------------------
(* Safety of retirement *)

Inv == TInv /\ WaitsAlone /\ SInv

LEMMA InvInit == Init => Inv
  <1> SUFFICES ASSUME Init PROVE WaitsAlone /\ SInv
    BY TInvInit DEF Inv
  <1>1. /\ \A a \in Attachments : atts[a].phase = "collecting"
        /\ \A m \in Maps : maps[m].phase = "unused"
        /\ gen.value = 0 /\ gen.phase = "retired"
    BY DEF Init, NoMap, NoGen
  <1>2. WaitsAlone
    BY <1>1 DEF WaitsAlone
  <1>3. Retirement
    BY <1>1 DEF Retirement, PhaseHonest, InCollecting, OneOwner, Drained, Settled, StillUnused,
                Attempting
  <1> QED BY <1>2, <1>3 DEF SInv

LEMMA RetirementNext ==
    ASSUME TInv, Retirement, WaitsAlone, [Next]_vars, ~quarantined'
    PROVE  Retirement'
  <1>1. ~Quarantine
    BY DEF Quarantine
  <1>2. CASE Writer
    <2>1. ASSUME NEW m \in Maps, NEW t \in Threads, BeginWriterCleanup(m, t)
          PROVE  Retirement'
      <3>1. /\ Seal(m, t, FALSE) /\ UNCHANGED readerVars
            /\ maps[m].phase \in Attempting /\ atts[maps[m].att].phase = "collecting"
        BY <2>1 DEF BeginWriterCleanup, Attempting
      <3> QED BY <3>1, SealRetirement
    <2>2. ASSUME NEW m \in Maps, NEW t \in Threads, ReleaseHolder(m, t)
          PROVE  Retirement'
      <3>1. /\ Seal(m, t, TRUE) /\ UNCHANGED readerVars
            /\ maps[m].phase = "active" /\ atts[maps[m].att].phase = "collecting"
            /\ gen.phase = "live"
        BY <2>2 DEF ReleaseHolder, Retirement, PhaseHonest
      <3> QED BY <3>1, SealRetirement
    <2>3. ASSUME NEW m \in Maps, AbandonWriter(m) PROVE FALSE
      BY <1>1, <2>3 DEF AbandonWriter
    <2>4. ASSUME NEW a \in Attachments, FailRetirementWait(a) \/ AbandonCleanup(a) PROVE FALSE
      BY <1>1, <2>4 DEF FailRetirementWait, AbandonCleanup
    <2>5. ASSUME NEW m \in Maps, RecordNativeMapping(m) \/ WriterMapFails(m) \/ InstallPending(m)
          PROVE  Retirement'
      BY <2>5, AttemptRetirement
    <2>6. ASSUME NEW a \in Attachments, InstallEligibility(a) \/ RevokeEligibility(a)
          PROVE  Retirement'
      BY <2>6, AttemptRetirement
    <2>7. ASSUME NEW a \in Attachments,
                 CompleteCleanup(a, TRUE) \/ CompleteCleanup(a, FALSE) \/ PollRetirement(a)
          PROVE  Retirement'
      BY <2>7, CompleteCleanupKeeps, PollRetirementKeeps
    <2> QED BY <1>2, <2>1, <2>2, <2>3, <2>4, <2>5, <2>6, <2>7, BeginWriterRetirement, GateRetirement
            DEF Writer
  <1>3. CASE Reader
    BY <1>3, ReaderRetirement
  <1>4. CASE UNCHANGED vars
    <2>1. UNCHANGED <<maps, atts, gen, BlockingReaderMaps, ReservedSessions>>
      BY <1>4 DEF vars, readerVars, BlockingReaderMaps, ReservedSessions, ReaderMapInFlight
    <2> QED BY <2>1, RetirementKept
  <1> QED BY <1>2, <1>3, <1>4 DEF Next

LEMMA InvNext == Inv /\ [Next]_vars => Inv'
  <1> SUFFICES ASSUME Inv, [Next]_vars PROVE Inv'
    OBVIOUS
  <1>1. TInv' /\ WaitsAlone'
    BY TInvNext, WaitsNext DEF Inv
  <1>2. CASE quarantined'
    BY <1>1, <1>2 DEF Inv, SInv
  <1>3. CASE ~quarantined'
    <2>1. ~quarantined
      BY <1>3, QuarantineSticky DEF Inv
    <2>2. Retirement
      BY <2>1 DEF Inv, SInv
    <2> QED BY <1>1, <1>3, <2>2, RetirementNext DEF Inv, SInv
  <1> QED BY <1>2, <1>3

\* While the last attachment is inside its native xShmUnmap nobody maps, holds or
\* reserves a place in what it unmaps (retirement_decision_for_prefix_locked,
\* complete_writer_cleanup).
THEOREM NeverUnmappedUnderUse == Spec => []NoUnmapUnderUse
  <1>1. Inv => NoUnmapUnderUse
    <2> SUFFICES ASSUME Inv, NEW a \in Attachments, atts[a].phase = "last_admitted", ~quarantined
                 PROVE  ~Resolving(a) /\ ActiveHolders = {}
      BY DEF NoUnmapUnderUse
    <2>1. Retirement
      BY DEF Inv, SInv
    <2>2. gen.phase = "retiring" /\ gen.value # 0
      BY <2>1 DEF Retirement, OneOwner, PhaseHonest
    <2> QED BY <2>1, <2>2 DEF Retirement, StillUnused, Drained, ActiveHolders
  <1> QED BY InvInit, InvNext, <1>1, PTL DEF Spec

\* A generation that retires is in the hands of one cleanup, and the last unmap is
\* made under a generation that retires (seal_attachment_cleanup_locked).
THEOREM RetirementAlwaysOwned == Spec => []RetirementHasOneOwner
  <1>1. Inv => RetirementHasOneOwner
    BY DEF Inv, SInv, Retirement, OneOwner, Owners, RetirementHasOneOwner
  <1> QED BY InvInit, InvNext, <1>1, PTL DEF Spec

-----------------------------------------------------------------------------
(* The Store gate *)

\* A step that opens no gate and adds no ungated attempt behind an open one.
LEMMA GateKept ==
    ASSUME TInv, GateIsComplete,
           \A a \in Attachments : atts'[a].phase = "collecting" =>
              /\ atts[a].phase = "collecting" /\ atts'[a].gate = atts[a].gate
              /\ Members(a)' \subseteq Members(a),
           \A m \in Maps : maps'[m].phase \in WriterPhase =>
              \/ maps[m].phase \in WriterPhase /\ maps'[m].gated = maps[m].gated
              \/ maps'[m].phase = "writer_sealed" /\ atts'[maps[m].att].phase # "collecting"
    PROVE  GateIsComplete'
  <1> SUFFICES ASSUME NEW a \in Attachments, atts'[a].phase = "collecting",
                      atts'[a].gate = "active", NEW m \in Members(a)',
                      maps'[m].phase \in WriterPhase
               PROVE  maps'[m].gated
    BY DEF GateIsComplete, MembersIn
  <1>1. m \in Members(a) /\ atts[a].phase = "collecting" /\ atts[a].gate = "active"
    OBVIOUS
  <1>2. m \in Maps /\ maps[m].att = a
    BY <1>1, TypeParts DEF TInv, WriterTyped, AttRecords, Members, Belongs
  <1> QED BY <1>1, <1>2 DEF GateIsComplete, MembersIn

LEMMA GateNext == TInv /\ GateIsComplete /\ [Next]_vars => GateIsComplete'
  <1> SUFFICES ASSUME TInv, GateIsComplete, [Next]_vars PROVE GateIsComplete'
    OBVIOUS
  <1>0. WriterTyped /\ Belongs
    BY TypeParts DEF TInv
  <1>1. ASSUME UNCHANGED <<maps, atts>> PROVE GateIsComplete'
    BY <1>1, GateKept DEF Members
  <1>2. CASE Reader
    BY <1>1, <1>2
       DEF Reader, AdmitSession, BeginReader, PrepareProjection, AttachProjection, CommitReader,
           ZeroAttachment, CompleteSession, AbandonSession, BeginUnmap, PollUnmapCut,
           FailUnmapWait, AbandonGroup, LoseGroup, CompleteUnmap, writerVars
  <1>3. CASE UNCHANGED vars
    BY <1>1, <1>3 DEF vars
  <1>4. ASSUME NEW m \in Maps, NEW a \in Attachments, NEW t \in Threads, NEW p \in Pages,
               BeginWriter(m, a, t, p)
        PROVE  GateIsComplete'
    <2>1. /\ maps'[m].gated = (atts[a].gate = "active") /\ maps'[m].att = a
          /\ \A n \in Maps \ {m} : maps'[n] = maps[n]
          /\ \A b \in Attachments : atts'[b].phase = atts[b].phase /\ atts'[b].gate = atts[b].gate
      <3>1. PICK i : maps' = [maps EXCEPT ![m] =
                [phase |-> "inflight", att |-> a, thread |-> t, page |-> p, size |-> 0,
                 gated |-> atts[a].gate = "active", gen |-> gen.value, installer |-> i]]
        BY Zenon, <1>4 DEF BeginWriter
      <3>2. atts' = [atts EXCEPT ![a].members = Append(@, m)]
        BY <1>4 DEF BeginWriter
      <3>3. \A b \in Attachments : atts'[b].phase = atts[b].phase /\ atts'[b].gate = atts[b].gate
        BY <1>0, <3>2 DEF WriterTyped, AttRecords
      <3> QED BY <1>0, <3>1, <3>3 DEF WriterTyped
    <2>2. Belongs' /\ WriterTyped'
      BY <1>4, BeginWriterTInv, TypePartsNext DEF TInv
    <2> SUFFICES ASSUME NEW b \in Attachments, atts'[b].phase = "collecting",
                        atts'[b].gate = "active", NEW n \in Members(b)',
                        maps'[n].phase \in WriterPhase
                 PROVE  maps'[n].gated
      BY DEF GateIsComplete, MembersIn
    <2>3. n \in Maps /\ maps'[n].att = b
      BY <2>2 DEF WriterTyped, AttRecords, Members, Belongs
    <2>4. CASE n = m
      BY <2>1, <2>3, <2>4
    <2>5. CASE n # m
      <3>1. n \in Members(b) /\ maps'[n] = maps[n]
        BY <1>0, <2>1, <2>3, <2>5 DEF Belongs
      <3> QED BY <2>1, <3>1 DEF GateIsComplete, MembersIn
    <2> QED BY <2>4, <2>5
  <1>5. ASSUME NEW m \in Maps, RecordNativeMapping(m) \/ InstallPending(m)
        PROVE  GateIsComplete'
    <2>1. /\ UNCHANGED atts /\ maps[m].phase \in WriterPhase
          /\ maps'[m].gated = maps[m].gated /\ \A n \in Maps \ {m} : maps'[n] = maps[n]
      BY <1>0, <1>5
         DEF RecordNativeMapping, InstallPending, WriterTyped, MapRecords, WriterPhase
    <2> QED BY <2>1, GateKept DEF Members
  <1>6. ASSUME NEW m \in Maps, WriterMapFails(m)
        PROVE  GateIsComplete'
    <2>1. PICK a \in Attachments : a = maps[m].att /\ m \in Members(a)
      BY <1>6, MapHasAttachment DEF WriterMapFails, Over
    <2>2. /\ maps'[m].phase = "failed" /\ \A n \in Maps \ {m} : maps'[n] = maps[n]
          /\ "failed" \notin WriterPhase
      BY <1>0, <1>6 DEF WriterMapFails, NoMap, WriterTyped, WriterPhase
    <2>3. \A b \in Attachments : atts'[b].phase = atts[b].phase /\ atts'[b].gate = atts[b].gate
      <3>1. PICK ms : atts' = [atts EXCEPT ![a].members = ms]
        BY <1>6, <2>1 DEF WriterMapFails
      <3> QED BY <1>0, <3>1 DEF WriterTyped, AttRecords
    <2>4. \A b \in Attachments : Members(b)' \subseteq Members(b)
      <3>1. Belongs' /\ WriterTyped'
        BY <1>6, WriterMapFailsTInv, TypePartsNext DEF TInv
      <3>2. \A b \in Attachments : Members(b)' \subseteq Maps
        BY <3>1 DEF WriterTyped, AttRecords, Members
      <3>3. maps'[m].att = None
        BY <2>2, <3>1 DEF Belongs
      <3> QED BY <1>0, <2>2, <3>1, <3>2, <3>3, NoneAssumption DEF Belongs
    <2> QED BY <2>2, <2>3, <2>4, GateKept
  <1>7. ASSUME NEW m \in Maps, CompleteGateWinning(m)
        PROVE  GateIsComplete'
    <2>1. <<m>> \in Seq(Maps) /\ <<m>> # <<>>
          /\ \A i \in 1 .. Len(<<m>>) : maps[(<<m>>)[i]].phase \in Attempting
      BY <1>7 DEF CompleteGateWinning, Attempting
    <2>2. Promote(<<m>>) /\ UNCHANGED atts
      BY <1>7 DEF CompleteGateWinning
    <2>3. \A n \in Maps : maps'[n].phase = "active" \/ maps'[n] = maps[n]
      BY <2>1, <2>2, PromoteTyped
    <2>4. "active" \notin WriterPhase
      BY DEF WriterPhase
    <2> QED BY <2>2, <2>3, <2>4, GateKept DEF Members
  <1>8. ASSUME NEW a \in Attachments, AdvanceGate(a)
        PROVE  GateIsComplete'
    <2>1. PICK g \in {"sealing", "active"} : atts' = [atts EXCEPT ![a].gate = g]
      BY <1>8, AdvanceGateEffect
    <2>2. /\ \A b \in Attachments : Members(b)' = Members(b) /\ atts'[b].phase = atts[b].phase
          /\ atts'[a].gate = g /\ \A b \in Attachments \ {a} : atts'[b] = atts[b]
      BY <1>0, <2>1 DEF WriterTyped, AttRecords, Members
    <2>3. \A n \in Maps : maps'[n].phase \in WriterPhase => maps'[n] = maps[n]
      <3>1. CASE UNCHANGED maps
        BY <3>1
      <3>2. CASE /\ Promote(GateMembers(a)) /\ GateMembers(a) # <<>>
                 /\ \A i \in 1 .. Len(GateMembers(a)) :
                       maps[GateMembers(a)[i]].phase \in Attempting
        <4>1. \A n \in Maps : maps'[n].phase = "active" \/ maps'[n] = maps[n]
          BY <3>2, GateMembersAre, PromoteTyped
        <4> QED BY <4>1 DEF WriterPhase
      <3> QED BY <1>8, <3>1, <3>2, AdvanceGateEffect
    <2>4. g = "active" => \A n \in Members(a) : maps'[n].phase \notin WriterPhase
      <3> SUFFICES ASSUME g = "active", NEW n \in Members(a)
                   PROVE  maps'[n].phase \notin WriterPhase
        OBVIOUS
      <3>1. /\ Promote(GateMembers(a)) /\ GateMembers(a) # <<>>
            /\ \A i \in 1 .. Len(GateMembers(a)) : maps[GateMembers(a)[i]].phase \in Attempting
        <4>1. atts'[a].gate = "active" /\ Members(a) # {}
          BY <2>2
        <4>2. [atts EXCEPT ![a].gate = "sealing"][a].gate = "sealing"
          BY <1>0 DEF WriterTyped, AttRecords
        <4> QED BY <1>8, <4>1, <4>2, AdvanceGateEffect
      <3>2. PICK i \in 1 .. Len(GateMembers(a)) : GateMembers(a)[i] = n
        BY <1>0, GateMembersAre
      <3>3. GateMembers(a) \in Seq(Maps)
        BY <1>0, GateMembersAre
      <3>4. maps'[n].phase = "active"
        BY <1>0, <3>1, <3>2, <3>3, PromoteTyped
      <3> QED BY <3>4 DEF WriterPhase
    <2> SUFFICES ASSUME NEW b \in Attachments, atts'[b].phase = "collecting",
                        atts'[b].gate = "active", NEW n \in Members(b)',
                        maps'[n].phase \in WriterPhase
                 PROVE  maps'[n].gated
      BY DEF GateIsComplete, MembersIn
    <2>5. n \in Members(b)
      BY <2>2
    <2>6. b # a
      BY <2>2, <2>4, <2>5
    <2>7. n \in Maps
      BY <1>0, <2>5, GateMembersAre
    <2>8. /\ atts[b].phase = "collecting" /\ atts[b].gate = "active"
          /\ maps'[n] = maps[n]
      BY <2>2, <2>3, <2>6, <2>7
    <2> QED BY <1>0, <2>5, <2>8 DEF GateIsComplete, MembersIn
  <1>9. ASSUME NEW m \in Maps, NEW t \in Threads, NEW waits \in BOOLEAN, Seal(m, t, waits),
               maps[m].phase \in Attempting \cup {"active"}
        PROVE  GateIsComplete'
    <2>1. PICK a \in Attachments : a = maps[m].att
      BY <1>9, MapHasAttachment DEF Attempting, Over
    <2>2. PICK p \in {"terminal", "last_waiting", "nonlast_admitted", "last_admitted"} :
            \/ atts' = [atts EXCEPT ![a].phase = p]
            \/ atts' = [atts EXCEPT ![a].phase = p, ![a].cleanupThread = t]
      <3>1. \/ atts' = [atts EXCEPT ![a].phase = AdmittedPhase(a, SealDecision(a, t)),
                                    ![a].cleanupThread = t]
            \/ atts' = [atts EXCEPT ![a].phase = "terminal"]
        BY <1>9, <2>1 DEF Seal
      <3>2. AdmittedPhase(a, SealDecision(a, t)) \in
              {"terminal", "last_waiting", "nonlast_admitted", "last_admitted"}
        BY DecisionTyped
      <3> QED BY <3>1, <3>2
    <2>3. /\ atts'[a].phase # "collecting" /\ \A b \in Attachments \ {a} : atts'[b] = atts[b]
      BY <1>0, <2>2 DEF WriterTyped, AttRecords
    <2>4. \/ maps' = [n \in Maps |-> IF n \in Members(a) THEN Sealed(n) ELSE maps[n]]
          \/ maps' = [maps EXCEPT ![m].phase = "terminal"]
      BY <1>9, <2>1 DEF Seal
    <2>5. \A n \in Maps : maps'[n].phase \in WriterPhase =>
            maps'[n] = maps[n] \/ (maps'[n].phase = "writer_sealed" /\ maps[n].att = a)
      <3>1. CASE maps' = [maps EXCEPT ![m].phase = "terminal"]
        BY <1>0, <3>1 DEF WriterTyped, MapRecords, WriterPhase
      <3>2. CASE maps' = [n \in Maps |-> IF n \in Members(a) THEN Sealed(n) ELSE maps[n]]
        BY <1>0, <3>2, SealedTyped DEF Belongs, WriterPhase
      <3> QED BY <2>4, <3>1, <3>2
    <2> QED BY <2>3, <2>5, GateKept DEF Members
  <1>10. ASSUME NEW a \in Attachments, NEW p \in {"terminal", "last_admitted"},
                atts' = [atts EXCEPT ![a].phase = p], UNCHANGED maps
         PROVE  GateIsComplete'
    <2>1. /\ atts'[a].phase # "collecting" /\ \A b \in Attachments \ {a} : atts'[b] = atts[b]
      BY <1>0, <1>10 DEF WriterTyped, AttRecords
    <2> QED BY <1>10, <2>1, GateKept DEF Members
  <1>11. ASSUME NEW a \in Attachments,
                PollRetirement(a) \/ FailRetirementWait(a) \/ AbandonCleanup(a)
         PROVE  GateIsComplete'
    BY <1>10, <1>11 DEF PollRetirement, FailRetirementWait, AbandonCleanup
  <1>12. ASSUME NEW a \in Attachments, NEW ok \in BOOLEAN, CompleteCleanup(a, ok)
         PROVE  GateIsComplete'
    <2>1. CASE atts' = [atts EXCEPT ![a].phase = "terminal"] /\ UNCHANGED maps
      BY <1>10, <2>1
    <2>2. CASE /\ atts' = [atts EXCEPT ![a] = [phase |-> "retired", gate |-> @.gate,
                                              members |-> <<>>, cleanupThread |-> None]]
               /\ maps' = [m \in Maps |-> IF m \in Members(a)
                                          THEN [NoMap EXCEPT !.phase = "cleaned"] ELSE maps[m]]
      <3>1. /\ atts'[a].phase = "retired" /\ \A b \in Attachments \ {a} : atts'[b] = atts[b]
            /\ \A m \in Maps : maps'[m] = maps[m] \/ maps'[m].phase = "cleaned"
        BY <1>0, <2>2 DEF WriterTyped, NoMap
      <3>2. "cleaned" \notin WriterPhase
        BY DEF WriterPhase
      <3> QED BY <3>1, <3>2, GateKept DEF Members
    <2> QED BY Zenon, <1>12, <2>1, <2>2 DEF CompleteCleanup
  <1>13. ASSUME NEW m \in Maps, AbandonWriter(m)
         PROVE  GateIsComplete'
    <2>1. PICK a \in Attachments : a = maps[m].att
      BY <1>13, MapHasAttachment DEF AbandonWriter, Over
    <2>2. /\ atts' = atts \/ atts' = [atts EXCEPT ![a].phase = "terminal"]
          /\ maps' = [maps EXCEPT ![m].phase = "terminal"]
      BY <1>13, <2>1 DEF AbandonWriter
    <2>3. /\ \A b \in Attachments : atts'[b] = atts[b] \/ atts'[b].phase = "terminal"
          /\ \A n \in Maps : maps'[n] = maps[n] \/ maps'[n].phase = "terminal"
          /\ "terminal" \notin WriterPhase
      BY <1>0, <2>2 DEF WriterTyped, AttRecords, MapRecords, WriterPhase
    <2> QED BY <2>3, GateKept DEF Members
  <1>14. ASSUME NEW m \in Maps, NEW t \in Threads, BeginWriterCleanup(m, t) \/ ReleaseHolder(m, t)
         PROVE  GateIsComplete'
    <2>1. /\ \E waits \in BOOLEAN : Seal(m, t, waits)
          /\ maps[m].phase \in Attempting \cup {"active"}
      BY <1>14 DEF BeginWriterCleanup, ReleaseHolder, Attempting
    <2> QED BY <1>9, <2>1
  <1>15. ASSUME NEW a \in Attachments, InstallEligibility(a) \/ RevokeEligibility(a)
         PROVE  GateIsComplete'
    BY <1>1, <1>15 DEF InstallEligibility, RevokeEligibility
  <1> QED BY <1>2, <1>3, <1>4, <1>5, <1>6, <1>7, <1>8, <1>11, <1>12, <1>13, <1>14, <1>15
          DEF Next, Writer

\* Behind an active gate no mapping waits for the gate any more
\* (advance_positive_registry_writer_attachment_gate).
THEOREM GateAlwaysComplete == Spec => []GateIsComplete
  <1>1. Init => GateIsComplete
    BY DEF Init, GateIsComplete
  <1> QED BY <1>1, TInvInit, TInvNext, GateNext, PTL DEF Spec
=============================================================================
