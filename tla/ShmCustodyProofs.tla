-------------------------- MODULE ShmCustodyProofs --------------------------
(***************************************************************************)
(* Proofs about ShmLeases: what supports the pages of a generation, what a *)
(* reader that was given a page may rely on, and that the leases implement *)
(* GenerationCustody.  They rest on the types and on the invariant behind  *)
(* retirement of ShmLeasesProofs.                                          *)
(***************************************************************************)
EXTENDS ShmLeasesProofs

-----------------------------------------------------------------------------
(* The invariant, of a family that is not quarantined *)

\* A holder whose cleanup waits for readers.
Waiting(m) == maps[m].phase = "holder_sealed" /\ atts[maps[m].att].phase = "last_waiting"
Supports(m) == maps[m].phase = "active" \/ Waiting(m)

\* The authorities are the active holders, all of them of the present generation.  A
\* generation that is gone leaves nothing, and no cleanup outlives its own.
HoldersCurrent ==
    /\ gen.value = 0 => gen.pages = {} /\ gen.authorities = {} /\ gen.handoffs = 0
    /\ \A m \in Maps : m \in gen.authorities <=> maps[m].phase = "active"
    /\ \A m \in Maps : maps[m].phase = "active" => maps[m].gen = gen.value /\ gen.phase = "live"
    /\ gen.phase = "retired" => Owners = {}

\* The pages of a live generation are those of its supporters.
Covered ==
    gen.phase = "live" =>
        /\ \A p \in gen.pages : \E m \in Maps : Supports(m) /\ maps[m].page = p
        /\ \A m \in Maps : Supports(m) => maps[m].page \in gen.pages

\* The holder a projection borrows from.
Projecting ==
    \A s \in Sessions : ReaderMapInFlight(s) /\ sessions[s].map.projection # "none" =>
        LET m == sessions[s].map.holder IN
        Supports(m) /\ maps[m].gen = sessions[s].gen /\ maps[m].page = sessions[s].map.page

\* Every published group that is not returned is counted.
Lent == {o \in Opens : groups[o].phase \in {"active", "sealing", "admitted"}}
Lending == gen.handoffs = Cardinality(Lent)

Support == HoldersCurrent /\ Covered /\ Projecting /\ Lending
CInv == Inv /\ (quarantined \/ Support)

-----------------------------------------------------------------------------
(* Support and the steps of the writers *)

\* A step that moves no holder and no attachment.
HoldersUntouched ==
    /\ \A m \in Maps : maps[m].phase \in HolderPhase \/ maps'[m].phase \in HolderPhase
                         => maps'[m] = maps[m]
    /\ \A a \in Attachments : atts'[a].phase = atts[a].phase

LEMMA SupportersUntouched ==
    ASSUME TInv, HoldersUntouched, NEW m \in Maps
    PROVE  /\ Supports(m)' <=> Supports(m)
           /\ Supports(m) => maps'[m] = maps[m]
           /\ maps'[m].phase = "active" <=> maps[m].phase = "active"
  <1>1. maps[m].phase = "holder_sealed" => maps[m].att \in Attachments
    BY MapHasAttachment DEF Over
  <1> QED BY <1>1 DEF HoldersUntouched, HolderPhase, Supports, Waiting

\* Such a step, with the generation's record and the readers as they are.
LEMMA SupportUntouched ==
    ASSUME TInv, Support, HoldersUntouched, UNCHANGED <<gen, readerVars>>
    PROVE  Support'
  <1>1. gen' = gen /\ sessions' = sessions /\ groups' = groups
    BY DEF readerVars
  <1>2. Owners' = Owners
    BY DEF HoldersUntouched, Owners
  <1>3. HoldersCurrent'
    BY <1>1, <1>2, SupportersUntouched DEF Support, HoldersCurrent, HoldersUntouched, HolderPhase
  <1>4. Covered'
    BY <1>1, SupportersUntouched DEF Support, Covered
  <1>5. Projecting'
    <2>1. \A s \in Sessions : sessions[s].map.projection # "none" => sessions[s].map.holder \in Maps
      BY DEF TInv, Seated
    <2> QED BY <1>1, <2>1, SupportersUntouched DEF Support, Projecting, ReaderMapInFlight
  <1>6. Lending'
    BY <1>1 DEF Support, Lending, Lent
  <1> QED BY <1>3, <1>4, <1>5, <1>6 DEF Support

\* Map attempts that come and go, and gates that do not promote.
LEMMA AttemptEffect ==
    ASSUME TInv,
           \/ \E m \in Maps : \/ RecordNativeMapping(m) \/ WriterMapFails(m) \/ InstallPending(m)
                              \/ \E a \in Attachments, t \in Threads, p \in Pages :
                                    BeginWriter(m, a, t, p)
           \/ \E a \in Attachments : InstallEligibility(a) \/ RevokeEligibility(a)
    PROVE  HoldersUntouched /\ UNCHANGED <<gen, minted, readerVars, quarantined>>
  <1>0. maps \in [Maps -> MapRecords] /\ atts \in [Attachments -> AttRecords]
    BY TypeParts DEF TInv, WriterTyped
  <1> USE DEF HoldersUntouched, HolderPhase
  <1>1. ASSUME NEW m \in Maps, RecordNativeMapping(m) \/ InstallPending(m)
        PROVE  HoldersUntouched /\ UNCHANGED <<gen, minted, readerVars, quarantined>>
    <2>1. /\ UNCHANGED <<atts, gen, minted, readerVars, quarantined>>
          /\ maps[m].phase \in {"inflight", "post_native"}
          /\ maps'[m].phase \in {"post_native", "pending"}
          /\ \A n \in Maps \ {m} : maps'[n] = maps[n]
      BY <1>0, <1>1 DEF RecordNativeMapping, InstallPending, MapRecords
    <2> QED BY <2>1
  <1>2. ASSUME NEW m \in Maps, WriterMapFails(m)
        PROVE  HoldersUntouched /\ UNCHANGED <<gen, minted, readerVars, quarantined>>
    <2>1. /\ UNCHANGED <<gen, minted, readerVars, quarantined>>
          /\ maps[m].phase = "inflight" /\ maps'[m].phase = "failed"
          /\ \A n \in Maps \ {m} : maps'[n] = maps[n]
      BY <1>0, <1>2 DEF WriterMapFails, MapRecords, NoMap
    <2>2. \A a \in Attachments : atts'[a].phase = atts[a].phase
      BY <1>0, <1>2 DEF WriterMapFails, AttRecords
    <2> QED BY <2>1, <2>2
  <1>3. ASSUME NEW m \in Maps, NEW a \in Attachments, NEW t \in Threads, NEW p \in Pages,
               BeginWriter(m, a, t, p)
        PROVE  HoldersUntouched /\ UNCHANGED <<gen, minted, readerVars, quarantined>>
    <2>1. UNCHANGED <<gen, minted, readerVars, quarantined>> /\ maps[m].phase = "unused"
      BY <1>3 DEF BeginWriter
    <2>2. PICK i : maps' = [maps EXCEPT ![m] =
                [phase |-> "inflight", att |-> a, thread |-> t, page |-> p, size |-> 0,
                 gated |-> atts[a].gate = "active", gen |-> gen.value, installer |-> i]]
      BY Zenon, <1>3 DEF BeginWriter
    <2>3. maps'[m].phase = "inflight" /\ \A n \in Maps \ {m} : maps'[n] = maps[n]
      BY <1>0, <2>2
    <2>4. \A b \in Attachments : atts'[b].phase = atts[b].phase
      BY <1>0, <1>3 DEF BeginWriter, AttRecords
    <2> QED BY <2>1, <2>3, <2>4
  <1>4. ASSUME NEW a \in Attachments, InstallEligibility(a) \/ RevokeEligibility(a)
        PROVE  HoldersUntouched /\ UNCHANGED <<gen, minted, readerVars, quarantined>>
    BY <1>4 DEF InstallEligibility, RevokeEligibility
  <1> QED BY <1>1, <1>2, <1>3, <1>4

\* What a promotion does to the generation.
LEMMA PromoteEffect ==
    ASSUME TInv, Retirement, HoldersCurrent, NEW ms \in Seq(Maps), ms # <<>>, Promote(ms),
           \A i \in 1 .. Len(ms) : maps[ms[i]].phase \in Attempting
    PROVE  LET added == {ms[i] : i \in 1 .. Len(ms)} IN
           /\ added # {} /\ added \subseteq Maps
           /\ \A m \in added : /\ maps[m].phase \in Attempting /\ maps'[m].phase = "active"
                               /\ maps'[m].gen = gen'.value /\ maps'[m].page = maps[m].page
           /\ \A m \in Maps \ added : maps'[m] = maps[m]
           /\ gen'.phase = "live" /\ gen'.value # 0 /\ gen'.handoffs = gen.handoffs
           /\ gen'.pages = gen.pages \cup {maps[m].page : m \in added}
           /\ gen'.authorities = gen.authorities \cup added
           /\ \/ /\ gen.value # 0 /\ gen.phase = "live"
                 /\ gen'.value = gen.value /\ minted' = minted
              \/ /\ gen.value = 0 /\ gen.phase = "retired" /\ gen.pages = {}
                 /\ minted' = minted + 1
  <1> DEFINE added == {ms[i] : i \in 1 .. Len(ms)}
  <1>1. Len(ms) \in Nat \ {0}
    OBVIOUS
  <1>2. ms[1] \in added /\ added \subseteq Maps /\ \A m \in added : maps[m].phase \in Attempting
    BY <1>1
  <1>3. /\ \A m \in Maps : IF \E i \in 1 .. Len(ms) : ms[i] = m
                           THEN /\ maps'[m].phase = "active"
                                /\ maps'[m].gen = gen'.value
                                /\ maps'[m].page = maps[m].page
                           ELSE maps'[m] = maps[m]
        /\ gen'.phase = "live" /\ gen'.value # 0 /\ gen'.handoffs = gen.handoffs
    BY PromoteTyped
  <1>4. /\ gen'.pages = gen.pages \cup {maps[m].page : m \in added}
        /\ gen'.authorities = gen.authorities \cup added
        /\ gen'.value = IF GenPresent THEN gen.value ELSE minted + 1
        /\ minted' = IF GenPresent THEN minted ELSE minted + 1
        /\ GenPresent => gen.phase = "live"
    BY DEF Promote, Reserved
  <1>5. GenPresent <=> gen.value # 0
    BY DEF GenPresent
  <1>6. gen.value = 0 => gen.phase = "retired" /\ gen.pages = {}
    BY DEF Retirement, PhaseHonest, HoldersCurrent
  <1> QED BY <1>2, <1>3, <1>4, <1>5, <1>6

\* The holders of a promotion join those the generation has, or are its first ones.
LEMMA PromoteSupport ==
    ASSUME TInv, Retirement, Support, NEW ms \in Seq(Maps), ms # <<>>, Promote(ms),
           \A i \in 1 .. Len(ms) : maps[ms[i]].phase \in Attempting,
           \A a \in Attachments : atts'[a].phase = atts[a].phase,
           UNCHANGED readerVars
    PROVE  Support'
  <1> DEFINE added == {ms[i] : i \in 1 .. Len(ms)}
  <1>1. /\ added # {} /\ added \subseteq Maps
        /\ \A m \in added : /\ maps[m].phase \in Attempting /\ maps'[m].phase = "active"
                            /\ maps'[m].gen = gen'.value /\ maps'[m].page = maps[m].page
        /\ \A m \in Maps \ added : maps'[m] = maps[m]
        /\ gen'.phase = "live" /\ gen'.value # 0 /\ gen'.handoffs = gen.handoffs
        /\ gen'.pages = gen.pages \cup {maps[m].page : m \in added}
        /\ gen'.authorities = gen.authorities \cup added
        /\ \/ gen.value # 0 /\ gen.phase = "live" /\ gen'.value = gen.value
           \/ gen.value = 0 /\ gen.phase = "retired" /\ gen.pages = {}
    BY PromoteEffect DEF Support
  <1> HIDE DEF added
  <1>2. HoldersCurrent /\ Covered /\ Projecting /\ Lending
    BY DEF Support
  <1>3. ASSUME NEW m \in Maps
        PROVE  /\ Supports(m)' <=> Supports(m) \/ m \in added
               /\ Supports(m) => m \notin added /\ maps'[m] = maps[m]
    <2>1. maps[m].phase = "holder_sealed" => maps[m].att \in Attachments
      BY MapHasAttachment DEF Over
    <2>2. CASE m \in added
      BY <1>1, <2>2 DEF Supports, Waiting, Attempting
    <2>3. CASE m \notin added
      BY <1>1, <2>1, <2>3 DEF Supports, Waiting
    <2> QED BY <2>2, <2>3
  <1>4. HoldersCurrent'
    <2>1. \A m \in Maps : m \in gen'.authorities <=> maps'[m].phase = "active"
      BY <1>1, <1>2 DEF HoldersCurrent, Attempting
    <2>2. \A m \in Maps : maps'[m].phase = "active" => maps'[m].gen = gen'.value
      BY <1>1, <1>2 DEF HoldersCurrent
    <2> QED BY <1>1, <2>1, <2>2 DEF HoldersCurrent
  <1>5. Covered'
    <2>1. ASSUME NEW p \in gen'.pages
          PROVE  \E m \in Maps : Supports(m)' /\ maps'[m].page = p
      BY <1>1, <1>2, <1>3, <2>1 DEF Covered
    <2>2. ASSUME NEW m \in Maps, Supports(m)'
          PROVE  maps'[m].page \in gen'.pages
      <3>1. CASE m \in added
        BY <1>1, <3>1
      <3>2. CASE m \notin added /\ gen.phase = "live"
        BY <1>1, <1>2, <1>3, <2>2, <3>2 DEF Covered
      <3>3. CASE m \notin added /\ gen.phase = "retired"
        <4>1. Supports(m)
          BY <1>3, <2>2, <3>3
        <4>2. maps[m].phase # "active"
          BY <1>2, <3>3 DEF HoldersCurrent
        <4>3. maps[m].att \in Owners
          BY <4>1, <4>2, MapHasAttachment DEF Supports, Waiting, Owners, Over
        <4> QED BY <1>2, <3>3, <4>3 DEF HoldersCurrent
      <3> QED BY <1>1, <3>1, <3>2, <3>3
    <2> QED BY <2>1, <2>2 DEF Covered
  <1>6. Projecting'
    <2>1. sessions' = sessions
      BY DEF readerVars
    <2>2. \A s \in Sessions : sessions[s].map.projection # "none" => sessions[s].map.holder \in Maps
      BY DEF TInv, Seated
    <2> QED BY <1>2, <1>3, <2>1, <2>2 DEF Projecting, ReaderMapInFlight
  <1>7. Lending'
    BY <1>1, <1>2 DEF Lending, Lent, readerVars
  <1> QED BY <1>4, <1>5, <1>6, <1>7 DEF Support

\* A group that is sealed: its holders are supported by others, or wait for the readers
\* they were lent to.
LEMMA SealSupport ==
    ASSUME TInv, Retirement, Support,
           NEW m \in Maps, NEW t \in Threads, NEW waits \in BOOLEAN,
           Seal(m, t, waits), UNCHANGED readerVars,
           \/ maps[m].phase \in Attempting /\ ~waits
           \/ maps[m].phase = "active" /\ gen.phase = "live",
           atts[maps[m].att].phase = "collecting",
           ~quarantined'
    PROVE  Support'
  <1>0. /\ WriterTyped /\ SharedTyped /\ Belongs
        /\ maps[m].phase \in Attempting \cup {"active"}
        /\ HoldersCurrent /\ Covered /\ Projecting /\ Lending
    BY TypeParts DEF TInv, Support
  <1>1. PICK a \in Attachments : a = maps[m].att /\ m \in Members(a)
    BY <1>0, MapHasAttachment DEF Attempting, Over
  <1> DEFINE decision == SealDecision(a, t)
             unsupported == [gen EXCEPT !.authorities = @ \ Members(a)]
             last == GenPresent /\ OtherLiveGroups(a) = {}
             p == AdmittedPhase(a, decision)
  <1>2. Sealable(a, decision, waits)
    BY <1>1 DEF Seal, Quarantine
  <1>3. /\ maps' = [n \in Maps |-> IF n \in Members(a) THEN Sealed(n) ELSE maps[n]]
        /\ atts' = [atts EXCEPT ![a].phase = AdmittedPhase(a, decision), ![a].cleanupThread = t]
        /\ decision # "same_thread"
        /\ gen' = IF last THEN [unsupported EXCEPT !.phase = "retiring"] ELSE unsupported
    BY <1>1, <1>2 DEF Seal
  <1>4. decision = "wait" => gen.phase = "live"
    BY <1>2 DEF Sealable
  <1>5. /\ p = "last_admitted" => ~Blocked(a) /\ last
        /\ p = "last_waiting" <=> decision = "wait"
        /\ decision = "ready" => ~Blocked(a) /\ last
        /\ decision = "not_last" => ~ProjectionPending(a) /\ ~last
        /\ decision \in {"not_last", "wait", "ready"}
    <2>1. /\ p = "last_admitted" => ~Blocked(a) /\ last
          /\ p = "last_waiting" <=> decision = "wait"
          /\ decision = "ready" => ~Blocked(a) /\ last
          /\ decision \in {"not_last", "wait", "ready"}
      BY <1>3, AdmittedCases, ReadyDecision, DecisionTyped
    <2>2. decision = "not_last" => ~ProjectionPending(a) /\ ~last
      BY DEF SealDecision, RetirementDecision
    <2> QED BY <2>1, <2>2
  <1>6. /\ gen'.value = gen.value /\ gen'.phase = (IF last THEN "retiring" ELSE gen.phase)
        /\ gen'.pages = gen.pages /\ gen'.handoffs = gen.handoffs
        /\ gen'.authorities = gen.authorities \ Members(a)
    BY <1>0, <1>3 DEF SharedTyped, GenRecords
  <1>7. decision = "not_last" /\ GenPresent => Redundant(a)
    BY <1>2 DEF Sealable
  <1> HIDE DEF decision, unsupported, p
  <1>8. /\ atts'[a].phase = p /\ \A b \in Attachments \ {a} : atts'[b] = atts[b]
    BY <1>0, <1>3 DEF WriterTyped, AttRecords, p
  <1>9. ASSUME NEW n \in Maps, n \in Members(a)
        PROVE  /\ maps'[n].att = a /\ maps[n].att = a
               /\ maps'[n].phase # "active"
               /\ maps'[n].phase = "holder_sealed" <=> maps[n].phase = "active"
               /\ maps[n].phase = "active" => maps'[n].page = maps[n].page
                                              /\ maps'[n].gen = maps[n].gen
               /\ ~Waiting(n)
    <2>1. maps'[n] = Sealed(n) /\ maps[n].att = a
      BY <1>0, <1>3, <1>9 DEF Belongs
    <2>2. /\ Sealed(n).att = a /\ Sealed(n).phase \in {"holder_sealed", "writer_sealed"}
          /\ maps[n].phase = "active" => Sealed(n) = [maps[n] EXCEPT !.phase = "holder_sealed"]
      BY <1>0, <2>1, SealedTyped
    <2>3. maps[n].phase # "active" => Sealed(n).phase = "writer_sealed"
      BY DEF Sealed, NoMap
    <2>4. maps[n].phase = "active" =>
              Sealed(n).phase = "holder_sealed" /\ Sealed(n).page = maps[n].page
              /\ Sealed(n).gen = maps[n].gen
      BY <1>0, <2>2 DEF WriterTyped, MapRecords
    <2> QED BY <1>1, <2>1, <2>2, <2>3, <2>4 DEF Waiting
  <1>10. ASSUME NEW n \in Maps, n \notin Members(a)
         PROVE  /\ maps'[n] = maps[n]
                /\ Supports(n)' <=> Supports(n)
    <2>1. maps'[n] = maps[n]
      BY <1>3, <1>10
    <2>2. maps[n].phase = "holder_sealed" => maps[n].att \in Attachments \ {a}
      BY <1>0, <1>10, MapHasAttachment DEF Over, Belongs
    <2> QED BY <1>8, <2>1, <2>2 DEF Supports, Waiting
  <1>11. ASSUME NEW n \in Maps, n \in Members(a)
         PROVE  /\ Supports(n)' => maps[n].phase = "active"
                /\ decision = "wait" /\ maps[n].phase = "active" => Supports(n)'
    BY <1>5, <1>8, <1>9, <1>11 DEF Supports, Waiting
  <1>12. ASSUME NEW n \in Maps, maps'[n].phase = "active"
         PROVE  n \notin Members(a) /\ maps[n].phase = "active" /\ ~last
    <2>1. n \notin Members(a) /\ maps[n].phase = "active"
      BY <1>9, <1>10, <1>12
    <2> DEFINE b == maps[n].att
    <2>2. b \in Attachments \ {a} /\ n \in Members(b)
      BY <1>0, <2>1, MapHasAttachment DEF Over
    <2>3. atts[b].phase = "collecting"
      BY <2>1 DEF Retirement, InCollecting
    <2>4. b \in OtherLiveGroups(a)
      BY <2>1, <2>2, <2>3 DEF OtherLiveGroups, HasActiveHolder, MembersIn
    <2> QED BY <2>1, <2>4
  <1>13. HoldersCurrent'
    <2>1. \A n \in Maps : n \in gen'.authorities <=> maps'[n].phase = "active"
      BY <1>0, <1>6, <1>9, <1>10 DEF HoldersCurrent
    <2>2. \A n \in Maps : maps'[n].phase = "active" =>
              maps'[n].gen = gen'.value /\ gen'.phase = "live"
      BY <1>0, <1>6, <1>10, <1>12 DEF HoldersCurrent
    <2>3. gen'.phase = "retired" => Owners' = {}
      <3>1. ASSUME gen'.phase = "retired", NEW b \in Owners'
            PROVE  FALSE
        <4>1. gen.phase = "retired" /\ ~last /\ Owners = {}
          BY <1>0, <1>6, <3>1 DEF HoldersCurrent
        <4>2. b = a
          BY <1>8, <3>1, <4>1 DEF Owners
        <4>3. p \in {"last_waiting", "last_admitted"}
          BY <1>8, <3>1, <4>2 DEF Owners
        <4> QED BY <1>4, <1>5, <4>1, <4>3
      <3> QED BY <3>1
    <2>4. gen'.value = 0 => gen'.pages = {} /\ gen'.authorities = {} /\ gen'.handoffs = 0
      BY <1>0, <1>6 DEF HoldersCurrent
    <2> QED BY <2>1, <2>2, <2>3, <2>4 DEF HoldersCurrent
  <1>14. Covered'
    <2> SUFFICES ASSUME gen'.phase = "live"
                 PROVE  /\ \A q \in gen'.pages : \E n \in Maps : Supports(n)' /\ maps'[n].page = q
                        /\ \A n \in Maps : Supports(n)' => maps'[n].page \in gen'.pages
      BY DEF Covered
    <2>1. gen.phase = "live" /\ ~last /\ GenPresent
      BY <1>6 DEF Retirement, PhaseHonest, GenPresent
    <2>2. ASSUME NEW q \in gen.pages
          PROVE  \E n \in Maps : Supports(n)' /\ maps'[n].page = q
      <3>1. PICK n \in Maps : Supports(n) /\ maps[n].page = q
        BY <1>0, <2>1 DEF Covered
      <3>2. CASE n \notin Members(a)
        BY <1>10, <3>1, <3>2
      <3>3. CASE n \in Members(a)
        <4>1. maps[n].phase = "active"
          BY <1>9, <3>1, <3>3 DEF Supports
        <4>2. CASE decision = "wait"
          BY <1>9, <1>11, <3>1, <3>3, <4>1, <4>2
        <4>3. CASE decision = "not_last"
          <5>1. PICK k \in Maps : /\ maps[k].phase = "active" /\ maps[k].att # a
                                  /\ maps[k].page = maps[n].page
            BY <1>7, <2>1, <3>3, <4>1, <4>3 DEF Redundant, MembersIn
          <5>2. k \notin Members(a) /\ Supports(k)
            BY <1>9, <5>1 DEF Supports
          <5> QED BY <1>10, <3>1, <5>1, <5>2
        <4> QED BY <1>5, <2>1, <4>2, <4>3
      <3> QED BY <3>2, <3>3
    <2>3. ASSUME NEW n \in Maps, Supports(n)'
          PROVE  maps'[n].page \in gen.pages
      <3>1. Supports(n) /\ maps'[n].page = maps[n].page
        BY <1>9, <1>10, <1>11, <2>3 DEF Supports
      <3> QED BY <1>0, <2>1, <3>1 DEF Covered
    <2> QED BY <1>6, <2>2, <2>3
  <1>15. Projecting'
    <2>1. sessions' = sessions
      BY DEF readerVars
    <2>2. \A s \in Sessions : sessions[s].map.projection # "none" => sessions[s].map.holder \in Maps
      BY DEF TInv, Seated
    <2> SUFFICES ASSUME NEW s \in Sessions, NEW n \in Maps, n = sessions[s].map.holder,
                        ReaderMapInFlight(s), sessions[s].map.projection # "none",
                        Supports(n), maps[n].gen = sessions[s].gen,
                        maps[n].page = sessions[s].map.page
                 PROVE  Supports(n)' /\ maps'[n].gen = sessions[s].gen
                                     /\ maps'[n].page = sessions[s].map.page
      BY <1>0, <2>1, <2>2 DEF Projecting, ReaderMapInFlight
    <2>3. CASE n \notin Members(a)
      BY <1>10, <2>3
    <2>4. CASE n \in Members(a)
      <3>1. ProjectionPending(a) /\ BlockingReaderMaps # {}
        BY <2>4 DEF ProjectionPending, BlockingReaderMaps
      <3>2. decision = "wait"
        BY <1>5, <3>1 DEF Blocked
      <3>3. maps[n].phase = "active"
        BY <1>9, <2>4 DEF Supports
      <3> QED BY <1>9, <1>11, <2>4, <3>2, <3>3
    <2> QED BY <2>3, <2>4
  <1>16. Lending'
    BY <1>0, <1>6 DEF Lending, Lent, readerVars
  <1> QED BY <1>13, <1>14, <1>15, <1>16 DEF Support

\* The wait for the readers is over when no projection is left.
LEMMA PollSupport ==
    ASSUME TInv, Retirement, WaitsAlone, Support, NEW a \in Attachments, PollRetirement(a),
           ~quarantined'
    PROVE  Support' /\ UNCHANGED <<gen, minted, maps, readerVars>>
  <1> DEFINE t == atts[a].cleanupThread
  <1>0. WriterTyped /\ HoldersCurrent /\ Covered /\ Projecting /\ Lending
    BY TypeParts DEF TInv, Support
  <1>1. /\ UNCHANGED <<gen, minted, maps, readerVars>> /\ atts[a].phase = "last_waiting"
        /\ RetirementDecision(a, t) # "wait"
        /\ \E p : atts' = [atts EXCEPT ![a].phase = p]
        /\ gen.phase = "retiring"
    BY DEF PollRetirement, Quarantine, Retirement, PhaseHonest
  <1>2. \A b \in Attachments \ {a} : atts'[b] = atts[b]
    BY <1>0, <1>1 DEF WriterTyped
  <1>3. RetirementDecision(a, t) # "same_thread"
    <2>1. \A m \in BlockingMaps(a) : maps[m].thread # t
      BY <1>1 DEF WaitsAlone, BlockingMaps, Attempting
    <2>2. \A b \in BlockingAttachments(a) : atts[b].cleanupThread # t
      BY <1>1 DEF WaitsAlone, BlockingAttachments
    <2>3. \A s \in BlockingReaderMaps : sessions[s].thread # t
      BY <1>1 DEF WaitsAlone, BlockingReaderMaps
    <2> QED BY <2>1, <2>2, <2>3 DEF RetirementDecision
  <1>4. BlockingReaderMaps = {}
    BY <1>1, <1>3 DEF RetirementDecision, Blocked
  <1>5. HoldersCurrent' /\ Covered' /\ Lending'
    BY <1>0, <1>1 DEF HoldersCurrent, Covered, Lending, Lent, readerVars
  <1>6. Projecting'
    BY <1>1, <1>4 DEF Projecting, BlockingReaderMaps, ReaderMapInFlight, readerVars
  <1> QED BY <1>1, <1>5, <1>6 DEF Support

\* A cleanup that is completed takes attempts that support nothing.
LEMMA CleanupEffect ==
    ASSUME TInv, Retirement, Support, NEW a \in Attachments, NEW ok \in BOOLEAN,
           CompleteCleanup(a, ok), ~quarantined'
    PROVE  /\ UNCHANGED <<minted, readerVars>>
           /\ \A m \in Maps : IF m \in Members(a) THEN maps'[m].phase = "cleaned" /\ ~Supports(m)
                              ELSE maps'[m] = maps[m]
           /\ atts'[a].phase = "retired" /\ \A b \in Attachments \ {a} : atts'[b] = atts[b]
           /\ \/ atts[a].phase = "nonlast_admitted" /\ UNCHANGED gen
              \/ /\ gen.phase = "retiring" /\ gen.value # 0 /\ Owners = {a}
                 /\ atts[a].phase = "last_admitted"
                 /\ gen' = IF gen.handoffs = 0 THEN NoGen ELSE [gen EXCEPT !.phase = "retired"]
                 /\ \A m \in Maps : ~Supports(m)
                 /\ BlockingReaderMaps = {} /\ ReservedSessions = {}
  <1>0. WriterTyped /\ Belongs
    BY TypeParts DEF TInv
  <1> DEFINE last == atts[a].phase = "last_admitted"
  <1>1. /\ atts[a].phase \in {"nonlast_admitted", "last_admitted"}
        /\ UNCHANGED <<elig, minted, readerVars, shmSize>>
        /\ atts' = [atts EXCEPT ![a] = [phase |-> "retired", gate |-> @.gate,
                                       members |-> <<>>, cleanupThread |-> None]]
        /\ maps' = [m \in Maps |-> IF m \in Members(a)
                                   THEN [NoMap EXCEPT !.phase = "cleaned"] ELSE maps[m]]
        /\ gen' = IF ~last THEN gen
                  ELSE IF gen.handoffs = 0 THEN NoGen
                  ELSE [gen EXCEPT !.phase = "retired"]
    BY Zenon DEF CompleteCleanup, Quarantine
  <1>2. atts'[a].phase = "retired" /\ \A b \in Attachments \ {a} : atts'[b] = atts[b]
    BY <1>0, <1>1 DEF WriterTyped, AttRecords
  <1>3. ASSUME NEW m \in Maps
        PROVE  IF m \in Members(a) THEN maps'[m].phase = "cleaned" /\ ~Supports(m)
               ELSE maps'[m] = maps[m]
    <2>1. CASE m \in Members(a)
      <3>1. maps'[m].phase = "cleaned" /\ maps[m].att = a
        BY <1>0, <1>1, <2>1 DEF NoMap, Belongs
      <3>2. maps[m].phase # "active"
        BY <1>1, <3>1 DEF Retirement, InCollecting
      <3>3. ~Waiting(m)
        BY <1>1, <3>1 DEF Waiting
      <3> QED BY <2>1, <3>1, <3>2, <3>3 DEF Supports
    <2>2. CASE m \notin Members(a)
      BY <1>1, <2>2
    <2> QED BY <2>1, <2>2
  <1>4. CASE last
    <2>1. gen.phase = "retiring" /\ gen.value # 0
      BY <1>4 DEF Retirement, OneOwner, PhaseHonest
    <2>2. Owners = {a}
      BY <1>4, <2>1 DEF Retirement, OneOwner, Owners
    <2>3. BlockingReaderMaps = {} /\ ReservedSessions = {}
      BY <1>4 DEF Retirement, StillUnused, Resolving
    <2>4. ASSUME NEW m \in Maps PROVE ~Supports(m)
      <3>1. maps[m].phase # "active"
        BY <2>1 DEF Retirement, Drained
      <3>2. Waiting(m) => maps[m].att \in Owners /\ maps[m].att # a
        BY <1>4, MapHasAttachment DEF Waiting, Owners, Over
      <3> QED BY <2>2, <3>1, <3>2 DEF Supports
    <2> QED BY <1>1, <1>2, <1>3, <1>4, <2>1, <2>2, <2>3, <2>4
  <1>5. CASE ~last
    BY <1>1, <1>2, <1>3, <1>5
  <1> QED BY <1>4, <1>5

LEMMA CleanupSupport ==
    ASSUME TInv, Retirement, Support, NEW a \in Attachments, NEW ok \in BOOLEAN,
           CompleteCleanup(a, ok), ~quarantined'
    PROVE  Support'
  <1>0. WriterTyped /\ SharedTyped /\ HoldersCurrent /\ Covered /\ Projecting /\ Lending
    BY TypeParts DEF TInv, Support
  <1>1. sessions' = sessions /\ groups' = groups
    BY CleanupEffect DEF readerVars
  <1>2. ASSUME NEW m \in Maps
        PROVE  /\ Supports(m) => maps'[m] = maps[m]
               /\ Supports(m)' <=> Supports(m)
               /\ maps'[m].phase = "active" <=> maps[m].phase = "active"
    <2>1. CASE m \in Members(a)
      BY <2>1, CleanupEffect DEF Supports, Waiting
    <2>2. CASE m \notin Members(a)
      <3>1. maps[m].phase = "holder_sealed" => maps[m].att \in Attachments \ {a}
        BY <2>2, MapHasAttachment DEF Over, TInv, Belongs
      <3>2. maps'[m] = maps[m] /\ \A b \in Attachments \ {a} : atts'[b] = atts[b]
        BY <2>2, CleanupEffect
      <3> QED BY <3>1, <3>2 DEF Supports, Waiting
    <2> QED BY <2>1, <2>2
  <1>3. Projecting'
    <2>1. \A s \in Sessions : sessions[s].map.projection # "none" => sessions[s].map.holder \in Maps
      BY DEF TInv, Seated
    <2> QED BY <1>0, <1>1, <1>2, <2>1 DEF Projecting, ReaderMapInFlight
  <1>4. Owners' \subseteq Owners \ {a}
    BY CleanupEffect DEF Owners
  <1>5. CASE UNCHANGED gen
    <2>1. HoldersCurrent'
      BY <1>0, <1>2, <1>4, <1>5 DEF HoldersCurrent, Supports
    <2>2. Covered'
      BY <1>0, <1>2, <1>5 DEF Covered
    <2>3. Lending'
      BY <1>0, <1>1, <1>5 DEF Lending, Lent
    <2> QED BY <1>3, <2>1, <2>2, <2>3 DEF Support
  <1>6. CASE /\ Owners = {a} /\ gen.value # 0
             /\ gen' = IF gen.handoffs = 0 THEN NoGen ELSE [gen EXCEPT !.phase = "retired"]
             /\ \A m \in Maps : ~Supports(m)
    <2>1. \A m \in Maps : maps'[m].phase # "active" /\ maps[m].phase # "active"
      BY <1>2, <1>6 DEF Supports
    <2>2. gen.authorities = {}
      BY <1>0, <2>1 DEF HoldersCurrent, SharedTyped, GenRecords
    <2>3. /\ gen'.authorities = {} /\ gen'.phase = "retired" /\ gen'.handoffs = gen.handoffs
          /\ gen'.value = 0 => gen'.pages = {} /\ gen'.handoffs = 0
      BY <1>0, <1>6, <2>2 DEF SharedTyped, GenRecords, NoGen
    <2>4. HoldersCurrent'
      BY <1>4, <1>6, <2>1, <2>3 DEF HoldersCurrent
    <2>5. Covered' /\ Lending'
      BY <1>0, <1>1, <2>3 DEF Covered, Lending, Lent
    <2> QED BY <1>3, <2>4, <2>5 DEF Support
  <1> QED BY <1>5, <1>6, CleanupEffect

-----------------------------------------------------------------------------
(* Support and the steps of the readers *)

\* A session that needs the generation: it has a place reserved in it, or a map attempt
\* that is deciding on one of its pages.
Uses(s) ==
    \/ sessions[s].phase = "reserved"
    \/ ReaderMapInFlight(s) /\ (sessions[s].map.blocker \/ sessions[s].map.projection # "none")
Using == {s \in Sessions : Uses(s)}

LEMMA UsingChanged ==
    ASSUME NEW s \in Sessions, \A r \in Sessions \ {s} : sessions'[r] = sessions[r]
    PROVE  Using' = IF Uses(s)' THEN Using \cup {s} ELSE Using \ {s}
  <1>1. \A r \in Sessions \ {s} : Uses(r)' <=> Uses(r)
    BY DEF Uses, ReaderMapInFlight
  <1> QED BY <1>1 DEF Using

LEMMA LentChanged ==
    ASSUME NEW o \in Opens, \A b \in Opens \ {o} : groups'[b].phase = groups[b].phase
    PROVE  Lent' = IF groups'[o].phase \in {"active", "sealing", "admitted"}
                   THEN Lent \cup {o} ELSE Lent \ {o}
  BY DEF Lent

\* What the projections of all other sessions borrow from stays.
LEMMA ProjectingKept ==
    ASSUME TInv, Projecting, UNCHANGED writerVars, NEW s \in Sessions,
           \A r \in Sessions \ {s} : sessions'[r] = sessions[r],
           NEW x, x = sessions'[s],
           x.phase \in {"reserved", "owner"} /\ x.map.page # None /\ x.map.projection # "none" =>
              /\ Supports(x.map.holder) /\ maps[x.map.holder].gen = x.gen
              /\ maps[x.map.holder].page = x.map.page
    PROVE  Projecting'
  <1>1. maps' = maps /\ atts' = atts
    BY DEF writerVars
  <1>2. ASSUME NEW r \in Sessions, ReaderMapInFlight(r)', sessions'[r].map.projection # "none"
        PROVE  LET m == sessions'[r].map.holder IN
               /\ maps[m].phase = "active"
                  \/ (maps[m].phase = "holder_sealed" /\ atts[maps[m].att].phase = "last_waiting")
               /\ maps[m].gen = sessions'[r].gen /\ maps[m].page = sessions'[r].map.page
    <2>1. CASE r = s
      BY <1>2, <2>1 DEF ReaderMapInFlight, Supports, Waiting
    <2>2. CASE r # s
      <3>1. sessions'[r] = sessions[r]
        BY <1>2, <2>2
      <3>2. ReaderMapInFlight(r) /\ sessions[r].map.projection # "none"
        BY <1>2, <3>1 DEF ReaderMapInFlight
      <3> QED BY <3>1, <3>2 DEF Projecting, Supports, Waiting
    <2> QED BY <2>1, <2>2
  <1> QED BY <1>1, <1>2 DEF Projecting, Supports, Waiting

\* The ways in which a step of a reader moves users and borrowers.
JoinStep == /\ gen.phase = "live" /\ UNCHANGED gen /\ Lent' = Lent
            /\ \E s \in Sessions : Using' = Using \cup {s}
LeaveStep == /\ UNCHANGED gen /\ Lent' = Lent
             /\ \E s \in Sessions : Using' = Using \ {s}
PublishStep ==
    /\ gen.phase \in {"live", "retiring"} /\ gen' = [gen EXCEPT !.handoffs = @ + 1]
    /\ \E s \in Using, o \in Opens \ Lent : Using' = Using \ {s} /\ Lent' = Lent \cup {o}
ReturnStep ==
    /\ Using' = Using
    /\ \E o \in Lent : Lent' = Lent \ {o}
    /\ gen.handoffs > 0
    /\ gen' = IF gen.phase = "retired" /\ gen.handoffs = 1
              THEN NoGen ELSE [gen EXCEPT !.handoffs = @ - 1]
IdleStep == UNCHANGED gen /\ Using' = Using /\ Lent' = Lent

ReaderMoves == JoinStep \/ LeaveStep \/ PublishStep \/ ReturnStep \/ IdleStep

\* A session comes into the group of its reader.
LEMMA AdmitMoves ==
    ASSUME TInv, Projecting, NEW s \in Sessions, NEW o \in Opens, NEW t \in Threads,
           AdmitSession(s, o, t)
    PROVE  ReaderMoves /\ Projecting'
  <1>0. sessions \in [Sessions -> SessionRecords] /\ groups \in [Opens -> GroupRecords]
    BY TypeParts DEF TInv, ReaderTyped
  <1>1. sessions[s].phase = "unused" /\ UNCHANGED <<writerVars, gen>>
    BY DEF AdmitSession
  <1>2. PICK x : /\ sessions' = [sessions EXCEPT ![s] = x] /\ x.map = NoReaderMap
                 /\ \/ x.phase = "owner" /\ UNCHANGED groups
                    \/ /\ x.phase = "reserved" /\ gen.phase = "live"
                       /\ groups[o].phase = "none"
                       /\ groups' = [groups EXCEPT ![o] =
                              [NoGroup EXCEPT !.phase = "reserved", !.gen = gen.value]]
    <2>1. CASE groups[o].phase = "active"
      <3> DEFINE x == [phase |-> "owner", open |-> o, thread |-> t, gen |-> groups[o].gen,
                       map |-> NoReaderMap]
      <3>1. sessions' = [sessions EXCEPT ![s] = x] /\ UNCHANGED groups
        BY <2>1 DEF AdmitSession
      <3>2. x.map = NoReaderMap /\ x.phase = "owner"
        OBVIOUS
      <3> HIDE DEF x
      <3> QED BY <3>1, <3>2
    <2>2. CASE groups[o].phase = "none"
      <3> DEFINE x == [phase |-> "reserved", open |-> o, thread |-> t, gen |-> gen.value,
                       map |-> NoReaderMap]
      <3>1. /\ sessions' = [sessions EXCEPT ![s] = x] /\ gen.phase = "live"
            /\ groups' = [groups EXCEPT ![o] =
                   [NoGroup EXCEPT !.phase = "reserved", !.gen = gen.value]]
        BY <2>2 DEF AdmitSession, Borrowable
      <3>2. x.map = NoReaderMap /\ x.phase = "reserved"
        OBVIOUS
      <3> HIDE DEF x
      <3> QED BY <2>2, <3>1, <3>2
    <2> QED BY <2>1, <2>2 DEF AdmitSession
  <1>3. /\ sessions'[s] = x /\ \A r \in Sessions \ {s} : sessions'[r] = sessions[r]
        /\ x.map.page = None
    BY <1>0, <1>2 DEF NoReaderMap
  <1>4. Projecting'
    BY <1>1, <1>3, ProjectingKept
  <1>5. Using' = IF x.phase = "reserved" THEN Using \cup {s} ELSE Using \ {s}
    BY <1>3, UsingChanged DEF Uses, ReaderMapInFlight
  <1>6. Lent' = Lent
    <2>1. CASE UNCHANGED groups
      BY <2>1 DEF Lent
    <2>2. CASE /\ groups[o].phase = "none"
               /\ groups' = [groups EXCEPT ![o] =
                      [NoGroup EXCEPT !.phase = "reserved", !.gen = gen.value]]
      <3>1. groups'[o].phase = "reserved" /\ \A b \in Opens \ {o} : groups'[b] = groups[b]
        BY <1>0, <2>2 DEF NoGroup
      <3> QED BY <2>2, <3>1 DEF Lent
    <2> QED BY <1>2, <2>1, <2>2
  <1>7. JoinStep \/ LeaveStep
    BY <1>1, <1>2, <1>5, <1>6 DEF JoinStep, LeaveStep
  <1> QED BY <1>4, <1>7 DEF ReaderMoves

\* A map attempt of a reader begins, is given a holder's page, and gets its permit.
LEMMA AttemptMoves ==
    ASSUME TInv, HoldersCurrent, Projecting, NEW s \in Sessions,
           \/ \E p \in Pages : BeginReader(s, p)
           \/ PrepareProjection(s) \/ AttachProjection(s)
    PROVE  ReaderMoves /\ Projecting'
  <1>0. sessions \in [Sessions -> SessionRecords]
    BY TypeParts DEF TInv, ReaderTyped
  <1>1. UNCHANGED <<writerVars, gen, groups>> /\ Lent' = Lent
    BY DEF BeginReader, PrepareProjection, AttachProjection, Lent
  <1>2. ASSUME NEW p \in Pages, BeginReader(s, p)
        PROVE  ReaderMoves /\ Projecting'
    <2>1. /\ sessions[s].phase \in {"reserved", "owner"} /\ Idle(sessions[s].thread)
          /\ Known(s, p) \/ gen.phase = "live"
          /\ sessions' = [sessions EXCEPT ![s].map =
                [NoReaderMap EXCEPT !.page = p, !.size = gen.size,
                                    !.count = Cardinality(gen.pages), !.blocker = ~Known(s, p)]]
      BY <1>2 DEF BeginReader
    <2>2. ~ReaderMapInFlight(s)
      BY <2>1 DEF Idle
    <2>3. /\ \A r \in Sessions \ {s} : sessions'[r] = sessions[r]
          /\ sessions'[s].phase = sessions[s].phase
          /\ sessions'[s].map.projection = "none" /\ sessions'[s].map.blocker = ~Known(s, p)
      BY <1>0, <2>1 DEF SessionRecords, NoReaderMap
    <2>4. Projecting'
      BY <1>1, <2>3, ProjectingKept
    <2>5. Using' = Using \cup {s} \/ Using' = Using \ {s}
      BY <2>3, UsingChanged
    <2>6. Known(s, p) => Using' = Using
      BY <2>1, <2>2, <2>3, UsingChanged DEF Known, Uses, Using
    <2>7. IdleStep \/ JoinStep \/ LeaveStep
      BY <1>1, <2>1, <2>5, <2>6 DEF IdleStep, JoinStep, LeaveStep
    <2> QED BY <2>4, <2>7 DEF ReaderMoves
  <1>3. CASE PrepareProjection(s)
    <2>1. PICK m \in Maps :
              /\ maps[m].phase = "active" /\ maps[m].gen = gen.value
              /\ maps[m].page = sessions[s].map.page
              /\ sessions' = [sessions EXCEPT ![s].map.projection = "reserved",
                                              ![s].map.holder = m]
      BY <1>3 DEF PrepareProjection
    <2>2. ReaderMapInFlight(s) /\ gen.value = sessions[s].gen /\ gen.phase = "live"
      BY <1>3 DEF PrepareProjection
    <2>3. /\ \A r \in Sessions \ {s} : sessions'[r] = sessions[r]
          /\ sessions'[s].phase = sessions[s].phase /\ sessions'[s].gen = sessions[s].gen
          /\ sessions'[s].map.page = sessions[s].map.page
          /\ sessions'[s].map.projection = "reserved" /\ sessions'[s].map.holder = m
      BY <1>0, <2>1 DEF SessionRecords, ReaderMapRecords
    <2>4. Projecting'
      <3> DEFINE x == sessions'[s]
      <3>1. /\ Supports(m) /\ maps[m].gen = x.gen /\ maps[m].page = x.map.page
            /\ x.map.holder = m
        BY <2>1, <2>2, <2>3 DEF Supports
      <3> HIDE DEF x
      <3>2. /\ Supports(x.map.holder) /\ maps[x.map.holder].gen = x.gen
            /\ maps[x.map.holder].page = x.map.page
        BY <3>1
      <3> QED BY <1>1, <2>3, <3>2, ProjectingKept DEF x
    <2>5. Using' = Using \cup {s}
      BY <2>2, <2>3, UsingChanged DEF Uses, ReaderMapInFlight
    <2>6. JoinStep
      BY <1>1, <2>2, <2>5 DEF JoinStep
    <2> QED BY <2>4, <2>6 DEF ReaderMoves
  <1>4. CASE AttachProjection(s)
    <2>1. /\ ReaderMapInFlight(s) /\ sessions[s].map.projection = "reserved"
          /\ sessions' = [sessions EXCEPT ![s].map.projection = "permit"]
      BY <1>4 DEF AttachProjection
    <2>2. /\ \A r \in Sessions \ {s} : sessions'[r] = sessions[r]
          /\ sessions'[s].phase = sessions[s].phase /\ sessions'[s].gen = sessions[s].gen
          /\ sessions'[s].map.page = sessions[s].map.page
          /\ sessions'[s].map.holder = sessions[s].map.holder
          /\ sessions'[s].map.projection = "permit"
      BY <1>0, <2>1 DEF SessionRecords, ReaderMapRecords
    <2>3. Projecting'
      <3>1. LET m == sessions[s].map.holder IN
            Supports(m) /\ maps[m].gen = sessions[s].gen /\ maps[m].page = sessions[s].map.page
        BY <2>1 DEF Projecting
      <3> QED BY <1>1, <2>2, <3>1, ProjectingKept
    <2>4. Using' = Using \cup {s} /\ s \in Using
      BY <2>1, <2>2, UsingChanged DEF Uses, Using, ReaderMapInFlight
    <2>5. IdleStep
      BY <1>1, <2>4 DEF IdleStep
    <2> QED BY <2>3, <2>5 DEF ReaderMoves
  <1> QED BY <1>2, <1>3, <1>4

\* A session whose map attempt is decided, or that is over.
LEMMA DecidedUses ==
    ASSUME TInv, Projecting, NEW s \in Sessions, UNCHANGED writerVars,
           \/ sessions' = [sessions EXCEPT ![s] = [NoSession EXCEPT !.phase = "done"]]
           \/ /\ sessions' = [sessions EXCEPT ![s].map = NoReaderMap]
              /\ sessions[s].phase # "reserved"
           \/ sessions' = [sessions EXCEPT ![s].map = NoReaderMap, ![s].phase = "owner"]
    PROVE  Using' = Using \ {s} /\ Projecting'
  <1>0. sessions \in [Sessions -> SessionRecords]
    BY TypeParts DEF TInv, ReaderTyped
  <1>1. /\ sessions'[s].map.page = None /\ sessions'[s].phase # "reserved"
        /\ \A r \in Sessions \ {s} : sessions'[r] = sessions[r]
    BY <1>0 DEF SessionRecords, NoSession, NoReaderMap
  <1>2. Projecting'
    BY <1>1, ProjectingKept
  <1>3. Using' = Using \ {s}
    BY <1>1, UsingChanged DEF Uses, ReaderMapInFlight
  <1> QED BY <1>2, <1>3

\* A map attempt is published, the first one of its reader as a new borrower.
LEMMA CommitMoves ==
    ASSUME TInv, Projecting, NEW s \in Sessions, CommitReader(s), ~quarantined'
    PROVE  ReaderMoves /\ Projecting'
  <1> DEFINE o == sessions[s].open
             withPage == groups[o].pages \cup {sessions[s].map.page}
             permit == sessions[s].map.projection = "permit"
  <1>0. groups \in [Opens -> GroupRecords] /\ o \in Opens /\ ReaderMapInFlight(s)
    BY InFlight, TypeParts DEF TInv, ReaderTyped, CommitReader
  <1>1. ~Quarantine /\ ~QuarantineSession(s)
    BY DEF Quarantine, QuarantineSession
  <1>2. /\ UNCHANGED writerVars
        /\ sessions' = [sessions EXCEPT ![s].map = NoReaderMap, ![s].phase = "owner"]
        /\ \/ /\ sessions[s].phase = "owner" /\ UNCHANGED gen
              /\ groups' = [groups EXCEPT ![o].pages = withPage]
           \/ /\ sessions[s].phase = "reserved" /\ gen.phase \in {"live", "retiring"}
              /\ groups' = [groups EXCEPT ![o].phase = "active", ![o].pages = withPage,
                                          ![o].projected = permit]
              /\ gen' = [gen EXCEPT !.handoffs = @ + 1]
    <2>1. sessions[s].phase \in {"reserved", "owner"}
      BY <1>0, InFlight
    <2> QED BY Zenon, <1>1, <2>1 DEF CommitReader
  <1>3. Using' = Using \ {s} /\ Projecting'
    BY <1>2, DecidedUses
  <1>4. CASE UNCHANGED gen /\ groups' = [groups EXCEPT ![o].pages = withPage]
    <2>1. Lent' = Lent
      BY <1>0, <1>4 DEF Lent, GroupRecords
    <2>2. LeaveStep
      BY <1>3, <1>4, <2>1 DEF LeaveStep
    <2> QED BY <1>3, <2>2 DEF ReaderMoves
  <1>5. CASE /\ sessions[s].phase = "reserved" /\ gen.phase \in {"live", "retiring"}
             /\ groups' = [groups EXCEPT ![o].phase = "active", ![o].pages = withPage,
                                         ![o].projected = permit]
             /\ gen' = [gen EXCEPT !.handoffs = @ + 1]
    <2>1. s \in Using
      BY <1>5 DEF Using, Uses
    <2>2. groups[o].phase = "reserved"
      BY <1>5 DEF TInv, Reserving
    <2>3. o \in Opens \ Lent
      BY <1>0, <2>2 DEF Lent
    <2>4. groups'[o].phase = "active" /\ \A b \in Opens \ {o} : groups'[b] = groups[b]
      BY <1>0, <1>5 DEF GroupRecords
    <2> HIDE DEF o
    <2>5. Lent' = Lent \cup {o}
      BY <1>0, <2>4, LentChanged
    <2>6. PublishStep
      BY <1>3, <1>5, <2>1, <2>3, <2>5 DEF PublishStep
    <2> QED BY <1>3, <2>6 DEF ReaderMoves
  <1> QED BY <1>2, <1>4, <1>5

\* A reserved session that ends gives its reader's group back unpublished.
LEMMA GroupGivenBack ==
    ASSUME TInv, NEW s \in Alive,
           groups' = IF sessions[s].phase = "reserved"
                     THEN [groups EXCEPT ![sessions[s].open] = NoGroup] ELSE groups
    PROVE  Lent' = Lent
  <1> DEFINE o == sessions[s].open
  <1>0. groups \in [Opens -> GroupRecords] /\ o \in Opens /\ s \in Sessions
    BY InFlight, TypeParts DEF TInv, ReaderTyped, Alive
  <1>1. CASE sessions[s].phase = "reserved"
    <2>1. groups[o].phase = "reserved"
      BY <1>0, <1>1 DEF TInv, Reserving
    <2>2. groups'[o].phase = "none" /\ \A b \in Opens \ {o} : groups'[b] = groups[b]
      BY <1>0, <1>1 DEF NoGroup
    <2> HIDE DEF o
    <2> QED BY <1>0, <2>1, <2>2 DEF Lent
  <1>2. CASE sessions[s].phase # "reserved"
    BY <1>2 DEF Lent
  <1> QED BY <1>1, <1>2

LEMMA SessionOverMoves ==
    ASSUME TInv, Projecting, NEW s \in Sessions,
           \/ ZeroAttachment(s) /\ ~quarantined'
           \/ CompleteSession(s)
    PROVE  ReaderMoves /\ Projecting'
  <1>1. ~QuarantineSession(s) \/ quarantined'
    BY DEF Quarantine, QuarantineSession
  <1>2. /\ UNCHANGED writerVars /\ UNCHANGED gen /\ s \in Alive
        /\ groups' = IF sessions[s].phase = "reserved"
                     THEN [groups EXCEPT ![sessions[s].open] = NoGroup] ELSE groups
        /\ \/ sessions' = [sessions EXCEPT ![s] = [NoSession EXCEPT !.phase = "done"]]
           \/ /\ sessions' = [sessions EXCEPT ![s].map = NoReaderMap]
              /\ sessions[s].phase # "reserved"
    <2>1. CASE ZeroAttachment(s) /\ ~quarantined'
      <3>1. /\ UNCHANGED writerVars /\ UNCHANGED gen /\ ReaderMapInFlight(s)
            /\ groups' = IF sessions[s].phase = "reserved"
                         THEN [groups EXCEPT ![sessions[s].open] = NoGroup] ELSE groups
            /\ sessions' = [sessions EXCEPT ![s] =
                   IF sessions[s].phase = "reserved" THEN [NoSession EXCEPT !.phase = "done"]
                   ELSE [@ EXCEPT !.map = NoReaderMap]]
        BY Zenon, <1>1, <2>1 DEF ZeroAttachment
      <3>2. s \in Alive
        BY <3>1 DEF ReaderMapInFlight, Alive
      <3> QED BY <3>1, <3>2
    <2>2. CASE CompleteSession(s)
      BY <2>2 DEF CompleteSession, Alive
    <2> QED BY <2>1, <2>2
  <1>3. Lent' = Lent
    BY <1>2, GroupGivenBack
  <1>4. Using' = Using \ {s} /\ Projecting'
    BY <1>2, DecidedUses
  <1>5. LeaveStep
    BY <1>2, <1>3, <1>4 DEF LeaveStep
  <1> QED BY <1>4, <1>5 DEF ReaderMoves

\* The unmap of a reader: only its confirmed end gives the group back.
LEMMA UnmapMoves ==
    ASSUME TInv, Projecting, NEW o \in Opens, ~quarantined',
           \/ \E t \in Threads : BeginUnmap(o, t)
           \/ PollUnmapCut(o) \/ CompleteUnmap(o)
    PROVE  ReaderMoves /\ Projecting'
  <1>0. groups \in [Opens -> GroupRecords]
    BY TypeParts DEF TInv, ReaderTyped
  <1>1. UNCHANGED <<writerVars, sessions>>
    BY DEF BeginUnmap, PollUnmapCut, CompleteUnmap
  <1>2. Using' = Using /\ Projecting'
    BY <1>1 DEF Using, Uses, ReaderMapInFlight, writerVars, Projecting, Supports, Waiting
  <1>3. ~Quarantine
    BY DEF Quarantine
  <1>4. CASE PollUnmapCut(o) \/ \E t \in Threads : BeginUnmap(o, t)
    <2>1. /\ UNCHANGED gen /\ groups[o].phase \in {"active", "sealing"}
          /\ groups'[o].phase \in {"sealing", "admitted"}
          /\ \A b \in Opens \ {o} : groups'[b] = groups[b]
      <3>1. CASE PollUnmapCut(o)
        BY <1>0, <3>1 DEF PollUnmapCut, GroupRecords
      <3>2. ASSUME NEW t \in Threads, BeginUnmap(o, t)
            PROVE  /\ UNCHANGED gen /\ groups[o].phase = "active"
                   /\ groups'[o].phase \in {"sealing", "admitted"}
                   /\ \A b \in Opens \ {o} : groups'[b] = groups[b]
        <4>1. /\ groups[o].phase = "active" /\ UNCHANGED gen
              /\ groups' = [groups EXCEPT
                    ![o].phase = IF LiveSessions(o) = {} THEN "admitted" ELSE "sealing",
                    ![o].thread = t]
          BY <1>3, <3>2 DEF BeginUnmap
        <4> QED BY <1>0, <4>1 DEF GroupRecords
      <3> QED BY <1>4, <3>1, <3>2
    <2>2. Lent' = Lent
      BY <2>1 DEF Lent
    <2>3. IdleStep
      BY <1>2, <2>1, <2>2 DEF IdleStep
    <2> QED BY <1>2, <2>3 DEF ReaderMoves
  <1>5. CASE CompleteUnmap(o)
    <2>1. /\ groups[o].phase = "admitted" /\ gen.handoffs > 0
          /\ groups' = [groups EXCEPT ![o] = NoGroup]
          /\ gen' = IF gen.phase = "retired" /\ gen.handoffs = 1
                    THEN NoGen ELSE [gen EXCEPT !.handoffs = @ - 1]
      BY <1>3, <1>5 DEF CompleteUnmap
    <2>2. groups'[o].phase = "none" /\ \A b \in Opens \ {o} : groups'[b] = groups[b]
      BY <1>0, <2>1 DEF NoGroup
    <2>3. Lent' = Lent \ {o} /\ o \in Lent
      BY <2>1, <2>2, LentChanged DEF Lent
    <2>4. ReturnStep
      BY <1>2, <2>1, <2>3 DEF ReturnStep
    <2> QED BY <1>2, <2>4 DEF ReaderMoves
  <1> QED BY <1>4, <1>5

\* Every step of a reader that quarantines nothing is one of these.
LEMMA ReaderStepMoves ==
    ASSUME TInv, HoldersCurrent, Projecting, Reader, ~quarantined'
    PROVE  ReaderMoves /\ Projecting' /\ UNCHANGED writerVars
  <1>1. ~Quarantine /\ \A s \in Sessions : ~QuarantineSession(s)
    BY DEF Quarantine, QuarantineSession
  <1>2. UNCHANGED writerVars
    BY DEF Reader, AdmitSession, BeginReader, PrepareProjection, AttachProjection, CommitReader,
           ZeroAttachment, CompleteSession, AbandonSession, BeginUnmap, PollUnmapCut,
           FailUnmapWait, AbandonGroup, LoseGroup, CompleteUnmap
  <1>3. ASSUME NEW s \in Sessions, NEW o \in Opens, NEW t \in Threads, AdmitSession(s, o, t)
        PROVE  ReaderMoves /\ Projecting'
    BY <1>3, AdmitMoves
  <1>4. ASSUME NEW s \in Sessions,
               \/ \E p \in Pages : BeginReader(s, p)
               \/ PrepareProjection(s) \/ AttachProjection(s)
        PROVE  ReaderMoves /\ Projecting'
    BY <1>4, AttemptMoves
  <1>5. ASSUME NEW s \in Sessions, CommitReader(s)
        PROVE  ReaderMoves /\ Projecting'
    BY <1>5, CommitMoves
  <1>6. ASSUME NEW s \in Sessions, ZeroAttachment(s) \/ CompleteSession(s)
        PROVE  ReaderMoves /\ Projecting'
    BY <1>6, SessionOverMoves
  <1>7. ASSUME NEW s \in Sessions, AbandonSession(s)
        PROVE  FALSE
    BY <1>1, <1>7 DEF AbandonSession
  <1>8. ASSUME NEW o \in Opens,
               \/ \E t \in Threads : BeginUnmap(o, t)
               \/ PollUnmapCut(o) \/ CompleteUnmap(o)
        PROVE  ReaderMoves /\ Projecting'
    BY <1>8, UnmapMoves
  <1>9. ASSUME NEW o \in Opens, FailUnmapWait(o) \/ AbandonGroup(o)
        PROVE  FALSE
    BY <1>1, <1>9 DEF FailUnmapWait, AbandonGroup, LoseGroup
  <1>10. ReaderMoves /\ Projecting'
    BY <1>3, <1>4, <1>5, <1>6, <1>7, <1>8, <1>9 DEF Reader
  <1> QED BY <1>2, <1>10

\* The generation counts one borrower more, one less, or the same ones.
LEMMA LendingMoves ==
    ASSUME TInv, Support, ReaderMoves
    PROVE  Lending'
  <1>1. IsFiniteSet(Lent) /\ Lent \subseteq Opens
    BY OpensAssumption, FS_Subset DEF Lent
  <1>2. /\ gen \in GenRecords /\ gen.handoffs = Cardinality(Lent)
        /\ gen.handoffs \in Nat
    BY <1>1, TypeParts, FS_CardinalityType DEF TInv, SharedTyped, Support, Lending
  <1>3. CASE UNCHANGED gen /\ Lent' = Lent
    BY <1>2, <1>3 DEF Lending
  <1>4. CASE PublishStep
    <2>1. PICK o \in Opens \ Lent : Lent' = Lent \cup {o}
      BY <1>4 DEF PublishStep
    <2>2. Cardinality(Lent') = Cardinality(Lent) + 1
      BY <1>1, <2>1, FS_AddElement
    <2>3. gen'.handoffs = gen.handoffs + 1
      BY <1>2, <1>4 DEF PublishStep, GenRecords
    <2> QED BY <1>2, <2>2, <2>3 DEF Lending
  <1>5. CASE ReturnStep
    <2>1. PICK o \in Lent : Lent' = Lent \ {o}
      BY <1>5 DEF ReturnStep
    <2>2. Cardinality(Lent') = Cardinality(Lent) - 1
      BY <1>1, <2>1, FS_RemoveElement
    <2>3. gen'.handoffs = gen.handoffs - 1
      <3>1. CASE gen.phase = "retired" /\ gen.handoffs = 1
        BY <1>5, <3>1 DEF ReturnStep, NoGen
      <3>2. CASE ~(gen.phase = "retired" /\ gen.handoffs = 1)
        BY <1>2, <1>5, <3>2 DEF ReturnStep, GenRecords
      <3> QED BY <3>1, <3>2
    <2> QED BY <1>2, <2>2, <2>3 DEF Lending
  <1> QED BY <1>3, <1>4, <1>5 DEF ReaderMoves, JoinStep, LeaveStep, IdleStep

\* A step of a reader leaves the holders and what they support alone; the last borrower
\* to return takes a retired generation with it.
LEMMA ReaderSupport ==
    ASSUME TInv, Retirement, Support, ReaderMoves, Projecting', UNCHANGED writerVars
    PROVE  Support'
  <1>0. HoldersCurrent /\ Covered /\ gen \in GenRecords /\ maps' = maps /\ atts' = atts
    BY TypeParts DEF TInv, SharedTyped, Support, writerVars
  <1>1. /\ \A m \in Maps : Supports(m)' <=> Supports(m)
        /\ Owners' = Owners
    BY <1>0 DEF Supports, Waiting, Owners
  <1>2. \/ /\ gen'.value = gen.value /\ gen'.phase = gen.phase /\ gen'.pages = gen.pages
           /\ gen'.authorities = gen.authorities
           /\ gen.value = 0 => gen'.handoffs = gen.handoffs
        \/ gen.phase = "retired" /\ gen' = NoGen
    <2>1. CASE PublishStep
      <3>1. gen.value # 0
        BY <2>1 DEF PublishStep, Retirement, PhaseHonest
      <3> QED BY <1>0, <2>1, <3>1 DEF PublishStep, GenRecords
    <2>2. CASE ReturnStep
      <3>1. gen.value # 0
        BY <1>0, <2>2 DEF ReturnStep, HoldersCurrent
      <3> QED BY <1>0, <2>2, <3>1 DEF ReturnStep, GenRecords
    <2> QED BY <2>1, <2>2 DEF ReaderMoves, JoinStep, LeaveStep, IdleStep
  <1>3. HoldersCurrent' /\ Covered'
    <2>1. CASE /\ gen'.value = gen.value /\ gen'.phase = gen.phase /\ gen'.pages = gen.pages
               /\ gen'.authorities = gen.authorities
               /\ gen.value = 0 => gen'.handoffs = gen.handoffs
      BY <1>0, <1>1, <2>1 DEF HoldersCurrent, Covered
    <2>2. CASE gen.phase = "retired" /\ gen' = NoGen
      <3>1. \A m \in Maps : maps[m].phase # "active"
        BY <1>0, <2>2 DEF HoldersCurrent
      <3>2. /\ gen'.value = 0 /\ gen'.pages = {} /\ gen'.authorities = {}
            /\ gen'.handoffs = 0 /\ gen'.phase = "retired"
        BY <2>2 DEF NoGen
      <3> QED BY <1>0, <1>1, <2>2, <3>1, <3>2 DEF HoldersCurrent, Covered
    <2> QED BY <1>2, <2>1, <2>2
  <1> QED BY <1>3, LendingMoves DEF Support

-----------------------------------------------------------------------------
(* The gate, and all steps *)

\* A gate that advances or is won promotes nobody, or a sequence of attempts.
LEMMA GateEffect ==
    ASSUME TInv,
           \/ \E a \in Attachments : AdvanceGate(a)
           \/ \E m \in Maps : CompleteGateWinning(m)
    PROVE  /\ UNCHANGED <<readerVars, quarantined>>
           /\ \A b \in Attachments : atts'[b].phase = atts[b].phase
           /\ \/ UNCHANGED <<maps, gen, minted>>
              \/ \E ms \in Seq(Maps) :
                    /\ ms # <<>> /\ Promote(ms)
                    /\ \A i \in 1 .. Len(ms) : maps[ms[i]].phase \in Attempting
  <1>0. atts \in [Attachments -> AttRecords]
    BY TypeParts DEF TInv, WriterTyped
  <1>1. ASSUME NEW m \in Maps, CompleteGateWinning(m)
        PROVE  /\ UNCHANGED <<readerVars, quarantined, atts>>
               /\ \E ms \in Seq(Maps) :
                    /\ ms # <<>> /\ Promote(ms)
                    /\ \A i \in 1 .. Len(ms) : maps[ms[i]].phase \in Attempting
    <2>1. /\ Promote(<<m>>) /\ UNCHANGED <<readerVars, quarantined, atts>>
          /\ maps[m].phase \in Attempting
      BY <1>1 DEF CompleteGateWinning, Attempting
    <2>2. <<m>> \in Seq(Maps) /\ <<m>> # <<>> /\ \A i \in 1 .. Len(<<m>>) : (<<m>>)[i] = m
      OBVIOUS
    <2> QED BY <2>1, <2>2
  <1>2. ASSUME NEW a \in Attachments, AdvanceGate(a)
        PROVE  /\ UNCHANGED <<readerVars, quarantined>>
               /\ \A b \in Attachments : atts'[b].phase = atts[b].phase
               /\ \/ UNCHANGED <<maps, gen, minted>>
                  \/ \E ms \in Seq(Maps) :
                        /\ ms # <<>> /\ Promote(ms)
                        /\ \A i \in 1 .. Len(ms) : maps[ms[i]].phase \in Attempting
    <2>1. \E g : atts' = [atts EXCEPT ![a].gate = g]
      BY <1>2, AdvanceGateEffect
    <2>2. \A b \in Attachments : atts'[b].phase = atts[b].phase
      BY <1>0, <2>1 DEF AttRecords
    <2>3. GateMembers(a) \in Seq(Maps)
      BY GateMembersAre
    <2> QED BY <1>2, <2>2, <2>3, AdvanceGateEffect
  <1> QED BY <1>1, <1>2

LEMMA SupportNext ==
    ASSUME TInv, Retirement, WaitsAlone, Support, [Next]_vars, ~quarantined'
    PROVE  Support'
  <1>1. ~Quarantine
    BY DEF Quarantine
  <1>2. CASE Writer
    <2>1. ASSUME NEW m \in Maps, NEW t \in Threads, BeginWriterCleanup(m, t)
          PROVE  Support'
      <3>1. /\ Seal(m, t, FALSE) /\ UNCHANGED readerVars
            /\ maps[m].phase \in Attempting /\ atts[maps[m].att].phase = "collecting"
        BY <2>1 DEF BeginWriterCleanup, Attempting
      <3> QED BY <3>1, SealSupport
    <2>2. ASSUME NEW m \in Maps, NEW t \in Threads, ReleaseHolder(m, t)
          PROVE  Support'
      <3>1. /\ Seal(m, t, TRUE) /\ UNCHANGED readerVars
            /\ maps[m].phase = "active" /\ atts[maps[m].att].phase = "collecting"
            /\ gen.phase = "live"
        BY <2>2 DEF ReleaseHolder, Retirement, PhaseHonest
      <3> QED BY <3>1, SealSupport
    <2>3. ASSUME NEW m \in Maps, AbandonWriter(m) PROVE FALSE
      BY <1>1, <2>3 DEF AbandonWriter
    <2>4. ASSUME NEW a \in Attachments, FailRetirementWait(a) \/ AbandonCleanup(a) PROVE FALSE
      BY <1>1, <2>4 DEF FailRetirementWait, AbandonCleanup
    <2>5. ASSUME \/ \E m \in Maps : \/ RecordNativeMapping(m) \/ WriterMapFails(m)
                                    \/ InstallPending(m)
                                    \/ \E a \in Attachments, t \in Threads, p \in Pages :
                                          BeginWriter(m, a, t, p)
                 \/ \E a \in Attachments : InstallEligibility(a) \/ RevokeEligibility(a)
          PROVE  Support'
      BY <2>5, AttemptEffect, SupportUntouched
    <2>6. ASSUME \/ \E a \in Attachments : AdvanceGate(a)
                 \/ \E m \in Maps : CompleteGateWinning(m)
          PROVE  Support'
      <3>1. /\ UNCHANGED readerVars
            /\ \A b \in Attachments : atts'[b].phase = atts[b].phase
        BY <2>6, GateEffect
      <3>2. CASE UNCHANGED <<maps, gen, minted>>
        BY <3>1, <3>2, SupportUntouched DEF HoldersUntouched
      <3>3. ASSUME NEW ms \in Seq(Maps), ms # <<>>, Promote(ms),
                   \A i \in 1 .. Len(ms) : maps[ms[i]].phase \in Attempting
            PROVE  Support'
        BY <3>1, <3>3, PromoteSupport
      <3> QED BY <2>6, <3>2, <3>3, GateEffect
    <2>7. ASSUME NEW a \in Attachments,
                 CompleteCleanup(a, TRUE) \/ CompleteCleanup(a, FALSE) \/ PollRetirement(a)
          PROVE  Support'
      BY <2>7, CleanupSupport, PollSupport
    <2> QED BY <1>2, <2>1, <2>2, <2>3, <2>4, <2>5, <2>6, <2>7 DEF Writer
  <1>3. CASE Reader
    BY <1>3, ReaderStepMoves, ReaderSupport DEF Support
  <1>4. CASE UNCHANGED vars
    BY <1>4, SupportUntouched DEF vars, readerVars, HoldersUntouched
  <1> QED BY <1>2, <1>3, <1>4 DEF Next

LEMMA CInvInit == Init => CInv
  <1> SUFFICES ASSUME Init PROVE Support
    BY InvInit DEF CInv
  <1>1. /\ \A a \in Attachments : atts[a].phase = "collecting"
        /\ \A m \in Maps : maps[m].phase = "unused"
        /\ gen = NoGen /\ \A s \in Sessions : sessions[s].phase = "unused"
        /\ \A o \in Opens : groups[o].phase = "none"
    BY DEF Init, NoMap, NoSession, NoGroup
  <1>2. HoldersCurrent
    BY <1>1 DEF HoldersCurrent, NoGen, Owners
  <1>3. Covered /\ Projecting
    BY <1>1 DEF Covered, NoGen, Projecting, ReaderMapInFlight
  <1>4. Lent = {} /\ gen.handoffs = 0
    BY <1>1 DEF Lent, NoGen
  <1>5. Lending
    BY <1>4, FS_EmptySet DEF Lending
  <1> QED BY <1>2, <1>3, <1>5 DEF Support

LEMMA CInvNext == CInv /\ [Next]_vars => CInv'
  <1> SUFFICES ASSUME CInv, [Next]_vars PROVE CInv'
    OBVIOUS
  <1>1. Inv' /\ TInv /\ WaitsAlone
    BY InvNext DEF CInv, Inv
  <1>2. CASE ~quarantined'
    <2>1. ~quarantined /\ Support /\ Retirement
      BY <1>1, <1>2, QuarantineSticky DEF CInv, Inv, SInv
    <2> QED BY <1>1, <1>2, <2>1, SupportNext DEF CInv
  <1> QED BY <1>1, <1>2 DEF CInv

\* Every page a live generation offers is mapped by one of its authorities, or by a
\* sealed holder that waits for a reader (seal_attachment_cleanup_locked,
\* target_pages_have_exact_redundant_support_locked).
THEOREM PagesAlwaysSupported == Spec => []PagesSupported
  <1>1. CInv => PagesSupported
    <2> SUFFICES ASSUME CInv, ~quarantined, gen.phase = "live"
                 PROVE  /\ gen.authorities = {m \in ActiveHolders : maps[m].gen = gen.value}
                        /\ gen.pages = {maps[m].page : m \in gen.authorities
                               \cup {n \in Maps : /\ maps[n].phase = "holder_sealed"
                                                  /\ atts[maps[n].att].phase = "last_waiting"}}
      BY DEF PagesSupported
    <2>0. HoldersCurrent /\ Covered /\ gen.authorities \subseteq Maps
      BY TypeParts DEF CInv, Inv, TInv, SharedTyped, GenRecords, Support
    <2>1. gen.authorities = {m \in ActiveHolders : maps[m].gen = gen.value}
      BY <2>0 DEF HoldersCurrent, ActiveHolders
    <2> DEFINE sealed == {n \in Maps : /\ maps[n].phase = "holder_sealed"
                                       /\ atts[maps[n].att].phase = "last_waiting"}
    <2>2. gen.authorities \cup sealed = {n \in Maps : Supports(n)}
      BY <2>0 DEF HoldersCurrent, Supports, Waiting
    <2>3. gen.pages = {maps[m].page : m \in {n \in Maps : Supports(n)}}
      BY <2>0 DEF Covered
    <2> QED BY <2>1, <2>2, <2>3
  <1> QED BY CInvInit, CInvNext, <1>1, PTL DEF Spec

\* A reader's projection has its holder until the reader's map attempt is decided
\* (prepare_reader_native_ok_projection, seal_attachment_cleanup_locked).
THEOREM ProjectionAlwaysHeld == Spec => []ProjectionHasHolder
  <1>1. CInv => ProjectionHasHolder
    <2> SUFFICES ASSUME CInv, ~quarantined, NEW s \in Sessions, ReaderMapInFlight(s),
                        sessions[s].map.projection # "none"
                 PROVE  LET m == sessions[s].map.holder IN
                        /\ maps[m].gen = sessions[s].gen /\ maps[m].page = sessions[s].map.page
                        /\ \/ maps[m].phase = "active" /\ m \in gen.authorities
                           \/ /\ maps[m].phase = "holder_sealed"
                              /\ atts[maps[m].att].phase = "last_waiting"
      BY DEF ProjectionHasHolder
    <2>1. HoldersCurrent /\ Projecting /\ sessions[s].map.holder \in Maps
      BY DEF CInv, Support, Inv, TInv, Seated
    <2> QED BY <2>1 DEF HoldersCurrent, Projecting, Supports, Waiting
  <1> QED BY CInvInit, CInvNext, <1>1, PTL DEF Spec

-----------------------------------------------------------------------------
(* The leases implement GenerationCustody *)

\* What needs the mapping of the writers.
Held == ActiveHolders \cup Using

\* The state of GenerationCustody that a family which is not quarantined stands for.
LEMMA CustodyState ==
    /\ ActiveHolders \cup BlockingReaderMaps \cup ReservedSessions = Held
    /\ (ActiveHolders \cup BlockingReaderMaps \cup ReservedSessions)' = Held'
    /\ {o \in Opens : groups[o].phase \in {"active", "sealing", "admitted"}} = Lent
    /\ {o \in Opens : groups'[o].phase \in {"active", "sealing", "admitted"}} = Lent'
    /\ Held \subseteq Maps \cup Sessions /\ Held' \subseteq Maps \cup Sessions
  BY DEF Held, Using, Uses, ActiveHolders, BlockingReaderMaps, ReservedSessions, Lent

\* Each step of GenerationCustody, from what a step of the leases shows.
LEMMA CustodyStutters ==
    ASSUME ~quarantined, ~quarantined', Held' = Held, Lent' = Lent,
           gen'.phase = gen.phase, minted' = minted
    PROVE  UNCHANGED Custody!vars
  BY CustodyState DEF Custody!vars

LEMMA CustodyOpens ==
    ASSUME ~quarantined, ~quarantined', gen.phase = "retired", gen'.phase = "live",
           Lent = {}, Lent' = Lent, Held' # {}, minted' = minted + 1
    PROVE  Custody!Next
  <1>1. Custody!Open(Held')
    BY CustodyState DEF Custody!Open
  <1> QED BY <1>1, CustodyState DEF Custody!Next

LEMMA CustodyJoins ==
    ASSUME ~quarantined, ~quarantined', gen.phase = "live", gen'.phase = "live",
           NEW U \in SUBSET (Maps \cup Sessions), Held' = Held \cup U,
           Lent' = Lent, minted' = minted
    PROVE  Custody!Next
  <1>1. Custody!Join(U)
    BY CustodyState DEF Custody!Join
  <1> QED BY <1>1 DEF Custody!Next

LEMMA CustodyLeaves ==
    ASSUME ~quarantined, ~quarantined', Held' \subseteq Held, Lent' = Lent, minted' = minted,
           gen'.phase = gen.phase \/ (gen.phase = "live" /\ gen'.phase = "retiring")
    PROVE  Custody!Next
  <1> DEFINE U == Held \ Held'
  <1>1. U \in SUBSET (Maps \cup Sessions) /\ Held' = Held \ U
    BY CustodyState
  <1> HIDE DEF U
  <1>2. Custody!Leave(U)
    BY <1>1, CustodyState DEF Custody!Leave
  <1> QED BY <1>1, <1>2 DEF Custody!Next

LEMMA CustodyPublishes ==
    ASSUME ~quarantined, ~quarantined', gen.phase \in {"live", "retiring"},
           gen'.phase = gen.phase, minted' = minted,
           NEW s \in Sessions, s \in Held, NEW o \in Opens, o \notin Lent,
           Held' = Held \ {s}, Lent' = Lent \cup {o}
    PROVE  Custody!Next
  <1>1. Custody!Publish(s, o)
    BY CustodyState DEF Custody!Publish
  <1> QED BY <1>1 DEF Custody!Next

LEMMA CustodyReturns ==
    ASSUME ~quarantined, ~quarantined', gen'.phase = gen.phase, minted' = minted,
           NEW o \in Opens, o \in Lent, Held' = Held, Lent' = Lent \ {o}
    PROVE  Custody!Next
  <1>1. Custody!Return(o)
    BY CustodyState DEF Custody!Return
  <1> QED BY <1>1 DEF Custody!Next

LEMMA CustodyCloses ==
    ASSUME ~quarantined, ~quarantined', gen.phase = "retiring", gen'.phase = "retired",
           Held = {}, Held' = {}, Lent' = Lent, minted' = minted
    PROVE  Custody!Next
  <1>1. Custody!Close
    BY CustodyState DEF Custody!Close
  <1> QED BY <1>1 DEF Custody!Next

LEMMA CustodyLost ==
    ASSUME quarantined', minted' = minted
    PROVE  [Custody!Next]_(Custody!vars)
  <1>1. CASE quarantined
    BY <1>1 DEF Custody!vars
  <1>2. CASE ~quarantined
    BY <1>2 DEF Custody!Next, Custody!Lose
  <1> QED BY <1>1, <1>2

\* Only a promotion mints, and nothing quarantined is promoted.
LEMMA MintedMoves ==
    ASSUME TInv, [Next]_vars, minted' # minted
    PROVE  ~quarantined /\ ~quarantined'
  <1>1. CASE \/ \E a \in Attachments : AdvanceGate(a)
             \/ \E m \in Maps : CompleteGateWinning(m)
    <2>1. UNCHANGED quarantined
      BY <1>1, GateEffect
    <2>2. ~quarantined
      BY Zenon, <1>1 DEF AdvanceGate, CompleteGateWinning
    <2> QED BY <2>1, <2>2
  <1>2. CASE Reader
    BY <1>2
       DEF Reader, AdmitSession, BeginReader, PrepareProjection, AttachProjection, CommitReader,
           ZeroAttachment, CompleteSession, AbandonSession, BeginUnmap, PollUnmapCut,
           FailUnmapWait, AbandonGroup, LoseGroup, CompleteUnmap, writerVars
  <1>3. CASE UNCHANGED vars
    BY <1>3 DEF vars
  <1>4. ASSUME \/ \E m \in Maps, a \in Attachments, t \in Threads, p \in Pages :
                    BeginWriter(m, a, t, p)
               \/ \E m \in Maps, t \in Threads : BeginWriterCleanup(m, t) \/ ReleaseHolder(m, t)
               \/ \E m \in Maps : \/ RecordNativeMapping(m) \/ WriterMapFails(m)
                                  \/ InstallPending(m) \/ AbandonWriter(m)
               \/ \E a \in Attachments : \/ InstallEligibility(a) \/ RevokeEligibility(a)
                                         \/ PollRetirement(a) \/ FailRetirementWait(a)
                                         \/ CompleteCleanup(a, TRUE) \/ CompleteCleanup(a, FALSE)
                                         \/ AbandonCleanup(a)
        PROVE  minted' = minted
    BY <1>4
       DEF BeginWriter, BeginWriterCleanup, ReleaseHolder, RecordNativeMapping, WriterMapFails,
           InstallPending, AbandonWriter, InstallEligibility, RevokeEligibility, PollRetirement,
           FailRetirementWait, CompleteCleanup, AbandonCleanup
  <1> QED BY <1>1, <1>2, <1>3, <1>4 DEF Next, Writer

\* A promotion opens a generation, or lets the promoted ones join the open one.
LEMMA PromoteRefines ==
    ASSUME TInv, Retirement, Support, ~quarantined, ~quarantined',
           NEW ms \in Seq(Maps), ms # <<>>, Promote(ms),
           \A i \in 1 .. Len(ms) : maps[ms[i]].phase \in Attempting,
           UNCHANGED readerVars
    PROVE  Custody!Next
  <1> DEFINE added == {ms[i] : i \in 1 .. Len(ms)}
  <1>1. /\ added # {} /\ added \subseteq Maps
        /\ \A m \in added : maps'[m].phase = "active"
        /\ \A m \in Maps \ added : maps'[m] = maps[m]
        /\ gen'.phase = "live"
        /\ \/ gen.phase = "live" /\ minted' = minted
           \/ gen.value = 0 /\ gen.phase = "retired" /\ minted' = minted + 1
    BY PromoteEffect DEF Support
  <1> HIDE DEF added
  <1>2. Using' = Using /\ Lent' = Lent
    BY DEF readerVars, Using, Uses, ReaderMapInFlight, Lent
  <1>3. Held' = Held \cup added
    BY <1>1, <1>2 DEF Held, ActiveHolders
  <1>4. CASE gen.phase = "live" /\ minted' = minted
    BY <1>1, <1>2, <1>3, <1>4, CustodyJoins
  <1>5. CASE gen.value = 0 /\ gen.phase = "retired" /\ minted' = minted + 1
    <2>1. gen.handoffs = 0 /\ gen.handoffs = Cardinality(Lent)
      BY <1>5 DEF Support, HoldersCurrent, Lending
    <2>2. IsFiniteSet(Lent)
      BY OpensAssumption, FS_Subset DEF Lent
    <2>3. Lent = {}
      BY <2>1, <2>2, FS_EmptySet
    <2> QED BY <1>1, <1>2, <1>3, <1>5, <2>3, CustodyOpens
  <1> QED BY <1>1, <1>4, <1>5

\* A group that is sealed takes its holders out, and may begin to drain the generation.
LEMMA SealRefines ==
    ASSUME TInv, Retirement, ~quarantined, ~quarantined',
           NEW m \in Maps, NEW t \in Threads, NEW waits \in BOOLEAN,
           maps[m].phase \in Attempting \cup {"active"},
           Seal(m, t, waits), UNCHANGED <<minted, readerVars>>
    PROVE  Custody!Next
  <1>0. WriterTyped /\ gen \in GenRecords
    BY TypeParts DEF TInv, SharedTyped
  <1> DEFINE a == maps[m].att
             unsupported == [gen EXCEPT !.authorities = @ \ Members(a)]
  <1>1. /\ maps' = [n \in Maps |-> IF n \in Members(a) THEN Sealed(n) ELSE maps[n]]
        /\ gen' = IF GenPresent /\ OtherLiveGroups(a) = {}
                  THEN [unsupported EXCEPT !.phase = "retiring"] ELSE unsupported
    BY DEF Seal, Quarantine
  <1>2. \A n \in Maps : maps'[n].phase = "active" => maps[n].phase = "active"
    BY <1>0, <1>1, SealedTyped
  <1>3. Using' = Using /\ Lent' = Lent
    BY DEF readerVars, Using, Uses, ReaderMapInFlight, Lent
  <1>4. Held' \subseteq Held
    BY <1>2, <1>3 DEF Held, ActiveHolders
  <1>5. GenPresent => gen.phase \in {"live", "retiring"}
    BY <1>0 DEF Retirement, PhaseHonest, Settled, Drained, GenPresent, GenRecords, GenPhase
  <1>6. gen'.phase = gen.phase \/ (gen.phase = "live" /\ gen'.phase = "retiring")
    BY <1>0, <1>1, <1>5 DEF GenRecords
  <1> QED BY <1>3, <1>4, <1>6, CustodyLeaves

\* A confirmed unmap is the last one, which closes the mapping, or changes nothing.
LEMMA CleanupRefines ==
    ASSUME TInv, Retirement, Support, ~quarantined, ~quarantined',
           NEW a \in Attachments, NEW ok \in BOOLEAN, CompleteCleanup(a, ok)
    PROVE  [Custody!Next]_(Custody!vars)
  <1>1. /\ UNCHANGED <<minted, readerVars>>
        /\ \A m \in Maps : IF m \in Members(a) THEN maps'[m].phase = "cleaned" /\ ~Supports(m)
                           ELSE maps'[m] = maps[m]
    BY CleanupEffect
  <1>2. Using' = Using /\ Lent' = Lent
    BY <1>1 DEF readerVars, Using, Uses, ReaderMapInFlight, Lent
  <1>3. Held' = Held
    BY <1>1, <1>2 DEF Held, ActiveHolders, Supports
  <1>4. CASE UNCHANGED gen
    BY <1>1, <1>2, <1>3, <1>4, CustodyStutters
  <1>5. CASE /\ gen.phase = "retiring"
             /\ gen' = IF gen.handoffs = 0 THEN NoGen ELSE [gen EXCEPT !.phase = "retired"]
             /\ \A m \in Maps : ~Supports(m)
             /\ BlockingReaderMaps = {} /\ ReservedSessions = {}
    <2>1. Held = {}
      BY <1>5, CustodyState DEF ActiveHolders, Supports
    <2>2. gen'.phase = "retired"
      BY <1>5, TypeParts DEF TInv, SharedTyped, GenRecords, NoGen
    <2> QED BY <1>1, <1>2, <1>3, <1>5, <2>1, <2>2, CustodyCloses
  <1> QED BY <1>4, <1>5, CleanupEffect

\* What a reader's step does to users and borrowers.
LEMMA ReaderRefines ==
    ASSUME TInv, ~quarantined, ~quarantined', ReaderMoves, UNCHANGED writerVars
    PROVE  [Custody!Next]_(Custody!vars)
  <1>0. /\ maps' = maps /\ minted' = minted /\ gen \in GenRecords
        /\ ActiveHolders' = ActiveHolders /\ ActiveHolders \subseteq Maps
    BY TypeParts DEF TInv, SharedTyped, writerVars, ActiveHolders
  <1>1. CASE JoinStep
    <2>1. PICK s \in Sessions : Using' = Using \cup {s}
      BY <1>1 DEF JoinStep
    <2>2. Held' = Held \cup {s} /\ {s} \in SUBSET (Maps \cup Sessions)
      BY <1>0, <2>1 DEF Held
    <2> QED BY <1>0, <1>1, <2>2, CustodyJoins DEF JoinStep
  <1>2. CASE LeaveStep
    <2>1. Held' \subseteq Held
      BY <1>0, <1>2 DEF LeaveStep, Held
    <2> QED BY <1>0, <1>2, <2>1, CustodyLeaves DEF LeaveStep
  <1>3. CASE PublishStep
    <2>1. PICK s \in Using, o \in Opens \ Lent :
              Using' = Using \ {s} /\ Lent' = Lent \cup {o}
      BY <1>3 DEF PublishStep
    <2>2. s \in Sessions /\ s \in Held /\ s \notin ActiveHolders
      BY <1>0, KindsAssumption DEF Using, Held
    <2>3. Held' = Held \ {s}
      BY <1>0, <2>1, <2>2 DEF Held
    <2>4. gen'.phase = gen.phase /\ gen.phase \in {"live", "retiring"}
      BY <1>0, <1>3 DEF PublishStep, GenRecords
    <2> QED BY <1>0, <2>1, <2>2, <2>3, <2>4, CustodyPublishes
  <1>4. CASE ReturnStep
    <2>1. PICK o \in Lent : Lent' = Lent \ {o}
      BY <1>4 DEF ReturnStep
    <2>2. gen'.phase = gen.phase
      BY <1>0, <1>4 DEF ReturnStep, GenRecords, NoGen
    <2>3. Held' = Held
      BY <1>0, <1>4 DEF ReturnStep, Held
    <2> QED BY <1>0, <2>1, <2>2, <2>3, CustodyReturns DEF Lent
  <1>5. CASE IdleStep
    <2>1. Held' = Held
      BY <1>0, <1>5 DEF IdleStep, Held
    <2> QED BY <1>0, <1>5, <2>1, CustodyStutters DEF IdleStep
  <1> QED BY <1>1, <1>2, <1>3, <1>4, <1>5 DEF ReaderMoves

\* Every step is one of GenerationCustody or changes nothing of it.
LEMMA StepRefines ==
    ASSUME CInv, [Next]_vars
    PROVE  [Custody!Next]_(Custody!vars)
  <1>0. TInv /\ WaitsAlone
    BY DEF CInv, Inv
  <1>1. CASE quarantined'
    BY <1>0, <1>1, MintedMoves, CustodyLost
  <1>2. ASSUME ~quarantined'
        PROVE  [Custody!Next]_(Custody!vars)
    <2>0. ~quarantined /\ Retirement /\ Support /\ ~Quarantine
      BY <1>0, <1>2, QuarantineSticky DEF CInv, Inv, SInv, Quarantine
    <2>1. ASSUME HoldersUntouched, UNCHANGED <<gen, minted, readerVars>>
          PROVE  UNCHANGED Custody!vars
      <3>1. ActiveHolders' = ActiveHolders
        BY <2>1 DEF HoldersUntouched, HolderPhase, ActiveHolders
      <3>2. Using' = Using /\ Lent' = Lent
        BY <2>1 DEF readerVars, Using, Uses, ReaderMapInFlight, Lent
      <3>3. Held' = Held
        BY <3>1, <3>2 DEF Held
      <3> QED BY <1>2, <2>0, <2>1, <3>2, <3>3, CustodyStutters
    <2>2. ASSUME NEW m \in Maps, NEW t \in Threads, BeginWriterCleanup(m, t) \/ ReleaseHolder(m, t)
          PROVE  Custody!Next
      <3>1. /\ \E waits \in BOOLEAN : Seal(m, t, waits)
            /\ maps[m].phase \in Attempting \cup {"active"}
            /\ UNCHANGED <<minted, readerVars>>
        BY <2>2 DEF BeginWriterCleanup, ReleaseHolder, Attempting
      <3> QED BY <1>0, <1>2, <2>0, <3>1, SealRefines
    <2>3. ASSUME NEW m \in Maps, AbandonWriter(m) PROVE FALSE
      BY <2>0, <2>3 DEF AbandonWriter
    <2>4. ASSUME NEW a \in Attachments, FailRetirementWait(a) \/ AbandonCleanup(a) PROVE FALSE
      BY <2>0, <2>4 DEF FailRetirementWait, AbandonCleanup
    <2>5. ASSUME \/ \E m \in Maps : \/ RecordNativeMapping(m) \/ WriterMapFails(m)
                                    \/ InstallPending(m)
                                    \/ \E a \in Attachments, t \in Threads, p \in Pages :
                                          BeginWriter(m, a, t, p)
                 \/ \E a \in Attachments : InstallEligibility(a) \/ RevokeEligibility(a)
          PROVE  UNCHANGED Custody!vars
      BY <1>0, <2>1, <2>5, AttemptEffect
    <2>6. ASSUME \/ \E a \in Attachments : AdvanceGate(a)
                 \/ \E m \in Maps : CompleteGateWinning(m)
          PROVE  [Custody!Next]_(Custody!vars)
      <3>1. UNCHANGED readerVars /\ \A b \in Attachments : atts'[b].phase = atts[b].phase
        BY <1>0, <2>6, GateEffect
      <3>2. CASE UNCHANGED <<maps, gen, minted>>
        BY <2>1, <3>1, <3>2 DEF HoldersUntouched
      <3>3. ASSUME NEW ms \in Seq(Maps), ms # <<>>, Promote(ms),
                   \A i \in 1 .. Len(ms) : maps[ms[i]].phase \in Attempting
            PROVE  Custody!Next
        BY <1>0, <1>2, <2>0, <3>1, <3>3, PromoteRefines
      <3> QED BY <1>0, <2>6, <3>2, <3>3, GateEffect
    <2>7. ASSUME NEW a \in Attachments, CompleteCleanup(a, TRUE) \/ CompleteCleanup(a, FALSE)
          PROVE  [Custody!Next]_(Custody!vars)
      BY <1>0, <1>2, <2>0, <2>7, CleanupRefines
    <2>8. ASSUME NEW a \in Attachments, PollRetirement(a)
          PROVE  UNCHANGED Custody!vars
      <3>1. UNCHANGED <<gen, minted, maps, readerVars>>
        BY <1>0, <1>2, <2>0, <2>8, PollSupport
      <3>2. Held' = Held /\ Lent' = Lent
        BY <3>1 DEF readerVars, Held, ActiveHolders, Using, Uses, ReaderMapInFlight, Lent
      <3> QED BY <1>2, <2>0, <3>1, <3>2, CustodyStutters
    <2>9. CASE Reader
      BY <1>0, <1>2, <2>0, <2>9, ReaderStepMoves, ReaderRefines DEF Support
    <2>10. CASE UNCHANGED vars
      BY <2>1, <2>10 DEF vars, readerVars, HoldersUntouched
    <2> QED BY <2>2, <2>3, <2>4, <2>5, <2>6, <2>7, <2>8, <2>9, <2>10 DEF Next, Writer
  <1> QED BY <1>1, <1>2

\* The leases keep the custody of one generation after the other: a generation that
\* drains gains no user, its mapping is closed with none left, and the next one opens
\* when the last borrower has returned.
THEOREM LeasesImplementCustody == Spec => ImplementsCustody
  <1>1. Init => Custody!Init
    BY DEF Init, Custody!Init, NoMap, NoGen, NoSession, NoGroup, ActiveHolders,
           BlockingReaderMaps, ReservedSessions, ReaderMapInFlight
  <1>2. CInv /\ [Next]_vars => [Custody!Next]_(Custody!vars)
    BY StepRefines
  <1> QED BY CInvInit, CInvNext, <1>1, <1>2, PTL DEF Spec, ImplementsCustody, Custody!Spec
=============================================================================
