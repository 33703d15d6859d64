------------------------- MODULE SpillStorageProofs -------------------------
(***************************************************************************)
(* Proofs about SpillStorage, for every record quota, set of payloads and  *)
(* bound on the generations.                                               *)
(*                                                                         *)
(* The inductive invariant has five parts besides the types.   Published   *)
(* speaks of the files alone and survives every failure.  InStep says that *)
(* the port and the session of an unfailed first worker agree with the     *)
(* files, which is what makes an append extend the data at its end and a   *)
(* fsync publish exactly the data.  Held ties the receipt in memory to the *)
(* published one.  Owned and Exact follow the files through the restart:   *)
(* who may unlink them, whose session is alive, and what it stands on.     *)
(***************************************************************************)
EXTENDS SpillStorage, SequenceTheorems, TLAPS

\* The commit lies between the frontier and the end of the data, and the data
\* starts with the records of the receipt.
Published ==
    /\ frontier.bytes = Len(frontier.digest)
    /\ frontier.bytes <= commit.bytes
    /\ commit.bytes <= Len(data)
    /\ frontier.seq <= commit.seq
    /\ SubSeq(data, 1, frontier.bytes) = frontier.digest
    /\ frontier.gen # 0 => frontier.ack < Len(frontier.digest)

\* Until something fails, the first worker's port and session mirror the files, and
\* nothing is committed that is not published.
InStep ==
    phase \in {"running", "killed"} /\ ~poisoned =>
        /\ current = "original"
        /\ port["original"].bytes = Len(data)
        /\ port["original"].seq = commit.seq
        /\ session["original"].prefix = data
        /\ session["original"].lastGen = frontier.gen
        /\ commit.bytes = frontier.bytes
        /\ commit.seq = frontier.seq

\* The receipt the host holds is the published one until something fails.
Held == ~poisoned => checkpoint = frontier

\* One port has the custody, and it was not closed before the directory went.
\* The restart works for the original; once the replacement is installed the
\* original is retired, and outside the restart the other session is over.
Owned ==
    /\ port["original"].custody <=> ~port["replacement"].custody
    /\ \A h \in Handles : /\ session[h].cleaned => ~session[h].live
                          /\ dir = "removed" /\ port[h].custody => ~session[h].live
    /\ phase \in {"running", "killed"} => port["original"].custody
    /\ phase \in {"running", "killed", "reopened", "restored"} => current = "original"
    /\ phase \in {"installed", "resumed"} => current = "replacement"
    /\ current = "replacement" => ~session["original"].live /\ ~port["original"].open
    /\ current = "original" /\ phase \notin {"reopened", "restored"} =>
          ~session["replacement"].live
    /\ phase = "cleaned" => ~session[current].live

\* The replacement stands on the data file, which is the receipt's prefix.
Exact ==
    ~poisoned =>
        /\ phase \in {"restored", "installed", "resumed"} => session["replacement"].prefix = data
        /\ phase \in {"installed", "resumed"} => data = checkpoint.digest

IInv == TypeOK /\ Published /\ InStep /\ Held /\ Owned /\ Exact

-----------------------------------------------------------------------------
(* Lemmas about the data file *)

\* A write at the end of the file appends one cell: the offset of append is the end
\* of the file as long as the port and the file agree.
LEMMA WriteAtEnd ==
    ASSUME NEW S, NEW file \in Seq(S), NEW cell \in S
    PROVE  WriteAt(file, Len(file), cell) = Append(file, cell)
  <1> DEFINE n == Len(file) + 1
             w == WriteAt(file, Len(file), cell)
  <1>1. w = [i \in 1 .. n |-> IF i = n THEN cell ELSE file[i]]
    BY DEF WriteAt
  <1>2. /\ w \in Seq(S) /\ Len(w) = n
        /\ \A i \in 1 .. n : w[i] = IF i = n THEN cell ELSE file[i]
    BY <1>1
  <1>3. /\ Append(file, cell) \in Seq(S) /\ Len(Append(file, cell)) = n
        /\ \A i \in 1 .. n : Append(file, cell)[i] = IF i = n THEN cell ELSE file[i]
    OBVIOUS
  <1>4. /\ Len(w) = Len(Append(file, cell))
        /\ \A i \in 1 .. Len(w) : w[i] = Append(file, cell)[i]
    BY <1>2, <1>3
  <1> HIDE DEF w
  <1> QED BY <1>2, <1>3, <1>4, SeqEqual, Zenon DEF w

\* What lies before the end of a file is not changed by an append.
LEMMA PrefixOfAppend ==
    ASSUME NEW S, NEW file \in Seq(S), NEW cell, NEW n \in Nat, n <= Len(file)
    PROVE  SubSeq(Append(file, cell), 1, n) = SubSeq(file, 1, n)
  OBVIOUS

\* Cutting the unpublished tail off keeps the published prefix.
LEMMA PrefixOfPrefix ==
    ASSUME NEW S, NEW file \in Seq(S), NEW n \in Nat, n <= Len(file)
    PROVE  /\ SubSeq(file, 1, n) \in Seq(S)
           /\ Len(SubSeq(file, 1, n)) = n
           /\ SubSeq(SubSeq(file, 1, n), 1, n) = SubSeq(file, 1, n)
  OBVIOUS

\* A file is its own prefix.
LEMMA WholePrefix ==
    ASSUME NEW S, NEW file \in Seq(S)
    PROVE  SubSeq(file, 1, Len(file)) = file
  OBVIOUS

-----------------------------------------------------------------------------
(* Types *)

\* The initial files, ports and sessions have their types.
LEMMA InitTypes == Init => TypeOK
  <1> SUFFICES ASSUME Init PROVE TypeOK
    OBVIOUS
  <1>1. <<>> \in Seq(Cell) /\ <<>> \in Seq(Record)
    OBVIOUS
  <1>2. NoFrontier \in Frontier
    BY <1>1 DEF NoFrontier, Frontier
  <1>3. ClosedPort \in Port
    BY <1>2 DEF ClosedPort, Port
  <1>4. NoSession \in Session
    BY <1>1 DEF NoSession, Session
  <1>5. [ClosedPort EXCEPT !.open = TRUE, !.custody = TRUE] \in Port
    BY <1>3 DEF Port
  <1>6. [NoSession EXCEPT !.live = TRUE] \in Session
    BY <1>4 DEF Session
  <1> QED BY <1>1, <1>2, <1>3, <1>4, <1>5, <1>6 DEF Init, TypeOK, Handles, Phases

\* The effects that several actions share keep the types.
LEMMA WriteTypes ==
    ASSUME NEW file \in Seq(Cell), NEW offset \in Nat, NEW cell \in Cell
    PROVE  WriteAt(file, offset, cell) \in Seq(Cell)
  <1> DEFINE n == IF offset < Len(file) THEN Len(file) ELSE offset + 1
  <1>1. n \in Nat
    OBVIOUS
  <1>2. [ordinal |-> 0, payload |-> Hole] \in Cell
    BY DEF Cell
  <1>3. ASSUME NEW i \in 1 .. n
        PROVE  (IF i = offset + 1 THEN cell
                ELSE IF i <= Len(file) THEN file[i]
                ELSE [ordinal |-> 0, payload |-> Hole]) \in Cell
    BY <1>2
  <1> QED BY <1>1, <1>3 DEF WriteAt

\* A failed effect keeps the types of the port and of the session it poisons.
LEMMA PoisonTypes == TypeOK /\ PoisonAll => /\ port' \in [Handles -> Port]
                                            /\ session' \in [Handles -> Session]
                                            /\ poisoned' \in BOOLEAN
  <1> SUFFICES ASSUME TypeOK, PoisonAll
               PROVE  /\ port' \in [Handles -> Port]
                      /\ session' \in [Handles -> Session]
                      /\ poisoned' \in BOOLEAN
    OBVIOUS
  <1>1. [port[current] EXCEPT !.poisoned = TRUE] \in Port
    BY DEF TypeOK, Port
  <1>2. [session[current] EXCEPT !.poisoned = TRUE] \in Session
    BY DEF TypeOK, Session
  <1> QED BY <1>1, <1>2 DEF TypeOK, PoisonAll

\* The next commit and the receipt of a prefix have their types.
LEMMA ReceiptTypes ==
    ASSUME TypeOK, NEW a \in Nat, NEW g \in Nat
    PROVE  NextCommit \in [bytes : Nat, seq : Nat] /\ NextFrontier(a, g) \in Frontier
  <1>1. port[current] \in Port /\ session[current] \in Session
    BY DEF TypeOK
  <1>2. /\ port[current].bytes \in Nat /\ port[current].seq \in Nat
        /\ session[current].prefix \in Seq(Record)
    BY <1>1 DEF Port, Session
  <1>3. NextCommit \in [bytes : Nat, seq : Nat]
    BY <1>2 DEF NextCommit
  <1>4. NextFrontier(a, g) \in Frontier
    BY <1>2 DEF NextFrontier, Receipt, Frontier
  <1> QED BY <1>3, <1>4

\* Closing a port, with or without a failure, keeps the types.
LEMMA CloseTypes ==
    ASSUME TypeOK, NEW h \in Handles, NEW failed \in BOOLEAN, ClosePort(h, failed)
    PROVE  /\ port' \in [Handles -> Port] /\ session' \in [Handles -> Session]
           /\ dir' \in {"present", "removed"}
  <1>1. port[h] \in Port /\ session[h] \in Session
    BY DEF TypeOK
  <1>2. [port[h] EXCEPT !.open = FALSE, !.cleaned = TRUE, !.poisoned = @ \/ failed] \in Port
    BY <1>1 DEF Port
  <1>3. [session[h] EXCEPT !.live = FALSE, !.cleaned = TRUE, !.poisoned = @ \/ failed]
          \in Session
    BY <1>1 DEF Session
  <1> QED BY <1>1, <1>2, <1>3 DEF ClosePort, TypeOK

\* Retiring a session keeps the types.
LEMMA RetireTypes ==
    ASSUME TypeOK, NEW retired \in BOOLEAN, RetireOriginal(retired)
    PROVE  port' \in [Handles -> Port] /\ session' \in [Handles -> Session]
  <1>1. /\ port["original"] \in Port /\ port["replacement"] \in Port
        /\ session["original"] \in Session
    BY DEF TypeOK, Handles
  <1>2. [port["original"] EXCEPT !.custody = FALSE, !.open = FALSE, !.cleaned = TRUE,
                                 !.poisoned = ~retired] \in Port
    BY <1>1 DEF Port
  <1>3. [port["replacement"] EXCEPT !.custody = TRUE] \in Port
    BY <1>1 DEF Port
  <1>4. [session["original"] EXCEPT !.live = FALSE, !.cleaned = TRUE, !.poisoned = ~retired]
          \in Session
    BY <1>1 DEF Session
  <1> QED BY <1>1, <1>2, <1>3, <1>4 DEF RetireOriginal, TypeOK, Handles

\* The steps of the running worker keep the types.
LEMMA SpillTypes == TypeOK /\ (SpillStep \/ WorkerKilled) => TypeOK'
  <1> SUFFICES ASSUME TypeOK, SpillStep \/ WorkerKilled PROVE TypeOK'
    OBVIOUS
  <1>n. Sequences0 \subseteq Nat /\ Generations \subseteq Nat
    BY SpillAssumption DEF Sequences0, Generations
  <1>c. port[current] \in Port /\ session[current] \in Session /\ port[current].bytes \in Nat
    BY DEF TypeOK, Port
  <1>1. ASSUME NEW s \in Sequences0, NEW p \in Payloads, AppendRecord(s, p)
        PROVE  TypeOK'
    <2> DEFINE record == [ordinal |-> s, payload |-> p]
    <2>1. record \in Record /\ record \in Cell
      BY <1>n DEF Record, Cell
    <2>2. WriteAt(data, port[current].bytes, record) \in Seq(Cell)
      BY <1>c, <2>1, WriteTypes DEF TypeOK
    <2>3. [port[current] EXCEPT !.bytes = @ + 1] \in Port
      BY <1>c DEF Port
    <2>4. Append(session[current].prefix, record) \in Seq(Record)
      BY <1>c, <2>1 DEF Session
    <2>5. [session[current] EXCEPT !.prefix = Append(@, record)] \in Session
      BY <1>c, <2>4 DEF Session
    <2> QED BY <1>1, <2>2, <2>3, <2>5 DEF AppendRecord, TypeOK
  <1>2. ASSUME NEW s \in Sequences0, NEW p \in Payloads, AppendFails(s, p)
        PROVE  TypeOK'
    <2>1. [ordinal |-> s, payload |-> Torn] \in Cell
      BY <1>n DEF Cell
    <2>2. WriteAt(data, port[current].bytes, [ordinal |-> s, payload |-> Torn]) \in Seq(Cell)
      BY <1>c, <2>1, WriteTypes DEF TypeOK
    <2>3. data' \in Seq(Cell)
      BY <1>2, <2>2 DEF AppendFails, TypeOK
    <2> QED BY <1>2, <2>3, PoisonTypes DEF AppendFails, TypeOK
  <1>3. ASSUME NEW s \in Sequences0, AppendRefused(s)
        PROVE  TypeOK'
    BY <1>3 DEF AppendRefused, TypeOK, files
  <1>4. ASSUME NEW a \in Sequences0, NEW g \in Generations, FsyncSpill(a, g)
        PROVE  TypeOK'
    <2>1. NextCommit \in [bytes : Nat, seq : Nat] /\ NextFrontier(a, g) \in Frontier
      BY <1>n, ReceiptTypes
    <2>2. [port[current] EXCEPT !.committed = NextCommit.bytes, !.seq = NextCommit.seq,
                                !.frontier = NextFrontier(a, g)] \in Port
      BY <1>c, <2>1 DEF Port
    <2>3. [session[current] EXCEPT !.lastSeq = NextCommit.seq, !.lastGen = g] \in Session
      BY <1>n, <1>c, <2>1 DEF Session
    <2> QED BY <1>4, <2>1, <2>2, <2>3 DEF FsyncSpill, TypeOK
  <1>5. ASSUME NEW a \in Sequences0, NEW g \in Generations, FsyncFails(a, g)
        PROVE  TypeOK'
    <2>1. NextCommit \in [bytes : Nat, seq : Nat] /\ NextFrontier(a, g) \in Frontier
      BY <1>n, ReceiptTypes
    <2> QED BY <1>5, <2>1, PoisonTypes DEF FsyncFails, TypeOK
  <1>6. ASSUME NEW a \in Sequences0, NEW g \in Generations, FsyncRefused(a, g)
        PROVE  TypeOK'
    BY <1>6 DEF FsyncRefused, TypeOK, files
  <1>7. CASE WorkerKilled
    BY <1>7 DEF WorkerKilled, TypeOK, files, Phases
  <1> QED BY <1>1, <1>2, <1>3, <1>4, <1>5, <1>6, <1>7 DEF SpillStep

\* The restart and the end keep the types.
LEMMA HostTypes == TypeOK /\ HostStep => TypeOK'
  <1> SUFFICES ASSUME TypeOK, HostStep PROVE TypeOK'
    OBVIOUS
  <1>f. frontier \in Frontier /\ frontier.bytes \in Nat /\ frontier.seq \in Nat
    BY DEF TypeOK, Frontier
  <1>c. /\ commit.bytes \in Nat /\ commit.seq \in Nat
        /\ data \in Seq(Cell) /\ Len(data) \in Nat
    BY DEF TypeOK
  <1>r. Reopenable => SubSeq(data, 1, frontier.bytes) \in Seq(Cell)
    <2>1. Reopenable => frontier.bytes <= Len(data)
      BY <1>f, <1>c DEF Reopenable, FrontierReadable
    <2> QED BY <1>f, <1>c, <2>1, PrefixOfPrefix
  <1>1. CASE Reopen
    <2>1. /\ data' \in Seq(Cell)
          /\ commit' \in [bytes : Nat, seq : Nat]
      BY <1>1, <1>f, <1>r DEF Reopen
    <2>2. [ClosedPort EXCEPT !.open = TRUE, !.bytes = frontier.bytes,
                             !.committed = frontier.bytes, !.seq = frontier.seq,
                             !.frontier = frontier] \in Port
      BY <1>f DEF ClosedPort, Port
    <2>3. [NoSession EXCEPT !.live = TRUE] \in Session
      <3>1. <<>> \in Seq(Record)
        OBVIOUS
      <3> QED BY <3>1 DEF NoSession, Session
    <2>4. /\ port' \in [Handles -> Port] /\ session' \in [Handles -> Session]
      BY <1>1, <2>2, <2>3 DEF Reopen, TypeOK
    <2> QED BY <1>1, <2>1, <2>4 DEF Reopen, TypeOK, Phases
  <1>2. CASE ReopenFails
    <2>1. /\ data' \in Seq(Cell)
          /\ commit' \in [bytes : Nat, seq : Nat]
      <3>1. CASE UNCHANGED <<data, commit>>
        BY <3>1 DEF TypeOK
      <3>2. CASE /\ Reopenable
                 /\ data' = SubSeq(data, 1, frontier.bytes)
                 /\ commit' \in {commit, [bytes |-> frontier.bytes, seq |-> frontier.seq]}
        <4>1. [bytes |-> frontier.bytes, seq |-> frontier.seq] \in [bytes : Nat, seq : Nat]
          BY <1>f
        <4> QED BY <3>2, <4>1, <1>r DEF TypeOK
      <3> QED BY <1>2, <3>1, <3>2 DEF ReopenFails
    <2> QED BY <1>2, <2>1 DEF ReopenFails, RejectTo, TypeOK, Phases
  <1>3. CASE Restore
    <2>1. ASSUME NEW i \in 1 .. Len(data)
          PROVE  data[i] \in Record
      <3>1. data[i] \in Cell
        BY <1>c
      <3>2. data[i].payload \in Payloads
        BY <1>3 DEF Restore, Recoverable, Decodes
      <3> QED BY <3>1, <3>2 DEF Cell, Record
    <2>2. data \in Seq(Record)
      BY <2>1 DEF TypeOK
    <2>3. checkpoint.seq \in Nat /\ checkpoint.gen \in Nat
      BY DEF TypeOK, Frontier
    <2>4. session["replacement"] \in Session
      BY DEF TypeOK, Handles
    <2>5. [session["replacement"] EXCEPT !.prefix = data, !.lastSeq = checkpoint.seq,
                                         !.lastGen = checkpoint.gen] \in Session
      BY <2>2, <2>3, <2>4 DEF Session
    <2> QED BY <1>3, <2>5 DEF Restore, TypeOK, files, Phases
  <1>4. CASE Replace
    BY <1>4, RetireTypes DEF Replace, TypeOK, files, Phases, Handles
  <1>5. CASE RetireFails
    BY <1>5, RetireTypes DEF RetireFails, TypeOK, files, Phases
  <1>6. CASE RestartFails
    BY <1>6, CloseTypes DEF RestartFails, RejectTo, TypeOK, Phases, Handles
  <1>7. CASE AcceptResume
    BY <1>7 DEF AcceptResume, TypeOK, files, Phases
  <1>8. CASE Seal
    BY <1>8 DEF Seal, TypeOK, files, Phases
  <1>9. CASE Reject
    BY <1>9 DEF Reject, RejectTo, TypeOK, files, Phases
  <1>10. CASE Cleanup
    BY <1>10, CloseTypes DEF Cleanup, TypeOK, Phases
  <1> QED BY <1>1, <1>2, <1>3, <1>4, <1>5, <1>6, <1>7, <1>8, <1>9, <1>10
          DEF HostStep, RestartStep

\* Every state of the spill is of the type of its variables.
THEOREM TypeCorrect == Spec => []TypeOK
  <1>1. TypeOK /\ [Next]_vars => TypeOK'
    <2>1. TypeOK /\ UNCHANGED vars => TypeOK'
      BY DEF TypeOK, vars
    <2> QED BY <2>1, SpillTypes, HostTypes DEF Next
  <1> QED BY <1>1, InitTypes, PTL DEF Spec

-----------------------------------------------------------------------------
(* The invariant *)

\* A new spill, with nothing written, satisfies the invariant.
LEMMA InitInvariant == Init => IInv
  <1> SUFFICES ASSUME Init PROVE IInv
    OBVIOUS
  <1>1. TypeOK
    BY InitTypes
  <1>2. SubSeq(<<>>, 1, 0) = <<>>
    BY SubSeqEmpty
  <1>3. Published
    BY <1>2 DEF Init, Published, NoFrontier
  <1>4. InStep /\ Held
    BY DEF Init, InStep, Held, Handles, NoFrontier, ClosedPort, NoSession
  <1>5. Owned /\ Exact
    BY DEF Init, Owned, Exact, Handles, ClosedPort, NoSession
  <1> QED BY <1>1, <1>3, <1>4, <1>5 DEF IInv

\* A step of the running worker, from its port and session in step with the files.
LEMMA SpillInvariant ==
    IInv /\ TypeOK' /\ (SpillStep \/ WorkerKilled) => (Published /\ InStep /\ Held)'
  <1> SUFFICES ASSUME IInv, TypeOK', SpillStep \/ WorkerKilled
               PROVE  (Published /\ InStep /\ Held)'
    OBVIOUS
  <1>t. /\ data \in Seq(Cell) /\ Len(data) \in Nat
        /\ commit.bytes \in Nat /\ commit.seq \in Nat
        /\ frontier.bytes \in Nat /\ frontier.seq \in Nat /\ frontier.gen \in Nat
    BY DEF IInv, TypeOK, Frontier
  <1>r. SpillOpen =>
          /\ current = "original"
          /\ port[current].bytes = Len(data) /\ port[current].seq = commit.seq
          /\ session[current].prefix = data /\ session[current].lastGen = frontier.gen
          /\ commit.bytes = frontier.bytes /\ commit.seq = frontier.seq
    BY DEF IInv, InStep, SpillOpen, EnsureOpen
  <1>h. port \in [Handles -> Port] /\ session \in [Handles -> Session] /\ current \in Handles
    BY DEF IInv, TypeOK
  <1>1. ASSUME NEW s \in Sequences0, NEW p \in Payloads, AppendRecord(s, p)
        PROVE  (Published /\ InStep /\ Held)'
    <2> DEFINE record == [ordinal |-> s, payload |-> p]
    <2>1. record \in Cell
      BY SpillAssumption DEF Cell, Sequences0
    <2>2. SpillOpen
      BY <1>1 DEF AppendRecord
    <2>3. data' = Append(data, record)
      BY <1>1, <1>r, <1>t, <2>1, <2>2, WriteAtEnd DEF AppendRecord
    <2>4. Len(data') = Len(data) + 1
      BY <1>t, <2>1, <2>3
    <2>5. SubSeq(data', 1, frontier.bytes) = SubSeq(data, 1, frontier.bytes)
      BY <1>t, <2>3, PrefixOfAppend DEF IInv, Published
    <2>6. Published'
      BY <1>1, <1>t, <2>4, <2>5 DEF AppendRecord, IInv, Published
    <2>7. /\ port'["original"].bytes = Len(data')
          /\ port'["original"].seq = commit.seq
          /\ session'["original"].prefix = data'
          /\ session'["original"].lastGen = frontier.gen
      BY <1>1, <1>r, <1>h, <2>2, <2>3, <2>4 DEF AppendRecord, Port, Session
    <2> QED BY <1>1, <1>r, <2>2, <2>6, <2>7 DEF AppendRecord, IInv, InStep, Held
  <1>2. ASSUME NEW s \in Sequences0, NEW p \in Payloads, AppendFails(s, p)
        PROVE  (Published /\ InStep /\ Held)'
    <2> DEFINE torn == [ordinal |-> s, payload |-> Torn]
    <2>1. torn \in Cell
      BY SpillAssumption DEF Cell, Sequences0
    <2>2. data' = data \/ data' = Append(data, torn)
      BY <1>2, <1>r, <1>t, <2>1, WriteAtEnd DEF AppendFails
    <2>3. /\ Len(data') >= Len(data)
          /\ SubSeq(data', 1, frontier.bytes) = SubSeq(data, 1, frontier.bytes)
      BY <1>t, <2>1, <2>2, PrefixOfAppend DEF IInv, Published
    <2> QED BY <1>2, <1>t, <2>3
            DEF AppendFails, PoisonAll, IInv, Published, InStep, Held, TypeOK
  <1>3. ASSUME NEW s \in Sequences0, AppendRefused(s)
        PROVE  (Published /\ InStep /\ Held)'
    BY <1>3 DEF AppendRefused, files, IInv, Published, InStep, Held
  <1>4. ASSUME NEW a \in Sequences0, NEW g \in Generations,
               SpillOpen, AdmitsFsync(session[current], a, g)
        PROVE  /\ NextCommit = [bytes |-> Len(data), seq |-> commit.seq + 1]
               /\ NextFrontier(a, g).bytes = Len(data)
               /\ NextFrontier(a, g).seq = commit.seq + 1
               /\ NextFrontier(a, g).gen = g
               /\ NextFrontier(a, g).digest = data
               /\ NextFrontier(a, g).ack < Len(data)
               /\ SubSeq(data, 1, Len(data)) = data
    BY <1>4, <1>r, <1>t, WholePrefix DEF NextCommit, NextFrontier, Receipt, AdmitsFsync
  <1>5. ASSUME NEW a \in Sequences0, NEW g \in Generations, FsyncSpill(a, g)
        PROVE  (Published /\ InStep /\ Held)'
    <2> DEFINE f == NextFrontier(a, g)
    <2>1. SpillOpen /\ AdmitsFsync(session[current], a, g)
      BY <1>5 DEF FsyncSpill
    <2>2. /\ commit' = NextCommit /\ frontier' = f /\ checkpoint' = f
          /\ UNCHANGED <<data, current, phase, poisoned>>
      BY <1>5 DEF FsyncSpill
    <2>3. Published'
      BY <1>4, <1>t, <2>1, <2>2 DEF Published
    <2>4. /\ port'["original"].bytes = Len(data) /\ port'["original"].seq = NextCommit.seq
          /\ session'["original"].prefix = data /\ session'["original"].lastGen = g
      BY <1>5, <1>r, <1>h, <2>1 DEF FsyncSpill, Port, Session
    <2> QED BY <1>4, <1>r, <2>1, <2>2, <2>3, <2>4 DEF InStep, Held
  <1>6. ASSUME NEW a \in Sequences0, NEW g \in Generations, FsyncFails(a, g)
        PROVE  (Published /\ InStep /\ Held)'
    <2>1. SpillOpen /\ AdmitsFsync(session[current], a, g)
      BY <1>6 DEF FsyncFails
    <2>2. \/ UNCHANGED <<commit, frontier>>
          \/ commit' = NextCommit /\ frontier' \in {frontier, NextFrontier(a, g)}
      BY <1>6 DEF FsyncFails
    <2>3. data' = data /\ poisoned' = TRUE
      BY <1>6 DEF FsyncFails, PoisonAll
    <2>4. Published'
      BY <1>4, <1>t, <1>r, <2>1, <2>2, <2>3 DEF IInv, Published
    <2> QED BY <2>3, <2>4 DEF InStep, Held
  <1>7. ASSUME NEW a \in Sequences0, NEW g \in Generations, FsyncRefused(a, g)
        PROVE  (Published /\ InStep /\ Held)'
    BY <1>7 DEF FsyncRefused, files, IInv, Published, InStep, Held
  <1>8. CASE WorkerKilled
    BY <1>8 DEF WorkerKilled, files, IInv, Published, InStep, Held
  <1> QED BY <1>1, <1>2, <1>3, <1>5, <1>6, <1>7, <1>8 DEF SpillStep

\* A step of the restart or of the end.  Only reopen() touches the files, and it
\* may cut the data before the commit is rewritten because nothing is committed
\* that is not published.
LEMMA HostInvariant == IInv /\ HostStep => (Published /\ InStep /\ Held)'
  <1> SUFFICES ASSUME IInv, HostStep PROVE (Published /\ InStep /\ Held)'
    OBVIOUS
  <1>t. /\ data \in Seq(Cell) /\ Len(data) \in Nat
        /\ commit.bytes \in Nat /\ commit.seq \in Nat
        /\ frontier.bytes \in Nat /\ frontier.seq \in Nat
    BY DEF IInv, TypeOK, Frontier
  <1>c. LET cut == SubSeq(data, 1, frontier.bytes)
        IN  Len(cut) = frontier.bytes /\ SubSeq(cut, 1, frontier.bytes) = frontier.digest
    BY <1>t, PrefixOfPrefix DEF IInv, Published
  <1>1. CASE Reopen
    <2>1. /\ data' = SubSeq(data, 1, frontier.bytes)
          /\ commit' = [bytes |-> frontier.bytes, seq |-> frontier.seq]
          /\ phase' = "reopened"
          /\ UNCHANGED <<frontier, checkpoint, poisoned>>
      BY <1>1 DEF Reopen
    <2> QED BY <1>t, <1>c, <2>1 DEF IInv, Published, InStep, Held
  <1>2. CASE ReopenFails
    <2>1. commit.bytes = frontier.bytes /\ commit.seq = frontier.seq
      BY <1>2 DEF ReopenFails, RestartPossible, EnsureOpen, IInv, InStep
    <2>2. /\ UNCHANGED frontier /\ poisoned' = TRUE /\ phase' = "rejected"
          /\ \/ UNCHANGED <<data, commit>>
             \/ /\ data' = SubSeq(data, 1, frontier.bytes)
                /\ commit' \in {commit, [bytes |-> frontier.bytes, seq |-> frontier.seq]}
      BY <1>2 DEF ReopenFails, RejectTo
    <2> QED BY <1>t, <1>c, <2>1, <2>2 DEF IInv, Published, InStep, Held
  <1>3. CASE Restore \/ Replace \/ RetireFails \/ AcceptResume \/ Seal
    BY <1>3 DEF Restore, Replace, RetireFails, AcceptResume, Seal, files,
                IInv, Published, InStep, Held
  <1>4. CASE RestartFails \/ Reject
    BY <1>4 DEF RestartFails, Reject, RejectTo, files, IInv, Published, InStep, Held
  <1>5. CASE Cleanup
    <2>1. /\ UNCHANGED <<data, commit, frontier, checkpoint>> /\ phase' = "cleaned"
          /\ ~poisoned' => ~poisoned
      BY <1>5 DEF Cleanup, IInv, TypeOK
    <2> QED BY <2>1 DEF IInv, Published, InStep, Held
  <1> QED BY <1>1, <1>2, <1>3, <1>4, <1>5 DEF HostStep, RestartStep

\* A step that changes neither the phase nor what Owned reads of ports and
\* sessions.
LEMMA OwnedKept ==
    ASSUME Owned, current \in Handles, UNCHANGED <<dir, current, phase>>,
           \A h \in Handles : /\ port'[h].custody = port[h].custody
                             /\ port'[h].open = port[h].open
                             /\ session'[h].live = session[h].live
                             /\ session'[h].cleaned = session[h].cleaned
    PROVE  Owned'
  <1>1. "original" \in Handles /\ "replacement" \in Handles
    BY DEF Handles
  <1> QED BY <1>1 DEF Owned

\* The steps of the running worker concern the original alone.
LEMMA SpillOwned == IInv /\ (SpillStep \/ WorkerKilled) => (Owned /\ Exact)'
  <1> SUFFICES ASSUME IInv, SpillStep \/ WorkerKilled PROVE (Owned /\ Exact)'
    OBVIOUS
  <1>h. port \in [Handles -> Port] /\ session \in [Handles -> Session] /\ current \in Handles
    BY DEF IInv, TypeOK
  <1>p. port[current] \in Port /\ session[current] \in Session
    BY <1>h
  <1>1. CASE WorkerKilled
    BY <1>1 DEF WorkerKilled, IInv, Owned, Exact, files
  <1>2. CASE SpillStep
    <2>1. phase = "running" /\ UNCHANGED <<dir, current, phase>>
      BY <1>2, Zenon DEF SpillStep, AppendRecord, AppendFails, AppendRefused, FsyncSpill, FsyncFails,
                  FsyncRefused, SpillOpen, files
    <2> DEFINE Same(h) == /\ port'[h].custody = port[h].custody
                          /\ port'[h].open = port[h].open
                          /\ session'[h].live = session[h].live
                          /\ session'[h].cleaned = session[h].cleaned
    <2>3. \A h \in Handles : Same(h)
      <3>1. ASSUME NEW n \in Sequences0, NEW b \in Payloads, AppendRecord(n, b)
            PROVE  \A h \in Handles : Same(h)
        BY <3>1, <1>h, <1>p DEF AppendRecord, Port, Session
      <3>2. ASSUME PoisonAll
            PROVE  \A h \in Handles : Same(h)
        BY <3>2, <1>h, <1>p DEF PoisonAll, Port, Session
      <3>3. ASSUME NEW a \in Sequences0, NEW g \in Generations, FsyncSpill(a, g)
            PROVE  \A h \in Handles : Same(h)
        <4>1. PICK f : /\ port' = [port EXCEPT ![current].committed = NextCommit.bytes,
                                               ![current].seq = NextCommit.seq,
                                               ![current].frontier = f]
                       /\ session' = [session EXCEPT ![current].lastSeq = NextCommit.seq,
                                                     ![current].lastGen = g]
          BY <3>3 DEF FsyncSpill
        <4> QED BY <4>1, <1>h, <1>p DEF Port, Session
      <3>4. UNCHANGED <<port, session>> => \A h \in Handles : Same(h)
        OBVIOUS
      <3>5. \/ \E n \in Sequences0, b \in Payloads : AppendRecord(n, b)
            \/ \E a \in Sequences0, g \in Generations : FsyncSpill(a, g)
            \/ PoisonAll
            \/ UNCHANGED <<port, session>>
        BY <1>2, Zenon DEF SpillStep, AppendFails, AppendRefused, FsyncFails, FsyncRefused
      <3> HIDE DEF Same
      <3> QED BY <3>1, <3>2, <3>3, <3>4, <3>5
    <2>4. Owned'
      BY <1>h, <2>1, <2>3, OwnedKept DEF IInv
    <2> QED BY <2>1, <2>4 DEF Exact
  <1> QED BY <1>1, <1>2

\* Custody and life of the two sessions through the restart and the end.
LEMMA HostOwned == IInv /\ HostStep => (Owned /\ Exact)'
  <1> SUFFICES ASSUME IInv, HostStep PROVE (Owned /\ Exact)'
    OBVIOUS
  <1>h. /\ port \in [Handles -> Port] /\ session \in [Handles -> Session] /\ current \in Handles
        /\ "original" \in Handles /\ "replacement" \in Handles
        /\ \A h \in Handles : h = "original" \/ h = "replacement"
    BY DEF IInv, TypeOK, Handles
  <1>p. \A h \in Handles : port[h] \in Port /\ session[h] \in Session
    BY <1>h
  <1> USE DEF IInv
  <1>1. CASE Reopen
    <2>1. /\ port'["original"] = port["original"] /\ session'["original"] = session["original"]
          /\ ~port'["replacement"].custody
          /\ session'["replacement"].live /\ ~session'["replacement"].cleaned
          /\ phase = "killed" /\ phase' = "reopened" /\ UNCHANGED <<dir, current>>
      BY <1>1, <1>h DEF Reopen, ClosedPort, NoSession
    <2>2. port["original"].custody
      BY <2>1 DEF Owned
    <2> QED BY <2>1, <2>2, <1>h DEF Owned, Exact
  <1>2. CASE ReopenFails
    BY <1>2 DEF ReopenFails, RejectTo, Owned, Exact
  <1>3. CASE Restore
    <2>1. /\ UNCHANGED <<data, dir, port, current>> /\ phase = "reopened" /\ phase' = "restored"
          /\ session' = [session EXCEPT !["replacement"].prefix = data,
                                        !["replacement"].lastSeq = checkpoint.seq,
                                        !["replacement"].lastGen = checkpoint.gen]
      BY <1>3 DEF Restore, files
    <2>2. /\ session'["original"] = session["original"]
          /\ session'["replacement"].prefix = data
          /\ session'["replacement"].live = session["replacement"].live
          /\ session'["replacement"].cleaned = session["replacement"].cleaned
      BY <1>h, <1>p, <2>1 DEF Session
    <2> QED BY <1>h, <2>1, <2>2 DEF Owned, Exact
  <1>4. ASSUME NEW retired \in BOOLEAN, RetireOriginal(retired), HandoffAgrees
        PROVE  /\ ~port'["original"].custody /\ port'["replacement"].custody
               /\ ~port'["original"].open
               /\ ~session'["original"].live /\ session'["original"].cleaned
               /\ session'["replacement"] = session["replacement"]
               /\ dir # "removed"
    <2>a. /\ port'["original"] = [port["original"] EXCEPT !.custody = FALSE, !.open = FALSE,
                                                         !.cleaned = TRUE, !.poisoned = ~retired]
          /\ port'["replacement"] = [port["replacement"] EXCEPT !.custody = TRUE]
      BY <1>4, <1>h DEF RetireOriginal
    <2>b. /\ session'["original"] = [session["original"] EXCEPT !.live = FALSE, !.cleaned = TRUE,
                                                               !.poisoned = ~retired]
          /\ session'["replacement"] = session["replacement"]
      BY <1>4, <1>h DEF RetireOriginal
    <2>c. /\ ~port'["original"].custody /\ ~port'["original"].open
          /\ port'["replacement"].custody
      BY <2>a, <1>p DEF Port
    <2>d. ~session'["original"].live /\ session'["original"].cleaned
      BY <2>b, <1>p DEF Session
    <2>1. /\ ~port'["original"].custody /\ port'["replacement"].custody
          /\ ~port'["original"].open
          /\ ~session'["original"].live /\ session'["original"].cleaned
          /\ session'["replacement"] = session["replacement"]
      BY <2>b, <2>c, <2>d
    <2>2. dir # "removed"
      BY <1>4, <1>h DEF HandoffAgrees, PersistedFrontierIs, SessionUsable, Owned
    <2> QED BY <2>1, <2>2
  <1>5. CASE Replace
    <2>1. /\ phase = "restored" /\ ~poisoned /\ phase' = "installed" /\ current' = "replacement"
          /\ UNCHANGED <<data, dir, checkpoint, poisoned>>
          /\ RetireOriginal(TRUE) /\ HandoffAgrees
      BY <1>5 DEF Replace, files, EnsureOpen
    <2>2. data = checkpoint.digest
      BY <2>1 DEF HandoffAgrees
    <2> QED BY <2>1, <2>2, <1>4, <1>h DEF Owned, Exact
  <1>6. CASE RetireFails
    <2>1. /\ phase' = "reopened" /\ poisoned' = TRUE /\ current = "original"
          /\ UNCHANGED <<dir, current>> /\ RetireOriginal(FALSE) /\ HandoffAgrees
      BY <1>6 DEF RetireFails, files, Owned
    <2> QED BY <2>1, <1>4, <1>h DEF Owned, Exact
  <1>7. ASSUME NEW h \in Handles, NEW failed \in BOOLEAN, ClosePort(h, failed)
        PROVE  /\ port'[h].custody = port[h].custody /\ ~port'[h].open
               /\ ~session'[h].live /\ session'[h].cleaned
               /\ \A o \in Handles \ {h} : port'[o] = port[o] /\ session'[o] = session[o]
               /\ dir' # dir => port[h].custody
    BY <1>7, <1>h, <1>p DEF ClosePort, Port, Session
  <1>8. CASE RestartFails
    <2>1. PICK failed \in BOOLEAN : ClosePort("replacement", failed)
      BY <1>8 DEF RestartFails
    <2>2. /\ phase \in {"reopened", "restored"} /\ phase' = "rejected" /\ poisoned' = TRUE
          /\ UNCHANGED current
      BY <1>8 DEF RestartFails, RejectTo
    <2> QED BY <2>1, <2>2, <1>7, <1>h DEF Owned, Exact
  <1>9. CASE AcceptResume \/ Seal \/ Reject
    <2>1. UNCHANGED <<dir, data, port, session, current, checkpoint>>
      BY <1>9 DEF AcceptResume, Seal, Reject, files
    <2>2. \/ phase = "installed" /\ phase' = "resumed" /\ poisoned' = poisoned
          \/ phase \in {"running", "killed", "installed", "resumed"}
             /\ phase' \in {"completed", "rejected"}
      BY <1>9 DEF AcceptResume, Seal, Reject, RejectTo
    <2> QED BY <2>1, <2>2 DEF Owned, Exact
  <1>10. CASE Cleanup
    <2>1. /\ phase \in {"completed", "rejected"} /\ phase' = "cleaned"
          /\ UNCHANGED current
      BY <1>10 DEF Cleanup
    <2>2. CASE session[current].cleaned /\ UNCHANGED <<dir, port, session>>
      BY <2>1, <2>2, <1>h DEF Owned, Exact
    <2>3. ASSUME NEW failed \in BOOLEAN, ClosePort(current, failed)
          PROVE  (Owned /\ Exact)'
      BY <2>1, <2>3, <1>7, <1>h DEF Owned, Exact
    <2> QED BY <1>10, <2>2, <2>3 DEF Cleanup
  <1> QED BY <1>1, <1>2, <1>3, <1>5, <1>6, <1>8, <1>9, <1>10 DEF HostStep, RestartStep

\* No step of the spill or of its host leaves the invariant.
LEMMA NextInvariant == IInv /\ [Next]_vars => IInv'
  <1> SUFFICES ASSUME IInv, [Next]_vars PROVE IInv'
    OBVIOUS
  <1>1. CASE SpillStep \/ WorkerKilled
    BY <1>1, SpillTypes, SpillInvariant, SpillOwned DEF IInv
  <1>2. CASE HostStep
    BY <1>2, HostTypes, HostInvariant, HostOwned DEF IInv
  <1>3. CASE UNCHANGED vars
    BY <1>3 DEF vars, IInv, TypeOK, Published, InStep, Held, Owned, Exact
  <1> QED BY <1>1, <1>2, <1>3 DEF Next

\* The invariant holds of every reachable state.
THEOREM Invariant == Spec => []IInv
  BY InitInvariant, NextInvariant, PTL DEF Spec

-----------------------------------------------------------------------------
(* The theorems *)

\* Whatever effect fails and wherever the restart stops, the published frontier is
\* recoverable from the three files.
THEOREM FrontierAlwaysRecoverable == Spec => []FrontierRecoverable
  <1>1. IInv => FrontierRecoverable
    BY DEF IInv, Published, FrontierRecoverable, FrontierReadable
  <1> QED BY <1>1, Invariant, PTL

\* The receipt the host would resume from is the one on disk.
THEOREM CheckpointAlwaysPublished == Spec => []CheckpointIsPublished
  <1>1. IInv => CheckpointIsPublished
    BY DEF IInv, Held, CheckpointIsPublished, EnsureOpen
  <1> QED BY <1>1, Invariant, PTL

\* A session that was resumed stands on exactly the prefix the checkpoint named: the
\* checks of restore, handoff and installation agree on one file.
THEOREM ResumedPrefixAlwaysExact == Spec => []ResumedPrefixExact
  <1>1. IInv => ResumedPrefixExact
    BY DEF IInv, Owned, Exact, ResumedPrefixExact
  <1> QED BY <1>1, Invariant, PTL

\* The right to unlink the files is never held twice or by nobody, and it is not
\* taken up under a session that is still alive.
THEOREM AlwaysOneCustodian == Spec => []SoleCustodian
  <1>1. IInv => SoleCustodian
    BY DEF IInv, Owned, SoleCustodian, Handles
  <1> QED BY <1>1, Invariant, PTL

\* No session is destroyed while it is alive, on any path out of the restart.
THEOREM DestructorsAlwaysClean == Spec => []NoUncleanedDestructor
  <1>1. IInv => NoUncleanedDestructor
    BY DEF IInv, Owned, TypeOK, NoUncleanedDestructor, Handles
  <1> QED BY <1>1, Invariant, PTL

\* A newer frontier has a later generation and a later fsync, and keeps every record
\* of the older one: no fsync, failed or not, takes published records back.
THEOREM PublishedAlwaysGrows == Spec => PublishedOnlyGrows
  <1> DEFINE Grows == frontier' # frontier =>
                        /\ frontier'.gen > frontier.gen
                        /\ frontier'.seq > frontier.seq
                        /\ SubSeq(frontier'.digest, 1, frontier.bytes) = frontier.digest
  <1>1. ASSUME IInv, NEW a \in Sequences0, NEW g \in Generations,
               SpillOpen, AdmitsFsync(session[current], a, g), frontier' = NextFrontier(a, g)
        PROVE  Grows
    <2>0. /\ current = "original" /\ port[current].seq = commit.seq
          /\ session[current].prefix = data /\ session[current].lastGen = frontier.gen
      BY <1>1 DEF IInv, InStep, SpillOpen, EnsureOpen
    <2>1. /\ NextFrontier(a, g).gen = g
          /\ NextFrontier(a, g).seq = commit.seq + 1
          /\ NextFrontier(a, g).digest = data
          /\ g > frontier.gen
      BY <1>1, <2>0 DEF NextFrontier, Receipt, AdmitsFsync
    <2>2. commit.seq \in Nat /\ frontier.seq \in Nat
      BY <1>1 DEF IInv, TypeOK, Frontier
    <2> QED BY <1>1, <2>1, <2>2 DEF IInv, Published
  <1>2. IInv /\ [Next]_vars => [Grows]_vars
    <2> SUFFICES ASSUME IInv, Next PROVE Grows
      BY DEF vars
    <2>1. ASSUME NEW a \in Sequences0, NEW g \in Generations,
                 FsyncSpill(a, g) \/ FsyncFails(a, g)
          PROVE  Grows
      BY <2>1, <1>1 DEF FsyncSpill, FsyncFails
    <2>2. ASSUME UNCHANGED frontier
          PROVE  Grows
      BY <2>2
    <2>3. ASSUME NEW s \in Sequences0, NEW p \in Payloads,
                 AppendRecord(s, p) \/ AppendFails(s, p) \/ AppendRefused(s)
          PROVE  UNCHANGED frontier
      BY <2>3 DEF AppendRecord, AppendFails, AppendRefused, files
    <2>4. ASSUME NEW a \in Sequences0, NEW g \in Generations, FsyncRefused(a, g)
          PROVE  UNCHANGED frontier
      BY <2>4 DEF FsyncRefused, files
    <2>5. ASSUME NEW s \in Sequences0, AppendRefused(s)
          PROVE  UNCHANGED frontier
      BY <2>5 DEF AppendRefused, files
    <2>6. WorkerKilled \/ HostStep => UNCHANGED frontier
      BY DEF WorkerKilled, HostStep, RestartStep, Reopen, ReopenFails, Restore, Replace,
             RetireFails, RestartFails, AcceptResume, Seal, Reject, Cleanup, files
    <2> HIDE DEF Grows
    <2> QED BY <2>1, <2>2, <2>3, <2>4, <2>5, <2>6 DEF Next, SpillStep
  <1> QED BY <1>2, Invariant, PTL DEF Spec, PublishedOnlyGrows

=============================================================================
