---------------------------- MODULE AuditLog_proofs ----------------------------
(***************************************************************************)
(* Proofs about AuditLog: typing, order of the file, honesty of gaps, the  *)
(* count of the numbers, and what a torn write costs.                      *)
(***************************************************************************)
EXTENDS AuditLog, SequenceTheorems, FiniteSetTheorems, TLAPS

\* The id minted last.
Latest == [instance |-> instance, sequence |-> next_sequence - 1]

\* The thread that writes is alone, and writes the latest id; nothing of that
\* id is in the file while its head is to come.
WriterInv ==
    /\ \A t \in Threads :
           pc[t] \in Writing =>
               /\ next_sequence > 0
               /\ event_id[t] = Latest
               /\ pc[t] = "head" =>
                      \A i \in 1..Len(file) : file[i].id # Latest
    /\ \A t, u \in Threads : pc[t] \in Writing /\ pc[u] \in Writing => t = u

\* Everything in the file was minted, pieces are in the order of their ids,
\* and no id has two heads.
FileInv ==
    /\ \A i \in 1..Len(file) :
           /\ file[i].id.instance <= instance
           /\ file[i].id.instance = instance =>
                  file[i].id.sequence < next_sequence
    /\ \A i, j \in 1..Len(file) :
           i < j => Precedes(file[i].id, file[j].id) \/ file[i].id = file[j].id
    /\ \A i, j \in 1..Len(file) :
           (i < j /\ file[i].part \in Heads /\ file[j].part \in Heads)
               => file[i].id # file[j].id

AuditInv == TypeOK /\ WriterInv /\ FileInv

Pieces == [id : AuditEventId, part : Heads \cup {"tail", "end"}]

\* An id is its instance and its sequence number.
LEMMA SameId ==
    ASSUME NEW a \in AuditEventId, NEW b \in AuditEventId,
           a.instance = b.instance, a.sequence = b.sequence
    PROVE  a = b
  BY DEF AuditEventId

\* The pieces of a line, by their fields.
LEMMA PieceTypes ==
    ASSUME TypeOK, NEW i \in 1..Len(file)
    PROVE  /\ file[i].id \in AuditEventId
           /\ file[i].id.instance \in Int
           /\ file[i].id.sequence \in Nat
  <1>1. file \in Seq(Pieces)
    BY DEF TypeOK, Pieces
  <1>2. file[i] \in Pieces
    BY <1>1
  <1>3. file[i].id \in AuditEventId
    BY <1>2 DEF Pieces
  <1> QED
    BY <1>3 DEF AuditEventId, Instances

\* The first life starts with an empty file.
LEMMA InitInv == Init => AuditInv
  <1> SUFFICES ASSUME Init PROVE AuditInv
    OBVIOUS
  <1>1. TypeOK
    BY AuditAssumption DEF Init, TypeOK, Instances
  <1>2. WriterInv
    BY DEF Init, WriterInv, Writing
  <1>3. FileInv
    BY DEF Init, FileInv
  <1> QED
    BY <1>1, <1>2, <1>3 DEF AuditInv

\* What appending a piece of the latest id does to the file.
LEMMA PieceAppended ==
    ASSUME TypeOK, FileInv, next_sequence > 0,
           NEW part \in Heads \cup {"tail", "end"},
           part \in Heads => \A i \in 1..Len(file) : file[i].id # Latest,
           file' = Append(file, Piece(Latest, part)),
           UNCHANGED <<instance, next_sequence>>
    PROVE  /\ file' \in Seq(Pieces)
           /\ FileInv'
           /\ Latest' = Latest
  <1> DEFINE p == Piece(Latest, part)
             n == Len(file)
  <1>1. /\ Latest \in AuditEventId
        /\ p \in Pieces
    BY DEF TypeOK, Latest, AuditEventId, Piece, Pieces
  <1>2. file \in Seq(Pieces) /\ n \in Nat
    BY DEF TypeOK, Pieces
  <1>3. /\ file' \in Seq(Pieces)
        /\ Len(file') = n + 1
        /\ \A i \in 1..n : file'[i] = file[i]
        /\ file'[n + 1] = p
    BY <1>1, <1>2
  <1>4. p.id = Latest /\ p.part = part
    BY DEF Piece
  <1>5. \A i \in 1..n : file[i] \in Pieces
    BY <1>2
  <1>6. \A i \in 1..n : Precedes(file[i].id, Latest) \/ file[i].id = Latest
    <2> SUFFICES ASSUME NEW i \in 1..n
                 PROVE  Precedes(file[i].id, Latest) \/ file[i].id = Latest
      OBVIOUS
    <2>1. file[i].id \in AuditEventId
      BY <1>5 DEF Pieces
    <2>2. /\ file[i].id.instance <= instance
          /\ file[i].id.instance = instance => file[i].id.sequence < next_sequence
      BY DEF FileInv
    <2> DEFINE id == file[i].id
    <2>3. /\ id.instance \in Int /\ id.sequence \in Int
          /\ instance \in Int /\ next_sequence \in Int
      BY <2>1 DEF TypeOK, AuditEventId, Instances
    <2>4. Latest.instance = instance /\ Latest.sequence = next_sequence - 1
      BY DEF Latest
    <2>5. CASE id.instance = instance /\ id.sequence = next_sequence - 1
      BY <1>1, <2>1, <2>4, <2>5, SameId
    <2>6. CASE ~(id.instance = instance /\ id.sequence = next_sequence - 1)
      BY <2>2, <2>3, <2>4, <2>6 DEF Precedes
    <2> QED
      BY <2>5, <2>6
  <1>7. FileInv'
    <2>1. ASSUME NEW i \in 1..Len(file')
          PROVE  /\ file'[i].id.instance <= instance
                 /\ file'[i].id.instance = instance =>
                        file'[i].id.sequence < next_sequence
      <3>1. CASE i \in 1..n
        BY <1>3, <3>1 DEF FileInv
      <3>2. CASE i = n + 1
        BY <1>3, <1>4, <3>2 DEF Latest, TypeOK, Instances
      <3> QED
        BY <1>2, <1>3, <3>1, <3>2
    <2>2. ASSUME NEW i \in 1..Len(file'), NEW j \in 1..Len(file'), i < j
          PROVE  /\ \/ Precedes(file'[i].id, file'[j].id)
                    \/ file'[i].id = file'[j].id
                 /\ file'[i].part \in Heads /\ file'[j].part \in Heads
                        => file'[i].id # file'[j].id
      <3>1. i \in 1..n
        BY <1>2, <1>3, <2>2
      <3>2. CASE j \in 1..n
        BY <1>3, <2>2, <3>1, <3>2 DEF FileInv
      <3>3. CASE j = n + 1
        BY <1>3, <1>4, <1>6, <3>1, <3>3
      <3> QED
        BY <1>2, <1>3, <3>2, <3>3
    <2> QED
      BY <2>1, <2>2 DEF FileInv
  <1> QED
    BY <1>3, <1>7 DEF Latest

\* A step that leaves the file and the numbers alone, and lets nobody begin
\* to write.
LEMMA NothingWritten ==
    ASSUME AuditInv,
           UNCHANGED <<instance, next_sequence, file>>,
           \A t \in Threads : pc'[t] \in Writing =>
               pc'[t] = pc[t] /\ event_id'[t] = event_id[t]
    PROVE  WriterInv' /\ FileInv'
  BY DEF AuditInv, WriterInv, FileInv, Latest

\* fetch_add mints an id above all that the file has.
LEMMA ReserveInv ==
    ASSUME AuditInv, NEW t \in Threads, Reserve(t)
    PROVE  AuditInv'
  <1> USE DEF AuditInv
  <1>1. next_sequence \in Nat /\ next_sequence' = next_sequence + 1
    BY DEF Reserve, TypeOK
  <1>2. event_id'[t] = Latest'
    BY <1>1 DEF Reserve, TypeOK, Latest
  <1>3. Latest' \in AuditEventId
    BY <1>1 DEF Reserve, TypeOK, Latest, AuditEventId
  <1>4. TypeOK'
    <2>1. event_id' \in [Threads -> AuditEventId \cup {NoId}]
      BY <1>2, <1>3 DEF Reserve, TypeOK
    <2>2. pc' \in [Threads -> Writing \cup {"idle", "failed"}]
      BY DEF Reserve, TypeOK, Writing
    <2>3. next_sequence' \in 0..MaxSequence
      BY <1>1, AuditAssumption DEF Reserve
    <2> QED
      BY <2>1, <2>2, <2>3 DEF Reserve, TypeOK
  <1>5. \A i \in 1..Len(file) : file[i].id # Latest'
    BY <1>1 DEF Reserve, FileInv, Latest, TypeOK
  <1>6. \A u \in Threads : pc'[u] \in Writing => u = t
    BY DEF Reserve, LockFree, TypeOK
  <1>7. WriterInv'
    BY <1>1, <1>2, <1>5, <1>6 DEF Reserve, WriterInv
  <1>8. FileInv'
    <2>1. /\ UNCHANGED <<file, instance>>
          /\ \A i \in 1..Len(file) : file[i].id.sequence \in Nat
      BY PieceTypes DEF Reserve
    <2> QED
      BY <1>1, <2>1 DEF FileInv
  <1> QED
    BY <1>4, <1>7, <1>8

\* The three steps that write a piece.
LEMMA WriteInv ==
    ASSUME AuditInv, NEW t \in Threads,
           WriteHead(t) \/ WriteTail(t) \/ WriteEnd(t)
    PROVE  AuditInv'
  <1> USE DEF AuditInv
  <1>1. /\ pc[t] \in Writing
        /\ next_sequence > 0
        /\ event_id[t] = Latest
        /\ Latest \in AuditEventId
    <2>1. pc[t] \in Writing
      BY DEF WriteHead, WriteTail, WriteEnd, Writing
    <2> QED
      BY <2>1 DEF WriterInv, Latest, AuditEventId, TypeOK
  <1>2. UNCHANGED <<versions, instance, next_sequence, failed_writes>>
    BY DEF WriteHead, WriteTail, WriteEnd
  <1>3. PICK part \in Heads \cup {"tail", "end"} :
            /\ file' = Append(file, Piece(Latest, part))
            /\ part \in Heads => pc[t] = "head"
    BY <1>1 DEF WriteHead, WriteTail, WriteEnd, Heads
  <1>4. part \in Heads => \A i \in 1..Len(file) : file[i].id # Latest
    BY <1>1, <1>3 DEF WriterInv
  <1>5. file' \in Seq(Pieces) /\ FileInv' /\ Latest' = Latest
    BY <1>1, <1>2, <1>3, <1>4, PieceAppended
  <1>6. /\ pc' \in [Threads -> Writing \cup {"idle", "failed"}]
        /\ event_id' \in [Threads -> AuditEventId \cup {NoId}]
        /\ acknowledged' \subseteq AuditEventId
    BY <1>1 DEF WriteHead, WriteTail, WriteEnd, TypeOK, Writing
  <1>7. TypeOK'
    BY <1>2, <1>5, <1>6 DEF TypeOK, Pieces
  <1>8. ASSUME NEW u \in Threads, pc'[u] \in Writing
        PROVE  u = t /\ pc'[u] # "head" /\ event_id'[u] = Latest
    <2>1. u = t
      <3>1. u # t => pc'[u] = pc[u]
        BY DEF WriteHead, WriteTail, WriteEnd, TypeOK
      <3> QED
        BY <1>1, <1>8, <3>1 DEF WriterInv
    <2>2. pc'[t] \in {"tail", "end", "idle"}
      BY DEF WriteHead, WriteTail, WriteEnd, TypeOK
    <2>3. pc'[t] # "idle"
      BY <1>8, <2>1 DEF Writing
    <2>4. event_id' = event_id
      BY <2>3 DEF WriteHead, WriteTail, WriteEnd, TypeOK
    <2> QED
      BY <1>1, <2>1, <2>2, <2>4
  <1>9. WriterInv'
    BY <1>1, <1>2, <1>5, <1>8 DEF WriterInv
  <1> QED
    BY <1>5, <1>7, <1>9

\* A write that breaks off leaves the order as it is.
LEMMA FailInv ==
    ASSUME AuditInv, NEW t \in Threads, WriteFails(t) \/ CountFailure(t)
    PROVE  AuditInv'
  <1> USE DEF AuditInv
  <1>1. TypeOK'
    <2>1. pc' \in [Threads -> Writing \cup {"idle", "failed"}]
      BY DEF WriteFails, CountFailure, TypeOK
    <2>2. event_id' \in [Threads -> AuditEventId \cup {NoId}]
      BY DEF WriteFails, CountFailure, TypeOK
    <2>3. failed_writes' \in Nat
      BY DEF WriteFails, CountFailure, TypeOK
    <2> QED
      BY <2>1, <2>2, <2>3 DEF WriteFails, CountFailure, TypeOK
  <1>2. \A u \in Threads : pc'[u] \in Writing =>
            pc'[u] = pc[u] /\ event_id'[u] = event_id[u]
    BY DEF WriteFails, CountFailure, TypeOK, Writing
  <1>3. UNCHANGED <<instance, next_sequence, file>>
    BY DEF WriteFails, CountFailure
  <1> QED
    BY <1>1, <1>2, <1>3, NothingWritten

\* The ids of a new life are above those of the lives before.
LEMMA RestartInv == ASSUME AuditInv, Restart PROVE AuditInv'
  <1> USE DEF AuditInv
  <1>1. TypeOK'
    <2>1. instance' \in Instances
      BY AuditAssumption DEF Restart, TypeOK, Instances
    <2>2. next_sequence' \in 0..MaxSequence /\ failed_writes' \in Nat
      BY AuditAssumption DEF Restart
    <2>3. /\ pc' \in [Threads -> Writing \cup {"idle", "failed"}]
          /\ event_id' \in [Threads -> AuditEventId \cup {NoId}]
      BY DEF Restart
    <2> QED
      BY <2>1, <2>2, <2>3 DEF Restart, TypeOK
  <1>2. WriterInv'
    BY DEF Restart, WriterInv, Writing
  <1>3. FileInv'
    <2>1. \A i \in 1..Len(file) : file[i].id.instance < instance'
      <3>1. instance \in Int /\ instance' = instance + 1
        BY DEF Restart, TypeOK, Instances
      <3> QED
        BY <3>1, PieceTypes DEF FileInv
    <2>2. \A i \in 1..Len(file) : file[i].id.instance \in Int
      BY PieceTypes
    <2>3. instance' \in Int /\ file' = file
      BY <1>1 DEF TypeOK, Instances, Restart
    <2> QED
      BY <2>1, <2>2, <2>3 DEF FileInv
  <1> QED
    BY <1>1, <1>2, <1>3

\* Every step keeps the order of the file.
LEMMA NextInv == ASSUME AuditInv, [Next]_vars PROVE AuditInv'
  <1>1. CASE Restart
    BY <1>1, RestartInv
  <1>2. ASSUME NEW t \in Threads, AppendEntry(t) PROVE AuditInv'
    BY <1>2, ReserveInv, WriteInv, FailInv DEF AppendEntry
  <1>3. CASE UNCHANGED vars
    BY <1>3 DEF vars, AuditInv, TypeOK, WriterInv, FileInv, Latest
  <1> QED
    BY <1>1, <1>2, <1>3 DEF Next

\* The inductive invariant holds of every execution of the sink.
THEOREM TrailInvariant == Spec => []AuditInv
  BY InitInv, NextInv, PTL DEF Spec

\* append: every reachable state of the sink and the file is well typed, for
\* any threads and bounds.
THEOREM TrailTypeCorrect == Spec => []TypeOK
  BY TrailInvariant, PTL DEF AuditInv

\* sink.rs, one lock for number and line: readable lines are in the order in
\* which their ids were minted, whatever failed or crashed in between.
THEOREM FileFollowsSequence == Spec => []FileOrderIsSequenceOrder
  <1>1. AuditInv => FileOrderIsSequenceOrder
    BY DEF AuditInv, FileInv, FileOrderIsSequenceOrder, Stands
  <1> QED
    BY <1>1, TrailInvariant, PTL

\* explain: whenever the log is read, a gap is the id of an append that is
\* over.
THEOREM GapsNeverPremature == Spec => []GapsAreOver
  <1>1. AuditInv => GapsAreOver
    <2> SUFFICES ASSUME AuditInv, NEW id \in DetectGaps
                 PROVE  /\ id.instance <= instance
                        /\ id.instance = instance => id.sequence < next_sequence
                        /\ \A t \in Threads : pc[t] \in Writing => event_id[t] # id
      BY DEF GapsAreOver
    <2>1. PICK p \in Standing :
              /\ id.instance = p.instance
              /\ id \in [instance : {p.instance}, sequence : 0..p.sequence]
              /\ id \notin Standing
      BY DEF DetectGaps, Records, Recovered
    <2>2. PICK i \in 1..Len(file) : file[i].id = p
      BY DEF Standing
    <2>3. p \in AuditEventId /\ p.instance \in Int /\ p.sequence \in Nat
      BY <2>2, PieceTypes DEF AuditInv
    <2>4. /\ id.sequence \in 0..p.sequence
          /\ next_sequence \in Nat /\ instance \in Int
      BY <2>1, <2>3 DEF AuditInv, TypeOK, Instances
    <2>5. /\ p.instance <= instance
          /\ p.instance = instance => p.sequence < next_sequence
      BY <2>2 DEF AuditInv, FileInv
    <2>6. id \in AuditEventId
      BY <2>1, <2>3 DEF AuditEventId
    <2>7. ASSUME NEW t \in Threads, pc[t] \in Writing, event_id[t] = id
          PROVE  FALSE
      <3>1. id.instance = instance /\ id.sequence = next_sequence - 1
        BY <2>7 DEF AuditInv, WriterInv, Latest
      <3>2. p.sequence = id.sequence
        BY <2>1, <2>3, <2>4, <2>5, <3>1
      <3>3. p = id
        BY <2>1, <2>3, <2>6, <3>2, SameId
      <3> QED
        BY <2>1, <3>3
    <2> QED
      BY <2>1, <2>3, <2>4, <2>5, <2>7
  <1> QED
    BY <1>1, TrailInvariant, PTL

\* explain: an acknowledged record that is not found is one of the two cases
\* the documentation allows.
THEOREM NotFoundExplained == Spec => []NotFoundIsExplained
  <1>1. AuditInv => NotFoundIsExplained
    <2> SUFFICES ASSUME AuditInv, NEW id \in acknowledged,
                        Select(id) = "NotFound", id \notin Recovered,
                        NEW later \in Standing, later.instance = id.instance
                 PROVE  later.sequence < id.sequence
      BY DEF NotFoundIsExplained
    <2>1. id \in AuditEventId /\ later \in AuditEventId
      <3>1. PICK i \in 1..Len(file) : file[i].id = later
        BY DEF Standing
      <3> QED
        BY <3>1, PieceTypes DEF AuditInv, TypeOK
    <2>2. id \notin Records /\ id \notin DetectGaps
      BY DEF Select
    <2>3. later \in Records \cup Recovered
      BY DEF Records, Recovered
    <2>4. id \notin [instance : {later.instance}, sequence : 0..later.sequence]
      BY <2>2, <2>3 DEF DetectGaps
    <2>5. id.sequence \in Nat /\ later.sequence \in Nat
      BY <2>1 DEF AuditEventId
    <2>6. id.sequence \notin 0..later.sequence
      BY <2>1, <2>4 DEF AuditEventId
    <2> QED
      BY <2>5, <2>6
  <1> QED
    BY <1>1, TrailInvariant, PTL

-----------------------------------------------------------------------------
(* The numbers an instance consumes *)

Mine == {id \in acknowledged : id.instance = instance}
Busy == {t \in Threads : pc[t] # "idle"}

\* What append acknowledged was minted, and the id being written is not among
\* it yet.
AckInv ==
    /\ IsFiniteSet(acknowledged)
    /\ \A id \in acknowledged :
           /\ id.instance <= instance
           /\ id.instance = instance => id.sequence < next_sequence
    /\ \A t \in Threads : pc[t] \in Writing => Latest \notin acknowledged

CountInv == AckInv /\ NumbersAddUp

\* What was acknowledged and what is in hand can be counted.
LEMMA Finite ==
    ASSUME AckInv
    PROVE  /\ IsFiniteSet(Mine) /\ Cardinality(Mine) \in Nat
           /\ IsFiniteSet(Busy) /\ Cardinality(Busy) \in Nat
  <1>1. Mine \subseteq acknowledged /\ Busy \subseteq Threads
    BY DEF Mine, Busy
  <1> QED
    BY <1>1, AuditAssumption, FS_Subset, FS_CardinalityType DEF AckInv

\* Each step moves a number at most from one account to another.
LEMMA CountStep == ASSUME AuditInv, CountInv, [Next]_vars PROVE CountInv'
  <1> USE DEF AuditInv, CountInv
  <1>0. /\ next_sequence = Cardinality(Mine) + failed_writes + Cardinality(Busy)
        /\ Cardinality(Mine) \in Nat /\ Cardinality(Busy) \in Nat
        /\ failed_writes \in Nat /\ next_sequence \in Nat /\ instance \in Nat
        /\ IsFiniteSet(Mine) /\ IsFiniteSet(Busy)
    BY Finite DEF NumbersAddUp, Mine, Busy, TypeOK, Instances
  <1>a. \A id \in acknowledged : id.instance \in Nat /\ id.sequence \in Nat
    BY DEF TypeOK, AuditEventId, Instances
  <1>b. ASSUME next_sequence' = Cardinality(Mine') + failed_writes' + Cardinality(Busy')
        PROVE  NumbersAddUp'
    BY <1>b DEF NumbersAddUp, Mine, Busy
  <1>1. CASE Restart
    <2>1. instance' = instance + 1 /\ next_sequence' = 0 /\ failed_writes' = 0
          /\ acknowledged' = acknowledged
      BY <1>1 DEF Restart
    <2>2. Mine' = {} /\ Busy' = {}
      BY <1>0, <1>1, <1>a, <2>1 DEF Mine, Busy, Restart, AckInv
    <2>3. NumbersAddUp'
      BY <1>b, <2>1, <2>2, FS_EmptySet
    <2>4. AckInv'
      BY <1>0, <1>1, <1>a, <2>1 DEF AckInv, Restart, Writing
    <2> QED
      BY <2>3, <2>4
  <1>2. ASSUME NEW t \in Threads, Reserve(t) PROVE CountInv'
    <2>1. /\ next_sequence' = next_sequence + 1
          /\ UNCHANGED <<instance, failed_writes, acknowledged>>
      BY <1>2 DEF Reserve
    <2>2. Mine' = Mine /\ Busy' = Busy \cup {t} /\ t \notin Busy
      BY <1>2, <2>1 DEF Mine, Busy, Reserve, TypeOK
    <2>3. Cardinality(Busy') = Cardinality(Busy) + 1
      BY <1>0, <2>2, FS_AddElement
    <2>4. NumbersAddUp'
      BY <1>0, <1>b, <2>1, <2>2, <2>3
    <2>5. Latest'.instance = instance /\ Latest'.sequence = next_sequence
      BY <1>0, <2>1 DEF Latest
    <2>6. Latest' \notin acknowledged'
      BY <1>0, <2>1, <2>5 DEF AckInv
    <2>7. AckInv'
      BY <1>0, <1>a, <2>1, <2>6 DEF AckInv
    <2> QED
      BY <2>4, <2>7
  <1>3. ASSUME NEW t \in Threads, WriteHead(t) \/ WriteTail(t) \/ WriteFails(t)
        PROVE  CountInv'
    <2>1. /\ UNCHANGED <<instance, next_sequence, failed_writes, acknowledged>>
          /\ pc[t] \in Writing
          /\ \A u \in Threads : pc'[u] # "idle" <=> pc[u] # "idle"
          /\ \A u \in Threads : pc'[u] \in Writing => pc[u] \in Writing
      BY <1>3 DEF WriteHead, WriteTail, WriteFails, TypeOK, Writing
    <2>2. Mine' = Mine /\ Busy' = Busy
      BY <2>1 DEF Mine, Busy
    <2>3. NumbersAddUp'
      BY <1>0, <1>b, <2>1, <2>2
    <2>4. AckInv'
      BY <2>1 DEF AckInv, Latest
    <2> QED
      BY <2>3, <2>4
  <1>4. ASSUME NEW t \in Threads, WriteEnd(t) PROVE CountInv'
    <2>1. pc[t] \in Writing /\ pc[t] # "idle"
      BY <1>4 DEF WriteEnd, Writing
    <2>2. /\ event_id[t] = Latest /\ Latest \notin acknowledged
          /\ next_sequence > 0
      BY <2>1 DEF WriterInv, AckInv
    <2>3. /\ UNCHANGED <<instance, next_sequence, failed_writes>>
          /\ acknowledged' = acknowledged \cup {Latest}
          /\ Latest.instance = instance /\ Latest.sequence = next_sequence - 1
      BY <1>4, <2>2 DEF WriteEnd, Latest
    <2>4. \A u \in Threads : pc'[u] = IF u = t THEN "idle" ELSE pc[u]
      BY <1>4 DEF WriteEnd, TypeOK
    <2>5. Mine' = Mine \cup {Latest} /\ Latest \notin Mine
      BY <2>2, <2>3 DEF Mine
    <2>6. Busy' = Busy \ {t} /\ t \in Busy
      BY <2>1, <2>4 DEF Busy
    <2>7. Cardinality(Mine') = Cardinality(Mine) + 1
      BY <1>0, <2>5, FS_AddElement
    <2>8. Cardinality(Busy') = Cardinality(Busy) - 1
      BY <1>0, <2>6, FS_RemoveElement
    <2>9. NumbersAddUp'
      BY <1>0, <1>b, <2>3, <2>7, <2>8
    <2>10. \A u \in Threads : pc'[u] \notin Writing
      BY <2>1, <2>4 DEF WriterInv, Writing
    <2>11. IsFiniteSet(acknowledged')
      BY <2>3, FS_AddElement DEF AckInv
    <2>12. \A id \in acknowledged' :
               /\ id.instance <= instance
               /\ id.instance = instance => id.sequence < next_sequence
      BY <1>0, <2>3 DEF AckInv
    <2>13. AckInv'
      BY <2>3, <2>10, <2>11, <2>12 DEF AckInv
    <2> QED
      BY <2>9, <2>13
  <1>5. ASSUME NEW t \in Threads, CountFailure(t) PROVE CountInv'
    <2>1. /\ UNCHANGED <<instance, next_sequence, acknowledged>>
          /\ failed_writes' = failed_writes + 1
          /\ pc[t] # "idle"
          /\ \A u \in Threads : pc'[u] = IF u = t THEN "idle" ELSE pc[u]
      BY <1>5 DEF CountFailure, TypeOK
    <2>2. Mine' = Mine /\ Busy' = Busy \ {t} /\ t \in Busy
      BY <2>1 DEF Mine, Busy
    <2>3. Cardinality(Busy') = Cardinality(Busy) - 1
      BY <1>0, <2>2, FS_RemoveElement
    <2>4. NumbersAddUp'
      BY <1>0, <1>b, <2>1, <2>2, <2>3
    <2>5. AckInv'
      BY <2>1 DEF AckInv, Latest, Writing
    <2> QED
      BY <2>4, <2>5
  <1>6. CASE UNCHANGED vars
    <2>1. Mine' = Mine /\ Busy' = Busy
      BY <1>6 DEF vars, Mine, Busy
    <2>2. NumbersAddUp'
      BY <1>0, <1>6, <1>b, <2>1 DEF vars
    <2>3. AckInv'
      BY <1>6 DEF vars, AckInv, Latest
    <2> QED
      BY <2>2, <2>3
  <1> QED
    BY <1>1, <1>2, <1>3, <1>4, <1>5, <1>6 DEF Next, AppendEntry

\* Nothing is consumed at first.
LEMMA CountStart == Init => CountInv
  <1> SUFFICES ASSUME Init PROVE CountInv
    OBVIOUS
  <1>1. Mine = {} /\ Busy = {} /\ acknowledged = {}
    BY DEF Init, Mine, Busy
  <1>a. next_sequence = 0 /\ failed_writes = 0
    BY DEF Init
  <1>b. next_sequence = Cardinality(Mine) + failed_writes + Cardinality(Busy)
    BY <1>1, <1>a, FS_EmptySet
  <1>2. NumbersAddUp
    BY <1>b DEF NumbersAddUp, Mine, Busy
  <1>3. IsFiniteSet(acknowledged)
    BY <1>1, FS_EmptySet
  <1>4. AckInv
    BY <1>1, <1>3 DEF AckInv
  <1> QED
    BY <1>2, <1>4 DEF CountInv

\* CountInv holds of every execution.
LEMMA CountInvariant == Spec => []CountInv
  <1>1. AuditInv /\ CountInv /\ [Next]_vars => CountInv'
    BY CountStep
  <1> QED
    BY <1>1, CountStart, TrailInvariant, PTL DEF Spec

\* append and failed_writes: at every moment the numbers the running instance
\* consumed are those it acknowledged, those it counted as failed and those in
\* the hands of its threads, for any threads, failures and restarts.
THEOREM NumbersAlwaysAddUp == Spec => []NumbersAddUp
  BY CountInvariant, PTL DEF CountInv

-----------------------------------------------------------------------------
(* The lines of the file *)

\* The first k pieces of the line of id are at i, i + 1 and so on, and the file
\* has no other piece of id.
LineAt(id, i, k) ==
    /\ i \in 1..Len(file) /\ i + k - 1 \in 1..Len(file)
    /\ file[i].id = id /\ file[i].part \in Heads
    /\ k > 1 => file[i + 1] = Piece(id, "tail")
    /\ k > 2 => file[i + 2] = Piece(id, "end")
    /\ \A j \in 1..Len(file) : file[j].id = id => j \in i..(i + k - 1)

\* Nothing comes between the pieces of an acknowledged line, and the line
\* being written is what the file ends with.
LineInv ==
    /\ \A id \in acknowledged : \E i \in 1..Len(file) : LineAt(id, i, 3)
    /\ \A t \in Threads :
           /\ pc[t] = "tail" => LineAt(Latest, Len(file), 1)
           /\ pc[t] = "end" => LineAt(Latest, Len(file) - 1, 2)

\* LineAt with another file: the same pieces, perhaps followed by others of
\* another id.
LEMMA LineStays ==
    ASSUME TypeOK, NEW id, NEW i, NEW k \in {1, 2, 3}, LineAt(id, i, k),
           NEW p, p.id # id, p \in Pieces,
           file' = Append(file, p)
    PROVE  LineAt(id, i, k)'
  <1>1. file \in Seq(Pieces) /\ Len(file) \in Nat
    BY DEF TypeOK, Pieces
  <1>2. /\ Len(file') = Len(file) + 1
        /\ \A j \in 1..Len(file) : file'[j] = file[j] /\ j \in 1..Len(file')
        /\ file'[Len(file) + 1] = p
        /\ \A j \in 1..Len(file') : j \in 1..Len(file) \/ j = Len(file) + 1
    BY <1>1
  <1>3. i \in 1..Len(file) /\ i + k - 1 \in 1..Len(file)
    BY DEF LineAt
  <1>4. k > 1 => i + 1 \in 1..Len(file)
    BY <1>1, <1>3
  <1>5. k > 2 => i + 2 \in 1..Len(file)
    BY <1>1, <1>3
  <1>6. \A j \in 1..Len(file') : file'[j].id = id => j \in i..(i + k - 1)
    BY <1>2 DEF LineAt
  <1> QED
    BY <1>2, <1>3, <1>4, <1>5, <1>6 DEF LineAt

\* A step appends to the line being written or begins the next.
LEMMA LineStep == ASSUME AuditInv, AckInv, LineInv, [Next]_vars PROVE LineInv'
  <1> USE DEF AuditInv
  <1> DEFINE n == Len(file)
  <1>0. file \in Seq(Pieces) /\ n \in Nat
    BY DEF TypeOK, Pieces
  <1>1. ASSUME UNCHANGED <<file, acknowledged>>,
               \A u \in Threads : pc'[u] \in {"tail", "end"} =>
                   pc'[u] = pc[u] /\ UNCHANGED <<instance, next_sequence>>
        PROVE  LineInv'
    <2>1. \A id, i, k : LineAt(id, i, k)' <=> LineAt(id, i, k)
      BY <1>1 DEF LineAt
    <2>2. \A id \in acknowledged' : \E i \in 1..Len(file') : LineAt(id, i, 3)'
      BY <1>1, <2>1 DEF LineInv
    <2>3. ASSUME NEW u \in Threads, pc'[u] = "tail"
          PROVE  LineAt(Latest, Len(file), 1)'
      <3>1. pc[u] = "tail" /\ UNCHANGED <<instance, next_sequence, file>>
        BY <1>1, <2>3
      <3>2. LineAt(Latest, Len(file), 1)
        BY <3>1 DEF LineInv
      <3> QED
        BY <3>1, <3>2 DEF LineAt, Latest
    <2>4. ASSUME NEW u \in Threads, pc'[u] = "end"
          PROVE  LineAt(Latest, Len(file) - 1, 2)'
      <3>1. pc[u] = "end" /\ UNCHANGED <<instance, next_sequence, file>>
        BY <1>1, <2>4
      <3>2. LineAt(Latest, Len(file) - 1, 2)
        BY <3>1 DEF LineInv
      <3> QED
        BY <3>1, <3>2 DEF LineAt, Latest
    <2> QED
      BY <2>2, <2>3, <2>4 DEF LineInv
  <1>2. CASE Restart
    BY <1>1, <1>2 DEF Restart
  <1>3. ASSUME NEW t \in Threads, Reserve(t) PROVE LineInv'
    <2>1. \A u \in Threads : pc'[u] \notin {"tail", "end"}
      BY <1>3 DEF Reserve, LockFree, TypeOK, Writing
    <2> QED
      BY <1>1, <1>3, <2>1 DEF Reserve
  <1>4. ASSUME NEW t \in Threads, WriteFails(t) \/ CountFailure(t) PROVE LineInv'
    <2>1. \A u \in Threads : pc'[u] \in {"tail", "end"} =>
              pc'[u] = pc[u] /\ UNCHANGED <<instance, next_sequence>>
      BY <1>4 DEF WriteFails, CountFailure, TypeOK
    <2>2. UNCHANGED <<file, acknowledged>>
      BY <1>4 DEF WriteFails, CountFailure
    <2> QED
      BY <1>1, <2>1, <2>2
  <1>5. ASSUME NEW t \in Threads, WriteHead(t) \/ WriteTail(t) \/ WriteEnd(t)
        PROVE  LineInv'
    <2>1. /\ pc[t] \in Writing
          /\ event_id[t] = Latest /\ Latest \notin acknowledged
          /\ Latest \in AuditEventId
      <3>1. pc[t] \in Writing
        BY <1>5 DEF WriteHead, WriteTail, WriteEnd, Writing
      <3> QED
        BY <3>1 DEF WriterInv, AckInv, Latest, AuditEventId, TypeOK
    <2>2. PICK part \in Heads \cup {"tail", "end"} :
              /\ file' = Append(file, Piece(Latest, part))
              /\ pc[t] = "head" => part \in Heads
              /\ pc[t] = "tail" => part = "tail"
              /\ pc[t] = "end" => part = "end"
      BY <1>5, <2>1 DEF WriteHead, WriteTail, WriteEnd
    <2> DEFINE p == Piece(Latest, part)
    <2>3. p \in Pieces /\ p.id = Latest /\ p.part = part
      BY <2>1 DEF Piece, Pieces
    <2>4. /\ Len(file') = n + 1
          /\ \A j \in 1..n : file'[j] = file[j]
          /\ file'[n + 1] = p
          /\ \A j \in 1..(n + 1) : j \in 1..n \/ j = n + 1
      BY <1>0, <2>2, <2>3
    <2>5. Latest' = Latest
      BY <1>5 DEF WriteHead, WriteTail, WriteEnd, Latest
    <2>6. \A id \in acknowledged : \E i \in 1..Len(file') : LineAt(id, i, 3)'
      <3> SUFFICES ASSUME NEW id \in acknowledged
                   PROVE  \E i \in 1..Len(file') : LineAt(id, i, 3)'
        OBVIOUS
      <3>1. PICK i \in 1..n : LineAt(id, i, 3)
        BY DEF LineInv
      <3>2. p.id # id
        BY <2>1, <2>3
      <3>3. LineAt(id, i, 3)'
        BY <2>2, <2>3, <3>1, <3>2, LineStays
      <3>4. i \in 1..Len(file')
        BY <1>0, <2>4
      <3> QED
        BY <3>3, <3>4
    <2>7. \A u \in Threads : pc'[u] \in {"tail", "end"} => u = t
      BY <1>5, <2>1 DEF WriteHead, WriteTail, WriteEnd, TypeOK, WriterInv, Writing
    <2>8. CASE WriteHead(t)
      <3>1. pc'[t] = "tail" /\ acknowledged' = acknowledged /\ part \in Heads
        BY <2>2, <2>8 DEF WriteHead, TypeOK
      <3>2. \A j \in 1..n : file[j].id # Latest
        BY <2>1, <2>8 DEF WriteHead, WriterInv
      <3>3. LineAt(Latest, Len(file), 1)'
        <4>1. n + 1 \in 1..Len(file') /\ (n + 1) + 1 - 1 \in 1..Len(file')
          BY <1>0, <2>4
        <4>2. \A j \in 1..Len(file') : file'[j].id = Latest
                  => j \in (n + 1)..((n + 1) + 1 - 1)
          BY <1>0, <2>4, <3>2
        <4> QED
          BY <2>3, <2>4, <2>5, <3>1, <4>1, <4>2 DEF LineAt
      <3> QED
        BY <2>6, <2>7, <3>1, <3>3 DEF LineInv
    <2>9. CASE WriteTail(t)
      <3>1. /\ pc[t] = "tail" /\ pc'[t] = "end" /\ acknowledged' = acknowledged
            /\ part = "tail"
        BY <2>2, <2>9 DEF WriteTail, TypeOK
      <3>2. LineAt(Latest, n, 1)
        BY <3>1 DEF LineInv
      <3>3. /\ n \in 1..n /\ file[n].id = Latest /\ file[n].part \in Heads
            /\ \A j \in 1..n : file[j].id = Latest => j \in n..(n + 1 - 1)
        BY <3>2 DEF LineAt
      <3>4. LineAt(Latest, Len(file) - 1, 2)'
        <4>1. /\ Len(file') - 1 = n /\ n \in 1..Len(file')
              /\ n + 2 - 1 \in 1..Len(file')
          BY <1>0, <2>4, <3>3
        <4>2. \A j \in 1..Len(file') : file'[j].id = Latest => j \in n..(n + 2 - 1)
          BY <1>0, <2>4, <3>3
        <4>3. file'[n].id = Latest /\ file'[n].part \in Heads
          BY <2>4, <3>3
        <4>4. file'[n + 1] = Piece(Latest, "tail")
          BY <2>4, <3>1
        <4> QED
          BY <2>5, <4>1, <4>2, <4>3, <4>4 DEF LineAt
      <3> QED
        BY <2>6, <2>7, <3>1, <3>4 DEF LineInv
    <2>10. CASE WriteEnd(t)
      <3>1. /\ pc[t] = "end" /\ pc'[t] = "idle"
            /\ acknowledged' = acknowledged \cup {Latest}
            /\ part = "end"
        BY <2>1, <2>2, <2>10 DEF WriteEnd, TypeOK
      <3>2. LineAt(Latest, n - 1, 2)
        BY <3>1 DEF LineInv
      <3>3. PICK m \in Nat : m = n - 1 /\ m > 0
        BY <1>0, <3>2 DEF LineAt
      <3>4. /\ m \in 1..n /\ file[m].id = Latest /\ file[m].part \in Heads
            /\ file[m + 1] = Piece(Latest, "tail")
            /\ \A j \in 1..n : file[j].id = Latest => j \in m..(m + 2 - 1)
        BY <1>0, <3>2, <3>3 DEF LineAt
      <3>5. LineAt(Latest, m, 3)'
        <4>1. m \in 1..Len(file') /\ m + 3 - 1 \in 1..Len(file')
          BY <1>0, <2>4, <3>3
        <4>2. \A j \in 1..Len(file') : file'[j].id = Latest => j \in m..(m + 3 - 1)
          BY <1>0, <2>4, <3>3, <3>4
        <4>3. file'[m].id = Latest /\ file'[m].part \in Heads
          BY <2>4, <3>4
        <4>4. m + 1 \in 1..n /\ m + 2 = n + 1
          BY <1>0, <3>3
        <4>5. file'[m + 1] = Piece(Latest, "tail") /\ file'[m + 2] = Piece(Latest, "end")
          BY <2>4, <3>1, <3>4, <4>4
        <4> QED
          BY <2>5, <4>1, <4>2, <4>3, <4>5 DEF LineAt
      <3>6. \A u \in Threads : pc'[u] \notin {"tail", "end"}
        BY <2>7, <3>1
      <3>7. m \in 1..Len(file')
        BY <1>0, <2>4, <3>3
      <3>8. \E i \in 1..Len(file') : LineAt(Latest, i, 3)'
        BY <3>5, <3>7
      <3>9. \A id \in acknowledged' : \E i \in 1..Len(file') : LineAt(id, i, 3)'
        BY <2>5, <2>6, <3>1, <3>8
      <3> QED
        BY <3>6, <3>9 DEF LineInv
    <2> QED
      BY <1>5, <2>8, <2>9, <2>10
  <1>6. CASE UNCHANGED vars
    BY <1>1, <1>6 DEF vars
  <1> QED
    BY <1>2, <1>3, <1>4, <1>5, <1>6 DEF Next, AppendEntry

\* LineInv holds throughout: a line that is acknowledged stays in one piece.
LEMMA LineInvariant == Spec => []LineInv
  <1>1. Init => LineInv
    BY DEF Init, LineInv
  <1>2. AuditInv /\ CountInv /\ LineInv /\ [Next]_vars => LineInv'
    BY LineStep DEF CountInv
  <1> QED
    BY <1>1, <1>2, TrailInvariant, CountInvariant, PTL DEF Spec

-----------------------------------------------------------------------------
(* What a torn write costs *)

Lost ==
    acknowledged \ {file[i].id : i \in {j \in 1..Len(file) : Stands(j)}}
Torn == {file[i].id : i \in 1..Len(file)} \ acknowledged

HeadOf(id) == CHOOSE i \in 1..Len(file) : LineAt(id, i, 3)

\* A lost line has the remains of a write that broke off before it.
LEMMA LostAfterTorn ==
    ASSUME AuditInv, LineInv, NEW id \in Lost
    PROVE  /\ LineAt(id, HeadOf(id), 3)
           /\ HeadOf(id) - 1 \in 1..Len(file)
           /\ file[HeadOf(id) - 1].id \in Torn
  <1> DEFINE i == HeadOf(id)
             b == file[i - 1].id
  <1>0. file \in Seq(Pieces) /\ Len(file) \in Nat
    BY DEF AuditInv, TypeOK, Pieces
  <1>1. i \in 1..Len(file) /\ LineAt(id, i, 3)
    BY DEF LineInv, Lost, HeadOf
  <1> HIDE DEF i
  <1>2. /\ file[i].id = id /\ file[i].part \in Heads
        /\ file[i + 1] = Piece(id, "tail") /\ file[i + 2] = Piece(id, "end")
        /\ i + 2 \in 1..Len(file) /\ i + 1 # Len(file) /\ i < Len(file)
    BY <1>0, <1>1 DEF LineAt
  <1>3. file[i + 2].part = "end"
    BY <1>2 DEF Piece
  <1>4. ~Stands(i)
    BY <1>1, <1>2 DEF Lost
  <1>5. i # 1 /\ file[i - 1].part # "end"
    BY <1>2, <1>3, <1>4 DEF Stands
  <1>6. i - 1 \in 1..Len(file)
    BY <1>0, <1>1, <1>5
  <1>7. ASSUME b \in acknowledged PROVE FALSE
    <2>1. PICK k \in 1..Len(file) : LineAt(b, k, 3)
      BY <1>7 DEF LineInv
    <2>2. i - 1 \in {k, k + 1, k + 2}
      BY <1>0, <1>6, <2>1 DEF LineAt
    <2>3. i - 1 # k + 2
      BY <1>5, <2>1 DEF LineAt, Piece
    <2>4. i = k + 1 \/ i = k + 2
      BY <1>1, <2>2, <2>3
    <2>5. file[i].part \in {"tail", "end"}
      BY <2>1, <2>4 DEF LineAt, Piece
    <2> QED
      BY <1>2, <2>5 DEF Heads
  <1>8. b \in Torn
    BY <1>6, <1>7 DEF Torn
  <1> QED
    BY <1>1, <1>6, <1>8 DEF i

\* The remains of one write come before one line only.
LEMMA TornOnce ==
    ASSUME AuditInv, LineInv, NEW a \in Lost, NEW b \in Lost,
           HeadOf(a) < HeadOf(b),
           file[HeadOf(a) - 1].id = file[HeadOf(b) - 1].id
    PROVE  FALSE
  <1> DEFINE i == HeadOf(a)
             j == HeadOf(b)
             torn == file[i - 1].id
  <1>0. Len(file) \in Nat
    BY DEF AuditInv, TypeOK
  <1>1. /\ i \in 1..Len(file) /\ j \in 1..Len(file)
        /\ i - 1 \in 1..Len(file) /\ j - 1 \in 1..Len(file)
        /\ file[i].id = a
        /\ torn \in Torn
    BY LostAfterTorn DEF LineAt
  <1>2. i < j
    OBVIOUS
  <1>3. torn # a /\ torn = file[j - 1].id
    BY <1>1 DEF Torn, Lost
  <1> HIDE DEF i, j
  <1>4. i # j - 1
    BY <1>1, <1>3
  <1>5. i - 1 < i /\ i < j - 1
    BY <1>0, <1>1, <1>2, <1>4
  <1>6. Precedes(torn, a) /\ Precedes(a, torn)
    BY <1>1, <1>3, <1>5 DEF AuditInv, FileInv
  <1>7. /\ a.instance \in Int /\ a.sequence \in Int
        /\ torn.instance \in Int /\ torn.sequence \in Int
    BY <1>1, PieceTypes DEF AuditInv
  <1> QED
    BY <1>6, <1>7 DEF Precedes

\* sink.rs and explain: of a file that can be read, the remains of a write that
\* broke off cost at most one acknowledged record each; a file that cannot be
\* read, at the cost of all, always has such remains in it, broken off inside a
\* character.  For any number of threads, records and restarts.
THEOREM TornWritesAreCheap == Spec => []TornWriteCostsOneRecord
  <1>1. AuditInv /\ CountInv /\ LineInv => TornWriteCostsOneRecord
    <2> SUFFICES ASSUME AuditInv, CountInv, LineInv PROVE TornWriteCostsOneRecord
      OBVIOUS
    <2>0. Len(file) \in Nat
      BY DEF AuditInv, TypeOK
    <2>1. IsFiniteSet(Torn)
      <3> DEFINE ids == {file[i].id : i \in 1..Len(file)}
      <3>1. IsFiniteSet(1..Len(file))
        BY <2>0, FS_Interval
      <3>2. IsFiniteSet(ids)
        <4> DEFINE f == [i \in 1..Len(file) |-> file[i].id]
        <4>1. f \in Surjection(1..Len(file), ids)
          BY DEF Surjection
        <4> QED
          BY <3>1, <4>1, FS_Surjection
      <3>3. Torn \subseteq ids
        BY DEF Torn
      <3> QED
        BY <3>2, <3>3, FS_Subset
    <2>2. Cardinality(Lost) <= Cardinality(Torn)
      <3> DEFINE f == [id \in Lost |-> file[HeadOf(id) - 1].id]
      <3>1. f \in [Lost -> Torn]
        BY LostAfterTorn
      <3>2. ASSUME NEW a \in Lost, NEW b \in Lost, f[a] = f[b] PROVE a = b
        <4>1. HeadOf(a) \in 1..Len(file) /\ HeadOf(b) \in 1..Len(file)
              /\ file[HeadOf(a)].id = a /\ file[HeadOf(b)].id = b
          BY LostAfterTorn DEF LineAt
        <4>2. ~(HeadOf(a) < HeadOf(b)) /\ ~(HeadOf(b) < HeadOf(a))
          BY <3>2, TornOnce
        <4>3. HeadOf(a) = HeadOf(b)
          BY <2>0, <4>1, <4>2
        <4> QED
          BY <4>1, <4>3
      <3>3. f \in Injection(Lost, Torn)
        BY <3>1, <3>2 DEF Injection, IsInjective
      <3> QED
        BY <2>1, <3>3, FS_Injection
    <2>3. Unreadable => \E i \in 1..Len(file) :
              file[i].part = "cut" /\ file[i].id \notin acknowledged
      <3> SUFFICES ASSUME NEW i \in 1..Len(file), file[i].part = "cut",
                          i = Len(file) \/ file[i + 1] # Piece(file[i].id, "tail")
                   PROVE  file[i].id \notin acknowledged
        BY DEF Unreadable
      <3>1. ASSUME file[i].id \in acknowledged PROVE FALSE
        <4>1. PICK k \in 1..Len(file) : LineAt(file[i].id, k, 3)
          BY <3>1 DEF LineInv
        <4>2. i \in {k, k + 1, k + 2} /\ k + 2 \in 1..Len(file)
          BY <2>0, <4>1 DEF LineAt
        <4>3. i # k + 1 /\ i # k + 2
          BY <4>1 DEF LineAt, Piece
        <4> QED
          BY <2>0, <4>1, <4>2, <4>3 DEF LineAt
      <3> QED
        BY <3>1
    <2> QED
      <3>1. ~Unreadable => acknowledged \ Standing = Lost
        BY DEF Standing, Lost
      <3> QED
        BY <2>2, <2>3, <3>1 DEF TornWriteCostsOneRecord, Torn
  <1> QED
    BY <1>1, TrailInvariant, CountInvariant, LineInvariant, PTL
=============================================================================
