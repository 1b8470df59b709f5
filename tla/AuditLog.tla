------------------------------- MODULE AuditLog -------------------------------
(***************************************************************************)
(* The audit trail of eltanin-audit: `AuditFileSink::append` by concurrent *)
(* handler threads of one agent instance after another, all appending to   *)
(* one file, and what `explain` reads out of that file at any moment.      *)
(*                                                                         *)
(* A line reaches the file in three pieces: a head and a tail, the JSON    *)
(* text cut anywhere, and the end of the line.  A write may fail, and the  *)
(* agent may die, before each piece; the file keeps what it has.  A cut    *)
(* that falls inside a character of several bytes is a "cut" head.         *)
(* Flushing a File does nothing and never fails.                           *)
(* Wall-clock times and the contents of a record are left out.             *)
(***************************************************************************)
EXTENDS Integers, Sequences, FiniteSets

CONSTANTS
    Threads,        \* handler threads, which call append
    MultiByte,      \* sequence numbers of records with characters of several bytes
    MaxSequence,    \* bound: appends per instance
    MaxRestarts     \* bound: deaths of the agent

ASSUME AuditAssumption ==
    /\ IsFiniteSet(Threads)
    /\ MultiByte \subseteq Nat
    /\ MaxSequence \in Nat
    /\ MaxRestarts \in Nat

Instances == 0..MaxRestarts

AuditEventId == [instance : Instances, sequence : Nat]

VARIABLES
    versions,       \* the schema version the build of each instance writes
    instance,       \* the running IssuerInstanceId
    next_sequence,  \* SinkState::next_sequence
    failed_writes,  \* AuditFileSink::failed_writes
    file,           \* the log: a sequence of pieces
    pc,             \* per thread: where it is in append
    event_id,       \* per thread: the id it minted
    acknowledged    \* ids that append returned as Ok

vars == <<versions, instance, next_sequence, failed_writes, file, pc, event_id,
          acknowledged>>

NoId == [instance |-> 0, sequence |-> -1]

Piece(id, part) == [id |-> id, part |-> part]

Heads == {"head", "cut"}

-----------------------------------------------------------------------------
(* The sink *)

Init ==
    /\ versions \in [Instances -> {"Current", "Other"}]
    /\ instance = 0
    /\ next_sequence = 0
    /\ failed_writes = 0
    /\ file = <<>>
    /\ pc = [t \in Threads |-> "idle"]
    /\ event_id = [t \in Threads |-> NoId]
    /\ acknowledged = {}

Writing == {"head", "tail", "end"}

\* Fault: the writer is not behind the lock of the sequence.
NoLock == TRUE

\* SinkState is behind one mutex from the reservation to the end of the write.
LockFree == \A t \in Threads : pc[t] \notin Writing

\* Fault: the sequence number is taken back when the record does not serialize.
ReserveUnlessUnserializable(t) ==
    /\ pc[t] = "idle"
    /\ LockFree
    /\ next_sequence < MaxSequence
    /\ event_id' = [event_id EXCEPT ![t] = [instance |-> instance,
                                            sequence |-> next_sequence]]
    /\ \E label \in {"head", "failed"} :
           /\ pc' = [pc EXCEPT ![t] = label]
           /\ next_sequence' = IF label = "head" THEN next_sequence + 1
                               ELSE next_sequence
    /\ UNCHANGED <<versions, instance, failed_writes, file, acknowledged>>

\* The number is consumed whatever happens next; a record that does not
\* serialize fails before anything is written.
Reserve(t) ==
    /\ pc[t] = "idle"
    /\ LockFree
    /\ next_sequence < MaxSequence
    /\ event_id' = [event_id EXCEPT ![t] = [instance |-> instance,
                                            sequence |-> next_sequence]]
    /\ next_sequence' = next_sequence + 1
    /\ \E label \in {"head", "failed"} : pc' = [pc EXCEPT ![t] = label]
    /\ UNCHANGED <<versions, instance, failed_writes, file, acknowledged>>

WriteHead(t) ==
    /\ pc[t] = "head"
    /\ \E part \in Heads :
           /\ part = "cut" => event_id[t].sequence \in MultiByte
           /\ file' = Append(file, Piece(event_id[t], part))
    /\ pc' = [pc EXCEPT ![t] = "tail"]
    /\ UNCHANGED <<versions, instance, next_sequence, failed_writes, event_id,
                   acknowledged>>

WriteTail(t) ==
    /\ pc[t] = "tail"
    /\ file' = Append(file, Piece(event_id[t], "tail"))
    /\ pc' = [pc EXCEPT ![t] = "end"]
    /\ UNCHANGED <<versions, instance, next_sequence, failed_writes, event_id,
                   acknowledged>>

\* Fault: the line is not ended.
WriteEndWithoutNewline(t) ==
    /\ pc[t] = "end"
    /\ pc' = [pc EXCEPT ![t] = "idle"]
    /\ event_id' = [event_id EXCEPT ![t] = NoId]
    /\ acknowledged' = acknowledged \cup {event_id[t]}
    /\ UNCHANGED <<versions, instance, next_sequence, failed_writes, file>>

\* The line is complete, the lock is dropped and append returns the id.
WriteEnd(t) ==
    /\ pc[t] = "end"
    /\ file' = Append(file, Piece(event_id[t], "end"))
    /\ pc' = [pc EXCEPT ![t] = "idle"]
    /\ event_id' = [event_id EXCEPT ![t] = NoId]
    /\ acknowledged' = acknowledged \cup {event_id[t]}
    /\ UNCHANGED <<versions, instance, next_sequence, failed_writes>>

\* write_all gives up; the pieces before stay.  The lock is dropped before
\* the failure is counted.
WriteFails(t) ==
    /\ pc[t] \in Writing
    /\ pc' = [pc EXCEPT ![t] = "failed"]
    /\ UNCHANGED <<versions, instance, next_sequence, failed_writes, file,
                   event_id, acknowledged>>

CountFailure(t) ==
    /\ pc[t] = "failed"
    /\ failed_writes' = failed_writes + 1
    /\ pc' = [pc EXCEPT ![t] = "idle"]
    /\ event_id' = [event_id EXCEPT ![t] = NoId]
    /\ UNCHANGED <<versions, instance, next_sequence, file, acknowledged>>

\* The agent dies at any moment and is started again, perhaps as another
\* build: AuditFileSink::open appends to the same file.
Restart ==
    /\ instance < MaxRestarts
    /\ instance' = instance + 1
    /\ next_sequence' = 0
    /\ failed_writes' = 0
    /\ pc' = [t \in Threads |-> "idle"]
    /\ event_id' = [t \in Threads |-> NoId]
    /\ UNCHANGED <<versions, file, acknowledged>>

AppendEntry(t) ==
    \/ Reserve(t) \/ WriteHead(t) \/ WriteTail(t) \/ WriteEnd(t)
    \/ WriteFails(t) \/ CountFailure(t)

Next == Restart \/ \E t \in Threads : AppendEntry(t)

Spec == Init /\ [][Next]_vars

-----------------------------------------------------------------------------
(* explain: what read_log makes of the file *)

\* The head at i begins a line of the file whose text is one JSON document.
\* The last line counts without its end.
Stands(i) ==
    /\ file[i].part \in Heads
    /\ i = 1 \/ file[i - 1].part = "end"
    /\ i < Len(file) /\ file[i + 1] = Piece(file[i].id, "tail")
    /\ i + 1 = Len(file) \/ file[i + 2].part = "end"

\* read_to_string refuses a file that is not UTF-8.
Unreadable ==
    \E i \in 1..Len(file) :
        /\ file[i].part = "cut"
        /\ i = Len(file) \/ file[i + 1] # Piece(file[i].id, "tail")

\* The lines that read_log gets to see as JSON documents: none of a file that
\* it cannot read.
Standing ==
    {file[i].id : i \in {j \in 1..Len(file) : ~Unreadable /\ Stands(j)}}

Records == {id \in Standing : versions[id.instance] = "Current"}

\* recover_event_id: lines of another schema version.  A line that is no
\* JSON document yields no id.
Recovered == {id \in Standing : versions[id.instance] # "Current"}

\* Fault: the range starts at the lowest sequence seen.
DetectGapsFromLowest ==
    LET present == Records \cup Recovered
    IN  {id \in [instance : Instances, sequence : 0..MaxSequence] :
            /\ id \notin present
            /\ \E low, high \in present :
                   /\ low.instance = id.instance /\ high.instance = id.instance
                   /\ low.sequence < id.sequence /\ id.sequence < high.sequence}

\* Fault: the range runs one past the highest sequence seen.
DetectGapsPastHighest ==
    LET present == Records \cup Recovered
    IN  (UNION {[instance : {p.instance}, sequence : 0..(p.sequence + 1)] :
                    p \in present}) \ present

\* detect_gaps
DetectGaps ==
    LET present == Records \cup Recovered
    IN  (UNION {[instance : {p.instance}, sequence : 0..p.sequence] :
                    p \in present}) \ present

\* read_log, then select for Selector::Event
Select(id) ==
    IF Unreadable THEN "Io"
    ELSE IF id \in Records THEN "Found"
    ELSE IF id \in DetectGaps THEN "PossiblyLost"
    ELSE "NotFound"

-----------------------------------------------------------------------------
(* Properties.  They are about every moment at which the file may be read.  *)

\* Type invariant.
TypeOK ==
    /\ versions \in [Instances -> {"Current", "Other"}]
    /\ instance \in Instances
    /\ next_sequence \in 0..MaxSequence
    /\ failed_writes \in Nat
    /\ file \in Seq([id : AuditEventId, part : Heads \cup {"tail", "end"}])
    /\ pc \in [Threads -> Writing \cup {"idle", "failed"}]
    /\ event_id \in [Threads -> AuditEventId \cup {NoId}]
    /\ acknowledged \subseteq AuditEventId

\* Id a was minted before id b.
Precedes(a, b) ==
    \/ a.instance < b.instance
    \/ a.instance = b.instance /\ a.sequence < b.sequence

\* sink.rs: "sequence order and file (write) order are always identical", for
\* every line that can be read, across threads, failures and restarts.
FileOrderIsSequenceOrder ==
    \A i, j \in 1..Len(file) :
        i < j /\ Stands(i) /\ Stands(j) => Precedes(file[i].id, file[j].id)

\* append reserves "unconditionally" and failed_writes counts failures: every
\* number the running instance consumed is acknowledged, counted as failed,
\* or still in the hands of a thread.
NumbersAddUp ==
    next_sequence = Cardinality({id \in acknowledged : id.instance = instance})
                        + failed_writes
                        + Cardinality({t \in Threads : pc[t] # "idle"})

\* explain's gaps: an id reported as possibly lost was minted, and nobody is
\* still about to write it, however the reader's timing falls.
GapsAreOver ==
    \A id \in DetectGaps :
        /\ id.instance <= instance
        /\ id.instance = instance => id.sequence < next_sequence
        /\ \A t \in Threads : pc[t] \in Writing => event_id[t] # id

\* SelectionResult::NotFound: an id that append acknowledged is answered "not
\* found" only at the trailing edge of its instance (the accepted
\* limitation), or when its line is there under another schema version.
NotFoundIsExplained ==
    \A id \in acknowledged :
        Select(id) = "NotFound" =>
            \/ id \in Recovered
            \/ \A later \in Standing :
                   later.instance = id.instance => later.sequence < id.sequence

\* A write that breaks off part-way glues its remains to the next line: it
\* costs at most one acknowledged record, of whichever instance comes next,
\* unless it broke off inside a character.  Then it costs all of them, those of
\* earlier instances too: read_log refuses the file, although an unreadable
\* line is said to be "never fatal to reading the rest of the log"
\* (explain.rs, UnreadableLine).  With nobody writing, such remains are the
\* only cause: concurrent appends never tear each other's characters.
TornWriteCostsOneRecord ==
    /\ ~Unreadable =>
           Cardinality(acknowledged \ Standing)
               <= Cardinality({file[i].id : i \in 1..Len(file)} \ acknowledged)
    /\ LockFree /\ Unreadable =>
           \E i \in 1..Len(file) :
               file[i].part = "cut" /\ file[i].id \notin acknowledged
=============================================================================
