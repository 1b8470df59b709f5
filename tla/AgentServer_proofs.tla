------------------------- MODULE AgentServer_proofs -------------------------
(***************************************************************************)
(* Proofs about AgentServer, for every finite set of connections, every    *)
(* set of callers of shutdown() and every configuration.                   *)
(***************************************************************************)
EXTENDS AgentServer, FiniteSetTheorems, TLAPS

USE ServerAssumption

AllPeers == Conns \cup Callers

\* A client's connection waits in the backlog once; a wake-up is there only
\* after its caller stored the flag.
QueueInv ==
    /\ \A i \in 1..Len(queue) : queue[i] \in Conns => phase[queue[i]] = "queued"
    /\ \A i, j \in 1..Len(queue) :
           queue[i] = queue[j] /\ queue[i] \in Conns => i = j
    /\ \A i \in 1..Len(queue) : queue[i] \in Callers => flag

\* What the loop has in hand, and where: past the look at the flag it can
\* only be a client's connection.
StreamInv ==
    /\ stream \in Callers => flag
    /\ stream \in Conns => phase[stream] = "accepted"
    /\ loop = "check" => stream # NoStream
    /\ loop \in {"load", "admit", "spawn"} => stream \in Conns
    /\ \A i \in 1..Len(handles) : handles[i] \in Conns

\* A caller that is past its store has set the flag, which nothing clears.
FlagInv == \A k \in Callers : caller[k] # "ready" => flag

ShapeInv == QueueInv /\ StreamInv /\ FlagInv

\* The slot counter and the place that was seen free.
SlotInv ==
    /\ SlotAccounting
    /\ active <= MaxConnections
    /\ loop = "admit" => active < MaxConnections

ServerInv == TypeOK /\ ShapeInv /\ SlotInv

\* The part of TypeOK that connection threads change.
ConnTypes ==
    /\ got \in [Conns -> Nat]
    /\ patience \in [Conns -> 0..IoTimeout]
    /\ reply \in [Conns -> Replies \cup {NoReply}]

\* The threads that hold a slot can be counted.
LEMMA HoldersFinite ==
    /\ IsFiniteSet(SlotHolders)
    /\ Cardinality(SlotHolders) \in Nat
  BY FS_Subset, FS_CardinalityType DEF SlotHolders

\* The server starts with no slot taken and nothing in hand.
LEMMA InitInv == Init => ServerInv
  <1> SUFFICES ASSUME Init PROVE ServerInv
    OBVIOUS
  <1>1. TypeOK
    <2>1. phase \in [Conns -> Phases]
      BY DEF Init, Phases
    <2>2. stream \in AllPeers \cup {NoStream, AcceptError}
      BY DEF Init
    <2>3. queue \in Seq(AllPeers) /\ handles \in Seq(AllPeers)
      BY DEF Init
    <2>4. flag \in BOOLEAN
      BY DEF Init
    <2> QED
      BY <2>1, <2>2, <2>3, <2>4 DEF Init, TypeOK, AllPeers
  <1>2. ShapeInv
    BY DEF Init, ShapeInv, QueueInv, StreamInv, FlagInv, NoStream
  <1>3. SlotHolders = {}
    BY DEF Init, SlotHolders, HoldsSlot, Serving, Reading
  <1>4. SlotInv
    BY <1>3, FS_EmptySet DEF Init, SlotInv, SlotAccounting
  <1> QED
    BY <1>1, <1>2, <1>4 DEF ServerInv

-----------------------------------------------------------------------------
(* Steps that do not touch the slots *)

\* The counter stays right when no guard comes or goes.
LEMMA SameHolders ==
    ASSUME ServerInv,
           active' = active,
           \A c \in Conns : phase'[c] \in HoldsSlot <=> phase[c] \in HoldsSlot,
           loop' = "spawn" <=> loop = "spawn",
           loop' = "admit" => loop = "admit"
    PROVE  SlotInv'
  <1>1. SlotHolders' = SlotHolders
    BY DEF SlotHolders
  <1> QED
    BY <1>1 DEF ServerInv, SlotInv, SlotAccounting

\* A step of a connection thread that keeps its guard.
LEMMA ThreadKeepsGuard ==
    ASSUME ServerInv,
           NEW c \in Conns, NEW label,
           phase[c] \in HoldsSlot, label \in HoldsSlot,
           phase' = [phase EXCEPT ![c] = label],
           UNCHANGED <<flag, caller, queue, loop, stream, handles, active>>
    PROVE  ShapeInv' /\ SlotInv' /\ phase' \in [Conns -> Phases]
  <1>1. phase' \in [Conns -> Phases]
    BY DEF ServerInv, TypeOK, Phases, ThreadPhases
  <1>2. phase[c] # "queued" /\ phase[c] # "accepted"
    BY DEF HoldsSlot, Serving, Reading
  <1>3. \A d \in Conns : phase[d] \in {"queued", "accepted"} => phase'[d] = phase[d]
    BY <1>2 DEF ServerInv, TypeOK
  <1>4. queue \in Seq(AllPeers)
    BY DEF ServerInv, TypeOK, AllPeers
  <1>5. ShapeInv'
    BY <1>3, <1>4 DEF ServerInv, ShapeInv, QueueInv, StreamInv, FlagInv
  <1>6. \A d \in Conns : phase'[d] \in HoldsSlot <=> phase[d] \in HoldsSlot
    BY DEF ServerInv, TypeOK
  <1>7. SlotInv'
    BY <1>6, SameHolders
  <1> QED
    BY <1>1, <1>5, <1>7

\* Closing the stream in hand.
LEMMA DroppedStream ==
    ASSUME ServerInv, DropStream, loop' \in {"accept", "poll"},
           UNCHANGED <<flag, caller, queue, handles>>
    PROVE  /\ ShapeInv'
           /\ SlotHolders' = SlotHolders
           /\ phase' \in [Conns -> Phases]
  <1> USE DEF ServerInv, DropStream
  <1>0. queue \in Seq(AllPeers)
    BY DEF TypeOK, AllPeers
  <1>1. \A c \in Conns : phase'[c] = IF c = stream THEN "dropped" ELSE phase[c]
    OBVIOUS
  <1>2. stream \in Conns => phase[stream] = "accepted"
    BY DEF ShapeInv, StreamInv
  <1>3. phase' \in [Conns -> Phases]
    BY DEF TypeOK, Phases
  <1>4. QueueInv'
    BY <1>0, <1>1, <1>2 DEF ShapeInv, QueueInv
  <1>5. StreamInv' /\ FlagInv'
    BY <1>1 DEF ShapeInv, StreamInv, FlagInv
  <1>6. SlotHolders' = SlotHolders
    BY <1>1, <1>2 DEF SlotHolders, HoldsSlot, Serving, Reading
  <1> QED
    BY <1>3, <1>4, <1>5, <1>6 DEF ShapeInv

-----------------------------------------------------------------------------
(* Every step *)

\* Every step of the loop, of a thread, a client or a caller keeps the
\* accounting of the slots.
LEMMA StepInv == ServerInv /\ [Next]_vars => ServerInv'
  <1> SUFFICES ASSUME ServerInv, [Next]_vars PROVE ServerInv'
    OBVIOUS
  <1> USE DEF ServerInv
  <1>0. /\ queue \in Seq(AllPeers)
        /\ handles \in Seq(AllPeers)
    BY DEF TypeOK, AllPeers
  <1>1. ASSUME NEW c \in Conns, Connect(c) PROVE ServerInv'
    <2> USE <1>1 DEF Connect, loop_vars, conn_vars
    <2>1. queue' \in Seq(AllPeers) /\ Len(queue') = Len(queue) + 1
      BY <1>0 DEF AllPeers
    <2>2. \A i \in 1..Len(queue) : queue'[i] = queue[i]
      BY <1>0
    <2>3. queue'[Len(queue) + 1] = c
      BY <1>0
    <2>4. \A d \in Conns : phase'[d] = IF d = c THEN "queued" ELSE phase[d]
      BY DEF TypeOK
    <2>5. TypeOK'
      BY <2>1 DEF TypeOK, Phases, AllPeers
    <2>6. QueueInv'
      <3>1. \A i \in 1..Len(queue) : queue[i] # c
        BY <1>0 DEF ShapeInv, QueueInv
      <3>2. \A i \in 1..Len(queue') : i \in 1..Len(queue) \/ i = Len(queue) + 1
        BY <1>0, <2>1
      <3>3. \A i \in 1..Len(queue') :
                queue'[i] \in Conns => phase'[queue'[i]] = "queued"
        BY <2>2, <2>3, <2>4, <3>2 DEF ShapeInv, QueueInv
      <3>4. \A i, j \in 1..Len(queue') :
                queue'[i] = queue'[j] /\ queue'[i] \in Conns => i = j
        BY <2>2, <2>3, <3>1, <3>2 DEF ShapeInv, QueueInv
      <3>5. \A i \in 1..Len(queue') : queue'[i] \in Callers => flag'
        BY <2>2, <2>3, <3>2 DEF ShapeInv, QueueInv
      <3> QED
        BY <3>3, <3>4, <3>5 DEF QueueInv
    <2>7. StreamInv' /\ FlagInv'
      BY <2>4 DEF ShapeInv, StreamInv, FlagInv
    <2>8. SlotInv'
      BY <2>4, SameHolders DEF HoldsSlot, Serving, Reading
    <2> QED
      BY <2>5, <2>6, <2>7, <2>8 DEF ShapeInv
  <1>2. ASSUME NEW k \in Callers, StoreFlag(k) PROVE ServerInv'
    <2> USE <1>2 DEF StoreFlag, loop_vars, conn_vars
    <2>1. TypeOK'
      BY DEF TypeOK
    <2>2. ShapeInv'
      BY DEF ShapeInv, QueueInv, StreamInv, FlagInv, TypeOK
    <2>3. SlotInv'
      BY SameHolders
    <2> QED
      BY <2>1, <2>2, <2>3
  <1>3. ASSUME NEW k \in Callers, Wake(k) PROVE ServerInv'
    <2> USE <1>3 DEF Wake, loop_vars, conn_vars
    <2>0. CASE loop = "returned"
      <3>1. TypeOK'
        BY <2>0 DEF TypeOK
      <3>2. ShapeInv'
        BY <2>0 DEF ShapeInv, QueueInv, StreamInv, FlagInv, TypeOK
      <3>3. SlotInv'
        BY SameHolders
      <3> QED
        BY <3>1, <3>2, <3>3
    <2>1. CASE loop # "returned"
      <3>1. queue' \in Seq(AllPeers) /\ Len(queue') = Len(queue) + 1
        BY <1>0, <2>1 DEF AllPeers
      <3>2. \A i \in 1..Len(queue) : queue'[i] = queue[i]
        BY <1>0, <2>1
      <3>3. queue'[Len(queue) + 1] = k /\ k \notin Conns
        BY <1>0, <2>1
      <3>4. \A i \in 1..Len(queue') : i \in 1..Len(queue) \/ i = Len(queue) + 1
        BY <1>0, <3>1
      <3>5. TypeOK'
        BY <3>1 DEF TypeOK, AllPeers
      <3>6. flag
        BY DEF TypeOK, ShapeInv, FlagInv
      <3>7. QueueInv'
        <4>1. \A i \in 1..Len(queue') :
                  queue'[i] \in Conns => phase'[queue'[i]] = "queued"
          BY <3>2, <3>3, <3>4 DEF ShapeInv, QueueInv
        <4>2. \A i, j \in 1..Len(queue') :
                  queue'[i] = queue'[j] /\ queue'[i] \in Conns => i = j
          BY <3>2, <3>3, <3>4 DEF ShapeInv, QueueInv
        <4>3. \A i \in 1..Len(queue') : queue'[i] \in Callers => flag'
          BY <3>6
        <4> QED
          BY <4>1, <4>2, <4>3 DEF QueueInv
      <3>8. StreamInv' /\ FlagInv'
        BY DEF ShapeInv, StreamInv, FlagInv, TypeOK
      <3>9. SlotInv'
        BY SameHolders
      <3> QED
        BY <3>5, <3>7, <3>8, <3>9 DEF ShapeInv
    <2> QED
      BY <2>0, <2>1
  <1>4. CASE Accept
    <2> USE <1>4 DEF Accept, conn_vars
    <2>1. /\ Head(queue) \in AllPeers
          /\ Head(queue) = queue[1]
          /\ 1 \in 1..Len(queue)
          /\ queue' \in Seq(AllPeers)
          /\ Len(queue') = Len(queue) - 1
          /\ \A i \in 1..Len(queue') : queue'[i] = queue[i + 1]
          /\ \A i \in 1..Len(queue') : i + 1 \in 1..Len(queue) /\ i + 1 # 1
      BY <1>0
    <2>2. \A c \in Conns : phase'[c] = IF c = queue[1] THEN "accepted" ELSE phase[c]
      BY <2>1
    <2>3. TypeOK'
      <3>1. phase' \in [Conns -> Phases]
        BY DEF TypeOK, Phases
      <3> QED
        BY <2>1, <3>1 DEF TypeOK, AllPeers
    <2>4. QueueInv'
      <3>1. \A i \in 1..Len(queue') : queue'[i] \in Conns => queue'[i] # queue[1]
        BY <2>1 DEF ShapeInv, QueueInv
      <3>2. \A i \in 1..Len(queue') :
                queue'[i] \in Conns => phase'[queue'[i]] = "queued"
        BY <2>1, <2>2, <3>1 DEF ShapeInv, QueueInv
      <3>3. \A i, j \in 1..Len(queue') :
                queue'[i] = queue'[j] /\ queue'[i] \in Conns => i + 1 = j + 1
        BY <2>1 DEF ShapeInv, QueueInv
      <3>4. \A i \in 1..Len(queue') : queue'[i] \in Callers => flag'
        BY <2>1 DEF ShapeInv, QueueInv
      <3> QED
        BY <3>2, <3>3, <3>4, <2>1 DEF QueueInv
    <2>5. StreamInv' /\ FlagInv'
      <3>1. stream' = queue[1] /\ stream' \in AllPeers
        BY <2>1
      <3>2. stream' \in Callers => flag'
        BY <2>1, <3>1 DEF ShapeInv, QueueInv
      <3>3. stream' \in Conns => phase'[stream'] = "accepted"
        BY <2>2, <3>1
      <3>4. stream' # NoStream
        BY <3>1 DEF AllPeers
      <3> QED
        BY <3>2, <3>3, <3>4 DEF ShapeInv, StreamInv, FlagInv
    <2>6. \A c \in Conns : phase'[c] \in HoldsSlot <=> phase[c] \in HoldsSlot
      <3>1. queue[1] \in Conns => phase[queue[1]] = "queued"
        BY <2>1 DEF ShapeInv, QueueInv
      <3> QED
        BY <2>2, <3>1 DEF HoldsSlot, Serving, Reading
    <2>7. SlotInv'
      BY <2>6, SameHolders
    <2> QED
      BY <2>3, <2>4, <2>5, <2>7 DEF ShapeInv
  <1>5. CASE AcceptFails
    <2> USE <1>5 DEF AcceptFails, conn_vars
    <2>1. TypeOK'
      BY DEF TypeOK
    <2>2. ShapeInv'
      BY DEF ShapeInv, QueueInv, StreamInv, FlagInv, TypeOK, NoStream, AcceptError
    <2>3. SlotInv'
      BY SameHolders
    <2> QED
      BY <2>1, <2>2, <2>3
  <1>6. CASE CheckFlag
    <2> USE <1>6 DEF CheckFlag, conn_vars
    <2>1. CASE flag /\ DropStream /\ left' = DrainTimeout /\ loop' = "poll"
      <3>1. ShapeInv' /\ SlotHolders' = SlotHolders /\ phase' \in [Conns -> Phases]
        BY <2>1, DroppedStream
      <3>2. TypeOK'
        BY <2>1, <3>1 DEF TypeOK, DropStream
      <3>3. SlotInv'
        BY <2>1, <3>1 DEF SlotInv, SlotAccounting
      <3> QED
        BY <3>1, <3>2, <3>3
    <2>2. CASE ~flag /\ loop' = (IF stream = AcceptError THEN "accept" ELSE "load")
               /\ UNCHANGED <<stream, left, phase>>
      <3>1. TypeOK'
        BY <2>2 DEF TypeOK
      <3>2. stream # AcceptError => stream \in Conns
        BY <2>2 DEF TypeOK, ShapeInv, StreamInv
      <3>3. ShapeInv'
        BY <2>2, <3>2 DEF ShapeInv, QueueInv, StreamInv, FlagInv
      <3>4. SlotInv'
        BY <2>2, SameHolders
      <3> QED
        BY <3>1, <3>3, <3>4
    <2> QED
      BY <2>1, <2>2
  <1>7. CASE LoadActive
    <2> USE <1>7 DEF LoadActive, conn_vars
    <2>1. CASE DropStream /\ loop' = "accept"
      <3>1. ShapeInv' /\ SlotHolders' = SlotHolders /\ phase' \in [Conns -> Phases]
        BY <2>1, DroppedStream
      <3>2. TypeOK'
        BY <2>1, <3>1 DEF TypeOK, DropStream
      <3>3. SlotInv'
        BY <2>1, <3>1 DEF SlotInv, SlotAccounting
      <3> QED
        BY <3>1, <3>2, <3>3
    <2>2. CASE active < MaxConnections /\ loop' = "admit" /\ UNCHANGED <<stream, phase>>
      <3>1. TypeOK'
        BY <2>2 DEF TypeOK
      <3>2. ShapeInv'
        BY <2>2 DEF ShapeInv, QueueInv, StreamInv, FlagInv
      <3>3. SlotHolders' = SlotHolders
        BY <2>2 DEF SlotHolders
      <3>4. SlotInv'
        BY <2>2, <3>3 DEF SlotInv, SlotAccounting
      <3> QED
        BY <3>1, <3>2, <3>4
    <2> QED
      BY <2>1, <2>2
  <1>8. CASE FetchAdd
    <2> USE <1>8 DEF FetchAdd, conn_vars
    <2>1. TypeOK'
      BY DEF TypeOK
    <2>2. ShapeInv'
      BY DEF ShapeInv, QueueInv, StreamInv, FlagInv
    <2>3. SlotHolders' = SlotHolders
      BY DEF SlotHolders
    <2>4. SlotInv'
      BY <2>3, HoldersFinite DEF SlotInv, SlotAccounting, TypeOK
    <2> QED
      BY <2>1, <2>2, <2>4
  <1>9. CASE Spawn
    <2> USE <1>9 DEF Spawn, conn_vars
    <2>1. stream \in Conns /\ phase[stream] = "accepted"
      BY DEF ShapeInv, StreamInv
    <2>2. \A c \in Conns : phase'[c] = IF c = stream THEN "derive" ELSE phase[c]
      OBVIOUS
    <2>3. /\ handles' \in Seq(AllPeers)
          /\ Len(handles') = Len(handles) + 1
          /\ \A i \in 1..Len(handles) : handles'[i] = handles[i]
          /\ handles'[Len(handles) + 1] = stream
          /\ \A i \in 1..Len(handles') : i \in 1..Len(handles) \/ i = Len(handles) + 1
      BY <1>0, <2>1 DEF AllPeers
    <2>4. TypeOK'
      <3>1. phase' \in [Conns -> Phases]
        BY DEF TypeOK, Phases, ThreadPhases, HoldsSlot, Serving
      <3> QED
        BY <2>3, <3>1 DEF TypeOK, AllPeers
    <2>5. QueueInv'
      BY <1>0, <2>1, <2>2 DEF ShapeInv, QueueInv
    <2>6. StreamInv' /\ FlagInv'
      BY <2>1, <2>3 DEF ShapeInv, StreamInv, FlagInv, NoStream
    <2>7. SlotHolders' = SlotHolders \cup {stream} /\ stream \notin SlotHolders
      BY <2>1, <2>2 DEF SlotHolders, HoldsSlot, Serving, Reading
    <2>8. Cardinality(SlotHolders') = Cardinality(SlotHolders) + 1
      BY <2>7, HoldersFinite, FS_AddElement
    <2>9. SlotInv'
      BY <2>8, HoldersFinite DEF SlotInv, SlotAccounting, TypeOK
    <2> QED
      BY <2>4, <2>5, <2>6, <2>9 DEF ShapeInv
  <1>10. CASE SpawnFails
    <2> USE <1>10 DEF SpawnFails, conn_vars
    <2>1. ShapeInv' /\ SlotHolders' = SlotHolders /\ phase' \in [Conns -> Phases]
      BY DroppedStream
    <2>2. active = Cardinality(SlotHolders) + 1
      BY DEF SlotInv, SlotAccounting
    <2>3. active' = Cardinality(SlotHolders) /\ active' \in Nat
      BY <2>2, HoldersFinite
    <2>4. TypeOK'
      BY <2>1, <2>3 DEF TypeOK, DropStream
    <2>5. SlotInv'
      BY <2>1, <2>3, HoldersFinite DEF SlotInv, SlotAccounting, TypeOK
    <2> QED
      BY <2>1, <2>4, <2>5
  <1>11. CASE Poll
    <2> USE <1>11 DEF Poll, conn_vars
    <2>1. TypeOK'
      <3>0. report \in [drained : Nat, abandoned : Nat]
        BY DEF TypeOK
      <3>a. [report EXCEPT !.drained = @ + 1] \in [drained : Nat, abandoned : Nat]
        BY <3>0
      <3>1. report' \in [drained : Nat, abandoned : Nat]
        BY <3>0, <3>a
      <3>2. loop' \in {"poll", "unfinished"}
        OBVIOUS
      <3> QED
        BY <3>1, <3>2 DEF TypeOK
    <2>2. ShapeInv'
      BY DEF ShapeInv, QueueInv, StreamInv, FlagInv
    <2>3. SlotInv'
      BY SameHolders
    <2> QED
      BY <2>1, <2>2, <2>3
  <1>12. CASE CheckDeadline
    <2> USE <1>12 DEF CheckDeadline, conn_vars
    <2>1. TypeOK'
      <3>0. report \in [drained : Nat, abandoned : Nat]
        BY DEF TypeOK
      <3>a. [report EXCEPT !.abandoned = @ + 1] \in [drained : Nat, abandoned : Nat]
        BY <3>0
      <3>1. report' \in [drained : Nat, abandoned : Nat]
        BY <3>0, <3>a
      <3>2. loop' \in {"poll", "unfinished"}
        OBVIOUS
      <3> QED
        BY <3>1, <3>2 DEF TypeOK
    <2>2. ShapeInv'
      BY DEF ShapeInv, QueueInv, StreamInv, FlagInv
    <2>3. SlotInv'
      BY SameHolders
    <2> QED
      BY <2>1, <2>2, <2>3
  <1>13. CASE Return
    <2> USE <1>13 DEF Return, conn_vars
    <2>1. \A c \in Conns :
              phase'[c] = IF phase[c] = "queued" THEN "dropped" ELSE phase[c]
      OBVIOUS
    <2>2. TypeOK'
      <3>1. phase' \in [Conns -> Phases]
        BY DEF TypeOK, Phases
      <3> QED
        BY <3>1 DEF TypeOK
    <2>3. ShapeInv'
      BY <2>1 DEF ShapeInv, QueueInv, StreamInv, FlagInv
    <2>4. SlotInv'
      BY <2>1, SameHolders DEF HoldsSlot, Serving, Reading
    <2> QED
      BY <2>2, <2>3, <2>4
  <1>14. CASE Tick
    <2> USE <1>14 DEF Tick, conn_vars, loop_vars
    <2>1. TypeOK'
      <3>1. left' \in 0..DrainTimeout
        BY DEF TypeOK, Decremented
      <3>2. patience' \in [Conns -> 0..IoTimeout]
        BY DEF TypeOK
      <3> QED
        BY <3>1, <3>2 DEF TypeOK
    <2>2. ShapeInv'
      BY DEF ShapeInv, QueueInv, StreamInv, FlagInv
    <2>3. SlotInv'
      BY SameHolders
    <2> QED
      BY <2>1, <2>2, <2>3
  <1>15. ASSUME NEW c \in Conns, Thread(c) \/ Client(c), ~Connect(c)
         PROVE  ServerInv'
    <2> USE <1>15
    <2>1. ASSUME phase[c] \in HoldsSlot,
                 NEW label \in HoldsSlot, Goto(c, label),
                 ConnTypes',
                 UNCHANGED <<flag, caller, queue, loop_vars, active, left>>
          PROVE  ServerInv'
      <3>1. ShapeInv' /\ SlotInv' /\ phase' \in [Conns -> Phases]
        BY <2>1, ThreadKeepsGuard DEF Goto, loop_vars
      <3> QED
        BY <2>1, <3>1 DEF TypeOK, ConnTypes, loop_vars
    <2>2. ConnTypes
      BY DEF TypeOK, ConnTypes
    <2>3. ASSUME NEW code \in {"Internal", "MalformedRequest", "Oversized",
                               "UnsupportedVersion", "Response"},
                 NEW id \in {"None", "Echoed"},
                 Answer(c, code, id), phase[c] \in HoldsSlot,
                 UNCHANGED <<flag, caller, queue, loop_vars, active, left>>
          PROVE  ServerInv'
      <3>1. [code |-> code, id |-> id] \in Replies
        BY DEF Replies
      <3>2. ConnTypes'
        BY <2>2, <2>3, <3>1 DEF ConnTypes, Answer, EndRead
      <3>3. "send" \in HoldsSlot /\ Goto(c, "send")
        BY <2>3 DEF HoldsSlot, Serving, Answer
      <3> QED
        BY <2>1, <2>3, <3>2, <3>3
    <2>4. ASSUME Close(c), phase[c] \in HoldsSlot,
                 UNCHANGED <<flag, caller, queue, loop_vars, active, left>>
          PROVE  ServerInv'
      <3>1. ConnTypes'
        BY <2>2, <2>4 DEF ConnTypes, Close, EndRead
      <3>2. "closing" \in HoldsSlot /\ Goto(c, "closing")
        BY <2>4 DEF HoldsSlot, Close
      <3> QED
        BY <2>1, <2>4, <3>1, <3>2
    <2>5. ASSUME NEW label \in Reading, BeginRead(c, label), phase[c] \in HoldsSlot,
                 UNCHANGED <<flag, caller, queue, loop_vars, active, left>>
          PROVE  ServerInv'
      <3>1. ConnTypes'
        BY <2>2, <2>5 DEF ConnTypes, BeginRead
      <3>2. label \in HoldsSlot /\ Goto(c, label)
        BY <2>5 DEF HoldsSlot, Serving, BeginRead
      <3> QED
        BY <2>1, <2>5, <3>1, <3>2
    <2>6. ASSUME Goto(c, "decode"), EndRead(c), UNCHANGED reply,
                 phase[c] \in HoldsSlot,
                 UNCHANGED <<flag, caller, queue, loop_vars, active, left>>
          PROVE  ServerInv'
      <3>1. ConnTypes'
        BY <2>2, <2>6 DEF ConnTypes, EndRead
      <3>2. "decode" \in HoldsSlot
        BY DEF HoldsSlot, Serving
      <3> QED
        BY <2>1, <2>6, <3>1, <3>2
    <2>7. CASE GiveUp(c)
      BY <2>4, <2>7 DEF GiveUp, HoldsSlot, Serving
    <2>8. CASE DerivePeer(c)
      BY <2>3, <2>5, <2>8 DEF DerivePeer, HoldsSlot, Serving, Reading
    <2>9. CASE ReadTimesOut(c)
      BY <2>3, <2>9 DEF ReadTimesOut, HoldsSlot, Serving
    <2>10. CASE Decode(c)
      <3>1. CASE Goto(c, "handle") /\ UNCHANGED conn_vars
        <4>1. ConnTypes'
          BY <2>2, <3>1 DEF ConnTypes, conn_vars
        <4> QED
          BY <2>1, <2>10, <3>1, <4>1 DEF Decode, HoldsSlot, Serving
      <3>2. CASE \E code \in {"UnsupportedVersion", "MalformedRequest"},
                    id \in {"None", "Echoed"} : Answer(c, code, id)
        BY <2>3, <2>10, <3>2 DEF Decode, HoldsSlot, Serving
      <3> QED
        BY <2>10, <3>1, <3>2 DEF Decode
    <2>11. CASE Handle(c)
      BY <2>3, <2>11 DEF Handle, HoldsSlot, Serving
    <2>12. CASE Send(c)
      BY <2>4, <2>12 DEF Send, HoldsSlot, Serving
    <2>13. CASE ReleaseSlot(c)
      <3> USE <2>13 DEF ReleaseSlot, Goto, loop_vars, conn_vars
      <3>1. \A d \in Conns : phase'[d] = IF d = c THEN "released" ELSE phase[d]
        BY DEF TypeOK
      <3>2. c \in SlotHolders /\ SlotHolders' = SlotHolders \ {c}
        BY <3>1 DEF SlotHolders, HoldsSlot, Serving, Reading
      <3>3. /\ Cardinality(SlotHolders') = Cardinality(SlotHolders) - 1
            /\ Cardinality(SlotHolders') \in Nat
        BY <3>2, HoldersFinite, FS_RemoveElement, FS_CardinalityType
      <3>4. active' \in Nat /\ SlotInv'
        <4> DEFINE taken == IF loop = "spawn" THEN 1 ELSE 0
        <4>1. taken \in {0, 1} /\ active = Cardinality(SlotHolders) + taken
          BY DEF SlotInv, SlotAccounting
        <4>2. active' = Cardinality(SlotHolders') + taken /\ active' \in Nat
          BY <3>3, <4>1, HoldersFinite
        <4>3. SlotAccounting'
          BY <4>2 DEF SlotAccounting
        <4>4. active' <= active /\ active \in Nat
          BY DEF TypeOK
        <4> QED
          BY <4>2, <4>3, <4>4 DEF SlotInv
      <3>5. TypeOK'
        BY <3>4 DEF TypeOK, Phases, ThreadPhases
      <3>6. ShapeInv'
        BY <1>0, <3>1 DEF ShapeInv, QueueInv, StreamInv, FlagInv
      <3> QED
        BY <3>4, <3>5, <3>6
    <2>14. CASE ThreadEnds(c)
      <3> USE <2>14 DEF ThreadEnds, Goto, loop_vars, conn_vars
      <3>1. \A d \in Conns : phase'[d] = IF d = c THEN "finished" ELSE phase[d]
        BY DEF TypeOK
      <3>2. SlotInv'
        BY <3>1, SameHolders DEF HoldsSlot, Serving, Reading
      <3>3. TypeOK'
        BY DEF TypeOK, Phases, ThreadPhases
      <3>4. ShapeInv'
        BY <1>0, <3>1 DEF ShapeInv, QueueInv, StreamInv, FlagInv
      <3> QED
        BY <3>2, <3>3, <3>4
    <2>15. CASE ReadChunk(c)
      <3> USE <2>15 DEF ReadChunk, loop_vars
      <3>1. TypeOK'
        <4>1. got' \in [Conns -> Nat]
          BY DEF TypeOK
        <4>2. patience' \in [Conns -> 0..IoTimeout]
          BY DEF TypeOK
        <4> QED
          BY <4>1, <4>2 DEF TypeOK
      <3>2. ShapeInv'
        BY DEF ShapeInv, QueueInv, StreamInv, FlagInv
      <3>3. SlotInv'
        BY SameHolders
      <3> QED
        BY <3>1, <3>2, <3>3
    <2>16. CASE ReadHeader(c)
      BY <2>3, <2>5, <2>6, <2>16 DEF ReadHeader, HoldsSlot, Serving, Reading
    <2>17. CASE ReadBody(c)
      BY <2>6, <2>17 DEF ReadBody, HoldsSlot, Serving, Reading
    <2>18. CASE ReadEof(c)
      BY <2>3, <2>4, <2>18 DEF ReadEof, HoldsSlot, Serving
    <2>19. CASE ReadInterrupted(c)
      <3> USE <2>19 DEF ReadInterrupted, loop_vars
      <3>1. patience' \in [Conns -> 0..IoTimeout]
        BY DEF TypeOK
      <3>2. TypeOK'
        BY <3>1 DEF TypeOK
      <3>3. ShapeInv'
        BY DEF ShapeInv, QueueInv, StreamInv, FlagInv
      <3>4. SlotInv'
        BY SameHolders
      <3> QED
        BY <3>2, <3>3, <3>4
    <2>20. CASE ReadFails(c)
      BY <2>3, <2>20 DEF ReadFails, HoldsSlot, Serving
    <2> QED
      BY <2>7, <2>8, <2>9, <2>10, <2>11, <2>12, <2>13, <2>14, <2>15, <2>16, <2>17,
         <2>18, <2>19, <2>20 DEF Thread, Client
  <1>16. CASE UNCHANGED vars
    <2> USE <1>16 DEF vars
    <2>1. TypeOK'
      BY DEF TypeOK
    <2>2. ShapeInv'
      BY DEF ShapeInv, QueueInv, StreamInv, FlagInv
    <2>3. SlotInv'
      BY SameHolders
    <2> QED
      BY <2>1, <2>2, <2>3
  <1> QED
    BY <1>1, <1>2, <1>3, <1>4, <1>5, <1>6, <1>7, <1>8, <1>9, <1>10, <1>11, <1>12,
       <1>13, <1>14, <1>15, <1>16 DEF Next, Loop

\* ServerInv holds of every execution: what the theorems below rest on.
THEOREM ServerInvariant == Spec => []ServerInv
  <1>1. Init => ServerInv
    BY InitInv
  <1>2. ServerInv /\ [Next]_vars => ServerInv'
    BY StepInv
  <1> QED
    BY <1>1, <1>2, PTL DEF Spec

\* Type correctness of the accept loop and its threads.
THEOREM ServerTypeCorrect == Spec => []TypeOK
  <1>1. ServerInv => TypeOK
    BY DEF ServerInv
  <1> QED
    BY <1>1, ServerInvariant, PTL

\* The slot counter never drifts: it is the number of guards alive plus the
\* slot just taken, for every interleaving of the loop and the threads.
THEOREM SlotsAccounted == Spec => []SlotAccounting
  <1>1. ServerInv => SlotAccounting
    BY DEF ServerInv, SlotInv
  <1> QED
    BY <1>1, ServerInvariant, PTL

\* At most max_connections connections are served at a time.
THEOREM ServedBounded == Spec => []ServedBound
  <1>1. ServerInv => ServedBound
    <2> SUFFICES ASSUME ServerInv PROVE ServedBound
      OBVIOUS
    <2> DEFINE S == {c \in Conns : phase[c] \in Serving}
    <2>1. S \subseteq SlotHolders
      BY DEF SlotHolders, HoldsSlot
    <2>2. Cardinality(S) <= Cardinality(SlotHolders) /\ Cardinality(S) \in Nat
      BY <2>1, HoldersFinite, FS_Subset, FS_CardinalityType
    <2>3. Cardinality(SlotHolders) <= active /\ active <= MaxConnections
      BY HoldersFinite DEF ServerInv, SlotInv, SlotAccounting
    <2> QED
      BY <2>2, <2>3, HoldersFinite DEF ServedBound, ServerInv, TypeOK
  <1> QED
    BY <1>1, ServerInvariant, PTL

\* The connection by which shutdown() wakes accept never reaches a handler.
THEOREM WakeIsNeverServed == Spec => []WakeNeverServed
  <1>1. ServerInv => WakeNeverServed
    BY DEF ServerInv, ShapeInv, StreamInv, WakeNeverServed
  <1> QED
    BY <1>1, ServerInvariant, PTL

-----------------------------------------------------------------------------
(* The shutdown report: what `drain` counts is what the loop started *)

\* connection_threads holds the connections whose threads were started, each
\* of them once.
HandlesInv ==
    /\ \A i \in 1..Len(handles) : phase[handles[i]] \in ThreadPhases
    /\ \A i, j \in 1..Len(handles) : handles[i] = handles[j] => i = j
    /\ \A c \in Conns : phase[c] \in ThreadPhases =>
                          \E i \in 1..Len(handles) : handles[i] = c

\* A connection is accepted only while it is the stream in hand, and the
\* drain begins with nothing in hand.
HandInv ==
    /\ \A c \in Conns : phase[c] = "accepted" => stream = c
    /\ loop = "accept" => stream \notin Conns
    /\ loop \in {"poll", "unfinished", "returned"} => stream = NoStream

\* The threads that drain has joined: handles are looked at in order.
Joined == {c \in Conns : \E i \in 1..Reaped : handles[i] = c /\ phase[c] = "finished"}

ReapInv ==
    /\ loop \notin {"poll", "unfinished", "returned"} => Reaped = 0
    /\ Reaped <= Len(handles)
    /\ loop = "unfinished" => Reaped < Len(handles)
    /\ loop = "returned" => Reaped = Len(handles)
    /\ loop = "returned" => \A c \in Conns : phase[c] # "queued"
    /\ report.drained <= Cardinality(Joined)

ReportInv == HandlesInv /\ HandInv /\ ReapInv

\* The joined threads can be counted, before and after a step.
LEMMA JoinedFinite ==
    /\ IsFiniteSet(Joined) /\ Cardinality(Joined) \in Nat
    /\ IsFiniteSet(Joined') /\ Cardinality(Joined') \in Nat
  <1>1. Joined \subseteq Conns /\ Joined' \subseteq Conns
    BY DEF Joined
  <1> QED
    BY <1>1, FS_Subset, FS_CardinalityType

\* A step that leaves the loop alone: a thread moves on, or a client connects.
LEMMA LoopIdle ==
    ASSUME TypeOK, StreamInv, ReportInv, UNCHANGED loop_vars,
           \A c \in Conns :
               \/ phase'[c] = phase[c]
               \/ /\ phase[c] \in ThreadPhases \ {"finished"}
                  /\ phase'[c] \in ThreadPhases
               \/ /\ phase[c] = "unopened" /\ phase'[c] = "queued"
                  /\ loop # "returned"
    PROVE  ReportInv'
  <1> USE DEF loop_vars
  <1>1. "queued" \notin ThreadPhases /\ "accepted" \notin ThreadPhases
        /\ "unopened" \notin ThreadPhases
    BY DEF ThreadPhases, HoldsSlot, Serving, Reading
  <1>2. HandlesInv'
    BY <1>1 DEF ReportInv, HandlesInv, StreamInv
  <1>3. HandInv'
    BY <1>1 DEF ReportInv, HandInv
  <1>4. Reaped' = Reaped
    BY DEF Reaped
  <1>5. Joined \subseteq Joined'
    BY <1>1, <1>4 DEF Joined
  <1>6. Cardinality(Joined) <= Cardinality(Joined')
    BY <1>5, JoinedFinite, FS_Subset
  <1>7. report.drained \in Nat
    BY DEF TypeOK
  <1>8. report'.drained <= Cardinality(Joined')
    BY <1>6, <1>7, JoinedFinite DEF ReportInv, ReapInv
  <1>9. ReapInv'
    BY <1>1, <1>4, <1>8 DEF ReportInv, ReapInv
  <1> QED
    BY <1>2, <1>3, <1>9 DEF ReportInv

\* A step of the loop before the drain, or into it, has reaped nothing.
LEMMA NothingReaped ==
    ASSUME TypeOK, TypeOK', ReportInv, UNCHANGED report,
           loop \notin {"poll", "unfinished", "returned"},
           loop' \notin {"unfinished", "returned"}
    PROVE  ReapInv'
  <1>1. report.drained \in Nat /\ report.abandoned \in Nat /\ Reaped = 0
    BY DEF TypeOK, ReportInv, ReapInv
  <1>2. report.drained = 0 /\ Reaped' = 0
    BY <1>1 DEF Reaped
  <1>3. Len(handles') \in Nat
    BY DEF TypeOK
  <1> QED
    BY <1>2, <1>3, JoinedFinite DEF ReapInv

\* A step that changes no thread and starts none.
LEMMA SameThreads ==
    ASSUME StreamInv, ReportInv, UNCHANGED handles,
           \A c \in Conns : \/ phase'[c] = phase[c]
                            \/ phase[c] \notin ThreadPhases /\ phase'[c] \notin ThreadPhases
    PROVE  HandlesInv'
  BY DEF StreamInv, ReportInv, HandlesInv

\* Every step keeps the correspondence of handles and threads.
LEMMA ReportStep == ServerInv /\ ServerInv' /\ ReportInv /\ [Next]_vars => ReportInv'
  <1> SUFFICES ASSUME ServerInv, ServerInv', ReportInv, [Next]_vars PROVE ReportInv'
    OBVIOUS
  <1>a. TypeOK /\ TypeOK' /\ StreamInv /\ QueueInv
    BY DEF ServerInv, ShapeInv
  <1>b. "queued" \notin ThreadPhases /\ "accepted" \notin ThreadPhases
        /\ "unopened" \notin ThreadPhases /\ "dropped" \notin ThreadPhases
    BY DEF ThreadPhases, HoldsSlot, Serving, Reading
  <1>c. Len(handles) \in Nat
    BY <1>a DEF TypeOK
  <1>1. ASSUME NEW c \in Conns, Connect(c) PROVE ReportInv'
    BY <1>1, <1>a, LoopIdle DEF Connect, TypeOK
  <1>2. ASSUME NEW k \in Callers, StoreFlag(k) \/ Wake(k) PROVE ReportInv'
    BY <1>2, <1>a, LoopIdle DEF StoreFlag, Wake
  <1>3. CASE Accept
    <2>1. queue # <<>> /\ 1 \in 1..Len(queue) /\ Head(queue) = queue[1]
      BY <1>3, <1>a DEF Accept, TypeOK
    <2>2. Head(queue) \in Conns => phase[Head(queue)] = "queued"
      BY <1>a, <2>1 DEF QueueInv
    <2>3. HandlesInv'
      BY <1>3, <1>a, <1>b, <2>2, SameThreads DEF Accept
    <2>4. HandInv'
      BY <1>3, <2>2 DEF Accept, ReportInv, HandInv
    <2> QED
      BY <1>3, <1>a, <2>3, <2>4, NothingReaped DEF Accept, ReportInv
  <1>4. CASE AcceptFails
    <2>1. HandlesInv'
      BY <1>4, <1>a, SameThreads DEF AcceptFails
    <2>2. HandInv'
      BY <1>4 DEF AcceptFails, ReportInv, HandInv
    <2> QED
      BY <1>4, <1>a, <2>1, <2>2, NothingReaped DEF AcceptFails, ReportInv
  <1>5. ASSUME DropStream, loop' \in {"accept", "poll"}, UNCHANGED <<handles, report>>,
               loop \notin {"poll", "unfinished", "returned"}
        PROVE  ReportInv'
    <2>1. stream \in Conns => phase[stream] = "accepted"
      BY <1>a DEF StreamInv
    <2>2. HandlesInv'
      BY <1>5, <1>a, <1>b, <2>1, SameThreads DEF DropStream
    <2>3. HandInv'
      BY <1>5 DEF DropStream, ReportInv, HandInv
    <2> QED
      BY <1>5, <1>a, <2>2, <2>3, NothingReaped DEF ReportInv
  <1>6. ASSUME UNCHANGED <<stream, phase, handles, report>>,
               loop \in {"check", "load", "admit"},
               loop' \in {"accept", "load", "admit", "spawn"},
               loop' = "accept" => stream = AcceptError
        PROVE  ReportInv'
    <2>1. HandlesInv'
      BY <1>6, <1>a, SameThreads
    <2>2. HandInv'
      BY <1>6 DEF ReportInv, HandInv
    <2> QED
      BY <1>6, <1>a, <2>1, <2>2, NothingReaped DEF ReportInv
  <1>7. CASE CheckFlag \/ LoadActive \/ FetchAdd \/ SpawnFails
    BY <1>5, <1>6, <1>7 DEF CheckFlag, LoadActive, FetchAdd, SpawnFails
  <1>8. CASE Spawn
    <2>1. stream \in Conns /\ phase[stream] = "accepted"
      BY <1>8, <1>a DEF StreamInv, Spawn
    <2>2. /\ Len(handles') = Len(handles) + 1
          /\ \A i \in 1..Len(handles) : handles'[i] = handles[i]
          /\ handles'[Len(handles) + 1] = stream
          /\ \A i \in 1..Len(handles') : i \in 1..Len(handles) \/ i = Len(handles) + 1
          /\ \A i \in 1..Len(handles) : i \in 1..Len(handles')
          /\ Len(handles) + 1 \in 1..Len(handles')
      <3>1. handles \in Seq(Conns \cup Callers) /\ handles' = Append(handles, stream)
        BY <1>8, <1>a DEF TypeOK, Spawn
      <3> QED
        BY <2>1, <3>1
    <2>3. \A c \in Conns : phase'[c] = IF c = stream THEN "derive" ELSE phase[c]
      BY <1>8 DEF Spawn
    <2>4. "derive" \in ThreadPhases
      BY DEF ThreadPhases, HoldsSlot, Serving
    <2>5. \A i \in 1..Len(handles) : handles[i] \in Conns /\ handles[i] # stream
      BY <1>a, <1>b, <2>1 DEF StreamInv, ReportInv, HandlesInv
    <2>6. HandlesInv'
      <3>1. \A i \in 1..Len(handles') : phase'[handles'[i]] \in ThreadPhases
        BY <2>1, <2>2, <2>3, <2>4, <2>5 DEF ReportInv, HandlesInv
      <3>2. \A i, j \in 1..Len(handles') : handles'[i] = handles'[j] => i = j
        BY <2>2, <2>5 DEF ReportInv, HandlesInv
      <3>3. \A c \in Conns : phase'[c] \in ThreadPhases =>
                \E i \in 1..Len(handles') : handles'[i] = c
        BY <2>2, <2>3 DEF ReportInv, HandlesInv
      <3> QED
        BY <3>1, <3>2, <3>3 DEF HandlesInv
    <2>7. HandInv'
      BY <1>8, <2>3 DEF Spawn, ReportInv, HandInv
    <2> QED
      BY <1>8, <1>a, <2>6, <2>7, NothingReaped DEF Spawn, ReportInv
  <1>9. CASE Poll
    <2> DEFINE c == handles[Reaped + 1]
    <2>1. report = [drained |-> report.drained, abandoned |-> report.abandoned]
          /\ report.drained \in Nat /\ report.abandoned \in Nat
      BY <1>a DEF TypeOK
    <2>2. Reaped \in Nat /\ Reaped < Len(handles) /\ Reaped + 1 \in 1..Len(handles)
      BY <1>9, <1>c, <2>1 DEF Poll, Reaped
    <2>3. HandlesInv' /\ HandInv'
      BY <1>9 DEF Poll, ReportInv, HandlesInv, HandInv
    <2>4. CASE phase[c] = "finished"
      <3>1. /\ report'.drained = report.drained + 1
            /\ report'.abandoned = report.abandoned
            /\ loop' = "poll" /\ phase' = phase /\ handles' = handles
        BY <1>9, <2>1, <2>4 DEF Poll
      <3>2. Reaped' = Reaped + 1
        BY <2>1, <3>1 DEF Reaped
      <3>3. c \in Conns
        BY <1>a, <2>2 DEF StreamInv
      <3>4. c \notin Joined
        <4> SUFFICES ASSUME c \in Joined PROVE FALSE
          OBVIOUS
        <4>1. PICK i \in 1..Reaped : handles[i] = c
          BY DEF Joined
        <4>2. i \in 1..Len(handles) /\ i # Reaped + 1
          BY <2>2, <1>c
        <4> QED
          BY <2>2, <4>1, <4>2 DEF ReportInv, HandlesInv
      <3>5. Joined' = Joined \cup {c}
        <4>1. \A i : i \in 1..Reaped' <=> i \in 1..Reaped \/ i = Reaped + 1
          BY <2>2, <3>2
        <4> QED
          BY <2>4, <3>1, <3>3, <4>1 DEF Joined
      <3>6. Cardinality(Joined') = Cardinality(Joined) + 1
        BY <3>4, <3>5, JoinedFinite, FS_AddElement
      <3>7. report'.drained <= Cardinality(Joined')
        BY <2>1, <3>1, <3>6, JoinedFinite DEF ReportInv, ReapInv
      <3>8. Reaped' <= Len(handles')
        BY <1>c, <2>2, <3>1, <3>2
      <3>9. ReapInv'
        BY <3>1, <3>7, <3>8 DEF ReapInv
      <3> QED
        BY <2>3, <3>9 DEF ReportInv
    <2>5. CASE phase[c] # "finished"
      <3>1. UNCHANGED <<report, phase, handles>> /\ loop' = "unfinished"
        BY <1>9, <2>5 DEF Poll
      <3>2. Reaped' = Reaped /\ Joined' = Joined
        BY <3>1 DEF Reaped, Joined
      <3>3. ReapInv'
        BY <2>2, <3>1, <3>2 DEF ReportInv, ReapInv
      <3> QED
        BY <2>3, <3>3 DEF ReportInv
    <2> QED
      BY <2>4, <2>5
  <1>10. CASE CheckDeadline
    <2>1. report = [drained |-> report.drained, abandoned |-> report.abandoned]
          /\ report.drained \in Nat /\ report.abandoned \in Nat
      BY <1>a DEF TypeOK
    <2>2. Reaped \in Nat /\ Reaped < Len(handles)
      BY <1>10, <2>1 DEF CheckDeadline, Reaped, ReportInv, ReapInv
    <2>3. HandlesInv' /\ HandInv'
      BY <1>10 DEF CheckDeadline, ReportInv, HandlesInv, HandInv
    <2>4. /\ report'.drained = report.drained
          /\ report'.abandoned \in {report.abandoned, report.abandoned + 1}
          /\ loop' = "poll" /\ phase' = phase /\ handles' = handles
      BY <1>10, <2>1 DEF CheckDeadline
    <2>5. Reaped' \in {Reaped, Reaped + 1}
      BY <2>1, <2>4 DEF Reaped
    <2>6. Joined \subseteq Joined'
      <3>1. \A i \in 1..Reaped : i \in 1..Reaped'
        BY <2>2, <2>5
      <3> QED
        BY <2>4, <3>1 DEF Joined
    <2>7. Cardinality(Joined) <= Cardinality(Joined')
      BY <2>6, JoinedFinite, FS_Subset
    <2>8. report'.drained <= Cardinality(Joined')
      BY <2>1, <2>4, <2>7, JoinedFinite DEF ReportInv, ReapInv
    <2>9. Reaped' <= Len(handles')
      BY <1>c, <2>2, <2>4, <2>5
    <2>10. ReapInv'
      BY <2>4, <2>8, <2>9 DEF ReapInv
    <2> QED
      BY <2>3, <2>10 DEF ReportInv
  <1>11. CASE Return
    <2>1. UNCHANGED <<handles, report, stream>> /\ loop' = "returned"
      BY <1>11 DEF Return
    <2>2. \A c \in Conns : phase'[c] = IF phase[c] = "queued" THEN "dropped" ELSE phase[c]
      BY <1>11 DEF Return
    <2>3. HandlesInv'
      BY <1>a, <1>b, <2>1, <2>2, SameThreads
    <2>4. HandInv'
      BY <1>11, <2>1, <2>2 DEF Return, ReportInv, HandInv
    <2>5. Reaped' = Reaped /\ Reaped = Len(handles)
      BY <1>11, <2>1 DEF Return, Reaped
    <2>6. Joined' = Joined
      BY <2>1, <2>2, <2>5 DEF Joined
    <2>7. ReapInv'
      BY <2>1, <2>2, <2>5, <2>6 DEF ReportInv, ReapInv
    <2> QED
      BY <2>3, <2>4, <2>7 DEF ReportInv
  <1>12. CASE Tick
    BY <1>12, <1>a, LoopIdle DEF Tick
  <1>13. ASSUME NEW c \in Conns, Thread(c) \/ Client(c), ~Connect(c) PROVE ReportInv'
    <2>1. UNCHANGED loop_vars
      BY <1>13 DEF Thread, Client, GiveUp, DerivePeer, ReadTimesOut, Decode, Handle,
                   Send, ReleaseSlot, ThreadEnds, ReadChunk, ReadHeader, ReadBody,
                   ReadEof, ReadInterrupted, ReadFails
    <2>2. \/ phase' = phase
          \/ /\ phase[c] \in HoldsSlot \cup {"released"}
             /\ \E label \in ThreadPhases : Goto(c, label)
      <3> USE DEF ThreadPhases, HoldsSlot, Serving, Reading
      <3>1. CASE GiveUp(c) \/ DerivePeer(c) \/ ReadTimesOut(c) \/ Decode(c) \/ Handle(c)
        BY <3>1 DEF GiveUp, DerivePeer, ReadTimesOut, Decode, Handle, Close, Answer,
                    BeginRead
      <3>2. CASE Send(c) \/ ReleaseSlot(c) \/ ThreadEnds(c) \/ ReadChunk(c)
              \/ ReadInterrupted(c)
        BY <3>2 DEF Send, ReleaseSlot, ThreadEnds, ReadChunk, ReadInterrupted, Close
      <3>3. CASE ReadHeader(c) \/ ReadBody(c) \/ ReadEof(c) \/ ReadFails(c)
        BY <3>3 DEF ReadHeader, ReadBody, ReadEof, ReadFails, Close, Answer, BeginRead
      <3> QED
        BY <1>13, <3>1, <3>2, <3>3 DEF Thread, Client
    <2>3. "finished" \notin HoldsSlot \cup {"released"}
      BY DEF HoldsSlot, Serving, Reading
    <2>4. \A d \in Conns : \/ phase'[d] = phase[d]
                           \/ /\ phase[d] \in ThreadPhases \ {"finished"}
                              /\ phase'[d] \in ThreadPhases
      BY <1>a, <2>2, <2>3 DEF Goto, TypeOK, ThreadPhases
    <2> QED
      BY <1>a, <2>1, <2>4, LoopIdle
  <1>14. CASE UNCHANGED vars
    BY <1>14, <1>a, LoopIdle DEF vars, loop_vars
  <1> QED
    BY <1>1, <1>2, <1>3, <1>4, <1>7, <1>8, <1>9, <1>10, <1>11, <1>12, <1>13, <1>14
       DEF Next, Loop

\* When run returns, its report counts every thread the loop ever started
\* once, counts as drained only threads that have finished, and no connection
\* is left waiting: for every number of connections and every interleaving of
\* the drain with the threads it waits for.
THEOREM ReportIsComplete == Spec => []ReportAddsUp
  <1>1. Init => ReportInv
    <2> SUFFICES ASSUME Init PROVE ReportInv
      OBVIOUS
    <2>1. Len(handles) = 0 /\ Reaped = 0 /\ report.drained = 0
      BY DEF Init, Reaped
    <2>2. HandlesInv /\ HandInv
      BY <2>1 DEF Init, HandlesInv, HandInv, ThreadPhases, HoldsSlot, Serving, Reading
    <2>3. ReapInv
      BY <2>1, JoinedFinite DEF Init, ReapInv
    <2> QED
      BY <2>2, <2>3 DEF ReportInv
  <1>2. ServerInv /\ ServerInv' /\ ReportInv /\ [Next]_vars => ReportInv'
    BY ReportStep
  <1>3. ServerInv /\ ReportInv => ReportAddsUp
    <2> SUFFICES ASSUME ServerInv, ReportInv, loop = "returned"
                 PROVE  /\ Reaped = Len(handles)
                        /\ report.drained <= Cardinality({c \in Conns : phase[c] = "finished"})
                        /\ Cardinality({c \in Conns : phase[c] \in ThreadPhases})
                               = Len(handles)
                        /\ \A c \in Conns : phase[c] \notin {"queued", "accepted"}
      BY DEF ReportAddsUp
    <2> DEFINE done == {c \in Conns : phase[c] = "finished"}
               threads == {c \in Conns : phase[c] \in ThreadPhases}
    <2>1. Reaped = Len(handles)
      BY DEF ReportInv, ReapInv
    <2>2. \A c \in Conns : phase[c] \notin {"queued", "accepted"}
      <3>1. stream = NoStream
        BY DEF ReportInv, HandInv
      <3>2. NoStream \notin Conns
        BY ServerAssumption
      <3> QED
        BY <3>1, <3>2 DEF ReportInv, HandInv, ReapInv
    <2>3. Joined \subseteq done /\ IsFiniteSet(done)
      BY FS_Subset DEF Joined
    <2>4. Cardinality(Joined) <= Cardinality(done) /\ Cardinality(done) \in Nat
      BY <2>3, FS_Subset, FS_CardinalityType
    <2>5. report.drained <= Cardinality(done)
      BY <2>4, JoinedFinite DEF ReportInv, ReapInv, ServerInv, TypeOK
    <2>6. Cardinality(threads) = Len(handles)
      <3>1. Len(handles) \in Nat /\ handles \in [1..Len(handles) -> threads]
        BY DEF ServerInv, TypeOK, ShapeInv, StreamInv, ReportInv, HandlesInv
      <3>2. handles \in Bijection(1..Len(handles), threads)
        BY <3>1 DEF ReportInv, HandlesInv, Bijection, Injection, Surjection, IsInjective
      <3>3. IsFiniteSet(1..Len(handles)) /\ Cardinality(1..Len(handles)) = Len(handles)
        BY <3>1, FS_Interval
      <3>4. ExistsBijection(1..Len(handles), threads)
        BY <3>2 DEF ExistsBijection
      <3> QED
        BY <3>3, <3>4, FS_Bijection
    <2> QED
      BY <2>1, <2>2, <2>5, <2>6
  <1> QED
    BY <1>1, <1>2, <1>3, ServerInvariant, PTL DEF Spec
=============================================================================
