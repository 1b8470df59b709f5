----------------------------- MODULE AgentServer -----------------------------
(***************************************************************************)
(* The accept loop of eltanin-agentd, its connection threads and its       *)
(* shutdown: `AgentServer::run`, `drain`, `ShutdownHandle::shutdown` and   *)
(* `serve_connection`.                                                     *)
(*                                                                         *)
(* Three kinds of threads run: the one accept loop, which ends by          *)
(* draining; one thread per admitted connection; and the threads that call *)
(* `shutdown()`, each of which stores the flag and then connects to the    *)
(* agent's own socket to wake `accept`.  `Handler::handle` is one step of  *)
(* a connection thread here; LeaseAuthority models what happens inside it. *)
(*                                                                         *)
(* Time is counted by countdowns: what is left of a blocked read's         *)
(* io_timeout, and what is left of the drain.  A frame is HeaderChunks     *)
(* reads for its length and BodyChunks for its body.                       *)
(***************************************************************************)
EXTENDS Integers, FiniteSets, Sequences

CONSTANTS
    Conns,              \* connections that clients may open
    Callers,            \* threads that may call ShutdownHandle::shutdown
    MaxConnections,     \* AgentConfig::max_connections
    IoTimeout,          \* AgentConfig::io_timeout
    DrainTimeout,       \* AgentConfig::drain_timeout
    HeaderChunks,       \* bound: reads that deliver a length header
    BodyChunks          \* bound: reads that deliver a body

NoStream == "NoStream"
AcceptError == "AcceptError"

ASSUME ServerAssumption ==
    /\ IsFiniteSet(Conns)
    /\ Conns \cap Callers = {}
    /\ {NoStream, AcceptError} \cap (Conns \cup Callers) = {}
    /\ MaxConnections \in Nat
    /\ IoTimeout \in Nat
    /\ DrainTimeout \in Nat
    /\ HeaderChunks \in Nat \ {0}
    /\ BodyChunks \in Nat

VARIABLES
    flag,       \* shutdown_flag
    caller,     \* per caller: how far shutdown() has come
    queue,      \* connections waiting in the listener's backlog
    loop,       \* where the accept-loop thread is
    stream,     \* what accept returned last
    active,     \* the AtomicUsize of occupied slots
    handles,    \* connection_threads
    report,     \* ShutdownReport
    left,       \* what is left of drain_timeout
    phase,      \* per connection: where it is
    got,        \* per connection: chunks of the current buffer read
    patience,   \* per connection: what is left of io_timeout in this read
    reply       \* per connection: the answer about to be sent

loop_vars == <<loop, stream, handles, report>>
conn_vars == <<got, patience, reply>>
vars == <<flag, caller, queue, loop, stream, active, handles, report, left,
          phase, got, patience, reply>>

Replies ==
    [code : {"Internal", "MalformedRequest", "Oversized", "UnsupportedVersion",
             "Response"},
     id : {"None", "Echoed"}]

NoReply == [code |-> "None", id |-> "None"]

Reading == {"header", "body"}
\* Inside serve_connection.
Serving == Reading \cup {"derive", "decode", "handle", "send"}
\* The thread exists and its SlotGuard does.
HoldsSlot == Serving \cup {"closing"}
ThreadPhases == HoldsSlot \cup {"released", "finished"}
Phases == ThreadPhases \cup {"unopened", "queued", "accepted", "dropped"}

Init ==
    /\ flag = FALSE
    /\ caller = [k \in Callers |-> "ready"]
    /\ queue = <<>>
    /\ loop = "accept"
    /\ stream = NoStream
    /\ active = 0
    /\ handles = <<>>
    /\ report = [drained |-> 0, abandoned |-> 0]
    /\ left = DrainTimeout
    /\ phase = [c \in Conns |-> "unopened"]
    /\ got = [c \in Conns |-> 0]
    /\ patience = [c \in Conns |-> IoTimeout]
    /\ reply = [c \in Conns |-> NoReply]

-----------------------------------------------------------------------------
(* Clients and callers of shutdown() *)

Connect(c) ==
    /\ phase[c] = "unopened"
    /\ loop # "returned"
    /\ phase' = [phase EXCEPT ![c] = "queued"]
    /\ queue' = Append(queue, c)
    /\ UNCHANGED <<flag, caller, loop_vars, active, left, conn_vars>>

StoreFlag(k) ==
    /\ caller[k] = "ready"
    /\ caller' = [caller EXCEPT ![k] = "stored"]
    /\ flag' = TRUE
    /\ UNCHANGED <<queue, loop_vars, active, left, phase, conn_vars>>

\* Fault: the flag alone is relied on.
NoWake(k) ==
    /\ caller[k] = "stored"
    /\ caller' = [caller EXCEPT ![k] = "done"]
    /\ UNCHANGED <<flag, queue, loop_vars, active, left, phase, conn_vars>>

\* The self-connect.  BoundSocket is dropped when run returns; from then on
\* the connect fails, which shutdown() ignores.
Wake(k) ==
    /\ caller[k] = "stored"
    /\ caller' = [caller EXCEPT ![k] = "done"]
    /\ queue' = IF loop = "returned" THEN queue ELSE Append(queue, k)
    /\ UNCHANGED <<flag, loop_vars, active, left, phase, conn_vars>>

-----------------------------------------------------------------------------
(* The accept loop *)

\* Closing the stream in hand, if it is a client's.
DropStream ==
    /\ phase' = [c \in Conns |-> IF c = stream THEN "dropped" ELSE phase[c]]
    /\ stream' = NoStream

Accept ==
    /\ loop = "accept"
    /\ queue # <<>>
    /\ stream' = Head(queue)
    /\ queue' = Tail(queue)
    /\ phase' = [c \in Conns |->
                    IF c = Head(queue) THEN "accepted" ELSE phase[c]]
    /\ loop' = "check"
    /\ UNCHANGED <<flag, caller, active, handles, report, left, conn_vars>>

\* accept() fails, for lack of descriptors say; the flag is looked at first.
AcceptFails ==
    /\ loop = "accept"
    /\ stream' = AcceptError
    /\ loop' = "check"
    /\ UNCHANGED <<flag, caller, queue, active, handles, report, left, phase,
                   conn_vars>>

CheckFlag ==
    /\ loop = "check"
    /\ \/ /\ flag
          /\ DropStream
          /\ left' = DrainTimeout
          /\ loop' = "poll"
       \/ /\ ~flag
          /\ loop' = IF stream = AcceptError THEN "accept" ELSE "load"
          /\ UNCHANGED <<stream, left, phase>>
    /\ UNCHANGED <<flag, caller, queue, active, handles, report, conn_vars>>

\* Over capacity the connection is closed without an answer.
LoadActive ==
    /\ loop = "load"
    /\ \/ /\ active >= MaxConnections
          /\ DropStream
          /\ loop' = "accept"
       \/ /\ active < MaxConnections
          /\ loop' = "admit"
          /\ UNCHANGED <<stream, phase>>
    /\ UNCHANGED <<flag, caller, queue, active, handles, report, left, conn_vars>>

FetchAdd ==
    /\ loop = "admit"
    /\ active' = active + 1
    /\ loop' = "spawn"
    /\ UNCHANGED <<flag, caller, queue, stream, handles, report, left, phase,
                   conn_vars>>

Spawn ==
    /\ loop = "spawn"
    /\ phase' = [c \in Conns |-> IF c = stream THEN "derive" ELSE phase[c]]
    /\ handles' = Append(handles, stream)
    /\ stream' = NoStream
    /\ loop' = "accept"
    /\ UNCHANGED <<flag, caller, queue, active, report, left, conn_vars>>

\* Fault: the slot taken for a thread that was not created is kept.
SpawnFailsKeepingSlot ==
    /\ loop = "spawn"
    /\ DropStream
    /\ loop' = "accept"
    /\ UNCHANGED <<flag, caller, queue, active, handles, report, left, conn_vars>>

\* thread::spawn panics; the panic is caught and the slot given back.
SpawnFails ==
    /\ loop = "spawn"
    /\ active' = active - 1
    /\ DropStream
    /\ loop' = "accept"
    /\ UNCHANGED <<flag, caller, queue, handles, report, left, conn_vars>>

-----------------------------------------------------------------------------
(* drain: handles are joined in order, looking at each until it is finished *)
(* or the deadline has passed                                              *)

Reaped == report.drained + report.abandoned

\* Fault: a thread is counted as drained without asking whether it finished.
PollUnconditionally ==
    /\ loop = "poll"
    /\ Reaped < Len(handles)
    /\ report' = [report EXCEPT !.drained = @ + 1]
    /\ UNCHANGED <<flag, caller, queue, loop, stream, active, handles, left,
                   phase, conn_vars>>

Poll ==
    /\ loop = "poll"
    /\ Reaped < Len(handles)
    /\ IF phase[handles[Reaped + 1]] = "finished"
           THEN /\ report' = [report EXCEPT !.drained = @ + 1]
                /\ UNCHANGED loop
           ELSE /\ loop' = "unfinished"
                /\ UNCHANGED report
    /\ UNCHANGED <<flag, caller, queue, stream, active, handles, left, phase,
                   conn_vars>>

\* The clock is read after is_finished answered; otherwise sleep and poll.
CheckDeadline ==
    /\ loop = "unfinished"
    /\ report' = IF left = 0 THEN [report EXCEPT !.abandoned = @ + 1] ELSE report
    /\ loop' = "poll"
    /\ UNCHANGED <<flag, caller, queue, stream, active, handles, left, phase,
                   conn_vars>>

\* run returns and drops the listener: the backlog is closed with it.
Return ==
    /\ loop = "poll"
    /\ Reaped = Len(handles)
    /\ loop' = "returned"
    /\ queue' = <<>>
    /\ phase' = [c \in Conns |-> IF phase[c] = "queued" THEN "dropped"
                                 ELSE phase[c]]
    /\ UNCHANGED <<flag, caller, stream, active, handles, report, left, conn_vars>>

-----------------------------------------------------------------------------
(* Connection threads: serve_connection *)

Goto(c, label) == phase' = [phase EXCEPT ![c] = label]

\* read_full is entered with an empty buffer and left for another step.
BeginRead(c, label) ==
    /\ Goto(c, label)
    /\ got' = [got EXCEPT ![c] = 0]
    /\ patience' = [patience EXCEPT ![c] = IoTimeout]
    /\ UNCHANGED reply

EndRead(c) ==
    /\ got' = [got EXCEPT ![c] = 0]
    /\ patience' = [patience EXCEPT ![c] = IoTimeout]

Answer(c, code, id) ==
    /\ reply' = [reply EXCEPT ![c] = [code |-> code, id |-> id]]
    /\ Goto(c, "send")
    /\ EndRead(c)

\* serve_connection returns, or unwinds into the thread's catch_unwind: the
\* stream is closed, the slot is still held.
Close(c) ==
    /\ reply' = [reply EXCEPT ![c] = NoReply]
    /\ Goto(c, "closing")
    /\ EndRead(c)

\* The timeouts cannot be set (a zero io_timeout is refused), or derive
\* panics: no answer.
GiveUp(c) ==
    /\ phase[c] = "derive"
    /\ Close(c)
    /\ UNCHANGED <<flag, caller, queue, loop_vars, active, left>>

DerivePeer(c) ==
    /\ phase[c] = "derive"
    /\ IoTimeout > 0
    /\ BeginRead(c, "header") \/ Answer(c, "Internal", "None")
    /\ UNCHANGED <<flag, caller, queue, loop_vars, active, left>>

BufferLength(c) == IF phase[c] = "header" THEN HeaderChunks ELSE BodyChunks

\* A read that delivers bytes, but not all: the next read has the whole of
\* io_timeout again.
ReadChunk(c) ==
    /\ phase[c] \in Reading
    /\ got[c] + 1 < BufferLength(c)
    /\ got' = [got EXCEPT ![c] = @ + 1]
    /\ patience' = [patience EXCEPT ![c] = IoTimeout]
    /\ UNCHANGED <<flag, caller, queue, loop_vars, active, left, phase, reply>>

\* A read interrupted by a signal is made again: nothing was delivered, and
\* the new read has the whole of io_timeout.
ReadInterrupted(c) ==
    /\ phase[c] \in Reading
    /\ patience' = [patience EXCEPT ![c] = IoTimeout]
    /\ UNCHANGED <<flag, caller, queue, loop_vars, active, left, phase, got,
                   reply>>

\* The length is known; a body of no bytes is complete without a read.
ReadHeader(c) ==
    /\ phase[c] = "header"
    /\ got[c] + 1 = HeaderChunks
    /\ \/ Answer(c, "Oversized", "None")
       \/ BodyChunks > 0 /\ BeginRead(c, "body")
       \/ Goto(c, "decode") /\ EndRead(c) /\ UNCHANGED reply
    /\ UNCHANGED <<flag, caller, queue, loop_vars, active, left>>

ReadBody(c) ==
    /\ phase[c] = "body"
    /\ got[c] + 1 = BodyChunks
    /\ Goto(c, "decode")
    /\ EndRead(c)
    /\ UNCHANGED <<flag, caller, queue, loop_vars, active, left, reply>>

\* Ok(0): a close before the first byte of the header is not an error.
ReadEof(c) ==
    /\ phase[c] \in Reading
    /\ IF phase[c] = "header" /\ got[c] = 0
           THEN Close(c)
           ELSE Answer(c, "MalformedRequest", "None")
    /\ UNCHANGED <<flag, caller, queue, loop_vars, active, left>>

\* Fault: no read timeout is set on the stream.
ReadNeverTimesOut(c) ==
    /\ FALSE
    /\ UNCHANGED vars

ReadTimesOut(c) ==
    /\ phase[c] \in Reading
    /\ patience[c] = 0
    /\ Answer(c, "MalformedRequest", "None")
    /\ UNCHANGED <<flag, caller, queue, loop_vars, active, left>>

\* A read that fails at once, on a connection the client reset say.
ReadFails(c) ==
    /\ phase[c] \in Reading
    /\ Answer(c, "MalformedRequest", "None")
    /\ UNCHANGED <<flag, caller, queue, loop_vars, active, left>>

\* The id of a frame that does not decode is echoed if it can be peeked at.
\* A third failure, Oversized, cannot happen: ReadHeader bounds the body.
Decode(c) ==
    /\ phase[c] = "decode"
    /\ \/ Goto(c, "handle") /\ UNCHANGED conn_vars
       \/ \E code \in {"UnsupportedVersion", "MalformedRequest"},
             id \in {"None", "Echoed"} : Answer(c, code, id)
    /\ UNCHANGED <<flag, caller, queue, loop_vars, active, left>>

\* Fault: the panic of a handler is not caught around the handler.
HandleUncaught(c) ==
    /\ phase[c] = "handle"
    /\ Answer(c, "Response", "Echoed") \/ Close(c)
    /\ UNCHANGED <<flag, caller, queue, loop_vars, active, left>>

\* A panic of the handler becomes an answer.
Handle(c) ==
    /\ phase[c] = "handle"
    /\ \E code \in {"Response", "Internal"} : Answer(c, code, "Echoed")
    /\ UNCHANGED <<flag, caller, queue, loop_vars, active, left>>

\* The answer is written; or the client is gone, or does not read it within
\* io_timeout, and the failure is ignored.
Send(c) ==
    /\ phase[c] = "send"
    /\ Close(c)
    /\ UNCHANGED <<flag, caller, queue, loop_vars, active, left>>

\* SlotGuard::drop runs on every way out of the closure, before the thread
\* counts as finished.
ReleaseSlot(c) ==
    /\ phase[c] = "closing"
    /\ active' = active - 1
    /\ Goto(c, "released")
    /\ UNCHANGED <<flag, caller, queue, loop_vars, left, conn_vars>>

ThreadEnds(c) ==
    /\ phase[c] = "released"
    /\ Goto(c, "finished")
    /\ UNCHANGED <<flag, caller, queue, loop_vars, active, left, conn_vars>>

-----------------------------------------------------------------------------
(* Time passes for every read and for the drain; a read whose time is up   *)
(* returns before more time passes                                         *)

Decremented(n) == IF n = 0 THEN 0 ELSE n - 1

Tick ==
    LET Blocked == {c \in Conns : phase[c] \in Reading}
    IN  /\ \A c \in Blocked : patience[c] > 0
        /\ patience' = [c \in Conns |-> IF c \in Blocked THEN patience[c] - 1
                                        ELSE patience[c]]
        /\ left' = IF loop \in {"poll", "unfinished"} THEN Decremented(left)
                   ELSE left
        /\ UNCHANGED <<flag, caller, queue, loop_vars, active, phase, got, reply>>

-----------------------------------------------------------------------------

Loop ==
    \/ Accept \/ CheckFlag \/ LoadActive \/ FetchAdd \/ Spawn \/ SpawnFails
    \/ Poll \/ CheckDeadline \/ Return

\* What the thread of a connection does by itself, and what its client does.
Thread(c) ==
    \/ GiveUp(c) \/ DerivePeer(c) \/ ReadTimesOut(c) \/ Decode(c) \/ Handle(c)
    \/ Send(c) \/ ReleaseSlot(c) \/ ThreadEnds(c)

Client(c) ==
    \/ Connect(c) \/ ReadChunk(c) \/ ReadHeader(c) \/ ReadBody(c) \/ ReadEof(c)
    \/ ReadInterrupted(c) \/ ReadFails(c)

Next ==
    \/ Loop
    \/ AcceptFails
    \/ \E k \in Callers : StoreFlag(k) \/ Wake(k)
    \/ \E c \in Conns : Thread(c) \/ Client(c)
    \/ Tick

Spec == Init /\ [][Next]_vars

\* The accept-loop thread runs, a shutdown() that began ends, time passes
\* and blocked reads time out.  Handlers and clients may hang for ever.
ShutdownSpec ==
    /\ Spec
    /\ WF_vars(Loop)
    /\ WF_vars(Tick)
    /\ \A k \in Callers : WF_vars(Wake(k))
    /\ \A c \in Conns : WF_vars(ReadTimesOut(c))

\* Connection threads run too, and handlers return.  Clients may hang.
ThreadsRun == \A c \in Conns : WF_vars(Thread(c))

-----------------------------------------------------------------------------
(* Properties *)

\* Type invariant.
TypeOK ==
    /\ flag \in BOOLEAN
    /\ caller \in [Callers -> {"ready", "stored", "done"}]
    /\ queue \in Seq(Conns \cup Callers)
    /\ loop \in {"accept", "check", "load", "admit", "spawn", "poll",
                 "unfinished", "returned"}
    /\ stream \in Conns \cup Callers \cup {NoStream, AcceptError}
    /\ active \in Nat
    /\ handles \in Seq(Conns \cup Callers)
    /\ report \in [drained : Nat, abandoned : Nat]
    /\ left \in 0..DrainTimeout
    /\ phase \in [Conns -> Phases]
    /\ got \in [Conns -> Nat]
    /\ patience \in [Conns -> 0..IoTimeout]
    /\ reply \in [Conns -> Replies \cup {NoReply}]

SlotHolders == {c \in Conns : phase[c] \in HoldsSlot}

\* Slot accounting (server.rs fetch_add, SlotGuard, failed spawns): the
\* counter is exactly the number of connection threads that have not dropped
\* their guard, plus the slot the loop has just taken; so the counter never
\* drifts, whatever threads panic, fail to start or end while the loop is
\* between its load and its fetch_add.
SlotAccounting ==
    active = Cardinality(SlotHolders) + (IF loop = "spawn" THEN 1 ELSE 0)

\* No more than max_connections connections are served at a time, although
\* the load and the fetch_add of the counter are two operations.
ServedBound == Cardinality({c \in Conns : phase[c] \in Serving}) <= MaxConnections

\* shutdown(): the connection that wakes accept is never dispatched to a
\* handler (server.rs: "breaks before this connection is ever dispatched"),
\* with any number of concurrent callers.
WakeNeverServed == \A i \in 1..Len(handles) : handles[i] \notin Callers

\* Shutdown report (drain): every thread the loop ever started is reported
\* once, as drained only if it has finished, and nothing is left to start.
ReportAddsUp ==
    loop = "returned" =>
        /\ Reaped = Len(handles)
        /\ report.drained <= Cardinality({c \in Conns : phase[c] = "finished"})
        /\ Cardinality({c \in Conns : phase[c] \in ThreadPhases}) = Len(handles)
        /\ \A c \in Conns : phase[c] \notin {"queued", "accepted"}

\* serve_connection, catch_unwind around the handler: a request handed to the
\* handler is answered with its own id, even when the handler panics.
HandledIsAnswered ==
    ThreadsRun =>
        \A c \in Conns :
            (phase[c] = "handle") ~> (phase[c] = "send" /\ reply[c].id = "Echoed")

\* Shutdown completes once the flag is stored, even though no connection
\* arrives, handlers hang and clients stall (server.rs: accept has no
\* timeout, drain is capped by drain_timeout).
ShutdownCompletes == flag ~> (loop = "returned")

\* A stalled client cannot hold a connection thread for ever (connection.rs,
\* failure mapping): every thread gives its slot back, whatever its client
\* does, unless signals interrupt its reads without end.  It is not io_timeout
\* that bounds the time this takes, as server.rs has it of abandoned threads:
\* each read that delivers a byte or is interrupted starts the timeout anew,
\* and the handler is bounded by nothing.
SlotComesBack ==
    ThreadsRun =>
        \A c \in Conns :
            <>[][~ReadInterrupted(c)]_vars =>
                ((phase[c] = "derive") ~> (phase[c] = "finished"))
=============================================================================
