--------------------------- MODULE LeaseAuthority ---------------------------
(***************************************************************************)
(* The authorization core of eltanin-agentd: `AuthorizationHandler` with   *)
(* its `Mutex<LeaseState>`, the `LeaseIssuer` inside that state, and the   *)
(* enforcement a `ComputeBackend` keeps per resource.                      *)
(*                                                                         *)
(* One handler thread serves one request on one connection.  A request for *)
(* a lease takes the lock twice: once to prune, check capacity, issue and  *)
(* reserve; then, after `backend.enforce` has run WITHOUT the lock, once   *)
(* more to insert the lease or to compensate.  A release takes the lock    *)
(* once and keeps it across `backend.revoke`.  Critical sections without a *)
(* backend call are single actions; the one with a backend call is split   *)
(* at that call, and the lock is then held exactly by the thread whose pc  *)
(* is "teardown".                                                          *)
(*                                                                         *)
(* The clock is discrete; MaxTime stands for u64::MAX nanoseconds.  A      *)
(* restart is a new process: a new issuer instance, an empty store, a new  *)
(* clock epoch.                                                            *)
(***************************************************************************)
EXTENDS Integers, FiniteSets, WorkloadIdentity

CONSTANTS
    Threads,            \* connection threads that may serve at a time
    Peers,              \* PeerContexts the collector can derive
    Resources,          \* ResourceIdentity values
    Requests,           \* ComputeRequests a client may send
    Decision(_, _),     \* PolicySet::evaluate over (workload, request)
    LeaseTtl,           \* AuthorizationConfig::lease_ttl
    MaxOutstanding,     \* AuthorizationConfig::max_outstanding_leases
    MaxTime,            \* the largest MonotonicTime
    BackendPanics,      \* whether the plugged-in backend may panic
    MaxSequence,        \* bound: leases issued by one agent instance
    MaxRestarts         \* bound: agent restarts

DecisionReason ==
    {"ExplicitAllow", "ExplicitDeny", "IndeterminateEvidence", "NoMatchingRule"}

Workloads == {p.workload : p \in Peers}

ASSUME ThreadsAssumption == IsFiniteSet(Threads)

ASSUME RequestsAssumption ==
    Requests \subseteq [resource : Resources, action : {"Compute", "Unknown"}]

ASSUME DecisionAssumption ==
    \A w \in Workloads, r \in Requests : Decision(w, r) \in DecisionReason

\* AuthorizationConfig::new refuses a zero lease_ttl.
ASSUME ConfigAssumption ==
    /\ LeaseTtl \in Nat \ {0}
    /\ MaxOutstanding \in Nat
    /\ MaxTime \in Nat
    /\ BackendPanics \in BOOLEAN
    /\ MaxSequence \in Nat
    /\ MaxRestarts \in Nat

VARIABLES
    clock,          \* what Clock::now returns
    instance,       \* LeaseIssuer.instance
    next_sequence,  \* LeaseIssuer.next_sequence
    revoked,        \* LeaseIssuer.revoked
    leases,         \* LeaseState.leases
    reserved,       \* LeaseState.reserved
    enforced,       \* per resource: is enforcement installed in the backend
    pc,             \* per thread: where its handler is
    call,           \* per thread: the request being handled and its peer
    held,           \* per thread: the lease issued for it
    outcome,        \* per thread: the AuthorizationOutcome
    recorded,       \* per thread: calls of EventSink::record, up to two
    leaked          \* history: reservations that panics have left behind

issuer_vars  == <<instance, next_sequence, revoked>>
store_vars   == <<leases, reserved, leaked>>
thread_vars  == <<pc, call, held, outcome, recorded>>
vars == <<clock, instance, next_sequence, revoked, leases, reserved, enforced,
          pc, call, held, outcome, recorded, leaked>>

-----------------------------------------------------------------------------
(* Values *)

LeaseIds == [issuer : Nat, sequence : Nat]

Origins == [context : Workloads, request : Requests]

ComputeLeases ==
    [id : LeaseIds, origin : Origins, issued_at : Nat, expires_at : Nat]

NoLease == [none |-> "NoLease"]

Calls ==
    [op : {"AgentStatus"}, peer : Peers]
        \cup [op : {"RequestLease"}, peer : Peers, request : Requests]
        \cup [op : {"ReleaseLease"}, peer : Peers, lease_id : LeaseIds]

NoCall == [op |-> "None"]

LeaseErrors == {"NonPositiveTtl", "TtlExceedsMaximum", "ExpiryOverflow"}

RevocationOutcomes ==
    {"Revoked", "AlreadyRevoked", "NotIssued", "ForeignIssuer"}

LeaseValidities ==
    {"Valid", "ForeignIssuer", "Revoked", "ResourceMismatch", "ActionMismatch",
     "WorkloadMismatch", "WorkloadIndeterminate", "ExecutableMismatch",
     "Expired"}

\* AuthorizationOutcome; "Panicked" is the handler that never produced one.
Outcomes ==
    [tag : {"PeerNotAuthorizable", "CapacityExhausted", "EnforcementRefused",
            "BackendFailed", "ReleaseUnknownLease", "StatusReported",
            "Panicked", "None"}]
        \cup [tag : {"Granted"}, lease : ComputeLeases, remaining : Nat]
        \cup [tag : {"PolicyDenied"}, reason : DecisionReason]
        \cup [tag : {"LeaseIssueFailed"}, error : LeaseErrors]
        \cup [tag : {"ReleaseRefused"}, validity : LeaseValidities]
        \cup [tag : {"Released"}, lease_id : LeaseIds,
              revocation : RevocationOutcomes]

Outcome(tag) == [tag |-> tag]

\* What the client sees of an outcome: several outcomes share a response.
DenialReasonFor(reason) ==
    IF reason \in {"ExplicitDeny", "IndeterminateEvidence"}
        THEN reason
        ELSE "NoMatchingRule"

ResponseFor(op, o) ==
    CASE o.tag = "StatusReported" -> [kind |-> "Status"]
      [] o.tag = "Granted" ->
             [kind |-> "LeaseGranted", lease_id |-> o.lease.id,
              remaining |-> o.remaining]
      [] o.tag = "PolicyDenied" ->
             [kind |-> "LeaseDenied", reason |-> DenialReasonFor(o.reason)]
      [] o.tag = "PeerNotAuthorizable" /\ op = "RequestLease" ->
             [kind |-> "LeaseDenied", reason |-> "IndeterminateEvidence"]
      [] o.tag = "Released" -> [kind |-> "LeaseReleased", outcome |-> "Released"]
      [] o.tag \in {"ReleaseRefused", "ReleaseUnknownLease",
                    "PeerNotAuthorizable"} ->
             [kind |-> "LeaseReleased", outcome |-> "Refused"]
      [] OTHER -> [kind |-> "Error", code |-> "Internal"]

-----------------------------------------------------------------------------
(* LeaseState and LeaseIssuer: the operations made under the lock *)

Prune(store, now) == {l \in store : l.expires_at > now}

\* Fault: leases whose enforcement is pending are not counted.
IsAtCapacityIgnoringReserved(store) == Cardinality(store) >= MaxOutstanding

IsAtCapacity(store) == Cardinality(store) + reserved >= MaxOutstanding

\* saturating_sub(1)
ReleasedReservation == IF reserved = 0 THEN 0 ELSE reserved - 1

Insert(store, lease) == {l \in store : l.id # lease.id} \cup {lease}

WithId(store, id) == {l \in store : l.id = id}

AnyOtherForSameResource(store, lease) ==
    \E other \in store :
        /\ other.id # lease.id
        /\ other.origin.request.resource = lease.origin.request.resource

\* Fault: now + ttl is not checked against the clock's range.
IssueErrorUnchecked(origin, now, ttl, maxTtl) ==
    IF Decision(origin.context, origin.request) # "ExplicitAllow"
        THEN "Denied"
        ELSE "None"

\* LeaseIssuer::issue, in the order of its checks; "None" is success.
IssueError(origin, now, ttl, maxTtl) ==
    IF ttl = 0 THEN "NonPositiveTtl"
    ELSE IF ttl > maxTtl THEN "TtlExceedsMaximum"
    ELSE IF Decision(origin.context, origin.request) # "ExplicitAllow"
             THEN "Denied"
    ELSE IF now + ttl > MaxTime THEN "ExpiryOverflow"
    ELSE "None"

\* Fault: leases numbered by how many are stored.
IssuedLeaseNumberedByStore(origin, now, ttl) ==
    [id |-> [issuer |-> instance, sequence |-> Cardinality(leases)],
     origin |-> origin, issued_at |-> now, expires_at |-> now + ttl]

IssuedLease(origin, now, ttl) ==
    [id |-> [issuer |-> instance, sequence |-> next_sequence],
     origin |-> origin, issued_at |-> now, expires_at |-> now + ttl]

Revocation(id) ==
    IF id.issuer # instance THEN "ForeignIssuer"
    ELSE IF id.sequence >= next_sequence THEN "NotIssued"
    ELSE IF id.sequence \in revoked THEN "AlreadyRevoked"
    ELSE "Revoked"

RevokedAfter(id) ==
    IF Revocation(id) = "Revoked" THEN revoked \cup {id.sequence} ELSE revoked

\* Fault: the executable image is not compared.
ValidateProcessOnly(lease, presented, now) ==
    LET process == CompareProcess(lease.origin.context, presented.context)
    IN  IF lease.id.issuer # instance THEN "ForeignIssuer"
        ELSE IF lease.id.sequence \in revoked THEN "Revoked"
        ELSE IF process = "Different" THEN "WorkloadMismatch"
        ELSE IF process = "Indeterminate" THEN "WorkloadIndeterminate"
        ELSE IF now >= lease.expires_at THEN "Expired"
        ELSE "Valid"

\* Fault: off by one, a lease in its last tick is already expired.
ValidateEarlyExpiry(lease, presented, now) ==
    LET verdict == ValidateProcessOnly(lease, presented, now)
        image == CompareExecutable(lease.origin.context, presented.context)
    IN  IF verdict = "Valid" /\ image # "Same" THEN "ExecutableMismatch"
        ELSE IF verdict = "Valid" /\ now + 1 >= lease.expires_at THEN "Expired"
        ELSE verdict

\* LeaseIssuer::validate: binding checks come before expiry.
Validate(lease, presented, now) ==
    LET process == CompareProcess(lease.origin.context, presented.context)
        image   == CompareExecutable(lease.origin.context, presented.context)
    IN  IF lease.id.issuer # instance THEN "ForeignIssuer"
        ELSE IF lease.id.sequence \in revoked THEN "Revoked"
        ELSE IF lease.origin.request.resource # presented.request.resource
            THEN "ResourceMismatch"
        ELSE IF lease.origin.request.action # presented.request.action
            THEN "ActionMismatch"
        ELSE IF process = "Different" THEN "WorkloadMismatch"
        ELSE IF process = "Indeterminate" THEN "WorkloadIndeterminate"
        ELSE IF image = "Different" THEN "ExecutableMismatch"
        ELSE IF image = "Indeterminate" THEN "WorkloadIndeterminate"
        ELSE IF now >= lease.expires_at THEN "Expired"
        ELSE "Valid"

-----------------------------------------------------------------------------
(* Handler threads *)

\* Fault: the guard is dropped before backend.revoke.
LockDroppedBeforeRevoke == TRUE

\* The lock is free between actions unless a release is inside the backend.
LockFree == \A t \in Threads : pc[t] # "teardown"

Goto(t, label) == pc' = [pc EXCEPT ![t] = label]

Finish(t, o) ==
    /\ outcome' = [outcome EXCEPT ![t] = o]
    /\ Goto(t, "record")

InFlight ==
    {t \in Threads : pc[t] \in {"enforce", "allowed", "insert", "rollback"}}

Origin(t) == [context |-> call[t].peer.workload, request |-> call[t].request]

Init ==
    /\ clock = 0
    /\ instance = 0
    /\ next_sequence = 0
    /\ revoked = {}
    /\ leases = {}
    /\ reserved = 0
    /\ enforced = [r \in Resources |-> FALSE]
    /\ pc = [t \in Threads |-> "idle"]
    /\ call = [t \in Threads |-> NoCall]
    /\ held = [t \in Threads |-> NoLease]
    /\ outcome = [t \in Threads |-> Outcome("None")]
    /\ recorded = [t \in Threads |-> 0]
    /\ leaked = 0

\* Requests decoded but not yet issued: keeps MaxSequence a bound.
Pending ==
    {t \in Threads : pc[t] = "begin" /\ call[t].op = "RequestLease"}

\* serve_connection hands a decoded request and its peer to the handler.
Receive(t, c) ==
    /\ pc[t] = "idle"
    /\ c.op = "RequestLease" =>
           next_sequence + Cardinality(Pending) < MaxSequence
    /\ call' = [call EXCEPT ![t] = c]
    /\ Goto(t, "begin")
    /\ UNCHANGED <<clock, issuer_vars, store_vars, enforced, held, outcome,
                   recorded>>

HandleStatus(t) ==
    /\ pc[t] = "begin"
    /\ call[t].op = "AgentStatus"
    /\ Finish(t, Outcome("StatusReported"))
    /\ UNCHANGED <<clock, issuer_vars, store_vars, enforced, call, held,
                   recorded>>

\* Both handlers return before touching the lock.
RefuseUnauthorizable(t) ==
    /\ pc[t] = "begin"
    /\ call[t].op \in {"RequestLease", "ReleaseLease"}
    /\ ~Authorizable(call[t].peer)
    /\ Finish(t, Outcome("PeerNotAuthorizable"))
    /\ UNCHANGED <<clock, issuer_vars, store_vars, enforced, call, held,
                   recorded>>

\* What issue_reserving_capacity shares: lock, read the clock, prune.
BeginIssue(t) ==
    /\ pc[t] = "begin"
    /\ call[t].op = "RequestLease"
    /\ Authorizable(call[t].peer)
    /\ LockFree

\* Fault: capacity is checked before expired leases are pruned.
RefuseAtCapacityUnpruned(t) ==
    /\ BeginIssue(t)
    /\ IsAtCapacity(leases)
    /\ Finish(t, Outcome("CapacityExhausted"))
    /\ UNCHANGED <<clock, issuer_vars, store_vars, enforced, call, held,
                   recorded>>

RefuseAtCapacity(t) ==
    /\ BeginIssue(t)
    /\ leases' = Prune(leases, clock)
    /\ IsAtCapacity(leases')
    /\ Finish(t, Outcome("CapacityExhausted"))
    /\ UNCHANGED <<clock, issuer_vars, reserved, leaked, enforced, call, held,
                   recorded>>

RefuseToIssue(t) ==
    LET error == IssueError(Origin(t), clock, LeaseTtl, LeaseTtl)
    IN  /\ BeginIssue(t)
        /\ leases' = Prune(leases, clock)
        /\ ~IsAtCapacity(leases')
        /\ error # "None"
        /\ Finish(t, IF error = "Denied"
                         THEN [tag |-> "PolicyDenied",
                               reason |-> Decision(Origin(t).context,
                                                   Origin(t).request)]
                         ELSE [tag |-> "LeaseIssueFailed", error |-> error])
        /\ UNCHANGED <<clock, issuer_vars, reserved, leaked, enforced, call,
                       held, recorded>>

\* Issue under a clock reading taken with the lock held, and reserve the slot.
IssueReservingCapacity(t) ==
    /\ BeginIssue(t)
    /\ leases' = Prune(leases, clock)
    /\ ~IsAtCapacity(leases')
    /\ IssueError(Origin(t), clock, LeaseTtl, LeaseTtl) = "None"
    /\ held' = [held EXCEPT ![t] = IssuedLease(Origin(t), clock, LeaseTtl)]
    /\ next_sequence' = next_sequence + 1
    /\ reserved' = reserved + 1
    /\ Goto(t, "enforce")
    /\ UNCHANGED <<clock, instance, revoked, leaked, enforced, call, outcome,
                   recorded>>

HeldResource(t) == held[t].origin.request.resource

\* saturating_duration_since
Remaining(lease) ==
    IF lease.expires_at > clock THEN lease.expires_at - clock ELSE 0

\* enforce() answers Allowed.
EnforceAllowed(t) ==
    /\ pc[t] = "enforce"
    /\ enforced' = [enforced EXCEPT ![HeldResource(t)] = TRUE]
    /\ Goto(t, "allowed")
    /\ UNCHANGED <<clock, issuer_vars, store_vars, call, held, outcome, recorded>>

\* The clock is read again, outside the lock: what is left of the lease, if
\* anything, decides between insert and rollback.
MeasureRemaining(t) ==
    LET remaining == Remaining(held[t])
    IN  /\ pc[t] = "allowed"
        /\ outcome' = [outcome EXCEPT ![t] =
               IF remaining = 0
                   THEN [tag |-> "LeaseIssueFailed", error |-> "ExpiryOverflow"]
                   ELSE [tag |-> "Granted", lease |-> held[t],
                         remaining |-> remaining]]
        /\ Goto(t, IF remaining = 0 THEN "rollback" ELSE "insert")
        /\ UNCHANGED <<clock, issuer_vars, store_vars, enforced, call, held,
                       recorded>>

\* Denied, Unsupported or Error, or no result at all.
EnforceFails(t) ==
    /\ pc[t] = "enforce"
    /\ \E tag \in {"EnforcementRefused", "BackendFailed"} :
           outcome' = [outcome EXCEPT ![t] = Outcome(tag)]
    /\ Goto(t, "rollback")
    /\ UNCHANGED <<clock, issuer_vars, store_vars, enforced, call, held,
                   recorded>>

\* catch_unwind in serve_connection: no outcome, no event, an error reply.
Unwind(t) ==
    /\ BackendPanics
    /\ outcome' = [outcome EXCEPT ![t] = Outcome("Panicked")]
    /\ Goto(t, "reply")

EnforcePanics(t) ==
    /\ pc[t] = "enforce"
    /\ enforced' \in {enforced, [enforced EXCEPT ![HeldResource(t)] = TRUE]}
    /\ Unwind(t)
    /\ leaked' = leaked + 1
    /\ UNCHANGED <<clock, issuer_vars, leases, reserved, call, held, recorded>>

\* LeaseState::insert consumes the reservation under the same lock.
InsertGranted(t) ==
    /\ pc[t] = "insert"
    /\ LockFree
    /\ reserved' = ReleasedReservation
    /\ leases' = Insert(leases, held[t])
    /\ Goto(t, "record")
    /\ UNCHANGED <<clock, issuer_vars, leaked, enforced, call, held, outcome,
                   recorded>>

\* Fault: the slot is given back but the lease is not revoked.
RollbackWithoutRevoke(t) ==
    /\ pc[t] = "rollback"
    /\ LockFree
    /\ reserved' = ReleasedReservation
    /\ Goto(t, "record")
    /\ UNCHANGED <<clock, issuer_vars, leases, leaked, enforced, call, held,
                   outcome, recorded>>

\* Fault: the lease is revoked but its slot stays reserved.
RollbackKeepingReservation(t) ==
    /\ pc[t] = "rollback"
    /\ LockFree
    /\ revoked' = RevokedAfter(held[t].id)
    /\ Goto(t, "record")
    /\ UNCHANGED <<clock, instance, next_sequence, store_vars, enforced, call,
                   held, outcome, recorded>>

\* The compensating revoke of every failure after a successful issue.
Rollback(t) ==
    /\ pc[t] = "rollback"
    /\ LockFree
    /\ revoked' = RevokedAfter(held[t].id)
    /\ reserved' = ReleasedReservation
    /\ Goto(t, "record")
    /\ UNCHANGED <<clock, instance, next_sequence, leases, leaked, enforced,
                   call, held, outcome, recorded>>

\* What handle_release_lease shares: lock, read the clock, prune.
BeginRelease(t) ==
    /\ pc[t] = "begin"
    /\ call[t].op = "ReleaseLease"
    /\ Authorizable(call[t].peer)
    /\ LockFree

ReleaseUnknown(t) ==
    /\ BeginRelease(t)
    /\ WithId(Prune(leases, clock), call[t].lease_id) = {}
    /\ leases' = Prune(leases, clock)
    /\ Finish(t, Outcome("ReleaseUnknownLease"))
    /\ UNCHANGED <<clock, issuer_vars, reserved, leaked, enforced, call, held,
                   recorded>>

\* The presented provenance: the fresh peer with the stored request.
Presented(t, stored) ==
    [context |-> call[t].peer.workload, request |-> stored.origin.request]

ReleaseRefused(t) ==
    /\ BeginRelease(t)
    /\ \E stored \in WithId(Prune(leases, clock), call[t].lease_id) :
           LET validity == Validate(stored, Presented(t, stored), clock)
           IN  /\ validity # "Valid"
               /\ Finish(t, [tag |-> "ReleaseRefused", validity |-> validity])
    /\ leases' = Prune(leases, clock)
    /\ UNCHANGED <<clock, issuer_vars, reserved, leaked, enforced, call, held,
                   recorded>>

\* Decide, revoke and remove; with no other lease stored on the resource the
\* thread goes on to the backend and keeps the lock.
ReleaseValid(t) ==
    LET pruned == Prune(leases, clock)
    IN  /\ BeginRelease(t)
        /\ \E stored \in WithId(pruned, call[t].lease_id) :
               /\ Validate(stored, Presented(t, stored), clock) = "Valid"
               /\ outcome' = [outcome EXCEPT ![t] =
                      [tag |-> "Released", lease_id |-> stored.id,
                       revocation |-> Revocation(stored.id)]]
               /\ revoked' = RevokedAfter(stored.id)
               /\ leases' = pruned \ {stored}
               /\ held' = [held EXCEPT ![t] = stored]
               /\ Goto(t, IF AnyOtherForSameResource(pruned, stored)
                              THEN "record"
                              ELSE "teardown")
        /\ UNCHANGED <<clock, instance, next_sequence, reserved, leaked, enforced,
                       call, recorded>>

\* Fault: the answer goes out from under the lock, ahead of the event.
TeardownWithoutEvent(t) ==
    /\ pc[t] = "teardown"
    /\ enforced' \in {enforced, [enforced EXCEPT ![HeldResource(t)] = FALSE]}
    /\ Goto(t, "reply")
    /\ UNCHANGED <<clock, issuer_vars, store_vars, call, held, outcome, recorded>>

\* backend.revoke under the lock; its result is ignored (.ok()).
Teardown(t) ==
    /\ pc[t] = "teardown"
    /\ enforced' \in {enforced, [enforced EXCEPT ![HeldResource(t)] = FALSE]}
    /\ Goto(t, "record")
    /\ UNCHANGED <<clock, issuer_vars, store_vars, call, held, outcome, recorded>>

\* A panic under the lock poisons it; state::lock recovers the guard.
TeardownPanics(t) ==
    /\ pc[t] = "teardown"
    /\ enforced' \in {enforced, [enforced EXCEPT ![HeldResource(t)] = FALSE]}
    /\ Unwind(t)
    /\ UNCHANGED <<clock, issuer_vars, store_vars, call, held, recorded>>

\* Fault: a release of a lease that is not stored yet is tried again.
RecordRetryingUnknown(t) ==
    /\ pc[t] = "record"
    /\ Goto(t, IF outcome[t].tag = "ReleaseUnknownLease" THEN "begin" ELSE "reply")
    /\ recorded' = [recorded EXCEPT ![t] = IF @ = 0 THEN 1 ELSE 2]
    /\ UNCHANGED <<clock, issuer_vars, store_vars, enforced, call, held, outcome>>

\* sink.record, after every lock is released.
Record(t) ==
    /\ pc[t] = "record"
    /\ recorded' = [recorded EXCEPT ![t] = IF @ = 0 THEN 1 ELSE 2]
    /\ Goto(t, "reply")
    /\ UNCHANGED <<clock, issuer_vars, store_vars, enforced, call, held, outcome>>

\* The response is sent and the connection closed.
Reply(t) ==
    /\ pc[t] = "reply"
    /\ Goto(t, "idle")
    /\ call' = [call EXCEPT ![t] = NoCall]
    /\ held' = [held EXCEPT ![t] = NoLease]
    /\ outcome' = [outcome EXCEPT ![t] = Outcome("None")]
    /\ recorded' = [recorded EXCEPT ![t] = 0]
    /\ UNCHANGED <<clock, issuer_vars, store_vars, enforced>>

-----------------------------------------------------------------------------
(* The environment *)

\* AgentClock::now saturates at the largest representable reading.
Tick ==
    /\ clock < MaxTime
    /\ clock' = clock + 1
    /\ UNCHANGED <<issuer_vars, store_vars, enforced, thread_vars>>

\* The agent dies and is started again: everything it keeps is in memory.
\* Whether enforcement survives is the backend's affair.
Restart ==
    /\ instance < MaxRestarts
    /\ instance' = instance + 1
    /\ clock' = 0
    /\ next_sequence' = 0
    /\ revoked' = {}
    /\ leases' = {}
    /\ reserved' = 0
    /\ enforced' \in {enforced, [r \in Resources |-> FALSE]}
    /\ pc' = [t \in Threads |-> "idle"]
    /\ call' = [t \in Threads |-> NoCall]
    /\ held' = [t \in Threads |-> NoLease]
    /\ outcome' = [t \in Threads |-> Outcome("None")]
    /\ recorded' = [t \in Threads |-> 0]
    /\ leaked' = 0

\* What a client may send: any request, and a release of any lease id.
Receivable ==
    [op : {"AgentStatus"}, peer : Peers]
        \cup [op : {"RequestLease"}, peer : Peers, request : Requests]
        \cup [op : {"ReleaseLease"}, peer : Peers,
              lease_id : [issuer : 0..instance, sequence : 0..MaxSequence]]

Handle(t) ==
    \/ HandleStatus(t)
    \/ RefuseUnauthorizable(t)
    \/ RefuseAtCapacity(t)
    \/ RefuseToIssue(t)
    \/ IssueReservingCapacity(t)
    \/ EnforceAllowed(t)
    \/ MeasureRemaining(t)
    \/ EnforceFails(t)
    \/ EnforcePanics(t)
    \/ InsertGranted(t)
    \/ Rollback(t)
    \/ ReleaseUnknown(t)
    \/ ReleaseRefused(t)
    \/ ReleaseValid(t)
    \/ Teardown(t)
    \/ TeardownPanics(t)
    \/ Record(t)
    \/ Reply(t)

Next ==
    \/ \E t \in Threads : \E c \in Receivable : Receive(t, c)
    \/ \E t \in Threads : Handle(t)
    \/ Tick
    \/ Restart

Spec == Init /\ [][Next]_vars

\* Fairness: a thread that can take its next step infinitely often takes it.
\* Strong, because a thread waiting for the mutex is enabled only while no
\* other thread is inside backend.revoke; backend calls return.
FairSpec == Spec /\ \A t \in Threads : SF_vars(Handle(t))

-----------------------------------------------------------------------------
(* Properties *)

\* Every variable has its type; the threads' labels are those of the handler.
TypeOK ==
    /\ clock \in 0..MaxTime
    /\ instance \in 0..MaxRestarts
    /\ next_sequence \in Nat
    /\ revoked \subseteq Nat
    /\ leases \subseteq ComputeLeases
    /\ reserved \in Nat
    /\ enforced \in [Resources -> BOOLEAN]
    /\ pc \in [Threads -> {"idle", "begin", "enforce", "allowed", "insert",
                           "rollback", "teardown", "record", "reply"}]
    /\ call \in [Threads -> Calls \cup {NoCall}]
    /\ held \in [Threads -> ComputeLeases \cup {NoLease}]
    /\ outcome \in [Threads -> Outcomes]
    /\ recorded \in [Threads -> 0..2]
    /\ leaked \in Nat

\* Where a handler is says what it has: every handler past "idle" has a
\* request, and one inside the backend has the lease that request is about.
ControlInv ==
    \A t \in Threads :
        /\ pc[t] # "idle" => call[t] \in Calls
        /\ pc[t] \in {"enforce", "allowed", "insert", "rollback", "teardown"} =>
               held[t] \in ComputeLeases
        /\ pc[t] \in {"idle", "begin"} =>
               held[t] = NoLease /\ outcome[t] = Outcome("None")
        /\ pc[t] = "insert" =>
               outcome[t].tag = "Granted" /\ outcome[t].lease = held[t]

\* max_outstanding_leases is never overshot, although enforce() runs between
\* the capacity check and the insert: stored leases and reservations together
\* never exceed it (state.rs, `reserved`).
CapacityBound == Cardinality(leases) + reserved <= MaxOutstanding

\* "Must be paired with exactly one later insert or release_reservation": the
\* reservations are exactly the requests between issue and insert/rollback,
\* and one more for every backend.enforce that panicked.  That one is never
\* given back while the agent runs, so "on every path" (mod.rs,
\* issue_reserving_capacity) is true of a backend that does not panic.
ReservationsPaired == reserved = Cardinality(InFlight) + leaked

\* The half of the pairing that survives a panicking backend: a reservation
\* stands behind every lease that may still be inserted.
ReservationsCover == Cardinality(InFlight) <= reserved

\* Leases that exist: stored, or issued and still in a handler's hands.
Outstanding == leases \cup {held[t] : t \in InFlight}

\* A lease id names one lease of the live issuer that was never revoked: no
\* two outstanding leases share an id, none has a sequence that was revoked
\* or not yet issued, none survives from another instance.
OutstandingIdsFresh ==
    /\ \A l \in Outstanding :
           /\ l.id.issuer = instance
           /\ l.id.sequence < next_sequence
           /\ l.id.sequence \notin revoked
    /\ \A l, m \in Outstanding : l.id = m.id => l = m
    /\ \A t, u \in InFlight : held[t].id = held[u].id => t = u
    /\ \A t \in InFlight : held[t] \notin leases

\* A request that failed after a lease was issued for it leaves that lease
\* revoked and out of the store by the time it is answered.
FailedRequestLeavesNoLease ==
    \A t \in Threads :
        (/\ pc[t] \in {"record", "reply"}
         /\ call[t].op = "RequestLease"
         /\ held[t] # NoLease
         /\ outcome[t].tag \notin {"Granted", "Panicked"})
        => /\ held[t].id.sequence \in revoked
           /\ WithId(leases, held[t].id) = {}

\* The remaining lifetime told to the client is positive and no longer than
\* what the lease had when the request was decided, for a lease that ends
\* LeaseTtl after its issue without the u64 addition wrapping.
GrantNeverOverstates ==
    \A t \in Threads :
        outcome[t].tag = "Granted" =>
            LET lease == outcome[t].lease
            IN  /\ outcome[t].remaining \in 1..LeaseTtl
                /\ lease.expires_at = lease.issued_at + LeaseTtl
                /\ lease.expires_at <= MaxTime
                /\ lease.expires_at - outcome[t].remaining
                       \in lease.issued_at..clock

\* A lease is released at most once: the revocation that accompanies a
\* Released outcome is always the first one of that id.
ReleasedOnce ==
    \A t \in Threads :
        outcome[t].tag = "Released" => outcome[t].revocation = "Revoked"

\* The peer of thread t is the process, in the same image, that l is bound to.
HeldBy(l, t) ==
    /\ call[t] # NoCall
    /\ Authorizable(call[t].peer)
    /\ CompareProcess(l.origin.context, call[t].peer.workload) = "Same"
    /\ CompareExecutable(l.origin.context, call[t].peer.workload) = "Same"

\* A stored lease disappears only because it expired, because the agent was
\* restarted, or because its own holder released it: nobody ends another
\* workload's lease.
OnlyHolderEndsLease ==
    [][instance' = instance =>
           \A l \in leases \ leases' :
               \/ l.expires_at <= clock
               \/ \E t \in Threads :
                      /\ HeldBy(l, t)
                      /\ outcome'[t].tag = "Released"
                      /\ outcome'[t].lease_id = l.id]_vars

\* The holder of a stored lease that has not expired is never refused its
\* release.
HolderNeverRefused ==
    [][\A t \in Threads :
           (/\ pc[t] = "begin"
            /\ outcome'[t].tag \in {"ReleaseUnknownLease", "ReleaseRefused"})
           => \A l \in leases :
                  l.id = call[t].lease_id /\ HeldBy(l, t)
                      => l.expires_at <= clock]_vars

\* Capacity is refused only when that many unexpired leases are stored, on
\* their way or lost to panics: expired leases are pruned before the check.
NoSpuriousExhaustion ==
    [][\A t \in Threads :
           (/\ pc[t] = "begin"
            /\ outcome'[t].tag = "CapacityExhausted")
           => Cardinality(Prune(leases, clock)) + Cardinality(InFlight) + leaked
                  >= MaxOutstanding]_vars

\* "Two clients holding leases for the same resource must not have one
\* client's release tear down enforcement the other still relies on": when
\* enforcement goes away while the agent runs, no lease on it is stored.
TeardownSparesStoredLeases ==
    [][instance' = instance =>
           \A r \in Resources :
               enforced[r] /\ ~enforced'[r] =>
                   \A l \in leases' : l.origin.request.resource # r]_vars

\* By the time a request is answered, its event has been recorded once, no
\* matter how often the lock was taken for it; but the request whose handler
\* panicked is answered too, and never recorded.  EventSink::record, "Called
\* exactly once per request" (event.rs), is so not true of a backend that
\* panics: the audit log misses that request.
AnswersAreRecorded ==
    \A t \in Threads :
        pc[t] = "reply" =>
            recorded[t] = IF outcome[t].tag = "Panicked" THEN 0 ELSE 1

\* Every request handed to the handler is answered (or dies with the agent).
EveryRequestAnswered ==
    \A t \in Threads : pc[t] = "begin" ~> pc[t] = "idle"

-----------------------------------------------------------------------------
(* What a comment of the repository says and the code does not do.           *)

\* "Holding the lock here serializes this decide-and-execute sequence against
\* every insert": a lease in the store, not expired, has its enforcement.
StoredLeaseIsEnforced ==
    \A l \in leases :
        l.expires_at > clock => enforced[l.origin.request.resource]
=============================================================================
