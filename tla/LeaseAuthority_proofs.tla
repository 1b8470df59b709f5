------------------------ MODULE LeaseAuthority_proofs ------------------------
(***************************************************************************)
(* Proofs about LeaseAuthority, for every set of threads, peers and        *)
(* resources, every policy, ttl, capacity and clock width.                 *)
(***************************************************************************)
EXTENDS LeaseAuthority, FiniteSetTheorems, TLAPS

USE ThreadsAssumption, RequestsAssumption, DecisionAssumption, ConfigAssumption

TypeInv == TypeOK /\ ControlInv

-----------------------------------------------------------------------------
(* What the operators under the lock return *)

\* Pruning leaves leases.
LEMMA PruneType ==
    ASSUME NEW store \in SUBSET ComputeLeases, NEW now
    PROVE  /\ Prune(store, now) \subseteq store
           /\ Prune(store, now) \subseteq ComputeLeases
  BY DEF Prune

\* What issue makes is a lease.
LEMMA IssuedLeaseType ==
    ASSUME NEW origin \in Origins, TypeOK
    PROVE  IssuedLease(origin, clock, LeaseTtl) \in ComputeLeases
  BY DEF IssuedLease, ComputeLeases, LeaseIds, TypeOK

\* A thread with a request has an origin to issue for.
LEMMA OriginType ==
    ASSUME TypeInv, NEW t \in Threads, pc[t] # "idle", call[t].op = "RequestLease"
    PROVE  Origin(t) \in Origins
  <1>1. call[t] \in Calls
    BY DEF TypeInv, ControlInv
  <1>2. call[t].peer \in Peers /\ call[t].request \in Requests
    BY <1>1 DEF Calls
  <1> QED
    BY <1>2 DEF Origin, Origins, Workloads

\* revoke has one of its outcomes, and revokes numbers.
LEMMA RevocationType ==
    ASSUME TypeOK, NEW id \in LeaseIds
    PROVE  /\ Revocation(id) \in RevocationOutcomes
           /\ RevokedAfter(id) \subseteq Nat
  BY DEF Revocation, RevokedAfter, RevocationOutcomes, TypeOK, LeaseIds

\* issue ends in an error of its own, a denial or a lease.
LEMMA IssueErrorType ==
    ASSUME NEW origin
    PROVE  IssueError(origin, clock, LeaseTtl, LeaseTtl)
               \in LeaseErrors \cup {"Denied", "None"}
  BY DEF IssueError, LeaseErrors

\* Validation ends in one of its verdicts.
LEMMA ValidateType ==
    ASSUME NEW lease, NEW presented
    PROVE  Validate(lease, presented, clock) \in LeaseValidities
  BY DEF Validate, LeaseValidities

\* Outcomes without further fields, and a thread's last one.
LEMMA OutcomeType ==
    /\ \A tag \in {"PeerNotAuthorizable", "CapacityExhausted",
                   "EnforcementRefused", "BackendFailed",
                   "ReleaseUnknownLease", "StatusReported", "Panicked",
                   "None"} : Outcome(tag) \in Outcomes
    /\ \A reason \in DecisionReason :
           [tag |-> "PolicyDenied", reason |-> reason] \in Outcomes
    /\ \A error \in LeaseErrors :
           [tag |-> "LeaseIssueFailed", error |-> error] \in Outcomes
    /\ \A validity \in LeaseValidities :
           [tag |-> "ReleaseRefused", validity |-> validity] \in Outcomes
    /\ \A lease \in ComputeLeases, remaining \in Nat :
           [tag |-> "Granted", lease |-> lease, remaining |-> remaining]
               \in Outcomes
    /\ \A id \in LeaseIds, revocation \in RevocationOutcomes :
           [tag |-> "Released", lease_id |-> id, revocation |-> revocation]
               \in Outcomes
  BY DEF Outcomes, Outcome

-----------------------------------------------------------------------------
(* Type correctness *)

\* The agent starts with an empty store and idle threads.
LEMMA TypeInit == Init => TypeInv
  <1> SUFFICES ASSUME Init PROVE TypeInv
    OBVIOUS
  <1>1. Outcome("None") \in Outcomes
    BY OutcomeType
  <1> QED
    BY <1>1 DEF Init, TypeInv, TypeOK, ControlInv

\* Every critical section, backend call and restart keeps types and control.
LEMMA TypeStep == TypeInv /\ [Next]_vars => TypeInv'
  <1> SUFFICES ASSUME TypeInv, [Next]_vars PROVE TypeInv'
    OBVIOUS
  <1> USE DEF TypeInv, Goto, Finish, issuer_vars, store_vars, thread_vars
  <1>1. ASSUME NEW t \in Threads, NEW c \in Receivable, Receive(t, c)
        PROVE  TypeInv'
    <2>1. c \in Calls
      BY DEF Receivable, Calls, LeaseIds, TypeOK
    <2> QED
      BY <1>1, <2>1 DEF Receive, TypeOK, ControlInv
  <1>2. ASSUME NEW t \in Threads, HandleStatus(t) PROVE TypeInv'
    BY <1>2, OutcomeType DEF HandleStatus, TypeOK, ControlInv
  <1>3. ASSUME NEW t \in Threads, RefuseUnauthorizable(t) PROVE TypeInv'
    BY <1>3, OutcomeType DEF RefuseUnauthorizable, TypeOK, ControlInv
  <1>4. ASSUME NEW t \in Threads, RefuseAtCapacity(t) PROVE TypeInv'
    BY <1>4, OutcomeType, PruneType
       DEF RefuseAtCapacity, BeginIssue, TypeOK, ControlInv
  <1>5. ASSUME NEW t \in Threads, RefuseToIssue(t) PROVE TypeInv'
    <2>1. Origin(t) \in Origins
      BY <1>5, OriginType DEF RefuseToIssue, BeginIssue
    <2>2. PICK o \in Outcomes : outcome' = [outcome EXCEPT ![t] = o]
      <3> DEFINE error == IssueError(Origin(t), clock, LeaseTtl, LeaseTtl)
      <3>1. Decision(Origin(t).context, Origin(t).request) \in DecisionReason
        BY <2>1 DEF Origins
      <3>2. error # "None" /\ error \in LeaseErrors \cup {"Denied", "None"}
        BY <1>5, IssueErrorType DEF RefuseToIssue
      <3> QED
        BY <1>5, <3>1, <3>2, OutcomeType DEF RefuseToIssue
    <2>3. /\ leases' = Prune(leases, clock)
          /\ pc[t] = "begin"
          /\ pc' = [pc EXCEPT ![t] = "record"]
          /\ UNCHANGED <<clock, issuer_vars, reserved, leaked, enforced, call,
                         held, recorded>>
      BY <1>5 DEF RefuseToIssue, BeginIssue
    <2> QED
      BY <2>2, <2>3, PruneType DEF TypeOK, ControlInv
  <1>6. ASSUME NEW t \in Threads, IssueReservingCapacity(t) PROVE TypeInv'
    <2>1. IssuedLease(Origin(t), clock, LeaseTtl) \in ComputeLeases
      BY <1>6, OriginType, IssuedLeaseType
         DEF IssueReservingCapacity, BeginIssue
    <2> QED
      BY <1>6, <2>1, PruneType
         DEF IssueReservingCapacity, BeginIssue, TypeOK, ControlInv
  <1>7. ASSUME NEW t \in Threads, EnforceAllowed(t) PROVE TypeInv'
    BY <1>7 DEF EnforceAllowed, TypeOK, ControlInv
  <1>7a. ASSUME NEW t \in Threads, MeasureRemaining(t) PROVE TypeInv'
    <2>1. pc[t] = "allowed" /\ held[t] \in ComputeLeases
      BY <1>7a DEF MeasureRemaining, ControlInv
    <2>2. Remaining(held[t]) \in Nat
      BY <2>1 DEF Remaining, ComputeLeases, TypeOK
    <2>3. PICK o \in Outcomes, label \in {"insert", "rollback"} :
              /\ outcome' = [outcome EXCEPT ![t] = o]
              /\ pc' = [pc EXCEPT ![t] = label]
              /\ label = "insert" => o.tag = "Granted" /\ o.lease = held[t]
      <3>1. "ExpiryOverflow" \in LeaseErrors
        BY DEF LeaseErrors
      <3>2. CASE Remaining(held[t]) = 0
        BY <1>7a, <3>1, <3>2, OutcomeType DEF MeasureRemaining
      <3>3. CASE Remaining(held[t]) # 0
        BY <1>7a, <2>1, <2>2, <3>3, OutcomeType DEF MeasureRemaining
      <3> QED
        BY <3>2, <3>3
    <2>4. UNCHANGED <<clock, issuer_vars, store_vars, enforced, call, held,
                      recorded>>
      BY <1>7a DEF MeasureRemaining
    <2> QED
      BY <2>1, <2>3, <2>4 DEF TypeOK, ControlInv
  <1>8. ASSUME NEW t \in Threads, EnforceFails(t) PROVE TypeInv'
    BY <1>8, OutcomeType DEF EnforceFails, TypeOK, ControlInv
  <1>9. ASSUME NEW t \in Threads, EnforcePanics(t) PROVE TypeInv'
    <2>1. enforced' \in [Resources -> BOOLEAN]
      BY <1>9 DEF EnforcePanics, TypeOK
    <2>2. leaked' \in Nat
      BY <1>9 DEF EnforcePanics, TypeOK
    <2> QED
      BY <1>9, <2>1, <2>2, OutcomeType
         DEF EnforcePanics, Unwind, TypeOK, ControlInv
  <1>10. ASSUME NEW t \in Threads, InsertGranted(t) PROVE TypeInv'
    BY <1>10
       DEF InsertGranted, Insert, ReleasedReservation, TypeOK, ControlInv
  <1>11. ASSUME NEW t \in Threads, Rollback(t) PROVE TypeInv'
    <2>1. held[t].id \in LeaseIds
      BY <1>11 DEF Rollback, ControlInv, ComputeLeases
    <2> QED
      BY <1>11, <2>1, RevocationType
         DEF Rollback, ReleasedReservation, TypeOK, ControlInv
  <1>12. ASSUME NEW t \in Threads, ReleaseUnknown(t) PROVE TypeInv'
    BY <1>12, OutcomeType, PruneType
       DEF ReleaseUnknown, BeginRelease, TypeOK, ControlInv
  <1>13. ASSUME NEW t \in Threads, ReleaseRefused(t) PROVE TypeInv'
    BY <1>13, OutcomeType, PruneType, ValidateType
       DEF ReleaseRefused, BeginRelease, TypeOK, ControlInv
  <1>14. ASSUME NEW t \in Threads, ReleaseValid(t) PROVE TypeInv'
    <2> DEFINE pruned == Prune(leases, clock)
    <2>1. PICK stored \in WithId(pruned, call[t].lease_id) :
              /\ outcome' = [outcome EXCEPT ![t] =
                     [tag |-> "Released", lease_id |-> stored.id,
                      revocation |-> Revocation(stored.id)]]
              /\ revoked' = RevokedAfter(stored.id)
              /\ leases' = pruned \ {stored}
              /\ held' = [held EXCEPT ![t] = stored]
              /\ pc' = [pc EXCEPT ![t] =
                     IF AnyOtherForSameResource(pruned, stored)
                         THEN "record" ELSE "teardown"]
      BY <1>14 DEF ReleaseValid
    <2>2. stored \in ComputeLeases /\ stored.id \in LeaseIds
      BY PruneType DEF WithId, TypeOK, ComputeLeases
    <2>3. /\ outcome'[t] \in Outcomes
          /\ revoked' \subseteq Nat
      BY <2>1, <2>2, OutcomeType, RevocationType DEF TypeOK
    <2>4. pc[t] = "begin"
          /\ UNCHANGED <<clock, instance, next_sequence, reserved, leaked,
                         enforced, call, recorded>>
      BY <1>14 DEF ReleaseValid, BeginRelease
    <2> QED
      BY <2>1, <2>2, <2>3, <2>4, PruneType DEF TypeOK, ControlInv
  <1>15. ASSUME NEW t \in Threads, Teardown(t) PROVE TypeInv'
    BY <1>15 DEF Teardown, TypeOK, ControlInv
  <1>16. ASSUME NEW t \in Threads, TeardownPanics(t) PROVE TypeInv'
    BY <1>16, OutcomeType DEF TeardownPanics, Unwind, TypeOK, ControlInv
  <1>17. ASSUME NEW t \in Threads, Record(t) PROVE TypeInv'
    BY <1>17 DEF Record, TypeOK, ControlInv
  <1>18. ASSUME NEW t \in Threads, Reply(t) PROVE TypeInv'
    BY <1>18, OutcomeType DEF Reply, TypeOK, ControlInv
  <1>19. ASSUME Tick PROVE TypeInv'
    BY <1>19 DEF Tick, TypeOK, ControlInv
  <1>20. ASSUME Restart PROVE TypeInv'
    <2>1. instance' \in 0..MaxRestarts /\ clock' \in 0..MaxTime
      BY <1>20 DEF Restart, TypeOK
    <2>2. enforced' \in [Resources -> BOOLEAN]
      BY <1>20 DEF Restart, TypeOK
    <2>3. /\ pc' = [u \in Threads |-> "idle"]
          /\ call' = [u \in Threads |-> NoCall]
          /\ held' = [u \in Threads |-> NoLease]
          /\ outcome' = [u \in Threads |-> Outcome("None")]
          /\ recorded' = [u \in Threads |-> 0]
          /\ next_sequence' = 0 /\ revoked' = {} /\ leases' = {}
          /\ reserved' = 0 /\ leaked' = 0
      BY <1>20 DEF Restart
    <2>4. Outcome("None") \in Outcomes
      BY OutcomeType
    <2>5. TypeOK'
      BY <2>1, <2>2, <2>3, <2>4 DEF TypeOK
    <2>6. ControlInv'
      BY <2>3 DEF ControlInv
    <2> QED
      BY <2>5, <2>6
  <1>21. ASSUME UNCHANGED vars PROVE TypeInv'
    BY <1>21 DEF vars, TypeOK, ControlInv
  <1> QED
    BY <1>1, <1>2, <1>3, <1>4, <1>5, <1>6, <1>7, <1>7a, <1>8, <1>9, <1>10, <1>11,
       <1>12, <1>13, <1>14, <1>15, <1>16, <1>17, <1>18, <1>19, <1>20, <1>21
       DEF Next, Handle

\* Every variable of the handler, the issuer and the store always has its
\* type: no step of any handler leaves the domain of the code's own types.
THEOREM TypeCorrect == Spec => []TypeOK
  <1>1. TypeInv => TypeOK
    BY DEF TypeInv
  <1> QED
    BY TypeInit, TypeStep, <1>1, PTL DEF Spec

-----------------------------------------------------------------------------
(* Capacity *)

CapacityInv ==
    /\ IsFiniteSet(leases)
    /\ CapacityBound
    /\ ReservationsCover
    /\ ReservationsPaired
    /\ ~BackendPanics => leaked = 0

\* The leases in flight can be counted.
LEMMA InFlightFinite ==
    /\ IsFiniteSet(InFlight)
    /\ Cardinality(InFlight) \in Nat
  BY FS_Subset, FS_CardinalityType DEF InFlight

\* A step that stores nothing new and changes neither the reservations nor
\* the requests they stand for.
LEMMA QuietStep ==
    ASSUME CapacityInv, TypeOK, leases' \subseteq leases, reserved' = reserved,
           leaked' = leaked, InFlight' = InFlight
    PROVE  CapacityInv'
  <1>1. /\ IsFiniteSet(leases')
        /\ Cardinality(leases') <= Cardinality(leases)
        /\ Cardinality(leases') \in Nat
        /\ Cardinality(leases) \in Nat
    BY FS_Subset, FS_CardinalityType DEF CapacityInv
  <1> QED
    BY <1>1
       DEF CapacityInv, CapacityBound, ReservationsCover, ReservationsPaired,
           TypeOK

\* One handler leaves the window between issue and insert/rollback.
LEMMA LeaveWindow ==
    ASSUME NEW t \in InFlight
    PROVE  /\ IsFiniteSet(InFlight \ {t})
           /\ Cardinality(InFlight \ {t}) = Cardinality(InFlight) - 1
           /\ Cardinality(InFlight) >= 1
  <1>1. Cardinality(InFlight \ {t}) = Cardinality(InFlight) - 1
    BY InFlightFinite, FS_RemoveElement
  <1>2. IsFiniteSet(InFlight \ {t}) /\ Cardinality(InFlight \ {t}) \in Nat
    BY InFlightFinite, FS_RemoveElement, FS_CardinalityType
  <1> QED
    BY <1>1, <1>2, InFlightFinite

\* A handler gives its reservation back, having stored at most one lease.
LEMMA ReservationReturned ==
    ASSUME CapacityInv, TypeOK, NEW t \in InFlight,
           InFlight' = InFlight \ {t}, reserved' = ReleasedReservation,
           leaked' = leaked, IsFiniteSet(leases'), Cardinality(leases') <= Cardinality(leases) + 1
    PROVE  CapacityInv'
  <1> DEFINE n == Cardinality(InFlight)
             m == Cardinality(leases)
  <1>1. n \in Nat /\ n >= 1 /\ n <= reserved
    BY LeaveWindow, InFlightFinite DEF CapacityInv, ReservationsCover
  <1>2. reserved \in Nat /\ reserved' = reserved - 1
    BY <1>1 DEF ReleasedReservation, TypeOK
  <1>3. Cardinality(InFlight') = n - 1
    BY LeaveWindow
  <1>4. m \in Nat /\ Cardinality(leases') \in Nat
    BY FS_CardinalityType DEF CapacityInv
  <1>5. Cardinality(leases') <= m + 1
    OBVIOUS
  <1>6. m + reserved <= MaxOutstanding
    BY DEF CapacityInv, CapacityBound
  <1>7. reserved = n + leaked /\ leaked \in Nat
    BY DEF CapacityInv, ReservationsPaired, TypeOK
  <1> HIDE DEF n, m
  <1>8. Cardinality(leases') + reserved' <= MaxOutstanding
    BY <1>2, <1>4, <1>5, <1>6
  <1>9. Cardinality(InFlight') <= reserved'
    BY <1>1, <1>2, <1>3
  <1>10. reserved' = Cardinality(InFlight') + leaked'
    BY <1>1, <1>2, <1>3, <1>7
  <1> QED
    BY <1>8, <1>9, <1>10
       DEF CapacityInv, CapacityBound, ReservationsCover, ReservationsPaired

\* At first nothing is stored or reserved.
LEMMA CapacityInit == Init => CapacityInv
  <1> SUFFICES ASSUME Init PROVE CapacityInv
    OBVIOUS
  <1>1. InFlight = {}
    BY DEF Init, InFlight
  <1> QED
    BY <1>1, FS_EmptySet
       DEF Init, CapacityInv, CapacityBound, ReservationsCover,
           ReservationsPaired

\* Every step keeps leases and reservations together within the maximum.
LEMMA CapacityStep == TypeInv /\ CapacityInv /\ [Next]_vars => CapacityInv'
  <1> SUFFICES ASSUME TypeInv, CapacityInv, [Next]_vars PROVE CapacityInv'
    OBVIOUS
  <1> TypeOK
    BY DEF TypeInv
  <1> USE DEF Goto, Finish, issuer_vars, store_vars, thread_vars
  <1> DEFINE Quiet == /\ leases' \subseteq leases
                      /\ reserved' = reserved /\ leaked' = leaked
                      /\ InFlight' = InFlight
  <1>1. ASSUME NEW t \in Threads, NEW c \in Receivable, Receive(t, c)
        PROVE  Quiet
    BY <1>1 DEF Receive, InFlight, TypeOK
  <1>2. ASSUME NEW t \in Threads, HandleStatus(t) PROVE Quiet
    BY <1>2 DEF HandleStatus, InFlight, TypeOK
  <1>3. ASSUME NEW t \in Threads, RefuseUnauthorizable(t) PROVE Quiet
    BY <1>3 DEF RefuseUnauthorizable, InFlight, TypeOK
  <1>4. ASSUME NEW t \in Threads, RefuseAtCapacity(t) PROVE Quiet
    BY <1>4, PruneType DEF RefuseAtCapacity, BeginIssue, InFlight, TypeOK
  <1>5. ASSUME NEW t \in Threads, RefuseToIssue(t) PROVE Quiet
    BY <1>5, PruneType DEF RefuseToIssue, BeginIssue, InFlight, TypeOK
  <1>6. ASSUME NEW t \in Threads, IssueReservingCapacity(t)
        PROVE  CapacityInv'
    <2>1. /\ pc[t] = "begin"
          /\ pc' = [pc EXCEPT ![t] = "enforce"]
          /\ leases' = Prune(leases, clock)
          /\ ~(Cardinality(leases') + reserved >= MaxOutstanding)
          /\ reserved' = reserved + 1 /\ leaked' = leaked
      BY <1>6 DEF IssueReservingCapacity, BeginIssue, IsAtCapacity
    <2>2. t \notin InFlight /\ InFlight' = InFlight \cup {t}
      BY <2>1 DEF InFlight, TypeOK
    <2>3. Cardinality(InFlight \cup {t}) = Cardinality(InFlight) + 1
      BY <2>2, InFlightFinite, FS_AddElement
    <2>4. IsFiniteSet(leases') /\ Cardinality(leases') \in Nat
      BY <2>1, PruneType, FS_Subset, FS_CardinalityType
         DEF CapacityInv, TypeOK
    <2> QED
      BY <2>1, <2>2, <2>3, <2>4, InFlightFinite
         DEF CapacityInv, CapacityBound, ReservationsCover,
             ReservationsPaired, TypeOK
  <1>7. ASSUME NEW t \in Threads, EnforceAllowed(t) PROVE Quiet
    BY <1>7 DEF EnforceAllowed, InFlight, TypeOK
  <1>7a. ASSUME NEW t \in Threads, MeasureRemaining(t) PROVE Quiet
    BY <1>7a DEF MeasureRemaining, InFlight, TypeOK
  <1>8. ASSUME NEW t \in Threads, EnforceFails(t) PROVE Quiet
    BY <1>8 DEF EnforceFails, InFlight, TypeOK
  <1>9. ASSUME NEW t \in Threads, EnforcePanics(t) PROVE CapacityInv'
    <2>1. /\ BackendPanics
          /\ t \in InFlight
          /\ InFlight' = InFlight \ {t}
          /\ leaked' = leaked + 1 /\ UNCHANGED <<leases, reserved>>
      <3>1. /\ BackendPanics
            /\ pc[t] = "enforce"
            /\ pc' = [pc EXCEPT ![t] = "reply"]
            /\ leaked' = leaked + 1 /\ UNCHANGED <<leases, reserved>>
        BY <1>9 DEF EnforcePanics, Unwind
      <3>2. t \in InFlight /\ InFlight' = InFlight \ {t}
        BY <3>1 DEF InFlight, TypeOK
      <3> QED
        BY <3>1, <3>2
    <2>2. Cardinality(InFlight \ {t}) = Cardinality(InFlight) - 1
      BY <2>1, LeaveWindow
    <2>3. Cardinality(InFlight') = Cardinality(InFlight) - 1
      BY <2>1, <2>2
    <2> QED
      BY <2>1, <2>3, InFlightFinite
         DEF CapacityInv, CapacityBound, ReservationsCover,
             ReservationsPaired, TypeOK
  <1>10. ASSUME NEW t \in Threads, InsertGranted(t) PROVE CapacityInv'
    <2>1. /\ t \in InFlight
          /\ InFlight' = InFlight \ {t}
          /\ leases' = Insert(leases, held[t])
          /\ reserved' = ReleasedReservation /\ leaked' = leaked
      BY <1>10 DEF InsertGranted, InFlight, TypeOK
    <2>2. IsFiniteSet(leases')
          /\ Cardinality(leases') <= Cardinality(leases) + 1
      <3> DEFINE others == {l \in leases : l.id # held[t].id}
      <3>1. /\ IsFiniteSet(others)
            /\ Cardinality(others) <= Cardinality(leases)
        BY FS_Subset DEF CapacityInv
      <3>2. leases' = others \cup {held[t]}
        BY <2>1 DEF Insert
      <3>3. /\ IsFiniteSet(others \cup {held[t]})
            /\ Cardinality(others \cup {held[t]}) =
                  IF held[t] \in others THEN Cardinality(others)
                                        ELSE Cardinality(others) + 1
        BY <3>1, FS_AddElement
      <3>4. Cardinality(others) \in Nat /\ Cardinality(leases) \in Nat
        BY <3>1, FS_CardinalityType DEF CapacityInv
      <3> HIDE DEF others
      <3> QED
        BY <3>1, <3>2, <3>3, <3>4
    <2> QED
      BY <2>1, <2>2, ReservationReturned
  <1>11. ASSUME NEW t \in Threads, Rollback(t) PROVE CapacityInv'
    <2>1. /\ t \in InFlight
          /\ InFlight' = InFlight \ {t}
          /\ leases' = leases
          /\ reserved' = ReleasedReservation /\ leaked' = leaked
      BY <1>11 DEF Rollback, InFlight, TypeOK
    <2>2. IsFiniteSet(leases') /\ Cardinality(leases') <= Cardinality(leases) + 1
      BY <2>1, FS_CardinalityType DEF CapacityInv
    <2> QED
      BY <2>1, <2>2, ReservationReturned
  <1>12. ASSUME NEW t \in Threads, ReleaseUnknown(t) PROVE Quiet
    BY <1>12, PruneType DEF ReleaseUnknown, BeginRelease, InFlight, TypeOK
  <1>13. ASSUME NEW t \in Threads, ReleaseRefused(t) PROVE Quiet
    BY <1>13, PruneType DEF ReleaseRefused, BeginRelease, InFlight, TypeOK
  <1>14. ASSUME NEW t \in Threads, ReleaseValid(t) PROVE Quiet
    BY <1>14, PruneType DEF ReleaseValid, BeginRelease, InFlight, TypeOK
  <1>15. ASSUME NEW t \in Threads, Teardown(t) PROVE Quiet
    BY <1>15 DEF Teardown, InFlight, TypeOK
  <1>16. ASSUME NEW t \in Threads, TeardownPanics(t) PROVE Quiet
    BY <1>16 DEF TeardownPanics, Unwind, InFlight, TypeOK
  <1>17. ASSUME NEW t \in Threads, Record(t) PROVE Quiet
    BY <1>17 DEF Record, InFlight, TypeOK
  <1>18. ASSUME NEW t \in Threads, Reply(t) PROVE Quiet
    BY <1>18 DEF Reply, InFlight, TypeOK
  <1>19. ASSUME Tick PROVE Quiet
    BY <1>19 DEF Tick, InFlight
  <1>20. ASSUME Restart PROVE CapacityInv'
    <2>1. InFlight' = {} /\ leases' = {} /\ reserved' = 0 /\ leaked' = 0
      BY <1>20 DEF Restart, InFlight
    <2> QED
      BY <2>1, FS_EmptySet
         DEF CapacityInv, CapacityBound, ReservationsCover, ReservationsPaired
  <1>21. ASSUME UNCHANGED vars PROVE Quiet
    BY <1>21 DEF vars, InFlight
  <1>22. Quiet => CapacityInv'
    BY QuietStep
  <1> HIDE DEF Quiet
  <1> QED
    BY <1>1, <1>2, <1>3, <1>4, <1>5, <1>6, <1>7, <1>7a, <1>8, <1>9, <1>10, <1>11,
       <1>12, <1>13, <1>14, <1>15, <1>16, <1>17, <1>18, <1>19, <1>20, <1>21,
       <1>22
       DEF Next, Handle

\* max_outstanding_leases holds at every moment, although enforcement runs
\* outside the lock and even when the backend panics: a reservation stands
\* behind every lease that can still be inserted.
THEOREM CapacityNeverOvershot == Spec => [](CapacityBound /\ ReservationsCover)
  <1>1. CapacityInv => CapacityBound /\ ReservationsCover
    BY DEF CapacityInv
  <1> QED
    BY TypeInit, TypeStep, CapacityInit, CapacityStep, <1>1, PTL DEF Spec

\* reserve() is paired with exactly one insert or release_reservation on every
\* path but that of a panic in backend.enforce, which leaves one reservation
\* behind for good: none is left by a backend that does not panic, and the
\* saturating subtraction never saturates.
THEOREM ReservationsExactlyPaired ==
    Spec => [](ReservationsPaired /\ (~BackendPanics => leaked = 0))
  <1>1. CapacityInv => ReservationsPaired /\ (~BackendPanics => leaked = 0)
    BY DEF CapacityInv
  <1> QED
    BY TypeInit, TypeStep, CapacityInit, CapacityStep, <1>1, PTL DEF Spec
=============================================================================
