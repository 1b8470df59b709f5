------------------------- MODULE LeaseSafety_proofs -------------------------
(***************************************************************************)
(* Proofs about the life of a lease in LeaseAuthority: who may end it, how *)
(* often, what a release does to the leases of others, what a client is    *)
(* told, and that the handler implements the ledger.                       *)
(***************************************************************************)
EXTENDS LeaseAuthority_proofs, LeaseRefinement

-----------------------------------------------------------------------------
(* Lease ids *)

\* The id is one the live issuer handed out and has not revoked.
FreshId(id) ==
    /\ id.issuer = instance
    /\ id.sequence < next_sequence
    /\ id.sequence \notin revoked

\* OutstandingIdsFresh taken apart into stored leases and leases in flight,
\* and strengthened: only sequence numbers already handed out are revoked.
IdsInv ==
    /\ \A s \in revoked : s < next_sequence
    /\ \A l \in leases : FreshId(l.id)
    /\ \A t \in InFlight : FreshId(held[t].id)
    /\ \A l, m \in leases : l.id = m.id => l = m
    /\ \A t, u \in InFlight : held[t].id = held[u].id => t = u
    /\ \A t \in InFlight, l \in leases : held[t].id # l.id

\* It says what OutstandingIdsFresh says.
LEMMA IdsInvImplies == IdsInv => OutstandingIdsFresh
  BY DEF IdsInv, OutstandingIdsFresh, Outstanding, FreshId

\* No id has been handed out at first.
LEMMA IdsInit == Init => IdsInv
  BY DEF Init, IdsInv, InFlight

\* A step that issues, stores and revokes nothing.
LEMMA IdsQuiet ==
    ASSUME IdsInv, leases' \subseteq leases, InFlight' \subseteq InFlight,
           \A t \in InFlight' : held'[t] = held[t],
           UNCHANGED <<instance, next_sequence, revoked>>
    PROVE  IdsInv'
  BY DEF IdsInv, FreshId

\* Under IdsInv the revocation of an outstanding lease is its first.
LEMMA FreshRevocation ==
    ASSUME TypeOK, NEW id \in LeaseIds, FreshId(id)
    PROVE  /\ Revocation(id) = "Revoked"
           /\ RevokedAfter(id) = revoked \cup {id.sequence}
  BY DEF FreshId, Revocation, RevokedAfter, LeaseIds, TypeOK

\* Ids of the same issuer with the same sequence are the same id.
LEMMA SameSequence ==
    ASSUME NEW a \in LeaseIds, NEW b \in LeaseIds, a.issuer = b.issuer,
           a.sequence = b.sequence
    PROVE  a = b
  BY DEF LeaseIds

\* Issue, insert, rollback and release keep ids apart.
LEMMA IdsStep == TypeInv /\ IdsInv /\ [Next]_vars => IdsInv'
  <1> SUFFICES ASSUME TypeInv, IdsInv, [Next]_vars PROVE IdsInv'
    OBVIOUS
  <1> TypeOK /\ ControlInv
    BY DEF TypeInv
  <1> USE DEF Goto, Finish, issuer_vars, store_vars, thread_vars
  <1> DEFINE Quiet == /\ leases' \subseteq leases
                      /\ InFlight' \subseteq InFlight
                      /\ \A t \in InFlight' : held'[t] = held[t]
                      /\ UNCHANGED <<instance, next_sequence, revoked>>
  <1>1. ASSUME NEW t \in Threads, NEW c \in Receivable, Receive(t, c)
        PROVE  Quiet
    BY <1>1 DEF Receive, InFlight, TypeOK
  <1>2. ASSUME NEW t \in Threads, HandleStatus(t) PROVE Quiet
    BY <1>2 DEF HandleStatus, InFlight, TypeOK
  <1>3. ASSUME NEW t \in Threads, RefuseUnauthorizable(t) PROVE Quiet
    BY <1>3 DEF RefuseUnauthorizable, InFlight, TypeOK
  <1>4. ASSUME NEW t \in Threads, RefuseAtCapacity(t) PROVE Quiet
    BY <1>4, PruneType DEF RefuseAtCapacity, BeginIssue, InFlight, TypeOK
  <1>5. ASSUME NEW t \in Threads, RefuseToIssue(t) PROVE Quiet
    BY <1>5, PruneType DEF RefuseToIssue, BeginIssue, InFlight, TypeOK
  <1>6. ASSUME NEW t \in Threads, IssueReservingCapacity(t) PROVE IdsInv'
    <2> DEFINE new == [issuer |-> instance, sequence |-> next_sequence]
               FreshNext(id) == /\ id.issuer = instance'
                                /\ id.sequence < next_sequence'
                                /\ id.sequence \notin revoked'
    <2>1. /\ leases' \subseteq leases
          /\ t \notin InFlight
          /\ InFlight' = InFlight \cup {t}
          /\ \A u \in InFlight : held'[u] = held[u]
          /\ held'[t].id = new
          /\ next_sequence' = next_sequence + 1
          /\ UNCHANGED <<instance, revoked>>
      <3>1. /\ pc[t] = "begin"
            /\ leases' = Prune(leases, clock)
            /\ pc' = [pc EXCEPT ![t] = "enforce"]
            /\ held' = [held EXCEPT ![t] =
                            IssuedLease(Origin(t), clock, LeaseTtl)]
            /\ next_sequence' = next_sequence + 1
            /\ UNCHANGED <<instance, revoked>>
        BY <1>6 DEF IssueReservingCapacity, BeginIssue
      <3>2. IssuedLease(Origin(t), clock, LeaseTtl).id = new
        BY DEF IssuedLease
      <3>3. t \notin InFlight /\ InFlight' = InFlight \cup {t}
        BY <3>1 DEF InFlight, TypeOK
      <3> QED
        BY <3>1, <3>2, <3>3, PruneType DEF TypeOK
    <2>2. /\ \A s \in revoked : s < next_sequence
          /\ revoked \subseteq Nat /\ next_sequence \in Nat
      BY DEF IdsInv, TypeOK
    <2>3. /\ \A s \in revoked' : s < next_sequence'
          /\ next_sequence \notin revoked'
      <3>1. revoked' = revoked /\ next_sequence' = next_sequence + 1
        BY <2>1
      <3>2. \A s \in revoked : s \in Nat /\ s < next_sequence
        BY <2>2
      <3>3. \A s \in revoked : s < next_sequence + 1 /\ s # next_sequence
        BY <2>2, <3>2
      <3> QED
        BY <3>1, <3>3
    <2>4. \A l \in leases' : FreshNext(l.id) /\ l.id # new
      <3> SUFFICES ASSUME NEW l \in leases PROVE FreshNext(l.id) /\ l.id # new
        BY <2>1
      <3>1. FreshId(l.id) /\ l.id \in LeaseIds
        BY DEF IdsInv, TypeOK, ComputeLeases
      <3> QED
        BY <2>1, <2>2, <3>1 DEF FreshId, LeaseIds
    <2>5. \A u \in InFlight : FreshNext(held[u].id) /\ held[u].id # new
      <3> SUFFICES ASSUME NEW u \in InFlight
                   PROVE  FreshNext(held[u].id) /\ held[u].id # new
        OBVIOUS
      <3>1. FreshId(held[u].id) /\ held[u].id \in LeaseIds
        BY DEF IdsInv, InFlight, ControlInv, ComputeLeases
      <3> QED
        BY <2>1, <2>2, <3>1 DEF FreshId, LeaseIds
    <2>6. FreshNext(held'[t].id)
      BY <2>1, <2>2 DEF FreshId
    <2> HIDE DEF new
    <2> QED
      BY <2>1, <2>3, <2>4, <2>5, <2>6 DEF IdsInv, FreshId
  <1>7. ASSUME NEW t \in Threads, EnforceAllowed(t) PROVE Quiet
    BY <1>7 DEF EnforceAllowed, InFlight, TypeOK
  <1>7a. ASSUME NEW t \in Threads, MeasureRemaining(t) PROVE Quiet
    BY <1>7a DEF MeasureRemaining, InFlight, TypeOK
  <1>8. ASSUME NEW t \in Threads, EnforceFails(t) PROVE Quiet
    BY <1>8 DEF EnforceFails, InFlight, TypeOK
  <1>9. ASSUME NEW t \in Threads, EnforcePanics(t) PROVE Quiet
    BY <1>9 DEF EnforcePanics, Unwind, InFlight, TypeOK
  <1>10. ASSUME NEW t \in Threads, InsertGranted(t) PROVE IdsInv'
    <2>1. /\ t \in InFlight
          /\ InFlight' = InFlight \ {t}
          /\ leases' = Insert(leases, held[t])
          /\ UNCHANGED <<instance, next_sequence, revoked, held>>
      BY <1>10 DEF InsertGranted, InFlight, TypeOK
    <2>2. leases' = leases \cup {held[t]}
      BY <2>1 DEF Insert, IdsInv
    <2> QED
      BY <2>1, <2>2 DEF IdsInv, FreshId
  <1>11. ASSUME NEW t \in Threads, Rollback(t) PROVE IdsInv'
    <2>1. /\ t \in InFlight
          /\ InFlight' = InFlight \ {t}
          /\ revoked' = RevokedAfter(held[t].id)
          /\ UNCHANGED <<instance, next_sequence, leases, held>>
      BY <1>11 DEF Rollback, InFlight, TypeOK
    <2>2. held[t].id \in LeaseIds /\ FreshId(held[t].id)
      BY <2>1 DEF IdsInv, InFlight, ControlInv, ComputeLeases
    <2>3. revoked' = revoked \cup {held[t].id.sequence}
      BY <2>1, <2>2, FreshRevocation
    <2>4. \A l \in leases : l.id.sequence # held[t].id.sequence
      <3> SUFFICES ASSUME NEW l \in leases,
                          l.id.sequence = held[t].id.sequence
                   PROVE  FALSE
        OBVIOUS
      <3>1. l.id \in LeaseIds /\ l.id.issuer = held[t].id.issuer
        BY <2>2 DEF IdsInv, FreshId, TypeOK, ComputeLeases
      <3> QED
        BY <2>1, <2>2, <3>1, SameSequence DEF IdsInv
    <2>5. \A u \in InFlight \ {t} : held[u].id.sequence # held[t].id.sequence
      <3> SUFFICES ASSUME NEW u \in InFlight \ {t},
                          held[u].id.sequence = held[t].id.sequence
                   PROVE  FALSE
        OBVIOUS
      <3>1. held[u].id \in LeaseIds /\ held[u].id.issuer = held[t].id.issuer
        BY <2>2 DEF IdsInv, FreshId, InFlight, ControlInv, ComputeLeases
      <3> QED
        BY <2>1, <2>2, <3>1, SameSequence DEF IdsInv
    <2> QED
      BY <2>1, <2>2, <2>3, <2>4, <2>5 DEF IdsInv, FreshId
  <1>12. ASSUME NEW t \in Threads, ReleaseUnknown(t) PROVE Quiet
    BY <1>12, PruneType DEF ReleaseUnknown, BeginRelease, InFlight, TypeOK
  <1>13. ASSUME NEW t \in Threads, ReleaseRefused(t) PROVE Quiet
    BY <1>13, PruneType DEF ReleaseRefused, BeginRelease, InFlight, TypeOK
  <1>14. ASSUME NEW t \in Threads, ReleaseValid(t) PROVE IdsInv'
    <2>1. PICK stored \in WithId(Prune(leases, clock), call[t].lease_id) :
              /\ revoked' = RevokedAfter(stored.id)
              /\ leases' = Prune(leases, clock) \ {stored}
              /\ held' = [held EXCEPT ![t] = stored]
              /\ pc' = [pc EXCEPT ![t] =
                     IF AnyOtherForSameResource(Prune(leases, clock), stored)
                         THEN "record" ELSE "teardown"]
      BY <1>14 DEF ReleaseValid
    <2>2. /\ pc[t] = "begin"
          /\ UNCHANGED <<instance, next_sequence>>
      BY <1>14 DEF ReleaseValid, BeginRelease
    <2>3. /\ InFlight' = InFlight
          /\ t \notin InFlight
          /\ \A u \in InFlight : held'[u] = held[u]
      BY <2>1, <2>2 DEF InFlight, TypeOK
    <2>4. /\ stored \in leases
          /\ leases' \subseteq leases \ {stored}
      BY <2>1, PruneType DEF WithId, TypeOK
    <2>5. stored.id \in LeaseIds /\ FreshId(stored.id)
      BY <2>4 DEF IdsInv, TypeOK, ComputeLeases
    <2>6. revoked' = revoked \cup {stored.id.sequence}
      BY <2>1, <2>5, FreshRevocation
    <2>7. \A l \in leases' : l.id.sequence # stored.id.sequence
      <3> SUFFICES ASSUME NEW l \in leases',
                          l.id.sequence = stored.id.sequence
                   PROVE  FALSE
        OBVIOUS
      <3>1. /\ l \in leases /\ l # stored
            /\ l.id \in LeaseIds /\ l.id.issuer = stored.id.issuer
        BY <2>4, <2>5 DEF IdsInv, FreshId, TypeOK, ComputeLeases
      <3> QED
        BY <2>4, <2>5, <3>1, SameSequence DEF IdsInv
    <2>8. \A u \in InFlight : held[u].id.sequence # stored.id.sequence
      <3> SUFFICES ASSUME NEW u \in InFlight,
                          held[u].id.sequence = stored.id.sequence
                   PROVE  FALSE
        OBVIOUS
      <3>1. held[u].id \in LeaseIds /\ held[u].id.issuer = stored.id.issuer
        BY <2>5 DEF IdsInv, FreshId, InFlight, ControlInv, ComputeLeases
      <3> QED
        BY <2>4, <2>5, <3>1, SameSequence DEF IdsInv
    <2> QED
      BY <2>2, <2>3, <2>4, <2>5, <2>6, <2>7, <2>8 DEF IdsInv, FreshId
  <1>15. ASSUME NEW t \in Threads, Teardown(t) PROVE Quiet
    BY <1>15 DEF Teardown, InFlight, TypeOK
  <1>16. ASSUME NEW t \in Threads, TeardownPanics(t) PROVE Quiet
    BY <1>16 DEF TeardownPanics, Unwind, InFlight, TypeOK
  <1>17. ASSUME NEW t \in Threads, Record(t) PROVE Quiet
    BY <1>17 DEF Record, InFlight, TypeOK
  <1>18. ASSUME NEW t \in Threads, Reply(t) PROVE Quiet
    BY <1>18 DEF Reply, InFlight, TypeOK
  <1>19. ASSUME Tick PROVE Quiet
    BY <1>19 DEF Tick, InFlight
  <1>20. ASSUME Restart PROVE IdsInv'
    BY <1>20 DEF Restart, IdsInv, InFlight
  <1>21. ASSUME UNCHANGED vars PROVE Quiet
    BY <1>21 DEF vars, InFlight
  <1>22. Quiet => IdsInv'
    BY IdsQuiet
  <1> HIDE DEF Quiet
  <1> QED
    BY <1>1, <1>2, <1>3, <1>4, <1>5, <1>6, <1>7, <1>7a, <1>8, <1>9, <1>10, <1>11,
       <1>12, <1>13, <1>14, <1>15, <1>16, <1>17, <1>18, <1>19, <1>20, <1>21,
       <1>22
       DEF Next, Handle

\* A lease id names at most one outstanding lease, issued by the live agent
\* instance and never revoked: an id is not reused, whatever the interleaving
\* of issues, compensating revokes, releases and restarts.
THEOREM LeaseIdsFresh == Spec => []OutstandingIdsFresh
  <1> QED
    BY TypeInit, TypeStep, IdsInit, IdsStep, IdsInvImplies, PTL DEF Spec

-----------------------------------------------------------------------------
(* Releases *)

\* While a release is inside backend.revoke, holding the lock, no lease on
\* its resource is stored.
TeardownAlone ==
    \A t \in Threads :
        pc[t] = "teardown" =>
            \A l \in leases : l.origin.request.resource # HeldResource(t)

ReleaseInv == TeardownAlone /\ ReleasedOnce

\* At first nothing is torn down.
LEMMA ReleaseInit == Init => ReleaseInv
  BY DEF Init, ReleaseInv, TeardownAlone, ReleasedOnce, Outcome

\* A step that stores nothing, starts no teardown and releases nothing.
LEMMA ReleaseQuiet ==
    ASSUME ReleaseInv,
           leases' \subseteq leases,
           \A t \in Threads : pc'[t] = "teardown" =>
                                  pc[t] = "teardown" /\ held'[t] = held[t],
           \A t \in Threads : outcome'[t].tag = "Released" =>
                                  outcome'[t] = outcome[t]
    PROVE  ReleaseInv'
  BY DEF ReleaseInv, TeardownAlone, ReleasedOnce, HeldResource

\* A teardown has the lock, and an id is revoked once.
LEMMA ReleaseStep ==
    TypeInv /\ IdsInv /\ ReleaseInv /\ [Next]_vars => ReleaseInv'
  <1> SUFFICES ASSUME TypeInv, IdsInv, ReleaseInv, [Next]_vars
               PROVE  ReleaseInv'
    OBVIOUS
  <1> TypeOK /\ ControlInv
    BY DEF TypeInv
  <1> USE DEF Goto, Finish, issuer_vars, store_vars, thread_vars, Outcome
  <1> DEFINE Quiet ==
        /\ leases' \subseteq leases
        /\ \A t \in Threads : pc'[t] = "teardown" =>
                                  pc[t] = "teardown" /\ held'[t] = held[t]
        /\ \A t \in Threads : outcome'[t].tag = "Released" =>
                                  outcome'[t] = outcome[t]
  <1>1. ASSUME NEW t \in Threads, NEW c \in Receivable, Receive(t, c)
        PROVE  Quiet
    BY <1>1 DEF Receive, TypeOK
  <1>2. ASSUME NEW t \in Threads, HandleStatus(t) PROVE Quiet
    BY <1>2 DEF HandleStatus, TypeOK
  <1>3. ASSUME NEW t \in Threads, RefuseUnauthorizable(t) PROVE Quiet
    BY <1>3 DEF RefuseUnauthorizable, TypeOK
  <1>4. ASSUME NEW t \in Threads, RefuseAtCapacity(t) PROVE Quiet
    BY <1>4, PruneType DEF RefuseAtCapacity, TypeOK
  <1>5. ASSUME NEW t \in Threads, RefuseToIssue(t) PROVE Quiet
    BY <1>5, PruneType DEF RefuseToIssue, TypeOK
  <1>6. ASSUME NEW t \in Threads, IssueReservingCapacity(t) PROVE Quiet
    BY <1>6, PruneType DEF IssueReservingCapacity, TypeOK
  <1>7. ASSUME NEW t \in Threads, EnforceAllowed(t) PROVE Quiet
    BY <1>7 DEF EnforceAllowed, TypeOK
  <1>7a. ASSUME NEW t \in Threads, MeasureRemaining(t) PROVE Quiet
    BY <1>7a DEF MeasureRemaining, TypeOK
  <1>8. ASSUME NEW t \in Threads, EnforceFails(t) PROVE Quiet
    BY <1>8 DEF EnforceFails, TypeOK
  <1>9. ASSUME NEW t \in Threads, EnforcePanics(t) PROVE Quiet
    BY <1>9 DEF EnforcePanics, Unwind, TypeOK
  <1>10. ASSUME NEW t \in Threads, InsertGranted(t) PROVE ReleaseInv'
    <2>1. \A u \in Threads : pc'[u] # "teardown"
      BY <1>10 DEF InsertGranted, LockFree, TypeOK
    <2>2. outcome' = outcome
      BY <1>10 DEF InsertGranted
    <2> QED
      BY <2>1, <2>2 DEF ReleaseInv, TeardownAlone, ReleasedOnce
  <1>11. ASSUME NEW t \in Threads, Rollback(t) PROVE Quiet
    BY <1>11 DEF Rollback, TypeOK
  <1>12. ASSUME NEW t \in Threads, ReleaseUnknown(t) PROVE Quiet
    BY <1>12, PruneType DEF ReleaseUnknown, TypeOK
  <1>13. ASSUME NEW t \in Threads, ReleaseRefused(t) PROVE Quiet
    BY <1>13, PruneType DEF ReleaseRefused, TypeOK
  <1>14. ASSUME NEW t \in Threads, ReleaseValid(t) PROVE ReleaseInv'
    <2> DEFINE pruned == Prune(leases, clock)
    <2>1. PICK stored \in WithId(pruned, call[t].lease_id) :
              /\ outcome' = [outcome EXCEPT ![t] =
                     [tag |-> "Released", lease_id |-> stored.id,
                      revocation |-> Revocation(stored.id)]]
              /\ leases' = pruned \ {stored}
              /\ held' = [held EXCEPT ![t] = stored]
              /\ pc' = [pc EXCEPT ![t] =
                     IF AnyOtherForSameResource(pruned, stored)
                         THEN "record" ELSE "teardown"]
      BY <1>14 DEF ReleaseValid
    <2>2. pruned \subseteq leases /\ stored \in pruned
      BY <2>1, PruneType DEF WithId, TypeOK
    <2>3. Revocation(stored.id) = "Revoked"
      BY <2>2, FreshRevocation DEF IdsInv, TypeOK, ComputeLeases
    <2>4. ReleasedOnce'
      BY <2>1, <2>3 DEF ReleaseInv, ReleasedOnce, TypeOK
    <2>5. \A u \in Threads : pc[u] # "teardown"
      BY <1>14 DEF ReleaseValid, BeginRelease, LockFree
    <2>6. ASSUME pc'[t] = "teardown", NEW l \in leases'
          PROVE  l.origin.request.resource # stored.origin.request.resource
      <3>1. ~AnyOtherForSameResource(pruned, stored)
        BY <2>1, <2>6 DEF TypeOK
      <3>2. l \in pruned /\ l.id # stored.id
        BY <2>1, <2>2, <2>6 DEF IdsInv
      <3> QED
        BY <3>1, <3>2 DEF AnyOtherForSameResource
    <2>7. TeardownAlone'
      BY <2>1, <2>5, <2>6 DEF TeardownAlone, HeldResource, TypeOK
    <2> QED
      BY <2>4, <2>7 DEF ReleaseInv
  <1>15. ASSUME NEW t \in Threads, Teardown(t) PROVE Quiet
    BY <1>15 DEF Teardown, TypeOK
  <1>16. ASSUME NEW t \in Threads, TeardownPanics(t) PROVE Quiet
    BY <1>16 DEF TeardownPanics, Unwind, TypeOK
  <1>17. ASSUME NEW t \in Threads, Record(t) PROVE Quiet
    BY <1>17 DEF Record, TypeOK
  <1>18. ASSUME NEW t \in Threads, Reply(t) PROVE Quiet
    BY <1>18 DEF Reply, TypeOK
  <1>19. ASSUME Tick PROVE Quiet
    BY <1>19 DEF Tick
  <1>20. ASSUME Restart PROVE Quiet
    BY <1>20 DEF Restart
  <1>21. ASSUME UNCHANGED vars PROVE Quiet
    BY <1>21 DEF vars
  <1>22. Quiet => ReleaseInv'
    BY ReleaseQuiet
  <1> HIDE DEF Quiet
  <1> QED
    BY <1>1, <1>2, <1>3, <1>4, <1>5, <1>6, <1>7, <1>7a, <1>8, <1>9, <1>10, <1>11,
       <1>12, <1>13, <1>14, <1>15, <1>16, <1>17, <1>18, <1>19, <1>20, <1>21,
       <1>22
       DEF Next, Handle

SafetyInv == TypeInv /\ IdsInv /\ ReleaseInv

\* The three invariants hold together.
LEMMA SafetyInvariant == Spec => []SafetyInv
  <1>1. Init => SafetyInv
    BY TypeInit, IdsInit, ReleaseInit DEF SafetyInv
  <1>2. SafetyInv /\ [Next]_vars => SafetyInv'
    BY TypeStep, IdsStep, ReleaseStep DEF SafetyInv
  <1> QED
    BY <1>1, <1>2, PTL DEF Spec

\* A lease is released at most once: no two releases of the same id both
\* report success, however they interleave with issues and restarts.
THEOREM EveryReleaseIsTheFirst == Spec => []ReleasedOnce
  <1>1. SafetyInv => ReleasedOnce
    BY DEF SafetyInv, ReleaseInv
  <1> QED
    BY SafetyInvariant, <1>1, PTL

-----------------------------------------------------------------------------
(* What a step may never do *)

\* Enforcement is taken away only by the backend call of a release.
LEMMA TeardownStep ==
    ASSUME SafetyInv, [Next]_vars, instance' = instance,
           NEW r \in Resources, enforced[r], ~enforced'[r]
    PROVE  \A l \in leases' : l.origin.request.resource # r
  <1> TypeOK /\ TeardownAlone
    BY DEF SafetyInv, TypeInv, ReleaseInv
  <1> USE DEF issuer_vars, store_vars, thread_vars
  <1>1. CASE \E t \in Threads : Teardown(t) \/ TeardownPanics(t)
    <2>1. PICK t \in Threads : Teardown(t) \/ TeardownPanics(t)
      BY <1>1
    <2>2. /\ pc[t] = "teardown"
          /\ enforced' \in {enforced, [enforced EXCEPT ![HeldResource(t)] = FALSE]}
          /\ leases' = leases
      BY <2>1 DEF Teardown, TeardownPanics
    <2>3. r = HeldResource(t)
      BY <2>2 DEF TypeOK
    <2> QED
      BY <2>2, <2>3 DEF TeardownAlone
  <1>2. CASE ~\E t \in Threads : Teardown(t) \/ TeardownPanics(t)
    <2>1. CASE \E t \in Threads : EnforceAllowed(t) \/ EnforcePanics(t)
      BY <2>1 DEF EnforceAllowed, EnforcePanics, TypeOK
    <2>2. CASE Restart
      BY <2>2 DEF Restart, TypeOK
    <2>3. CASE /\ ~(\E t \in Threads : EnforceAllowed(t) \/ EnforcePanics(t))
               /\ ~Restart
      <3>1. enforced' = enforced
        BY <1>2, <2>3
           DEF Next, Handle, Receive, HandleStatus, RefuseUnauthorizable,
               RefuseAtCapacity, RefuseToIssue, IssueReservingCapacity,
               MeasureRemaining, EnforceFails, InsertGranted, Rollback,
               ReleaseUnknown, ReleaseRefused, ReleaseValid, Record, Reply,
               Tick, vars
      <3> QED
        BY <3>1
    <2> QED
      BY <2>1, <2>2, <2>3
  <1> QED
    BY <1>1, <1>2

\* A release never tears down enforcement while a lease on the same resource
\* is stored, because it decides and calls the backend under one lock.
THEOREM TeardownSparesOthers == Spec => TeardownSparesStoredLeases
  <1>1. SafetyInv /\ [Next]_vars
            => [instance' = instance =>
                    \A r \in Resources :
                        enforced[r] /\ ~enforced'[r] =>
                            \A l \in leases' :
                                l.origin.request.resource # r]_vars
    BY TeardownStep
  <1> QED
    BY SafetyInvariant, <1>1, PTL DEF Spec, TeardownSparesStoredLeases

\* Pruning takes expired leases only.
LEMMA PrunedHasExpired ==
    ASSUME TypeOK, NEW l \in leases, l \notin Prune(leases, clock)
    PROVE  l.expires_at <= clock
  BY DEF Prune, TypeOK, ComputeLeases

\* The only steps that remove a stored lease: a prune, and the release by a
\* thread whose peer validated as the holder.
LEMMA RemovalStep ==
    ASSUME SafetyInv, [Next]_vars, instance' = instance,
           NEW l \in leases \ leases'
    PROVE  \/ l.expires_at <= clock
           \/ \E t \in Threads :
                  /\ HeldBy(l, t)
                  /\ outcome'[t].tag = "Released"
                  /\ outcome'[t].lease_id = l.id
  <1> TypeOK /\ ControlInv /\ IdsInv
    BY DEF SafetyInv, TypeInv
  <1> USE DEF issuer_vars, store_vars, thread_vars
  <1>1. CASE leases' = Prune(leases, clock)
    BY <1>1, PrunedHasExpired
  <1>2. CASE \E t \in Threads : InsertGranted(t)
    <2>1. PICK t \in Threads : InsertGranted(t)
      BY <1>2
    <2>2. t \in InFlight /\ leases' = Insert(leases, held[t])
      BY <2>1 DEF InsertGranted, InFlight
    <2> QED
      BY <2>2 DEF Insert, IdsInv
  <1>3. CASE \E t \in Threads : ReleaseValid(t)
    <2>1. PICK t \in Threads : ReleaseValid(t)
      BY <1>3
    <2>2. PICK stored \in WithId(Prune(leases, clock), call[t].lease_id) :
              /\ Validate(stored, Presented(t, stored), clock) = "Valid"
              /\ outcome' = [outcome EXCEPT ![t] =
                     [tag |-> "Released", lease_id |-> stored.id,
                      revocation |-> Revocation(stored.id)]]
              /\ leases' = Prune(leases, clock) \ {stored}
      BY <2>1 DEF ReleaseValid
    <2>3. CASE l = stored
      <3>1. /\ CompareProcess(stored.origin.context,
                              Presented(t, stored).context)
                   \notin {"Different", "Indeterminate"}
            /\ CompareExecutable(stored.origin.context,
                                 Presented(t, stored).context)
                   \notin {"Different", "Indeterminate"}
        BY <2>2 DEF Validate
      <3>2. /\ CompareProcess(stored.origin.context,
                              call[t].peer.workload) = "Same"
            /\ CompareExecutable(stored.origin.context,
                                 call[t].peer.workload) = "Same"
        BY <3>1
           DEF CompareProcess, CompareExecutable, CompareEvidence, Presented
      <3>3. Authorizable(call[t].peer) /\ call[t].op = "ReleaseLease"
        BY <2>1 DEF ReleaseValid, BeginRelease
      <3>4. call[t] # NoCall
        BY <3>3 DEF NoCall
      <3>5. outcome'[t].tag = "Released" /\ outcome'[t].lease_id = stored.id
        BY <2>2 DEF TypeOK
      <3> QED
        BY <2>3, <3>2, <3>3, <3>4, <3>5 DEF HeldBy
    <2>4. CASE l # stored
      BY <2>2, <2>4, PrunedHasExpired
    <2> QED
      BY <2>3, <2>4
  <1>4. CASE Restart
    BY <1>4 DEF Restart, TypeOK
  <1>5. CASE /\ leases' # Prune(leases, clock)
             /\ ~\E t \in Threads : InsertGranted(t) \/ ReleaseValid(t)
             /\ ~Restart
    <2>1. leases' = leases
      BY <1>5
         DEF Next, Handle, Receive, HandleStatus, RefuseUnauthorizable,
             RefuseAtCapacity, RefuseToIssue, IssueReservingCapacity,
             EnforceAllowed, MeasureRemaining, EnforceFails, EnforcePanics,
             Rollback,
             ReleaseUnknown, ReleaseRefused, Teardown, TeardownPanics, Record,
             Reply, Tick, vars
    <2> QED
      BY <2>1
  <1> QED
    BY <1>1, <1>2, <1>3, <1>4, <1>5

\* Nobody ends another workload's lease: while the agent runs, a stored lease
\* disappears only by expiry or by a release whose freshly derived peer is the
\* same process in the same executable image as the one it was issued to.
THEOREM OnlyTheHolderEndsALease == Spec => OnlyHolderEndsLease
  <1>1. SafetyInv /\ [Next]_vars
            => [instance' = instance =>
                    \A l \in leases \ leases' :
                        \/ l.expires_at <= clock
                        \/ \E t \in Threads :
                               /\ HeldBy(l, t)
                               /\ outcome'[t].tag = "Released"
                               /\ outcome'[t].lease_id = l.id]_vars
    BY RemovalStep
  <1> QED
    BY SafetyInvariant, <1>1, PTL DEF Spec, OnlyHolderEndsLease

\* A refused release was not the holder's release of an unexpired lease.
LEMMA RefusalStep ==
    ASSUME SafetyInv, [Next]_vars, NEW t \in Threads, pc[t] = "begin",
           outcome'[t].tag \in {"ReleaseUnknownLease", "ReleaseRefused"},
           NEW l \in leases, l.id = call[t].lease_id, HeldBy(l, t)
    PROVE  l.expires_at <= clock
  <1> TypeOK /\ ControlInv /\ IdsInv
    BY DEF SafetyInv, TypeInv
  <1> USE DEF issuer_vars, store_vars, thread_vars, Goto, Finish, Outcome
  <1> SUFFICES ASSUME ~(l.expires_at <= clock) PROVE FALSE
    OBVIOUS
  <1>1. l \in WithId(Prune(leases, clock), call[t].lease_id)
    BY PrunedHasExpired DEF WithId
  <1>2. CASE ReleaseUnknown(t)
    BY <1>1, <1>2 DEF ReleaseUnknown
  <1>3. CASE ReleaseRefused(t)
    <2>1. PICK stored \in WithId(Prune(leases, clock), call[t].lease_id) :
              Validate(stored, Presented(t, stored), clock) # "Valid"
      BY <1>3 DEF ReleaseRefused
    <2>2. stored = l
      BY <1>1, <2>1, PruneType DEF WithId, IdsInv, TypeOK
    <2>3. FreshId(l.id)
      BY DEF IdsInv
    <2>4. ~(clock >= l.expires_at)
      BY DEF TypeOK, ComputeLeases
    <2>5. /\ CompareProcess(l.origin.context, Presented(t, l).context) = "Same"
          /\ CompareExecutable(l.origin.context, Presented(t, l).context) = "Same"
          /\ Presented(t, l).request = l.origin.request
      BY DEF HeldBy, Presented
    <2>6. Validate(l, Presented(t, l), clock) = "Valid"
      BY <2>3, <2>4, <2>5 DEF Validate, FreshId
    <2> QED
      BY <2>1, <2>2, <2>6
  <1>4. CASE ~ReleaseUnknown(t) /\ ~ReleaseRefused(t)
    <2>1. outcome[t] = [tag |-> "None"]
      BY DEF ControlInv
    <2>2. outcome'[t].tag \notin {"ReleaseUnknownLease", "ReleaseRefused"}
      <3>3. CASE Restart
        BY <3>3 DEF Restart
      <3>4. CASE \E u \in Threads : Handle(u)
        <4>1. PICK u \in Threads : Handle(u)
          BY <3>4
        <4>2. CASE u = t
          BY <1>4, <2>1, <4>1, <4>2
             DEF Handle, HandleStatus, RefuseUnauthorizable, RefuseAtCapacity,
                 RefuseToIssue, IssueReservingCapacity, EnforceAllowed,
                 MeasureRemaining, EnforceFails, EnforcePanics, Unwind,
                 InsertGranted, Rollback,
                 ReleaseValid, Teardown, TeardownPanics, Record, Reply, TypeOK
        <4>3. CASE u # t
          <5>1. outcome'[t] = outcome[t]
            BY <4>1, <4>3
               DEF Handle, HandleStatus, RefuseUnauthorizable,
                   RefuseAtCapacity, RefuseToIssue, IssueReservingCapacity,
                   EnforceAllowed, MeasureRemaining, EnforceFails,
                   EnforcePanics, Unwind,
                   InsertGranted, Rollback, ReleaseUnknown, ReleaseRefused,
                   ReleaseValid, Teardown, TeardownPanics, Record, Reply,
                   TypeOK
          <5> QED
            BY <2>1, <5>1
        <4> QED
          BY <4>2, <4>3
      <3>5. CASE ~(\E u \in Threads : Handle(u)) /\ ~Restart
        BY <2>1, <3>5 DEF Next, Receive, Tick, vars
      <3> QED
        BY <3>3, <3>4, <3>5
    <2> QED
      BY <2>2
  <1> QED
    BY <1>2, <1>3, <1>4

\* The holder of a stored, unexpired lease is never refused its release,
\* neither as unknown nor as invalid.
THEOREM TheHolderIsNeverRefused == Spec => HolderNeverRefused
  <1>1. SafetyInv /\ [Next]_vars
            => [\A t \in Threads :
                    (/\ pc[t] = "begin"
                     /\ outcome'[t].tag \in {"ReleaseUnknownLease",
                                             "ReleaseRefused"})
                    => \A l \in leases :
                           l.id = call[t].lease_id /\ HeldBy(l, t)
                               => l.expires_at <= clock]_vars
    BY RefusalStep
  <1> QED
    BY SafetyInvariant, <1>1, PTL DEF Spec, HolderNeverRefused

-----------------------------------------------------------------------------
(* What the client is told *)

\* A handler's step is its own: no other thread's part of the state changes.
LEMMA HandlerIsLocal ==
    ASSUME TypeOK, NEW t \in Threads, NEW u \in Threads \ {t},
           Handle(t) \/ \E c \in Receivable : Receive(t, c)
    PROVE  /\ pc'[u] = pc[u]
           /\ call'[u] = call[u]
           /\ held'[u] = held[u]
           /\ outcome'[u] = outcome[u]
           /\ recorded'[u] = recorded[u]
  BY DEF Handle, Receive, HandleStatus, RefuseUnauthorizable, RefuseAtCapacity,
         RefuseToIssue, IssueReservingCapacity, EnforceAllowed,
         MeasureRemaining, EnforceFails, EnforcePanics, Unwind, InsertGranted,
         Rollback, ReleaseUnknown, ReleaseRefused, ReleaseValid, Teardown,
         TeardownPanics, Record, Reply, Goto, Finish, issuer_vars, store_vars,
         TypeOK

\* Within one agent instance a revocation stands, the clock does not go back,
\* and a lease that enters the store is not one that was revoked.
LEMMA RevocationStands ==
    ASSUME TypeOK, IdsInv, [Next]_vars, ~Restart
    PROVE  /\ instance' = instance
           /\ revoked \subseteq revoked'
           /\ \A l \in leases' : l \in leases \/ l.id.sequence \notin revoked
           /\ clock' \in Nat /\ clock <= clock'
  <1> USE DEF issuer_vars, store_vars, thread_vars
  <1>1. instance' = instance /\ clock' \in Nat /\ clock <= clock'
    <2>1. instance' = instance /\ (clock' = clock \/ clock' = clock + 1)
      BY DEF Next, Handle, Receive, HandleStatus, RefuseUnauthorizable,
             RefuseAtCapacity, RefuseToIssue, IssueReservingCapacity,
             EnforceAllowed, MeasureRemaining, EnforceFails, EnforcePanics,
             InsertGranted, Rollback, ReleaseUnknown, ReleaseRefused,
             ReleaseValid, Teardown, TeardownPanics, Record, Reply, Tick, vars
    <2> QED
      BY <2>1 DEF TypeOK
  <1>2. revoked \subseteq revoked'
    BY DEF Next, Handle, Receive, HandleStatus, RefuseUnauthorizable,
           RefuseAtCapacity, RefuseToIssue, IssueReservingCapacity,
           EnforceAllowed, MeasureRemaining, EnforceFails, EnforcePanics,
           InsertGranted, Rollback, ReleaseUnknown, ReleaseRefused,
           ReleaseValid, Teardown, TeardownPanics, Record, Reply, Tick, vars,
           RevokedAfter
  <1>3. CASE \E t \in Threads : InsertGranted(t)
    <2>1. PICK t \in Threads : InsertGranted(t)
      BY <1>3
    <2>2. t \in InFlight /\ leases' = Insert(leases, held[t])
      BY <2>1 DEF InsertGranted, InFlight
    <2> QED
      BY <1>1, <1>2, <2>2 DEF Insert, IdsInv, FreshId
  <1>4. CASE ~\E t \in Threads : InsertGranted(t)
    <2>1. leases' = leases \/ leases' \subseteq Prune(leases, clock)
      BY <1>4
         DEF Next, Handle, Receive, HandleStatus, RefuseUnauthorizable,
             RefuseAtCapacity, RefuseToIssue, IssueReservingCapacity,
             EnforceAllowed, MeasureRemaining, EnforceFails, EnforcePanics,
             Rollback, ReleaseUnknown, ReleaseRefused, ReleaseValid,
             Teardown, TeardownPanics, Record, Reply, Tick, vars
    <2> QED
      BY <1>1, <1>2, <2>1, PruneType DEF TypeOK
  <1> QED
    BY <1>3, <1>4

\* FailedRequestLeavesNoLease and AnswersAreRecorded made inductive: only a
\* release is ever inside backend.revoke, and a request being rolled back has
\* the lease it gives up.
AnswerInv ==
    /\ AnswersAreRecorded
    /\ FailedRequestLeavesNoLease
    /\ \A t \in Threads : pc[t] = "teardown" => call[t].op = "ReleaseLease"
    /\ \A t \in Threads :
           pc[t] # "reply" => recorded[t] = 0 /\ outcome[t].tag # "Panicked"

\* At first nothing is answered.
LEMMA AnswerInit == Init => AnswerInv
  BY DEF Init, AnswerInv, AnswersAreRecorded, FailedRequestLeavesNoLease, Outcome

\* The part of AnswerInv that is about one thread.
AnswerOf(t) ==
    /\ pc[t] = "reply" =>
           recorded[t] = IF outcome[t].tag = "Panicked" THEN 0 ELSE 1
    /\ pc[t] # "reply" => recorded[t] = 0 /\ outcome[t].tag # "Panicked"
    /\ (/\ pc[t] \in {"record", "reply"}
        /\ call[t].op = "RequestLease"
        /\ held[t] # NoLease
        /\ outcome[t].tag \notin {"Granted", "Panicked"})
       => /\ held[t].id.sequence \in revoked
          /\ WithId(leases, held[t].id) = {}
    /\ pc[t] = "teardown" => call[t].op = "ReleaseLease"

\* AnswerInv thread by thread.
LEMMA AnswerParts == AnswerInv <=> \A t \in Threads : AnswerOf(t)
  BY DEF AnswerInv, AnswerOf, AnswersAreRecorded, FailedRequestLeavesNoLease

\* A thread that does not move keeps its part.
LEMMA AnswerFrame ==
    ASSUME TypeOK, IdsInv, [Next]_vars, ~Restart,
           NEW u \in Threads, AnswerOf(u),
           pc'[u] = pc[u], call'[u] = call[u], held'[u] = held[u],
           outcome'[u] = outcome[u], recorded'[u] = recorded[u]
    PROVE  AnswerOf(u)'
  BY RevocationStands DEF AnswerOf, WithId

\* The compensating revoke withdraws the lease it is for.
LEMMA RollbackAnswer ==
    ASSUME TypeInv, IdsInv, NEW t \in Threads, AnswerOf(t), Rollback(t)
    PROVE  AnswerOf(t)'
  <1> TypeOK /\ ControlInv
    BY DEF TypeInv
  <1>1. /\ t \in InFlight
        /\ revoked' = RevokedAfter(held[t].id)
        /\ pc'[t] = "record"
        /\ UNCHANGED <<leases, held, outcome, recorded>>
        /\ pc[t] = "rollback"
    BY DEF Rollback, InFlight, Goto, TypeOK
  <1>2. held[t].id \in LeaseIds /\ FreshId(held[t].id)
    BY <1>1 DEF IdsInv, InFlight, ControlInv, ComputeLeases
  <1>3. held[t].id.sequence \in revoked'
    BY <1>1, <1>2, FreshRevocation
  <1>4. WithId(leases, held[t].id) = {}
    BY <1>1 DEF WithId, IdsInv
  <1> QED
    BY <1>1, <1>3, <1>4 DEF AnswerOf, WithId

\* No step of another thread takes back what an answer rests on.
LEMMA AnswerStep ==
    TypeInv /\ IdsInv /\ AnswerInv /\ [Next]_vars => AnswerInv'
  <1> SUFFICES ASSUME TypeInv, IdsInv, AnswerInv, [Next]_vars
               PROVE  AnswerInv'
    OBVIOUS
  <1> TypeOK /\ ControlInv /\ \A t \in Threads : AnswerOf(t)
    BY AnswerParts DEF TypeInv
  <1> SUFFICES \A u \in Threads : AnswerOf(u)'
    BY DEF AnswerInv, AnswerOf, AnswersAreRecorded, FailedRequestLeavesNoLease
  <1>1. CASE Restart
    BY <1>1 DEF Restart, AnswerOf, Outcome
  <1>2. ASSUME ~Restart, NEW t \in Threads,
               Handle(t) \/ \E c \in Receivable : Receive(t, c)
        PROVE  \A u \in Threads : AnswerOf(u)'
    <2>1. \A u \in Threads \ {t} : AnswerOf(u)'
      BY <1>2, HandlerIsLocal, AnswerFrame
    <2>2. AnswerOf(t)'
      <3> USE DEF Goto, Finish, Outcome, issuer_vars, store_vars, TypeOK
      <3>1. CASE \E c \in Receivable : Receive(t, c)
        BY <3>1 DEF Receive, AnswerOf
      <3>2. CASE HandleStatus(t)
        BY <3>2 DEF HandleStatus, AnswerOf
      <3>3. CASE RefuseUnauthorizable(t)
        BY <3>3 DEF RefuseUnauthorizable, AnswerOf, ControlInv
      <3>4. CASE RefuseAtCapacity(t)
        BY <3>4 DEF RefuseAtCapacity, BeginIssue, AnswerOf, ControlInv
      <3>5. CASE RefuseToIssue(t)
        <4>1. /\ outcome'[t].tag \in {"PolicyDenied", "LeaseIssueFailed"}
              /\ pc[t] = "begin" /\ pc'[t] = "record"
              /\ UNCHANGED <<call, held, recorded>>
          BY <3>5 DEF RefuseToIssue, BeginIssue
        <4> QED
          BY <4>1 DEF AnswerOf, ControlInv
      <3>6. CASE IssueReservingCapacity(t)
        BY <3>6 DEF IssueReservingCapacity, BeginIssue, AnswerOf
      <3>7. CASE EnforceAllowed(t)
        BY <3>7 DEF EnforceAllowed, AnswerOf
      <3>8. CASE MeasureRemaining(t)
        BY <3>8 DEF MeasureRemaining, AnswerOf
      <3>9. CASE EnforceFails(t)
        BY <3>9 DEF EnforceFails, AnswerOf
      <3>10. CASE EnforcePanics(t)
        BY <3>10 DEF EnforcePanics, Unwind, AnswerOf
      <3>11. CASE InsertGranted(t)
        BY <3>11 DEF InsertGranted, AnswerOf, ControlInv
      <3>12. CASE Rollback(t)
        BY <3>12, RollbackAnswer
      <3>13. CASE ReleaseUnknown(t)
        BY <3>13 DEF ReleaseUnknown, BeginRelease, AnswerOf
      <3>14. CASE ReleaseRefused(t)
        BY <3>14 DEF ReleaseRefused, BeginRelease, AnswerOf
      <3>15. CASE ReleaseValid(t)
        BY <3>15 DEF ReleaseValid, BeginRelease, AnswerOf
      <3>16. CASE Teardown(t)
        BY <3>16 DEF Teardown, AnswerOf
      <3>17. CASE TeardownPanics(t)
        BY <3>17 DEF TeardownPanics, Unwind, AnswerOf
      <3>18. CASE Record(t)
        BY <3>18 DEF Record, AnswerOf
      <3>19. CASE Reply(t)
        BY <3>19 DEF Reply, AnswerOf
      <3> QED
        BY <1>2, <3>1, <3>2, <3>3, <3>4, <3>5, <3>6, <3>7, <3>8, <3>9, <3>10,
           <3>11, <3>12, <3>13, <3>14, <3>15, <3>16, <3>17, <3>18, <3>19
           DEF Handle
    <2> QED
      BY <2>1, <2>2
  <1>3. ASSUME ~Restart, UNCHANGED thread_vars
        PROVE  \A u \in Threads : AnswerOf(u)'
    BY <1>3, AnswerFrame DEF thread_vars
  <1> QED
    BY <1>1, <1>2, <1>3 DEF Next, Tick, vars, thread_vars

\* What GrantNeverOverstates rests on: a lease between issue and insert was
\* issued in the past, for exactly the ttl, without wrapping.
HeldTermInv ==
    \A t \in InFlight :
        /\ held[t].expires_at = held[t].issued_at + LeaseTtl
        /\ held[t].expires_at <= MaxTime
        /\ held[t].issued_at <= clock

GrantInv == HeldTermInv /\ GrantNeverOverstates

\* At first nothing is granted.
LEMMA GrantInit == Init => GrantInv
  BY DEF Init, GrantInv, HeldTermInv, GrantNeverOverstates, InFlight, Outcome

\* The part of GrantInv that is about one thread.
GrantOf(t) ==
    /\ pc[t] \in {"enforce", "allowed", "insert", "rollback"} =>
           /\ held[t].expires_at = held[t].issued_at + LeaseTtl
           /\ held[t].expires_at <= MaxTime
           /\ held[t].issued_at <= clock
    /\ outcome[t].tag = "Granted" =>
           /\ outcome[t].remaining \in 1..LeaseTtl
           /\ outcome[t].lease.expires_at
                  = outcome[t].lease.issued_at + LeaseTtl
           /\ outcome[t].lease.expires_at <= MaxTime
           /\ outcome[t].lease.expires_at - outcome[t].remaining
                  \in outcome[t].lease.issued_at..clock

\* GrantInv thread by thread.
LEMMA GrantParts == GrantInv <=> \A t \in Threads : GrantOf(t)
  BY DEF GrantInv, GrantOf, HeldTermInv, GrantNeverOverstates, InFlight

\* What a granted outcome holds.
LEMMA GrantedType ==
    ASSUME NEW o \in Outcomes, o.tag = "Granted"
    PROVE  o.lease \in ComputeLeases /\ o.remaining \in Nat
  BY DEF Outcomes

\* The times of a lease are naturals.
LEMMA LeaseTimes ==
    ASSUME NEW l \in ComputeLeases
    PROVE  l.issued_at \in Nat /\ l.expires_at \in Nat
  BY DEF ComputeLeases

\* A thread that does not move keeps its part while the clock advances.
LEMMA GrantFrame ==
    ASSUME TypeInv, NEW u \in Threads, GrantOf(u),
           clock' \in Nat, clock <= clock',
           pc'[u] = pc[u], held'[u] = held[u], outcome'[u] = outcome[u]
    PROVE  GrantOf(u)'
  <1>1. clock \in Nat /\ outcome[u] \in Outcomes
    BY DEF TypeInv, TypeOK
  <1>2. ASSUME pc[u] \in {"enforce", "allowed", "insert", "rollback"}
        PROVE  held[u].issued_at <= clock'
    <2>1. held[u] \in ComputeLeases
      BY <1>2 DEF TypeInv, ControlInv
    <2> QED
      BY <1>1, <1>2, <2>1, LeaseTimes DEF GrantOf
  <1>3. ASSUME outcome[u].tag = "Granted"
        PROVE  outcome[u].lease.expires_at - outcome[u].remaining
                   \in outcome[u].lease.issued_at..clock'
    <2>1. outcome[u].lease \in ComputeLeases /\ outcome[u].remaining \in Nat
      BY <1>1, <1>3, GrantedType
    <2> QED
      BY <1>1, <1>3, <2>1, LeaseTimes DEF GrantOf
  <1> QED
    BY <1>2, <1>3 DEF GrantOf

\* The clock read at issue: now + ttl was checked against the clock's range.
LEMMA IssueGrant ==
    ASSUME TypeInv, NEW t \in Threads, IssueReservingCapacity(t)
    PROVE  GrantOf(t)'
  <1> DEFINE l == IssuedLease(Origin(t), clock, LeaseTtl)
  <1>1. /\ held'[t] = l /\ clock' = clock
        /\ outcome'[t] = [tag |-> "None"]
    BY DEF IssueReservingCapacity, BeginIssue, TypeInv, TypeOK, ControlInv,
           Outcome
  <1>2. clock + LeaseTtl <= MaxTime
    <2>1. IssueError(Origin(t), clock, LeaseTtl, LeaseTtl) = "None"
      BY DEF IssueReservingCapacity
    <2>2. clock \in Nat
      BY DEF TypeInv, TypeOK
    <2> QED
      BY <2>1, <2>2, ConfigAssumption DEF IssueError
  <1>3. l.issued_at = clock /\ l.expires_at = clock + LeaseTtl
    BY DEF IssuedLease
  <1> HIDE DEF l
  <1> QED
    BY <1>1, <1>2, <1>3 DEF GrantOf, TypeInv, TypeOK

\* The second clock reading, taken outside the lock after enforcement.
LEMMA MeasureGrant ==
    ASSUME TypeInv, NEW t \in Threads, GrantOf(t), MeasureRemaining(t)
    PROVE  GrantOf(t)'
  <1> DEFINE r == Remaining(held[t])
  <1>1. /\ pc[t] = "allowed" /\ held[t] \in ComputeLeases
        /\ held'[t] = held[t] /\ clock' = clock
        /\ outcome'[t] =
               IF r = 0
                   THEN [tag |-> "LeaseIssueFailed", error |-> "ExpiryOverflow"]
                   ELSE [tag |-> "Granted", lease |-> held[t], remaining |-> r]
    BY DEF MeasureRemaining, TypeInv, TypeOK, ControlInv
  <1>2. /\ held[t].expires_at = held[t].issued_at + LeaseTtl
        /\ held[t].expires_at <= MaxTime
        /\ held[t].issued_at <= clock
    BY <1>1 DEF GrantOf
  <1>3. held[t].issued_at \in Nat /\ held[t].expires_at \in Nat /\ clock \in Nat
    BY <1>1, LeaseTimes DEF TypeInv, TypeOK
  <1>4. ASSUME r # 0
        PROVE  /\ r \in 1..LeaseTtl
               /\ held[t].expires_at - r \in held[t].issued_at..clock
    <2> DEFINE e == held[t].expires_at
               i == held[t].issued_at
    <2>1. r = e - clock /\ e > clock
      BY <1>3, <1>4 DEF Remaining
    <2>2. e = i + LeaseTtl /\ i <= clock /\ e \in Nat /\ i \in Nat /\ clock \in Nat
      BY <1>2, <1>3
    <2> HIDE DEF e, i, r
    <2>3. r \in 1..LeaseTtl /\ e - r \in i..clock
      BY <2>1, <2>2, ConfigAssumption
    <2> QED
      BY <2>3 DEF e, i
  <1> HIDE DEF r
  <1>5. CASE r = 0
    BY <1>1, <1>2, <1>5 DEF GrantOf
  <1>6. CASE r # 0
    <2>1. /\ outcome'[t].tag = "Granted"
          /\ outcome'[t].lease = held[t]
          /\ outcome'[t].remaining = r
      BY <1>1, <1>6
    <2> QED
      BY <1>1, <1>2, <1>4, <1>6, <2>1 DEF GrantOf
  <1> QED
    BY <1>5, <1>6

\* The clock moves on between issue and view, and only forwards.
LEMMA GrantStep ==
    TypeInv /\ IdsInv /\ GrantInv /\ [Next]_vars => GrantInv'
  <1> SUFFICES ASSUME TypeInv, IdsInv, GrantInv, [Next]_vars
               PROVE  GrantInv'
    OBVIOUS
  <1> TypeOK /\ ControlInv /\ \A t \in Threads : GrantOf(t)
    BY GrantParts DEF TypeInv
  <1> SUFFICES \A u \in Threads : GrantOf(u)'
    BY DEF GrantInv, GrantOf, HeldTermInv, GrantNeverOverstates, InFlight
  <1>1. CASE Restart
    BY <1>1 DEF Restart, GrantOf, Outcome
  <1>2. ASSUME ~Restart, NEW t \in Threads,
               Handle(t) \/ \E c \in Receivable : Receive(t, c)
        PROVE  \A u \in Threads : GrantOf(u)'
    <2>0. clock' \in Nat /\ clock <= clock'
      BY <1>2, RevocationStands
    <2>1. \A u \in Threads \ {t} : GrantOf(u)'
      BY <1>2, <2>0, HandlerIsLocal, GrantFrame
    <2>2. GrantOf(t)'
      <3> USE DEF Goto, Finish, issuer_vars, store_vars, TypeOK, Outcome
      \* Steps that leave the window with an outcome that is not a grant, or
      \* with the outcome the thread already has.
      <3> DEFINE Leaves ==
            /\ clock' = clock
            /\ pc'[t] \notin {"enforce", "allowed", "insert", "rollback"}
            /\ outcome'[t] = outcome[t] \/ outcome'[t].tag # "Granted"
      \* Steps inside the window.
      <3> DEFINE Stays ==
            /\ clock' = clock
            /\ held'[t] = held[t]
            /\ pc[t] \in {"enforce", "allowed", "insert", "rollback"}
            /\ outcome'[t] = outcome[t] \/ outcome'[t].tag # "Granted"
      <3>1. ASSUME \E c \in Receivable : Receive(t, c) PROVE Leaves
        BY <3>1 DEF Receive
      <3>2. ASSUME HandleStatus(t) PROVE Leaves
        BY <3>2 DEF HandleStatus
      <3>3. ASSUME RefuseUnauthorizable(t) PROVE Leaves
        BY <3>3 DEF RefuseUnauthorizable
      <3>4. ASSUME RefuseAtCapacity(t) PROVE Leaves
        BY <3>4 DEF RefuseAtCapacity
      <3>5. ASSUME RefuseToIssue(t) PROVE Leaves
        BY <3>5 DEF RefuseToIssue
      <3>7. ASSUME EnforceAllowed(t) PROVE Stays
        BY <3>7 DEF EnforceAllowed
      <3>9. ASSUME EnforceFails(t) PROVE Stays
        BY <3>9 DEF EnforceFails
      <3>10. ASSUME EnforcePanics(t) PROVE Leaves
        BY <3>10 DEF EnforcePanics, Unwind
      <3>11. ASSUME InsertGranted(t) PROVE Leaves
        BY <3>11 DEF InsertGranted
      <3>12. ASSUME Rollback(t) PROVE Leaves
        BY <3>12 DEF Rollback
      <3>13. ASSUME ReleaseUnknown(t) PROVE Leaves
        BY <3>13 DEF ReleaseUnknown
      <3>14. ASSUME ReleaseRefused(t) PROVE Leaves
        BY <3>14 DEF ReleaseRefused
      <3>15. ASSUME ReleaseValid(t) PROVE Leaves
        BY <3>15 DEF ReleaseValid
      <3>16. ASSUME Teardown(t) PROVE Leaves
        BY <3>16 DEF Teardown
      <3>17. ASSUME TeardownPanics(t) PROVE Leaves
        BY <3>17 DEF TeardownPanics, Unwind
      <3>18. ASSUME Record(t) PROVE Leaves
        BY <3>18 DEF Record
      <3>19. ASSUME Reply(t) PROVE Leaves
        BY <3>19 DEF Reply
      <3>20. Leaves \/ Stays => GrantOf(t)'
        BY DEF GrantOf
      <3> HIDE DEF Leaves, Stays
      <3> QED
        BY <1>2, <3>1, <3>2, <3>3, <3>4, <3>5, <3>7, <3>9, <3>10, <3>11,
           <3>12, <3>13, <3>14, <3>15, <3>16, <3>17, <3>18, <3>19, <3>20,
           IssueGrant, MeasureGrant
           DEF Handle
    <2> QED
      BY <2>1, <2>2
  <1>3. ASSUME ~Restart, UNCHANGED thread_vars
        PROVE  \A u \in Threads : GrantOf(u)'
    BY <1>3, RevocationStands, GrantFrame DEF thread_vars
  <1> QED
    BY <1>1, <1>2, <1>3 DEF Next, Tick, vars, thread_vars

ClientInv == SafetyInv /\ AnswerInv /\ GrantInv

\* What clients are told rests on this invariant.
LEMMA ClientInvariant == Spec => []ClientInv
  <1>1. Init => AnswerInv /\ GrantInv
    BY AnswerInit, GrantInit
  <1>2. SafetyInv /\ AnswerInv /\ GrantInv /\ [Next]_vars
            => AnswerInv' /\ GrantInv'
    BY AnswerStep, GrantStep DEF SafetyInv
  <1> QED
    BY SafetyInvariant, <1>1, <1>2, PTL DEF Spec, ClientInv

\* A request that fails after its lease was issued (backend refusal, backend
\* error, a lease that ran out during enforcement) has that lease revoked and
\* out of the store when it is answered, whatever the other threads do
\* between its two critical sections.
THEOREM FailedRequestsLeaveNothing == Spec => []FailedRequestLeavesNoLease
  <1>1. ClientInv => FailedRequestLeavesNoLease
    BY DEF ClientInv, AnswerInv
  <1> QED
    BY ClientInvariant, <1>1, PTL

\* The event of an answered request has been recorded exactly once, and that
\* of a handler that panicked not at all, whatever the threads and the lock do
\* in between.
THEOREM AnswersFollowTheirEvents == Spec => []AnswersAreRecorded
  <1>1. ClientInv => AnswersAreRecorded
    BY DEF ClientInv, AnswerInv
  <1> QED
    BY ClientInvariant, <1>1, PTL

\* A grant states a positive remaining lifetime, never more than the lease
\* has, of a lease whose expiry did not wrap: although the clock is read
\* twice, at issue under the lock and after enforcement without it.
THEOREM GrantsAreHonest == Spec => []GrantNeverOverstates
  <1>1. ClientInv => GrantNeverOverstates
    BY DEF ClientInv, GrantInv
  <1> QED
    BY ClientInvariant, <1>1, PTL

\* CapacityExhausted is answered only by the capacity check, which counts the
\* unexpired leases and the reservations.
LEMMA ExhaustionStep ==
    ASSUME SafetyInv, CapacityInv, [Next]_vars, NEW t \in Threads,
           pc[t] = "begin", outcome'[t].tag = "CapacityExhausted"
    PROVE  Cardinality(Prune(leases, clock)) + Cardinality(InFlight) + leaked
               >= MaxOutstanding
  <1> TypeOK /\ ControlInv
    BY DEF SafetyInv, TypeInv
  <1>1. outcome[t].tag = "None"
    BY DEF ControlInv, Outcome
  <1>2. ~Restart
    BY DEF Restart, Outcome
  <1>3. Handle(t) \/ \E c \in Receivable : Receive(t, c)
    BY <1>1, <1>2, HandlerIsLocal DEF Next, Tick, vars, thread_vars
  <1>4. RefuseAtCapacity(t)
    BY <1>1, <1>3
       DEF Handle, Receive, HandleStatus, RefuseUnauthorizable,
           RefuseToIssue, IssueReservingCapacity, EnforceAllowed,
           MeasureRemaining, EnforceFails, EnforcePanics, Unwind,
           InsertGranted, Rollback, ReleaseUnknown, ReleaseRefused,
           ReleaseValid, Teardown, TeardownPanics, Record, Reply, Goto,
           Finish, Outcome, TypeOK
  <1> QED
    <2>1. IsFiniteSet(Prune(leases, clock))
      BY PruneType, FS_Subset DEF CapacityInv, TypeOK
    <2>2. Cardinality(Prune(leases, clock)) \in Nat
      BY <2>1, FS_CardinalityType
    <2>3. Cardinality(Prune(leases, clock)) + reserved >= MaxOutstanding
      BY <1>4 DEF RefuseAtCapacity, IsAtCapacity
    <2>4. reserved = Cardinality(InFlight) + leaked /\ leaked \in Nat
      BY DEF CapacityInv, ReservationsPaired, TypeOK
    <2> QED
      BY <2>2, <2>3, <2>4, InFlightFinite

\* CapacityExhausted means that capacity is exhausted: that many unexpired
\* leases are stored, on their way or, with a backend that panics, lost for
\* the rest of the agent's life.
THEOREM ExhaustionIsReal == Spec => NoSpuriousExhaustion
  <1>1. SafetyInv /\ CapacityInv /\ [Next]_vars
            => [\A t \in Threads :
                    (/\ pc[t] = "begin"
                     /\ outcome'[t].tag = "CapacityExhausted")
                    => Cardinality(Prune(leases, clock))
                           + Cardinality(InFlight) + leaked
                               >= MaxOutstanding]_vars
    BY ExhaustionStep
  <1>2. Spec => []CapacityInv
    BY TypeInit, TypeStep, CapacityInit, CapacityStep, PTL DEF Spec
  <1> QED
    BY SafetyInvariant, <1>1, <1>2, PTL DEF Spec, NoSpuriousExhaustion

-----------------------------------------------------------------------------
(* LeaseAuthority implements LeaseLedger *)

\* The bound on the ids of one instance counts the requests still to be
\* issued, so that every issued id is one of LedgerIds.
BoundInv == next_sequence + Cardinality(Pending) <= MaxSequence

\* The requests still to be issued can be counted.
LEMMA PendingFinite ==
    IsFiniteSet(Pending) /\ Cardinality(Pending) \in Nat
  BY ThreadsAssumption, FS_Subset, FS_CardinalityType DEF Pending

\* At first all ids are still to be handed out.
LEMMA BoundInit == Init => BoundInv
  <1> SUFFICES ASSUME Init PROVE BoundInv
    OBVIOUS
  <1>1. Pending = {} /\ next_sequence = 0
    BY DEF Init, Pending
  <1> QED
    BY <1>1, FS_EmptySet, ConfigAssumption DEF BoundInv

\* A step that takes no request in and issues nothing.
LEMMA BoundQuiet ==
    ASSUME TypeOK, BoundInv, Pending' \subseteq Pending,
           next_sequence' = next_sequence
    PROVE  BoundInv'
  <1>1. Cardinality(Pending') <= Cardinality(Pending)
    BY PendingFinite, FS_Subset
  <1>2. Cardinality(Pending') \in Nat
    BY PendingFinite, FS_Subset, FS_CardinalityType
  <1> QED
    BY <1>1, <1>2, PendingFinite, ConfigAssumption DEF BoundInv, TypeOK

\* An issue takes an id and leaves the pending requests.
LEMMA BoundStep == TypeInv /\ BoundInv /\ [Next]_vars => BoundInv'
  <1> SUFFICES ASSUME TypeInv, BoundInv, [Next]_vars PROVE BoundInv'
    OBVIOUS
  <1> TypeOK
    BY DEF TypeInv
  <1> USE DEF Goto, Finish, issuer_vars, store_vars, thread_vars
  <1>1. ASSUME NEW t \in Threads, NEW c \in Receivable, Receive(t, c)
        PROVE  BoundInv'
    <2>1. /\ pc[t] = "idle"
          /\ pc' = [pc EXCEPT ![t] = "begin"]
          /\ call' = [call EXCEPT ![t] = c]
          /\ next_sequence' = next_sequence
          /\ c.op = "RequestLease" =>
                 next_sequence + Cardinality(Pending) < MaxSequence
      BY <1>1 DEF Receive
    <2>2. CASE c.op # "RequestLease"
      BY <2>1, <2>2, BoundQuiet DEF Pending, TypeOK
    <2>3. CASE c.op = "RequestLease"
      <3>1. Pending' = Pending \cup {t} /\ t \notin Pending
        BY <2>1, <2>3 DEF Pending, TypeOK
      <3>2. Cardinality(Pending') = Cardinality(Pending) + 1
        BY <3>1, PendingFinite, FS_AddElement
      <3> QED
        BY <2>1, <2>3, <3>2, PendingFinite, ConfigAssumption
           DEF BoundInv, TypeOK
    <2> QED
      BY <2>2, <2>3
  <1>2. ASSUME NEW t \in Threads, IssueReservingCapacity(t) PROVE BoundInv'
    <2>1. /\ t \in Pending
          /\ Pending' = Pending \ {t}
          /\ next_sequence' = next_sequence + 1
      BY <1>2 DEF IssueReservingCapacity, BeginIssue, Pending, TypeOK
    <2>2. Cardinality(Pending') = Cardinality(Pending) - 1
      BY <2>1, PendingFinite, FS_RemoveElement
    <2> QED
      BY <2>1, <2>2, PendingFinite, ConfigAssumption DEF BoundInv, TypeOK
  <1>3. ASSUME NEW t \in Threads, Handle(t), ~IssueReservingCapacity(t)
        PROVE  BoundInv'
    <2>1. Pending' \subseteq Pending /\ next_sequence' = next_sequence
      BY <1>3
         DEF Handle, HandleStatus, RefuseUnauthorizable, RefuseAtCapacity,
             RefuseToIssue, EnforceAllowed, MeasureRemaining, EnforceFails,
             EnforcePanics, Unwind, InsertGranted, Rollback, ReleaseUnknown,
             ReleaseRefused, ReleaseValid, Teardown, TeardownPanics, Record,
             Reply, Pending, TypeOK
    <2> QED
      BY <2>1, BoundQuiet
  <1>4. CASE Tick \/ UNCHANGED vars
    BY <1>4, BoundQuiet DEF Tick, vars, Pending
  <1>5. CASE Restart
    <2>1. Pending' = {} /\ next_sequence' = 0
      BY <1>5 DEF Restart, Pending
    <2> QED
      BY <2>1, FS_EmptySet, ConfigAssumption DEF BoundInv
  <1> QED
    BY <1>1, <1>2, <1>3, <1>4, <1>5 DEF Next

RefinementInv == TypeInv /\ IdsInv /\ CapacityInv /\ BoundInv

\* The ids handed out, those of stored leases, and those in flight.
IssuedIds == {id \in LedgerIds : WasIssued(id)}
StoredIds == {l.id : l \in leases}
HeldIds   == {held[t].id : t \in InFlight}

\* The spent ids are the issued ones neither stored nor in flight.
LEMMA SpentSplit ==
    /\ SpentIds = IssuedIds \ (StoredIds \cup HeldIds)
    /\ SpentIds' = IssuedIds' \ (StoredIds' \cup HeldIds')
  BY DEF SpentIds, IssuedIds, StoredIds, HeldIds, WithId, Outstanding

\* A fresh id is one of the ledger's and has been issued.
LEMMA FreshIsIssued ==
    ASSUME RefinementInv, NEW id \in LeaseIds, FreshId(id)
    PROVE  id \in IssuedIds
  <1>1. next_sequence <= MaxSequence
    BY PendingFinite, ConfigAssumption DEF RefinementInv, BoundInv, TypeInv, TypeOK
  <1>2. instance \in 0..MaxRestarts /\ next_sequence \in Nat
    BY DEF RefinementInv, TypeInv, TypeOK
  <1>3. id.issuer \in 0..MaxRestarts /\ id.sequence \in 0..MaxSequence
    BY <1>1, <1>2, ConfigAssumption DEF FreshId, LeaseIds
  <1>4. id = [issuer |-> id.issuer, sequence |-> id.sequence]
    BY DEF LeaseIds
  <1>5. id \in LedgerIds
    BY <1>3, <1>4 DEF LedgerIds
  <1> QED
    BY <1>5 DEF IssuedIds, WasIssued, FreshId

\* What is stored or in flight was issued, and nothing is both.
LEMMA OutstandingIssued ==
    ASSUME RefinementInv
    PROVE  /\ StoredIds \subseteq IssuedIds
           /\ HeldIds \subseteq IssuedIds
           /\ StoredIds \cap HeldIds = {}
  <1>1. ASSUME NEW l \in leases PROVE l.id \in IssuedIds
    <2>1. l.id \in LeaseIds /\ FreshId(l.id)
      BY DEF RefinementInv, TypeInv, TypeOK, IdsInv, ComputeLeases
    <2> QED
      BY <2>1, FreshIsIssued
  <1>2. ASSUME NEW t \in InFlight PROVE held[t].id \in IssuedIds
    <2>1. held[t].id \in LeaseIds /\ FreshId(held[t].id)
      BY DEF RefinementInv, TypeInv, ControlInv, InFlight, IdsInv, ComputeLeases
    <2> QED
      BY <2>1, FreshIsIssued
  <1>3. StoredIds \cap HeldIds = {}
    BY DEF StoredIds, HeldIds, RefinementInv, IdsInv
  <1> QED
    BY <1>1, <1>2, <1>3 DEF StoredIds, HeldIds

\* The leases that a step removes from the store take their ids with them.
LEMMA RemovedIds ==
    ASSUME RefinementInv, leases' \subseteq leases
    PROVE  StoredIds' = StoredIds \ Ledger!IdsOf(leases \ leases')
  BY DEF StoredIds, Ledger!IdsOf, RefinementInv, IdsInv

\* A step that only removes leases is an End of the ledger; of no lease at
\* all when the store does not change.
LEMMA EndStep ==
    ASSUME RefinementInv, leases' \subseteq leases, instance' = instance,
           SpentIds' = SpentIds \cup Ledger!IdsOf(leases \ leases')
    PROVE  Ledger!Next
  <1> DEFINE S == leases \ leases'
  <1>1. S \in SUBSET leases /\ leases' = leases \ S
    OBVIOUS
  <1>2. Ledger!End(S)
    BY <1>1 DEF Ledger!End
  <1> QED
    BY <1>1, <1>2 DEF Ledger!Next

\* A step that only takes leases out of the store.
LEMMA EndStepQuiet ==
    ASSUME RefinementInv, leases' \subseteq leases, InFlight' = InFlight,
           \A t \in InFlight : held'[t] = held[t],
           instance' = instance, next_sequence' = next_sequence
    PROVE  Ledger!Next
  <1>1. IssuedIds' = IssuedIds
    BY DEF IssuedIds, WasIssued, LedgerIds
  <1>2. HeldIds' = HeldIds
    BY DEF HeldIds
  <1>3. StoredIds' = StoredIds \ Ledger!IdsOf(leases \ leases')
    BY RemovedIds
  <1>4. Ledger!IdsOf(leases \ leases') \subseteq StoredIds
    BY DEF Ledger!IdsOf, StoredIds
  <1>5. SpentIds' = SpentIds \cup Ledger!IdsOf(leases \ leases')
    BY <1>1, <1>2, <1>3, <1>4, SpentSplit, OutstandingIssued
  <1> QED
    BY <1>5, EndStep

\* The prune of a step that issues is an End too: the new id is not spent,
\* since a handler holds it.
LEMMA IssueIsEnd ==
    ASSUME RefinementInv, NEW t \in Threads, IssueReservingCapacity(t)
    PROVE  Ledger!Next
  <1> TypeOK
    BY DEF RefinementInv, TypeInv
  <1> DEFINE new == [issuer |-> instance, sequence |-> next_sequence]
  <1>1. /\ pc[t] = "begin"
        /\ leases' = Prune(leases, clock)
        /\ pc' = [pc EXCEPT ![t] = "enforce"]
        /\ held' = [held EXCEPT ![t] = IssuedLease(Origin(t), clock, LeaseTtl)]
        /\ next_sequence' = next_sequence + 1
        /\ instance' = instance
    BY DEF IssueReservingCapacity, BeginIssue, Goto
  <1>2. /\ leases' \subseteq leases
        /\ t \notin InFlight /\ InFlight' = InFlight \cup {t}
    BY <1>1, PruneType DEF InFlight, TypeOK
  <1>3. held'[t].id = new /\ \A u \in InFlight : held'[u] = held[u]
    BY <1>1, <1>2 DEF IssuedLease, TypeOK
  <1>4. HeldIds' = HeldIds \cup {new}
    BY <1>2, <1>3 DEF HeldIds
  <1>5. \A id \in LedgerIds : WasIssued(id)' <=> WasIssued(id) \/ id = new
    <2> SUFFICES ASSUME NEW id \in LedgerIds
                 PROVE  WasIssued(id)' <=> WasIssued(id) \/ id = new
      OBVIOUS
    <2>1. id.issuer \in Nat /\ id.sequence \in Nat
      BY ConfigAssumption DEF LedgerIds
    <2>2. id = new <=> id.issuer = instance /\ id.sequence = next_sequence
      BY DEF LedgerIds
    <2> HIDE DEF new
    <2> QED
      BY <1>1, <2>1, <2>2 DEF WasIssued, TypeOK
  <1>6. new \notin IssuedIds
    BY DEF IssuedIds, WasIssued, TypeOK
  <1>7. IssuedIds' \subseteq IssuedIds \cup {new} /\ IssuedIds \subseteq IssuedIds'
    BY <1>5 DEF IssuedIds, LedgerIds
  <1>8. StoredIds' = StoredIds \ Ledger!IdsOf(leases \ leases')
    BY <1>2, RemovedIds
  <1>9. Ledger!IdsOf(leases \ leases') \subseteq StoredIds
    BY DEF Ledger!IdsOf, StoredIds
  <1> HIDE DEF new
  <1>10. SpentIds' = SpentIds \cup Ledger!IdsOf(leases \ leases')
    BY <1>4, <1>6, <1>7, <1>8, <1>9, SpentSplit, OutstandingIssued
  <1> QED
    BY <1>1, <1>2, <1>10, EndStep

\* A failed request gives its id up without its ever having been stored.
LEMMA LeaveIsWithdraw ==
    ASSUME RefinementInv, NEW t \in InFlight, InFlight' = InFlight \ {t},
           held' = held, leases' = leases, instance' = instance,
           next_sequence' = next_sequence
    PROVE  Ledger!Next
  <1> DEFINE id == held[t].id
  <1>1. IssuedIds' = IssuedIds /\ StoredIds' = StoredIds
    BY DEF IssuedIds, WasIssued, LedgerIds, StoredIds
  <1>2. HeldIds' = HeldIds \ {id}
    BY DEF HeldIds, RefinementInv, IdsInv
  <1>3. id \in HeldIds
    BY DEF HeldIds
  <1>4. id \notin StoredIds /\ id \in IssuedIds
    BY <1>3, OutstandingIssued
  <1> HIDE DEF id
  <1>5. SpentIds' = SpentIds \cup {id}
    BY <1>1, <1>2, <1>4, SpentSplit
  <1>6. Ledger!Withdraw(id)
    BY <1>4, <1>5 DEF Ledger!Withdraw, Ledger!IdsOf, StoredIds
  <1> QED
    BY <1>4, <1>6 DEF Ledger!Next, IssuedIds

\* The insert is the grant; its reservation is the capacity it needs.
LEMMA InsertIsGrant ==
    ASSUME RefinementInv, NEW t \in Threads, InsertGranted(t)
    PROVE  Ledger!Next
  <1> TypeOK
    BY DEF RefinementInv, TypeInv
  <1> DEFINE l == held[t]
  <1>1. /\ t \in InFlight /\ InFlight' = InFlight \ {t}
        /\ leases' = Insert(leases, l)
        /\ UNCHANGED <<instance, next_sequence, held>>
    BY DEF InsertGranted, InFlight, Goto, issuer_vars, TypeOK
  <1>2. leases' = leases \cup {l}
    BY <1>1 DEF Insert, RefinementInv, IdsInv
  <1>3. l.id \in HeldIds /\ l.id \in IssuedIds /\ l.id \notin StoredIds
    BY <1>1, OutstandingIssued DEF HeldIds
  <1>4. HeldIds' = HeldIds \ {l.id} /\ StoredIds' = StoredIds \cup {l.id}
    BY <1>1, <1>2 DEF HeldIds, StoredIds, RefinementInv, IdsInv
  <1>5. IssuedIds' = IssuedIds
    BY <1>1 DEF IssuedIds, WasIssued, LedgerIds
  <1>6. SpentIds' = SpentIds /\ l.id \notin SpentIds
    BY <1>3, <1>4, <1>5, SpentSplit
  <1>7. Cardinality(leases) < MaxOutstanding
    <2>1. 1 <= reserved
      BY <1>1, LeaveWindow, InFlightFinite
         DEF RefinementInv, CapacityInv, ReservationsCover, TypeOK
    <2>2. Cardinality(leases) \in Nat
      BY FS_CardinalityType DEF RefinementInv, CapacityInv
    <2> QED
      BY <2>1, <2>2, ConfigAssumption
         DEF RefinementInv, CapacityInv, CapacityBound, TypeOK
  <1>8. l.id.issuer = instance
    BY <1>1 DEF RefinementInv, IdsInv, FreshId
  <1>9. l.id \in LedgerIds /\ l.id \notin Ledger!IdsOf(leases)
    BY <1>3 DEF Ledger!IdsOf, StoredIds, IssuedIds
  <1>10. instance' = instance /\ l \in leases'
    BY <1>1, <1>2
  <1>11. Ledger!Cardinality(leases) = Cardinality(leases)
    BY DEF Ledger!Cardinality, Cardinality
  <1> HIDE DEF l
  <1>12. Ledger!Grant(l)
    BY <1>2, <1>6, <1>7, <1>8, <1>9, <1>10, <1>11 DEF Ledger!Grant
  <1> QED
    BY <1>10, <1>12 DEF Ledger!Next

\* A restart ends everything of the past instance.
LEMMA RestartIsNewEpoch ==
    ASSUME RefinementInv, Restart
    PROVE  Ledger!Next
  <1>1. /\ instance' = instance + 1 /\ next_sequence' = 0
        /\ leases' = {} /\ InFlight' = {}
    BY DEF Restart, InFlight
  <1>2. StoredIds' = {} /\ HeldIds' = {}
    BY <1>1 DEF StoredIds, HeldIds
  <1>3. IssuedIds' = {id \in LedgerIds : id.issuer < instance'}
    <2>1. \A id \in LedgerIds : id.sequence \in Nat
      BY ConfigAssumption DEF LedgerIds
    <2>2. \A id \in LedgerIds : ~(id.sequence < 0)
      BY <2>1
    <2>3. \A id \in LedgerIds : WasIssued(id)' <=> id.issuer < instance'
      BY <1>1, <2>2 DEF WasIssued
    <2> QED
      BY <2>3 DEF IssuedIds, LedgerIds
  <1>4. SpentIds' = {id \in LedgerIds : id.issuer < instance'}
    BY <1>2, <1>3, SpentSplit
  <1>5. Ledger!NewEpoch
    BY <1>1, <1>4 DEF Ledger!NewEpoch
  <1> QED
    BY <1>5 DEF Ledger!Next

\* The initial states are initial states of the ledger.
LEMMA LedgerInit == Init => Ledger!Init
  <1> SUFFICES ASSUME Init PROVE Ledger!Init
    OBVIOUS
  <1>1. \A id \in LedgerIds : id.issuer \in Nat /\ id.sequence \in Nat
    BY ConfigAssumption DEF LedgerIds
  <1>2. instance = 0 /\ next_sequence = 0 /\ leases = {}
    BY DEF Init
  <1>3. \A id \in LedgerIds : ~WasIssued(id)
    BY <1>1, <1>2 DEF WasIssued
  <1> QED
    BY <1>2, <1>3 DEF Ledger!Init, SpentIds

\* Every step is a step of the ledger or leaves it alone.
LEMMA LedgerStep ==
    RefinementInv /\ [Next]_vars => [Ledger!Next]_(Ledger!ledger)
  <1> SUFFICES ASSUME RefinementInv, [Next]_vars PROVE Ledger!Next
    OBVIOUS
  <1> TypeOK /\ ControlInv
    BY DEF RefinementInv, TypeInv
  <1> USE DEF Goto, Finish, issuer_vars, store_vars, thread_vars
  <1> DEFINE Quiet == /\ leases' \subseteq leases
                      /\ InFlight' = InFlight
                      /\ \A t \in InFlight : held'[t] = held[t]
                      /\ instance' = instance
                      /\ next_sequence' = next_sequence
  <1>1. ASSUME NEW t \in Threads, NEW c \in Receivable, Receive(t, c)
        PROVE  Quiet
    BY <1>1 DEF Receive, InFlight, TypeOK
  <1>2. ASSUME NEW t \in Threads, HandleStatus(t) PROVE Quiet
    BY <1>2 DEF HandleStatus, InFlight, TypeOK
  <1>3. ASSUME NEW t \in Threads, RefuseUnauthorizable(t) PROVE Quiet
    BY <1>3 DEF RefuseUnauthorizable, InFlight, TypeOK
  <1>4. ASSUME NEW t \in Threads, RefuseAtCapacity(t) PROVE Quiet
    BY <1>4, PruneType DEF RefuseAtCapacity, BeginIssue, InFlight, TypeOK
  <1>5. ASSUME NEW t \in Threads, RefuseToIssue(t) PROVE Quiet
    BY <1>5, PruneType DEF RefuseToIssue, BeginIssue, InFlight, TypeOK
  <1>6. ASSUME NEW t \in Threads, EnforceAllowed(t) PROVE Quiet
    BY <1>6 DEF EnforceAllowed, InFlight, TypeOK
  <1>7. ASSUME NEW t \in Threads, MeasureRemaining(t) PROVE Quiet
    BY <1>7 DEF MeasureRemaining, InFlight, TypeOK
  <1>8. ASSUME NEW t \in Threads, EnforceFails(t) PROVE Quiet
    BY <1>8 DEF EnforceFails, InFlight, TypeOK
  <1>9. ASSUME NEW t \in Threads, EnforcePanics(t) \/ Rollback(t)
        PROVE  Ledger!Next
    <2>1. /\ t \in InFlight /\ InFlight' = InFlight \ {t}
          /\ UNCHANGED <<held, leases, instance, next_sequence>>
      BY <1>9 DEF EnforcePanics, Unwind, Rollback, InFlight, TypeOK
    <2> QED
      BY <2>1, LeaveIsWithdraw
  <1>10. ASSUME NEW t \in Threads, ReleaseUnknown(t) PROVE Quiet
    BY <1>10, PruneType DEF ReleaseUnknown, BeginRelease, InFlight, TypeOK
  <1>11. ASSUME NEW t \in Threads, ReleaseRefused(t) PROVE Quiet
    BY <1>11, PruneType DEF ReleaseRefused, BeginRelease, InFlight, TypeOK
  <1>12. ASSUME NEW t \in Threads, ReleaseValid(t) PROVE Quiet
    BY <1>12, PruneType DEF ReleaseValid, BeginRelease, InFlight, TypeOK
  <1>13. ASSUME NEW t \in Threads, Teardown(t) PROVE Quiet
    BY <1>13 DEF Teardown, InFlight, TypeOK
  <1>14. ASSUME NEW t \in Threads, TeardownPanics(t) PROVE Quiet
    BY <1>14 DEF TeardownPanics, Unwind, InFlight, TypeOK
  <1>15. ASSUME NEW t \in Threads, Record(t) PROVE Quiet
    BY <1>15 DEF Record, InFlight, TypeOK
  <1>16. ASSUME NEW t \in Threads, Reply(t) PROVE Quiet
    BY <1>16 DEF Reply, InFlight, TypeOK
  <1>17. ASSUME Tick \/ UNCHANGED vars PROVE Quiet
    BY <1>17 DEF Tick, vars, InFlight
  <1>18. Quiet => Ledger!Next
    BY EndStepQuiet
  <1> HIDE DEF Quiet
  <1> QED
    BY <1>1, <1>2, <1>3, <1>4, <1>5, <1>6, <1>7, <1>8, <1>9, <1>10, <1>11,
       <1>12, <1>13, <1>14, <1>15, <1>16, <1>17, <1>18, IssueIsEnd,
       InsertIsGrant, RestartIsNewEpoch
       DEF Next, Handle

\* The handler implements the ledger: with its threads, its two critical
\* sections per request, its unlocked backend calls, panics and restarts, it
\* grants each id at most once, never more than max_outstanding_leases at a
\* time, and never brings an ended id back.
THEOREM HandlerImplementsLedger == Spec => RefinesLedger
  <1>1. Init => RefinementInv
    BY TypeInit, IdsInit, CapacityInit, BoundInit DEF RefinementInv
  <1>2. RefinementInv /\ [Next]_vars => RefinementInv'
    BY TypeStep, IdsStep, CapacityStep, BoundStep DEF RefinementInv
  <1> QED
    BY <1>1, <1>2, LedgerInit, LedgerStep, PTL
       DEF Spec, RefinesLedger, Ledger!Spec
=============================================================================
