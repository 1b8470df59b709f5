---------------------------- MODULE LeaseLedger ----------------------------
(***************************************************************************)
(* What the lease service promises, with no threads, locks, backend or     *)
(* clock: a lease id is granted at most once, to at most MaxActive leases  *)
(* at a time, only by the running agent instance, and once it has ended it *)
(* never comes back, not even after a restart.                             *)
(***************************************************************************)
EXTENDS Integers, FiniteSets

CONSTANTS
    Ids,        \* [issuer, sequence] records
    MaxActive

VARIABLES
    epoch,      \* the running agent instance
    active,     \* leases granted and not ended: records with an id
    spent       \* ids that ended, were withdrawn, or belong to a past epoch

ledger == <<epoch, active, spent>>

IdsOf(S) == {l.id : l \in S}

Init ==
    /\ epoch = 0
    /\ active = {}
    /\ spent = {}

\* A lease begins.
Grant(l) ==
    /\ l.id \in Ids \ spent
    /\ l.id.issuer = epoch
    /\ l.id \notin IdsOf(active)
    /\ Cardinality(active) < MaxActive
    /\ active' = active \cup {l}
    /\ UNCHANGED <<epoch, spent>>

\* Leases end, by release or expiry.
End(S) ==
    /\ active' = active \ S
    /\ spent' = spent \cup IdsOf(S)
    /\ UNCHANGED epoch

\* An id is given up without ever having named a granted lease.
Withdraw(id) ==
    /\ id \notin IdsOf(active)
    /\ spent' = spent \cup {id}
    /\ UNCHANGED <<epoch, active>>

\* The agent restarts: everything of the past epoch is over.
NewEpoch ==
    /\ epoch' = epoch + 1
    /\ active' = {}
    /\ spent' = {id \in Ids : id.issuer < epoch'}

Next ==
    \/ \E l \in active' : Grant(l)
    \/ \E S \in SUBSET active : End(S)
    \/ \E id \in Ids : Withdraw(id)
    \/ NewEpoch

Spec == Init /\ [][Next]_ledger
=============================================================================
