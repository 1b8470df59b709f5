-------------------------- MODULE LeaseRefinement --------------------------
(***************************************************************************)
(* LeaseAuthority implements LeaseLedger.  Active leases are the stored    *)
(* ones.  An id is spent once it has been handed out and is neither stored *)
(* nor in the hands of a handler that may still insert it.                 *)
(***************************************************************************)
EXTENDS LeaseAuthority

\* Every id the bounded agent can hand out.
LedgerIds == [issuer : 0..MaxRestarts, sequence : 0..MaxSequence]

WasIssued(id) ==
    \/ id.issuer < instance
    \/ id.issuer = instance /\ id.sequence < next_sequence

SpentIds ==
    {id \in LedgerIds : WasIssued(id) /\ WithId(Outstanding, id) = {}}

Ledger == INSTANCE LeaseLedger WITH
    Ids <- LedgerIds,
    MaxActive <- MaxOutstanding,
    epoch <- instance,
    active <- leases,
    spent <- SpentIds

\* The handler, with its threads, its lock and its unlocked backend calls,
\* grants and ends leases the way the ledger promises: every step is a grant,
\* an end, a withdrawal, a new epoch, or changes nothing the ledger shows.
RefinesLedger == Ledger!Spec
=============================================================================
