-------------------------- MODULE WorkloadIdentity --------------------------
(***************************************************************************)
(* Evidence about a connecting process and the three-valued comparisons    *)
(* eltanin-core makes on it (identity.rs, peer.rs).  Pure operators: no    *)
(* state, no recursion, so that every state machine of the project can use *)
(* them and be proved about.                                               *)
(*                                                                         *)
(* A workload is what `WorkloadIdentity` carries as far as any comparison  *)
(* looks at it: pid, start token, executable hash and path.  A peer is a   *)
(* `PeerContext`: the kernel's connect-time effective uid, the uids        *)
(* observed afterwards for the same pid, whether the pid could be mapped   *)
(* at all, and the observed workload.                                      *)
(***************************************************************************)

EvidenceSource == {"KernelObserved", "BestEffort", "SelfAsserted"}

\* Evidence<T>: present with its source, missing this time, or unsupported.
Evidence(Values) ==
    [state : {"Present"}, value : Values, source : EvidenceSource]
        \cup [state : {"Missing", "Unsupported"}]

Present(value, source) ==
    [state |-> "Present", value |-> value, source |-> source]

Missing == [state |-> "Missing"]

\* Present, and not merely the observed process's own claim.
Usable(e) == e.state = "Present" /\ e.source # "SelfAsserted"

IdentityComparison == {"Same", "Different", "Indeterminate"}

CompareProcess(a, b) ==
    IF Usable(a.process_start) /\ Usable(b.process_start)
        THEN IF a.pid = b.pid /\ a.process_start.value = b.process_start.value
                 THEN "Same"
                 ELSE "Different"
        ELSE "Indeterminate"

\* The verdict of one kind of evidence; "None" when a side lacks it.
CompareEvidence(x, y) ==
    IF Usable(x) /\ Usable(y)
        THEN IF x.value = y.value THEN "Same" ELSE "Different"
        ELSE "None"

\* Hash first; the path decides only when the hashes cannot be compared.
CompareExecutable(a, b) ==
    LET byHash == CompareEvidence(a.executable_hash, b.executable_hash)
        byPath == CompareEvidence(a.executable_path, b.executable_path)
    IN  IF byHash # "None" THEN byHash
        ELSE IF byPath # "None" THEN byPath
        ELSE "Indeterminate"

\* The kernel's effective uid must be the observed real or effective uid.
ClassifyConsistency(euid, real, effective) ==
    LET Matches(e) == Usable(e) /\ e.value = euid
    IN  IF Matches(real) \/ Matches(effective) THEN "Consistent"
        ELSE IF real.state = "Missing" /\ effective.state = "Missing"
                 THEN "Indeterminate"
        ELSE "CredentialDivergence"

Consistency(peer) ==
    IF peer.mapped
        THEN ClassifyConsistency(peer.effective_uid,
                                 peer.observed_real_uid,
                                 peer.observed_effective_uid)
        ELSE "PeerUnmapped"

Authorizable(peer) == Consistency(peer) = "Consistent"
=============================================================================
