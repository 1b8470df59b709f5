-------------------------- MODULE MCLeaseAuthority --------------------------
(***************************************************************************)
(* Small instances of LeaseAuthority for TLC.                              *)
(***************************************************************************)
EXTENDS LeaseRefinement, TLC

CONSTANTS gpu0, t1, t2

MCThreads2 == {t1, t2}
MCOneResource == {gpu0}

Kernel(value) == Present(value, "KernelObserved")

Workload(pid, start, hash, path) ==
    [pid |-> pid, process_start |-> start, executable_hash |-> hash,
     executable_path |-> path]

Peer(uid, workload) ==
    [mapped |-> TRUE, effective_uid |-> 1, observed_real_uid |-> uid,
     observed_effective_uid |-> Missing, workload |-> workload]

\* The process most leases are issued to.
Owner == Peer(Kernel(1), Workload(7, Kernel("s1"), Missing, Kernel("exeA")))

\* A later process under the same pid, running the same binary.
PidReused == Peer(Kernel(1), Workload(7, Kernel("s2"), Missing, Kernel("exeA")))

\* The owner's process after execve() of another binary.
Execed == Peer(Kernel(1), Workload(7, Kernel("s1"), Missing, Kernel("exeB")))

\* The owner's pid with a start token only the process itself vouches for.
SelfClaimed ==
    Peer(Kernel(1),
         Workload(7, Present("s1", "SelfAsserted"), Missing, Kernel("exeA")))

\* The uid observed for the pid is not the one the socket reported.
Divergent == Peer(Kernel(2), Owner.workload)

MCPeersOwner == {Owner}
MCPeersAll == {Owner, PidReused, Execed, SelfClaimed, Divergent}

MCRequests == [resource : Resources, action : {"Compute"}]

\* The resource is open to every workload with a usable start token.
MCDecision(workload, request) ==
    IF Usable(workload.process_start)
        THEN "ExplicitAllow"
        ELSE "IndeterminateEvidence"

\* Every workload may use every resource.
MCAllowAll(workload, request) == "ExplicitAllow"

MCSymmetry == Permutations(Threads)
=============================================================================
