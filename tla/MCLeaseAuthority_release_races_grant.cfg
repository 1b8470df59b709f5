\* A release tears down enforcement under a grant in flight.
SPECIFICATION Spec
CONSTANTS
    gpu0 = gpu0
    t1 = t1
    t2 = t2
    Threads <- MCThreads2
    Peers <- MCPeersOwner
    Resources <- MCOneResource
    Requests <- MCRequests
    Decision <- MCAllowAll
    LeaseTtl = 2
    MaxOutstanding = 2
    MaxTime = 2
    BackendPanics = FALSE
    MaxSequence = 2
    MaxRestarts = 0
INVARIANTS
    StoredLeaseIsEnforced
