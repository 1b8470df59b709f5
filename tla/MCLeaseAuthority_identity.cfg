\* Every kind of peer, among them those with no usable evidence, a backend
\* that panics, one restart.
SPECIFICATION Spec
CONSTANTS
    gpu0 = gpu0
    t1 = t1
    t2 = t2
    Threads <- MCThreads2
    Peers <- MCPeersAll
    Resources <- MCOneResource
    Requests <- MCRequests
    Decision <- MCDecision
    LeaseTtl = 2
    MaxOutstanding = 1
    MaxTime = 3
    BackendPanics = TRUE
    MaxSequence = 2
    MaxRestarts = 1
SYMMETRY MCSymmetry
PROPERTIES RefinesLedger OnlyHolderEndsLease HolderNeverRefused
