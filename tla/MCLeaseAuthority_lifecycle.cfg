\* Two handlers on one resource, a backend that panics, expiry and the end of
\* the clock's range.
SPECIFICATION FairSpec
CONSTANTS
    gpu0 = gpu0
    t1 = t1
    t2 = t2
    Threads <- MCThreads2
    Peers <- MCPeersOwner
    Resources <- MCOneResource
    Requests <- MCRequests
    Decision <- MCAllowAll
    LeaseTtl = 2
    MaxOutstanding = 2
    MaxTime = 3
    BackendPanics = TRUE
    MaxSequence = 3
    MaxRestarts = 0
INVARIANTS CapacityBound ReservationsPaired FailedRequestLeavesNoLease GrantNeverOverstates AnswersAreRecorded
PROPERTIES NoSpuriousExhaustion TeardownSparesStoredLeases EveryRequestAnswered
