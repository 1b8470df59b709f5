SPECIFICATION FairSpec
CONSTANTS
    Argvs <- MCArgvs
    Statuses = {77}
    Leases = {l1, l2, l3}
    Ttl = 3
    Poll = 1
    IoTimeout = 1
    Grace = 1
    MinRetry = 0
    RetryBackoff = 1
    FirstBackoff = 0
    SecondBackoff = 1
    MaxRemaining = 2
    MaxConnections = 1
    MaxSignals = 1
INVARIANTS TypeOK ResolvedAsDocumented DeadlineNeverLate OverrunBounded HeldLeaseIsStored EveryLeaseAccountedFor ExitTellsTheTruth
PROPERTIES WorkloadExitEndsRun SignalsForwarded
