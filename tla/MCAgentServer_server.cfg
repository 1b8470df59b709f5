SPECIFICATION ShutdownSpec
CONSTANTS
    Conns = {c1, c2}
    Callers = {k1, k2}
    MaxConnections = 1
    IoTimeout = 1
    DrainTimeout = 1
    HeaderChunks = 2
    BodyChunks = 1
INVARIANTS SlotAccounting ReportAddsUp
PROPERTIES ShutdownCompletes SlotComesBack HandledIsAnswered
