SPECIFICATION TurnSpec
CONSTANTS
    Agents = {a1, a2, a3}
    FreshMode = "shared"
INVARIANTS LiveSocketUntouched NeverBoundInSharedDirectory
PROPERTIES SignalEndsAgent StaleSocketRecovered
CHECK_DEADLOCK FALSE
