SPECIFICATION Spec
CONSTANTS
    MaxRules = 3
    Envelopes <- MCEnvelopes
    Contexts <- MCContexts
    Queries <- MCQueries
INVARIANTS MissingEvidenceNeverUpgrades DecisionIsTheMeaning
CHECK_DEADLOCK FALSE
