SPECIFICATION Spec
CONSTANTS
    Agents = {a1, a2}
    FreshMode = "open"
INVARIANTS ServingAgentKeepsPath
CHECK_DEADLOCK FALSE
