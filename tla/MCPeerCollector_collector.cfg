SPECIFICATION Spec
CONSTANTS
    Pids = {1, 2, 3, 4}
    Uids = {0, 1}
    Root = 0
    Tables <- MCTables
    HiddenSets = {{}, {2}}
    MaxDepth = 2
    MaxChanges = 3
INVARIANTS SingleSwitchCaught StartTokenBrackets AncestrySound
CHECK_DEADLOCK FALSE
