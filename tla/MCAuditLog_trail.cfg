\* The agent may stop appending.
SPECIFICATION Spec
CONSTANTS
    Threads = {t1, t2}
    MultiByte = {0}
    MaxSequence = 3
    MaxRestarts = 1
SYMMETRY Symmetry
INVARIANTS GapsAreOver FileOrderIsSequenceOrder NumbersAddUp NotFoundIsExplained TornWriteCostsOneRecord
CHECK_DEADLOCK FALSE
