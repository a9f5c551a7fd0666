SPECIFICATION FairSpec
CONSTANTS
    Contents = {1, 2}
    Start = 1
    MaxSeq = 2
    MaxOutside = 1
    MaxAttempts = 1
INVARIANTS PhaseFitsEdit
PROPERTIES ReopensOnCommit WaitingEnds
CHECK_DEADLOCK FALSE
