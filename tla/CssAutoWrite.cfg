SPECIFICATION FairSpec
CONSTANTS
    k1 = k1
    k2 = k2
    k3 = k3
    Keys = {k1, k2, k3}
    Values = {"short", "long"}
    Width <- ValueWidth
    Start <- StartSheet
    Outside <- OutsideSheets
    Edits <- Edited
    MaxIntents = 2
    MaxUndos = 1
    MaxOutside = 1
    MaxAttempts = 1
INVARIANTS StoresTrue
PROPERTIES OneRulePerCommit QueueDrains
CHECK_DEADLOCK FALSE
