SPECIFICATION FairViewsSpec
CONSTANTS
  MaxSave = 2
  MaxFault = 1
  MaxJob = 3
  None = None
INVARIANTS ServedIsTrue
PROPERTIES ViewsCatchUp
CHECK_DEADLOCK FALSE
