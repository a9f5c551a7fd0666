SPECIFICATION FairDesktopSpec
CONSTANTS
  MaxGen = 2
  MaxDoc = 4
  MaxReq = 3
  MaxFault = 1
  None = None
INVARIANTS AuthorityFitsWindow
PROPERTIES DeactivatesTheNamed EverythingSettles
CHECK_DEADLOCK FALSE
