SPECIFICATION FairStreamSpec
CONSTANTS
  Projects = {p, q}
  First = p
  Shells = {s1, s2}
  Watched = {s1}
  Launchers = {l1}
  MaxGen = 2
  Pending = 1
  None = None
PROPERTIES RevokedIsOver BoundEditorAdmitted SupersededSettles
CHECK_DEADLOCK FALSE
