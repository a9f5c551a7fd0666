\* Two projects, two names: every command, a stop in the middle of one, a second stop in
\* the middle of its recovery, and one file damaged at any point.
SPECIFICATION Spec
CONSTANTS
    Keys = {k1, k2}
    Roots = {a, b}
    Names = {n1, n2}
    Absent = Absent
    Unusable = Unusable
    MaxCommands = 3
    MaxStops = 2
    MaxDamage = 1
INVARIANTS
    AcknowledgedSurvives
PROPERTY
    KeepsContract
CHECK_DEADLOCK FALSE
