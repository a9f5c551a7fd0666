\* Two edits, two sessions, two executor processes and one IDE: a hung executor,
\* its kill, its successor, and a session switch or crash overlap.
SPECIFICATION FairSpec
CONSTANTS
    Requests = {r1, r2}
    Foreign = {x}
    MaxSession = 2
    MaxExecutor = 2
    SessionsCrash = TRUE
    NoContents = NoContents
INVARIANTS
    NoStrandedExecutor
PROPERTIES
    EditsEnd
    KeepsContract
CHECK_DEADLOCK FALSE
