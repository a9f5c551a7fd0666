\* One inspection beside the readiness probe: either can be queued, in flight or
\* answered when a child crashes, hangs or is stopped.
SPECIFICATION FairSpec
CONSTANT Inspections = {1}
INVARIANTS
    ReportsAreTrue
PROPERTIES
    PlaneComesToItsEnd
    KeepsContract
CHECK_DEADLOCK FALSE
