SPECIFICATION FairSpec
CONSTANTS
    Projects = {pA, pB}
    Deactivations = {d1, d2}
    MaxGeneration = 3
    MaxCrashes = 1
INVARIANTS
    RevokedOnlyWhenQuiet
    CommitStaysPossible
    AuthorityOfSeat
PROPERTIES
    RequestsAnswered
CHECK_DEADLOCK FALSE
