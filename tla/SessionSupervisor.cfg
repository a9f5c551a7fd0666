\* Two activations, of two projects or twice of one: an ended attempt or session
\* and its late reactions beside its successor.
SPECIFICATION FairSpec
CONSTANTS
    Projects = {pA, pB}
    MaxGeneration = 2
INVARIANTS
    SeatsAgree
PROPERTIES
    ForwardOnly
    EndingsLand
CHECK_DEADLOCK FALSE
