\* Two requests, two drains, two edits and two executors: a receipt can outlive
\* its drain, and a second drain, whose edits run on a successor, be in any state
\* when the first one's receipt is spent.
SPECIFICATION FairSwitchSpec
CONSTANTS
    MaxAccepted = 2
    MaxDrains = 2
    MaxExecutors = 2
    Callers = {c1, c2}
    Targets = {switch, stop}
INVARIANTS
    LedgerIsTrue
PROPERTIES
    KeepsContract
    DrainsEnd
    SpentOverQuiet
CHECK_DEADLOCK FALSE
