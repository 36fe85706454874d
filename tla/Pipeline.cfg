\* Two nodes of each mode, under fairness: one failure, and one shutdown except
\* in mode active.
CONSTANTS
    n1 = n1
    n2 = n2
    Nodes = {n1, n2}
    Modes <- AllModes
    Artifacts <- SomeArtifacts
    MaxArrivals = 1
    MaxFaults = 1
    MaxStops <- Stops
SPECIFICATION FairSpec
INVARIANTS
    TypeOK
    LossBounded
    DuplicatesBounded
    HitsAreContained
PROPERTIES
    EveryMessageSettles
