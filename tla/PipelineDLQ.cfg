\* The active node, and one failure.
CONSTANTS
    n1 = n1
    n2 = n2
    Nodes = {n1}
    Modes <- ActiveOnly
    Artifacts <- SomeArtifacts
    MaxArrivals = 1
    MaxFaults = 1
    MaxStops <- Stops
SPECIFICATION Spec
INVARIANTS
    DLQHoldsCopy
