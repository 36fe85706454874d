\* Two nodes in the same mode, one of them shut down; nothing else fails.
CONSTANTS
    n1 = n1
    n2 = n2
    Nodes = {n1, n2}
    Modes <- EnrichOnly
    Artifacts <- SomeArtifacts
    MaxArrivals = 1
    MaxFaults = 0
    MaxStops <- Stops
SPECIFICATION FairSpec
PROPERTIES
    SurvivorsServe
