CONSTANTS
    scanner = scanner
    spray = spray
    inside = inside
    Starts <- SomeStarts
    MaxWork <- SomeWork
    MaxFaults = 1
    MaxRequests = 2
    MaxUpdates = 1
    Addresses = {scanner, spray, inside}
    Private = {inside}
    Trusted = {inside}
    NoClaim = NoClaim
    Asks <- SomeAsks
    Proxied = TRUE
    Threshold = 25
    BlockScore = 25
    Providers = {"cloudflare", "aws"}
    NoSession = NoSession
    MaxDomains = 3
    Certificates <- SomeCertificates
    QueueSize = 1
    Workers = 1
    MaxVisits = 4
    Visitors = {scanner}
    NoAddress = NoAddress
    PortOnly = PortOnly
    Calls <- SomeCalls
    MaxConns = 1

SPECIFICATION Spec

INVARIANT EveryHitRecorded

CHECK_DEADLOCK FALSE
