\* Two hits on two addresses, with a failure or a crash at any step.
CONSTANTS
    scanner = scanner
    spray = spray
    Nobody = Nobody
    MaxHits = 2
    IPs = {scanner, spray}
    Visits <- SomeVisits
    Wired = TRUE
    TarpitSev = 35
    LocalBanSev = 55
    LocalBanHits = 1
    CloudSev = 75
    CloudHits = 2
    MinSeverity = 40
    MaxFaults = 1
SPECIFICATION FairSpec
INVARIANTS
    TypeOK
    EscalationSure
    FleetKeepsBans
    FleetEarned
    NoAlertStorm
PROPERTIES
    HitSettles
CHECK_DEADLOCK FALSE
