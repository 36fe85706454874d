CONSTANTS
    bait = bait
    policy = policy
    shared = shared
    Free = Free
    Callers = {bait, policy}
    Ledgers = {shared}
    LedgerOf <- OneLedger
    Flags <- NoFlag
    Hooked = {}
    IPs = {ip1, ip2}
    MaxRecords = 2
    MaxFaults = 1
    Exports = {pack, other}
    MaxKinds = 1
    MaxMisses = 1
    PathOf <- Probed
    PathCap = 1
    SeverityOf <- Graded
    RecentLimit = 2
    StatsLimit = 2
    TimelineLimit = 1
    DossierLimit = 2
    HotLimit = 1
SPECIFICATION AllSpec
SYMMETRY Alike
INVARIANTS
    WatchComplete
    
    BoardHonest
    DossierNearlyRight
