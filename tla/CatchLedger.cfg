\* Two goroutines on the shared Ledger value, failures and crashes included.
CONSTANTS
    bait = bait
    policy = policy
    active = active
    shared = shared
    own = own
    Free = Free
    Callers = {bait, policy}
    Ledgers = {shared}
    LedgerOf <- OneLedger
    Flags <- FlagsOfCaller
    Hooked = {shared}
    IPs = {ip1, ip2}
    MaxRecords = 3
    MaxFaults = 1
SPECIFICATION FairSpec
INVARIANTS
    TypeOK
    AuditIsPrimary
    
    HitCountExact
    HookAfterSuccess
PROPERTIES
    ImplementsStore
    EveryCallReturns
