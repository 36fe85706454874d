\* The policy engine and the controller, each on its own Ledger value, and no
\* failure at all.
CONSTANTS
    bait = bait
    policy = policy
    active = active
    shared = shared
    own = own
    Free = Free
    Callers = {policy, active}
    Ledgers = {shared, own}
    LedgerOf <- WiredLedgers
    Flags <- FlagsOfCaller
    Hooked = {shared}
    IPs = {ip1}
    MaxRecords = 2
    MaxFaults = 0
SPECIFICATION Spec
INVARIANTS
    HitCountExact
