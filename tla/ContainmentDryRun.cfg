\* A catch-node started with ATDE_DRY_RUN=1.
CONSTANTS
    hit1 = hit1
    hit2 = hit2
    consumer = consumer
    main = main
    own = own
    cloudflare = cloudflare
    aws = aws
    public = public
    private = private
    Free = Free
    Policies = {hit1}
    Consumers = {consumer}
    Blockers = {main, own}
    BlockerOf <- Wiring
    IPs = {public}
    Public = {public}
    Providers = {cloudflare}
    Configs <- DryOnly
    MaxCalls = 1
    MaxFaults = 0
SPECIFICATION Spec
INVARIANTS
    SimulationEverywhere
