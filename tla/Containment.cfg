\* A policy goroutine and the consumer, each on its own Blocker.
CONSTANTS
    hit1 = hit1
    hit2 = hit2
    consumer = consumer
    main = main
    own = own
    cloudflare = cloudflare
    aws = aws
    public = public
    private = private
    Free = Free
    Policies = {hit1}
    Consumers = {consumer}
    Blockers = {main, own}
    BlockerOf <- Wiring
    IPs = {public, private}
    Public = {public}
    Providers = {cloudflare, aws}
    Configs <- NodeConfigs
    MaxCalls = 2
    MaxFaults = 1
SPECIFICATION Spec
INVARIANTS
    TypeOK
    OnlyAskedBans
    HookPerBlocker
    LocalOKDrops
    BlockedIsBanned
