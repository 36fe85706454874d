\* Two policy goroutines and the warm-up on one Blocker.
CONSTANTS
    hit1 = hit1
    hit2 = hit2
    consumer = consumer
    main = main
    own = own
    cloudflare = cloudflare
    aws = aws
    public = public
    private = private
    Free = Free
    Policies = {hit1, hit2}
    Consumers = {}
    Blockers = {main}
    BlockerOf <- Wiring
    IPs = {public}
    Public = {public}
    Providers = {cloudflare}
    Configs <- LiveOnly
    MaxCalls = 2
    MaxFaults = 1
SPECIFICATION FairSpec
PROPERTIES
    CallReturns
