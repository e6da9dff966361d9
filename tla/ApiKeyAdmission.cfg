SPECIFICATION Spec
CONSTANTS
    r1 = r1
    r2 = r2
    r3 = r3
    k1 = k1
    k2 = k2
    k3 = k3
    k4 = k4
    k5 = k5
    acme = acme
    bot = bot
    corp = corp
    Requests = {r1, r2, r3}
    Keys = {k1}
    Owners = {acme, bot, corp}
    Consumers = {corp}
    Issued = {}
    Accounts = {}
    Capabilities <- MCCapabilities
    Networks <- MCNetworks
    KindOf <- MCKindOf
    OwnerOf <- MCOwnerOf
    ClientOf <- MCClientOf
    PolicyOf <- MCPolicyOf
    GrantsOf <- MCGrantsOf
    Expiring = {}
    ExpiringGrants = {}
    Revocable = {}
    Unstable = {}
    Failing = {"increment"}
    Dropping = {"settle", "handler"}
    HandlerAnswers = {"successful"}
    MaxRestarts = 1
    LegacyBaseline <- MCCapabilities
    AccountBaseline <- MCCapabilities
    DemoNetwork = "eth-mainnet"
    WINDOW = 2
    LockDelay = 1
    MaxTime = 3
    MaxDay = 1
SYMMETRY RequestSymmetry
CHECK_DEADLOCK FALSE
INVARIANT WindowAccounting
INVARIANT MinuteQuota
INVARIANT DailyQuota
INVARIANT RefusedUncharged
INVARIANT NoDoubleCounting
PROPERTY MinuteRejectionJustified
