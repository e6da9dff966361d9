SPECIFICATION FairSpec
CONSTANTS
    r1 = r1
    r2 = r2
    r3 = r3
    k1 = k1
    k2 = k2
    k3 = k3
    k4 = k4
    k5 = k5
    acme = acme
    bot = bot
    corp = corp
    Requests = {r1, r2}
    Keys = {k4, k5}
    Owners = {acme, bot, corp}
    Consumers = {corp}
    Issued = {}
    Accounts = {}
    Capabilities <- MCCapabilities
    Networks <- MCNetworks
    KindOf <- MCKindOf
    OwnerOf <- MCOwnerOf
    ClientOf <- MCClientOf
    PolicyOf <- MCPolicyOf
    GrantsOf <- MCGrantsOf
    Expiring = {}
    ExpiringGrants <- MCConsumerGrants
    Revocable = {}
    Unstable = {k4}
    Failing = {"increment", "record"}
    Dropping = {"settle"}
    HandlerAnswers = {"server_error", "other"}
    MaxRestarts = 1
    LegacyBaseline <- MCCapabilities
    AccountBaseline <- MCCapabilities
    DemoNetwork = "eth-mainnet"
    WINDOW = 1
    LockDelay = 0
    MaxTime = 1
    MaxDay = 0
CHECK_DEADLOCK FALSE
PROPERTY GrantLossIsFinal
PROPERTY RequestAnswered
