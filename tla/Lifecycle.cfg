SPECIFICATION Spec
CONSTANTS
    r1 = r1
    r2 = r2
    r3 = r3
    k1 = k1
    k2 = k2
    k3 = k3
    k4 = k4
    k5 = k5
    acme = acme
    bot = bot
    corp = corp
    Requests = {r1, r2}
    Keys = {k2, k3}
    Owners = {acme, bot, corp}
    Consumers = {corp}
    Issued = {k2, k3}
    Accounts = {acme}
    Capabilities <- MCCapabilities
    Networks <- MCNetworks
    KindOf <- MCKindOf
    OwnerOf <- MCOwnerOf
    ClientOf <- MCClientOf
    PolicyOf <- MCPolicyOf
    GrantsOf <- MCGrantsOf
    Expiring = {k3}
    ExpiringGrants <- MCClientGrants
    Revocable = {k2}
    Unstable = {k3}
    Failing = {"authenticate", "find_policy", "find_grants", "limited"}
    Dropping = {"reserve"}
    HandlerAnswers = {"successful"}
    MaxRestarts = 0
    LegacyBaseline <- MCCapabilities
    AccountBaseline <- MCCapabilities
    DemoNetwork = "eth-mainnet"
    WINDOW = 1
    LockDelay = 0
    MaxTime = 0
    MaxDay = 0
CHECK_DEADLOCK FALSE
PROPERTY RevocationIsFinal
PROPERTY GrantLossIsFinal
