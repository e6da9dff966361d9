SPECIFICATION Spec
CONSTANTS
    acme = acme
    zed = zed
    w1 = w1
    w2 = w2
    w3 = w3
    n0 = n0
    n1 = n1
    a1 = a1
    a2 = a2
    a3 = a3
    Alpha = Alpha
    alpha = alpha
    beta = beta
    None = None
    Names = {n0, n1}
    InitialName = n0
    InitialOf <- MCInitialOf
    Lower <- MCLower
    AsciiLower <- MCLower
CHECK_DEADLOCK FALSE
CONSTANTS
    Requests = {1, 2, 3}
    Accounts = {acme}
    Workspaces = {w1}
    InitialMembers = {a1}
    Addresses = {a1}
    Labels = {Alpha, alpha, beta}
    Operations <- LabelOps
    MaxMembers = 1
    MaxLabels = 1
    MaxTime = 0
    Readers = {}
    PageLimit = 1
INVARIANT LabelLimit
