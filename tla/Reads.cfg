\* Small limits with the relations of the code's: the items of a command are its
\* accounts times its tokens, and a price batch holds the tokens of a command.
SPECIFICATION Spec
CONSTANTS
    MAX_ACCOUNTS = 3
    MAX_TOKENS = 3
    MAX_RESOLUTION_ITEMS = 9
    PRICE_BATCH_MAX_SLUGS = 3
    MaxTokenFilters = 2
    DEFAULT_LIMIT = 4
    MAX_LIMIT = 5
    MAX_QUERY_LENGTH = 8
    MAX_DAYS = 3
    ANNUALIZED_FROM_DAYS = 2
    MIN_CONFIRMATIONS = 2
    Capabilities = {"balances_read", "erc20_transfers_read", "lab_read"}
    Networks = {"eth-mainnet", "base-mainnet"}
    Inputs <- MCInputs
    TransferRows <- MCTransferRows
    Held <- MCHeld
    PriceOf <- MCPriceOf
    LatestPriceOf <- MCLatestPriceOf
    NormalizeQuery <- MCNormalizeQuery
    IncomeIndex <- MCIncomeIndex
    Mentions <- MCMentions
    Precedes <- MCPrecedes
INVARIANT BalancesAnswered
INVARIANT StatusHonest
INVARIANT CatalogPlansSoundly
INVARIANT DeniedNetworksNotRead
INVARIANT TransfersLabelled
INVARIANT WindowsOrdered
INVARIANT FailuresStayLocal
INVARIANT PortfolioAddsUp
INVARIANT BlocksAtOrBefore
INVARIANT SimulationHonest
INVARIANT YieldOfFinalBlocks
