----------------------------- MODULE Portfolio -----------------------------
(***************************************************************************)
(* The current portfolio of a workspace: access                            *)
(* (src/adapters/http/workspaces.rs, resolve_workspace_portfolio) and      *)
(* resolution (src/application/workspaces/portfolio.rs).  The members are  *)
(* split into balance commands, the commands run one after the other       *)
(* through the balance service, and their outcomes are put together into   *)
(* contributions, assets and totals.  A command that fails leaves its part *)
(* unavailable and the rest goes on.                                       *)
(***************************************************************************)
EXTENDS ReadRequest, BalanceUpstream

PORTFOLIO_QUOTE_CURRENCY == "USD"

(***************************************************************************)
(* WorkspaceBalanceResolutionPlanner::plan.                                *)
(***************************************************************************)

(* slice::chunks.                                                          *)
ChunksOf(s, size) ==
    [c \in 1..((Len(s) + size - 1) \div size) |->
       SubSeq(s, (c - 1) * size + 1,
              IF c * size < Len(s) THEN c * size ELSE Len(s))]

MemberAccount(member) == [network_slug |-> member.network_slug,
                          address |-> member.address]

MemberOrder(left, right) ==
    \/ Precedes(left.network_slug, right.network_slug)
    \/ /\ left.network_slug = right.network_slug
       /\ Lower(left.address).id < Lower(right.address).id

(* The commands of one network: chunks of assets, and in each chunks of    *)
(* members.                                                                *)
NetworkCommands(catalog, members, network_slug) ==
    LET here == SortSeq(SelectSeq(members, LAMBDA m : m.network_slug = network_slug),
                        MemberOrder)
        slugs == ActiveAssetSlugsMappedToNetwork(catalog, network_slug)
        Selector(chunk) == [asset_slugs |-> chunk, contract_addresses |-> <<>>]
        Planned(chunk, accounts) ==
          [error |-> CommandError(accounts, PORTFOLIO_QUOTE_CURRENCY, Selector(chunk)),
           command |-> Command({"latest"}, accounts, PORTFOLIO_QUOTE_CURRENCY,
                               Selector(chunk))]
        OfChunk(chunk) ==
          MapSeq(ChunksOf(MapSeq(here, MemberAccount), MAX_ACCOUNTS),
                 LAMBDA accounts : Planned(chunk, accounts))
    IN FlattenSeq(MapSeq(ChunksOf(slugs, MAX_TOKENS), OfChunk))

PlanPortfolio(catalog, members) ==
    LET networks == SortSeq(SetToSeq({m.network_slug : m \in ToSet(members)}), Precedes)
    IN FlattenSeq(MapSeq(networks, LAMBDA n : NetworkCommands(catalog, members, n)))

(* portfolio_resolution_networks: a BTreeSet.                              *)
PortfolioNetworks(commands) ==
    UNION {{a.network_slug : a \in ToSet(c.accounts)} : c \in ToSet(commands)}

(***************************************************************************)
(* Access.  WorkspacePortfolioAccessError is the error of the answer.      *)
(***************************************************************************)
PortfolioError(error) ==
    /\ answer' = [status |-> 0, error |-> {error}, body |-> {}]
    /\ pc' = "answered"
    /\ UNCHANGED local

FindPortfolio ==
    LET planned == PlanPortfolio(input.catalog, input.request.members)
        commands == MapSeq(planned, LAMBDA p : p.command)
    IN /\ At("portfolio", "parse")
       /\ \/ PortfolioError("unavailable")
          \/ /\ ~ input.request.owned
             /\ PortfolioError("not_found")
          \/ /\ input.request.owned
             /\ FirstError(MapSeq(planned, LAMBDA p : p.error)) = {}
             /\ Goto(IF commands = <<>> THEN "calls" ELSE "scopes",
                     [commands |-> commands, next |-> 1, done |-> <<>>, results |-> <<>>,
                      networks |-> PortfolioNetworks(commands)])
       /\ UNCHANGED <<input, grants>>

(* AccountRepository::has_active_capability.                               *)
HasActiveCapability(network_slug) ==
    AnyPermits(grants.owner_grants, NetworkRequest("balances_read", network_slug))

AllowedEverywhere ==
    /\ At("portfolio", "scopes")
    /\ \/ PortfolioError("unavailable")
       \/ Goto(IF HasActiveCapability(AnyNetwork) THEN "calls" ELSE "networks", local)
    /\ UNCHANGED <<input, grants>>

AllowedNetwork ==
    /\ At("portfolio", "networks")
    /\ \E n \in local.networks :
         LET left == local.networks \ {n} IN
         /\ \A m \in left : Precedes(n, m)
         /\ \/ PortfolioError("unavailable")
            \/ ~ HasActiveCapability(n) /\ PortfolioError("forbidden")
            \/ /\ HasActiveCapability(n)
               /\ Goto(IF left = {} THEN "calls" ELSE "networks",
                       [local EXCEPT !.networks = left])
    /\ UNCHANGED <<input, grants>>

(***************************************************************************)
(* resolve: one command after the other.  What is done of the portfolio is *)
(* a sequence of outcomes; an unavailable command has no accounts.         *)
(***************************************************************************)
CommandOutcome(c, accounts) == [command |-> c, accounts |-> accounts]

Resolving == local.commands[local.next]

NextCommand(outcome) ==
    Goto("calls", [local EXCEPT !.next = @ + 1, !.results = <<>>,
                                !.done = Append(@, outcome)])

UnavailableCommand(c) == NextCommand(CommandOutcome(c, {}))

(* Bigwig and the Price Indexer (external), for a command.                 *)
CommandReplies(c, plan) ==
    {Success(Document(c, plan, [i \in Items(plan) |->
                                  IF i \in unresolved THEN "failed" ELSE "resolved"])) :
       unresolved \in {{}, {1}, Items(plan)}}
      \union {Lost("timeout")}

CommandPriceReplies(slugs) ==
    LET found == [i \in DOMAIN slugs |->
                    FoundResult(PORTFOLIO_QUOTE_CURRENCY, slugs[i], "fresh")]
    IN {Success(Batch(PORTFOLIO_QUOTE_CURRENCY, found)),
        Success(Batch(PORTFOLIO_QUOTE_CURRENCY,
                      [found EXCEPT ![1].status = "unknown", ![1].price = {}])),
        Lost("timeout")}

(* A command has one network, and so one call at most.                     *)
ResolveCommand ==
    LET c == Resolving
        planned == PlanGroups(input.catalog, c)
        execution == Execution(planned[1], CreateBigwigClient(input.clients.bigwig))
        Called(e) == Goto("price", [local EXCEPT !.results =
                                      RawAccountResults(c, planned, <<e>>)])
    IN /\ At("portfolio", "calls")
       /\ local.next \in DOMAIN local.commands
       /\ IF PlanError(planned) # {} THEN UnavailableCommand(c)
          ELSE IF execution.kind # "pending" THEN Called(execution)
          ELSE \/ UnavailableCommand(c)
               \/ \E reply \in CommandReplies(c, planned[1]) :
                    Called([kind |-> "called", reply |-> {reply}])
       /\ UNCHANGED <<input, grants>>

PriceCommand ==
    LET c == Resolving
        slugs == CollectPricingAssetSlugs(local.results)
        Priced(quotes) ==
          NextCommand(CommandOutcome(c, {EnrichAccountResults(c, local.results, quotes)}))
    IN /\ At("portfolio", "price")
       /\ IF slugs = <<>> THEN Priced([error |-> {}, quotes |-> <<>>])
          ELSE IF ~ CreatePriceIndexerClient(input.clients.prices)
          THEN Priced([error |-> {"price_provider_unavailable"}, quotes |-> <<>>])
          ELSE \E reply \in CommandPriceReplies(slugs) :
                 LET q == LatestQuotesStrict(slugs, PORTFOLIO_QUOTE_CURRENCY, reply) IN
                 Priced([error |-> {QuoteErrorCode(e) : e \in q.error},
                         quotes |-> q.quotes])
       /\ UNCHANGED <<input, grants>>

(***************************************************************************)
(* compose.                                                                *)
(***************************************************************************)

(* append_balance_result: the result is the one of the command.            *)
ConsistentResult(c, accounts) ==
    /\ Len(accounts) = Len(c.accounts)
    /\ \A i \in DOMAIN accounts :
         /\ Identity(accounts[i].account) = Identity(c.accounts[i])
         /\ Len(accounts[i].items) = Len(c.tokens)

Contribution(member, asset, status, amount, value) ==
    [member |-> member, asset |-> asset, status |-> status, amount |-> amount,
     value |-> value]

(* The contributions of one outcome to one member.                         *)
OutcomeContributions(outcome, member) ==
    LET c == outcome.command
        mine == {i \in DOMAIN c.accounts : Identity(c.accounts[i]) = Identity(member)}
        i == CHOOSE k \in mine : TRUE
        AssetOf(selector) == CHOOSE slug \in selector.asset : TRUE
        Resolved(item) ==
          Contribution(member.public_id, AssetOf(item.selector), item.status,
                       item.amount, item.quote.value)
    IN IF mine = {} THEN <<>>
       ELSE IF outcome.accounts = {}
       THEN MapSeq(c.tokens,
                   LAMBDA t : Contribution(member.public_id, AssetOf(t),
                                           "command_unavailable", {}, {}))
       ELSE MapSeq((CHOOSE a \in outcome.accounts : TRUE)[i].items, Resolved)

MemberContributions(outcomes, member) ==
    SortSeq(FlattenSeq(MapSeq(outcomes, LAMBDA o : OutcomeContributions(o, member))),
            LAMBDA l, r : Precedes(l.asset, r.asset))

WithBalance(contributions) ==
    SelectSeq(contributions, LAMBDA c : c.status = "resolved")

BalanceStatus(contributions) ==
    LET resolved == Len(WithBalance(contributions)) IN
    CASE contributions = <<>> -> "complete"
      [] contributions # <<>> /\ resolved = 0 -> "unavailable"
      [] resolved > 0 /\ resolved = Len(contributions) -> "complete"
      [] resolved > 0 /\ resolved < Len(contributions) -> "partial"

SumDecimalValues(values) ==
    FoldLeft(AddUnsignedDecimals, [int |-> <<0>>, frac |-> <<>>], values)

Somes(options) ==
    MapSeq(SelectSeq(options, LAMBDA o : o # {}), LAMBDA o : CHOOSE x \in o : TRUE)

AggregateAsset(slug, contributions) ==
    LET amounts == Somes(MapSeq(contributions, LAMBDA c : c.amount))
        values == Somes(MapSeq(contributions, LAMBDA c : c.value))
        summed == Len(amounts) = Len(contributions)
    IN [asset_slug |-> slug, contributions |-> contributions,
        total_amount |-> IF summed THEN {SumDecimalValues(amounts)} ELSE {},
        known_value |-> SumDecimalValues(values),
        valuation_status |-> IF summed /\ Len(values) = Len(contributions)
                             THEN "complete" ELSE "partial"]

(* Only resolved contributions are grouped by asset.                       *)
AggregateAssets(catalog, contributions) ==
    LET resolved == WithBalance(contributions)
        Slug(asset) == asset.slug
        Observed(asset) == \E c \in ToSet(resolved) : c.asset = asset.slug
        ordered == SortSeq(SelectSeq(catalog.assets, Observed), AssetOrder)
    IN MapSeq(MapSeq(ordered, Slug),
              LAMBDA slug : AggregateAsset(slug,
                              SelectSeq(resolved, LAMBDA c : c.asset = slug)))

ValuationStatus(members, contributions, assets) ==
    LET balances == BalanceStatus(contributions) IN
    IF members = <<>> THEN "complete"
    ELSE IF balances = "unavailable" THEN "unavailable"
    ELSE IF balances = "partial"
            \/ \E a \in ToSet(assets) : a.valuation_status # "complete"
    THEN "partial" ELSE "complete"

Compose ==
    LET members == SortSeq(input.request.members, MemberOrder)
        observed == MapSeq(members, LAMBDA m : MemberContributions(local.done, m))
        all == FlattenSeq(observed)
        assets == AggregateAssets(input.catalog, all)
    IN /\ At("portfolio", "calls")
       /\ local.next \notin DOMAIN local.commands
       /\ IF \/ \E o \in ToSet(local.done) : \E accounts \in o.accounts :
                  ~ ConsistentResult(o.command, accounts)
             \/ \E c \in ToSet(WithBalance(all)) :
                  AssetBySlug(input.catalog, c.asset) = {}
          THEN PortfolioError("unavailable")
          ELSE /\ Respond([members |-> [i \in DOMAIN members |->
                             [member |-> members[i].public_id,
                              contributions |-> observed[i],
                              observation_status |-> BalanceStatus(observed[i])]],
                           assets |-> assets,
                           known_value |-> SumDecimalValues(
                             MapSeq(assets, LAMBDA a : a.known_value)),
                           valuation_status |-> ValuationStatus(members, all, assets)])
               /\ UNCHANGED local
       /\ UNCHANGED <<input, grants>>

PortfolioNext ==
    \/ FindPortfolio \/ AllowedEverywhere \/ AllowedNetwork
    \/ ResolveCommand \/ PriceCommand \/ Compose

(***************************************************************************)
(* Properties.                                                             *)
(***************************************************************************)

(* Reference: the mappings that a member is expected to hold assets under. *)
ExpectedMaps(member) ==
    {m \in ToSet(input.catalog.maps) :
       m.network_slug = member.network_slug /\ FullyActive(input.catalog, m)}

(* Reference: the balance of a member, and the sum of units of decimals.   *)
HeldBy(member, mapping) ==
    Number(Held(member.network_slug, member.address, mapping.deployment_address))

SumOver(S, Op(_)) == FoldLeft(LAMBDA n, x : n + Op(x), 0, SetToSeq(S))

ValueScale == 4

(* plan, compose and aggregate_asset: however the members and the assets   *)
(* fall into commands and whichever of them fail, every member has exactly *)
(* one contribution for each asset mapped on its network; each total is    *)
(* the sum of what was resolved, to the last digit; the value of the       *)
(* workspace is the sum of every value known; and the portfolio is         *)
(* complete only when nothing expected is missing.                         *)
PortfolioAddsUp ==
    input.handler = "portfolio" => \A body \in answer.body :
      LET members == ToSet(input.request.members)
          ContributionsOf(member) ==
            (CHOOSE o \in ToSet(body.members) : o.member = member.public_id).contributions
          expected == UNION {{<<member, map>> : map \in ExpectedMaps(member)} :
                               member \in members}
          Given(pair) == SelectSeq(ContributionsOf(pair[1]), LAMBDA c : c.asset = pair[2].asset_slug)
          resolved == {p \in expected : Given(p)[1].status = "resolved"}
          valued == {p \in resolved : Given(p)[1].value # {}}
          Units(p) ==
            LET price == PriceOf(p[2].asset_slug)
                d == CHOOSE d \in p[2].decimals : TRUE
            IN HeldBy(p[1], p[2]) * InUnits(price, Len(price.frac))
                 * Power10(ValueScale - d - Len(price.frac))
          Amount(p) ==
            HeldBy(p[1], p[2]) * Power10(ValueScale - CHOOSE d \in p[2].decimals : TRUE)
      IN /\ Len(body.members) = Cardinality(members)
         /\ \A p \in expected : Len(Given(p)) = 1
         /\ \A member \in members :
              Len(ContributionsOf(member)) = Cardinality(ExpectedMaps(member))
         /\ \A a \in ToSet(body.assets) :
              LET of == {p \in resolved : p[2].asset_slug = a.asset_slug} IN
              /\ Len(a.contributions) = Cardinality(of)
              /\ \A total \in a.total_amount :
                   InUnits(total, ValueScale) = SumOver(of, Amount)
              /\ InUnits(a.known_value, ValueScale) = SumOver(of \cap valued, Units)
         /\ InUnits(body.known_value, ValueScale) = SumOver(valued, Units)
         /\ (body.valuation_status = "complete") = (valued = expected)

=============================================================================
