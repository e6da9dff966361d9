------------------------------ MODULE Balances ------------------------------
(***************************************************************************)
(* POST /v1/balances and /v1/balances/bulk, from the start of the process  *)
(* to the answer (routes/balances.rs, application/balances/service.rs,     *)
(* presenters/balances.rs).  The calls to Bigwig of one request are        *)
(* concurrent tasks, one for each network: their replies come in any       *)
(* order, and each may be lost, refused or wrong.  Grants may be revoked   *)
(* while the request runs.                                                 *)
(***************************************************************************)
EXTENDS ReadRequest, BalanceUpstream

(* The accounts of a body are a JSON array.                                *)
ASSUME AccountsAssumption ==
    \A in \in Inputs : in.handler = "balances" =>
      \A accounts \in in.request.accounts : accounts \in Seq(ToSet(accounts))

BalancesRead == "balances_read"

SUPPORTED_BALANCE_NETWORK_SLUGS == {"eth-mainnet", "base-mainnet"}

(* The locals of the handler and of the service.                           *)
command == local.command            \* GetBalancesCommand

plans == local.plans                \* Vec<NetworkGroupPlan>

executions == local.executions      \* of each plan

results == local.results            \* raw_account_results

prices == local.prices              \* the outcome of the price lookup

NoPrices == [error |-> {}, quotes |-> <<>>]

BalanceAccountError(a) == AccountError(a, SUPPORTED_BALANCE_NETWORK_SLUGS)

BodyError(r) ==
    FirstError(<<
      Fail(~ r.json, "invalid_request"),
      Fail(r.reserved_alias, "invalid_request"),
      Fail(~ r.known, "unknown_field"),
      FirstError(<<Fail(r.as_of = {}, "invalid_request")>>
                 \o SetToSeq({AsOfObjectError(x) : x \in r.as_of})) >>)

AccountsError(r) ==
    LET First(accounts) == FirstError(MapSeq(accounts, BalanceAccountError)) IN
    FirstError(<<
      Fail(r.accounts = {}, "invalid_request"),
      FirstError(SetToSeq({First(accounts) : accounts \in r.accounts})) >>)

TokensError(r) ==
    FirstError(<<
      Fail(r.quote_currency = {}, "invalid_request"),
      Fail(r.tokens = {}, IF r.tokens_object THEN "empty_tokens" ELSE "invalid_request"),
      FirstError(SetToSeq({SelectorError(t) : t \in r.tokens})),
      Fail(\E t \in r.tokens : t.asset_slugs \o t.contract_addresses = <<>>,
           "empty_tokens"),
      FirstError(SetToSeq({AsOfError(x) : x \in r.as_of})) >>)

(* SingleBalanceRequest and BulkBalanceRequest::try_from.                  *)
RequestError(r) == FirstError(<<BodyError(r), AccountsError(r), TokensError(r)>>)

(* A parsed account: the address is lower-cased.                           *)
OnchainAccount(a) ==
    [network_slug |-> CHOOSE n \in a.network_slug : TRUE,
     address |-> Lower(CHOOSE x \in a.address : TRUE)]

Parse ==
    LET r == input.request
        accounts == MapSeq(CHOOSE a \in r.accounts : TRUE, OnchainAccount)
        currency == CHOOSE c \in r.quote_currency : TRUE
        tokens == CHOOSE t \in r.tokens : TRUE
        as_of == CHOOSE x \in r.as_of : TRUE
        error == IF RequestError(r) # {} THEN RequestError(r)
                 ELSE CommandError(accounts, currency, tokens)
    IN /\ At("balances", "parse")
       /\ IF error # {}
          THEN (\E code \in error : Refuse(code)) /\ UNCHANGED local
          ELSE Goto("scopes",
                    [command |-> Command(as_of.kind, accounts, currency, tokens),
                     plans |-> <<>>, executions |-> <<>>, results |-> <<>>,
                     prices |-> NoPrices])
       /\ UNCHANGED <<input, grants>>

RequestedNetworks(c) == {a.network_slug : a \in ToSet(c.accounts)}

BalancesScopes ==
    /\ At("balances", "scopes")
    /\ RequireNetworkScopes(BalancesRead, RequestedNetworks(command), "plan")

Plan ==
    LET planned == PlanGroups(input.catalog, command)
        bigwig == CreateBigwigClient(input.clients.bigwig)
    IN /\ At("balances", "plan")
       /\ IF PlanError(planned) # {}
          THEN (\E code \in PlanError(planned) : Refuse(code)) /\ UNCHANGED local
          ELSE Goto("calls",
                    [local EXCEPT !.plans = planned, !.executions =
                       MapSeq(planned, LAMBDA p : Execution(p, bigwig))])
       /\ UNCHANGED <<input, grants>>

(* A task of the JoinSet ends with the reply of its call ...               *)
Joined(g) ==
    /\ At("balances", "calls")
    /\ executions[g].kind = "pending"
    /\ \E reply \in BalanceReplies(command, plans[g]) :
         local' = [local EXCEPT !.executions[g] = [kind |-> "called",
                                                   reply |-> {reply}]]
    /\ UNCHANGED <<input, grants, pc, answer>>

(* ... or dies, which ends the request and the tasks still running.        *)
ExecutionTaskFailed(g) ==
    /\ At("balances", "calls")
    /\ executions[g].kind = "pending"
    /\ local' = [local EXCEPT !.executions[g].kind = "died"]
    /\ Refuse("internal_error")
    /\ UNCHANGED <<input, grants>>

(* Every group has an outcome: they are put back in the order of the       *)
(* request.                                                                *)
Assemble ==
    /\ At("balances", "calls")
    /\ \A g \in DOMAIN executions : executions[g].kind # "pending"
    /\ Goto("price", [local EXCEPT !.results =
                        RawAccountResults(command, plans, executions)])
    /\ UNCHANGED <<input, grants>>

QuoteOutcome(slugs, reply) ==
    LET q == LatestQuotesStrict(slugs, command.quote_currency, reply)
    IN [error |-> {QuoteErrorCode(e) : e \in q.error}, quotes |-> q.quotes]

(* One lookup for the prices of what was resolved.                         *)
LookUpPrices ==
    LET slugs == CollectPricingAssetSlugs(results)
        Got(outcome) == Goto("present", [local EXCEPT !.prices = outcome])
    IN /\ At("balances", "price")
       /\ IF slugs = <<>> \/ command.as_of # {"latest"} THEN Got(NoPrices)
          ELSE IF ~ CreatePriceIndexerClient(input.clients.prices)
          THEN Got([error |-> {"price_provider_unavailable"}, quotes |-> <<>>])
          ELSE \E reply \in PriceReplies(command.quote_currency, slugs) :
                 Got(QuoteOutcome(slugs, reply))
       /\ UNCHANGED <<input, grants>>

(***************************************************************************)
(* BalancesResponsePresenter.                                              *)
(***************************************************************************)
ItemsWith(items, status) == SelectSeq(items, LAMBDA i : i.status = status)

PresentationStatus(supported, resolved, degraded) ==
    CASE supported = 0 -> "complete"
      [] supported > 0 /\ resolved = 0 -> "failed"
      [] supported > 0 /\ resolved > 0 ->
           IF degraded THEN "partial" ELSE "complete"

(* Mutant: an item whose price is unavailable counts as complete.          *)
DegradedByFailure(items) == ItemsWith(items, "failed") # <<>>

Degraded(items) ==
    \/ ItemsWith(items, "failed") # <<>>
    \/ \E i \in ToSet(ItemsWith(items, "resolved")) : i.quote.status # "available"

(* Errors are reported for failed items and for unavailable quotes.        *)
ItemErrors(items) ==
    LET Reports(i) == i.code \union i.quote.code # {} IN
    MapSeq(SelectSeq(items, Reports),
           LAMBDA i : [selector |-> i.selector,
                       code |-> CHOOSE c \in i.code \union i.quote.code : TRUE])

PresentAccount(result) ==
    LET items == result.items
        resolved == ItemsWith(items, "resolved")
        failed == ItemsWith(items, "failed")
    IN [status |-> PresentationStatus(Len(resolved) + Len(failed), Len(resolved),
                                      Degraded(items)),
        account |-> result.account, evidence |-> result.evidence,
        positions |-> resolved, skipped |-> ItemsWith(items, "skipped"),
        errors |-> ItemErrors(items), failed_items |-> Len(failed)]

(* BulkPresentationStats::from_accounts.                                   *)
BulkStats(accounts) ==
    LET Total(Count(_)) == FoldLeft(LAMBDA n, a : n + Count(a), 0, accounts) IN
    [positions_returned |-> Total(LAMBDA a : Len(a.positions)),
     failed_items       |-> Total(LAMBDA a : a.failed_items),
     skipped_items      |-> Total(LAMBDA a : Len(a.skipped))]

Single(account) ==
    [kind |-> "single", status |-> account.status, accounts |-> <<account>>,
     summary |-> {}]

Bulk(accounts) ==
    LET stats == BulkStats(accounts)
        resolved == stats.positions_returned
    IN [kind |-> "bulk", accounts |-> accounts,
        status |-> PresentationStatus(resolved + stats.failed_items, resolved,
                     \E a \in ToSet(accounts) : a.status # "complete"),
        summary |-> {[requested_accounts |-> Len(accounts),
                      requested_assets |-> Len(command.tokens)] @@ stats}]

Present ==
    LET accounts == MapSeq(EnrichAccountResults(command, results, prices),
                           PresentAccount)
    IN /\ At("balances", "present")
       /\ Respond(IF input.request.kind = "single" THEN Single(accounts[1])
                  ELSE Bulk(accounts))
       /\ UNCHANGED <<input, grants, local>>

BalancesNext ==
    \/ Parse \/ BalancesScopes \/ Plan \/ Assemble \/ LookUpPrices \/ Present
    \/ /\ At("balances", "calls")
       /\ \E g \in DOMAIN executions : Joined(g) \/ ExecutionTaskFailed(g)

(***************************************************************************)
(* Properties.                                                             *)
(***************************************************************************)

(* Reference: where the catalog puts a selector on a network, {{}} for the *)
(* native balance; nowhere when the pair is not supported.                 *)
KindsOf(network_slug, selector) ==
    {m.deployment_address :
       m \in {m \in ToSet(input.catalog.maps) :
                /\ m.asset_slug \in selector.asset
                /\ m.network_slug = network_slug
                /\ m.status = "active"
                /\ m.token_standard \in {"native", "erc20"}}}
      \union {{c} : c \in selector.contract}

(* Reference: the account's own network gave a trustworthy reply in which  *)
(* this balance is resolved.                                               *)
Told(account, kind) ==
    \E g \in DOMAIN plans :
      /\ plans[g].network_slug = account.network_slug
      /\ \E reply \in executions[g].reply : \E d \in reply.body :
           /\ d \notin FaultyDocuments(command, plans[g])
           /\ \E item \in ToSet(d.items) :
                /\ item.account = account.address
                /\ item.target = kind
                /\ item.status = "resolved"

(* Reference: the amount and the value of a position, in whole units.      *)
Exact(position, account, kind) ==
    LET held == Number(Held(account.network_slug, account.address, kind)) IN
    /\ \A target \in position.target : \A d \in target.decimals :
         /\ \A amount \in position.amount : InUnits(amount, d) = held
         /\ \A price \in position.quote.unit_price :
              LET scale == d + Len(price.frac) IN
              \A value \in position.quote.value :
                InUnits(value, scale) = held * InUnits(price, Len(price.frac))

Of(s, selector) == SelectSeq(s, LAMBDA x : x.selector = selector)

(* resolve, assemble_group_results and the presenter: the accounts come    *)
(* back in the order of the request; each requested token of each account  *)
(* is answered exactly once - skipped when the catalog does not have the   *)
(* pair, a position holding this account's own balance of it on its own    *)
(* network when that network's reply can be trusted, an error otherwise,   *)
(* whatever the replies for the other networks were - and amounts and      *)
(* values are exact.                                                       *)
BalancesAnswered ==
    input.handler = "balances" => \A body \in answer.body :
      /\ MapSeq(body.accounts, LAMBDA a : a.account) = command.accounts
      /\ \A i \in DOMAIN command.accounts, t \in DOMAIN command.tokens :
           LET account == command.accounts[i]
               selector == command.tokens[t]
               kinds == KindsOf(account.network_slug, selector)
               given == body.accounts[i]
               positions == Of(given.positions, selector)
               resolved == \E kind \in kinds : Told(account, kind)
           IN /\ Len(Of(given.skipped, selector)) = IF kinds = {} THEN 1 ELSE 0
              /\ Len(positions) = IF resolved THEN 1 ELSE 0
              /\ kinds # {} /\ ~ resolved =>
                   Len(Of(given.errors, selector)) = 1
              /\ \A p \in ToSet(positions), kind \in kinds :
                   /\ p.raw_amount
                        = Held(account.network_slug, account.address, kind)
                   /\ Exact(p, account, kind)

(* The statuses of the presenter: a response or an account is "complete"   *)
(* only when every balance it could be asked for is there with its value,  *)
(* and "failed" only when none of them is there.                           *)
StatusHonest ==
    input.handler = "balances" => \A body \in answer.body :
      LET Whole(a) == /\ a.failed_items = 0
                      /\ \A p \in ToSet(a.positions) : p.quote.value # {}
          None(a) == a.positions = <<>> /\ a.failed_items > 0
          Empty(a) == a.positions = <<>> /\ a.failed_items = 0
          accounts == ToSet(body.accounts)
      IN /\ \A a \in accounts : /\ (a.status = "complete") = Whole(a)
                                /\ (a.status = "failed") = None(a)
         /\ (body.status = "complete") = \A a \in accounts : Whole(a)
         /\ (body.status = "failed") =
              /\ \A a \in accounts : None(a) \/ Empty(a)
              /\ \E a \in accounts : None(a)

(* validate_catalog and plan_network_group: a catalog that the process     *)
(* starts on never makes the plan of a request invalid; internal_error is  *)
(* left for a task that died.                                              *)
CatalogPlansSoundly ==
    input.handler = "balances" /\ answer.error = {"internal_error"} =>
      \E g \in DOMAIN executions : executions[g].kind = "died"

(* Reference: the networks on which balances were asked for.               *)
BalanceNetworksRead ==
    {plans[g].network_slug :
       g \in {g \in DOMAIN executions : executions[g].kind # "skipped_only"}}

=============================================================================
