--------------------------- MODULE BalanceService ---------------------------
(***************************************************************************)
(* The steps of the balance service (src/application/balances): a command  *)
(* is checked, its accounts are grouped by network, each group is planned  *)
(* as one Bigwig call, and the replies are put back in request order.      *)
(* Balances runs these steps for an HTTP request and Portfolio for the     *)
(* commands of a workspace.                                                *)
(***************************************************************************)
EXTENDS Registry, Bigwig, PriceIndexer, Decimals

CONSTANTS MAX_ACCOUNTS,           \* 50, and BIGWIG_MAX_ACCOUNTS
          MAX_TOKENS,             \* 20, and BIGWIG_MAX_TARGETS
          MAX_RESOLUTION_ITEMS    \* 1000, and BIGWIG_MAX_ITEMS

QuoteCurrencies == {"USD", "MXN", "USDC", "BTC"}

(* trim().to_ascii_uppercase(), on the texts that requests carry.          *)
Uppercase(currency) == IF currency = "mxn" THEN "MXN" ELSE currency

(***************************************************************************)
(* GetBalancesCommand::try_new.                                            *)
(***************************************************************************)
Contracts(tokens) == Deduplicated(MapSeq(tokens.contract_addresses, Lower))

Identity(account) == <<account.network_slug, Lower(account.address)>>

CommandError(accounts, quote_currency, tokens) ==
    LET count == Len(tokens.asset_slugs) + Len(Contracts(tokens)) IN
    FirstError(<<
      Fail(accounts = <<>>, "empty_accounts"),
      Fail(count = 0, "empty_tokens"),
      Fail(\/ Len(accounts) > MAX_ACCOUNTS
           \/ count > MAX_TOKENS
           \/ Len(accounts) * count > MAX_RESOLUTION_ITEMS,
           "request_too_large"),
      Fail(Uppercase(quote_currency) \notin QuoteCurrencies,
           "unsupported_quote_currency"),
      Fail(\E a \in ToSet(accounts) : ~ IsEvmAddress(a.address),
           "invalid_account"),
      Fail(~ Distinct(accounts, Identity), "duplicate_account"),
      Fail(~ IsInjective(tokens.asset_slugs), "duplicate_asset") >>)

(* A selector of the command: an asset slug or a contract address.         *)
Selectors(tokens) ==
    [i \in DOMAIN tokens.asset_slugs |->
       [asset |-> {tokens.asset_slugs[i]}, contract |-> {}]]
    \o [i \in DOMAIN Contracts(tokens) |->
          [asset |-> {}, contract |-> {Contracts(tokens)[i]}]]

Command(as_of, accounts, quote_currency, tokens) ==
    [as_of |-> as_of, accounts |-> accounts, tokens |-> Selectors(tokens),
     quote_currency |-> Uppercase(quote_currency)]

(***************************************************************************)
(* plan_groups.                                                            *)
(***************************************************************************)

(* The networks in the order of their first account, each with the indexes *)
(* of its accounts in the request.                                         *)
GroupAccounts(accounts) ==
    LET networks == Deduplicated(MapSeq(accounts, LAMBDA a : a.network_slug))
        Members(n) == SelectSeq([i \in DOMAIN accounts |-> i],
                                LAMBDA i : accounts[i].network_slug = n)
    IN [g \in DOMAIN networks |->
          [network_slug |-> networks[g], members |-> Members(networks[g])]]

(* ResolvedBalanceTarget of a catalog target, and of an unknown contract.  *)
ResolvedTarget(selector, target) ==
    [selector |-> selector, network_slug |-> target.network_slug,
     chain_id |-> target.chain_id, asset |-> {target.asset},
     decimals |-> {target.decimals}, kind |-> target.kind]

UnresolvedContractTarget(selector, network_slug, chain_id) ==
    [selector |-> selector, network_slug |-> network_slug,
     chain_id |-> chain_id, asset |-> {}, decimals |-> {},
     kind |-> selector.contract]

(* What a selector resolves to on a network: a request error, a target, or *)
(* neither when the pair is skipped.                                       *)
Resolve(catalog, network_slug, selector) ==
    LET chain == ResolveEvmNetwork(catalog, network_slug) IN
    IF selector.asset # {}
    THEN LET found == ResolveAsset(catalog, network_slug,
                                   CHOOSE slug \in selector.asset : TRUE)
         IN [selector |-> selector,
             error  |-> {found.kind} \cap {"unsupported_network",
                                           "unsupported_asset"},
             target |-> {ResolvedTarget(selector, t) : t \in found.target}]
    ELSE LET address == CHOOSE a \in selector.contract : TRUE
             known == UNION {ResolveContract(catalog, network_slug, id, address) :
                               id \in chain}
         IN [selector |-> selector,
             error  |-> {},
             target |-> IF known # {}
                        THEN {ResolvedTarget(selector, t) : t \in known}
                        ELSE {UnresolvedContractTarget(selector, network_slug,
                                                       id) : id \in chain}]

(* push_planned_target: a target is called for once; two asset selectors   *)
(* may not share it.                                                       *)
PushPlannedTarget(plan, target) ==
    LET same == {i \in DOMAIN plan.targets : plan.targets[i].kind = target.kind}
        first == plan.targets[CHOOSE i \in same : TRUE]
        Supported(index) == [index |-> index, target |-> {target},
                             selector |-> target.selector]
    IN IF same = {}
       THEN [plan EXCEPT !.targets = Append(@, target),
                         !.tokens = Append(@, Supported({Len(plan.targets) + 1}))]
       ELSE IF first.selector.asset # {} /\ target.selector.asset # {}
                 /\ first # target
       THEN [plan EXCEPT !.error = {"internal_error"}]
       ELSE [plan EXCEPT !.tokens = Append(@, Supported(same))]

(* What is left out compares a resolution with the request it was made     *)
(* for: the registry copies the network and the token into it.             *)
PlanToken(plan, found) ==
    LET target == CHOOSE t \in found.target : TRUE
        skipped == [index |-> {}, target |-> {}, selector |-> found.selector]
    IN IF plan.error # {} THEN plan
       ELSE IF found.error # {} THEN [plan EXCEPT !.error = found.error]
       ELSE IF found.target = {} THEN [plan EXCEPT !.tokens = Append(@, skipped)]
       ELSE IF plan.chain_id \notin {{}, {target.chain_id}}
       THEN [plan EXCEPT !.error = {"internal_error"}]
       ELSE PushPlannedTarget([plan EXCEPT !.chain_id = {target.chain_id}], target)

PlanNetworkGroup(catalog, group, selectors) ==
    LET contracts == \E s \in ToSet(selectors) : s.contract # {}
        chain == IF contracts THEN ResolveEvmNetwork(catalog, group.network_slug)
                 ELSE {}
        start == [chain_id |-> chain, targets |-> <<>>, tokens |-> <<>>,
                  error |-> Fail(contracts /\ chain = {}, "unsupported_network")]
        resolutions ==
          MapSeq(selectors, LAMBDA s : Resolve(catalog, group.network_slug, s))
        plan == FoldLeft(PlanToken, start, resolutions)
        large == \/ Len(group.members) > MAX_ACCOUNTS
                 \/ Len(plan.targets) > MAX_TOKENS
                 \/ Len(group.members) * Len(plan.targets) > MAX_RESOLUTION_ITEMS
    IN [network_slug |-> group.network_slug, members |-> group.members,
        chain_id |-> plan.chain_id, targets |-> plan.targets, tokens |-> plan.tokens,
        error |-> FirstError(<<plan.error, Fail(large, "request_too_large")>>)]

PlanGroups(catalog, command) ==
    MapSeq(GroupAccounts(command.accounts),
           LAMBDA g : PlanNetworkGroup(catalog, g, command.tokens))

PlanError(plans) == FirstError(MapSeq(plans, LAMBDA p : p.error))

(***************************************************************************)
(* Calls.  An execution is one of                                          *)
(*   pending, skipped_only, failed (no client), called (a reply).          *)
(***************************************************************************)
Execution(plan, client) ==
    [kind |-> CASE plan.targets = <<>> -> "skipped_only"
                [] plan.targets # <<>> /\ ~ client -> "failed"
                [] OTHER -> "pending",
     reply |-> {}]

(* Mutant: the items are taken as they come.                               *)
ValidateUncorrelated(command, plan, document) ==
    LET items == document.items
        resolved == {i \in DOMAIN items : items[i].status = "resolved"}
    IN /\ document.primitive = "evm_balances"
       /\ document.network_slug = plan.network_slug
       /\ {document.chain_id} = plan.chain_id
       /\ Len(items) = Len(plan.members) * Len(plan.targets)
       /\ \A i \in resolved : IsUnsignedInteger(items[i].raw_amount)
       /\ document.status = CASE resolved = DOMAIN items -> "complete"
                              [] resolved = {} /\ items # <<>> -> "failed"
                              [] OTHER -> "partial"

(* validate_response: item i is the one of account i / |targets| and       *)
(* target i % |targets|, and the status is the one of the items.           *)
ValidateResponse(command, plan, document) ==
    LET items == document.items
        T == Len(plan.targets)
        resolved == {i \in DOMAIN items : items[i].status = "resolved"}
    IN /\ document.primitive = "evm_balances"
       /\ document.network_slug = plan.network_slug
       /\ {document.chain_id} = plan.chain_id
       /\ Len(items) = Len(plan.members) * T
       /\ Distinct(items, LAMBDA i : <<Lower(i.account), i.target>>)
       /\ \A i \in DOMAIN items :
            /\ Lower(items[i].account)
                 = Lower(command.accounts[plan.members[(i - 1) \div T + 1]].address)
            /\ items[i].target = plan.targets[((i - 1) % T) + 1].kind
       /\ \A i \in resolved : IsUnsignedInteger(items[i].raw_amount)
       /\ document.status = CASE resolved = DOMAIN items -> "complete"
                              [] resolved = {} /\ items # <<>> -> "failed"
                              [] OTHER -> "partial"

(***************************************************************************)
(* assemble_group_results: the raw results of the k-th account of a group. *)
(***************************************************************************)
Item(token, status, code, raw_amount) ==
    [status |-> status, selector |-> token.selector, target |-> token.target,
     code |-> code, raw_amount |-> raw_amount]

Skipped(token) == Item(token, "skipped", {}, <<>>)

FailedGroupResult(plan, code) ==
    [evidence |-> {},
     items |-> MapSeq(plan.tokens,
                      LAMBDA t : IF t.index = {} THEN Skipped(t)
                                 ELSE Item(t, "failed", {code}, <<>>))]

OutcomeIndex(plan, k, t) == (k - 1) * Len(plan.targets) + t

ValidatedGroupResult(plan, document, k) ==
    LET Outcome(t) ==
          document.items[OutcomeIndex(plan, k, CHOOSE i \in t.index : TRUE)]
    IN [evidence |-> {document.block},
        items |-> MapSeq(plan.tokens,
          LAMBDA t : CASE t.index = {} -> Skipped(t)
                       [] t.index # {} /\ Outcome(t).status = "resolved" ->
                            Item(t, "resolved", {}, Outcome(t).raw_amount)
                       [] OTHER ->
                            Item(t, "failed", {"balance_resolution_failed"}, <<>>))]

AssembleGroupResult(command, plan, execution, k) ==
    LET reply == CHOOSE r \in execution.reply : TRUE
        document == CHOOSE d \in reply.body : TRUE
        error == CHOOSE e \in CallError(reply) : TRUE
    IN CASE execution.kind = "skipped_only" ->
              [evidence |-> {}, items |-> MapSeq(plan.tokens, Skipped)]
         [] execution.kind = "failed" ->
              FailedGroupResult(plan, "balance_provider_unavailable")
         [] execution.kind = "called" ->
              IF CallError(reply) # {}
              THEN FailedGroupResult(plan, MapBigwigError(error))
              ELSE IF ~ ValidateResponse(command, plan, document)
              THEN FailedGroupResult(plan, "internal_error")
              ELSE ValidatedGroupResult(plan, document, k)

(* The results of every group, back in the order of the request.           *)
RawAccountResults(command, plans, executions) ==
    [a \in DOMAIN command.accounts |->
       LET g == CHOOSE g \in DOMAIN plans : a \in ToSet(plans[g].members)
           k == CHOOSE k \in DOMAIN plans[g].members : plans[g].members[k] = a
       IN AssembleGroupResult(command, plans[g], executions[g], k)]

(***************************************************************************)
(* Quotes.                                                                 *)
(***************************************************************************)
CollectPricingAssetSlugs(results) ==
    LET Slugs(item) ==
          IF item.status = "resolved"
          THEN SetToSeq(UNION {t.asset : t \in item.target}) ELSE <<>>
        OfAccount(r) == FlattenSeq(MapSeq(r.items, Slugs))
    IN Deduplicated(FlattenSeq(MapSeq(results, OfAccount)))

UnavailableQuote(code) == [status |-> "unavailable", code |-> {code},
                           unit_price |-> {}, value |-> {}]

UnsupportedQuote == [status |-> "unsupported", code |-> {},
                     unit_price |-> {}, value |-> {}]

(* enrich_item and enrich_quote: quotes is the outcome of the one price    *)
(* lookup of the request.                                                  *)
Quote(target, raw_amount, quotes) ==
    LET slug == CHOOSE s \in target.asset : TRUE
        decimals == CHOOSE d \in target.decimals : TRUE
        quote == quotes.quotes[slug]
        price == CHOOSE p \in quote.price : TRUE
    IN IF target.asset = {} \/ target.decimals = {} THEN UnsupportedQuote
       ELSE IF quotes.error # {}
       THEN UnavailableQuote(CHOOSE e \in quotes.error : TRUE)
       ELSE IF slug \notin DOMAIN quotes.quotes
       THEN UnavailableQuote("price_resolution_failed")
       ELSE CASE quote.status = "available" /\ ~ IsUnsignedDecimal(price) ->
                   UnavailableQuote("internal_error")
              [] quote.status = "available" /\ IsUnsignedDecimal(price) ->
                   [status |-> "available", code |-> {}, unit_price |-> {price},
                    value |-> {MultiplyAmountByPrice(raw_amount, decimals, price)}]
              [] quote.status = "unavailable" ->
                   UnavailableQuote("price_resolution_failed")
              [] quote.status = "unsupported" -> UnsupportedQuote

EnrichItem(item, quotes) ==
    LET target == CHOOSE t \in item.target : TRUE IN
    [status |-> item.status, selector |-> item.selector, code |-> item.code,
     target |-> item.target, raw_amount |-> item.raw_amount,
     amount |-> IF item.status # "resolved" THEN {}
                ELSE {FormatAmount(item.raw_amount, d) : d \in target.decimals},
     quote |-> IF item.status # "resolved" THEN UnsupportedQuote
               ELSE Quote(target, item.raw_amount, quotes)]

EnrichAccountResults(command, results, quotes) ==
    [a \in DOMAIN results |->
       [account |-> command.accounts[a], evidence |-> results[a].evidence,
        items |-> MapSeq(results[a].items, LAMBDA i : EnrichItem(i, quotes))]]

=============================================================================
