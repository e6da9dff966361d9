-------------------------- MODULE BalanceUpstream --------------------------
(***************************************************************************)
(* The services behind the balance service (external): what Bigwig may     *)
(* reply to the call for a plan of a command, and what the Price Indexer   *)
(* may reply to the lookup of slugs - in the form in which                 *)
(* src/adapters/bigwig/balances.rs and src/adapters/price_indexer decode   *)
(* them.                                                                   *)
(***************************************************************************)
EXTENDS BalanceService

CONSTANTS Held(_, _, _),    \* the balance of an account: network, address, kind
          PriceOf(_)        \* the price of an asset

HonestItem(command, plan, i, status) ==
    LET T == Len(plan.targets)
        account == command.accounts[plan.members[(i - 1) \div T + 1]].address
        kind == plan.targets[((i - 1) % T) + 1].kind
    IN [account |-> account, target |-> kind, status |-> status,
        raw_amount |-> Held(plan.network_slug, account, kind)]

StatusOf(f) ==
    CASE \A i \in DOMAIN f : f[i] = "resolved" -> "complete"
      [] \A i \in DOMAIN f : f[i] # "resolved" -> "failed"
      [] OTHER -> "partial"

Document(command, plan, f) ==
    [primitive |-> "evm_balances", network_slug |-> plan.network_slug,
     chain_id |-> CHOOSE id \in plan.chain_id : TRUE, status |-> StatusOf(f),
     block |-> plan.network_slug,
     items |-> [i \in DOMAIN f |-> HonestItem(command, plan, i, f[i])]]

Items(plan) == 1..(Len(plan.members) * Len(plan.targets))

(* Every balance is there, or some are, or none.                           *)
HonestDocuments(command, plan) ==
    {Document(command, plan, f) : f \in [Items(plan) -> {"resolved", "failed"}]}
      \union {Document(command, plan, [i \in Items(plan) |-> "unavailable"])}

FaultyDocuments(command, plan) ==
    LET n == Len(plan.members) * Len(plan.targets)
        d == Document(command, plan, [i \in Items(plan) |-> "resolved"])
    IN {[d EXCEPT !.primitive = "other"], [d EXCEPT !.network_slug = "other"],
        [d EXCEPT !.chain_id = 0], [d EXCEPT !.status = "partial"],
        [d EXCEPT !.items = Reverse(@)],
        [d EXCEPT !.items = [i \in 1..n |-> @[1]]],
        [d EXCEPT !.items = SubSeq(@, 1, n - 1)],
        [d EXCEPT !.items = Append(@, @[1])],
        [d EXCEPT !.items[n].raw_amount = <<>>]} \ {d}

FailedCalls ==
    {Lost("timeout"), Unreadable(200), Unreadable(204), Unreadable(502),
     ErrorReply(502, "rpc_error"), ErrorReply(400, "invalid_as_of"),
     ErrorReply(429, "gateway_rate_limited"), ErrorReply(418, "teapot")}

BalanceReplies(command, plan) ==
    {Success(d) : d \in HonestDocuments(command, plan)
                          \union FaultyDocuments(command, plan)}
      \union FailedCalls

FoundResult(currency, slug, freshness) ==
    [requested |-> slug, normalized |-> slug, slug |-> {slug},
     status |-> "found", freshness |-> {freshness}, error |-> FALSE,
     price |-> {[slug |-> slug, currency |-> currency,
                 freshness |-> freshness, price |-> PriceOf(slug),
                 complete |-> TRUE]}]

(* A price, no such asset, or no price now.                                *)
PriceResults(currency, slug) ==
    LET found == FoundResult(currency, slug, "stale") IN
    {found,
     [found EXCEPT !.status = "unknown", !.price = {}],
     [found EXCEPT !.status = "unavailable", !.freshness = {"unavailable"},
                   !.price = {}]}

Batch(currency, results) ==
    [currency |-> currency, results |-> results,
     requested_count |-> Len(results), unique_count |-> Len(results)]

HonestBatches(currency, slugs) ==
    {Batch(currency, r) :
       r \in {r \in [DOMAIN slugs -> UNION {PriceResults(currency, s) :
                                              s \in ToSet(slugs)}] :
                \A i \in DOMAIN slugs : r[i].normalized = slugs[i]}}

PriceReplies(currency, slugs) ==
    LET found == [i \in DOMAIN slugs |-> FoundResult(currency, slugs[i], "fresh")]
        batch == Batch(currency, found)
    IN {Success(b) : b \in HonestBatches(currency, slugs)}
       \union {Success([batch EXCEPT !.results = Reverse(@)]),
               Success([batch EXCEPT !.results = [i \in DOMAIN slugs |-> @[1]]]),
               Success([batch EXCEPT !.currency = "EUR"]),
               Success([batch EXCEPT !.results[1].status = "other"]),
               Success([batch EXCEPT !.results[1].price =
                          {[p EXCEPT !.price = [int |-> <<>>, frac |-> <<>>]] : p \in @}]),
               Lost("timeout"), ErrorReply(400, "INVALID_REQUEST"),
               ErrorReply(401, "UNAUTHORIZED")}

=============================================================================
