------------------------------- MODULE Assets -------------------------------
(***************************************************************************)
(* GET /v1/assets, /v1/assets/{slug}, its price signals, and               *)
(* /v1/assets/resolve (routes/{assets,resolve}.rs, application/assets).    *)
(* Prices and signals come from the Price Indexer: the calls of a request  *)
(* follow one another, and each may fail on its own without the answer     *)
(* failing.                                                                *)
(***************************************************************************)
EXTENDS ReadRequest, Bigwig, PriceIndexer

CONSTANTS DEFAULT_LIMIT,        \* 100
          MAX_LIMIT,            \* 1000
          MAX_QUERY_LENGTH,     \* 128
          LatestPriceOf(_),     \* the price of an asset
          NormalizeQuery(_)     \* lower case, without accents and punctuation

Client == CreatePriceIndexerClient(input.clients.prices)

(***************************************************************************)
(* Query parameters.  A parameter is the set of its value, {} when absent. *)
(***************************************************************************)
Or(parameter, default) ==
    IF parameter = {} THEN default ELSE CHOOSE p \in parameter : TRUE

(* parse_limit: the number, {} when it is no number or is zero.            *)
ParseLimit(limit) ==
    IF limit = {} THEN {DEFAULT_LIMIT}
    ELSE {IF n < MAX_LIMIT THEN n ELSE MAX_LIMIT : n \in limit \ {0}}

ParseQuoteCurrency(currency) ==
    Or(currency, "USD") \in {"USD", "MXN", "USDC", "BTC"}

(* The granularities of each window.                                       *)
Granularities(window) ==
    CASE window = "1h"  -> {"5m"}
      [] window = "24h" -> {"5m", "1h"}
      [] window = "7d"  -> {"1h"}
      [] window = "30d" -> {"1d"}
      [] OTHER -> {}

ParseSignalRequest(r) ==
    /\ r.slug # ""
    /\ ParseQuoteCurrency(r.quote_currency)
    /\ Granularities(Or(r.window, "24h")) # {}
    /\ r.granularity \subseteq Granularities(Or(r.window, "24h"))

(* parse_asset_enrichment_include: known names, in order, each once.       *)
ParseInclude(include) ==
    Deduplicated(SelectSeq(include, LAMBDA i : i \in {"stats", "trend", "series"}))

(***************************************************************************)
(* list_assets: one lookup for each chunk of slugs.                        *)
(***************************************************************************)
ListAssets ==
    LET r == input.request
        limit == CHOOSE n \in ParseLimit(r.limit) : TRUE
        assets == Take(ActiveAssets(input.catalog), limit)
        slugs == NormalizeSlugs(MapSeq(assets, LAMBDA a : a.slug))
    IN /\ At("assets", "parse")
       /\ r.kind = "list"
       /\ IF ParseLimit(r.limit) = {}
          THEN Refuse("invalid_limit") /\ UNCHANGED local
          ELSE Goto("prices", [assets |-> assets, prices |-> <<>>, told |-> {},
                               chunks |-> IF Client THEN Chunks(slugs) ELSE <<>>])
       /\ UNCHANGED <<input, grants>>

(* The Price Indexer (external): each asset of a chunk has a price, an old *)
(* one or none, or the call fails.                                         *)
ChunkResult(slug, freshness) ==
    [normalized |-> slug, status |-> IF freshness = "none" THEN "unknown" ELSE "found",
     price |-> IF freshness = "none" THEN {}
               ELSE {[freshness |-> freshness, price |-> LatestPriceOf(slug)]}]

ChunkReplies(slugs) ==
    {Success([results |-> [i \in DOMAIN slugs |-> ChunkResult(slugs[i], f[i])]]) :
       f \in [DOMAIN slugs -> {"fresh", "stale", "none"}]}
      \union {Lost("timeout"), Unreadable(200), ErrorReply(401, "UNAUTHORIZED")}

LatestBySlugChunk ==
    /\ At("assets", "prices")
    /\ local.chunks # <<>>
    /\ \E reply \in ChunkReplies(Head(local.chunks)) :
         Goto("prices",
              [local EXCEPT !.chunks = Tail(@), !.prices = AfterChunk(@, reply),
                            !.told = @ \union UNION {ToSet(d.results) : d \in reply.body}])
    /\ UNCHANGED <<input, grants>>

PriceIn(prices_by_slug, slug) ==
    IF slug \in DOMAIN prices_by_slug THEN prices_by_slug[slug] ELSE Unavailable

AssetsResponse ==
    /\ At("assets", "prices")
    /\ local.chunks = <<>>
    /\ Respond(MapSeq(local.assets,
                      LAMBDA a : [asset |-> a.slug, price |-> PriceIn(local.prices, a.slug)]))
    /\ UNCHANGED <<input, grants, local>>

(***************************************************************************)
(* get_asset: the price, then the signals one after the other.             *)
(***************************************************************************)
Enrichments(include) ==
    [signals |-> [i \in ToSet(include) |-> {}], errors |-> <<>>]

FailSignal(enrichments, include, code) ==
    [enrichments EXCEPT !.signals[include] = {},
                        !.errors = Append(@, [source |-> include, code |-> code])]

(* fail_all_requested: in the order of the response's fields.              *)
FailAllRequested(enrichments, code) ==
    FoldLeft(LAMBDA e, i : FailSignal(e, i, code), enrichments,
             SelectSeq(<<"stats", "trend", "series">>,
                       LAMBDA i : i \in DOMAIN enrichments.signals))

GetAsset ==
    LET r == input.request
        include == ParseInclude(r.include)
        error == FirstError(<<
                   Fail(~ ParseQuoteCurrency(r.quote_currency), "invalid_request"),
                   Fail(AssetDetail(input.catalog, r.slug) = {}, "asset_not_found") >>)
    IN /\ At("assets", "parse")
       /\ r.kind = "detail"
       /\ IF error # {}
          THEN (\E code \in error : Refuse(code)) /\ UNCHANGED local
          ELSE Goto("price", [include |-> include, price |-> Unavailable,
                              enrichments |-> Enrichments(include)])
       /\ UNCHANGED <<input, grants>>

SignalReplies ==
    {Success("signal"), Lost("timeout"), Unreadable(200), ErrorReply(404, "NOT_FOUND"),
     ErrorReply(400, "INVALID_REQUEST"), ErrorReply(401, "UNAUTHORIZED"),
     ErrorReply(500, "INTERNAL_ERROR"), ErrorReply(503, "teapot")}

(* lookup_price, and what is left of lookup_enrichments without a call.    *)
LookupPrice ==
    LET Priced(price) ==
          Goto("signals",
               [local EXCEPT !.price = price,
                  !.include = IF Client /\ ParseSignalRequest(input.request)
                              THEN @ ELSE <<>>,
                  !.enrichments =
                     IF ~ ParseSignalRequest(input.request)
                     THEN FailAllRequested(@, "invalid_request")
                     ELSE IF ~ Client
                     THEN FailAllRequested(@, "price_indexer_unavailable") ELSE @])
    IN /\ At("assets", "price")
       /\ IF ~ Client THEN Priced(Unavailable)
          ELSE \E reply \in {Success([freshness |-> "degraded",
                                      price |-> LatestPriceOf(input.request.slug)]),
                             Lost("transport"), ErrorReply(400, "INVALID_REQUEST")} :
                 Priced(LatestBySlug(reply))
       /\ UNCHANGED <<input, grants>>

LookupSignal ==
    LET include == Head(local.include) IN
    /\ At("assets", "signals")
    /\ local.include # <<>>
    /\ \E reply \in SignalReplies :
         Goto("signals",
              [local EXCEPT !.include = Tail(@),
                 !.enrichments =
                    IF SignalError(reply) = {}
                    THEN [@ EXCEPT !.signals[include] = reply.body]
                    ELSE FailSignal(@, include, EnrichmentErrorCode(
                           CHOOSE e \in SignalError(reply) : TRUE))])
    /\ UNCHANGED <<input, grants>>

(* AssetResponse::from_canonical: the mappings whose network is known.     *)
AssetResponse ==
    LET detail == CHOOSE d \in AssetDetail(input.catalog, input.request.slug) : TRUE
        Known(m) == NetworkBySlug(input.catalog, m.network_slug) # {}
    IN /\ At("assets", "signals")
       /\ local.include = <<>>
       /\ Respond([asset |-> detail.asset.slug, price |-> local.price,
                   asset_network_maps |->
                     MapSeq(SelectSeq(detail.mappings, Known),
                            LAMBDA m : <<m.network_slug, m.deployment_address>>),
                   enrichments |-> local.enrichments])
       /\ UNCHANGED <<input, grants, local>>

(***************************************************************************)
(* get_price_stats_signal, get_price_trend_signal and assets_resolve.      *)
(***************************************************************************)
GetPriceSignal ==
    /\ At("assets", "parse")
    /\ input.request.kind = "signal"
    /\ IF ~ ParseSignalRequest(input.request) THEN Refuse("invalid_request")
       ELSE IF ~ Client THEN Refuse("price_indexer_unavailable")
       ELSE \E reply \in SignalReplies :
              IF SignalError(reply) = {} THEN \E signal \in reply.body : Respond(signal)
              ELSE \E e \in SignalError(reply) : Refuse(SignalApiError(e))
    /\ UNCHANGED <<input, grants, local>>

(* parse_query: the query is trimmed; "length" counts what is left.        *)
QueryError(q) ==
    FirstError(<<Fail(q = {}, "missing_query"),
                 Fail(\E x \in q : x.length = 0, "missing_query"),
                 Fail(\E x \in q : x.length > MAX_QUERY_LENGTH, "query_too_long")>>)

ResolveQuery(catalog, query) ==
    LET found == FindConfidentAsset(catalog, query) IN
    IF found # {}
    THEN LET match == CHOOSE m \in found : TRUE IN
         [resolved |-> {match[2].slug}, confidence |-> {match[1]},
          recommendations |-> <<>>]
    ELSE [resolved |-> {}, confidence |-> {},
          recommendations |-> MapSeq(Recommendations(catalog, query, 3),
                                     LAMBDA a : a.slug)]

AssetsResolve ==
    /\ At("assets", "parse")
    /\ input.request.kind = "resolve"
    /\ IF QueryError(input.request.q) # {}
       THEN \E code \in QueryError(input.request.q) : Refuse(code)
       ELSE \E q \in input.request.q :
              Respond(ResolveQuery(input.catalog, NormalizeQuery(q.text)))
    /\ UNCHANGED <<input, grants, local>>

AssetsNext ==
    \/ ListAssets \/ LatestBySlugChunk \/ AssetsResponse
    \/ GetAsset \/ LookupPrice \/ LookupSignal \/ AssetResponse
    \/ GetPriceSignal \/ AssetsResolve

(***************************************************************************)
(* Properties.                                                             *)
(***************************************************************************)

(* latest_by_slugs, lookup_enrichments and AssetResponse: a failed call of *)
(* the Price Indexer costs exactly what it was asked for.  In a list every *)
(* active asset up to the limit is there once, with exactly the price that *)
(* the Price Indexer told for it - another chunk that fails never takes it *)
(* away, and no asset shows another's.  In a detail every requested signal *)
(* has a value or exactly one error, never both.                           *)
FailuresStayLocal ==
    input.handler = "assets" => \A body \in answer.body :
      /\ input.request.kind = "list" =>
           /\ MapSeq(body, LAMBDA a : a.asset) = MapSeq(local.assets, LAMBDA a : a.slug)
           /\ \A a \in ToSet(body) :
                a.price.price =
                  {LatestPriceOf(a.asset) :
                     r \in {r \in local.told : r.normalized = a.asset /\ r.price # {}}}
      /\ input.request.kind = "detail" =>
           LET e == body.enrichments IN
           \A i \in DOMAIN e.signals :
             Cardinality(e.signals[i])
               + Len(SelectSeq(e.errors, LAMBDA x : x.source = i)) = 1

=============================================================================
