---------------------------- MODULE PriceIndexer ----------------------------
(***************************************************************************)
(* The Price Indexer client (src/adapters/price_indexer/client.rs): what   *)
(* each lookup returns for each reply of the service.  Replies are as in   *)
(* Bigwig: a lost call, or a status with a decoded document or the code of *)
(* an error envelope.  A price is a text of digits, as in Decimals.        *)
(***************************************************************************)
EXTENDS Requests

CONSTANT PRICE_BATCH_MAX_SLUGS   \* 50

Succeeds(status) == status \in 200..299

Unavailable == [status |-> "unavailable", price |-> {}]

(* latest_asset_price_from_parts.                                          *)
LatestAssetPrice(freshness, price) ==
    CASE freshness = "fresh"    -> [status |-> "available", price |-> {price}]
      [] freshness = "stale"    -> [status |-> "stale", price |-> {price}]
      [] freshness = "degraded" -> [status |-> "degraded", price |-> {price}]
      [] OTHER                  -> Unavailable

(* normalize_slugs: in order, each once.                                   *)
NormalizeSlugs(slugs) == Deduplicated(slugs)

(***************************************************************************)
(* latest_by_slug, and latest_by_slugs chunk by chunk.                     *)
(***************************************************************************)
LatestBySlug(reply) ==
    IF Succeeds(reply.status) /\ reply.body # {}
    THEN LET price == CHOOSE p \in reply.body : TRUE
         IN LatestAssetPrice(price.freshness, price.price)
    ELSE Unavailable

Chunks(slugs) ==
    [c \in 1..((Len(slugs) + PRICE_BATCH_MAX_SLUGS - 1)
                 \div PRICE_BATCH_MAX_SLUGS) |->
       SubSeq(slugs, (c - 1) * PRICE_BATCH_MAX_SLUGS + 1,
              IF c * PRICE_BATCH_MAX_SLUGS < Len(slugs)
              THEN c * PRICE_BATCH_MAX_SLUGS ELSE Len(slugs))]

BatchPrice(result) ==
    IF result.status = "found" /\ result.price # {}
    THEN LET price == CHOOSE p \in result.price : TRUE
         IN LatestAssetPrice(price.freshness, price.price)
    ELSE Unavailable

(* prices.extend(..): a later result replaces an earlier one.              *)
Extend(prices, result) ==
    [slug \in DOMAIN prices \union {result.normalized} |->
       IF slug = result.normalized THEN BatchPrice(result) ELSE prices[slug]]

(* Mutant: the first chunk that fails ends the lookup with nothing known.  *)
AfterChunkAllOrNothing(prices, reply) ==
    IF Succeeds(reply.status) /\ reply.body # {}
    THEN FoldLeft(Extend, prices, (CHOOSE d \in reply.body : TRUE).results)
    ELSE [slug \in DOMAIN prices |-> Unavailable]

(* A chunk that fails is logged and leaves the prices as they were.        *)
AfterChunk(prices, reply) ==
    IF Succeeds(reply.status) /\ reply.body # {}
    THEN FoldLeft(Extend, prices, (CHOOSE d \in reply.body : TRUE).results)
    ELSE prices

(***************************************************************************)
(* latest_quotes_strict.                                                   *)
(***************************************************************************)

(* One result of a strict batch: its quote, {} when it is malformed.       *)
StrictQuote(result, currency) ==
    CASE result.status = "found" ->
           {[status |-> "available", price |-> {p.price}] :
              p \in {q \in result.price :
                       /\ result.freshness = {q.freshness}
                       /\ ~ result.error
                       /\ result.slug \subseteq {result.normalized}
                       /\ q.slug = result.normalized
                       /\ q.currency = currency
                       /\ q.complete
                       /\ q.freshness \in {"fresh", "stale", "degraded"}}}
      [] result.status = "unavailable" ->
           IF /\ result.price = {} /\ ~ result.error
              /\ result.freshness \subseteq {"unavailable"}
           THEN {Unavailable} ELSE {}
      [] result.status = "unknown" ->
           IF result.price = {}
           THEN {[status |-> "unsupported", price |-> {}]} ELSE {}
      [] result.status = "error" ->
           IF result.price = {} THEN {Unavailable} ELSE {}
      [] OTHER -> {}

(* Every requested slug exactly once, in the requested currency.           *)
ValidStrictBatch(document, slugs, currency) ==
    LET results == document.results IN
    /\ document.currency = currency
    /\ document.requested_count = Len(slugs)
    /\ document.unique_count = Len(slugs)
    /\ Len(results) = Len(slugs)
    /\ \A i \in DOMAIN results :
         /\ results[i].requested = results[i].normalized
         /\ results[i].normalized \in ToSet(slugs)
         /\ \A j \in DOMAIN results :
              results[i].normalized = results[j].normalized => i = j
         /\ StrictQuote(results[i], currency) # {}

(* The quotes by slug, or the error.                                       *)
LatestQuotesStrict(slugs, currency, reply) ==
    LET Result(document, slug) ==
          CHOOSE r \in ToSet(document.results) : r.normalized = slug
        Ok(document) ==
          [error |-> {},
           quotes |-> [slug \in ToSet(slugs) |->
                         CHOOSE q \in StrictQuote(Result(document, slug),
                                                  currency) : TRUE]]
        Err(error) == [error |-> {error}, quotes |-> <<>>]
    IN IF \/ Len(NormalizeSlugs(slugs)) # Len(slugs)
          \/ Len(slugs) \notin 1..PRICE_BATCH_MAX_SLUGS
       THEN Err("invalid_request")
       ELSE CASE reply.status = 200 ->
                   IF \E d \in reply.body : ValidStrictBatch(d, slugs, currency)
                   THEN Ok(CHOOSE d \in reply.body : TRUE)
                   ELSE Err("malformed_response")
              [] reply.status \in 201..299 -> Err("malformed_response")
              [] reply.status = 400 -> Err("invalid_request")
              [] OTHER -> Err("provider_unavailable")

(* PriceQuoteError::from (balance_quote_reader.rs).                        *)
QuoteErrorCode(error) ==
    IF error = "provider_unavailable" THEN "price_provider_unavailable"
    ELSE "internal_error"

(***************************************************************************)
(* Price signals: stats, trend and series.                                 *)
(***************************************************************************)
SignalContract == {<<400, "INVALID_REQUEST">>, <<404, "NOT_FOUND">>,
                   <<401, "UNAUTHORIZED">>, <<500, "INTERNAL_ERROR">>}

(* get_signal_json: the error of a call, {} when it returned an object.    *)
SignalError(reply) ==
    CASE reply.status = 0 -> reply.code
      [] Succeeds(reply.status) ->
           IF reply.body = {} THEN {"MALFORMED_RESPONSE"} ELSE {}
      [] \E code \in reply.code : <<reply.status, code>> \in SignalContract ->
           reply.code
      [] OTHER -> {"MALFORMED_RESPONSE"}

(* EnrichmentErrorCode::from.                                              *)
EnrichmentErrorCode(error) ==
    CASE error = "INVALID_REQUEST" -> "invalid_request"
      [] error = "NOT_FOUND" -> "signal_not_available"
      [] error = "UNAUTHORIZED" -> "upstream_auth_failed"
      [] error = "INTERNAL_ERROR" -> "price_indexer_error"
      [] error \in {"timeout", "transport"} -> "price_indexer_unavailable"
      [] OTHER -> "upstream_invalid_response"

(* signal_error_to_api_error (routes/assets.rs).                           *)
SignalApiError(error) ==
    IF error = "NOT_FOUND" THEN "asset_not_found"
    ELSE EnrichmentErrorCode(error)

(* create_price_indexer_client.                                            *)
CreatePriceIndexerClient(config) == config.url /\ config.token /\ config.usable

=============================================================================
