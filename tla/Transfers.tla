----------------------------- MODULE Transfers -----------------------------
(***************************************************************************)
(* POST /v1/erc20-transfers/search (routes/erc20_transfers.rs,             *)
(* application/erc20_transfers/service.rs, adapters/bigwig/                *)
(* erc20_transfers.rs): the token filters of a request become contract     *)
(* addresses, Bigwig extracts the rows, and each row is labelled from the  *)
(* catalog.                                                                *)
(***************************************************************************)
EXTENDS ReadRequest, Bigwig, Decimals, Calendar

CONSTANTS MaxTokenFilters,      \* erc20_transfers_max_token_filters
          TransferRows          \* sequences of rows that Bigwig may extract

Erc20TransfersRead == "erc20_transfers_read"

SUPPORTED_ERC20_TRANSFER_NETWORK_SLUGS == {"eth-mainnet"}

(***************************************************************************)
(* Windows (dto and domain onchain_window.rs).  A window is the fields its *)
(* JSON has; a field of the wrong type is OddText.                         *)
(***************************************************************************)
Shapes == {{"from_block", "to_block"}, {"from_timestamp", "to_timestamp"},
           {"lookback_seconds", "to"}}

ShapesOf(window) == {s \in Shapes : s \cap DOMAIN window # {}}

(* BlockWindow::new, TimestampWindow::new and LookbackWindow::latest.      *)
BlockWindow(from, to) == \E f \in from, t \in to : f <= t

TimestampWindow(from, to) ==
    \E f \in ParseRfc3339(from), t \in ParseRfc3339(to) : ~ After(f, t)

LookbackWindow(seconds, to) == to = "latest" /\ \E s \in seconds : s > 0

ValidWindow(window) ==
    /\ Cardinality(ShapesOf(window)) = 1
    /\ DOMAIN window \in Shapes
    /\ CASE "from_block" \in DOMAIN window ->
              BlockWindow(window.from_block, window.to_block)
         [] "from_timestamp" \in DOMAIN window ->
              TimestampWindow(window.from_timestamp, window.to_timestamp)
         [] OTHER -> LookbackWindow(window.lookback_seconds, window.to)

WindowError(window) ==
    FirstError(<<
      Fail(~ DOMAIN window \subseteq UNION Shapes, "unknown_field"),
      Fail(~ ValidWindow(window), "invalid_window") >>)

(***************************************************************************)
(* Erc20TransferSearchRequest::try_from.                                   *)
(***************************************************************************)
TransferRequestError(r) ==
    FirstError(<<
      Fail(~ r.json, "invalid_json"),
      Fail(~ r.known, "unknown_field"),
      Fail(r.account = {}, "invalid_request"),
      FirstError(SetToSeq({AccountError(a, SUPPORTED_ERC20_TRANSFER_NETWORK_SLUGS) :
                             a \in r.account})),
      Fail(r.direction \notin {"any", "from", "to"}, "invalid_direction"),
      Fail(~ r.tokens_object, "invalid_json"),
      FirstError(SetToSeq({SelectorError(t) : t \in r.tokens})),
      Fail(r.window = {}, "invalid_window"),
      FirstError(SetToSeq({WindowError(w) : w \in r.window})) >>)

NoFilters == [asset_slugs |-> <<>>, contract_addresses |-> <<>>]

(* erc20_transfer_search_input_from_request; null and absent tokens are no *)
(* filters.                                                                *)
SearchInput(r) ==
    LET account == CHOOSE a \in r.account : TRUE
        tokens == IF r.tokens = {} THEN NoFilters ELSE CHOOSE t \in r.tokens : TRUE
    IN [network_slug |-> CHOOSE n \in account.network_slug : TRUE,
        address |-> Lower(CHOOSE x \in account.address : TRUE),
        direction |-> r.direction,
        window |-> CHOOSE w \in r.window : TRUE,
        asset_slugs |-> tokens.asset_slugs,
        contract_addresses |-> MapSeq(tokens.contract_addresses, Lower)]

ParseSearch ==
    LET error == TransferRequestError(input.request) IN
    /\ At("transfers", "parse")
    /\ IF error # {}
       THEN (\E code \in error : Refuse(code)) /\ UNCHANGED local
       ELSE Goto("scopes", [search |-> SearchInput(input.request),
                            filters |-> <<>>, reply |-> {}])
    /\ UNCHANGED <<input, grants>>

TransfersScopes ==
    /\ At("transfers", "scopes")
    /\ RequireNetworkScopes(Erc20TransfersRead, {local.search.network_slug}, "plan")

(***************************************************************************)
(* build_search_plan.                                                      *)
(***************************************************************************)
Metadata(asset, symbol, decimals) ==
    [asset_slug |-> asset, symbol |-> symbol, decimals |-> decimals]

AssetFilter(catalog, target) ==
    [contract_address |-> CHOOSE a \in target.kind : TRUE, source |-> "asset_slug",
     metadata |-> {Metadata(target.asset, a.symbol, target.decimals) :
                     a \in AssetBySlug(catalog, target.asset)}]

ContractFilter(address) ==
    [contract_address |-> address, source |-> "contract_address", metadata |-> {}]

(* resolved_token_filters_from_catalog, for one requested asset.           *)
AssetFilterError(found) ==
    CASE found.kind = "resolved" ->
           IF \E t \in found.target : t.kind = {} THEN {"asset_not_erc20_on_network"}
           ELSE {}
      [] found.kind = "unsupported_asset" -> {"asset_not_found"}
      [] found.kind \in {"unsupported_network", "unsupported_pair"} ->
           {"asset_not_available_on_network"}
      [] found.kind = "unsupported_token_standard" -> {"asset_not_erc20_on_network"}

(* push_unique_token_filter: the first filter of an address is kept.       *)
Unique(filters) ==
    LET lower == MapSeq(filters, LAMBDA f : [f EXCEPT !.contract_address = Lower(@)])
        New(i) == \A j \in 1..(i - 1) :
                    lower[j].contract_address # lower[i].contract_address
    IN MapSeq(SelectSeq([i \in DOMAIN lower |-> i], New), LAMBDA i : lower[i])

ResolveTokenFilters(catalog, search) ==
    LET found == MapSeq(search.asset_slugs,
                        LAMBDA s : ResolveAsset(catalog, search.network_slug, s))
        Filter(f) == AssetFilter(catalog, CHOOSE t \in f.target : TRUE)
        error == FirstError(MapSeq(found, AssetFilterError))
    IN [error |-> error,
        filters |-> IF error # {} THEN <<>>
                    ELSE Unique(MapSeq(found, Filter)
                                \o MapSeq(search.contract_addresses, ContractFilter))]

BuildSearchPlan ==
    LET plan == ResolveTokenFilters(input.catalog, local.search)
        error == FirstError(<<plan.error,
                   Fail(Len(plan.filters) > MaxTokenFilters,
                        "too_many_token_filters"),
                   Fail(~ CreateBigwigClient(input.clients.bigwig),
                        "extraction_unavailable") >>)
    IN /\ At("transfers", "plan")
       /\ IF error # {}
          THEN (\E code \in error : Refuse(code)) /\ UNCHANGED local
          ELSE Goto("calls", [local EXCEPT !.filters = plan.filters])
       /\ UNCHANGED <<input, grants>>

(***************************************************************************)
(* The extraction (Bigwig is external).                                    *)
(***************************************************************************)
ContractAddresses(filters) == MapSeq(filters, LAMBDA f : Lower(f.contract_address))

TransferReplies ==
    {Success([rows_extracted |-> Len(rows) + more, truncated |-> more = 0,
              results |-> rows]) : rows \in TransferRows, more \in {0, 1}}
      \union {Lost("timeout"), Lost("transport"), Unreadable(200), Unreadable(503),
              ErrorReply(422, "reversed_block_range"),
              ErrorReply(422, "range_too_large"), ErrorReply(502, "rpc_error"),
              ErrorReply(504, "provider_timeout"), ErrorReply(422, "teapot")}

Extract ==
    /\ At("transfers", "calls")
    /\ \E reply \in TransferReplies : Goto("present", [local EXCEPT !.reply = {reply}])
    /\ UNCHANGED <<input, grants>>

(* map_bigwig_transfer_error.                                              *)
MapBigwigTransferError(error) ==
    CASE error \in {"reversed_block_range", "block_out_of_range",
                    "reversed_timestamp_range", "timestamp_out_of_range"} ->
           "invalid_window"
      [] error \in {"lookback_too_large", "range_too_large"} -> "window_too_large"
      [] error = "rpc_error" -> "upstream_provider_error"
      [] error = "provider_timeout" -> "upstream_provider_timeout"
      [] error \in {"timeout", "extraction_timeout"} -> "extraction_timeout"
      [] error \in {"transport", "unauthorized", "unsupported_network",
                    "network_not_enabled_for_operation",
                    "no_route_satisfies_operation", "gateway_rate_limited",
                    "provider_unavailable", "internal_error"} ->
           "extraction_unavailable"
      [] OTHER -> "internal_error"

ExtractionError(reply) ==
    IF CallError(reply) # {} THEN {MapBigwigTransferError(e) : e \in CallError(reply)}
    ELSE {"internal_error" : d \in {d \in reply.body :
                                      d.rows_extracted # Len(d.results)}}

LowerRow(row) == [row EXCEPT !.token = Lower(@), !.from = Lower(@), !.to = Lower(@)]

(***************************************************************************)
(* enrich_token_metadata and the response.                                 *)
(***************************************************************************)

(* Mutant: only the contracts of the filters are looked up.                *)
LookupFilterAddresses(filters, rows) == Deduplicated(ContractAddresses(filters))

CollectMetadataLookupAddresses(filters, rows) ==
    Deduplicated(ContractAddresses(filters) \o MapSeq(rows, LAMBDA r : Lower(r.token)))

(* A mapping of a catalog that passed its checks has decimals.             *)
CatalogMetadata(catalog, network_slug, address) ==
    UNION {{Metadata(a.slug, a.symbol, d) :
              a \in AssetBySlug(catalog, m.asset_slug), d \in m.decimals} :
             m \in Erc20Metadata(catalog, network_slug, address)}

(* By contract: what a filter already had, or else what the catalog has.   *)
EnrichTokenMetadata(catalog, network_slug, filters, rows) ==
    LET addresses == CollectMetadataLookupAddresses(filters, rows)
        Known(address) == UNION {f.metadata : f \in {f \in ToSet(filters) :
                                                f.contract_address = address}}
    IN [address \in ToSet(addresses) |->
          IF Known(address) # {} THEN Known(address)
          ELSE CatalogMetadata(catalog, network_slug, address)]

TrimTrailingFractionalZeros(amount) ==
    LET kept == {n \in 0..Len(amount.frac) :
                   \A i \in DOMAIN amount.frac : i > n => amount.frac[i] = 0}
    IN [amount EXCEPT !.frac = SubSeq(@, 1, CHOOSE n \in kept :
                                              \A m \in kept : n <= m)]

DecimalAmount(raw, decimals) ==
    IF IsUnsignedInteger(raw)
    THEN {TrimTrailingFractionalZeros(FormatAmount(raw, decimals))} ELSE {}

RowDirection(row, watched) ==
    IF Lower(row.from) = Lower(watched) THEN "from"
    ELSE IF Lower(row.to) = Lower(watched) THEN "to" ELSE "any"

RowDto(row, watched, metadata) ==
    LET found == IF row.token \in DOMAIN metadata THEN metadata[row.token] ELSE {} IN
    [id |-> row.id, token |-> row.token, metadata |-> found,
     from |-> row.from, to |-> row.to, raw |-> row.value,
     decimal |-> UNION {DecimalAmount(row.value, m.decimals) : m \in found},
     direction |-> RowDirection(row, watched)]

SearchResponse(document, search, filters, metadata, rows) ==
    [account |-> search.address, network_slug |-> search.network_slug,
     filters |-> MapSeq(filters, LAMBDA f :
                   [f EXCEPT !.metadata = metadata[f.contract_address]]),
     transfers |-> MapSeq(rows, LAMBDA r : RowDto(r, search.address, metadata)),
     truncated |-> document.truncated]

PresentTransfers ==
    LET reply == CHOOSE r \in local.reply : TRUE
        document == CHOOSE d \in reply.body : TRUE
        rows == MapSeq(document.results, LowerRow)
        metadata == EnrichTokenMetadata(input.catalog, local.search.network_slug,
                                        local.filters, rows)
    IN /\ At("transfers", "present")
       /\ IF ExtractionError(reply) # {}
          THEN \E code \in ExtractionError(reply) : Refuse(code)
          ELSE Respond(SearchResponse(document, local.search, local.filters,
                                      metadata, rows))
       /\ UNCHANGED <<input, grants, local>>

TransfersNext ==
    \/ ParseSearch \/ TransfersScopes \/ BuildSearchPlan \/ Extract \/ PresentTransfers

(***************************************************************************)
(* Properties.                                                             *)
(***************************************************************************)

(* Reference: the asset that the catalog has at a contract of a network,   *)
(* when the mapping, the asset and the network are active.                 *)
Labels(network_slug, address) ==
    LET Live(entries, slug) ==
          {e \in ToSet(entries) : e.slug = slug /\ e.status = "active"}
        maps == {m \in ToSet(input.catalog.maps) :
                   /\ m.network_slug = network_slug /\ m.token_standard = "erc20"
                   /\ m.deployment_address = {address} /\ m.status = "active"
                   /\ Live(input.catalog.networks, network_slug) # {}}
    IN UNION {{Metadata(a.slug, a.symbol, d) :
                 a \in Live(input.catalog.assets, m.asset_slug), d \in m.decimals} :
                m \in maps}

(* Reference: the contracts that a request asks for.                       *)
AskedContracts(search) ==
    ToSet(search.contract_addresses)
      \union UNION {m.deployment_address :
               m \in {m \in ToSet(input.catalog.maps) :
                        /\ m.network_slug = search.network_slug
                        /\ m.asset_slug \in ToSet(search.asset_slugs)}}

ExactRow(given, row, search) ==
    LET labels == Labels(search.network_slug, Lower(row.token)) IN
    /\ given.id = row.id /\ given.raw = row.value
    /\ given.metadata = labels
    /\ (given.decimal # {}) = (labels # {} /\ row.value # <<>>)
    /\ \A amount \in given.decimal, m \in labels :
         /\ InUnits(amount, m.decimals) = Number(row.value)
         /\ amount.frac # <<>> => amount.frac[Len(amount.frac)] # 0
    /\ (given.direction = "from") = (Lower(row.from) = search.address)
    /\ (given.direction = "any") =
         (search.address \notin {Lower(row.from), Lower(row.to)})

(* resolve_token_filters, enrich_token_metadata and the response: Bigwig   *)
(* is asked for exactly the contracts that the request names or that its   *)
(* assets have on the network, and never for all of them when it names     *)
(* some; every extracted row comes back once, in Bigwig's order, with the  *)
(* label of its own contract on that network - whether or not the contract *)
(* was a filter - and with its exact amount.                               *)
TransfersLabelled ==
    input.handler = "transfers" /\ local # <<>> =>
      \A reply \in local.reply : \A body \in answer.body : \A d \in reply.body :
        /\ ToSet(ContractAddresses(local.filters)) = AskedContracts(local.search)
        /\ Len(body.transfers) = Len(d.results)
        /\ \A i \in DOMAIN d.results :
             ExactRow(body.transfers[i], d.results[i], local.search)

(* Reference: a timestamp in milliseconds of its day, and its day.         *)
Milliseconds(t) ==
    Number(SubSeq(t.fraction \o <<0, 0, 0>>, 1, 3))
      + 1000 * (t.hour * 3600 + t.minute * 60 + t.second - OffsetSeconds(t.offset))

InOrder(from, to) ==
    LET days == CountedDays(to) - CountedDays(from) IN
    IF days \in -2..2 THEN Milliseconds(from) <= Milliseconds(to) + 86400000 * days
    ELSE days > 0

(* validate_window, compare_rfc3339 and days_from_civil: a search is sent  *)
(* for a window of two timestamps only when the first one is not after the *)
(* second in real time, whatever their offsets, fractions and calendar     *)
(* days, and such a window is never called invalid.                        *)
WindowsOrdered ==
    input.handler = "transfers" =>
      \A w \in input.request.window :
        DOMAIN w = {"from_timestamp", "to_timestamp"} =>
          \A from \in w.from_timestamp, to \in w.to_timestamp :
            /\ pc \in {"scopes", "plan", "calls", "present"} => InOrder(from, to)
            /\ answer.error = {"invalid_window"} /\ local = <<>> =>
                 ~ (Exists(from) /\ Exists(to) /\ InOrder(from, to))

=============================================================================
