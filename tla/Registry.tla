------------------------------ MODULE Registry ------------------------------
(***************************************************************************)
(* The canonical registry (src/domain/canonical_registry.rs): the rules a  *)
(* catalog must satisfy for the process to start, and the lookups that the *)
(* read endpoints make in it, with the balance targets of                  *)
(* src/application/balances/catalog.rs.                                    *)
(*                                                                         *)
(* A catalog is the parsed document.  Slugs, symbols, names and aliases    *)
(* are lower-cased texts.  An Option is a set with at most one element.    *)
(* "wellformed" stands for the checks on a single text or JSON value       *)
(* (non-empty, normalized, an object); the checks that relate two fields   *)
(* or two entries are spelled out.                                         *)
(***************************************************************************)
EXTENDS Requests

CONSTANTS Mentions(_, _),     \* str::contains
          Precedes(_, _)      \* str::cmp

CATALOG_VERSION == 3

Statuses == {"active", "inactive", "deprecated", "hidden", "pending",
             "unsupported", "archived"}

IsActive(entry) == entry.status = "active"

(***************************************************************************)
(* validate_catalog.                                                       *)
(***************************************************************************)
ValidateEntry(entry) ==
    entry.wellformed /\ entry.status \in Statuses /\ entry.sort_order >= 0

ValidateAsset(asset) == ValidateEntry(asset) /\ IsInjective(asset.aliases)

ValidateNetwork(network) ==
    /\ ValidateEntry(network)
    /\ IF network.family = "evm"
       THEN /\ \E id \in network.chain_id : id > 0
            /\ network.caip2 = network.chain_id
       ELSE network.chain_id = {}

ValidateMapping(mapping, network) ==
    /\ \E d \in mapping.decimals : d \in 0..255
    /\ IF mapping.is_native
       THEN /\ mapping.deployment_address = {}
            /\ mapping.deployment_block = {}
            /\ mapping.token_standard = "native"
       ELSE /\ mapping.token_standard # "native"
            /\ \E address \in mapping.deployment_address :
                 /\ address = Lower(address)
                 /\ mapping.token_standard = "erc20" => IsEvmAddress(address)
            /\ \A block \in mapping.deployment_block : block >= 0
            /\ mapping.token_standard = "erc20" =>
                 network.family = "evm" /\ mapping.deployment_block # {}

Distinct(s, Key(_)) ==
    \A i, j \in DOMAIN s : Key(s[i]) = Key(s[j]) => i = j

(* Mutant: the check on the deployment addresses is left out.              *)
CompatibleNatives(left, right) ==
    left.network_slug = right.network_slug /\ IsActive(left) /\ IsActive(right)
      => ~ (left.is_native /\ right.is_native)

(* Two active mappings of one network are neither both native nor deployed *)
(* at one address.                                                         *)
Compatible(left, right) ==
    left.network_slug = right.network_slug /\ IsActive(left) /\ IsActive(right)
      => /\ ~ (left.is_native /\ right.is_native)
         /\ left.deployment_address \cap right.deployment_address = {}

ValidAliases(assets) ==
    \A i \in DOMAIN assets : \A alias \in ToSet(assets[i].aliases) :
      \A j \in DOMAIN assets \ {i} :
        alias # assets[j].slug /\ alias \notin ToSet(assets[j].aliases)

ValidMappings(catalog) ==
    /\ \A i \in DOMAIN catalog.maps :
         LET mapping == catalog.maps[i] IN
         /\ ValidateEntry(mapping)
         /\ \E asset \in ToSet(catalog.assets) :
              asset.slug = mapping.asset_slug
         /\ \E network \in ToSet(catalog.networks) :
              /\ network.slug = mapping.network_slug
              /\ ValidateMapping(mapping, network)
    /\ Distinct(catalog.maps, LAMBDA m : <<m.asset_slug, m.network_slug>>)
    /\ \A i, j \in DOMAIN catalog.maps :
         i # j => Compatible(catalog.maps[i], catalog.maps[j])

ValidateCatalog(catalog) ==
    /\ catalog.version = CATALOG_VERSION
    /\ \A asset \in ToSet(catalog.assets) : ValidateAsset(asset)
    /\ Distinct(catalog.assets, LAMBDA a : a.slug)
    /\ ValidAliases(catalog.assets)
    /\ \A network \in ToSet(catalog.networks) : ValidateNetwork(network)
    /\ Distinct(catalog.networks, LAMBDA n : n.slug)
    /\ ValidMappings(catalog)

(***************************************************************************)
(* from_catalog: the indexes.  An insertion into a HashMap replaces, so an *)
(* index holds the last entry of its key.                                  *)
(***************************************************************************)
Indexed(entries, of) ==
    {entries[i] : i \in {i \in of : \A j \in of : j <= i}}

AssetBySlug(catalog, slug) ==
    LET assets == catalog.assets IN
    Indexed(assets, {i \in DOMAIN assets : assets[i].slug = slug})

AssetByAlias(catalog, alias) ==
    LET assets == catalog.assets IN
    Indexed(assets, {i \in DOMAIN assets : alias \in ToSet(assets[i].aliases)})

NetworkBySlug(catalog, slug) ==
    LET networks == catalog.networks IN
    Indexed(networks, {i \in DOMAIN networks : networks[i].slug = slug})

Mapping(catalog, asset_slug, network_slug) ==
    LET maps == catalog.maps IN
    Indexed(maps, {i \in DOMAIN maps : /\ maps[i].asset_slug = asset_slug
                                       /\ maps[i].network_slug = network_slug})

Active(found) == {entry \in found : IsActive(entry)}

(* The mapping, its asset and its network are all active.                  *)
FullyActive(catalog, mapping) ==
    /\ IsActive(mapping)
    /\ Active(AssetBySlug(catalog, mapping.asset_slug)) # {}
    /\ Active(NetworkBySlug(catalog, mapping.network_slug)) # {}

AssetOrder(left, right) ==
    \/ left.sort_order < right.sort_order
    \/ /\ left.sort_order = right.sort_order
       /\ \/ Precedes(left.symbol, right.symbol)
          \/ left.symbol = right.symbol /\ Precedes(left.slug, right.slug)

MappingOrder(left, right) ==
    \/ left.sort_order < right.sort_order
    \/ /\ left.sort_order = right.sort_order
       /\ Precedes(left.network_slug, right.network_slug)

ActiveAssets(catalog) ==
    SortSeq(SelectSeq(catalog.assets, IsActive), AssetOrder)

Take(s, limit) == SubSeq(s, 1, IF limit < Len(s) THEN limit ELSE Len(s))

(***************************************************************************)
(* Lookups.                                                                *)
(***************************************************************************)

(* The rank of the field of an asset that a query equals, if one does.     *)
Confidence(catalog, asset, query) ==
    CASE asset.slug = query -> {0}
      [] asset.slug # query /\ asset.symbol = query -> {1}
      [] query \notin {asset.slug, asset.symbol} /\ asset.name = query -> {2}
      [] /\ query \notin {asset.slug, asset.symbol, asset.name}
         /\ asset \in AssetByAlias(catalog, query) -> {3}
      [] OTHER -> {}

FindConfidentAsset(catalog, query) ==
    LET ranked == {m \in (0..3) \X ToSet(ActiveAssets(catalog)) :
                     m[1] \in Confidence(catalog, m[2], query)}
        Before(l, r) == l[1] < r[1] \/ (l[1] = r[1] /\ AssetOrder(l[2], r[2]))
    IN {m \in ranked : \A other \in ranked : ~ Before(other, m)}

Recommendations(catalog, query, limit) ==
    LET Matches(asset) ==
          \E text \in {asset.slug, asset.symbol, asset.name}
                        \union ToSet(asset.aliases) : Mentions(text, query)
        matches == SelectSeq(ActiveAssets(catalog), Matches)
    IN Take(IF matches = <<>> THEN ActiveAssets(catalog) ELSE matches, limit)

ActiveAssetSlugsMappedToNetwork(catalog, network_slug) ==
    LET Mapped(asset) ==
          /\ Active(NetworkBySlug(catalog, network_slug)) # {}
          /\ Active(Mapping(catalog, asset.slug, network_slug)) # {}
        mapped == SelectSeq(ActiveAssets(catalog), Mapped)
    IN [i \in DOMAIN mapped |-> mapped[i].slug]

AssetDetail(catalog, slug) ==
    LET Listed(m) == m.asset_slug = slug /\ FullyActive(catalog, m) IN
    {[asset |-> asset,
      mappings |-> SortSeq(SelectSeq(catalog.maps, Listed), MappingOrder)] :
       asset \in Active(AssetBySlug(catalog, slug))}

Erc20Metadata(catalog, network_slug, address) ==
    LET Found(m) == /\ m.token_standard = "erc20"
                    /\ m.network_slug = network_slug
                    /\ Lower(address) \in m.deployment_address
                    /\ FullyActive(catalog, m)
    IN Indexed(catalog.maps, {i \in DOMAIN catalog.maps : Found(catalog.maps[i])})

(***************************************************************************)
(* Balance targets (CatalogBalanceTargetResolver).                         *)
(***************************************************************************)

(* A target is native ({}) or the ERC-20 contract at an address.           *)
TargetFromMapping(network, asset, mapping) ==
    {[network_slug |-> network.slug, chain_id |-> id, asset |-> asset.slug,
      decimals |-> d, kind |-> mapping.deployment_address] :
       id \in {i \in network.chain_id : i > 0},
       d \in {n \in mapping.decimals :
                /\ n \in 0..255
                /\ mapping.token_standard
                     = IF mapping.is_native THEN "native" ELSE "erc20"}}

(* ordered_balance_targets and resolve_network, for one requested asset.   *)
ResolveAsset(catalog, network_slug, slug) ==
    LET network == Active(NetworkBySlug(catalog, network_slug))
        asset   == Active(AssetBySlug(catalog, slug))
        mapping == IF network = {} \/ asset = {} THEN {}
                   ELSE Active(Mapping(catalog, slug, network_slug))
        targets == UNION {TargetFromMapping(n, a, m) :
                            n \in network, a \in asset, m \in mapping}
    IN CASE network = {} -> [kind |-> "unsupported_network", target |-> {}]
         [] network # {} /\ asset = {} ->
              [kind |-> "unsupported_asset", target |-> {}]
         [] network # {} /\ asset # {} /\ mapping = {} ->
              [kind |-> "unsupported_pair", target |-> {}]
         [] mapping # {} /\ \E n \in network : n.family # "evm" ->
              [kind |-> "unsupported_network", target |-> {}]
         [] OTHER ->
              [kind |-> IF targets = {} THEN "unsupported_token_standard"
                        ELSE "resolved", target |-> targets]

ResolveEvmNetwork(catalog, network_slug) ==
    UNION {{id \in n.chain_id : id > 0} :
             n \in {m \in Active(NetworkBySlug(catalog, network_slug)) :
                      m.family = "evm"}}

(* resolve_erc20_contracts, for one requested contract: the target, if the *)
(* registry knows the contract.                                            *)
ResolveContract(catalog, network_slug, chain_id, address) ==
    UNION {TargetFromMapping(n, a, m) :
             m \in Erc20Metadata(catalog, network_slug, address),
             a \in UNION {AssetBySlug(catalog, x.asset_slug) :
                            x \in Erc20Metadata(catalog, network_slug, address)},
             n \in {y \in NetworkBySlug(catalog, network_slug) :
                      y.chain_id = {chain_id}}}

=============================================================================
