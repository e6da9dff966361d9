----------------------------- MODULE Protocols -----------------------------
(***************************************************************************)
(* The verified protocol registry                                          *)
(* (src/domain/verified_protocol_registry.rs): the declarations that the   *)
(* process starts on, and the protocols it makes of them.  A declaration   *)
(* is the parsed document; "wellformed" stands for the checks on a single  *)
(* text (normalized, not blank).                                           *)
(***************************************************************************)
EXTENDS Registry

PROTOCOLS_VERSION == 1

CompiledAdapterSupported(kind, version) ==
    kind = "aave_v3_realized_yield" /\ version = "v1"

(* A pool has no asset; a reserve is the contract that the catalog has for *)
(* the asset on the protocol's network.                                    *)
ValidTarget(catalog, network_slug, target) ==
    /\ target.wellformed
    /\ target.enabled /\ target.verified
    /\ IsEvmAddress(target.address) /\ target.address = Lower(target.address)
    /\ \/ /\ target.kind = "pool"
          /\ target.key = "pool"
          /\ target.asset_slug = {}
       \/ /\ target.kind = "reserve"
          /\ target.asset_slug = {target.key}
          /\ Active(AssetBySlug(catalog, target.key)) # {}
          /\ \E m \in Active(Mapping(catalog, target.key, network_slug)) :
               m.deployment_address = {target.address}

(* materialize_protocol: the protocol, {} when the declaration is invalid. *)
(* The reserves are only ever looked up by asset.                          *)
MaterializeProtocol(catalog, d) ==
    LET OfKind(kind) == SelectSeq(d.targets, LAMBDA t : t.kind = kind)
        reserves == {t \in ToSet(d.targets) : t.kind = "reserve"}
        valid ==
          /\ d.wellformed /\ d.enabled /\ d.verified
          /\ CompiledAdapterSupported(d.adapter_kind, d.adapter_version)
          /\ \E n \in Active(NetworkBySlug(catalog, d.network_slug)) : n.chain_id # {}
          /\ Distinct(d.targets, LAMBDA t : t.key)
          /\ \A t \in ToSet(d.targets) : ValidTarget(catalog, d.network_slug, t)
          /\ Len(OfKind("pool")) = 1
          /\ reserves # {}
    IN IF ~ valid THEN {}
       ELSE {[slug |-> d.slug, network_slug |-> d.network_slug,
              adapter_kind |-> d.adapter_kind,
              pool_address |-> OfKind("pool")[1].address,
              reserves |-> {[asset_slug |-> r.key, address |-> r.address] :
                              r \in reserves}]}

(* from_json.                                                              *)
ValidateProtocols(catalog, document) ==
    /\ document.version = PROTOCOLS_VERSION
    /\ \A d \in ToSet(document.protocols) : MaterializeProtocol(catalog, d) # {}
    /\ Distinct(document.protocols, LAMBDA d : d.slug)

RealizedYieldProtocol(catalog, document, slug) ==
    UNION {MaterializeProtocol(catalog, d) :
             d \in {x \in ToSet(document.protocols) : x.slug = slug}}

=============================================================================
