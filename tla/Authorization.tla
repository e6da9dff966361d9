---------------------------- MODULE Authorization ----------------------------
(***************************************************************************)
(* Capability grants and the authorization decision                        *)
(* (src/domain/capabilities.rs).  A credential may use a capability on a   *)
(* network only when every holder behind it - the owner (consumer or       *)
(* account), the delegated client if there is one, and the key itself -    *)
(* has an active grant for it.                                             *)
(*                                                                         *)
(* An Option is a set with at most one element: client_grants is {} for a  *)
(* key without a client and {gs} for an agent key, and a request's         *)
(* network_slug is {} at the route check and {n} once the body is parsed.  *)
(***************************************************************************)
CONSTANTS Capabilities,   \* Capability: the release-owned capability ids
          Networks        \* canonical network slugs

AnyNetwork == "*"

GrantStatus == {"active", "expired", "revoked"}

CapabilityGrant == [capability    : Capabilities,
                    network_scope : Networks \union {AnyNetwork},
                    status        : GrantStatus]

AuthorizationContext == [owner_grants  : SUBSET CapabilityGrant,
                         client_grants : SUBSET (SUBSET CapabilityGrant),
                         key_grants    : SUBSET CapabilityGrant]

RouteRequest(c) == [capability |-> c, network_slug |-> {}]

NetworkRequest(c, n) == [capability |-> c, network_slug |-> {n}]

(* An exact scope permits a request whose network is not known yet: the    *)
(* middleware runs before the body is read.                                *)
ScopePermits(scope, network_slug) ==
    scope = AnyNetwork \/ \A n \in network_slug : scope = n

GrantPermits(g, request) ==
    /\ g.status = "active"
    /\ g.capability = request.capability
    /\ ScopePermits(g.network_scope, request.network_slug)

AnyPermits(grants, request) == \E g \in grants : GrantPermits(g, request)

(* Mutant: the delegated client is not asked.                              *)
EvaluateWithoutClient(context, request) ==
    CASE ~ AnyPermits(context.owner_grants, request) -> "deny_owner"
      [] /\ AnyPermits(context.owner_grants, request)
         /\ ~ AnyPermits(context.key_grants, request) -> "deny_key"
      [] OTHER -> "allow"

(* The decision names the first holder that lacks a grant.                 *)
EvaluateAuthorization(context, request) ==
    CASE ~ AnyPermits(context.owner_grants, request) -> "deny_owner"
      [] /\ AnyPermits(context.owner_grants, request)
         /\ \E gs \in context.client_grants : ~ AnyPermits(gs, request)
            -> "deny_client"
      [] /\ AnyPermits(context.owner_grants, request)
         /\ \A gs \in context.client_grants : AnyPermits(gs, request)
         /\ ~ AnyPermits(context.key_grants, request) -> "deny_key"
      [] OTHER -> "allow"

=============================================================================
