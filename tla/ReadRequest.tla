---------------------------- MODULE ReadRequest ----------------------------
(***************************************************************************)
(* What the handlers of the read endpoints have in common: the process     *)
(* starts on a catalog, a request reaches a handler with or without an API *)
(* key, the handler checks the key's scopes for the networks of the        *)
(* request, and it answers once.  Grants may be revoked meanwhile.         *)
(***************************************************************************)
EXTENDS Protocols, Authorization

CONSTANT Inputs     \* handler, catalog, protocols, clients, principal, grants, request

VARIABLES input,    \* what this behaviour starts from, never changed
          grants,   \* the grants of the key, now
          pc,       \* the next step of the handler
          local,    \* the locals of the handler
          answer    \* the response

(* The grants of a key are rows of the grant tables.                       *)
ASSUME GrantsAssumption == \A in \in Inputs : in.grants \in AuthorizationContext

vars == <<input, grants, pc, local, answer>>

NoAnswer == [status |-> 0, error |-> {}, body |-> {}]

(* ApiError: the HTTP status of each code that is no 400.                  *)
NotBadRequest ==
    [ capability_not_granted         |-> 403,
      asset_not_found                |-> 404,
      request_too_large              |-> 413,
      window_too_large               |-> 422,
      too_many_token_filters         |-> 422,
      asset_not_available_on_network |-> 422,
      asset_not_erc20_on_network     |-> 422 ]

UpstreamStatus ==
    [ database_unavailable      |-> 503,
      price_indexer_unavailable |-> 503,
      extraction_unavailable    |-> 503,
      extraction_timeout        |-> 504,
      upstream_provider_error   |-> 502,
      upstream_provider_timeout |-> 504,
      upstream_auth_failed      |-> 502,
      price_indexer_error       |-> 502,
      upstream_invalid_response |-> 502,
      internal_error            |-> 500 ]

StatusCode(code) ==
    CASE code \in DOMAIN NotBadRequest -> NotBadRequest[code]
      [] code \in DOMAIN UpstreamStatus -> UpstreamStatus[code]
      [] OTHER -> 400

Init ==
    /\ input \in Inputs
    /\ grants = input.grants
    /\ pc = "boot"
    /\ local = <<>>
    /\ answer = NoAnswer

At(handler, step) == input.handler = handler /\ pc = step

Refuse(code) ==
    /\ answer' = [status |-> StatusCode(code), error |-> {code}, body |-> {}]
    /\ pc' = "answered"

Respond(body) ==
    /\ answer' = [status |-> 200, error |-> {}, body |-> {body}]
    /\ pc' = "answered"

(* On to the next step, with new locals.                                   *)
Goto(step, locals) ==
    /\ pc' = step
    /\ local' = locals
    /\ UNCHANGED answer

(* build_http_state: the process starts only on a valid catalog and valid  *)
(* protocols, and not with a database URL that sqlx cannot read.           *)
Boot ==
    /\ pc = "boot"
    /\ \/ /\ ValidateCatalog(input.catalog)
          /\ ValidateProtocols(input.catalog, input.protocols)
          /\ pc' = "parse"
       \/ pc' = "refused"
    /\ UNCHANGED <<input, grants, local, answer>>

Allowed(capability, g, network_slug) ==
    EvaluateAuthorization(g, NetworkRequest(capability, network_slug)) = "allow"

(* Mutant: the decision that the middleware took for the route is enough.  *)
ScopedRoute(capability, g, networks) ==
    EvaluateAuthorization(g, RouteRequest(capability)) = "allow"

Scoped(capability, g, networks) ==
    \A n \in networks : Allowed(capability, g, n)

(* require_network_scopes: the grants are read again, and the handler goes *)
(* on to its next step.                                                    *)
RequireNetworkScopes(capability, networks, next) ==
    /\ \/ /\ input.principal
          /\ Refuse("database_unavailable")
       \/ /\ input.principal
          /\ ~ Scoped(capability, grants, networks)
          /\ Refuse("capability_not_granted")
       \/ /\ input.principal => Scoped(capability, grants, networks)
          /\ pc' = next
          /\ UNCHANGED answer
    /\ UNCHANGED <<input, grants, local>>

(* Elsewhere: a grant of the key or of its owner is revoked.  Once the     *)
(* handler has checked them, it does not read them again.                  *)
RevokeGrant ==
    /\ pc \in {"parse", "scopes", "networks"}
    /\ \E holder \in {"owner_grants", "key_grants"} : \E g \in grants[holder] :
         /\ g.status = "active"
         /\ grants' = [grants EXCEPT ![holder] =
                         (@ \ {g}) \union {[g EXCEPT !.status = "revoked"]}]
    /\ UNCHANGED <<input, pc, local, answer>>

(* The only states that may be the last.                                   *)
Done == pc \in {"answered", "refused"} /\ UNCHANGED vars

=============================================================================
