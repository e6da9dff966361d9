-------------------------- MODULE ApiKeyAdmissionMC --------------------------
(***************************************************************************)
(* Small instances of ApiKeyAdmission for TLC: one account with a key of   *)
(* its own (k1) and, through a client, an agent key (k2), a demo key of no *)
(* account (k3) and two keys of a legacy consumer (k4, k5).                *)
(***************************************************************************)
EXTENDS ApiKeyAdmission, TLC

CONSTANTS r1, r2, r3, k1, k2, k3, k4, k5, acme, bot, corp

Balances == "balances.read"

MCCapabilities == {Balances}
MCNetworks     == {"eth-mainnet"}

ActiveGrant == [capability    |-> Balances,
                network_scope |-> AnyNetwork,
                status        |-> "active"]

(* A grant the legacy consumer was given for one network only.             *)
ExactGrant == [ActiveGrant EXCEPT !.network_scope = "eth-mainnet"]

MCKindOf   == [k \in Keys |-> CASE k = k1 -> "account"
                                [] k = k2 -> "agent"
                                [] k = k3 -> "anonymous_demo"
                                [] k \in {k4, k5} -> "legacy"]
MCOwnerOf  == [k \in Keys |-> IF k \in {k4, k5} THEN corp ELSE acme]
MCClientOf == [k \in Keys |-> bot]
MCPolicyOf == [k \in Keys |->
                 IF k = k1
                 THEN [requests_per_minute |-> 2, requests_per_day |-> 2]
                 ELSE [requests_per_minute |-> 1, requests_per_day |-> 2]]
MCGrantsOf == [h \in Owners \union Keys |->
                 {IF h = corp THEN ExactGrant ELSE ActiveGrant}]

MCClientGrants   == {<<bot, ActiveGrant>>}
MCConsumerGrants == {<<corp, ExactGrant>>, <<corp, ActiveGrant>>}

RequestSymmetry == Permutations(Requests)

=============================================================================
