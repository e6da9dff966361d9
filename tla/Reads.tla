------------------------------- MODULE Reads -------------------------------
(***************************************************************************)
(* The read endpoints of one process together: a request for any of them,  *)
(* on the catalog and the protocols that the process started with, while   *)
(* an operator may revoke grants.                                          *)
(***************************************************************************)
EXTENDS Balances, Transfers, Assets, Portfolio, Simulation, RealizedYield

Next ==
    \/ Boot \/ RevokeGrant \/ Done
    \/ BalancesNext \/ TransfersNext \/ AssetsNext
    \/ PortfolioNext \/ SimulationNext \/ YieldNext

Spec == Init /\ [][Next]_vars

(* require_network_scopes and resolve_workspace_portfolio: the middleware  *)
(* admits a key for the route when any network is granted; no balance and  *)
(* no transfer is then read upstream on a network that the key, its client *)
(* and its owner are not all granted when the handler checks, and none of  *)
(* a workspace's members on a network that the account never had.          *)
DeniedNetworksNotRead ==
    /\ input.handler = "balances" /\ input.principal /\ local # <<>> =>
         \A n \in BalanceNetworksRead : Allowed(BalancesRead, grants, n)
    /\ input.handler = "transfers" /\ input.principal /\ local # <<>> =>
         \A reply \in local.reply :
           Allowed(Erc20TransfersRead, grants, local.search.network_slug)
    /\ input.handler = "portfolio" /\ local # <<>> =>
         \A o \in ToSet(local.done) : \A a \in ToSet(o.command.accounts) :
           AnyPermits(input.grants.owner_grants,
                      NetworkRequest("balances_read", a.network_slug))

=============================================================================
