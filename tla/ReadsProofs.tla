----------------------------- MODULE ReadsProofs -----------------------------
(***************************************************************************)
(* Proofs about the read endpoints of Reads, for any catalog, request,     *)
(* grants and answers of the upstreams.                                    *)
(***************************************************************************)
EXTENDS Reads, EvidenceProofs

(***************************************************************************)
(* Balances.                                                               *)
(***************************************************************************)

(* group_accounts: each group is of the network of an account.             *)
LEMMA GroupNetworks ==
    ASSUME NEW n \in Nat, NEW accounts, DOMAIN accounts = 1..n,
           NEW g \in DOMAIN GroupAccounts(accounts)
    PROVE  \E a \in ToSet(accounts) : GroupAccounts(accounts)[g].network_slug = a.network_slug
  <1> DEFINE s == MapSeq(accounts, LAMBDA a : a.network_slug)
  <1>1. DOMAIN s = 1..n /\ \A i \in 1..n : s[i] = accounts[i].network_slug
    BY DEF MapSeq
  <1>2. /\ DOMAIN GroupAccounts(accounts) = DOMAIN Deduplicated(s)
        /\ GroupAccounts(accounts)[g].network_slug = Deduplicated(s)[g]
    BY DEF GroupAccounts
  <1> HIDE DEF s
  <1>3. PICK i \in 1..n : Deduplicated(s)[g] = s[i]
    BY <1>1, <1>2, DeduplicatedFrom
  <1> QED BY <1>1, <1>2, <1>3 DEF ToSet

(* plan_groups: so is each plan.                                           *)
LEMMA PlanNetworks ==
    ASSUME NEW n \in Nat, NEW catalog, NEW c, DOMAIN c.accounts = 1..n,
           NEW g \in DOMAIN PlanGroups(catalog, c)
    PROVE  PlanGroups(catalog, c)[g].network_slug \in RequestedNetworks(c)
  <1>1. /\ DOMAIN PlanGroups(catalog, c) = DOMAIN GroupAccounts(c.accounts)
        /\ PlanGroups(catalog, c)[g]
             = PlanNetworkGroup(catalog, GroupAccounts(c.accounts)[g], c.tokens)
    BY DEF PlanGroups, MapSeq
  <1>2. \A group : PlanNetworkGroup(catalog, group, c.tokens).network_slug = group.network_slug
    BY DEF PlanNetworkGroup
  <1>3. \E a \in ToSet(c.accounts) :
           GroupAccounts(c.accounts)[g].network_slug = a.network_slug
    BY <1>1, GroupNetworks
  <1> QED BY <1>1, <1>2, <1>3 DEF RequestedNetworks

(* The key was granted balances on the network.                            *)
ReadAllowed(n) == input.principal => Allowed(BalancesRead, grants, n)

(* What the balance request holds at each step: past the check the         *)
(* networks of the command are granted, and so are the ones that are read. *)
BalancesInv ==
    input.handler = "balances" =>
      \/ local = <<>> /\ pc \in {"boot", "refused", "parse", "answered"}
      \/ /\ DOMAIN local = {"command", "plans", "executions", "results", "prices"}
         /\ \E n \in Nat : DOMAIN command.accounts = 1..n
         /\ pc \in {"scopes", "plan", "calls", "price", "present", "answered"}
         /\ pc = "scopes" => executions = <<>>
         /\ pc \in {"plan", "calls"} =>
              \A n \in RequestedNetworks(command) : ReadAllowed(n)
         /\ \A n \in BalanceNetworksRead : ReadAllowed(n)

(* The locals of the handler.                                              *)
Fields == {"command", "plans", "executions", "results", "prices"}

(* parse: the accounts of the command are those of the request.            *)
LEMMA BalancesParsed ==
    ASSUME BalancesInv, input \in Inputs, Parse
    PROVE  BalancesInv'
  <1>1. /\ local = <<>> /\ pc = "parse" /\ input' = input /\ input.handler = "balances"
    BY DEF Parse, At, BalancesInv
  <1>2. CASE UNCHANGED local /\ pc' = "answered"
    BY <1>1, <1>2 DEF BalancesInv
  <1>3. ASSUME RequestError(input.request) = {},
               NEW as_of, NEW currency, NEW tokens,
               Goto("scopes",
                      [command |-> Command(as_of, MapSeq(CHOOSE a \in input.request.accounts : TRUE,
                                                         OnchainAccount), currency, tokens),
                       plans |-> <<>>, executions |-> <<>>, results |-> <<>>,
                       prices |-> NoPrices])
        PROVE  BalancesInv'
    <2> DEFINE r == input.request
    <2>1. r.accounts # {}
      <3>1. AccountsError(r) = {}
        <4> DEFINE checks == <<BodyError(r), AccountsError(r), TokensError(r)>>
        <4>1. DOMAIN checks \in SUBSET Nat /\ 2 \in DOMAIN checks /\ checks[2] = AccountsError(r)
          OBVIOUS
        <4>2. FirstError(checks) = {}
          BY <1>3 DEF RequestError
        <4> HIDE DEF checks
        <4> QED BY <4>1, <4>2, NoError
      <3>2. \E rest : FirstError(<<Fail(r.accounts = {}, "invalid_request"), rest>>) = {}
        BY <3>1, Zenon DEF AccountsError
      <3>3. Fail(r.accounts = {}, "invalid_request") = {}
        <4> PICK rest : FirstError(<<Fail(r.accounts = {}, "invalid_request"), rest>>) = {}
          BY <3>2, Zenon
        <4> DEFINE checks == <<Fail(r.accounts = {}, "invalid_request"), rest>>
        <4>1. /\ DOMAIN checks \in SUBSET Nat /\ 1 \in DOMAIN checks
              /\ checks[1] = Fail(r.accounts = {}, "invalid_request")
          OBVIOUS
        <4>2. FirstError(checks) = {}
          OBVIOUS
        <4> HIDE DEF checks
        <4> QED BY <4>1, <4>2, NoError
      <3> QED BY <3>3 DEF Fail
    <2>2. PICK raw \in r.accounts : raw = CHOOSE a \in r.accounts : TRUE
      BY <2>1
    <2>3. raw \in Seq(ToSet(raw))
      BY <1>1, AccountsAssumption
    <2>4. Len(raw) \in Nat /\ DOMAIN raw = 1..Len(raw)
      BY <2>3
    <2>5. /\ pc' = "scopes" /\ DOMAIN local' = Fields /\ local'.executions = <<>>
          /\ local'.command.accounts = MapSeq(raw, OnchainAccount)
      BY <1>3, <2>2 DEF Goto, Fields, Command
    <2>6. DOMAIN MapSeq(raw, OnchainAccount) = DOMAIN raw
      BY DEF MapSeq
    <2>7. DOMAIN local'.command.accounts = 1..Len(raw)
      BY <2>4, <2>5, <2>6
    <2>8. BalanceNetworksRead' = {}
      BY <2>5 DEF BalanceNetworksRead, executions
    <2> QED BY <2>4, <2>5, <2>7, <2>8, Zenon DEF BalancesInv, command, executions, Fields
  <1> QED BY <1>2, <1>3, Zenon DEF Parse, Refuse

(* What holds at a step of a balance request.                              *)
LEMMA BalanceStep ==
    ASSUME BalancesInv, NEW step \in {"scopes", "plan", "calls", "price", "present"},
           At("balances", step)
    PROVE  /\ DOMAIN local = Fields /\ input.handler = "balances" /\ pc = step
           /\ \E n \in Nat : DOMAIN command.accounts = 1..n
           /\ pc = "scopes" => executions = <<>>
           /\ pc \in {"plan", "calls"} =>
                \A n \in RequestedNetworks(command) : ReadAllowed(n)
           /\ \A n \in BalanceNetworksRead : ReadAllowed(n)
  BY DEF BalancesInv, At, Fields

(* The check is what lets the request through.                             *)
LEMMA BalancesScoped ==
    ASSUME BalancesInv, BalancesScopes
    PROVE  BalancesInv'
  <1>1. /\ DOMAIN local = Fields /\ input.handler = "balances" /\ pc = "scopes"
        /\ \E n \in Nat : DOMAIN command.accounts = 1..n
        /\ executions = <<>>
        /\ UNCHANGED <<input, grants, local>>
    BY BalanceStep DEF BalancesScopes, RequireNetworkScopes
  <1>2. BalanceNetworksRead' = {}
    BY <1>1 DEF BalanceNetworksRead, executions
  <1>3. \/ pc' = "answered"
        \/ /\ pc' = "plan"
           /\ input.principal => Scoped(BalancesRead, grants, RequestedNetworks(command))
    BY DEF BalancesScopes, RequireNetworkScopes, Refuse
  <1>4. Scoped(BalancesRead, grants, RequestedNetworks(command)) =>
          \A n \in RequestedNetworks(command) : Allowed(BalancesRead, grants, n)
    BY DEF Scoped
  <1>5. pc' = "plan" => \A n \in RequestedNetworks(command) : ReadAllowed(n)
    BY <1>3, <1>4 DEF ReadAllowed
  <1> QED BY <1>1, <1>2, <1>3, <1>5 DEF BalancesInv, Fields, command, executions, ReadAllowed

(* The plans are on networks of the command.                               *)
LEMMA BalancesPlanned ==
    ASSUME BalancesInv, Plan
    PROVE  BalancesInv'
  <1> DEFINE planned == PlanGroups(input.catalog, command)
  <1>1. /\ DOMAIN local = Fields /\ input.handler = "balances" /\ pc = "plan"
        /\ \E n \in Nat : DOMAIN command.accounts = 1..n
        /\ \A n \in RequestedNetworks(command) : ReadAllowed(n)
        /\ \A n \in BalanceNetworksRead : ReadAllowed(n)
        /\ UNCHANGED <<input, grants>>
    BY BalanceStep DEF Plan
  <1>2. CASE UNCHANGED local /\ pc' = "answered"
    BY <1>1, <1>2
       DEF BalancesInv, Fields, command, executions, plans, BalanceNetworksRead, ReadAllowed
  <1>3. ASSUME NEW bigwig,
               Goto("calls", [local EXCEPT !.plans = planned, !.executions =
                                [g \in DOMAIN planned |-> Execution(planned[g], bigwig)]])
        PROVE  BalancesInv'
    <2>1. /\ pc' = "calls" /\ DOMAIN local' = Fields /\ command' = command
          /\ plans' = planned /\ DOMAIN executions' = DOMAIN planned
      BY <1>1, <1>3 DEF Goto, Fields, command, plans, executions
    <2>2. \A g \in DOMAIN planned : planned[g].network_slug \in RequestedNetworks(command)
      BY <1>1, PlanNetworks
    <2> HIDE DEF planned
    <2>3. \A n \in BalanceNetworksRead' : n \in RequestedNetworks(command)
      BY <2>1, <2>2 DEF BalanceNetworksRead
    <2>4. \A n \in RequestedNetworks(command) : ReadAllowed(n)'
      BY <1>1 DEF ReadAllowed
    <2>5. RequestedNetworks(command)' = RequestedNetworks(command)
      BY <2>1
    <2> QED BY <1>1, <2>1, <2>3, <2>4, <2>5 DEF BalancesInv, Fields
  <1> QED BY <1>2, <1>3, Zenon DEF Plan, Refuse, MapSeq

(* After the plan no network is added.                                     *)
LEMMA NoMoreRead ==
    ASSUME BalancesInv, UNCHANGED <<input, grants>>, input.handler = "balances",
           NEW step \in {"calls", "price", "present"}, At("balances", step),
           pc' = step \/ pc' \in {"price", "present", "answered"},
           DOMAIN local' = Fields, command' = command,
           \A n \in BalanceNetworksRead' : n \in BalanceNetworksRead
    PROVE  BalancesInv'
  <1>1. /\ \E n \in Nat : DOMAIN command.accounts = 1..n
        /\ pc = step
        /\ pc \in {"plan", "calls"} =>
             \A n \in RequestedNetworks(command) : ReadAllowed(n)
        /\ \A n \in BalanceNetworksRead : ReadAllowed(n)
    BY BalanceStep
  <1>2. \A n : ReadAllowed(n)' <=> ReadAllowed(n)
    BY DEF ReadAllowed
  <1>3. RequestedNetworks(command)' = RequestedNetworks(command)
    OBVIOUS
  <1>4. pc' \in {"calls", "price", "present", "answered"}
    OBVIOUS
  <1>5. pc' = "calls" => pc = "calls"
    BY <1>1
  <1> QED BY <1>1, <1>2, <1>3, <1>4, <1>5 DEF BalancesInv, Fields

(* A call that returns or dies leaves the others alone.                    *)
LEMMA BalancesCalled ==
    ASSUME BalancesInv, NEW g \in DOMAIN executions, Joined(g) \/ ExecutionTaskFailed(g)
    PROVE  BalancesInv'
  <1>1. /\ At("balances", "calls") /\ UNCHANGED <<input, grants>> /\ executions[g].kind = "pending"
        /\ input.handler = "balances"
        /\ pc' = "calls" \/ pc' = "answered"
    BY DEF Joined, ExecutionTaskFailed, At, Refuse
  <1>2. DOMAIN local = Fields
    BY <1>1, BalanceStep
  <1>3. /\ DOMAIN local' = Fields /\ command' = command /\ plans' = plans
        /\ DOMAIN executions' = DOMAIN executions
        /\ \A h \in DOMAIN executions : h # g => executions'[h] = executions[h]
    BY <1>2 DEF Joined, ExecutionTaskFailed, Fields, command, plans, executions
  <1>4. \A n \in BalanceNetworksRead' : n \in BalanceNetworksRead
    BY <1>1, <1>3 DEF BalanceNetworksRead
  <1> QED BY <1>1, <1>3, <1>4, NoMoreRead

(* The later steps leave the plans and the calls alone.                    *)
LEMMA BalancesRest ==
    ASSUME BalancesInv, Assemble \/ LookUpPrices \/ Present
    PROVE  BalancesInv'
  <1>1. PICK step \in {"calls", "price", "present"} :
           At("balances", step) /\ UNCHANGED <<input, grants>> /\ input.handler = "balances"
    BY DEF Assemble, LookUpPrices, Present, At
  <1>2. DOMAIN local = Fields
    BY <1>1, BalanceStep
  <1>3. /\ pc' \in {"price", "present", "answered"}
        /\ DOMAIN local' = Fields /\ command' = command /\ plans' = plans
        /\ executions' = executions
    BY <1>2 DEF Assemble, LookUpPrices, Present, Goto, Respond, Fields, command, plans, executions
  <1>4. BalanceNetworksRead' = BalanceNetworksRead
    BY <1>3 DEF BalanceNetworksRead
  <1> QED BY <1>1, <1>3, <1>4, NoMoreRead

(* A step of a balance request, and only of one.                           *)
LEMMA BalancesFrame ==
    ASSUME BalancesNext
    PROVE  input.handler = "balances" /\ input' = input /\ grants' = grants
  BY DEF BalancesNext, Parse, BalancesScopes, RequireNetworkScopes, Plan, Assemble,
         LookUpPrices, Present, Joined, ExecutionTaskFailed, At

(* Every step of a balance request keeps the invariant.                    *)
LEMMA BalancesKeep ==
    ASSUME BalancesInv, input \in Inputs, BalancesNext
    PROVE  BalancesInv'
  BY BalancesParsed, BalancesScoped, BalancesPlanned, BalancesCalled, BalancesRest
     DEF BalancesNext

(* So do the steps of others: a grant is revoked only before the handler   *)
(* has planned any call.                                                   *)
LEMMA BalancesOthers ==
    ASSUME BalancesInv, input' = input,
           \/ input.handler # "balances"
           \/ local' = local /\ pc' = pc /\ grants' = grants
           \/ Boot \/ RevokeGrant
    PROVE  BalancesInv'
  <1>1. CASE input.handler # "balances"
    BY <1>1 DEF BalancesInv
  <1>2. CASE local' = local /\ pc' = pc /\ grants' = grants
    BY <1>2 DEF BalancesInv, BalanceNetworksRead, ReadAllowed, command, plans, executions
  <1>3. CASE Boot
    <2>1. pc = "boot" /\ local' = local /\ pc' \in {"parse", "refused"}
      BY <1>3 DEF Boot
    <2> QED BY <2>1 DEF BalancesInv
  <1>4. CASE RevokeGrant
    <2>1. pc \in {"parse", "scopes", "networks"} /\ local' = local /\ pc' = pc
      BY <1>4 DEF RevokeGrant
    <2>2. executions = <<>> => BalanceNetworksRead' = {}
      BY <2>1 DEF BalanceNetworksRead, executions
    <2> QED BY <2>1, <2>2 DEF BalancesInv, command, executions
  <1> QED BY <1>1, <1>2, <1>3, <1>4

(***************************************************************************)
(* Transfers.                                                              *)
(***************************************************************************)

(* The key was granted the network of the search.                          *)
SearchAllowed ==
    input.principal => Allowed(Erc20TransfersRead, grants, local.search.network_slug)

(* What the transfer search holds at each step: past the check the network *)
(* is granted, and a reply comes only after it.                            *)
TransfersInv ==
    input.handler = "transfers" =>
      \/ local = <<>> /\ pc \in {"boot", "refused", "parse", "answered"}
      \/ /\ DOMAIN local = {"search", "filters", "reply"}
         /\ pc \in {"scopes", "plan", "calls", "present", "answered"}
         /\ pc \in {"plan", "calls", "present"} => SearchAllowed
         /\ local.reply # {} => SearchAllowed /\ pc # "scopes"

(* parse: nothing was asked for yet.                                       *)
LEMMA SearchParsed ==
    ASSUME TransfersInv, ParseSearch
    PROVE  TransfersInv'
  <1>1. /\ local = <<>> /\ pc = "parse" /\ input' = input
    BY DEF ParseSearch, At, TransfersInv
  <1>2. CASE UNCHANGED local /\ pc' = "answered"
    BY <1>1, <1>2 DEF TransfersInv
  <1>3. CASE Goto("scopes", [search |-> SearchInput(input.request), filters |-> <<>>, reply |-> {}])
    BY <1>1, <1>3 DEF TransfersInv, Goto
  <1> QED BY <1>2, <1>3 DEF ParseSearch, Refuse

(* The check is what lets the search through, and nothing later changes    *)
(* the network.                                                            *)
LEMMA TransferStep ==
    ASSUME TransfersInv, \/ TransfersScopes \/ BuildSearchPlan \/ Extract
    PROVE  TransfersInv'
  <1>1. /\ DOMAIN local = {"search", "filters", "reply"}
        /\ input.handler = "transfers" /\ UNCHANGED <<input, grants>>
        /\ pc \in {"scopes", "plan", "calls"}
    BY DEF TransfersInv, TransfersScopes, BuildSearchPlan, Extract, At, RequireNetworkScopes
  <1>2. CASE TransfersScopes
    <2>1. /\ local' = local /\ pc = "scopes"
          /\ \/ pc' = "answered"
             \/ /\ pc' = "plan"
                /\ input.principal =>
                     Scoped(Erc20TransfersRead, grants, {local.search.network_slug})
      BY <1>2 DEF TransfersScopes, At, RequireNetworkScopes, Refuse
    <2>2. Scoped(Erc20TransfersRead, grants, {local.search.network_slug}) =>
            Allowed(Erc20TransfersRead, grants, local.search.network_slug)
      BY DEF Scoped
    <2>3. pc' = "plan" => SearchAllowed
      BY <2>1, <2>2 DEF SearchAllowed
    <2> QED BY <1>1, <2>1, <2>3 DEF TransfersInv, SearchAllowed
  <1>3. CASE BuildSearchPlan
    <2>1. /\ pc = "plan" /\ pc' \in {"answered", "calls"} /\ DOMAIN local' = DOMAIN local
          /\ local'.search = local.search /\ local'.reply = local.reply
      BY <1>1, <1>3 DEF BuildSearchPlan, At, Refuse, Goto
    <2> QED BY <1>1, <2>1 DEF TransfersInv, SearchAllowed
  <1>4. CASE Extract
    <2>1. /\ pc = "calls" /\ pc' = "present" /\ DOMAIN local' = DOMAIN local
          /\ local'.search = local.search
      BY <1>1, <1>4 DEF Extract, At, Goto
    <2> QED BY <1>1, <2>1 DEF TransfersInv, SearchAllowed
  <1> QED BY <1>2, <1>3, <1>4

(* present: the answer leaves the reply as it is.                          *)
LEMMA TransfersPresented ==
    ASSUME TransfersInv, PresentTransfers
    PROVE  TransfersInv'
  <1>1. /\ pc = "present" /\ pc' = "answered" /\ local' = local
        /\ input' = input /\ grants' = grants
    BY DEF PresentTransfers, At, Refuse, Respond
  <1> QED BY <1>1 DEF TransfersInv, SearchAllowed

(* A step of a transfer search, and only of one.                           *)
LEMMA TransfersFrame ==
    ASSUME TransfersNext
    PROVE  input.handler = "transfers" /\ input' = input /\ grants' = grants
  BY DEF TransfersNext, ParseSearch, TransfersScopes, RequireNetworkScopes,
         BuildSearchPlan, Extract, PresentTransfers, At

(* Every step of a transfer search keeps the invariant.                    *)
LEMMA TransfersKeep ==
    ASSUME TransfersInv, TransfersNext
    PROVE  TransfersInv'
  BY SearchParsed, TransferStep, TransfersPresented DEF TransfersNext

(* So do the steps of others.                                              *)
LEMMA TransfersOthers ==
    ASSUME TransfersInv, input' = input,
           \/ input.handler # "transfers"
           \/ local' = local /\ pc' = pc /\ grants' = grants
           \/ Boot \/ RevokeGrant
    PROVE  TransfersInv'
  <1>1. CASE input.handler # "transfers"
    BY <1>1 DEF TransfersInv
  <1>2. CASE local' = local /\ pc' = pc /\ grants' = grants
    BY <1>2 DEF TransfersInv, SearchAllowed
  <1>3. CASE Boot
    <2>1. pc = "boot" /\ local' = local /\ pc' \in {"parse", "refused"}
      BY <1>3 DEF Boot
    <2> QED BY <2>1 DEF TransfersInv
  <1>4. CASE RevokeGrant
    <2>1. pc \in {"parse", "scopes", "networks"} /\ local' = local /\ pc' = pc
      BY <1>4 DEF RevokeGrant
    <2> QED BY <2>1 DEF TransfersInv
  <1> QED BY <1>1, <1>2, <1>3, <1>4

(***************************************************************************)
(* Portfolio.                                                              *)
(***************************************************************************)

(* Grants may be revoked, never added: an active grant of the account was  *)
(* there when the request came.                                            *)
GrantsInv ==
    /\ input \in Inputs
    /\ grants \in AuthorizationContext
    /\ \A g \in grants.owner_grants :
         g.status = "active" => g \in input.grants.owner_grants

(* The account was granted balances on the network.                        *)
EverGranted(n) ==
    AnyPermits(input.grants.owner_grants, NetworkRequest("balances_read", n))

(* The accounts of the commands are on the networks still to check, or on  *)
(* ones that were granted.                                                 *)
CommandsIn(networks) ==
    \A c \in ToSet(local.commands) : \A a \in ToSet(c.accounts) :
      a.network_slug \in networks \/ EverGranted(a.network_slug)

(* The accounts that were read are on granted networks.                    *)
OutcomesIn(done) ==
    \A o \in ToSet(done) : \A a \in ToSet(o.command.accounts) : EverGranted(a.network_slug)

(* What resolve_workspace_portfolio holds at each step.                    *)
PortfolioInv ==
    input.handler = "portfolio" =>
      \/ local = <<>> /\ pc \in {"boot", "refused", "parse", "answered"}
      \/ /\ DOMAIN local = {"commands", "next", "done", "results", "networks"}
         /\ pc \in {"scopes", "networks", "calls", "price", "answered"}
         /\ local.done \in Seq(ToSet(local.done))
         /\ pc \in {"scopes", "networks"} => CommandsIn(local.networks)
         /\ pc \in {"calls", "price"} => CommandsIn({})
         /\ pc = "price" => local.next \in DOMAIN local.commands
         /\ OutcomesIn(local.done)

(* has_active_capability, when it holds, held from the start.              *)
LEMMA HadCapability ==
    ASSUME GrantsInv, NEW n, HasActiveCapability(n)
    PROVE  EverGranted(n)
  BY DEF GrantsInv, HasActiveCapability, EverGranted, AnyPermits, GrantPermits, NetworkRequest

(* A grant for every network is one for each.                              *)
LEMMA HadEverywhere ==
    ASSUME GrantsInv, NEW n, HasActiveCapability(AnyNetwork)
    PROVE  EverGranted(n)
  BY DEF GrantsInv, HasActiveCapability, EverGranted, AnyPermits, GrantPermits, NetworkRequest, ScopePermits

(* An error leaves what was read as it is.                                 *)
LEMMA Ended ==
    ASSUME PortfolioInv, pc # "answered", input' = input, NEW error, PortfolioError(error)
    PROVE  PortfolioInv'
  BY DEF PortfolioInv, PortfolioError, OutcomesIn, EverGranted

(* find_portfolio: every network of the commands is still to be checked.   *)
LEMMA FindKeeps ==
    ASSUME PortfolioInv, FindPortfolio
    PROVE  PortfolioInv'
  <1>1. /\ local = <<>> /\ pc = "parse" /\ input' = input
    BY DEF FindPortfolio, At, PortfolioInv
  <1>2. CASE \E error : PortfolioError(error)
    BY <1>1, <1>2, Ended
  <1>3. ASSUME NEW commands, 
               Goto(IF commands = <<>> THEN "calls" ELSE "scopes",
                       [commands |-> commands, next |-> 1, done |-> <<>>, results |-> <<>>,
                        networks |-> PortfolioNetworks(commands)])
        PROVE  PortfolioInv'
    <2>1. /\ pc' = IF commands = <<>> THEN "calls" ELSE "scopes"
          /\ DOMAIN local' = {"commands", "next", "done", "results", "networks"}
          /\ local'.commands = commands /\ local'.done = <<>>
          /\ local'.networks = PortfolioNetworks(commands)
      BY <1>3 DEF Goto
    <2>2. ToSet(<<>>) = {}
      BY DEF ToSet
    <2>3. CommandsIn(local.networks)'
      BY <2>1 DEF CommandsIn, PortfolioNetworks
    <2>4. commands = <<>> => CommandsIn({})'
      BY <2>1, <2>2 DEF CommandsIn
    <2>5. OutcomesIn(local.done)' /\ local'.done \in Seq(ToSet(local'.done))
      BY <2>1, <2>2 DEF OutcomesIn
    <2> QED BY <2>1, <2>3, <2>4, <2>5 DEF PortfolioInv
  <1> QED BY <1>2, <1>3, Zenon DEF FindPortfolio

(* What holds at a step of a portfolio request.                            *)
LEMMA Portfolios ==
    ASSUME PortfolioInv, NEW step, At("portfolio", step),
           step \in {"scopes", "networks", "calls", "price"}
    PROVE  /\ pc = step /\ input.handler = "portfolio"
           /\ DOMAIN local = {"commands", "next", "done", "results", "networks"}
           /\ local.done \in Seq(ToSet(local.done))
           /\ step \in {"scopes", "networks"} => CommandsIn(local.networks)
           /\ step \in {"calls", "price"} => CommandsIn({})
           /\ step = "price" => local.next \in DOMAIN local.commands
           /\ OutcomesIn(local.done)
  BY DEF PortfolioInv, At

(* A grant for every network ends the checks.                              *)
LEMMA EverywhereKeeps ==
    ASSUME PortfolioInv, GrantsInv, AllowedEverywhere
    PROVE  PortfolioInv'
  <1>1. /\ pc = "scopes" /\ input' = input /\ CommandsIn(local.networks) /\ OutcomesIn(local.done)
        /\ DOMAIN local = {"commands", "next", "done", "results", "networks"}
        /\ local.done \in Seq(ToSet(local.done))
    BY Portfolios DEF AllowedEverywhere
  <1>2. CASE \E error : PortfolioError(error)
    BY <1>1, <1>2, Ended
  <1>3. CASE Goto(IF HasActiveCapability(AnyNetwork) THEN "calls" ELSE "networks", local)
    <2>1. local' = local /\ pc' = IF HasActiveCapability(AnyNetwork) THEN "calls" ELSE "networks"
      BY <1>3 DEF Goto
    <2>2. HasActiveCapability(AnyNetwork) => CommandsIn({})'
      BY <1>1, <2>1, HadEverywhere DEF CommandsIn, EverGranted
    <2>3. CommandsIn(local.networks)' /\ OutcomesIn(local.done)'
      BY <1>1, <2>1 DEF CommandsIn, OutcomesIn, EverGranted
    <2> QED BY <1>1, <2>1, <2>2, <2>3 DEF PortfolioInv
  <1> QED BY <1>2, <1>3 DEF AllowedEverywhere

(* A network leaves the list only when it is granted.                      *)
LEMMA NetworkKeeps ==
    ASSUME PortfolioInv, GrantsInv, AllowedNetwork
    PROVE  PortfolioInv'
  <1>1. /\ pc = "networks" /\ input' = input /\ CommandsIn(local.networks) /\ OutcomesIn(local.done)
        /\ DOMAIN local = {"commands", "next", "done", "results", "networks"}
        /\ local.done \in Seq(ToSet(local.done))
    BY Portfolios DEF AllowedNetwork
  <1>2. CASE \E error : PortfolioError(error)
    BY <1>1, <1>2, Ended
  <1>3. ASSUME NEW n \in local.networks, NEW left, left = local.networks \ {n},
               HasActiveCapability(n),
               Goto(IF left = {} THEN "calls" ELSE "networks",
                    [local EXCEPT !.networks = left])
        PROVE  PortfolioInv'
    <2>1. /\ pc' = IF left = {} THEN "calls" ELSE "networks"
          /\ DOMAIN local' = DOMAIN local /\ local'.commands = local.commands
          /\ local'.done = local.done /\ local'.networks = left
      BY <1>1, <1>3 DEF Goto
    <2>2. EverGranted(n)
      BY <1>3, HadCapability
    <2>3. CommandsIn(left)' /\ OutcomesIn(local.done)'
      BY <1>1, <1>3, <2>1, <2>2 DEF CommandsIn, OutcomesIn, EverGranted
    <2> QED BY <1>1, <2>1, <2>3, Zenon DEF PortfolioInv
  <1> QED BY <1>2, <1>3, Zenon DEF AllowedNetwork

(* The outcome of a command, resolved or unavailable, is of its own        *)
(* accounts.                                                               *)
LEMMA NextKeeps ==
    ASSUME PortfolioInv, input' = input, NEW step \in {"calls", "price"}, At("portfolio", step),
           local.next \in DOMAIN local.commands, NEW accounts,
           NextCommand(CommandOutcome(Resolving, accounts))
    PROVE  PortfolioInv'
  <1>1. /\ CommandsIn({}) /\ OutcomesIn(local.done)
        /\ DOMAIN local = {"commands", "next", "done", "results", "networks"}
        /\ local.done \in Seq(ToSet(local.done))
    BY Portfolios
  <1> DEFINE o == CommandOutcome(Resolving, accounts)
  <1>2. /\ pc' = "calls" /\ DOMAIN local' = DOMAIN local
        /\ local'.commands = local.commands /\ local'.done = Append(local.done, o)
    BY <1>1 DEF NextCommand, Goto
  <1>3. \A a \in ToSet(o.command.accounts) : EverGranted(a.network_slug)
    BY <1>1 DEF CommandsIn, CommandOutcome, Resolving, ToSet
  <1> HIDE DEF o
  <1>4. /\ ToSet(local'.done) = ToSet(local.done) \union {o}
        /\ local'.done \in Seq(ToSet(local'.done))
    <2> PICK S : S = ToSet(local.done)
      OBVIOUS
    <2>1. local.done \in Seq(S \union {o})
      BY <1>1
    <2>2. local'.done \in Seq(S \union {o})
      BY <1>2, <2>1
    <2>3. ToSet(local'.done) = S \union {o}
      <3>1. \A x \in ToSet(local'.done) : x \in S \union {o}
        BY <2>2 DEF ToSet
      <3>2. \A x \in S : x \in ToSet(local'.done)
        BY <1>2, <2>1 DEF ToSet
      <3>3. o \in ToSet(local'.done)
        <4>1. /\ Len(local.done) + 1 \in DOMAIN local'.done
              /\ local'.done[Len(local.done) + 1] = o
          BY <1>2, <2>1
        <4> QED BY <4>1 DEF ToSet
      <3> QED BY <3>1, <3>2, <3>3
    <2> QED BY <2>2, <2>3
  <1>5. OutcomesIn(local.done)' /\ CommandsIn({})'
    BY <1>1, <1>2, <1>3, <1>4 DEF OutcomesIn, CommandsIn, EverGranted
  <1> QED BY <1>1, <1>2, <1>4, <1>5 DEF PortfolioInv

(* The calls of a command leave the outcomes alone.                        *)
LEMMA CalledKeeps ==
    ASSUME PortfolioInv, input' = input, At("portfolio", "calls"),
           local.next \in DOMAIN local.commands, NEW found,
           Goto("price", [local EXCEPT !.results = found])
    PROVE  PortfolioInv'
  <1>1. /\ CommandsIn({}) /\ OutcomesIn(local.done)
        /\ DOMAIN local = {"commands", "next", "done", "results", "networks"}
        /\ local.done \in Seq(ToSet(local.done))
    BY Portfolios
  <1>2. /\ pc' = "price" /\ DOMAIN local' = DOMAIN local
        /\ local'.commands = local.commands /\ local'.done = local.done
        /\ local'.next = local.next
    BY <1>1 DEF Goto
  <1>3. OutcomesIn(local.done)' /\ CommandsIn({})'
    BY <1>1, <1>2 DEF OutcomesIn, CommandsIn, EverGranted
  <1> QED BY <1>1, <1>2, <1>3 DEF PortfolioInv

(* resolve_command: both ways on.                                          *)
LEMMA ResolveKeeps ==
    ASSUME PortfolioInv, ResolveCommand
    PROVE  PortfolioInv'
  <1>1. At("portfolio", "calls") /\ local.next \in DOMAIN local.commands /\ input' = input
    BY DEF ResolveCommand
  <1>2. CASE UnavailableCommand(Resolving)
    BY <1>1, <1>2, NextKeeps DEF UnavailableCommand
  <1>3. CASE \E found : Goto("price", [local EXCEPT !.results = found])
    BY <1>1, <1>3, CalledKeeps
  <1> QED BY <1>2, <1>3, Zenon DEF ResolveCommand

(* The prices complete the outcome.                                        *)
LEMMA PriceKeeps ==
    ASSUME PortfolioInv, PriceCommand
    PROVE  PortfolioInv'
  <1>1. At("portfolio", "price") /\ input' = input
    BY DEF PriceCommand
  <1>2. local.next \in DOMAIN local.commands
    BY <1>1, Portfolios
  <1>3. \E accounts : NextCommand(CommandOutcome(Resolving, accounts))
    BY Zenon DEF PriceCommand
  <1> QED BY <1>1, <1>2, <1>3, NextKeeps

(* The answer leaves the outcomes alone.                                   *)
LEMMA ComposeKeeps ==
    ASSUME PortfolioInv, Compose
    PROVE  PortfolioInv'
  <1>1. At("portfolio", "calls") /\ input' = input
    BY DEF Compose
  <1>2. pc' = "answered" /\ local' = local
    BY Zenon DEF Compose, PortfolioError, Respond
  <1> QED BY <1>1, <1>2 DEF PortfolioInv, OutcomesIn, EverGranted, At

(* A step of a portfolio request, and only of one.                         *)
LEMMA PortfolioFrame ==
    ASSUME PortfolioNext
    PROVE  input.handler = "portfolio" /\ input' = input /\ grants' = grants
  BY Zenon DEF PortfolioNext, FindPortfolio, AllowedEverywhere, AllowedNetwork,
         ResolveCommand, PriceCommand, Compose, At

(* Every step of a portfolio request keeps the invariant.                  *)
LEMMA PortfolioKeeps ==
    ASSUME PortfolioInv, GrantsInv, PortfolioNext
    PROVE  PortfolioInv'
  BY FindKeeps, EverywhereKeeps, NetworkKeeps, ResolveKeeps, PriceKeeps, ComposeKeeps
     DEF PortfolioNext

(* So do the steps of others.                                              *)
LEMMA PortfolioOthers ==
    ASSUME PortfolioInv, input' = input,
           \/ input.handler # "portfolio"
           \/ local' = local /\ pc' = pc
           \/ Boot
    PROVE  PortfolioInv'
  <1>1. CASE input.handler # "portfolio"
    BY <1>1 DEF PortfolioInv
  <1>2. CASE local' = local /\ pc' = pc
    BY <1>2 DEF PortfolioInv, CommandsIn, OutcomesIn, EverGranted
  <1>3. CASE Boot
    <2>1. pc = "boot" /\ local' = local /\ pc' \in {"parse", "refused"}
      BY <1>3 DEF Boot
    <2> QED BY <2>1 DEF PortfolioInv
  <1> QED BY <1>1, <1>2, <1>3

(***************************************************************************)
(* The handlers together.                                                  *)
(***************************************************************************)

(* A step of an asset request, and only of one.                            *)
LEMMA AssetsFrame ==
    ASSUME AssetsNext
    PROVE  input.handler = "assets" /\ input' = input /\ grants' = grants
  BY Zenon DEF AssetsNext, ListAssets, LatestBySlugChunk, AssetsResponse, GetAsset, LookupPrice,
         LookupSignal, AssetResponse, GetPriceSignal, AssetsResolve, At

(* A grant that is revoked is no longer active, and no other appears.      *)
LEMMA RevokeKeeps ==
    ASSUME GrantsInv, RevokeGrant
    PROVE  GrantsInv'
  <1>0. PICK holder \in {"owner_grants", "key_grants"} : \E g \in grants[holder] :
           grants' = [grants EXCEPT ![holder] =
                        (grants[holder] \ {g}) \union {[g EXCEPT !.status = "revoked"]}]
    BY Zenon DEF RevokeGrant
  <1>1. PICK g \in grants[holder] :
           grants' = [grants EXCEPT ![holder] =
                        (grants[holder] \ {g}) \union {[g EXCEPT !.status = "revoked"]}]
    BY <1>0, Zenon
  <1>2. input' = input /\ input \in Inputs /\ grants \in AuthorizationContext
    BY DEF RevokeGrant, GrantsInv
  <1> DEFINE h == [g EXCEPT !.status = "revoked"]
  <1>3. g \in CapabilityGrant
    BY <1>1, <1>2 DEF AuthorizationContext
  <1>4. h \in CapabilityGrant /\ h.status = "revoked"
    BY <1>3 DEF CapabilityGrant, GrantStatus
  <1> HIDE DEF h
  <1>5. grants' = [grants EXCEPT ![holder] = (grants[holder] \ {g}) \union {h}]
    BY <1>1 DEF h
  <1>6. grants' \in AuthorizationContext
    BY <1>2, <1>4, <1>5 DEF AuthorizationContext
  <1>7. \A x \in grants'.owner_grants : x.status = "active" => x \in grants.owner_grants
    BY <1>2, <1>4, <1>5 DEF AuthorizationContext
  <1> QED BY <1>2, <1>6, <1>7 DEF GrantsInv

(* The inductive invariant of the read endpoints: what the grants may      *)
(* still be, and what the handler of the request has established.          *)
ReadsInv ==
    /\ GrantsInv /\ SearchInv /\ YieldInv
    /\ BalancesInv /\ TransfersInv /\ PortfolioInv

LEMMA ReadsInit == Init => ReadsInv
  <1> SUFFICES ASSUME Init PROVE ReadsInv
    OBVIOUS
  <1>1. input \in Inputs /\ grants = input.grants /\ pc = "boot" /\ local = <<>>
    BY DEF Init
  <1>2. GrantsInv
    BY <1>1, GrantsAssumption DEF GrantsInv
  <1>3. SearchInv /\ BalancesInv /\ TransfersInv /\ PortfolioInv
    BY <1>1 DEF SearchInv, BalancesInv, TransfersInv, PortfolioInv
  <1>4. YieldInv
    BY <1>1 DEF Init, NoAnswer, YieldInv
  <1> QED BY <1>2, <1>3, <1>4 DEF ReadsInv

LEMMA ReadsStep == ReadsInv /\ [Next]_vars => ReadsInv'
  <1> SUFFICES ASSUME ReadsInv, [Next]_vars PROVE ReadsInv'
    OBVIOUS
  <1>0. /\ GrantsInv /\ SearchInv /\ YieldInv
        /\ BalancesInv /\ TransfersInv /\ PortfolioInv /\ input \in Inputs
    BY DEF ReadsInv, GrantsInv
  <1>g. ASSUME input' = input, grants' = grants PROVE GrantsInv'
    BY <1>0, <1>g DEF GrantsInv
  <1>1. CASE Boot
    <2>1. input' = input /\ grants' = grants
      BY <1>1 DEF Boot
    <2> QED BY <1>0, <1>1, <1>g, <2>1, SearchOthers, YieldOthers, BalancesOthers,
               TransfersOthers, PortfolioOthers DEF ReadsInv
  <1>2. CASE RevokeGrant
    <2>1. input' = input /\ local' = local /\ pc' = pc /\ answer' = answer
      BY <1>2 DEF RevokeGrant
    <2> QED BY <1>0, <1>2, <2>1, RevokeKeeps, SearchOthers, YieldOthers, BalancesOthers,
               TransfersOthers, PortfolioOthers DEF ReadsInv
  <1>3. CASE UNCHANGED vars
    <2>1. /\ input' = input /\ local' = local /\ pc' = pc /\ answer' = answer
          /\ grants' = grants
      BY <1>3 DEF vars
    <2> QED BY <1>0, <1>g, <2>1, SearchOthers, YieldOthers, BalancesOthers,
               TransfersOthers, PortfolioOthers DEF ReadsInv
  <1>4. CASE BalancesNext
    <2>1. input.handler = "balances" /\ input' = input /\ grants' = grants
      BY <1>4, BalancesFrame
    <2>2. BalancesInv'
      BY <1>0, <1>4, BalancesKeep
    <2> QED BY <1>0, <1>g, <2>1, <2>2, SearchOthers, YieldOthers, TransfersOthers,
               PortfolioOthers DEF ReadsInv
  <1>5. CASE TransfersNext
    <2>1. input.handler = "transfers" /\ input' = input /\ grants' = grants
      BY <1>5, TransfersFrame
    <2>2. TransfersInv'
      BY <1>0, <1>5, TransfersKeep
    <2> QED BY <1>0, <1>g, <2>1, <2>2, SearchOthers, YieldOthers, BalancesOthers,
               PortfolioOthers DEF ReadsInv
  <1>6. CASE AssetsNext
    <2>1. input.handler = "assets" /\ input' = input /\ grants' = grants
      BY <1>6, AssetsFrame
    <2> QED BY <1>0, <1>g, <2>1, SearchOthers, YieldOthers, BalancesOthers,
               TransfersOthers, PortfolioOthers DEF ReadsInv
  <1>7. CASE PortfolioNext
    <2>1. input.handler = "portfolio" /\ input' = input /\ grants' = grants
      BY <1>7, PortfolioFrame
    <2>2. PortfolioInv'
      BY <1>0, <1>7, PortfolioKeeps
    <2> QED BY <1>0, <1>g, <2>1, <2>2, SearchOthers, YieldOthers, BalancesOthers,
               TransfersOthers DEF ReadsInv
  <1>8. CASE SimulationNext
    <2>1. input.handler = "simulation" /\ input' = input /\ grants' = grants
      BY <1>8, SimulationFrame
    <2>2. SearchInv'
      BY <1>0, <1>8, SimulationKeeps
    <2> QED BY <1>0, <1>g, <2>1, <2>2, YieldOthers, BalancesOthers, TransfersOthers,
               PortfolioOthers DEF ReadsInv
  <1>9. CASE YieldNext
    <2>1. input.handler = "yield" /\ input' = input /\ grants' = grants
      BY <1>9, YieldFrame
    <2>2. YieldInv'
      BY <1>0, <1>9, YieldKeeps
    <2> QED BY <1>0, <1>g, <2>1, <2>2, SearchOthers, BalancesOthers, TransfersOthers,
               PortfolioOthers DEF ReadsInv
  <1>10. CASE Done
    BY <1>3, <1>10 DEF Done
  <1> QED BY <1>1, <1>2, <1>3, <1>4, <1>5, <1>6, <1>7, <1>8, <1>9, <1>10 DEF Next

LEMMA ReadsInvariant == Spec => []ReadsInv
  BY ReadsInit, ReadsStep, PTL DEF Spec

(* require_network_scopes and resolve_workspace_portfolio: no balance and  *)
(* no transfer is read upstream on a network that the key was not granted  *)
(* when the handler checked, and none of a workspace's members on a        *)
(* network that the account never had, whatever is revoked meanwhile.      *)
THEOREM DeniedNetworksAreNotRead == Spec => []DeniedNetworksNotRead
  <1>1. ReadsInv => DeniedNetworksNotRead
    <2> SUFFICES ASSUME ReadsInv PROVE DeniedNetworksNotRead
      OBVIOUS
    <2>1. ASSUME input.handler = "balances", input.principal, local # <<>>,
                 NEW n \in BalanceNetworksRead
          PROVE  Allowed(BalancesRead, grants, n)
      BY <2>1 DEF ReadsInv, BalancesInv, ReadAllowed
    <2>2. ASSUME input.handler = "transfers", input.principal, local # <<>>,
                 NEW reply \in local.reply
          PROVE  Allowed(Erc20TransfersRead, grants, local.search.network_slug)
      BY <2>2 DEF ReadsInv, TransfersInv, SearchAllowed
    <2>3. ASSUME input.handler = "portfolio", local # <<>>,
                 NEW o \in ToSet(local.done), NEW a \in ToSet(o.command.accounts)
          PROVE  AnyPermits(input.grants.owner_grants,
                            NetworkRequest("balances_read", a.network_slug))
      BY <2>3 DEF ReadsInv, PortfolioInv, OutcomesIn, EverGranted
    <2> QED BY <2>1, <2>2, <2>3 DEF DeniedNetworksNotRead
  <1> QED BY <1>1, ReadsInvariant, PTL

(* BlockResolver::at_or_before: whatever blocks earlier boundaries left in *)
(* the cache and whichever calls of the node fail, the block found for     *)
(* each boundary is the last one of the chain whose time is not after it,  *)
(* for every chain and every window.                                       *)
THEOREM BlocksAreAtOrBefore == Spec => []BlocksAtOrBefore
  <1>1. ReadsInv => BlocksAtOrBefore
    BY BlocksTold DEF ReadsInv
  <1> QED BY <1>1, ReadsInvariant, PTL

(* realized_yield: a study is answered only for two final blocks in order, *)
(* with the active deployment of its asset on the protocol's network, with *)
(* the indexes of exactly those blocks, and with a warning for each thing  *)
(* that it could not tell.                                                 *)
THEOREM YieldIsOfFinalBlocks == Spec => []YieldOfFinalBlocks
  <1>1. ReadsInv => YieldOfFinalBlocks
    BY YieldTold DEF ReadsInv
  <1> QED BY <1>1, ReadsInvariant, PTL

=============================================================================
