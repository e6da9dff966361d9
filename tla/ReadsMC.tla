------------------------------ MODULE ReadsMC ------------------------------
(***************************************************************************)
(* Reads on a catalog of two networks: the requests for each endpoint, the *)
(* grants and the client configurations, and what the services hold.       *)
(***************************************************************************)
EXTENDS Reads

Eth == "eth-mainnet"

Base == "base-mainnet"

Texts == <<"base-mainnet", "btc", "dai", "eth", "eth-mainnet", "ethereum",
           "punk", "usdc", "wbtc">>

MCPrecedes(l, r) ==
    \E i, j \in DOMAIN Texts : i < j /\ Texts[i] = l /\ Texts[j] = r

MCMentions(text, query) == text = query

Address(id) == [id |-> id, form |-> "lower"]

(***************************************************************************)
(* Catalogs.                                                               *)
(***************************************************************************)
Asset(slug, aliases) ==
    [slug |-> slug, symbol |-> slug, name |-> slug, aliases |-> aliases,
     status |-> "active", sort_order |-> 1, wellformed |-> TRUE]

Network(slug, id) ==
    [slug |-> slug, family |-> "evm", chain_id |-> {id}, caip2 |-> {id},
     status |-> "active", sort_order |-> 1, wellformed |-> TRUE]

Native(asset, network) ==
    [asset_slug |-> asset, network_slug |-> network, is_native |-> TRUE,
     deployment_address |-> {}, deployment_block |-> {}, decimals |-> {1},
     token_standard |-> "native", status |-> "active", sort_order |-> 1,
     wellformed |-> TRUE]

Token(asset, network, id, standard) ==
    [asset_slug |-> asset, network_slug |-> network, is_native |-> FALSE,
     deployment_address |-> {Address(id)}, deployment_block |-> {1},
     decimals |-> {2}, token_standard |-> standard, status |-> "active",
     sort_order |-> 1, wellformed |-> TRUE]

(* The contract 11 is USDC on one network and DAI on the other.            *)
Catalog ==
    [version |-> 3,
     assets |-> <<Asset("usdc", <<>>), Asset("ethereum", <<"eth">>),
                  Asset("dai", <<>>), Asset("punk", <<>>)>>,
     networks |-> <<Network(Eth, 1), Network(Base, 2)>>,
     maps |-> <<Native("ethereum", Eth), Native("ethereum", Base),
                Token("usdc", Eth, 11, "erc20"), Token("usdc", Base, 12, "erc20"),
                Token("dai", Base, 11, "erc20"), Token("punk", Eth, 13, "erc721")>>]

(* Catalogs with one entry wrong: the first six would start with two       *)
(* entries for one key.                                                    *)
FlawedCatalogs ==
    {[Catalog EXCEPT !.maps = Append(@, Token("dai", Eth, 11, "erc20"))],
     [Catalog EXCEPT !.maps = Append(@, Native("dai", Eth))],
     [Catalog EXCEPT !.maps = Append(@, Token("ethereum", Eth, 14, "erc20"))],
     [Catalog EXCEPT !.assets = Append(@, Asset("usdc", <<>>))],
     [Catalog EXCEPT !.assets = Append(@, Asset("eth", <<>>))],
     [Catalog EXCEPT !.networks = Append(@, Network(Eth, 3))],
     [Catalog EXCEPT !.version = 2],
     [Catalog EXCEPT !.networks[1].caip2 = {9}],
     [Catalog EXCEPT !.maps[3].deployment_block = {}],
     [Catalog EXCEPT !.maps[3].asset_slug = "gone"]}

(* Valid catalogs in which an entry is no longer active.                   *)
RetiredCatalogs ==
    {[Catalog EXCEPT !.maps[3].status = "deprecated"],
     [Catalog EXCEPT !.assets[1].status = "hidden"],
     [Catalog EXCEPT !.networks[2].status = "inactive"]}

(* One more asset, so that the assets of a network and of a list take two  *)
(* chunks, and USDC with other decimals on the other network.              *)
LargeCatalog ==
    [Catalog EXCEPT
       !.assets = Append(@, [Asset("wbtc", <<"btc">>) EXCEPT !.sort_order = 0]),
       !.maps = <<Native("ethereum", Eth), Token("usdc", Eth, 11, "erc20"),
                  [Token("usdc", Base, 12, "erc20") EXCEPT !.decimals = {0}],
                  Token("dai", Eth, 14, "erc20"), Token("wbtc", Eth, 15, "erc20")>>]

(* A single asset, for members that take two chunks.                       *)
SmallCatalog ==
    [Catalog EXCEPT !.assets = <<Asset("usdc", <<>>)>>,
                    !.maps = <<Token("usdc", Eth, 11, "erc20")>>]

(***************************************************************************)
(* Protocols.                                                              *)
(***************************************************************************)
Pool == [key |-> "pool", kind |-> "pool", asset_slug |-> {}, address |-> Address(20),
         enabled |-> TRUE, verified |-> TRUE, wellformed |-> TRUE]

Reserve(asset, id) ==
    [Pool EXCEPT !.key = asset, !.kind = "reserve", !.asset_slug = {asset},
                 !.address = Address(id)]

Aave == [slug |-> "aave-v3", network_slug |-> Eth, wellformed |-> TRUE,
         enabled |-> TRUE, verified |-> TRUE, adapter_kind |-> "aave_v3_realized_yield",
         adapter_version |-> "v1", targets |-> <<Pool, Reserve("usdc", 11)>>]

Declared(declarations) == [version |-> 1, protocols |-> declarations]

NoProtocols == Declared(<<>>)

(* Declarations with one thing wrong.                                      *)
FlawedProtocols ==
    {[Declared(<<Aave>>) EXCEPT !.version = 2], Declared(<<Aave, Aave>>)}
      \union {Declared(<<d>>) : d \in
        {[Aave EXCEPT !.targets[2].address = Address(12)],
         [Aave EXCEPT !.network_slug = Base], [Aave EXCEPT !.enabled = FALSE],
         [Aave EXCEPT !.targets = <<Pool>>], [Aave EXCEPT !.targets = Append(@, Pool)],
         [Aave EXCEPT !.adapter_version = "v2"]}}

(***************************************************************************)
(* Requests for balances.                                                  *)
(***************************************************************************)
Latest == [known |-> TRUE, typed |-> TRUE, kind |-> {"latest"}, timestamp |-> {},
           block_number |-> {}]

Account(network, id) ==
    [known |-> TRUE, network_slug |-> {network}, address |-> {Address(id)},
     client_ref_valid |-> TRUE]

Tokens(slugs, contracts) ==
    [known |-> TRUE, asset_slugs |-> slugs, contract_addresses |-> contracts]

BulkRequest(accounts, tokens) ==
    [kind |-> "bulk", json |-> TRUE, reserved_alias |-> FALSE, known |-> TRUE,
     as_of |-> {Latest}, accounts |-> {accounts}, quote_currency |-> {"USD"},
     tokens |-> {tokens}, tokens_object |-> TRUE]

Two == <<Account(Base, 1), Account(Eth, 1)>>

Simple == BulkRequest(Two, Tokens(<<"usdc">>, <<>>))

(* Accounts of two networks, mixed, and tokens that the networks have in   *)
(* common, that one lacks, and that only the contract names.               *)
FullRequests ==
    {BulkRequest(<<Account(Eth, 1), Account(Eth, 2)>>, Tokens(<<"usdc", "ethereum">>, <<>>)),
     BulkRequest(<<Account(Base, 2), Account(Eth, 1), Account(Base, 1)>>,
           Tokens(<<"usdc", "ethereum">>, <<>>)),
     BulkRequest(Two, Tokens(<<"dai">>, <<Address(11)>>)),
     [BulkRequest(<<Account(Eth, 2)>>, Tokens(<<"punk", "usdc">>, <<Address(11)>>))
        EXCEPT !.kind = "single"],
     [BulkRequest(<<Account(Eth, 2)>>,
            Tokens(<<"ethereum">>, <<[id |-> 15, form |-> "upper"]>>))
        EXCEPT !.kind = "single", !.quote_currency = {"mxn"}]}

SmallRequests ==
    {Simple,
     BulkRequest(<<Account(Eth, 1)>>, Tokens(<<"punk">>, <<>>)),
     BulkRequest(<<Account(Eth, 1)>>, Tokens(<<"gone">>, <<>>)),
     [Simple EXCEPT !.as_of = {[Latest EXCEPT !.kind = {"block_number"},
                                              !.block_number = {"1"}]}]}

BadRequests ==
    {[Simple EXCEPT !.json = FALSE], [Simple EXCEPT !.reserved_alias = TRUE],
     [Simple EXCEPT !.known = FALSE], [Simple EXCEPT !.as_of = {}],
     [Simple EXCEPT !.as_of = {[Latest EXCEPT !.kind = {OddText}]}],
     [Simple EXCEPT !.as_of = {[Latest EXCEPT !.kind = {"timestamp"}]}],
     [Simple EXCEPT !.as_of = {[Latest EXCEPT !.timestamp = {"now"}]}],
     [Simple EXCEPT !.accounts = {}], [Simple EXCEPT !.accounts = {<<>>}],
     [Simple EXCEPT !.accounts = {<<Account("other", 1)>>}],
     [Simple EXCEPT !.accounts = {<<Account(Eth, 1), Account(Eth, 1)>>}],
     [Simple EXCEPT !.accounts = {[i \in 1..4 |-> Account(Eth, i)]}],
     [Simple EXCEPT !.quote_currency = {}],
     [Simple EXCEPT !.quote_currency = {"EUR"}],
     [Simple EXCEPT !.as_of = {[Latest EXCEPT !.kind = {OddText}, !.typed = FALSE]}],
     [Simple EXCEPT !.tokens = {}],
     [Simple EXCEPT !.tokens = {}, !.tokens_object = FALSE],
     [Simple EXCEPT !.tokens = {Tokens(<<>>, <<>>)}],
     [Simple EXCEPT !.tokens = {Tokens(<<"usdc", "usdc">>, <<>>)}],
     [Simple EXCEPT !.tokens = {Tokens(<<OddText>>, <<>>)}]}

(***************************************************************************)
(* Grants and clients.                                                     *)
(***************************************************************************)
Grant(capability, scope) ==
    [capability |-> capability, network_scope |-> scope, status |-> "active"]

GrantsOf(capability) ==
    [owner_grants |-> {Grant(capability, AnyNetwork)}, client_grants |-> {},
     key_grants |-> {Grant(capability, AnyNetwork)}]

(* An agent key of a client that may only read one network.                *)
OneNetwork(capability) ==
    [owner_grants |-> {Grant(capability, AnyNetwork)},
     client_grants |-> {{Grant(capability, Base)}},
     key_grants |-> {Grant(capability, Eth), Grant(capability, Base)}]

(* An account with a grant for each network.                               *)
EachNetwork == [owner_grants |-> {Grant("balances_read", Eth), Grant("balances_read", Base)},
                client_grants |-> {}, key_grants |-> {}]

NoGrants == [owner_grants |-> {}, client_grants |-> {}, key_grants |-> {}]

Configured == [url |-> TRUE, token |-> TRUE, usable |-> TRUE, timeout_ms |-> 1]

Clients == [bigwig |-> Configured, prices |-> Configured]

NoBigwig == [Clients EXCEPT !.bigwig.token = FALSE]

NoPriceIndexer == [Clients EXCEPT !.prices.url = FALSE]

Input(handler, catalog, principal, g, request) ==
    [handler |-> handler, catalog |-> catalog, protocols |-> NoProtocols,
     clients |-> Clients, principal |-> principal, grants |-> g, request |-> request,
     chain |-> <<>>, daily_price |-> <<>>, point_kinds |-> {}]

With(input_, clients) == [input_ EXCEPT !.clients = clients]

BalanceInput(catalog, principal, g, request) ==
    Input("balances", catalog, principal, g, request)

BalanceInputs ==
    {BalanceInput(Catalog, TRUE, g, r) :
       g \in {GrantsOf("balances_read"), OneNetwork("balances_read")}, r \in FullRequests}
      \union {BalanceInput(Catalog, FALSE, GrantsOf("balances_read"), r) :
                r \in SmallRequests \union BadRequests}
      \union {BalanceInput(c, FALSE, GrantsOf("balances_read"),
                           BulkRequest(<<Account(Eth, 1), Account(Base, 1)>>,
                                       Tokens(<<"usdc", "dai">>, <<>>))) :
                c \in FlawedCatalogs \union RetiredCatalogs}
      \union {With(BalanceInput(Catalog, FALSE, NoGrants, Simple), c) :
                c \in {NoBigwig, NoPriceIndexer}}

(***************************************************************************)
(* Searches for transfers.                                                 *)
(***************************************************************************)
Time(month, day, hour, fraction, sign) ==
    [year |-> 1972, month |-> month, day |-> day, hour |-> hour, minute |-> 0,
     second |-> 0, fraction |-> fraction,
     offset |-> [sign |-> sign, hours |-> 2, minutes |-> 30]]

Between(from, to) == [from_timestamp |-> {from}, to_timestamp |-> {to}]

Blocks(from, to) == [from_block |-> {from}, to_block |-> {to}]

Search(window) ==
    [json |-> TRUE, known |-> TRUE, account |-> {Account(Eth, 1)}, direction |-> "any",
     tokens_object |-> TRUE, tokens |-> {}, window |-> {window}]

Filtered(slugs, contracts) ==
    [Search(Blocks(1, 2)) EXCEPT !.tokens = {Tokens(slugs, contracts)}]

(* Around the ends of February and of a day, with offsets and fractions.   *)
Times == {Time(2, 28, 23, <<5>>, 1), Time(2, 29, 1, <<0, 5>>, -1), Time(2, 29, 23, <<>>, 1),
          Time(3, 1, 1, <<5, 0>>, 1), Time(3, 1, 1, <<5>>, 1), Time(3, 1, 1, <<4, 9>>, 1),
          Time(2, 30, 1, <<>>, 1), Time(3, 1, 24, <<>>, 1)}

OddWindows ==
    {Blocks(2, 1), [from_block |-> {1}], [from_block |-> {1}, to |-> "latest"],
     [lookback_seconds |-> {5}, to |-> "latest"],
     [lookback_seconds |-> {0}, to |-> "latest"],
     [from_block |-> {1}, to_block |-> {2}, other |-> {1}]}

SearchInputs ==
    LET All(r) == Input("transfers", Catalog, FALSE, NoGrants, r) IN
    {Input("transfers", Catalog, TRUE, g, r) :
       g \in {GrantsOf(Erc20TransfersRead), OneNetwork(Erc20TransfersRead)},
       r \in {Filtered(<<"usdc">>, <<[id |-> 11, form |-> "upper"], Address(14)>>)}}
      \union {All(Search(Between(from, to))) : from, to \in Times}
      \union {All(Search(w)) : w \in OddWindows}
      \union {All(Filtered(f[1], f[2])) :
                f \in {<<<<"ethereum">>, <<>>>>, <<<<"dai">>, <<>>>>, <<<<"gone">>, <<>>>>,
                       <<<<"punk">>, <<>>>>, <<<<>>, <<Address(14), Address(11)>>>>,
                       <<<<"usdc">>, <<Address(14), Address(16)>>>>}}
      \union {[All(Search(Blocks(1, 2))) EXCEPT !.catalog = c] : c \in RetiredCatalogs}
      \union {With(All(Search(Blocks(1, 2))), NoBigwig)}
      \union {All([Search(Blocks(1, 2)) EXCEPT !.direction = "up"]),
              All([Search(Blocks(1, 2)) EXCEPT !.account = {Account(Base, 1)}])}

(* A row of a known and of an unknown contract, in and out.                *)
Row(id, token, from, to, value) ==
    [id |-> id, token |-> [id |-> token, form |-> "upper"], from |-> Address(from),
     to |-> Address(to), value |-> value]

MCTransferRows ==
    {<<>>, <<Row(1, 11, 1, 2, <<1, 2, 0>>), Row(2, 14, 2, 1, <<5>>), Row(3, 13, 2, 3, <<7>>)>>,
     <<Row(2, 11, 1, 1, <<0>>), Row(1, 11, 3, 1, <<>>)>>}

(***************************************************************************)
(* Assets.                                                                 *)
(***************************************************************************)
List(limit) == [kind |-> "list", limit |-> limit]

Detail(kind, slug, include, window, granularity) ==
    [kind |-> kind, slug |-> slug, include |-> include, quote_currency |-> {},
     window |-> window, granularity |-> granularity]

Question(q) == [kind |-> "resolve", q |-> q]

AssetRequests ==
    {List(l) : l \in {{}, {0}, {2}, {9}}}
      \union {Detail(k, s, <<"stats", "series", "stats", "other">>, {}, {}) :
                k \in {"detail", "signal"}, s \in {"usdc", "gone"}}
      \union {Detail(k, "usdc", <<"trend">>, {"30d"}, {"5m"}) : k \in {"detail", "signal"}}
      \union {[Detail("detail", "usdc", <<>>, {}, {}) EXCEPT !.quote_currency = {"EUR"}]}
      \union {Question(q) : q \in {{}} \union
                {{[text |-> t, length |-> n]} : t \in {"usdc", "eth", "zzz"}, n \in {0, 3, 9}}}

AssetInputs ==
    {With(Input("assets", LargeCatalog, FALSE, NoGrants, r), c) :
       r \in AssetRequests, c \in {Clients, NoPriceIndexer}}
      \union {Input("assets", c, FALSE, NoGrants, Detail("detail", "usdc", <<>>, {}, {})) :
                c \in RetiredCatalogs}

(***************************************************************************)
(* Portfolios.                                                             *)
(***************************************************************************)
Member(network, id) ==
    [public_id |-> <<network, id>>, network_slug |-> network, address |-> Address(id)]

Members(members) == [owned |-> TRUE, members |-> members]

PortfolioInputs ==
    LET In(catalog, g, r) == Input("portfolio", catalog, TRUE, g, r)
        Both == Members(<<Member(Eth, 2), Member(Base, 1)>>)
    IN {In(LargeCatalog, g, Both) : g \in {GrantsOf("balances_read"), EachNetwork, NoGrants}}
         \union {In(SmallCatalog, EachNetwork,
                    Members([i \in 1..4 |-> Member(Eth, 5 - i)])),
                 In(SmallCatalog, EachNetwork, Members(<<>>)),
                 In(SmallCatalog, EachNetwork, Members(<<Member(Base, 1)>>)),
                 In(SmallCatalog, EachNetwork, [Both EXCEPT !.owned = FALSE]),
                 With(In(LargeCatalog, EachNetwork, Both), NoBigwig),
                 With(In(SmallCatalog, EachNetwork, Both), NoPriceIndexer)}

(***************************************************************************)
(* The Lab.                                                                *)
(***************************************************************************)
Date(month, day) == [year |-> 1972, month |-> month, day |-> day]

Form(strategy, start, end) ==
    [csrf_valid |-> TRUE, initial_capital |-> {3}, quote_currency |-> "USD",
     start_date |-> {start}, end_date |-> {end}, strategy |-> strategy]

Leap == Form("eth", Date(2, 28), Date(3, 1))

BadForms ==
    {[Leap EXCEPT !.csrf_valid = FALSE], [Leap EXCEPT !.initial_capital = {}],
     [Leap EXCEPT !.initial_capital = {0}], [Leap EXCEPT !.quote_currency = "EUR"],
     [Leap EXCEPT !.start_date = {}], [Leap EXCEPT !.strategy = "doge"],
     Form("btc", Date(2, 30), Date(3, 1)), Form("btc", Date(3, 1), Date(2, 28)),
     Form("btc", Date(2, 27), Date(3, 1))}

(* The second 0 of 28 February 1972.                                       *)
Day1 == DayNumber(Date(2, 28)) * 86400

(* Blocks with even, equal and uneven times; a chain that ends early, one  *)
(* that starts late, and one of a single block.                            *)
Chains ==
    {<<Day1 - 90, Day1 - 50, Day1, Day1, Day1 + 43200, Day1 + 86400, Day1 + 86401,
       Day1 + 86402, Day1 + 172799, Day1 + 259200, Day1 + 259201>>,
     [i \in 1..8 |-> Day1 - 172800 + 86400 * i],
     <<Day1 - 9, Day1 - 8, Day1 + 1>>, <<Day1 + 1, Day1 + 2>>, <<Day1 - 9>>}

LabInput(handler, request) ==
    [Input(handler, Catalog, TRUE, GrantsOf("lab_read"), request)
       EXCEPT !.protocols = Declared(<<Aave>>), !.chain = CHOOSE c \in Chains : Len(c) = 11,
              !.daily_price = <<4, 8, 6, 5>>, !.point_kinds = {"observed"}]

Kinds4 == {"observed", "carried", "none", "absent"}

SimulationInputs ==
    {LabInput("simulation", r) : r \in BadForms}
      \union {[LabInput("simulation", r) EXCEPT !.point_kinds = Kinds4] :
                r \in {Leap, Form("btc", Date(2, 29), Date(2, 29))}}
      \union {[LabInput("simulation", [Leap EXCEPT !.strategy = "aave"])
                 EXCEPT !.chain = c, !.point_kinds = {"observed", "carried"}] : c \in Chains}
      \union {With(LabInput("simulation", [Leap EXCEPT !.strategy = "aave"]), c) :
                c \in {NoBigwig, NoPriceIndexer}}
      \union {[LabInput("simulation", [Leap EXCEPT !.strategy = "aave"])
                 EXCEPT !.protocols = NoProtocols],
              [LabInput("simulation", Leap) EXCEPT !.principal = FALSE],
              [LabInput("simulation", Leap) EXCEPT !.grants = NoGrants]}

Study(from, to) ==
    [csrf_valid |-> TRUE, protocol_slug |-> "aave-v3", asset_slug |-> "usdc",
     from_block |-> {from}, to_block |-> {to}, annualized |-> TRUE]

Studies ==
    {Study(from, to) : from \in {0, 1, 2}, to \in {0, 2, 3, 4, 8, 9}}
      \union {[Study(1, 4) EXCEPT !.annualized = FALSE], [Study(1, 2) EXCEPT !.from_block = {}],
              [Study(1, 2) EXCEPT !.protocol_slug = "other"],
              [Study(1, 2) EXCEPT !.asset_slug = "dai"],
              [Study(1, 2) EXCEPT !.csrf_valid = FALSE]}

YieldInputs ==
    {LabInput("yield", r) : r \in Studies}
      \union {[LabInput("yield", Study(1, 2)) EXCEPT !.chain = c] : c \in Chains}
      \union {[LabInput("yield", Study(1, 2)) EXCEPT !.protocols = p] : p \in FlawedProtocols}
      \union {With(LabInput("yield", Study(1, 2)), NoBigwig)}

(***************************************************************************)
(* Values of the constants.                                                *)
(***************************************************************************)
MCInputs ==
    BalanceInputs \union SearchInputs \union AssetInputs \union PortfolioInputs
      \union SimulationInputs \union YieldInputs

(* Distinct for the accounts, networks and kinds of balance.               *)
MCHeld(network, address, kind) ==
    LET k == CHOOSE n \in {0} \union {a.id : a \in kind} : kind # {} => n # 0 IN
    <<address.id, IF network = Eth THEN 0 ELSE 5, k % 10>>

MCPriceOf(slug) ==
    IF slug = "ethereum" THEN [int |-> <<1, 2>>, frac |-> <<5>>]
    ELSE [int |-> <<0>>, frac |-> <<9, 0>>]

MCLatestPriceOf(slug) == slug

MCNormalizeQuery(text) == text

(* It falls once.                                                          *)
MCIncomeIndex(block_number) == IF block_number = 4 THEN 9 ELSE 10 + block_number

=============================================================================
