---------------------------- MODULE AaveEvidence ----------------------------
(***************************************************************************)
(* Historical evidence for the Lab's studies: the block at or before a     *)
(* time (BlockResolver, src/application/portfolio_simulation.rs) and the   *)
(* income index of a reserve at a block (src/adapters/aave_v3/mod.rs),     *)
(* both read through Bigwig's archive RPC, one call after the other.  The  *)
(* chain is external: block n has the time chain[n + 1], and times never   *)
(* decrease.                                                               *)
(***************************************************************************)
EXTENDS ReadRequest, Bigwig, Calendar

CONSTANT IncomeIndex(_)     \* the income index of the reserve at a block

ASSUME ChainAssumption ==
    \A in \in Inputs : in.handler \in {"simulation", "yield"} =>
        /\ in.chain \in Seq(Nat) /\ in.chain # <<>>
        /\ \A m, n \in DOMAIN in.chain : m <= n => in.chain[m] <= in.chain[n]

(***************************************************************************)
(* The Lab's forms: a browser session whose account has lab.read, and a    *)
(* CSRF token (src/adapters/http/data_lab.rs).                             *)
(***************************************************************************)
LabAnswer(status, error) ==
    /\ answer' = [status |-> status, error |-> {error}, body |-> {}]
    /\ pc' = "answered"
    /\ UNCHANGED local

LabAccount ==
    AnyPermits(grants.owner_grants, NetworkRequest("lab_read", AnyNetwork))

(* browser_account and csrf_valid: the ways to be turned away.             *)
LabRefusal ==
    \/ input.principal /\ LabAnswer(503, "unavailable")
    \/ ~ input.principal /\ LabAnswer(303, "login")
    \/ input.principal /\ ~ LabAccount /\ LabAnswer(403, "forbidden")
    \/ /\ input.principal /\ LabAccount /\ ~ input.request.csrf_valid
       /\ LabAnswer(403, "forbidden")

LabAdmits == input.principal /\ LabAccount /\ input.request.csrf_valid

(***************************************************************************)
(* Blocks.                                                                 *)
(***************************************************************************)
Block(n) == [number |-> n, epoch_seconds |-> input.chain[n + 1]]

HeadBlock == Block(Len(input.chain) - 1)

(* Where the next probe of the bracket goes.                               *)
InterpolatedBlockNumber(target, low, high) ==
    LET block_span == high.number - low.number
        time_span == high.epoch_seconds - low.epoch_seconds
        Clamp(x, least, most) == IF x < least THEN least
                                 ELSE IF x > most THEN most ELSE x
        offset == Clamp(target - low.epoch_seconds, 0, time_span)
    IN IF time_span <= 0 THEN low.number + block_span \div 2
       ELSE Clamp(low.number + (offset * block_span) \div time_span,
                  low.number + 1, high.number - 1)

(* Mutant: a block of exactly the wanted time counts as too late.          *)
BracketBefore(resolver, target, genesis) ==
    LET before == {b \in resolver.cache : b.epoch_seconds < target} \union {genesis}
        after == {b \in resolver.cache : b.epoch_seconds >= target} \union resolver.head
    IN [low |-> CHOOSE b \in before : \A c \in before : c.number <= b.number,
        high |-> CHOOSE b \in after : \A c \in after : b.number <= c.number]

(* The tightest bracket that the blocks seen so far give; the last one     *)
(* resolved is among them.                                                 *)
Bracket(resolver, target, genesis) ==
    LET before == {b \in resolver.cache : b.epoch_seconds <= target} \union {genesis}
        after == {b \in resolver.cache : b.epoch_seconds > target} \union resolver.head
    IN [low |-> CHOOSE b \in before : \A c \in before : c.number <= b.number,
        high |-> CHOOSE b \in after : \A c \in after : b.number <= c.number]

NewResolver == [head |-> {}, cache |-> {}, low |-> {}, high |-> {}]

(***************************************************************************)
(* archive_rpc: what a call may bring - its result, a JSON-RPC error, an   *)
(* unreadable body, an error of the gateway, nothing - and what is left of *)
(* it.                                                                     *)
(***************************************************************************)
RpcReplies(result) ==
    {Success(result), [Success(result) EXCEPT !.code = {"rpc"}], Unreadable(200),
     ErrorReply(502, "rpc_error"), Lost("timeout")}

RpcResult(reply) == IF RpcError(reply) = {} THEN reply.body ELSE {}

(* income_index_at: the index, {} when it cannot be had.  A zero is no     *)
(* index.                                                                  *)
ReserveOf(protocol, asset_slug) ==
    {r \in protocol.reserves : r.asset_slug = asset_slug}

IndexReplies(block_number) ==
    RpcReplies(IncomeIndex(block_number)) \union {Success(0)}

IncomeIndexAt(protocol, asset_slug, block_number, reply) ==
    IF block_number # 0 /\ ReserveOf(protocol, asset_slug) # {}
    THEN RpcResult(reply) \ {0} ELSE {}

=============================================================================
