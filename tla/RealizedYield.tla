--------------------------- MODULE RealizedYield ---------------------------
(***************************************************************************)
(* The Lab's realized-yield study: the form                                *)
(* (src/adapters/http/data_lab.rs), the service                            *)
(* (src/application/defi_realized_yield.rs) and the Aave adapter           *)
(* (src/adapters/aave_v3/mod.rs).  The two indexes, and then the two       *)
(* times, are read by concurrent calls.                                    *)
(***************************************************************************)
EXTENDS AaveEvidence

CONSTANT MIN_CONFIRMATIONS

(* A block number is one or none.                                          *)
ASSUME StudyAssumption ==
    /\ MIN_CONFIRMATIONS \in Nat
    /\ \A in \in Inputs : in.handler = "yield" =>
         \A blocks \in {in.request.from_block, in.request.to_block} :
           blocks \subseteq Nat /\ \A b, c \in blocks : b = c

(* realized_yield_failure: the status of the page that is shown again.     *)
YieldFailure(error) ==
    CASE error = "protocol_unavailable" -> LabAnswer(404, error)
      [] error = "operation_unsupported" -> LabAnswer(422, error)
      [] error = "unsupported_asset" -> LabAnswer(400, error)
      [] error = "invalid_block_range" -> LabAnswer(400, error)
      [] error = "block_not_final" -> LabAnswer(422, error)
      [] OTHER -> LabAnswer(502, "unavailable")

YieldProtocol ==
    RealizedYieldProtocol(input.catalog, input.protocols, input.request.protocol_slug)

(* realized_yield_submit, Service::resolve and the check of the range.     *)
SubmitYield ==
    LET r == input.request IN
    /\ At("yield", "parse")
    /\ \/ LabRefusal
       \/ /\ LabAdmits
          /\ IF r.from_block = {} \/ r.to_block = {}
             THEN LabAnswer(400, "invalid_block_number")
             ELSE IF ~ CreateBigwigClient(input.clients.bigwig)
             THEN LabAnswer(503, "unavailable")
             ELSE IF YieldProtocol = {} THEN YieldFailure("protocol_unavailable")
             ELSE IF \E from \in r.from_block, to \in r.to_block :
                       from = 0 \/ to = 0 \/ from >= to
             THEN YieldFailure("invalid_block_range")
             ELSE Goto("head", [from |-> CHOOSE b \in r.from_block : TRUE,
                                to |-> CHOOSE b \in r.to_block : TRUE,
                                indexes |-> <<>>])
    /\ UNCHANGED <<input, grants>>

(* Mutant: the block itself counts as its first confirmation.              *)
LatestFinalInclusive(head) ==
    IF head < MIN_CONFIRMATIONS THEN 0 ELSE head - MIN_CONFIRMATIONS + 1

(* head.saturating_sub(min_confirmations).                                 *)
LatestFinal(head) ==
    IF head < MIN_CONFIRMATIONS THEN 0 ELSE head - MIN_CONFIRMATIONS

CheckFinality ==
    /\ At("yield", "head")
    /\ \E reply \in RpcReplies(HeadBlock.number) :
         IF RpcResult(reply) = {} THEN YieldFailure("provider")
         ELSE IF local.to > LatestFinal(HeadBlock.number)
         THEN YieldFailure("block_not_final")
         ELSE Goto("indexes", local)
    /\ UNCHANGED <<input, grants>>

(* try_join: the first failure ends the other call.                        *)
ReadIndexes ==
    LET protocol == CHOOSE p \in YieldProtocol : TRUE
        asset == input.request.asset_slug
    IN /\ At("yield", "indexes")
       /\ IF ReserveOf(protocol, asset) = {} THEN YieldFailure("unsupported_asset")
          ELSE \E from \in IndexReplies(local.from), to \in IndexReplies(local.to) :
                 LET f == IncomeIndexAt(protocol, asset, local.from, from)
                     t == IncomeIndexAt(protocol, asset, local.to, to)
                 IN IF f = {} \/ t = {} THEN YieldFailure("invalid_response")
                    ELSE Goto("times", [local EXCEPT !.indexes =
                                          <<CHOOSE i \in f : TRUE, CHOOSE i \in t : TRUE>>])
       /\ UNCHANGED <<input, grants>>

(* The yield to_index / from_index - 1, as a pair, and the annual rate     *)
(* when it is asked for and both times are there, the second later.        *)
YieldResult(times) ==
    LET from == local.indexes[1]
        to == local.indexes[2]
        asked == input.request.annualized
        elapsed == Len(times) = 2 /\ times[2] > times[1]
        protocol == CHOOSE p \in YieldProtocol : TRUE
    IN [realized_yield |-> <<to - from, from>>,
        underlying_asset_address |->
          {r.address : r \in ReserveOf(protocol, input.request.asset_slug)},
        times |-> IF asked /\ elapsed THEN times ELSE <<>>,
        annualized |-> asked /\ elapsed,
        warnings |-> (IF to < from THEN {"decreasing_income_index"} ELSE {})
                       \union (IF asked /\ ~ elapsed
                               THEN {"timestamp_lookup_failed"} ELSE {})]

ReadTimes ==
    /\ At("yield", "times")
    /\ IF ~ input.request.annualized THEN Respond(YieldResult(<<>>))
       ELSE \E from \in RpcReplies(Block(local.from)), to \in RpcReplies(Block(local.to)) :
              Respond(YieldResult(
                IF RpcResult(from) = {} \/ RpcResult(to) = {} THEN <<>>
                ELSE <<Block(local.from).epoch_seconds, Block(local.to).epoch_seconds>>))
    /\ UNCHANGED <<input, grants, local>>

YieldNext == SubmitYield \/ CheckFinality \/ ReadIndexes \/ ReadTimes

(***************************************************************************)
(* Properties.                                                             *)
(***************************************************************************)

(* resolve: a yield is only computed between two blocks that are at least  *)
(* min_confirmations below the head - none at all on a chain shorter than  *)
(* that - from the indexes at just those blocks, of the contract that the  *)
(* catalog has for the asset on the protocol's network; a fall of the      *)
(* index never goes without its warning, and no annual rate is claimed     *)
(* over a period of no or unknown length.                                  *)
YieldOfFinalBlocks ==
    input.handler = "yield" => \A body \in answer.body :
      \A from \in input.request.from_block, to \in input.request.to_block :
        /\ 0 < from /\ from < to /\ to + MIN_CONFIRMATIONS < Len(input.chain)
        /\ \E m \in ToSet(input.catalog.maps) :
             /\ m.asset_slug = input.request.asset_slug /\ m.status = "active"
             /\ body.underlying_asset_address = m.deployment_address
             /\ \E d \in ToSet(input.protocols.protocols) :
                  d.slug = input.request.protocol_slug /\ d.network_slug = m.network_slug
        /\ body.realized_yield = <<IncomeIndex(to) - IncomeIndex(from), IncomeIndex(from)>>
        /\ IncomeIndex(to) < IncomeIndex(from) =>
             "decreasing_income_index" \in body.warnings
        /\ body.annualized => Block(from).epoch_seconds < Block(to).epoch_seconds
        /\ input.request.annualized =>
             body.annualized # ("timestamp_lookup_failed" \in body.warnings)

=============================================================================
