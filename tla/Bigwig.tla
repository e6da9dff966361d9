------------------------------- MODULE Bigwig -------------------------------
(***************************************************************************)
(* The Bigwig client (src/adapters/bigwig): what a call returns for each   *)
(* thing the gateway can send back, and what the balance and transfer      *)
(* services make of its errors.                                            *)
(*                                                                         *)
(* A reply is a lost call ("timeout", "transport") or an HTTP status with  *)
(* a body: the decoded document of a success, or the code of the error     *)
(* envelope, {} when the body cannot be decoded.                           *)
(***************************************************************************)
EXTENDS Integers

Lost(error) == [status |-> 0, code |-> {error}, body |-> {}]

ErrorReply(status, code) == [status |-> status, code |-> {code}, body |-> {}]

Unreadable(status) == [status |-> status, code |-> {}, body |-> {}]

Success(document) == [status |-> 200, code |-> {}, body |-> {document}]

RequestValidation == {"malformed_body", "empty_accounts", "empty_targets",
    "invalid_account", "duplicate_account", "invalid_target",
    "duplicate_target", "request_too_large"}

InvalidExtraction == {"invalid_extraction_request", "invalid_address",
    "invalid_contract_address", "invalid_direction", "invalid_window_shape",
    "invalid_as_of"}

Unprocessable == {"network_not_enabled_for_operation",
    "no_route_satisfies_operation", "reversed_block_range",
    "block_out_of_range", "reversed_timestamp_range",
    "timestamp_anchor_not_configured", "timestamp_out_of_range",
    "lookback_too_large", "range_too_large", "too_many_contract_addresses"}

(* The codes the error contract knows, by status.                          *)
ErrorContract ==
    ({400} \X (RequestValidation \union InvalidExtraction))
      \union ({422} \X Unprocessable)
      \union ({504} \X {"provider_timeout", "extraction_timeout"})
      \union {<<401, "unauthorized">>, <<404, "unsupported_network">>,
              <<429, "gateway_rate_limited">>, <<502, "rpc_error">>,
              <<503, "provider_unavailable">>, <<500, "internal_error">>}

MapErrorResponse(reply) ==
    CASE reply.code = {} -> "malformed_error_response"
      [] \E code \in reply.code : <<reply.status, code>> \in ErrorContract ->
           CHOOSE code \in reply.code : TRUE
      [] OTHER -> "unexpected_error_response"

(* balances and search_erc20_transfers: the error of a call, {} when the   *)
(* document was decoded.                                                   *)
CallError(reply) ==
    CASE reply.status = 0 -> reply.code
      [] reply.status = 200 ->
           IF reply.body = {} THEN {"malformed_success_response"} ELSE {}
      [] reply.status \in 201..299 -> {"unexpected_success_status"}
      [] OTHER -> {MapErrorResponse(reply)}

(* archive_rpc: any success status will do; a JSON-RPC error or a document *)
(* without a result does not.                                              *)
RpcError(reply) ==
    IF reply.status = 0 THEN reply.code
    ELSE IF reply.status \in 200..299
    THEN IF reply.body = {} THEN {"malformed_success_response"} ELSE reply.code
    ELSE {MapErrorResponse(reply)}

(* map_bigwig_error (src/application/balances/service.rs).                 *)
MapBigwigError(error) ==
    CASE error \in {"unsupported_network", "network_not_enabled_for_operation",
                    "no_route_satisfies_operation", "block_out_of_range",
                    "timestamp_anchor_not_configured",
                    "timestamp_out_of_range", "rpc_error"} ->
           "balance_resolution_failed"
      [] error \in {"transport", "timeout", "unauthorized",
                    "gateway_rate_limited", "provider_unavailable",
                    "extraction_timeout", "provider_timeout",
                    "internal_error"} ->
           "balance_provider_unavailable"
      [] OTHER -> "internal_error"

(* create_bigwig_client: a URL and a token, both usable.                   *)
CreateBigwigClient(config) ==
    config.url /\ config.token /\ config.usable /\ config.timeout_ms > 0

=============================================================================
