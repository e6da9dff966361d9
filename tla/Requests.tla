------------------------------ MODULE Requests ------------------------------
(***************************************************************************)
(* The request checks that the read endpoints share                        *)
(* (src/adapters/http/{json_body,validation,dto/..}.rs), in the order in   *)
(* which the code makes them: the first one that fails is the answer.      *)
(*                                                                         *)
(* A request is what the JSON holds of interest.  A field is the set of    *)
(* its value: {} when it is absent, or has the wrong JSON type and that    *)
(* makes no difference.  "known" says that an object has no field outside  *)
(* its list, "typed" that its optional fields are texts.                   *)
(***************************************************************************)
EXTENDS Lists

(* A text that is no slug, address, number or timestamp.                   *)
OddText == "?"

(* An address is written in lower case, with upper-case digits, or is not  *)
(* an EVM address at all.                                                  *)
Forms == {"lower", "upper", "odd"}

Lower(address) ==
    IF address.form = "upper" THEN [address EXCEPT !.form = "lower"]
    ELSE address

IsEvmAddress(address) == address.form # "odd"

IsAssetSlug(slug) == slug # OddText

MapSeq(s, Op(_)) == [i \in DOMAIN s |-> Op(s[i])]

(* A check: the Option of the code it answers with.                        *)
Fail(failed, code) == IF failed THEN {code} ELSE {}

(* Of a sequence of checks, the first one that fails.                      *)
FirstError(checks) ==
    LET failed == {i \in DOMAIN checks : checks[i] # {}} IN
    IF failed = {} THEN {}
    ELSE checks[CHOOSE i \in failed : \A j \in failed : i <= j]

AccountError(account, supported) ==
    FirstError(<<
      Fail(~ account.known, "unknown_field"),
      Fail(account.network_slug = {}, "missing_network_slug"),
      Fail(~ account.network_slug \subseteq supported, "unsupported_network"),
      Fail(~ \E a \in account.address : IsEvmAddress(a), "invalid_address"),
      Fail(~ account.client_ref_valid, "invalid_request") >>)

(* validate_as_of_object, then AsOf::try_from; the text of a timestamp or  *)
(* a block number is readable or is OddText.                               *)
AsOfObjectError(as_of) ==
    FirstError(<<
      Fail(~ as_of.known, "unknown_field"),
      Fail(as_of.kind = {}, "invalid_request"),
      Fail(~ as_of.typed, "invalid_request") >>)

AsOfError(as_of) ==
    LET Only(field, other) ==
          other = {} /\ \E text \in field : text # OddText IN
    CASE as_of.kind = {"latest"} ->
           IF as_of.timestamp = {} /\ as_of.block_number = {} THEN {}
           ELSE {"invalid_request"}
      [] as_of.kind = {"timestamp"} ->
           IF Only(as_of.timestamp, as_of.block_number) THEN {}
           ELSE {"invalid_request"}
      [] as_of.kind = {"block_number"} ->
           IF Only(as_of.block_number, as_of.timestamp) THEN {}
           ELSE {"invalid_request"}
      [] OTHER -> {"unsupported_as_of"}

SelectorError(tokens) ==
    FirstError(<<
      Fail(~ tokens.known, "unknown_field"),
      Fail(\E s \in ToSet(tokens.asset_slugs) : ~ IsAssetSlug(s),
           "invalid_asset_slug"),
      Fail(\E a \in ToSet(tokens.contract_addresses) : ~ IsEvmAddress(a),
           "invalid_contract_address") >>)

(* The elements of a sequence at some of its positions, in order.          *)
Nth(positions, k) ==
    CHOOSE i \in positions : Cardinality({j \in positions : j <= i}) = k

Selected(s, positions) ==
    [k \in 1..Cardinality(positions) |-> s[Nth(positions, k)]]

(* In order, each element once.                                            *)
Deduplicated(s) ==
    Selected(s, {i \in DOMAIN s : \A j \in 1..(i - 1) : s[j] # s[i]})

=============================================================================
