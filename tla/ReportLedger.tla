----------------------------- MODULE ReportLedger -----------------------------
(***************************************************************************)
(* What Mother promises about asynchronous reports (CONTRACTS.md, SPEC-    *)
(* 035): an idempotency key of an account names one report for ever, the   *)
(* report moves from accepted over running to one final outcome and stays  *)
(* there, and nobody is told anything that the ledger does not say.        *)
(***************************************************************************)
EXTENDS Integers

CONSTANTS Slots,      \* an account and one of its idempotency keys
          Ids,        \* report identifiers
          Requests,   \* canonical requests
          Bodies,     \* the final reports Bigwig may deliver
          Failed      \* the outcome of an execution that failed

Open     == {"accepted", "running"}
Outcomes == Bodies \union {Failed}

Report == [id : Ids, request : Requests, state : Open \union Outcomes]

VARIABLES ledger,     \* the report each slot in use names
          receipts,   \* the reports clients were told were accepted
          outcomes    \* the outcomes Bigwig was told were recorded

vars == <<ledger, receipts, outcomes>>

(* A client learns which report its key and request name; Bigwig learns    *)
(* what the final state of a report is.                                    *)
Truthful ==
    /\ receipts \subseteq receipts'
    /\ \A x \in receipts' \ receipts :
          /\ x.slot \in DOMAIN ledger'
          /\ x.id = ledger'[x.slot].id
          /\ x.request = ledger'[x.slot].request
    /\ outcomes \subseteq outcomes'
    /\ \A x \in outcomes' \ outcomes :
          \E slot \in DOMAIN ledger' :
             ledger'[slot].id = x.id /\ ledger'[slot].state = x.outcome

Init ==
    /\ ledger = [slot \in {} |-> Failed]
    /\ receipts = {}
    /\ outcomes = {}

(* A fresh report, under an identifier never used before.                  *)
Create(slot, id, request) ==
    /\ slot \notin DOMAIN ledger
    /\ \A other \in DOMAIN ledger : ledger[other].id # id
    /\ ledger' = [s \in DOMAIN ledger \union {slot} |->
                    IF s = slot
                    THEN [id |-> id, request |-> request, state |-> "accepted"]
                    ELSE ledger[s]]

Move(slot, from, to) ==
    /\ ledger[slot].state \in from
    /\ ledger' = [ledger EXCEPT ![slot].state = to]

Next ==
    /\ \/ \E slot \in Slots, id \in Ids, request \in Requests :
             Create(slot, id, request)
       \/ \E slot \in DOMAIN ledger :
             \/ Move(slot, {"accepted"}, "running")
             \/ \E outcome \in Outcomes : Move(slot, Open, outcome)
       \/ UNCHANGED ledger
    /\ Truthful

Spec == Init /\ [][Next]_vars

=============================================================================
