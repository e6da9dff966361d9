----------------------------- MODULE AsyncReports -----------------------------
(***************************************************************************)
(* Asynchronous reports: the handlers of src/adapters/http/routes/         *)
(* reports.rs and the table behind them (src/adapters/postgres/            *)
(* async_reports.rs).  A client submits a report under an idempotency key; *)
(* Mother stores it, hands it off to Bigwig and marks it running.  Bigwig, *)
(* which is external, executes it and calls back with its outcome, perhaps *)
(* several times, perhaps before Mother has seen its reply.                *)
(*                                                                         *)
(* Submissions and callbacks are processes whose steps are the stretches   *)
(* between two awaits.  A statement may fail without effect or take effect *)
(* and yet be reported as failed, a reply of Bigwig may be lost, and any   *)
(* of the futures may be dropped where it stands.  Polling (get_report)    *)
(* reads one row and changes nothing.                                      *)
(***************************************************************************)
EXTENDS Integers, FiniteSets

CONSTANTS Submissions,   \* the calls of create_report
          Deliveries,    \* the calls of complete_report and fail_report
          Accounts,
          IdempotencyKeys,
          Definitions,   \* report types with their versions
          Catalog,       \* the definitions REPORTS registers
          Inputs,
          Bodies,        \* final reports
          Malformed,     \* an input or a report that is no JSON object
          Failed,        \* the outcome of fail_report
          NoRow          \* no row read yet

ASSUME ReportsAssumption ==
    /\ Catalog \subseteq Definitions
    /\ Failed \notin Bodies \union {"accepted", "running"}
    /\ Bodies \intersect {"accepted", "running"} = {}
    /\ Malformed \notin Inputs \union Bodies \union {Failed}

Slots    == Accounts \X IdempotencyKeys
Requests == [definition : Definitions, input : Inputs \union {Malformed}]
Outcomes == Bodies \union {Failed}

(* A row: its public_id (the submission that inserted it), the request its *)
(* digest stands for, and its status, which for a final row is the digest  *)
(* of the report or the failure.                                           *)
Row == [id : Submissions, request : Requests,
        state : {"accepted", "running"} \union Outcomes]

VARIABLES reports,     \* async_report: the row of each slot in use
          posted,      \* the executions Mother asked Bigwig for
          executing,   \* those Bigwig took responsibility for
          pc,          \* where each submission stands
          slot,        \* its account and idempotency key
          request,     \* what it asks for
          row,         \* the row it read or inserted
          answer,      \* what it was answered
          dpc,         \* where each delivery stands
          delivery,    \* what it delivers
          existing,    \* the row it read first
          reply        \* what it was answered

subVars == <<pc, slot, request, row, answer>>
delVars == <<dpc, delivery, existing, reply>>
vars    == <<reports, posted, executing, subVars, delVars>>

Answers == {"none", "accepted", "refused", "unsupported", "conflict",
            "execution_unavailable", "database_unavailable"}

Replies == {"none", "recorded", "refused", "unsupported", "conflict",
            "database_unavailable"}

SubmissionStages == {"idle", "insert", "select", "handoff", "await_bigwig",
                     "mark_running", "done", "dropped"}

DeliveryStages == {"idle", "find", "update", "reread", "done", "dropped"}

Delivery == [id : Submissions, definition : Definitions,
             outcome : Outcomes \union {Malformed}]

Final(state) == state \in Outcomes

(* lookup with validate_input or validate_report.                          *)
Supported(definition, value) == definition \in Catalog /\ value # Malformed

(* find: the public_id is unique.                                          *)
SlotOf(id) == CHOOSE s \in DOMAIN reports : reports[s].id = id

Init ==
    /\ reports = [s \in {} |-> NoRow]
    /\ posted = {} /\ executing = {}
    /\ pc = [s \in Submissions |-> "idle"]
    /\ slot = [s \in Submissions |-> <<>>]
    /\ request = [s \in Submissions |-> NoRow]
    /\ row = [s \in Submissions |-> NoRow]
    /\ answer = [s \in Submissions |-> "none"]
    /\ dpc = [d \in Deliveries |-> "idle"]
    /\ delivery = [d \in Deliveries |-> NoRow]
    /\ existing = [d \in Deliveries |-> NoRow]
    /\ reply = [d \in Deliveries |-> "none"]

(***************************************************************************)
(* create_report.                                                          *)
(***************************************************************************)

Answer(s, a) ==
    /\ pc' = [pc EXCEPT ![s] = "done"]
    /\ answer' = [answer EXCEPT ![s] = a]

Proceed(s, stage) ==
    /\ pc' = [pc EXCEPT ![s] = stage]
    /\ UNCHANGED answer

(* The key's account, the headers and the body are validated, the report   *)
(* is looked up in the catalog, and a database must be configured.         *)
Submit(s, sl, req) ==
    /\ pc[s] = "idle"
    /\ slot' = [slot EXCEPT ![s] = sl]
    /\ request' = [request EXCEPT ![s] = req]
    /\ \/ Answer(s, "refused")
       \/ IF Supported(req.definition, req.input)
          THEN Proceed(s, "insert") \/ Answer(s, "database_unavailable")
          ELSE Answer(s, "unsupported")
    /\ UNCHANGED <<reports, posted, executing, row, delVars>>

(* create_or_find, first statement: insert .. on conflict do nothing.  The *)
(* row may be stored although the submission sees an error.                *)
Insert(s) ==
    LET new == [id |-> s, request |-> request[s], state |-> "accepted"]
        stored == [x \in DOMAIN reports \union {slot[s]} |->
                     IF x = slot[s] THEN new ELSE reports[x]]
    IN  /\ pc[s] = "insert"
        /\ \/ /\ slot[s] \notin DOMAIN reports
              /\ reports' = stored
              /\ row' = [row EXCEPT ![s] = new]
              /\ Proceed(s, "handoff")
           \/ /\ slot[s] \in DOMAIN reports
              /\ Proceed(s, "select")
              /\ UNCHANGED <<reports, row>>
           \/ /\ \/ slot[s] \notin DOMAIN reports /\ reports' = stored
                 \/ UNCHANGED reports
              /\ Answer(s, "database_unavailable")
              /\ UNCHANGED row
        /\ UNCHANGED <<posted, executing, slot, request, delVars>>

(* Mutant: only the submission that created the row hands it off.          *)
SelectNeverResumes(s) ==
    LET found == reports[slot[s]]
    IN  /\ pc[s] = "select"
        /\ row' = [row EXCEPT ![s] = found]
        /\ IF found.request # request[s]
           THEN Answer(s, "conflict")
           ELSE Answer(s, "accepted")
        /\ UNCHANGED <<reports, posted, executing, slot, request, delVars>>

(* create_or_find, second statement, and what create_report makes of it: a *)
(* key reused for another request is refused, a report not yet running is  *)
(* handed off again, any other is answered at once.                        *)
Select(s) ==
    LET found == reports[slot[s]]
    IN  /\ pc[s] = "select"
        /\ \/ /\ row' = [row EXCEPT ![s] = found]
              /\ IF found.request # request[s]
                 THEN Answer(s, "conflict")
                 ELSE IF found.state = "accepted"
                      THEN Proceed(s, "handoff")
                      ELSE Answer(s, "accepted")
           \/ UNCHANGED row /\ Answer(s, "database_unavailable")
        /\ UNCHANGED <<reports, posted, executing, slot, request, delVars>>

(* execute_async_report sends its request, or there is no Bigwig client,   *)
(* or the request does not get out.                                        *)
Handoff(s) ==
    /\ pc[s] = "handoff"
    /\ \/ posted' = posted \union {row[s].id} /\ Proceed(s, "await_bigwig")
       \/ Answer(s, "execution_unavailable") /\ UNCHANGED posted
    /\ UNCHANGED <<reports, executing, slot, request, row, delVars>>

(* Bigwig, at any later time, accepts responsibility.                      *)
BigwigAccepts(id) ==
    /\ id \in posted
    /\ executing' = executing \union {id}
    /\ UNCHANGED <<reports, posted, subVars, delVars>>

(* execute_async_report returns: 200 or 202, or anything else, a timeout   *)
(* and a lost reply included.                                              *)
HandedOff(s) ==
    /\ pc[s] = "await_bigwig"
    /\ \/ row[s].id \in executing /\ Proceed(s, "mark_running")
       \/ Answer(s, "execution_unavailable")
    /\ UNCHANGED <<reports, posted, executing, slot, request, row, delVars>>

(* Mutant: mark_running without `and status = 'accepted''.                 *)
MarkRunningAlways(s) ==
    /\ pc[s] = "mark_running"
    /\ reports' = [reports EXCEPT ![slot[s]].state = "running"]
    /\ Answer(s, "accepted")
    /\ UNCHANGED <<posted, executing, slot, request, row, delVars>>

(* mark_running, and the answer.                                           *)
MarkRunning(s) ==
    LET sl == SlotOf(row[s].id)
        marked == IF reports[sl].state = "accepted"
                  THEN [reports EXCEPT ![sl].state = "running"]
                  ELSE reports
    IN  /\ pc[s] = "mark_running"
        /\ \/ reports' = marked /\ Answer(s, "accepted")
           \/ reports' \in {reports, marked} /\ Answer(s, "database_unavailable")
        /\ UNCHANGED <<posted, executing, slot, request, row, delVars>>

(* The client goes away, or the process dies.                              *)
DropSubmission(s) ==
    /\ pc[s] \notin {"idle", "done", "dropped"}
    /\ pc' = [pc EXCEPT ![s] = "dropped"]
    /\ UNCHANGED <<reports, posted, executing, slot, request, row, answer,
                   delVars>>

(***************************************************************************)
(* complete_report and fail_report.                                        *)
(***************************************************************************)

Reply(d, a) ==
    /\ dpc' = [dpc EXCEPT ![d] = "done"]
    /\ reply' = [reply EXCEPT ![d] = a]

Onward(d, stage) ==
    /\ dpc' = [dpc EXCEPT ![d] = stage]
    /\ UNCHANGED reply

(* Bigwig delivers an outcome of something it executes; the route's layer  *)
(* first checks the token it sends.                                        *)
Deliver(d, id, definition, outcome) ==
    /\ dpc[d] = "idle"
    /\ id \in executing
    /\ delivery' = [delivery EXCEPT ![d] = [id         |-> id,
                                            definition |-> definition,
                                            outcome    |-> outcome]]
    /\ Onward(d, "find") \/ Reply(d, "refused")
    /\ UNCHANGED <<reports, posted, executing, subVars, existing>>

(* The body is validated (its size only for a completion), then find and   *)
(* terminal_identity_matches.  Only a completion looks the definition of   *)
(* the row up in the catalog again.                                        *)
FindReport(d) ==
    LET found == reports[SlotOf(delivery[d].id)]
    IN  /\ dpc[d] = "find"
        /\ \/ /\ existing' = [existing EXCEPT ![d] = found]
              /\ IF found.request.definition # delivery[d].definition
                 THEN Reply(d, "refused")
                 ELSE IF /\ delivery[d].outcome # Failed
                         /\ ~ Supported(found.request.definition,
                                        delivery[d].outcome)
                      THEN Reply(d, "unsupported")
                      ELSE Onward(d, "update")
           \/ /\ UNCHANGED existing
              /\ \E a \in {"refused", "database_unavailable"} : Reply(d, a)
        /\ UNCHANGED <<reports, posted, executing, subVars, delivery>>

(* The row after complete or fail, which only touch an open one.           *)
Finished(d) ==
    LET sl == SlotOf(delivery[d].id)
    IN  IF Final(reports[sl].state)
        THEN reports
        ELSE [reports EXCEPT ![sl].state = delivery[d].outcome]

(* complete: the row is reread when the statement changed nothing.         *)
CompleteReport(d) ==
    LET open == ~ Final(reports[SlotOf(delivery[d].id)].state)
    IN  /\ dpc[d] = "update"
        /\ delivery[d].outcome # Failed
        /\ \/ /\ reports' = Finished(d)
              /\ IF open THEN Reply(d, "recorded") ELSE Onward(d, "reread")
           \/ /\ reports' \in {reports, Finished(d)}
              /\ Reply(d, "database_unavailable")
        /\ UNCHANGED <<posted, executing, subVars, delivery, existing>>

(* Mutant: the row read before the update decides.                         *)
RereadStale(d) ==
    /\ dpc[d] = "reread"
    /\ Reply(d, IF existing[d].state = delivery[d].outcome
                THEN "recorded" ELSE "conflict")
    /\ UNCHANGED <<reports, posted, executing, subVars, delivery, existing>>

RereadReport(d) ==
    /\ dpc[d] = "reread"
    /\ \/ Reply(d, IF reports[SlotOf(delivery[d].id)].state = delivery[d].outcome
                   THEN "recorded" ELSE "conflict")
       \/ Reply(d, "database_unavailable")
    /\ UNCHANGED <<reports, posted, executing, subVars, delivery, existing>>

(* fail: whether the report had failed before is asked of the row that was *)
(* read before the update.                                                 *)
FailReport(d) ==
    LET open == ~ Final(reports[SlotOf(delivery[d].id)].state)
    IN  /\ dpc[d] = "update"
        /\ delivery[d].outcome = Failed
        /\ \/ /\ reports' = Finished(d)
              /\ Reply(d, IF open \/ existing[d].state = Failed
                          THEN "recorded" ELSE "conflict")
           \/ /\ reports' \in {reports, Finished(d)}
              /\ Reply(d, "database_unavailable")
        /\ UNCHANGED <<posted, executing, subVars, delivery, existing>>

(* Bigwig gives up waiting for the answer, or the process dies.            *)
DropDelivery(d) ==
    /\ dpc[d] \notin {"idle", "done", "dropped"}
    /\ dpc' = [dpc EXCEPT ![d] = "dropped"]
    /\ UNCHANGED <<reports, posted, executing, subVars, delivery, existing,
                   reply>>

Next ==
    \/ \E s \in Submissions :
          \/ \E sl \in Slots, req \in Requests : Submit(s, sl, req)
          \/ Insert(s) \/ Select(s) \/ Handoff(s) \/ HandedOff(s)
          \/ MarkRunning(s) \/ DropSubmission(s)
    \/ \E id \in posted : BigwigAccepts(id)
    \/ \E d \in Deliveries :
          \/ \E id \in executing, definition \in Definitions,
                outcome \in Outcomes \union {Malformed} :
                Deliver(d, id, definition, outcome)
          \/ FindReport(d) \/ CompleteReport(d) \/ RereadReport(d)
          \/ FailReport(d) \/ DropDelivery(d)

Spec == Init /\ [][Next]_vars

(***************************************************************************)
(* Properties.                                                             *)
(***************************************************************************)

TypeOK ==
    /\ DOMAIN reports \subseteq Slots
    /\ reports \in [DOMAIN reports -> Row]
    /\ executing \subseteq posted /\ posted \subseteq Submissions
    /\ pc \in [Submissions -> SubmissionStages]
    /\ slot \in [Submissions -> Slots \union {<<>>}]
    /\ request \in [Submissions -> Requests \union {NoRow}]
    /\ row \in [Submissions -> Row \union {NoRow}]
    /\ answer \in [Submissions -> Answers]
    /\ dpc \in [Deliveries -> DeliveryStages]
    /\ delivery \in [Deliveries -> Delivery \union {NoRow}]
    /\ existing \in [Deliveries -> Row \union {NoRow}]
    /\ reply \in [Deliveries -> Replies]

Receipts ==
    {[slot |-> slot[s], id |-> row[s].id, request |-> request[s]] :
        s \in {x \in Submissions : answer[x] = "accepted"}}

Recorded ==
    {[id |-> delivery[d].id, outcome |-> delivery[d].outcome] :
        d \in {x \in Deliveries : reply[x] = "recorded"}}

Ledger == INSTANCE ReportLedger
            WITH ledger <- reports, receipts <- Receipts, outcomes <- Recorded,
                 Ids <- Submissions

(* The handlers implement the ledger of the contract: however submissions, *)
(* retries, handoffs and deliveries interleave and whichever of them fail, *)
(* a key names one report, a final outcome never changes, and every        *)
(* receipt and acknowledgement is true of the row (reports.rs              *)
(* create_report, complete_report and fail_report; CONTRACTS.md: "retrying *)
(* the same key resumes the same report resource and never creates another *)
(* report", "Reports are immutable after completed or failed").            *)
ImplementsLedger == Ledger!Spec

(* A client that was told 202, also one that only retried, has a report    *)
(* that Bigwig accepted responsibility for: no receipt stands for a row    *)
(* that was stored and never handed off (reports.rs create_report;         *)
(* CONTRACTS.md: Mother "asks Bigwig to durably accept the report, then    *)
(* returns 202 Accepted").                                                 *)
ReceiptMeansHandedOff ==
    \A s \in Submissions : answer[s] = "accepted" => row[s].id \in executing

(* A completion is refused as a conflict only when the report ended        *)
(* otherwise: a redelivered completion, also one that races the first, is  *)
(* acknowledged (reports.rs complete_report rereads the row).              *)
CompletionConflictJustified ==
    \A d \in Deliveries :
        reply[d] = "conflict" /\ delivery[d].outcome # Failed =>
            LET state == reports[SlotOf(delivery[d].id)].state
            IN  Final(state) /\ state # delivery[d].outcome

=============================================================================
