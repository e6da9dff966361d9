-------------------------- MODULE AsyncReportsProofs --------------------------
(***************************************************************************)
(* Proofs about AsyncReports, for every number of submissions, deliveries, *)
(* accounts, keys, definitions and reports.                                *)
(*                                                                         *)
(* The invariant is in three parts.  RowsInv: an identifier names one row, *)
(* it is that of a submission past its insert, and a row that is no longer *)
(* accepted was handed off.  SubOK and DelOK: what a submission and a      *)
(* delivery know of their row at each stage.  A step changes the table in  *)
(* one of three ways (TableStep), none of which touches what another       *)
(* process knows (RowsKept).                                               *)
(***************************************************************************)
EXTENDS AsyncReports, TLAPS

RowsInv ==
    /\ \A x, y \in DOMAIN reports : reports[x].id = reports[y].id => x = y
    /\ \A x \in DOMAIN reports : pc[reports[x].id] \notin {"idle", "insert"}
    /\ \A x \in DOMAIN reports :
          reports[x].state # "accepted" => reports[x].id \in executing
    /\ \A id \in posted : \E x \in DOMAIN reports : reports[x].id = id

(* The row a submission works on is the one its slot names.                *)
Holds(s) ==
    /\ row[s] \in Row
    /\ slot[s] \in DOMAIN reports
    /\ reports[slot[s]].id = row[s].id
    /\ reports[slot[s]].request = request[s]

SubOK(s) ==
    /\ pc[s] # "idle" => slot[s] \in Slots /\ request[s] \in Requests
    /\ pc[s] # "done" => answer[s] = "none"
    /\ pc[s] = "select" => slot[s] \in DOMAIN reports
    /\ \/ pc[s] \in {"handoff", "await_bigwig", "mark_running"}
       \/ answer[s] = "accepted"
       => Holds(s)
    /\ pc[s] = "mark_running" \/ answer[s] = "accepted" => row[s].id \in executing

Target(d) == reports[SlotOf(delivery[d].id)].state

DelOK(d) ==
    /\ dpc[d] # "done" => reply[d] = "none"
    /\ dpc[d] # "idle" => delivery[d] \in Delivery /\ delivery[d].id \in executing
    /\ dpc[d] \in {"update", "reread"} \/ reply[d] \in {"recorded", "conflict"}
       => delivery[d].outcome \in Outcomes
    /\ dpc[d] = "update" /\ existing[d].state = Failed => Target(d) = Failed
    /\ dpc[d] = "reread" => Final(Target(d)) /\ delivery[d].outcome # Failed
    /\ reply[d] = "recorded" => Target(d) = delivery[d].outcome
    /\ reply[d] = "conflict" /\ delivery[d].outcome # Failed
       => Final(Target(d)) /\ Target(d) # delivery[d].outcome

IInv ==
    /\ TypeOK
    /\ RowsInv
    /\ \A s \in Submissions : SubOK(s)
    /\ \A d \in Deliveries : DelOK(d)

(***************************************************************************)
(* The table.                                                              *)
(***************************************************************************)

(* What a step does to async_report: nothing, the insert of a new row, or  *)
(* a change of the state of one row, forward.                              *)
Stores(s) ==
    /\ pc[s] = "insert"
    /\ pc'[s] \notin {"idle", "insert"}
    /\ slot[s] \notin DOMAIN reports
    /\ reports' = [x \in DOMAIN reports \union {slot[s]} |->
                     IF x = slot[s]
                     THEN [id |-> s, request |-> request[s], state |-> "accepted"]
                     ELSE reports[x]]

Moves(x, state) ==
    /\ reports[x].id \in executing
    /\ \/ reports[x].state = "accepted" /\ state = "running"
       \/ ~ Final(reports[x].state) /\ state \in Outcomes
    /\ reports' = [reports EXCEPT ![x].state = state]

TableStep ==
    \/ UNCHANGED reports
    \/ \E s \in Submissions : Stores(s)
    \/ \E x \in DOMAIN reports, state \in {"running"} \union Outcomes : Moves(x, state)

(* What no step takes away from a row.                                     *)
RowsKept ==
    /\ DOMAIN reports \subseteq DOMAIN reports'
    /\ \A x \in DOMAIN reports :
          /\ reports'[x].id = reports[x].id
          /\ reports'[x].request = reports[x].request
          /\ Final(reports[x].state) => reports'[x].state = reports[x].state
          /\ reports[x].state # "accepted" => reports'[x].state # "accepted"

(* What every step keeps of the rest.                                      *)
Onwards ==
    /\ posted \subseteq posted'
    /\ executing \subseteq executing'
    /\ executing' \subseteq posted'
    /\ \A s \in Submissions :
          pc[s] \notin {"idle", "insert"} => pc'[s] \notin {"idle", "insert"}
    /\ \A id \in posted' : id \in posted \/ \E s \in Submissions : Holds(s) /\ row[s].id = id

(* find returns the one row with an identifier (the unique public_id).     *)
LEMMA SlotUnique ==
    ASSUME NEW f, NEW x \in DOMAIN f,
           \A y, z \in DOMAIN f : f[y].id = f[z].id => y = z
    PROVE  (CHOOSE s \in DOMAIN f : f[s].id = f[x].id) = x
OBVIOUS

(* An identifier Bigwig executes is that of a row.                         *)
LEMMA ExecutingNamed ==
    ASSUME IInv, NEW id \in executing
    PROVE  /\ SlotOf(id) \in DOMAIN reports
           /\ reports[SlotOf(id)] \in Row
           /\ reports[SlotOf(id)].id = id
<1>1. PICK x \in DOMAIN reports : reports[x].id = id
  BY DEF IInv, TypeOK, RowsInv
<1>2. SlotOf(id) = x
  BY <1>1, SlotUnique DEF IInv, RowsInv, SlotOf
<1> QED
  BY <1>1, <1>2 DEF IInv, TypeOK

(* The row of a submission that holds one.                                 *)
LEMMA HoldsSlot ==
    ASSUME IInv, NEW s \in Submissions, Holds(s)
    PROVE  SlotOf(row[s].id) = slot[s]
BY SlotUnique DEF IInv, RowsInv, Holds, SlotOf

(* Every step changes the table in one of the three ways.                  *)
LEMMA TableSteps ==
    ASSUME IInv, Next
    PROVE  TableStep
<1>1. CASE \E s \in Submissions : Insert(s)
  <2>1. PICK s \in Submissions : Insert(s)
    BY <1>1
  <2>2. pc'[s] \notin {"idle", "insert"}
    BY <2>1 DEF Insert, Proceed, Answer, IInv, TypeOK
  <2>3. UNCHANGED reports \/ Stores(s)
    BY <2>1, <2>2 DEF Insert, Stores
  <2> QED
    BY <2>3 DEF TableStep
<1>2. CASE \E s \in Submissions : MarkRunning(s)
  <2>1. PICK s \in Submissions : MarkRunning(s)
    BY <1>2
  <2>2. Holds(s) /\ row[s].id \in executing
    BY <2>1 DEF MarkRunning, IInv, SubOK
  <2>3. SlotOf(row[s].id) = slot[s] /\ slot[s] \in DOMAIN reports
    BY <2>2, HoldsSlot DEF Holds
  <2>4. UNCHANGED reports \/ Moves(slot[s], "running")
    BY <2>1, <2>2, <2>3 DEF MarkRunning, Moves, Holds
  <2> QED
    BY <2>3, <2>4 DEF TableStep
<1>3. CASE \E d \in Deliveries : CompleteReport(d) \/ FailReport(d)
  <2>1. PICK d \in Deliveries : CompleteReport(d) \/ FailReport(d)
    BY <1>3
  <2>2. delivery[d].id \in executing /\ delivery[d].outcome \in Outcomes
    BY <2>1 DEF CompleteReport, FailReport, IInv, DelOK
  <2> DEFINE x == SlotOf(delivery[d].id)
  <2>3. x \in DOMAIN reports /\ reports[x].id = delivery[d].id
    BY <2>2, ExecutingNamed
  <2>4. UNCHANGED reports \/ reports' = Finished(d)
    BY <2>1 DEF CompleteReport, FailReport
  <2>5. UNCHANGED reports \/ Moves(x, delivery[d].outcome)
    BY <2>2, <2>3, <2>4 DEF Finished, Moves
  <2> QED
    BY <2>2, <2>3, <2>5 DEF TableStep
<1>4. ASSUME ~ (\E s \in Submissions : Insert(s) \/ MarkRunning(s)),
             ~ (\E d \in Deliveries : CompleteReport(d) \/ FailReport(d))
      PROVE  UNCHANGED reports
  BY <1>4 DEF Next, Submit, Select, Handoff, BigwigAccepts, HandedOff,
              DropSubmission, Deliver, FindReport, RereadReport, DropDelivery
<1> QED
  BY <1>1, <1>2, <1>3, <1>4 DEF TableStep

(* None of the three ways takes anything away from a row.                  *)
LEMMA TableKept ==
    ASSUME IInv, TableStep
    PROVE  RowsKept
<1>1. CASE UNCHANGED reports
  BY <1>1 DEF RowsKept
<1>2. CASE \E s \in Submissions : Stores(s)
  BY <1>2 DEF Stores, RowsKept
<1>3. CASE \E x \in DOMAIN reports, state \in {"running"} \union Outcomes : Moves(x, state)
  <2>1. PICK x \in DOMAIN reports, state \in {"running"} \union Outcomes : Moves(x, state)
    BY <1>3
  <2>2. DOMAIN reports' = DOMAIN reports
    BY <2>1 DEF Moves
  <2>3. state # "accepted" /\ ~ Final(reports[x].state)
    BY <2>1, ReportsAssumption DEF Moves, Final, Outcomes
  <2>4. ASSUME NEW y \in DOMAIN reports
        PROVE  /\ reports[y] \in Row
               /\ reports'[y] = IF y = x THEN [reports[y] EXCEPT !.state = state]
                                ELSE reports[y]
    BY <2>1 DEF Moves, IInv, TypeOK
  <2> QED
    BY <2>2, <2>3, <2>4 DEF RowsKept, Row
<1> QED
  BY <1>1, <1>2, <1>3 DEF TableStep

(* Every step keeps what was posted, accepted and begun.                   *)
LEMMA OnwardSteps ==
    ASSUME IInv, Next
    PROVE  Onwards
<1> USE DEF IInv, TypeOK
<1>1. ASSUME NEW s \in Submissions, NEW sl \in Slots, NEW req \in Requests,
             Submit(s, sl, req)
      PROVE  Onwards
  BY <1>1 DEF Submit, Proceed, Answer, Onwards
<1>2. ASSUME NEW s \in Submissions, Insert(s) \/ Select(s)
      PROVE  Onwards
  BY <1>2 DEF Insert, Select, Proceed, Answer, Onwards
<1>3. ASSUME NEW s \in Submissions, Handoff(s)
      PROVE  Onwards
  <2>1. Holds(s)
    BY <1>3 DEF Handoff, SubOK
  <2>2. posted' \subseteq posted \union {row[s].id}
    BY <1>3 DEF Handoff
  <2>3. /\ posted \subseteq posted' /\ UNCHANGED executing
        /\ \A t \in Submissions :
             pc[t] \notin {"idle", "insert"} => pc'[t] \notin {"idle", "insert"}
    BY <1>3 DEF Handoff, Proceed, Answer
  <2> QED
    BY <2>1, <2>2, <2>3 DEF Onwards
<1>4. ASSUME NEW s \in Submissions, HandedOff(s) \/ MarkRunning(s) \/ DropSubmission(s)
      PROVE  Onwards
  BY <1>4 DEF HandedOff, MarkRunning, DropSubmission, Proceed, Answer, Onwards
<1>5. ASSUME NEW id \in posted, BigwigAccepts(id)
      PROVE  Onwards
  BY <1>5 DEF BigwigAccepts, subVars, Onwards
<1>6. ASSUME UNCHANGED <<posted, executing, subVars>>
      PROVE  Onwards
  BY <1>6 DEF subVars, Onwards
<1>7. ASSUME NEW d \in Deliveries,
             \/ \E id \in executing, definition \in Definitions,
                  outcome \in Outcomes \union {Malformed} :
                  Deliver(d, id, definition, outcome)
             \/ FindReport(d) \/ CompleteReport(d) \/ RereadReport(d)
             \/ FailReport(d) \/ DropDelivery(d)
      PROVE  UNCHANGED <<posted, executing, subVars>>
  BY <1>7 DEF Deliver, FindReport, CompleteReport, RereadReport, FailReport, DropDelivery
<1> QED
  BY <1>1, <1>2, <1>3, <1>4, <1>5, <1>6, <1>7 DEF Next

(* Every step preserves what is said of the rows.                          *)
LEMMA RowsStep ==
    ASSUME IInv, TypeOK', TableStep, Onwards
    PROVE  RowsInv'
<1> USE DEF IInv
<1>1. RowsKept
  BY TableKept
<1>2. CASE UNCHANGED reports
  BY <1>2 DEF RowsInv, Onwards, TypeOK, Row, Holds
<1>3. CASE \E s \in Submissions : Stores(s)
  <2>1. PICK s \in Submissions : Stores(s)
    BY <1>3
  <2>2. DOMAIN reports' = DOMAIN reports \union {slot[s]}
    BY <2>1 DEF Stores
  <2>3. \A x \in DOMAIN reports : reports'[x] = reports[x] /\ reports[x].id # s /\ reports[x].id \in Submissions
    BY <2>1 DEF Stores, RowsInv, TypeOK, Row
  <2>4. reports'[slot[s]].id = s /\ reports'[slot[s]].state = "accepted"
    BY <2>1 DEF Stores
  <2>5. pc'[s] \notin {"idle", "insert"}
    BY <2>1 DEF Stores
  <2>6. \A x, y \in DOMAIN reports' : reports'[x].id = reports'[y].id => x = y
    BY <2>2, <2>3, <2>4 DEF RowsInv
  <2>7. \A x \in DOMAIN reports' : pc'[reports'[x].id] \notin {"idle", "insert"}
    BY <2>2, <2>3, <2>4, <2>5 DEF RowsInv, Onwards
  <2>8. \A x \in DOMAIN reports' :
           reports'[x].state # "accepted" => reports'[x].id \in executing'
    BY <2>2, <2>3, <2>4 DEF RowsInv, Onwards
  <2>9. \A id \in posted' : \E x \in DOMAIN reports' : reports'[x].id = id
    BY <2>2, <2>3 DEF RowsInv, Onwards, Holds
  <2> QED
    BY <2>6, <2>7, <2>8, <2>9 DEF RowsInv
<1>4. CASE \E x \in DOMAIN reports, state \in {"running"} \union Outcomes : Moves(x, state)
  <2>1. PICK z \in DOMAIN reports, state \in {"running"} \union Outcomes : Moves(z, state)
    BY <1>4
  <2>2. DOMAIN reports' = DOMAIN reports
    BY <2>1 DEF Moves
  <2>3. \A x \in DOMAIN reports : /\ reports'[x].id = reports[x].id
                                  /\ reports[x].id \in Submissions
    BY <1>1 DEF RowsKept, TypeOK, Row
  <2>4. \A x \in DOMAIN reports : x # z => reports'[x] = reports[x]
    BY <2>1 DEF Moves, TypeOK
  <2>5. reports[z].id \in executing'
    BY <2>1 DEF Moves, Onwards
  <2>6. \A x \in DOMAIN reports' :
           reports'[x].state # "accepted" => reports'[x].id \in executing'
    BY <2>2, <2>3, <2>4, <2>5 DEF RowsInv, Onwards
  <2>7. \A x \in DOMAIN reports' : pc'[reports'[x].id] \notin {"idle", "insert"}
    BY <2>2, <2>3 DEF RowsInv, Onwards
  <2>8. \A id \in posted' : \E x \in DOMAIN reports' : reports'[x].id = id
    BY <2>2, <2>3 DEF RowsInv, Onwards, Holds
  <2>9. \A x, y \in DOMAIN reports' : reports'[x].id = reports'[y].id => x = y
    BY <2>2, <2>3 DEF RowsInv
  <2> QED
    BY <2>6, <2>7, <2>8, <2>9 DEF RowsInv
<1> QED
  BY <1>2, <1>3, <1>4 DEF TableStep

(***************************************************************************)
(* Submissions.                                                            *)
(***************************************************************************)
Same(s) ==
    /\ pc'[s] = pc[s] /\ slot'[s] = slot[s] /\ request'[s] = request[s]
    /\ row'[s] = row[s] /\ answer'[s] = answer[s]

(* A submission that does not move keeps what it knows.                    *)
LEMMA SubKept ==
    ASSUME IInv, RowsKept, Onwards, NEW s \in Submissions, Same(s)
    PROVE  SubOK(s)'
<1>1. SubOK(s)
  BY DEF IInv
<1>2. Holds(s) => Holds(s)'
  BY DEF Holds, Same, RowsKept
<1> QED
  BY <1>1, <1>2 DEF SubOK, Same, RowsKept, Onwards

(* The steps of a submission leave the others where they are.              *)
LEMMA OthersStay ==
    ASSUME IInv, NEW s \in Submissions,
           \/ \E sl \in Slots, req \in Requests : Submit(s, sl, req)
           \/ Insert(s) \/ Select(s) \/ Handoff(s) \/ HandedOff(s)
           \/ MarkRunning(s) \/ DropSubmission(s),
           NEW t \in Submissions, t # s
    PROVE  Same(t)
BY DEF IInv, TypeOK, Same, Submit, Insert, Select, Handoff, HandedOff,
       MarkRunning, DropSubmission, Proceed, Answer

(* Every step preserves what every submission knows.                       *)
LEMMA SubStep ==
    ASSUME IInv, Next, RowsKept, Onwards, RowsInv'
    PROVE  \A s \in Submissions : SubOK(s)'
<1> USE DEF IInv, TypeOK
<1>1. ASSUME NEW s \in Submissions, NEW sl \in Slots, NEW req \in Requests,
             Submit(s, sl, req)
      PROVE  SubOK(s)'
  BY <1>1 DEF Submit, Proceed, Answer, SubOK
<1>2. ASSUME NEW s \in Submissions, Insert(s)
      PROVE  SubOK(s)'
  <2>1. /\ pc[s] = "insert" /\ slot[s] \in Slots /\ request[s] \in Requests
        /\ answer[s] = "none" /\ slot'[s] = slot[s] /\ request'[s] = request[s]
    BY <1>2 DEF Insert, SubOK
  <2>2. CASE pc'[s] = "handoff"
    <3>1. /\ row'[s] = [id |-> s, request |-> request[s], state |-> "accepted"]
          /\ answer'[s] = "none"
          /\ slot[s] \in DOMAIN reports' /\ reports'[slot[s]] = row'[s]
      BY <1>2, <2>1, <2>2 DEF Insert, Proceed, Answer
    <3>2. Holds(s)'
      BY <2>1, <3>1 DEF Holds, Row
    <3> QED
      BY <2>1, <2>2, <3>1, <3>2 DEF SubOK
  <2>3. CASE pc'[s] = "select"
    BY <1>2, <2>1, <2>3 DEF Insert, Proceed, Answer, SubOK
  <2>4. CASE pc'[s] = "done"
    BY <1>2, <2>1, <2>4 DEF Insert, Proceed, Answer, SubOK
  <2> QED
    BY <1>2, <2>2, <2>3, <2>4 DEF Insert, Proceed, Answer
<1>3. ASSUME NEW s \in Submissions, Select(s)
      PROVE  SubOK(s)'
  <2>1. /\ pc[s] = "select" /\ slot[s] \in Slots /\ request[s] \in Requests
        /\ answer[s] = "none" /\ slot'[s] = slot[s] /\ request'[s] = request[s]
        /\ slot[s] \in DOMAIN reports
        /\ UNCHANGED <<reports, executing>>
    BY <1>3 DEF Select, SubOK
  <2>2. CASE answer'[s] # "accepted" /\ pc'[s] = "done"
    BY <2>1, <2>2 DEF SubOK
  <2>3. CASE answer'[s] = "accepted" \/ pc'[s] # "done"
    <3>1. /\ row'[s] = reports[slot[s]]
          /\ reports[slot[s]].request = request[s]
          /\ \/ pc'[s] = "handoff" /\ answer'[s] = "none"
             \/ /\ reports[slot[s]].state # "accepted"
                /\ pc'[s] = "done" /\ answer'[s] = "accepted"
      BY <1>3, <2>1, <2>3 DEF Select, Proceed, Answer
    <3>2. Holds(s)'
      BY <2>1, <3>1 DEF Holds
    <3>3. answer'[s] = "accepted" => row'[s].id \in executing'
      BY <2>1, <3>1 DEF RowsInv
    <3> QED
      BY <2>1, <3>1, <3>2, <3>3 DEF SubOK
  <2> QED
    BY <2>2, <2>3
<1>4. ASSUME NEW s \in Submissions, Handoff(s) \/ HandedOff(s)
      PROVE  SubOK(s)'
  <2>1. /\ pc[s] \in {"handoff", "await_bigwig"} /\ UNCHANGED <<slot, request, row, reports>>
        /\ SubOK(s)
    BY <1>4 DEF Handoff, HandedOff
  <2>2. Holds(s)'
    BY <2>1 DEF SubOK, Holds
  <2>3. \/ pc'[s] = "await_bigwig" /\ answer'[s] = "none"
        \/ pc'[s] = "done" /\ answer'[s] = "execution_unavailable"
        \/ pc'[s] = "mark_running" /\ answer'[s] = "none" /\ row[s].id \in executing
    BY <1>4, <2>1 DEF Handoff, HandedOff, Proceed, Answer, SubOK
  <2> QED
    BY <2>1, <2>2, <2>3 DEF SubOK, Onwards
<1>5. ASSUME NEW s \in Submissions, MarkRunning(s)
      PROVE  SubOK(s)'
  <2>1. /\ pc[s] = "mark_running" /\ UNCHANGED <<slot, request, row>>
        /\ SubOK(s) /\ pc'[s] = "done"
    BY <1>5 DEF MarkRunning, Answer
  <2>2. Holds(s)'
    BY <2>1 DEF SubOK, Holds, RowsKept
  <2> QED
    BY <2>1, <2>2 DEF SubOK, Onwards
<1>6. ASSUME NEW s \in Submissions, DropSubmission(s)
      PROVE  SubOK(s)'
  BY <1>6 DEF DropSubmission, SubOK
<1>7. ASSUME NEW t \in Submissions, UNCHANGED subVars
      PROVE  Same(t)
  BY <1>7 DEF subVars, Same
<1>8. ASSUME NEW id \in posted, BigwigAccepts(id)
      PROVE  UNCHANGED subVars
  BY <1>8 DEF BigwigAccepts
<1>9. ASSUME NEW d \in Deliveries,
             \/ \E id \in executing, definition \in Definitions,
                  outcome \in Outcomes \union {Malformed} :
                  Deliver(d, id, definition, outcome)
             \/ FindReport(d) \/ CompleteReport(d) \/ RereadReport(d)
             \/ FailReport(d) \/ DropDelivery(d)
      PROVE  UNCHANGED subVars
  BY <1>9 DEF Deliver, FindReport, CompleteReport, RereadReport, FailReport, DropDelivery
<1> HIDE DEF IInv, TypeOK
<1>10. CASE UNCHANGED subVars
  BY <1>7, <1>10, SubKept
<1>11. CASE \E s \in Submissions :
              \/ \E sl \in Slots, req \in Requests : Submit(s, sl, req)
              \/ Insert(s) \/ Select(s) \/ Handoff(s) \/ HandedOff(s)
              \/ MarkRunning(s) \/ DropSubmission(s)
  <2>1. PICK s \in Submissions :
              \/ \E sl \in Slots, req \in Requests : Submit(s, sl, req)
              \/ Insert(s) \/ Select(s) \/ Handoff(s) \/ HandedOff(s)
              \/ MarkRunning(s) \/ DropSubmission(s)
    BY <1>11
  <2>2. SubOK(s)'
    BY <2>1, <1>1, <1>2, <1>3, <1>4, <1>5, <1>6
  <2>3. ASSUME NEW t \in Submissions, t # s
        PROVE  SubOK(t)'
    <3>1. Same(t)
      BY <2>1, <2>3, OthersStay
    <3> QED
      BY <3>1, SubKept
  <2> QED
    BY <2>2, <2>3
<1> QED
  BY <1>8, <1>9, <1>10, <1>11 DEF Next

(***************************************************************************)
(* Deliveries.                                                             *)
(***************************************************************************)
SameDelivery(d) ==
    /\ dpc'[d] = dpc[d] /\ delivery'[d] = delivery[d]
    /\ existing'[d] = existing[d] /\ reply'[d] = reply[d]

(* The row of an executing report stays where find finds it.               *)
LEMMA SlotKept ==
    ASSUME IInv, RowsKept, RowsInv', NEW id \in executing
    PROVE  /\ SlotOf(id)' = SlotOf(id)
           /\ SlotOf(id) \in DOMAIN reports
<1> DEFINE x == SlotOf(id)
<1>1. x \in DOMAIN reports /\ reports[x].id = id
  BY ExecutingNamed
<1>2. x \in DOMAIN reports' /\ reports'[x].id = id
  BY <1>1 DEF RowsKept
<1>3. \A y, z \in DOMAIN reports' : reports'[y].id = reports'[z].id => y = z
  BY DEF RowsInv
<1> HIDE DEF x
<1>4. (CHOOSE s \in DOMAIN reports' : reports'[s].id = reports'[x].id) = x
  BY <1>2, <1>3, SlotUnique
<1>5. SlotOf(id)' = CHOOSE s \in DOMAIN reports' : reports'[s].id = id
  BY DEF SlotOf
<1> QED
  BY <1>1, <1>2, <1>4, <1>5 DEF x

(* A delivery that does not move keeps what it knows.                      *)
LEMMA DelKept ==
    ASSUME IInv, RowsKept, Onwards, RowsInv', NEW d \in Deliveries, SameDelivery(d)
    PROVE  DelOK(d)'
<1>1. DelOK(d)
  BY DEF IInv
<1>2. CASE dpc[d] = "idle"
  <2>1. reply[d] = "none"
    BY <1>1, <1>2 DEF DelOK
  <2> QED
    BY <1>2, <2>1 DEF DelOK, SameDelivery
<1>3. CASE dpc[d] # "idle"
  <2>1. delivery[d].id \in executing
    BY <1>1, <1>3 DEF DelOK
  <2>2. SlotOf(delivery[d].id)' = SlotOf(delivery[d].id) /\ SlotOf(delivery[d].id) \in DOMAIN reports
    <3>1. SlotOf(delivery[d].id)' = CHOOSE s \in DOMAIN reports' : reports'[s].id = delivery'[d].id
      BY DEF SlotOf
    <3>2. delivery'[d].id = delivery[d].id
      BY DEF SameDelivery
    <3>3. PICK i \in executing : i = delivery[d].id
      BY <2>1
    <3>4. SlotOf(i)' = SlotOf(i) /\ SlotOf(i) \in DOMAIN reports
      BY SlotKept
    <3>5. SlotOf(i)' = CHOOSE s \in DOMAIN reports' : reports'[s].id = i
      BY DEF SlotOf
    <3> QED
      BY <3>1, <3>2, <3>3, <3>4, <3>5
  <2>3. Target(d)' = reports'[SlotOf(delivery[d].id)].state
    BY <2>2 DEF Target
  <2>4. Final(Target(d)) => Target(d)' = Target(d)
    BY <2>2, <2>3 DEF Target, RowsKept
  <2>5. Final(Failed) /\ \A o \in Outcomes : Final(o)
    BY DEF Final, Outcomes
  <2> HIDE DEF Target
  <2> QED
    BY <1>1, <1>3, <2>1, <2>4, <2>5 DEF DelOK, SameDelivery, Onwards, Final
<1> QED
  BY <1>2, <1>3

(* The steps of a delivery leave the others where they are.                *)
LEMMA OtherDeliveriesStay ==
    ASSUME IInv, NEW d \in Deliveries,
           \/ \E id \in executing, definition \in Definitions,
                outcome \in Outcomes \union {Malformed} :
                Deliver(d, id, definition, outcome)
           \/ FindReport(d) \/ CompleteReport(d) \/ RereadReport(d)
           \/ FailReport(d) \/ DropDelivery(d),
           NEW e \in Deliveries, e # d
    PROVE  SameDelivery(e)
BY DEF IInv, TypeOK, SameDelivery, Deliver, FindReport, CompleteReport,
       RereadReport, FailReport, DropDelivery, Reply, Onward

(* Every step preserves what every delivery knows.                         *)
LEMMA DelStep ==
    ASSUME IInv, Next, RowsKept, Onwards, RowsInv'
    PROVE  \A d \in Deliveries : DelOK(d)'
<1> USE DEF IInv, TypeOK
<1>1. ASSUME NEW d \in Deliveries, NEW id \in executing,
             NEW definition \in Definitions,
             NEW outcome \in Outcomes \union {Malformed},
             Deliver(d, id, definition, outcome)
      PROVE  DelOK(d)'
  BY <1>1 DEF Deliver, Onward, Reply, DelOK, Delivery
<1>2. ASSUME NEW d \in Deliveries, FindReport(d)
      PROVE  DelOK(d)'
  <2>1. /\ dpc[d] = "find" /\ reply[d] = "none"
        /\ delivery[d] \in Delivery /\ delivery[d].id \in executing
        /\ UNCHANGED <<reports, executing, delivery>>
    BY <1>2 DEF FindReport, DelOK
  <2>2. CASE dpc'[d] = "done"
    <3>1. reply'[d] \in {"refused", "unsupported", "database_unavailable"}
      BY <1>2, <2>2 DEF FindReport, Reply, Onward
    <3> QED
      BY <2>1, <2>2, <3>1 DEF DelOK
  <2>3. CASE dpc'[d] = "update"
    <3>1. /\ existing'[d] = reports[SlotOf(delivery[d].id)]
          /\ reply'[d] = "none"
          /\ \/ delivery[d].outcome = Failed
             \/ Supported(reports[SlotOf(delivery[d].id)].request.definition,
                          delivery[d].outcome)
      BY <1>2, <2>1, <2>3 DEF FindReport, Reply, Onward
    <3>2. delivery[d].outcome \in Outcomes
      BY <2>1, <3>1 DEF Supported, Delivery, Outcomes
    <3>3. Target(d)' = reports[SlotOf(delivery[d].id)].state
      BY <2>1 DEF Target, SlotOf
    <3> QED
      BY <2>1, <2>3, <3>1, <3>2, <3>3 DEF DelOK
  <2> QED
    BY <1>2, <2>2, <2>3 DEF FindReport, Reply, Onward
<1>3. ASSUME NEW d \in Deliveries, CompleteReport(d) \/ FailReport(d)
      PROVE  DelOK(d)'
  <2>1. /\ dpc[d] = "update" /\ reply[d] = "none"
        /\ delivery[d] \in Delivery /\ delivery[d].id \in executing
        /\ delivery[d].outcome \in Outcomes
        /\ existing[d].state = Failed => Target(d) = Failed
        /\ UNCHANGED <<executing, delivery, existing>>
    BY <1>3 DEF CompleteReport, FailReport, DelOK
  <2> DEFINE x == SlotOf(delivery[d].id)
             outcome == delivery[d].outcome
  <2>2. x \in DOMAIN reports /\ reports[x] \in Row
    BY <2>1, ExecutingNamed
  <2>3. SlotOf(delivery[d].id)' = x
    <3>1. PICK i \in executing : i = delivery[d].id
      BY <2>1
    <3>2. SlotOf(i)' = SlotOf(i)
      BY SlotKept
    <3> QED
      BY <2>1, <3>1, <3>2 DEF SlotOf
  <2>4. Target(d)' = reports'[x].state
    BY <2>1, <2>3 DEF Target
  <2>5. Target(d) = reports[x].state
    BY DEF Target
  <2>6. CASE dpc'[d] = "reread"
    <3>1. /\ outcome # Failed /\ Final(reports[x].state)
          /\ reports' = Finished(d) /\ reply'[d] = "none"
      BY <1>3, <2>1, <2>6 DEF CompleteReport, FailReport, Reply, Onward
    <3>2. Final(reports'[x].state)
      BY <3>1 DEF Finished
    <3> QED
      BY <2>1, <2>4, <2>6, <3>1, <3>2 DEF DelOK, Final
  <2>7. CASE dpc'[d] = "done" /\ reply'[d] \notin {"recorded", "conflict"}
    BY <2>1, <2>7 DEF DelOK
  <2>8. CASE dpc'[d] = "done" /\ reply'[d] = "conflict"
    <3>1. outcome = Failed
      BY <1>3, <2>8 DEF CompleteReport, FailReport, Reply, Onward
    <3> QED
      BY <2>1, <2>8, <3>1 DEF DelOK
  <2>9. CASE dpc'[d] = "done" /\ reply'[d] = "recorded"
    <3>1. /\ reports' = Finished(d)
          /\ ~ Final(reports[x].state) \/ (outcome = Failed /\ existing[d].state = Failed)
      BY <1>3, <2>9 DEF CompleteReport, FailReport, Reply, Onward
    <3>2. reports'[x].state = outcome
      <4>1. CASE ~ Final(reports[x].state)
        BY <2>2, <3>1, <4>1 DEF Finished, Row
      <4>2. CASE Final(reports[x].state) /\ outcome = Failed /\ existing[d].state = Failed
        BY <2>1, <2>5, <3>1, <4>2 DEF Finished
      <4> QED
        BY <3>1, <4>1, <4>2
    <3> QED
      BY <2>1, <2>4, <2>9, <3>2 DEF DelOK
  <2>10. \/ dpc'[d] = "reread"
         \/ dpc'[d] = "done"
    BY <1>3, <2>1 DEF CompleteReport, FailReport, Reply, Onward
  <2> QED
    BY <2>6, <2>7, <2>8, <2>9, <2>10
<1>4. ASSUME NEW d \in Deliveries, RereadReport(d)
      PROVE  DelOK(d)'
  <2>1. /\ dpc[d] = "reread" /\ dpc'[d] = "done"
        /\ delivery[d] \in Delivery /\ delivery[d].id \in executing
        /\ delivery[d].outcome \in Outcomes /\ Final(Target(d))
        /\ UNCHANGED <<reports, executing, delivery, existing>>
    BY <1>4 DEF RereadReport, Reply, DelOK
  <2>2. Target(d)' = Target(d)
    BY <2>1 DEF Target, SlotOf
  <2>3. \/ reply'[d] = "recorded" /\ Target(d) = delivery[d].outcome
        \/ reply'[d] = "conflict" /\ Target(d) # delivery[d].outcome
        \/ reply'[d] = "database_unavailable"
    BY <1>4 DEF RereadReport, Reply, Target
  <2> QED
    BY <2>1, <2>2, <2>3 DEF DelOK, Final
<1>5. ASSUME NEW d \in Deliveries, DropDelivery(d)
      PROVE  DelOK(d)'
  BY <1>5 DEF DropDelivery, DelOK
<1>6. ASSUME NEW e \in Deliveries, UNCHANGED delVars
      PROVE  SameDelivery(e)
  BY <1>6 DEF delVars, SameDelivery
<1>7. ASSUME NEW s \in Submissions,
             \/ \E sl \in Slots, req \in Requests : Submit(s, sl, req)
             \/ Insert(s) \/ Select(s) \/ Handoff(s) \/ HandedOff(s)
             \/ MarkRunning(s) \/ DropSubmission(s)
      PROVE  UNCHANGED delVars
  BY <1>7 DEF Submit, Insert, Select, Handoff, HandedOff, MarkRunning, DropSubmission
<1>8. ASSUME NEW id \in posted, BigwigAccepts(id)
      PROVE  UNCHANGED delVars
  BY <1>8 DEF BigwigAccepts
<1> HIDE DEF IInv, TypeOK
<1>9. CASE UNCHANGED delVars
  BY <1>6, <1>9, DelKept
<1>10. CASE \E d \in Deliveries :
              \/ \E id \in executing, definition \in Definitions,
                   outcome \in Outcomes \union {Malformed} :
                   Deliver(d, id, definition, outcome)
              \/ FindReport(d) \/ CompleteReport(d) \/ RereadReport(d)
              \/ FailReport(d) \/ DropDelivery(d)
  <2>1. PICK d \in Deliveries :
              \/ \E id \in executing, definition \in Definitions,
                   outcome \in Outcomes \union {Malformed} :
                   Deliver(d, id, definition, outcome)
              \/ FindReport(d) \/ CompleteReport(d) \/ RereadReport(d)
              \/ FailReport(d) \/ DropDelivery(d)
    BY <1>10
  <2>2. DelOK(d)'
    BY <2>1, <1>1, <1>2, <1>3, <1>4, <1>5
  <2>3. ASSUME NEW e \in Deliveries, e # d
        PROVE  DelOK(e)'
    <3>1. SameDelivery(e)
      BY <2>1, <2>3, OtherDeliveriesStay
    <3> QED
      BY <3>1, DelKept
  <2> QED
    BY <2>2, <2>3
<1> QED
  BY <1>7, <1>8, <1>9, <1>10 DEF Next

(***************************************************************************)
(* Types.                                                                  *)
(***************************************************************************)

(* Every row that is stored or moved is a row.                             *)
LEMMA RowsTyped ==
    ASSUME IInv, TableStep
    PROVE  DOMAIN reports' \subseteq Slots /\ reports' \in [DOMAIN reports' -> Row]
<1> USE DEF IInv, TypeOK
<1>1. CASE UNCHANGED reports
  BY <1>1
<1>2. CASE \E s \in Submissions : Stores(s)
  <2>1. PICK s \in Submissions : Stores(s)
    BY <1>2
  <2>2. slot[s] \in Slots /\ request[s] \in Requests
    BY <2>1 DEF Stores, SubOK
  <2>3. [id |-> s, request |-> request[s], state |-> "accepted"] \in Row
    BY <2>2 DEF Row
  <2> QED
    BY <2>1, <2>2, <2>3 DEF Stores
<1>3. CASE \E x \in DOMAIN reports, state \in {"running"} \union Outcomes : Moves(x, state)
  <2>1. PICK x \in DOMAIN reports, state \in {"running"} \union Outcomes : Moves(x, state)
    BY <1>3
  <2>2. [reports[x] EXCEPT !.state = state] \in Row
    BY DEF Row
  <2> QED
    BY <2>1, <2>2 DEF Moves
<1> QED
  BY <1>1, <1>2, <1>3 DEF TableStep

SubmissionsTyped ==
    /\ pc \in [Submissions -> SubmissionStages]
    /\ slot \in [Submissions -> Slots \union {<<>>}]
    /\ request \in [Submissions -> Requests \union {NoRow}]
    /\ row \in [Submissions -> Row \union {NoRow}]
    /\ answer \in [Submissions -> Answers]

DeliveriesTyped ==
    /\ dpc \in [Deliveries -> DeliveryStages]
    /\ delivery \in [Deliveries -> Delivery \union {NoRow}]
    /\ existing \in [Deliveries -> Row \union {NoRow}]
    /\ reply \in [Deliveries -> Replies]

(* Every step keeps the types.                                             *)
LEMMA TypeStep ==
    ASSUME IInv, Next, TableStep, Onwards
    PROVE  TypeOK'
<1>1. DOMAIN reports' \subseteq Slots /\ reports' \in [DOMAIN reports' -> Row]
  BY RowsTyped
<1>2. executing' \subseteq posted' /\ posted' \subseteq Submissions
  BY DEF Onwards, Holds, Row, IInv, TypeOK
<1>3. SubmissionsTyped'
  <2> USE DEF IInv, TypeOK, SubmissionsTyped, SubmissionStages, Answers
  <2>1. ASSUME NEW s \in Submissions, NEW sl \in Slots, NEW req \in Requests,
               Submit(s, sl, req)
        PROVE  SubmissionsTyped'
    BY <2>1 DEF Submit, Proceed, Answer
  <2>2. ASSUME NEW s \in Submissions, Insert(s)
        PROVE  SubmissionsTyped'
    <3>1. [id |-> s, request |-> request[s], state |-> "accepted"] \in Row
      BY <2>2 DEF Insert, SubOK, Row
    <3> QED
      BY <2>2, <3>1 DEF Insert, Proceed, Answer
  <2>3. ASSUME NEW s \in Submissions, Select(s)
        PROVE  SubmissionsTyped'
    <3>1. reports[slot[s]] \in Row
      BY <2>3 DEF Select, SubOK
    <3> QED
      BY <2>3, <3>1 DEF Select, Proceed, Answer
  <2>4. ASSUME NEW s \in Submissions,
               \/ Handoff(s) \/ HandedOff(s) \/ MarkRunning(s) \/ DropSubmission(s)
        PROVE  SubmissionsTyped'
    BY <2>4 DEF Handoff, HandedOff, MarkRunning, DropSubmission, Proceed, Answer
  <2>5. CASE UNCHANGED subVars
    BY <2>5 DEF subVars
  <2>6. ASSUME NEW d \in Deliveries,
               \/ \E id \in executing, definition \in Definitions,
                    outcome \in Outcomes \union {Malformed} :
                    Deliver(d, id, definition, outcome)
               \/ FindReport(d) \/ CompleteReport(d) \/ RereadReport(d)
               \/ FailReport(d) \/ DropDelivery(d)
        PROVE  UNCHANGED subVars
    BY <2>6 DEF Deliver, FindReport, CompleteReport, RereadReport, FailReport, DropDelivery
  <2>7. ASSUME NEW id \in posted, BigwigAccepts(id)
        PROVE  UNCHANGED subVars
    BY <2>7 DEF BigwigAccepts
  <2> HIDE DEF IInv, TypeOK, SubmissionsTyped
  <2> QED
    BY <2>1, <2>2, <2>3, <2>4, <2>5, <2>6, <2>7 DEF Next
<1>4. DeliveriesTyped'
  <2> USE DEF IInv, TypeOK, DeliveriesTyped, DeliveryStages, Replies
  <2>1. ASSUME NEW d \in Deliveries, NEW id \in executing,
               NEW definition \in Definitions,
               NEW outcome \in Outcomes \union {Malformed},
               Deliver(d, id, definition, outcome)
        PROVE  DeliveriesTyped'
    <3>1. [id |-> id, definition |-> definition, outcome |-> outcome] \in Delivery
      BY DEF Delivery
    <3> QED
      BY <2>1, <3>1 DEF Deliver, Onward, Reply
  <2>2. ASSUME NEW d \in Deliveries, FindReport(d)
        PROVE  DeliveriesTyped'
    <3>1. delivery[d].id \in executing
      BY <2>2 DEF FindReport, DelOK
    <3>2. reports[SlotOf(delivery[d].id)] \in Row
      BY <3>1, ExecutingNamed
    <3> QED
      BY <2>2, <3>2 DEF FindReport, Reply, Onward
  <2>3. ASSUME NEW d \in Deliveries,
               CompleteReport(d) \/ RereadReport(d) \/ FailReport(d) \/ DropDelivery(d)
        PROVE  DeliveriesTyped'
    BY <2>3 DEF CompleteReport, RereadReport, FailReport, DropDelivery, Reply, Onward
  <2>4. CASE UNCHANGED delVars
    BY <2>4 DEF delVars
  <2>5. ASSUME NEW s \in Submissions,
               \/ \E sl \in Slots, req \in Requests : Submit(s, sl, req)
               \/ Insert(s) \/ Select(s) \/ Handoff(s) \/ HandedOff(s)
               \/ MarkRunning(s) \/ DropSubmission(s)
        PROVE  UNCHANGED delVars
    BY <2>5 DEF Submit, Insert, Select, Handoff, HandedOff, MarkRunning, DropSubmission
  <2>6. ASSUME NEW id \in posted, BigwigAccepts(id)
        PROVE  UNCHANGED delVars
    BY <2>6 DEF BigwigAccepts
  <2> HIDE DEF IInv, TypeOK, DeliveriesTyped
  <2> QED
    BY <2>1, <2>2, <2>3, <2>4, <2>5, <2>6 DEF Next
<1> QED
  BY <1>1, <1>2, <1>3, <1>4 DEF TypeOK, SubmissionsTyped, DeliveriesTyped

(***************************************************************************)
(* The invariant.                                                          *)
(***************************************************************************)

(* IInv holds when the process starts on an empty table.                   *)
LEMMA Initially == Init => IInv
<1> SUFFICES ASSUME Init
             PROVE  IInv
  OBVIOUS
<1>1. TypeOK
  BY DEF Init, TypeOK, SubmissionStages, DeliveryStages, Answers, Replies
<1>2. RowsInv
  BY DEF Init, RowsInv
<1>3. \A s \in Submissions : SubOK(s)
  BY DEF Init, SubOK
<1>4. \A d \in Deliveries : DelOK(d)
  BY DEF Init, DelOK
<1> QED
  BY <1>1, <1>2, <1>3, <1>4 DEF IInv

(* Every step of a submission, of a delivery and of Bigwig preserves IInv. *)
LEMMA Inductive == IInv /\ [Next]_vars => IInv'
<1> SUFFICES ASSUME IInv, [Next]_vars
             PROVE  IInv'
  OBVIOUS
<1>1. CASE Next
  <2>1. TableStep
    BY <1>1, TableSteps
  <2>2. RowsKept
    BY <2>1, TableKept
  <2>3. Onwards
    BY <1>1, OnwardSteps
  <2>4. TypeOK'
    BY <1>1, <2>1, <2>3, TypeStep
  <2>5. RowsInv'
    BY <2>1, <2>3, <2>4, RowsStep
  <2>6. \A s \in Submissions : SubOK(s)'
    BY <1>1, <2>2, <2>3, <2>5, SubStep
  <2>7. \A d \in Deliveries : DelOK(d)'
    BY <1>1, <2>2, <2>3, <2>5, DelStep
  <2> QED
    BY <2>4, <2>5, <2>6, <2>7 DEF IInv
<1>2. CASE UNCHANGED vars
  BY <1>2 DEF vars, subVars, delVars, IInv, TypeOK, RowsInv, SubOK, Holds, DelOK,
              Target, SlotOf
<1> QED
  BY <1>1, <1>2

(* Every reachable state satisfies the inductive invariant.                *)
THEOREM ReportsInvariant == Spec => []IInv
<1> QED
  BY Initially, Inductive, PTL DEF Spec

(* The variables keep their types, so the public_id of every row is that   *)
(* of a submission and every outcome in the table is one Bigwig delivered. *)
THEOREM ReportsTypeCorrect == Spec => []TypeOK
<1>1. IInv => TypeOK
  BY DEF IInv
<1> QED
  BY <1>1, ReportsInvariant, PTL

(* A client that was told 202 has a report Bigwig took responsibility for. *)
THEOREM ReceiptsHandedOff == Spec => []ReceiptMeansHandedOff
<1>1. IInv => ReceiptMeansHandedOff
  BY DEF IInv, SubOK, ReceiptMeansHandedOff
<1> QED
  BY <1>1, ReportsInvariant, PTL

(* A completion is refused as a conflict only when the report ended        *)
(* otherwise.                                                              *)
THEOREM ConflictsJustified == Spec => []CompletionConflictJustified
<1>1. IInv => CompletionConflictJustified
  BY DEF IInv, DelOK, Target, CompletionConflictJustified
<1> QED
  BY <1>1, ReportsInvariant, PTL

(***************************************************************************)
(* The refinement.                                                         *)
(***************************************************************************)

(* A receipt, once given, stands: neither its answer nor its row changes.  *)
LEMMA ReceiptsStand ==
    ASSUME IInv, Next
    PROVE  \A s \in Submissions :
              answer[s] = "accepted" =>
                 /\ answer'[s] = "accepted" /\ slot'[s] = slot[s]
                 /\ request'[s] = request[s] /\ row'[s] = row[s]
<1> SUFFICES ASSUME NEW s \in Submissions, answer[s] = "accepted"
             PROVE  Same(s)
  BY DEF Same
<1>1. pc[s] = "done"
  BY DEF IInv, SubOK
<1>2. ASSUME NEW t \in Submissions,
             \/ \E sl \in Slots, req \in Requests : Submit(t, sl, req)
             \/ Insert(t) \/ Select(t) \/ Handoff(t) \/ HandedOff(t)
             \/ MarkRunning(t) \/ DropSubmission(t)
      PROVE  Same(s)
  <2>1. pc[t] # "done"
    BY <1>2 DEF Submit, Insert, Select, Handoff, HandedOff, MarkRunning, DropSubmission
  <2> QED
    BY <1>1, <1>2, <2>1, OthersStay
<1>3. ASSUME NEW id \in posted, BigwigAccepts(id)
      PROVE  Same(s)
  BY <1>3 DEF BigwigAccepts, subVars, Same
<1>4. ASSUME NEW d \in Deliveries,
             \/ \E id \in executing, definition \in Definitions,
                  outcome \in Outcomes \union {Malformed} :
                  Deliver(d, id, definition, outcome)
             \/ FindReport(d) \/ CompleteReport(d) \/ RereadReport(d)
             \/ FailReport(d) \/ DropDelivery(d)
      PROVE  Same(s)
  <2>1. UNCHANGED subVars
    BY <1>4 DEF Deliver, FindReport, CompleteReport, RereadReport, FailReport, DropDelivery
  <2> QED
    BY <2>1 DEF subVars, Same
<1> QED
  BY <1>2, <1>3, <1>4 DEF Next

(* An acknowledgement, once given, stands.                                 *)
LEMMA AcknowledgementsStand ==
    ASSUME IInv, Next
    PROVE  \A d \in Deliveries :
              reply[d] = "recorded" =>
                 reply'[d] = "recorded" /\ delivery'[d] = delivery[d]
<1> SUFFICES ASSUME NEW d \in Deliveries, reply[d] = "recorded"
             PROVE  SameDelivery(d)
  BY DEF SameDelivery
<1>1. dpc[d] = "done"
  BY DEF IInv, DelOK
<1>2. ASSUME NEW e \in Deliveries,
             \/ \E id \in executing, definition \in Definitions,
                  outcome \in Outcomes \union {Malformed} :
                  Deliver(e, id, definition, outcome)
             \/ FindReport(e) \/ CompleteReport(e) \/ RereadReport(e)
             \/ FailReport(e) \/ DropDelivery(e)
      PROVE  SameDelivery(d)
  <2>1. dpc[e] # "done"
    BY <1>2 DEF Deliver, FindReport, CompleteReport, RereadReport, FailReport, DropDelivery
  <2> QED
    BY <1>1, <1>2, <2>1, OtherDeliveriesStay
<1>3. ASSUME UNCHANGED delVars
      PROVE  SameDelivery(d)
  BY <1>3 DEF delVars, SameDelivery
<1>4. ASSUME NEW s \in Submissions,
             \/ \E sl \in Slots, req \in Requests : Submit(s, sl, req)
             \/ Insert(s) \/ Select(s) \/ Handoff(s) \/ HandedOff(s)
             \/ MarkRunning(s) \/ DropSubmission(s)
      PROVE  UNCHANGED delVars
  BY <1>4 DEF Submit, Insert, Select, Handoff, HandedOff, MarkRunning, DropSubmission
<1>5. ASSUME NEW id \in posted, BigwigAccepts(id)
      PROVE  UNCHANGED delVars
  BY <1>5 DEF BigwigAccepts
<1> QED
  BY <1>2, <1>3, <1>4, <1>5 DEF Next

(* What clients and Bigwig are told is true of the table, and stays told.  *)
LEMMA StepIsTruthful ==
    ASSUME IInv, Next, IInv'
    PROVE  Ledger!Truthful
<1>1. Receipts \subseteq Receipts'
  BY ReceiptsStand DEF Receipts
<1>2. ASSUME NEW x \in Receipts'
      PROVE  /\ x.slot \in DOMAIN reports'
             /\ x.id = reports'[x.slot].id
             /\ x.request = reports'[x.slot].request
  <2>1. PICK s \in Submissions :
           /\ answer'[s] = "accepted"
           /\ x = [slot |-> slot'[s], id |-> row'[s].id, request |-> request'[s]]
    BY <1>2 DEF Receipts
  <2>2. Holds(s)'
    BY <2>1 DEF IInv, SubOK
  <2> QED
    BY <2>1, <2>2 DEF Holds
<1>3. Recorded \subseteq Recorded'
  BY AcknowledgementsStand DEF Recorded
<1>4. ASSUME NEW x \in Recorded'
      PROVE  \E sl \in DOMAIN reports' :
                reports'[sl].id = x.id /\ reports'[sl].state = x.outcome
  <2>1. PICK d \in Deliveries :
           /\ reply'[d] = "recorded"
           /\ x = [id |-> delivery'[d].id, outcome |-> delivery'[d].outcome]
    BY <1>4 DEF Recorded
  <2>2. DelOK(d)' /\ RowsInv' /\ TypeOK'
    BY DEF IInv
  <2>3. dpc'[d] # "idle"
    BY <2>1, <2>2 DEF DelOK
  <2>4. delivery'[d].id \in executing' /\ Target(d)' = delivery'[d].outcome
    BY <2>1, <2>2, <2>3 DEF DelOK
  <2>5. PICK y \in DOMAIN reports' : reports'[y].id = delivery'[d].id
    BY <2>2, <2>4 DEF RowsInv, TypeOK
  <2>6. SlotOf(delivery[d].id)' = y
    BY <2>2, <2>5, SlotUnique DEF RowsInv, SlotOf
  <2> QED
    BY <2>1, <2>4, <2>5, <2>6 DEF Target
<1> QED
  BY <1>1, <1>2, <1>3, <1>4 DEF Ledger!Truthful

(* Every step is a step of the ledger, or changes nothing it speaks of.    *)
LEMMA StepImplementsLedger ==
    ASSUME IInv, [Next]_vars, IInv'
    PROVE  [Ledger!Next]_(Ledger!vars)
<1>1. CASE UNCHANGED vars
  BY <1>1 DEF vars, subVars, delVars, Ledger!vars, Receipts, Recorded
<1>2. CASE Next
  <2>1. Ledger!Truthful
    BY <1>2, StepIsTruthful
  <2>2. TableStep
    BY <1>2, TableSteps
  <2>3. CASE UNCHANGED reports
    BY <2>1, <2>3 DEF Ledger!Next
  <2>4. CASE \E s \in Submissions : Stores(s)
    <3>1. PICK s \in Submissions : Stores(s)
      BY <2>4
    <3>2. slot[s] \in Slots /\ request[s] \in Requests
      BY <3>1 DEF IInv, SubOK, Stores
    <3>3. \A x \in DOMAIN reports : reports[x].id # s
      BY <3>1 DEF Stores, IInv, RowsInv
    <3>4. Ledger!Create(slot[s], s, request[s])
      BY <3>1, <3>3 DEF Stores, Ledger!Create
    <3> QED
      BY <2>1, <3>2, <3>4 DEF Ledger!Next
  <2>5. CASE \E x \in DOMAIN reports, state \in {"running"} \union Outcomes : Moves(x, state)
    <3>1. PICK x \in DOMAIN reports, state \in {"running"} \union Outcomes : Moves(x, state)
      BY <2>5
    <3>2. reports[x] \in Row
      BY DEF IInv, TypeOK
    <3>3. \/ Ledger!Move(x, {"accepted"}, "running")
          \/ state \in Ledger!Outcomes /\ Ledger!Move(x, Ledger!Open, state)
      BY <3>1, <3>2 DEF Moves, Row, Final, Outcomes, Ledger!Move, Ledger!Open,
                        Ledger!Outcomes
    <3> QED
      BY <2>1, <3>3 DEF Ledger!Next
  <2> QED
    BY <2>2, <2>3, <2>4, <2>5 DEF TableStep
<1> QED
  BY <1>1, <1>2

(* The handlers implement the ledger of the contract, for every number of  *)
(* concurrent submissions and deliveries.                                  *)
THEOREM ReportsImplementLedger == Spec => ImplementsLedger
<1>1. Init => Ledger!Init
  <2> SUFFICES ASSUME Init
               PROVE  Ledger!Init
    OBVIOUS
  <2>1. Receipts = {} /\ Recorded = {}
    BY DEF Init, Receipts, Recorded
  <2> QED
    BY <2>1 DEF Init, Ledger!Init
<1>2. IInv /\ [Next]_vars /\ IInv' => [Ledger!Next]_(Ledger!vars)
  BY StepImplementsLedger
<1> QED
  BY <1>1, <1>2, ReportsInvariant, PTL DEF Spec, ImplementsLedger, Ledger!Spec

===============================================================================
