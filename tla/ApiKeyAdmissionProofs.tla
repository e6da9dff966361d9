----------------------- MODULE ApiKeyAdmissionProofs -----------------------
(***************************************************************************)
(* Proofs about ApiKeyAdmission, for any number of requests, keys, owners  *)
(* and windows and for any limits.                                         *)
(***************************************************************************)
EXTENDS ApiKeyAdmission, FiniteSetTheorems, TLAPS

(***************************************************************************)
(* Type correctness.                                                       *)
(***************************************************************************)

LEMMA ReserveTyped ==
    ASSUME NEW ws, IsWindowMap(ws), NEW k \in Keys, NEW limit \in Nat,
           NEW at \in Nat
    PROVE  /\ IsWindowMap(AfterReserve(ws, k, limit, at))
           /\ CurrentWindow(ws, k, at) \in MinuteWindow
  <1> DEFINE w == CurrentWindow(ws, k, at)
             full == IF w.used < limit THEN [w EXCEPT !.used = @ + 1] ELSE w
             kept == Retained(ws, at)
  <1>1. w \in MinuteWindow
    BY DEF IsWindowMap, CurrentWindow, MinuteWindow
  <1>2. full \in MinuteWindow
    BY <1>1 DEF MinuteWindow
  <1>3. IsWindowMap(kept)
    BY DEF IsWindowMap, Retained
  <1> HIDE DEF w, full, kept
  <1>4. IsWindowMap(Inserted(kept, k, full))
    BY <1>2, <1>3 DEF IsWindowMap, Inserted
  <1>5. AfterReserve(ws, k, limit, at) =
            IF limit = 0 THEN ws ELSE Inserted(kept, k, full)
    BY DEF AfterReserve, w, full, kept
  <1> QED
    BY <1>1, <1>4, <1>5 DEF w

LEMMA ReleaseTyped ==
    ASSUME NEW ws, IsWindowMap(ws), NEW k, NEW reservation
    PROVE  IsWindowMap(AfterRelease(ws, k, reservation))
  BY DEF IsWindowMap, AfterRelease, MinuteWindow

LEMMA CountTyped ==
    ASSUME usage \in [Keys -> [Days -> [Counters -> Nat]]], today \in Days,
           NEW k \in Keys, NEW c \in Counters, Count(k, c)
    PROVE  usage' \in [Keys -> [Days -> [Counters -> Nat]]]
  BY DEF Count

LEMMA MoveTyped ==
    ASSUME TypeOK, NEW r \in Requests,
           \/ \E stage \in Stages : Continue(r, stage)
           \/ \E a \in Refusals : Refuse(r, a)
    PROVE  /\ pc' \in [Requests -> Stages]
           /\ answer' \in [Requests -> Answers]
  <1>1. "done" \in Stages /\ Refusals \subseteq Answers
    BY DEF Stages, Answers
  <1>2. CASE \E stage \in Stages : Continue(r, stage)
    BY <1>2 DEF TypeOK, Continue
  <1>3. CASE \E a \in Refusals : Refuse(r, a)
    BY <1>1, <1>3 DEF TypeOK, Refuse
  <1> QED
    BY <1>2, <1>3

LEMMA BaselineTyped ==
    /\ {Unscoped(c) : c \in LegacyBaseline} \subseteq CapabilityGrant
    /\ {Unscoped(c) : c \in AccountBaseline} \subseteq CapabilityGrant
    /\ \A gs \in SUBSET CapabilityGrant : WithBaseline(gs) \subseteq CapabilityGrant
  <1>1. \A c \in Capabilities : Unscoped(c) \in CapabilityGrant
    BY DEF Unscoped, CapabilityGrant, GrantStatus
  <1> QED
    BY <1>1, IssuanceAssumption DEF WithBaseline

(* Past authentication, a request's credential is a key of the table.      *)
Authenticated ==
    \A r \in Requests :
        pc[r] \in InFlight \ {"authenticate"} => presented[r] \in Keys

TypeInv == TypeOK /\ Authenticated

(* What the proofs below take from the types and from the assumptions.     *)
LEMMA NoneApart == None \notin Nat /\ None \notin Days
  BY DEF None, Days

LEMMA LimitsTyped ==
    ASSUME NEW k \in Keys
    PROVE  RequestsPerMinute(k) \in Nat /\ RequestsPerDay(k) \in Nat
  <1>1. PolicyOf[k] \in [requests_per_minute : Nat, requests_per_day : Nat]
    BY AdmissionAssumption
  <1> QED
    BY <1>1 DEF RequestsPerMinute, RequestsPerDay

LEMMA DelayTyped == LockDelay \in Nat /\ WINDOW \in Nat /\ LockDelay < WINDOW
  BY AdmissionAssumption, WindowAssumption

LEMMA LimiterTyped ==
    ASSUME TypeInv
    PROVE  /\ now \in Nat /\ booted_at \in Nat
           /\ IsWindowMap(windows)
           /\ slot \in [Requests -> Nat \union {None}]
  <1>1. /\ now \in 0 .. MaxTime /\ booted_at \in 0 .. now
        /\ IsWindowMap(windows)
        /\ slot \in [Requests -> Nat \union {None}]
    BY DEF TypeInv, TypeOK
  <1>2. MaxTime \in Nat
    BY AdmissionAssumption
  <1> QED
    BY <1>1, <1>2

LEMMA RequestsTyped ==
    ASSUME TypeInv
    PROVE  /\ pc \in [Requests -> Stages]
           /\ presented \in [Requests -> Keys \union {NoKey}]
           /\ outcome \in [Requests -> {"none"} \union DailyOutcomes]
           /\ slot \in [Requests -> Nat \union {None}]
           /\ accepted_on \in [Requests -> Days \union {None}]
           /\ answer \in [Requests -> Answers]
           /\ today \in Days
  BY DEF TypeInv, TypeOK

(* A request past authentication moves on with the same credential.        *)
LEMMA AuthenticatedFrame ==
    ASSUME TypeInv, NEW r \in Requests, pc[r] \in InFlight \ {"authenticate"},
           presented' = presented,
           \E stage : pc' = [pc EXCEPT ![r] = stage]
    PROVE  Authenticated'
  <1>1. pc \in [Requests -> Stages] /\ Authenticated
    BY DEF TypeInv, TypeOK
  <1> QED
    BY <1>1 DEF Authenticated

LEMMA TypeInit == Init => TypeInv
  <1> SUFFICES ASSUME Init PROVE TypeInv
    OBVIOUS
  <1>1. IsWindowMap(windows)
    BY DEF Init, IsWindowMap, NoWindows
  <1>2. TypeOK
    BY <1>1, AdmissionAssumption, IssuanceAssumption
       DEF Init, TypeOK, Days, None, Stages, Answers
  <1>3. Authenticated
    BY DEF Init, Authenticated, InFlight
  <1> QED
    BY <1>2, <1>3 DEF TypeInv

LEMMA TypeStep == TypeInv /\ [Next]_vars => TypeInv'
  <1> SUFFICES ASSUME TypeInv, [Next]_vars PROVE TypeInv'
    OBVIOUS
  <1> USE AdmissionAssumption
  <1> USE DEF dbVars, clockVars, reqVars
  <1> DEFINE Moves(r) == \/ \E stage \in Stages : Continue(r, stage)
                         \/ \E a \in Refusals : Refuse(r, a)
  <1>0. {"authenticate", "find_policy", "find_grants", "reserve", "increment",
         "settle", "limited", "handler", "record", "done", "dropped"}
            \subseteq Stages
    BY DEF Stages, InFlight
  <1>t. TypeOK /\ Authenticated
    BY DEF TypeInv
  <1>1. ASSUME NEW r \in Requests, NEW k \in Keys \union {NoKey},
               NEW c \in Capabilities, Arrive(r, k, c)
        PROVE  TypeInv'
    <2>1. TypeOK'
      BY <1>0, <1>t, <1>1 DEF Arrive, TypeOK
    <2>2. Authenticated'
      BY <1>t, <1>1 DEF Arrive, TypeOK, Authenticated, InFlight
    <2> QED
      BY <2>1, <2>2 DEF TypeInv
  <1>2. ASSUME NEW r \in Requests, Authenticate(r)
        PROVE  TypeInv'
    <2>1. Moves(r)
      BY <1>0, <1>2 DEF Authenticate, Refusals
    <2>2. TypeOK'
      BY <1>t, <1>2, <2>1, MoveTyped DEF Authenticate, TypeOK
    <2>3. Authenticated'
      <3>1. CASE presented[r] \in Keys /\ Continue(r, "find_policy")
        BY <1>t, <1>2, <3>1 DEF Authenticate, Continue, TypeOK, Authenticated
      <3>2. CASE \E a \in Refusals : Refuse(r, a)
        BY <1>t, <1>2, <3>2 DEF Authenticate, Refuse, TypeOK, Authenticated,
                                InFlight
      <3> QED
        BY <1>2, <3>1, <3>2, Zenon DEF Authenticate, Refusals
    <2> QED
      BY <2>2, <2>3 DEF TypeInv
  <1>3. ASSUME NEW r \in Requests, FindPolicy(r)
        PROVE  TypeInv'
    <2>1. Moves(r)
      BY <1>0, <1>3 DEF FindPolicy, Refusals
    <2>2. TypeOK'
      BY <1>t, <1>3, <2>1, MoveTyped DEF FindPolicy, TypeOK
    <2>3. Authenticated'
      BY <1>3, AuthenticatedFrame, Zenon DEF FindPolicy, Continue, Refuse, InFlight
    <2> QED
      BY <2>2, <2>3 DEF TypeInv
  <1>4. ASSUME NEW r \in Requests, FindGrants(r)
        PROVE  TypeInv'
    <2>1. Moves(r)
      BY <1>0, <1>4, Zenon DEF FindGrants, Refusals
    <2>2. TypeOK'
      BY <1>t, <1>4, <2>1, MoveTyped DEF FindGrants, TypeOK
    <2>3. Authenticated'
      BY <1>4, AuthenticatedFrame, Zenon DEF FindGrants, Continue, Refuse, InFlight
    <2> QED
      BY <2>2, <2>3 DEF TypeInv
  <1>5. ASSUME NEW r \in Requests, NEW at \in Sampled, Reserve(r, at)
        PROVE  TypeInv'
    <2>1. presented[r] \in Keys /\ at \in Nat
      BY <1>t, <1>5 DEF Reserve, Authenticated, InFlight, Sampled, TypeOK
    <2>2. RequestsPerMinute(presented[r]) \in Nat
      BY <2>1, LimitsTyped
    <2>3. /\ IsWindowMap(windows')
          /\ CurrentWindow(windows, presented[r], at).started_at \in Nat
      BY <1>t, <1>5, <2>1, <2>2, ReserveTyped DEF Reserve, TypeOK, MinuteWindow
    <2>4. slot' \in [Requests -> Nat \union {None}]
      BY <1>t, <1>5, <2>3, Zenon DEF Reserve, TypeOK
    <2>5. Moves(r)
      BY <1>0, <1>5, Zenon DEF Reserve
    <2>6. TypeOK'
      BY <1>t, <1>5, <2>3, <2>4, <2>5, MoveTyped, Zenon DEF Reserve, TypeOK
    <2>7. Authenticated'
      BY <1>5, AuthenticatedFrame, Zenon DEF Reserve, Continue, InFlight
    <2> QED
      BY <2>6, <2>7 DEF TypeInv
  <1>6. ASSUME NEW r \in Requests, IncrementDailyAccepted(r)
        PROVE  TypeInv'
    <2>1. presented[r] \in Keys
      BY <1>t, <1>6, Zenon DEF IncrementDailyAccepted, Authenticated, InFlight
    <2>2. usage' \in [Keys -> [Days -> [Counters -> Nat]]]
      BY <1>t, <1>6, <2>1, CountTyped
         DEF IncrementDailyAccepted, TypeOK, Counters
    <2>3. outcome' \in [Requests -> {"none"} \union DailyOutcomes]
      BY <1>t, <1>6 DEF IncrementDailyAccepted, TypeOK, DailyOutcomes,
                        DailyOutcome
    <2>4. accepted_on' \in [Requests -> Days \union {None}]
      BY <1>t, <1>6, Zenon DEF IncrementDailyAccepted, TypeOK
    <2>5. pc' \in [Requests -> Stages]
      BY <1>0, <1>t, <1>6 DEF IncrementDailyAccepted, TypeOK
    <2>6. TypeOK'
      BY <1>t, <1>6, <2>2, <2>3, <2>4, <2>5, Zenon DEF IncrementDailyAccepted, TypeOK
    <2>7. Authenticated'
      BY <1>6, AuthenticatedFrame, Zenon DEF IncrementDailyAccepted, InFlight
    <2> QED
      BY <2>6, <2>7 DEF TypeInv
  <1>7. ASSUME NEW r \in Requests, Settle(r)
        PROVE  TypeInv'
    <2>1. IsWindowMap(windows')
      BY <1>t, <1>7, ReleaseTyped DEF Settle, Release, TypeOK
    <2>2. slot' \in [Requests -> Nat \union {None}] /\ handled' \subseteq Requests
      BY <1>t, <1>7 DEF Settle, Release, TypeOK
    <2>3. Moves(r)
      BY <1>0, <1>7, Zenon DEF Settle, Refusals
    <2>4. TypeOK'
      BY <1>t, <1>7, <2>1, <2>2, <2>3, MoveTyped, Zenon DEF Settle, TypeOK
    <2>5. Authenticated'
      BY <1>7, AuthenticatedFrame, Zenon DEF Settle, Continue, Refuse, InFlight
    <2> QED
      BY <2>4, <2>5 DEF TypeInv
  <1>8. ASSUME NEW r \in Requests, RecordRateLimited(r)
        PROVE  TypeInv'
    <2>1. presented[r] \in Keys
      BY <1>t, <1>8, Zenon DEF RecordRateLimited, Authenticated, InFlight
    <2>2. usage' \in [Keys -> [Days -> [Counters -> Nat]]]
      BY <1>t, <1>8, <2>1, CountTyped DEF RecordRateLimited, TypeOK, Counters
    <2>3. Moves(r)
      BY <1>8, Zenon DEF RecordRateLimited, Refusals
    <2>4. TypeOK'
      BY <1>t, <1>8, <2>2, <2>3, MoveTyped DEF RecordRateLimited, TypeOK
    <2>5. Authenticated'
      BY <1>8, AuthenticatedFrame, Zenon DEF RecordRateLimited, Refuse, InFlight
    <2> QED
      BY <2>4, <2>5 DEF TypeInv
  <1>9. ASSUME NEW r \in Requests, NEW class \in HandlerAnswers,
               Respond(r, class)
        PROVE  TypeInv'
    <2>1. class \in Answers
      BY DEF Answers
    <2>2. TypeOK'
      BY <1>0, <1>t, <1>9, <2>1 DEF Respond, TypeOK
    <2>3. Authenticated'
      BY <1>9, AuthenticatedFrame, Zenon DEF Respond, InFlight
    <2> QED
      BY <2>2, <2>3 DEF TypeInv
  <1>10. ASSUME NEW r \in Requests, RecordResponseClass(r)
         PROVE  TypeInv'
    <2>1. presented[r] \in Keys
      BY <1>t, <1>10, Zenon DEF RecordResponseClass, Authenticated, InFlight
    <2>2. usage' \in [Keys -> [Days -> [Counters -> Nat]]]
      <3>1. CASE UNCHANGED usage
        BY <1>t, <3>1 DEF TypeOK
      <3>2. CASE answer[r] \in ResponseClasses /\ Count(presented[r], answer[r])
        <4>1. answer[r] \in Counters
          BY <3>2 DEF Counters, ResponseClasses
        <4> QED
          BY <1>t, <2>1, <3>2, <4>1, CountTyped DEF TypeOK
      <3> QED
        BY <1>10, <3>1, <3>2, Zenon DEF RecordResponseClass
    <2>3. TypeOK'
      BY <1>0, <1>t, <1>10, <2>2 DEF RecordResponseClass, TypeOK
    <2>4. Authenticated'
      BY <1>10, AuthenticatedFrame, Zenon DEF RecordResponseClass, InFlight
    <2> QED
      BY <2>3, <2>4 DEF TypeInv
  <1>11. ASSUME NEW r \in Requests, Disconnect(r)
         PROVE  TypeInv'
    <2>1. TypeOK'
      BY <1>0, <1>t, <1>11 DEF Disconnect, TypeOK
    <2>2. Authenticated'
      BY <1>t, <1>11 DEF Disconnect, TypeOK, Authenticated, InFlight
    <2> QED
      BY <2>1, <2>2 DEF TypeInv
  <1>12. ASSUME UNCHANGED reqVars, TypeOK'
         PROVE  TypeInv'
    BY <1>t, <1>12 DEF Authenticated, TypeInv
  <1>13. ASSUME NEW k \in Revocable, RevokeByPrefix(k)
         PROVE  TypeInv'
    BY <1>t, <1>12, <1>13 DEF RevokeByPrefix, TypeOK
  <1>14. ASSUME NEW k \in Unstable, PolicyDisappears(k)
         PROVE  TypeInv'
    BY <1>t, <1>12, <1>14 DEF PolicyDisappears, TypeOK
  <1>15. ASSUME NEW k \in Expiring, KeyExpires(k)
         PROVE  TypeInv'
    BY <1>t, <1>12, <1>15 DEF KeyExpires, TypeOK
  <1>16. ASSUME NEW a \in Accounts, NEW status \in {"suspended", "closed"},
                SetAccountStatus(a, status)
         PROVE  TypeInv'
    BY <1>t, <1>12, <1>16 DEF SetAccountStatus, TypeOK
  <1>17. ASSUME NEW hg \in ExpiringGrants, GrantExpires(hg[1], hg[2])
         PROVE  TypeInv'
    <2>1. hg[1] \in Owners \union Keys /\ hg[2] \in CapabilityGrant
      OBVIOUS
    <2>2. [hg[2] EXCEPT !.status = "expired"] \in CapabilityGrant
      BY <2>1 DEF CapabilityGrant, GrantStatus
    <2>3. grants' \in [Owners \union Keys -> SUBSET CapabilityGrant]
      BY <1>t, <1>17, <2>1, <2>2, Zenon DEF GrantExpires, TypeOK
    <2> QED
      BY <1>t, <1>12, <1>17, <2>3 DEF GrantExpires, TypeOK
  <1>i. /\ {Unscoped(c) : c \in LegacyBaseline} \subseteq CapabilityGrant
        /\ {Unscoped(c) : c \in AccountBaseline} \subseteq CapabilityGrant
        /\ \A gs \in SUBSET CapabilityGrant : WithBaseline(gs) \subseteq CapabilityGrant
    BY BaselineTyped
  <1>22. ASSUME NEW x \in Keys, IssueApiKey(x)
         PROVE  TypeInv'
    <2>1. grants' \in [Owners \union Keys -> SUBSET CapabilityGrant]
      BY <1>t, <1>i, <1>22 DEF IssueApiKey, InsertIssuedKey, TypeOK
    <2> QED
      BY <1>t, <1>12, <1>22, <2>1 DEF IssueApiKey, InsertIssuedKey, TypeOK
  <1>23. ASSUME NEW x \in Keys, IssueAccountApiKey(x)
         PROVE  TypeInv'
    <2>1. grants' \in [Owners \union Keys -> SUBSET CapabilityGrant]
      BY <1>t, <1>i, <1>23 DEF IssueAccountApiKey, InsertIssuedKey, TypeOK
    <2> QED
      BY <1>t, <1>12, <1>23, <2>1 DEF IssueAccountApiKey, InsertIssuedKey, TypeOK
  <1>18. ASSUME Tick
         PROVE  TypeInv'
    <2>1. /\ now' \in 0 .. MaxTime /\ booted_at' \in 0 .. now'
          /\ today' \in Days /\ restarts' \in 0 .. MaxRestarts
      BY <1>t, <1>18 DEF Tick, TypeOK
    <2> QED
      BY <1>t, <1>12, <1>18, <2>1 DEF Tick, TypeOK
  <1>19. ASSUME Midnight
         PROVE  TypeInv'
    <2>1. today' \in Days
      BY <1>t, <1>19 DEF Midnight, TypeOK, Days
    <2> QED
      BY <1>t, <1>12, <1>19, <2>1 DEF Midnight, TypeOK
  <1>20. ASSUME Restart
         PROVE  TypeInv'
    <2>1. IsWindowMap(windows')
      BY <1>20 DEF Restart, IsWindowMap, NoWindows
    <2>2. pc' \in [Requests -> Stages]
      BY <1>0, <1>t, <1>20 DEF Restart, TypeOK
    <2>3. TypeOK'
      <3>1. /\ now' \in 0 .. MaxTime /\ booted_at' \in 0 .. now'
            /\ today' \in Days /\ restarts' \in 0 .. MaxRestarts
        BY <1>t, <1>20 DEF Restart, TypeOK
      <3> QED
        BY <1>t, <1>20, <2>1, <2>2, <3>1 DEF Restart, TypeOK
    <2>4. Authenticated'
      BY <1>20, Zenon DEF Restart, Authenticated, InFlight
    <2> QED
      BY <2>3, <2>4 DEF TypeInv
  <1>21. CASE UNCHANGED vars
    BY <1>t, <1>21 DEF vars, TypeInv, TypeOK, Authenticated
  <1> QED
    BY <1>1, <1>2, <1>3, <1>4, <1>5, <1>6, <1>7, <1>8, <1>9, <1>10, <1>11,
       <1>13, <1>14, <1>15, <1>16, <1>17, <1>18, <1>19, <1>20, <1>21, <1>22,
       <1>23
       DEF Next, RequestStep

LEMMA TypeInvariant == Spec => []TypeInv
  BY TypeInit, TypeStep, PTL DEF Spec

(* Every variable keeps its type: in particular the limiter map only holds *)
(* natural counts for known keys and the usage counters are never negative.*)
THEOREM TypeCorrect == Spec => []TypeOK
  BY TypeInvariant, PTL DEF TypeInv

(***************************************************************************)
(* What a request owns at each stage.                                      *)
(***************************************************************************)

Untouched(r) ==
    slot[r] = None /\ accepted_on[r] = None /\ r \notin handled

Served(r) ==
    slot[r] # None /\ accepted_on[r] # None /\ r \in handled

(* A request holds a slot of the minute limiter from its reservation on,   *)
(* and gives it back before it is refused; it runs the handler only with a *)
(* slot and after it was counted in the daily quota.                       *)
FlowOf(r) ==
    /\ pc[r] \in {"idle", "authenticate", "find_policy", "find_grants",
                  "reserve", "limited"} => Untouched(r) /\ answer[r] = "none"
    /\ pc[r] = "increment" =>
          /\ slot[r] # None /\ accepted_on[r] = None /\ r \notin handled
          /\ answer[r] = "none"
    /\ pc[r] = "settle" =>
          /\ slot[r] # None /\ r \notin handled /\ answer[r] = "none"
          /\ outcome[r] = "accepted" => accepted_on[r] # None
          /\ outcome[r] = "limit_exceeded" => accepted_on[r] = None
    /\ pc[r] = "handler" => Served(r) /\ answer[r] = "none"
    /\ pc[r] = "record" => Served(r) /\ answer[r] \notin Refusals
    /\ pc[r] = "dropped" => /\ answer[r] \notin Refusals
                            /\ r \in handled => Served(r)
    /\ pc[r] = "done" =>
          \/ Served(r) /\ answer[r] \notin Refusals
          \/ /\ slot[r] = None /\ r \notin handled /\ answer[r] \in Refusals
             /\ answer[r] = "rate_limited" => accepted_on[r] = None

Flow == \A r \in Requests : FlowOf(r)

LEMMA FlowFrame ==
    ASSUME NEW q \in Requests, FlowOf(q),
           pc'[q] = pc[q], slot'[q] = slot[q], outcome'[q] = outcome[q],
           accepted_on'[q] = accepted_on[q], answer'[q] = answer[q],
           q \in handled' <=> q \in handled
    PROVE  FlowOf(q)'
  BY Zenon DEF FlowOf, Untouched, Served

LEMMA FlowInit == Init => Flow
  BY DEF Init, Flow, FlowOf, Untouched

LEMMA FlowEarly ==
    ASSUME NEW r \in Requests, FlowOf(r),
           pc \in [Requests -> Stages], answer \in [Requests -> Answers],
           pc[r] \in {"authenticate", "find_policy", "find_grants"},
           slot' = slot, accepted_on' = accepted_on, handled' = handled,
           \/ \E stage \in {"find_policy", "find_grants", "reserve"} :
                 Continue(r, stage)
           \/ \E a \in Refusals : Refuse(r, a)
    PROVE  FlowOf(r)'
  <1>1. Untouched(r) /\ answer[r] = "none"
    BY DEF FlowOf
  <1>2. CASE \E stage \in {"find_policy", "find_grants", "reserve"} :
                Continue(r, stage)
    <2>1. /\ pc'[r] \in {"find_policy", "find_grants", "reserve"}
          /\ answer' = answer
      BY <1>2 DEF Continue
    <2> QED
      BY <1>1, <2>1, Zenon DEF FlowOf, Untouched
  <1>3. CASE \E a \in Refusals : Refuse(r, a)
    <2>1. pc'[r] = "done" /\ answer'[r] \in Refusals
      BY <1>3 DEF Refuse
    <2> QED
      BY <1>1, <2>1, Zenon DEF FlowOf, Untouched
  <1> QED
    BY <1>2, <1>3

LEMMA FlowStep == TypeInv /\ Flow /\ [Next]_vars => Flow'
  <1> SUFFICES ASSUME TypeInv, Flow, [Next]_vars, NEW q \in Requests
               PROVE  FlowOf(q)'
    BY DEF Flow
  <1>t. /\ pc \in [Requests -> Stages]
        /\ presented \in [Requests -> Keys \union {NoKey}]
        /\ outcome \in [Requests -> {"none"} \union DailyOutcomes]
        /\ slot \in [Requests -> Nat \union {None}]
        /\ accepted_on \in [Requests -> Days \union {None}]
        /\ answer \in [Requests -> Answers]
        /\ today \in Days
        /\ FlowOf(q)
    BY RequestsTyped DEF Flow
  <1>n. None \notin Nat /\ None \notin Days
    BY NoneApart
  <1> USE DEF dbVars, clockVars, reqVars
  <1>1. ASSUME NEW r \in Requests, NEW k \in Keys \union {NoKey},
               NEW c \in Capabilities, Arrive(r, k, c)
        PROVE  FlowOf(q)'
    <2>1. CASE q # r
      BY <1>t, <1>1, <2>1, FlowFrame DEF Arrive
    <2>2. CASE q = r
      BY <1>t, <1>1, <2>2 DEF Arrive, FlowOf, Untouched, Served
    <2> QED
      BY <2>1, <2>2
  <1>2. ASSUME NEW r \in Requests, Authenticate(r)
        PROVE  FlowOf(q)'
    <2>1. CASE q # r
      BY <1>t, <1>2, <2>1, FlowFrame DEF Authenticate, Continue, Refuse
    <2>2. CASE q = r
      BY <1>t, <1>2, <2>2, FlowEarly DEF Authenticate, Refusals
    <2> QED
      BY <2>1, <2>2
  <1>3. ASSUME NEW r \in Requests, FindPolicy(r)
        PROVE  FlowOf(q)'
    <2>1. CASE q # r
      BY <1>t, <1>3, <2>1, FlowFrame DEF FindPolicy, Continue, Refuse
    <2>2. CASE q = r
      BY <1>t, <1>3, <2>2, FlowEarly DEF FindPolicy, Refusals
    <2> QED
      BY <2>1, <2>2
  <1>4. ASSUME NEW r \in Requests, FindGrants(r)
        PROVE  FlowOf(q)'
    <2>1. CASE q # r
      BY <1>t, <1>4, <2>1, FlowFrame DEF FindGrants, Continue, Refuse
    <2>2. CASE q = r
      BY <1>t, <1>4, <2>2, FlowEarly DEF FindGrants, Refusals
    <2> QED
      BY <2>1, <2>2
  <1>5. ASSUME NEW r \in Requests, NEW at \in Sampled, Reserve(r, at)
        PROVE  FlowOf(q)'
    <2>1. CASE q # r
      BY <1>t, <1>5, <2>1, FlowFrame DEF Reserve, Continue
    <2>2. CurrentWindow(windows, presented[r], at).started_at \in Nat
      <3>1. presented[r] \in Keys
        BY <1>t, <1>5 DEF Reserve, TypeInv, Authenticated, InFlight
      <3>2. at \in Nat /\ IsWindowMap(windows)
        BY <1>5, LimiterTyped DEF Sampled
      <3> QED
        BY <3>1, <3>2 DEF CurrentWindow, IsWindowMap, MinuteWindow
    <2>3. CASE q = r
      <3>1. \/ /\ pc'[q] = "increment" /\ slot'[q] \in Nat
            \/ /\ pc'[q] = "limited" /\ slot'[q] = slot[q]
        BY <1>t, <1>5, <2>2, <2>3 DEF Reserve, Continue
      <3> QED
        BY <1>t, <1>n, <1>5, <2>3, <3>1 DEF Reserve, Continue, FlowOf, Untouched
    <2> QED
      BY <2>1, <2>3
  <1>6. ASSUME NEW r \in Requests, IncrementDailyAccepted(r)
        PROVE  FlowOf(q)'
    <2>1. CASE q # r
      BY <1>t, <1>6, <2>1, FlowFrame DEF IncrementDailyAccepted
    <2>2. CASE q = r
      <3>1. pc'[q] = "settle" /\ slot' = slot /\ handled' = handled /\ answer' = answer
        BY <1>t, <1>6, <2>2 DEF IncrementDailyAccepted
      <3>2. /\ slot[q] # None /\ accepted_on[q] = None /\ q \notin handled
            /\ answer[q] = "none"
        BY <1>t, <1>6, <2>2 DEF IncrementDailyAccepted, FlowOf
      <3>3. /\ outcome'[q] = "accepted" => accepted_on'[q] # None
            /\ outcome'[q] = "limit_exceeded" => accepted_on'[q] = None
        BY <1>t, <1>n, <1>6, <2>2, <3>2 DEF IncrementDailyAccepted
      <3> QED
        BY <3>1, <3>2, <3>3, Zenon DEF FlowOf
    <2> QED
      BY <2>1, <2>2
  <1>7. ASSUME NEW r \in Requests, Settle(r)
        PROVE  FlowOf(q)'
    <2>1. CASE q # r
      BY <1>t, <1>7, <2>1, FlowFrame DEF Settle, Continue, Refuse, Release
    <2>2. CASE q = r
      <3>1. /\ slot[q] # None /\ q \notin handled /\ answer[q] = "none"
            /\ outcome[q] = "accepted" => accepted_on[q] # None
            /\ outcome[q] = "limit_exceeded" => accepted_on[q] = None
            /\ accepted_on' = accepted_on
        BY <1>t, <1>7, <2>2 DEF Settle, FlowOf
      <3>2. CASE outcome[q] = "accepted"
        <4>1. /\ pc'[q] = "handler" /\ slot' = slot /\ answer' = answer
              /\ q \in handled'
          BY <1>t, <1>7, <2>2, <3>2 DEF Settle, Continue
        <4> QED
          BY <3>1, <3>2, <4>1, Zenon DEF FlowOf, Served
      <3>3. CASE outcome[q] = "limit_exceeded"
        <4>1. /\ pc'[q] = "limited" /\ slot'[q] = None /\ answer' = answer
              /\ handled' = handled
          BY <1>t, <1>7, <2>2, <3>3 DEF Settle, Continue, Release
        <4> QED
          BY <3>1, <3>3, <4>1 DEF FlowOf, Untouched
      <3>4. CASE outcome[q] \in {"missing_policy", "error"}
        <4>1. /\ pc'[q] = "done" /\ slot'[q] = None
              /\ answer'[q] = "unavailable" /\ handled' = handled
          BY <1>t, <1>7, <2>2, <3>4 DEF Settle, Refuse, Release
        <4> QED
          BY <3>1, <4>1, Zenon DEF FlowOf, Refusals
      <3> QED
        BY <1>7, <2>2, <3>2, <3>3, <3>4, Zenon DEF Settle
    <2> QED
      BY <2>1, <2>2
  <1>8. ASSUME NEW r \in Requests, RecordRateLimited(r)
        PROVE  FlowOf(q)'
    <2>1. CASE q # r
      BY <1>t, <1>8, <2>1, FlowFrame DEF RecordRateLimited, Refuse
    <2>2. CASE q = r
      BY <1>t, <1>8, <2>2 DEF RecordRateLimited, Refuse, Refusals, FlowOf, Untouched, Served
    <2> QED
      BY <2>1, <2>2
  <1>9. ASSUME NEW r \in Requests, NEW class \in HandlerAnswers,
               Respond(r, class)
        PROVE  FlowOf(q)'
    <2>1. CASE q # r
      BY <1>t, <1>9, <2>1, FlowFrame DEF Respond
    <2>2. CASE q = r
      <3>1. class \notin Refusals
        BY AdmissionAssumption DEF Refusals, ResponseClasses
      <3>2. Served(q) /\ pc'[q] = "record" /\ answer'[q] = class
        BY <1>t, <1>9, <2>2 DEF Respond, FlowOf
      <3> QED
        BY <1>9, <3>1, <3>2 DEF Respond, FlowOf, Served
    <2> QED
      BY <2>1, <2>2
  <1>10. ASSUME NEW r \in Requests, RecordResponseClass(r)
        PROVE  FlowOf(q)'
    <2>1. CASE q # r
      BY <1>t, <1>10, <2>1, FlowFrame DEF RecordResponseClass
    <2>2. CASE q = r
      BY <1>t, <1>10, <2>2 DEF RecordResponseClass, FlowOf, Untouched, Served
    <2> QED
      BY <2>1, <2>2
  <1>11. ASSUME NEW r \in Requests, Disconnect(r)
        PROVE  FlowOf(q)'
    <2>1. CASE q # r
      BY <1>t, <1>11, <2>1, FlowFrame DEF Disconnect
    <2>2. CASE q = r
      <3>1. pc[q] \in InFlight /\ pc'[q] = "dropped"
        BY <1>t, <1>11, <2>2, AdmissionAssumption DEF Disconnect
      <3>2. answer[q] \notin Refusals /\ (q \in handled => Served(q))
        BY <1>t, <3>1 DEF FlowOf, Untouched, InFlight, Refusals
      <3> QED
        BY <1>11, <3>1, <3>2, Zenon DEF Disconnect, FlowOf, Served
    <2> QED
      BY <2>1, <2>2
  <1>12. ASSUME UNCHANGED reqVars
         PROVE  FlowOf(q)'
    BY <1>t, <1>12, FlowFrame
  <1>13. ASSUME Restart
         PROVE  FlowOf(q)'
    BY <1>t, <1>13, Zenon DEF Restart, InFlight, FlowOf, Untouched, Served,
                       Refusals
  <1>14. CASE UNCHANGED vars
    BY <1>12, <1>14 DEF vars
  <1> QED
    BY <1>1, <1>2, <1>3, <1>4, <1>5, <1>6, <1>7, <1>8, <1>9, <1>10, <1>11,
       <1>12, <1>13, <1>14, Zenon
       DEF Next, RequestStep, RevokeByPrefix, PolicyDisappears, KeyExpires,
           SetAccountStatus, GrantExpires, IssueApiKey,
       IssueAccountApiKey, InsertIssuedKey, Tick, Midnight

LEMMA FlowInvariant == Spec => []Flow
  BY FlowInit, FlowStep, TypeInvariant, PTL DEF Spec

(* For any traffic, a refused request keeps no slot of the minute limiter  *)
(* and never ran the handler, and a rate-limited one was not counted as    *)
(* accepted.                                                               *)
THEOREM RefusalsLeaveNoTrace == Spec => []RefusedUncharged
  <1>1. TypeInv /\ Flow => RefusedUncharged
    <2> SUFFICES ASSUME TypeInv, Flow, NEW r \in Requests,
                        answer[r] \in Refusals
                 PROVE  /\ slot[r] = None /\ r \notin handled
                        /\ answer[r] = "rate_limited" => accepted_on[r] = None
      BY DEF RefusedUncharged, Refusals
    <2>1. FlowOf(r) /\ pc[r] \in Stages
      BY DEF Flow, TypeInv, TypeOK
    <2>2. pc[r] = "done"
      BY <2>1, Zenon DEF FlowOf, Stages, InFlight, Refusals
    <2> QED
      BY <2>1, <2>2 DEF FlowOf
  <1> QED
    BY <1>1, TypeInvariant, FlowInvariant, PTL

(***************************************************************************)
(* The minute limiter.  WindowAccounting alone is not inductive: a release *)
(* must not meet a later window with the same started_at, and a new window *)
(* must start after every reservation of its key, which is what WindowAge  *)
(* says.  It needs that a reservation waits for the mutex for less than    *)
(* WINDOW (LockDelay < WINDOW).                                            *)
(***************************************************************************)

LiveWindows ==
    \A k \in DOMAIN windows :
        /\ booted_at <= windows[k].started_at
        /\ windows[k].started_at <= now

(* The windows of the reservations still held: the key's current one, an   *)
(* earlier one, or one that expired or died with the process.              *)
WindowAge ==
    \A r \in Requests :
        slot[r] # None =>
            /\ slot[r] <= now
            /\ presented[r] \in DOMAIN windows =>
                  slot[r] <= windows[presented[r]].started_at
            /\ presented[r] \notin DOMAIN windows =>
                  slot[r] < booted_at \/ slot[r] + WINDOW <= now

(* No window, open or past, was ever charged beyond the limit.             *)
SlotBound ==
    \A k \in Keys, t \in Nat :
        Cardinality(ChargedTo(k, t)) <= RequestsPerMinute(k)

WindowInv == LiveWindows /\ WindowAge /\ WindowAccounting /\ SlotBound

LEMMA ChargedFinite ==
    ASSUME NEW k, NEW t
    PROVE  /\ IsFiniteSet(ChargedTo(k, t))
           /\ Cardinality(ChargedTo(k, t)) \in Nat
  <1>1. IsFiniteSet(Requests) /\ ChargedTo(k, t) \subseteq Requests
    BY AdmissionAssumption DEF ChargedTo
  <1> QED
    BY <1>1, FS_Subset, FS_CardinalityType

(* The window a reservation is taken from counts exactly the requests      *)
(* charged to it, and no reservation of the key is younger.                *)
LEMMA CurrentWindowCharged ==
    ASSUME TypeInv, WindowInv, NEW k \in Keys, NEW at \in Sampled
    PROVE  LET w == CurrentWindow(windows, k, at)
           IN  /\ w \in MinuteWindow
               /\ booted_at <= w.started_at /\ w.started_at <= now
               /\ w.used = Cardinality(ChargedTo(k, w.started_at))
               /\ \A r \in Requests : slot[r] # None /\ presented[r] = k =>
                     slot[r] <= w.started_at
  <1> DEFINE w == CurrentWindow(windows, k, at)
  <1> USE DelayTyped
  <1>1. /\ at \in Nat /\ booted_at <= at /\ at <= now /\ now - at <= LockDelay
        /\ now \in Nat /\ booted_at \in Nat /\ IsWindowMap(windows)
        /\ slot \in [Requests -> Nat \union {None}]
    BY LimiterTyped DEF Sampled
  <1>2. CASE k \in DOMAIN windows /\ Open(windows[k], at)
    <2>1. w = windows[k] /\ w \in MinuteWindow
      BY <1>1, <1>2 DEF CurrentWindow, IsWindowMap
    <2>2. /\ booted_at <= w.started_at /\ w.started_at <= now
          /\ w.used = Cardinality(ChargedTo(k, w.started_at))
      BY <1>2, <2>1 DEF WindowInv, LiveWindows, WindowAccounting
    <2>3. \A r \in Requests : slot[r] # None /\ presented[r] = k =>
             slot[r] <= w.started_at
      BY <1>2, <2>1 DEF WindowInv, WindowAge
    <2> HIDE DEF w
    <2> QED
      BY <2>1, <2>2, <2>3, Zenon DEF w
  <1>3. CASE ~ (k \in DOMAIN windows /\ Open(windows[k], at))
    <2>1. w = [started_at |-> at, used |-> 0] /\ w \in MinuteWindow
      BY <1>1, <1>3, Zenon DEF CurrentWindow, MinuteWindow
    <2>2. ASSUME NEW r \in Requests, slot[r] # None, presented[r] = k
          PROVE  slot[r] < at
      <3>1. slot[r] \in Nat
        BY <1>1, <2>2
      <3>2. CASE k \in DOMAIN windows
        <4>1. windows[k].started_at \in Nat /\ at - windows[k].started_at >= WINDOW
          BY <1>1, <1>3, <3>2 DEF Open, IsWindowMap, MinuteWindow
        <4>2. slot[r] <= windows[k].started_at
          BY <2>2, <3>2 DEF WindowInv, WindowAge
        <4> QED
          BY <1>1, <3>1, <4>1, <4>2
      <3>3. CASE k \notin DOMAIN windows
        <4>1. slot[r] < booted_at \/ slot[r] + WINDOW <= now
          BY <2>2, <3>3 DEF WindowInv, WindowAge
        <4> QED
          BY <1>1, <3>1, <4>1
      <3> QED
        BY <3>2, <3>3
    <2>3. ChargedTo(k, at) = {}
      <3>1. ASSUME NEW r \in Requests, slot[r] = at, presented[r] = k
            PROVE  FALSE
        BY <1>1, <2>2, <3>1, NoneApart
      <3> QED
        BY <3>1 DEF ChargedTo
    <2>4. w.started_at = at /\ w.used = Cardinality(ChargedTo(k, at))
      BY <2>1, <2>3, FS_EmptySet
    <2>5. \A r \in Requests : slot[r] # None /\ presented[r] = k =>
             slot[r] <= at
      BY <1>1, <2>2
    <2> HIDE DEF w
    <2> QED
      BY <1>1, <2>1, <2>4, <2>5 DEF w
  <1> QED
    BY <1>2, <1>3, Zenon

(* A step that leaves the limiter and the reservations alone.              *)
LEMMA WindowFrame ==
    ASSUME TypeInv, WindowInv,
           windows' = windows, booted_at' = booted_at,
           now' \in Nat, now <= now',
           \A q \in Requests : /\ slot'[q] = slot[q]
                               /\ slot[q] # None => presented'[q] = presented[q]
    PROVE  WindowInv'
  <1>1. ASSUME NEW k, NEW t \in Nat
        PROVE  ChargedTo(k, t)' = ChargedTo(k, t)
    <2>1. ASSUME NEW q \in Requests
          PROVE  /\ presented'[q] = k /\ slot'[q] = t
                 <=> presented[q] = k /\ slot[q] = t
      BY NoneApart
    <2> QED
      BY <2>1 DEF ChargedTo
  <1>2. /\ IsWindowMap(windows) /\ now \in Nat /\ booted_at \in Nat
        /\ slot \in [Requests -> Nat \union {None}]
    BY LimiterTyped
  <1>3. LiveWindows'
    BY <1>2 DEF WindowInv, LiveWindows, IsWindowMap, MinuteWindow
  <1>4. WindowAge'
    <2> SUFFICES ASSUME NEW q \in Requests, slot'[q] # None
                 PROVE  /\ slot'[q] <= now'
                        /\ presented'[q] \in DOMAIN windows =>
                              slot'[q] <= windows[presented'[q]].started_at
                        /\ presented'[q] \notin DOMAIN windows =>
                              slot'[q] < booted_at \/ slot'[q] + WINDOW <= now'
      BY DEF WindowAge
    <2>1. slot[q] \in Nat /\ slot'[q] = slot[q] /\ presented'[q] = presented[q]
      BY <1>2
    <2>2. PICK v \in Nat : v = slot[q]
      BY <2>1, Zenon
    <2>3. /\ v <= now
          /\ presented[q] \in DOMAIN windows =>
                v <= windows[presented[q]].started_at
          /\ presented[q] \notin DOMAIN windows =>
                v < booted_at \/ v + WINDOW <= now
      BY <2>1, <2>2 DEF WindowInv, WindowAge
    <2>4. v <= now' /\ (v + WINDOW <= now => v + WINDOW <= now')
      BY <1>2, <2>3, DelayTyped
    <2> QED
      BY <2>1, <2>2, <2>3, <2>4
  <1>5. WindowAccounting'
    BY <1>1, <1>2 DEF WindowInv, WindowAccounting, IsWindowMap, MinuteWindow
  <1>6. SlotBound'
    BY <1>1 DEF WindowInv, SlotBound, RequestsPerMinute
  <1> QED
    BY <1>3, <1>4, <1>5, <1>6 DEF WindowInv

(* A reservation, granted or not.                                          *)
LEMMA WindowReserve ==
    ASSUME TypeInv, Flow, WindowInv, NEW r \in Requests, NEW at \in Sampled,
           Reserve(r, at)
    PROVE  WindowInv'
  <1> DEFINE k == presented[r]
             limit == RequestsPerMinute(k)
             w == CurrentWindow(windows, k, at)
             full == IF w.used < limit THEN [w EXCEPT !.used = @ + 1] ELSE w
             kept == {x \in DOMAIN windows : Open(windows[x], at)}
  <1> USE DelayTyped
  <1>1. /\ k \in Keys /\ at \in Nat /\ at <= now /\ limit \in Nat
        /\ now \in Nat /\ booted_at \in Nat /\ IsWindowMap(windows)
        /\ slot \in [Requests -> Nat \union {None}]
        /\ now' = now /\ booted_at' = booted_at /\ presented' = presented
    <2>1. presented[r] \in Keys
      BY Zenon DEF Reserve, TypeInv, Authenticated, InFlight
    <2>2. at \in Nat /\ at <= now
      BY LimiterTyped DEF Sampled
    <2> QED
      BY <2>1, <2>2, LimiterTyped, LimitsTyped, Zenon DEF Reserve, clockVars
  <1>2. slot[r] = None
    BY Zenon DEF Flow, FlowOf, Untouched, Reserve
  <1>3. /\ w \in MinuteWindow
        /\ booted_at <= w.started_at /\ w.started_at <= now
        /\ w.used = Cardinality(ChargedTo(k, w.started_at))
        /\ \A q \in Requests : slot[q] # None /\ presented[q] = k =>
              slot[q] <= w.started_at
    BY <1>1, CurrentWindowCharged
  <1>4. CASE limit = 0
    <2>1. windows' = windows /\ slot' = slot
      BY <1>1, <1>4 DEF Reserve, AfterReserve, CanReserve
    <2> QED
      BY <1>1, <2>1, WindowFrame
  <1>5. CASE limit # 0
    <2>1. /\ DOMAIN windows' = kept \union {k}
          /\ \A x \in kept \ {k} : windows'[x] = windows[x]
          /\ windows'[k] = full
      BY <1>5 DEF Reserve, AfterReserve, Inserted, Retained
    <2>2. full.started_at = w.started_at
      BY <1>3 DEF MinuteWindow
    <2>3. \/ /\ w.used < limit
             /\ slot' = [slot EXCEPT ![r] = w.started_at]
          \/ ~ (w.used < limit) /\ slot' = slot
      <3>1. CanReserve(windows, k, limit, at) <=> w.used < limit
        BY <1>1, <1>5 DEF CanReserve
      <3> QED
        BY <3>1, Zenon DEF Reserve
    <2> HIDE DEF w, full
    <2>4. LiveWindows'
      BY <1>1, <1>3, <2>1, <2>2, Zenon DEF WindowInv, LiveWindows
    <2>k. PICK key \in Keys : key = k
      BY <1>1
    <2>s. PICK start \in Nat : start = w.started_at
      BY <1>3, Zenon DEF MinuteWindow
    <2> HIDE DEF k
    <2>5. ASSUME NEW x, NEW t \in Nat, x # key \/ t # start
          PROVE  ChargedTo(x, t)' = ChargedTo(x, t)
      <3>1. ASSUME NEW q \in Requests
            PROVE  presented[q] = x /\ slot'[q] = t <=>
                   presented[q] = x /\ slot[q] = t
        BY <1>1, <1>2, <2>3, <2>5, <2>k, <2>s, NoneApart DEF k
      <3> QED
        BY <1>1, <3>1, Zenon DEF ChargedTo
    <2>6. /\ full.used = Cardinality(ChargedTo(key, start)')
          /\ Cardinality(ChargedTo(key, start)') <= limit
      <3>1. CASE w.used < limit
        <4>1. ChargedTo(key, start)' = ChargedTo(key, start) \union {r}
          BY <1>1, <2>3, <2>k, <2>s, <3>1 DEF ChargedTo, k
        <4>2. r \notin ChargedTo(key, start)
          BY <1>2, NoneApart DEF ChargedTo
        <4>3. Cardinality(ChargedTo(key, start)') = w.used + 1
          <5>1. /\ IsFiniteSet(ChargedTo(key, start))
                /\ Cardinality(ChargedTo(key, start)) = w.used
            BY <1>3, <2>k, <2>s, ChargedFinite
          <5>2. Cardinality(ChargedTo(key, start) \union {r}) =
                   Cardinality(ChargedTo(key, start)) + 1
            BY <4>2, <5>1, FS_AddElement, Zenon
          <5> QED
            BY <4>1, <5>1, <5>2
        <4>4. full.used = w.used + 1
          BY <1>3, <3>1 DEF full, MinuteWindow
        <4> QED
          BY <1>1, <1>3, <3>1, <4>3, <4>4 DEF MinuteWindow
      <3>2. CASE ~ (w.used < limit)
        <4>1. ChargedTo(key, start)' = ChargedTo(key, start)
          BY <1>1, <2>3, <3>2 DEF ChargedTo
        <4>2. full = w
          BY <3>2 DEF full
        <4>3. Cardinality(ChargedTo(key, start)) <= limit
          BY <2>k DEF WindowInv, SlotBound
        <4> QED
          BY <1>3, <2>k, <2>s, <4>1, <4>2, <4>3, Zenon
      <3> QED
        BY <3>1, <3>2
    <2>7. WindowAccounting'
      <3>1. ASSUME NEW x \in DOMAIN windows', NEW t \in Nat,
                   t = windows'[x].started_at
            PROVE  windows'[x].used = Cardinality(ChargedTo(x, t)')
        <4>1. CASE x = key
          BY <2>1, <2>2, <2>6, <2>k, <2>s, <3>1, <4>1, Zenon
        <4>2. CASE x # key
          <5>1. windows'[x] = windows[x] /\ x \in DOMAIN windows
            BY <2>1, <2>k, <3>1, <4>2, Zenon
          <5>2. windows[x].used = Cardinality(ChargedTo(x, t))
            BY <3>1, <5>1, Zenon DEF WindowInv, WindowAccounting
          <5> QED
            BY <2>5, <4>2, <5>1, <5>2, Zenon
        <4> QED
          BY <4>1, <4>2
      <3>2. \A x \in DOMAIN windows' : windows'[x].started_at \in Nat
        BY <1>1, <2>1, <2>2, <2>k, <2>s DEF IsWindowMap, MinuteWindow
      <3> QED
        BY <3>1, <3>2, Zenon DEF WindowAccounting, ChargedTo
    <2>8. WindowAge'
      <3> SUFFICES ASSUME NEW q \in Requests, slot'[q] # None
                   PROVE  /\ slot'[q] <= now
                          /\ presented[q] \in DOMAIN windows' =>
                                slot'[q] <= windows'[presented[q]].started_at
                          /\ presented[q] \notin DOMAIN windows' =>
                                slot'[q] < booted_at \/ slot'[q] + WINDOW <= now
        BY <1>1, Zenon DEF WindowAge
      <3> USE DEF k
      <3>1. CASE presented[q] = k
        <4>1. slot'[q] <= w.started_at
          BY <1>1, <1>3, <2>3, <3>1 DEF MinuteWindow
        <4>2. slot'[q] \in Nat
          BY <1>1, <1>3, <2>3 DEF MinuteWindow
        <4>3. presented[q] \in DOMAIN windows' /\ windows'[presented[q]] = full
          BY <2>1, <3>1, Zenon
        <4>4. slot'[q] <= now
          <5>1. w.started_at \in Nat /\ w.started_at <= now /\ now \in Nat
            BY <1>1, <1>3, Zenon DEF MinuteWindow
          <5> QED
            BY <4>1, <4>2, <5>1
        <4> QED
          BY <2>2, <4>1, <4>3, <4>4
      <3>2. CASE presented[q] # k
        <4>1. slot'[q] = slot[q] /\ slot[q] \in Nat /\ slot[q] <= now
          BY <1>1, <2>3, <3>2, Zenon DEF WindowInv, WindowAge
        <4>2. CASE presented[q] \in kept
          BY <2>1, <3>2, <4>1, <4>2, Zenon DEF WindowInv, WindowAge
        <4>3. CASE presented[q] \in DOMAIN windows \ kept
          <5>1. /\ windows[presented[q]].started_at \in Nat
                /\ at - windows[presented[q]].started_at >= WINDOW
            BY <1>1, <4>3 DEF Open, IsWindowMap, MinuteWindow
          <5>2. slot[q] <= windows[presented[q]].started_at
            BY <4>1, <4>3, Zenon DEF WindowInv, WindowAge
          <5>3. slot[q] + WINDOW <= now
            <6>1. /\ at \in Nat /\ at <= now /\ now \in Nat
                  /\ slot[q] \in Nat /\ WINDOW \in Nat
              BY <1>1, <4>1, Zenon
            <6>2. PICK s \in Nat, v \in Nat :
                    /\ s = windows[presented[q]].started_at /\ v = slot[q]
                    /\ at - s >= WINDOW /\ v <= s
              BY <5>1, <5>2, <6>1
            <6>3. v + WINDOW <= now
              BY <6>1, <6>2
            <6> QED
              BY <6>2, <6>3, Zenon
          <5>4. presented[q] \notin DOMAIN windows'
            BY <2>1, <3>2, <4>3, Zenon
          <5> QED
            BY <4>1, <5>3, <5>4
        <4>4. CASE presented[q] \notin DOMAIN windows
          BY <2>1, <3>2, <4>1, <4>4, Zenon DEF WindowInv, WindowAge
        <4> QED
          BY <4>2, <4>3, <4>4, Zenon
      <3> QED
        BY <3>1, <3>2
    <2>9. SlotBound'
      <3> SUFFICES ASSUME NEW x \in Keys, NEW t \in Nat
                   PROVE  Cardinality(ChargedTo(x, t)') <= RequestsPerMinute(x)
        BY Zenon DEF SlotBound, RequestsPerMinute
      <3> QED
        BY <2>5, <2>6, <2>k DEF WindowInv, SlotBound
    <2> QED
      BY <2>4, <2>7, <2>8, <2>9 DEF WindowInv
  <1> QED
    BY <1>4, <1>5

(* The request gives its reservation back.                                 *)
LEMMA WindowRelease ==
    ASSUME TypeInv, WindowInv, NEW r \in Requests, slot[r] # None,
           presented[r] \in Keys, Release(r),
           now' = now, booted_at' = booted_at, presented' = presented
    PROVE  WindowInv'
  <1>k. PICK key \in Keys : key = presented[r]
    BY Zenon
  <1>s. PICK start \in Nat : start = slot[r]
    BY LimiterTyped
  <1>1. /\ IsWindowMap(windows) /\ slot \in [Requests -> Nat \union {None}]
        /\ now \in Nat /\ booted_at \in Nat
        /\ slot' = [slot EXCEPT ![r] = None]
        /\ windows' = AfterRelease(windows, key, start)
    BY <1>k, <1>s, LimiterTyped, Zenon DEF Release
  <1>2. /\ DOMAIN windows' = DOMAIN windows
        /\ \A x \in DOMAIN windows :
              windows'[x].started_at = windows[x].started_at
        /\ \A x \in DOMAIN windows :
              x # key \/ windows[x].started_at # start => windows'[x] = windows[x]
    BY <1>1 DEF AfterRelease, IsWindowMap, MinuteWindow
  <1>3. ASSUME NEW x, NEW t \in Nat, x # key \/ t # start
        PROVE  ChargedTo(x, t)' = ChargedTo(x, t)
    <2>1. ASSUME NEW q \in Requests
          PROVE  presented[q] = x /\ slot'[q] = t <=>
                 presented[q] = x /\ slot[q] = t
      BY <1>1, <1>3, <1>k, <1>s, NoneApart
    <2> QED
      BY <2>1 DEF ChargedTo
  <1>4. /\ ChargedTo(key, start)' = ChargedTo(key, start) \ {r}
        /\ r \in ChargedTo(key, start)
    <2>1. ASSUME NEW q \in Requests
          PROVE  presented[q] = key /\ slot'[q] = start <=>
                 presented[q] = key /\ slot[q] = start /\ q # r
      BY <1>1, <1>k, <1>s, NoneApart
    <2> QED
      BY <1>k, <1>s, <2>1, Zenon DEF ChargedTo
  <1>5. /\ Cardinality(ChargedTo(key, start)') =
              Cardinality(ChargedTo(key, start)) - 1
        /\ Cardinality(ChargedTo(key, start)) \in Nat \ {0}
    <2>1. /\ IsFiniteSet(ChargedTo(key, start))
          /\ Cardinality(ChargedTo(key, start)) \in Nat
      BY ChargedFinite
    <2>2. Cardinality(ChargedTo(key, start)) # 0
      BY <1>4, <2>1, FS_EmptySet, Zenon
    <2> QED
      BY <1>4, <2>1, <2>2, FS_RemoveElement, Zenon
  <1>6. LiveWindows'
    BY <1>1, <1>2, Zenon DEF WindowInv, LiveWindows
  <1>7. WindowAge'
    <2> SUFFICES ASSUME NEW q \in Requests, slot'[q] # None
                 PROVE  /\ slot'[q] <= now
                        /\ presented[q] \in DOMAIN windows' =>
                              slot'[q] <= windows'[presented[q]].started_at
                        /\ presented[q] \notin DOMAIN windows' =>
                              slot'[q] < booted_at \/ slot'[q] + WINDOW <= now
      BY Zenon DEF WindowAge
    <2>1. slot'[q] = slot[q]
      BY <1>1
    <2> QED
      BY <1>2, <2>1, Zenon DEF WindowInv, WindowAge
  <1>8. WindowAccounting'
    <2>1. ASSUME NEW x \in DOMAIN windows, NEW t \in Nat,
                 t = windows[x].started_at
          PROVE  windows'[x].used = Cardinality(ChargedTo(x, t)')
      <3>1. windows[x].used = Cardinality(ChargedTo(x, t))
        BY <2>1 DEF WindowInv, WindowAccounting
      <3>2. CASE x = key /\ t = start
        <4>1. windows[x].used > 0
          <5>1. windows[x].used \in Nat \ {0}
            BY <1>5, <3>1, <3>2
          <5> QED
            BY <5>1
        <4>2. windows'[x].used = windows[x].used - 1
          BY <1>1, <2>1, <3>2, <4>1 DEF AfterRelease, IsWindowMap, MinuteWindow
        <4> QED
          BY <1>5, <3>1, <3>2, <4>2
      <3>3. CASE ~ (x = key /\ t = start)
        BY <1>2, <1>3, <2>1, <3>1, <3>3
      <3> QED
        BY <3>2, <3>3
    <2>2. \A x \in DOMAIN windows' : /\ x \in DOMAIN windows
                                     /\ windows[x].started_at \in Nat
                                     /\ windows[x].started_at =
                                           windows'[x].started_at
      BY <1>1, <1>2 DEF IsWindowMap, MinuteWindow
    <2>3. ASSUME NEW x \in DOMAIN windows', NEW t \in Nat,
                 t = windows'[x].started_at
          PROVE  windows'[x].used = Cardinality(ChargedTo(x, t)')
      BY <2>1, <2>2, <2>3, Zenon
    <2>4. \A x \in DOMAIN windows' : windows'[x].started_at \in Nat
      BY <2>2
    <2> QED
      BY <2>3, <2>4, Zenon DEF WindowAccounting, ChargedTo
  <1>9. SlotBound'
    <2> SUFFICES ASSUME NEW x \in Keys, NEW t \in Nat
                 PROVE  Cardinality(ChargedTo(x, t)') <= RequestsPerMinute(x)
      BY DEF SlotBound, RequestsPerMinute
    <2>1. /\ Cardinality(ChargedTo(x, t)) <= RequestsPerMinute(x)
          /\ RequestsPerMinute(x) \in Nat
      BY LimitsTyped DEF WindowInv, SlotBound
    <2>2. CASE x = key /\ t = start
      <3>1. PICK n \in Nat : n = Cardinality(ChargedTo(key, start))
        BY <1>5
      <3>2. Cardinality(ChargedTo(x, t)') = n - 1 /\ n <= RequestsPerMinute(x)
        BY <1>5, <2>1, <2>2, <3>1
      <3> QED
        BY <2>1, <3>2
    <2>3. CASE ~ (x = key /\ t = start)
      BY <1>3, <2>1, <2>3
    <2> QED
      BY <2>2, <2>3, Zenon
  <1> QED
    BY <1>6, <1>7, <1>8, <1>9, Zenon DEF WindowInv

LEMMA WindowInit == Init => WindowInv
  <1> SUFFICES ASSUME Init PROVE WindowInv
    OBVIOUS
  <1>1. LiveWindows /\ WindowAge /\ WindowAccounting
    BY Zenon DEF Init, NoWindows, LiveWindows, WindowAge, WindowAccounting
  <1>2. SlotBound
    <2> SUFFICES ASSUME NEW k \in Keys, NEW t \in Nat
                 PROVE  Cardinality(ChargedTo(k, t)) <= RequestsPerMinute(k)
      BY DEF SlotBound
    <2>1. ChargedTo(k, t) = {}
      <3>1. \A r \in Requests : slot[r] # t
        BY NoneApart, Zenon DEF Init
      <3> QED
        BY <3>1 DEF ChargedTo
    <2>2. RequestsPerMinute(k) \in Nat
      BY LimitsTyped
    <2> QED
      BY <2>1, <2>2, FS_EmptySet
  <1> QED
    BY <1>1, <1>2 DEF WindowInv

LEMMA WindowStep == TypeInv /\ Flow /\ WindowInv /\ [Next]_vars => WindowInv'
  <1> SUFFICES ASSUME TypeInv, Flow, WindowInv, [Next]_vars
               PROVE  WindowInv'
    OBVIOUS
  <1> USE DEF dbVars, clockVars, reqVars
  <1>n. now \in Nat
    BY LimiterTyped
  <1>1. ASSUME NEW r \in Requests, NEW k \in Keys \union {NoKey},
               NEW c \in Capabilities, Arrive(r, k, c)
        PROVE  WindowInv'
    <2>1. slot[r] = None
      BY <1>1, Zenon DEF Arrive, Flow, FlowOf, Untouched
    <2>2. \A q \in Requests : slot[q] # None => presented'[q] = presented[q]
      BY <1>1, <2>1, RequestsTyped DEF Arrive
    <2>3. /\ windows' = windows /\ slot' = slot
          /\ booted_at' = booted_at /\ now' = now
      BY <1>1 DEF Arrive
    <2>4. now' \in Nat /\ now <= now'
      BY <1>n, <2>3
    <2> QED
      BY <2>2, <2>3, <2>4, WindowFrame, Zenon
  <1>2. ASSUME NEW r \in Requests, NEW at \in Sampled, Reserve(r, at)
        PROVE  WindowInv'
    BY <1>2, WindowReserve
  <1>3. ASSUME NEW r \in Requests, Settle(r)
        PROVE  WindowInv'
    <2>1. slot[r] # None /\ presented[r] \in Keys
      BY <1>3, Zenon DEF Settle, Flow, FlowOf, TypeInv, Authenticated, InFlight
    <2>2. CASE outcome[r] = "accepted"
      <3>1. /\ windows' = windows /\ slot' = slot /\ presented' = presented
            /\ booted_at' = booted_at /\ now' = now
        BY <1>3, <2>2, Zenon DEF Settle
      <3>2. now' \in Nat /\ now <= now'
        BY <1>n, <3>1
      <3> QED
        BY <3>1, <3>2, WindowFrame
    <2>3. CASE outcome[r] # "accepted"
      BY <1>3, <2>1, <2>3, WindowRelease, Zenon DEF Settle
    <2> QED
      BY <2>2, <2>3
  <1>4. ASSUME windows' = windows, slot' = slot, presented' = presented,
               booted_at' = booted_at, now' = now \/ now' = now + 1
        PROVE  WindowInv'
    <2>1. now' \in Nat /\ now <= now'
      BY <1>n, <1>4
    <2> QED
      BY <1>4, <2>1, WindowFrame
  <1>5. ASSUME Restart
        PROVE  WindowInv'
    <2>1. /\ windows' = NoWindows /\ booted_at' = now + 1 /\ now' = now + 1
          /\ slot' = slot /\ presented' = presented
      BY <1>5 DEF Restart
    <2>2. LiveWindows' /\ WindowAccounting'
      BY <2>1 DEF NoWindows, LiveWindows, WindowAccounting
    <2>3. WindowAge'
      <3>1. DOMAIN windows' = {}
        BY <2>1 DEF NoWindows
      <3>2. ASSUME NEW q \in Requests, slot[q] # None
            PROVE  slot[q] <= now' /\ slot[q] < booted_at'
        <4>1. slot[q] \in Nat /\ slot[q] <= now
          BY <3>2, LimiterTyped DEF WindowInv, WindowAge
        <4> QED
          BY <1>n, <2>1, <4>1
      <3> QED
        BY <2>1, <3>1, <3>2 DEF WindowAge
    <2>4. SlotBound'
      BY <2>1 DEF WindowInv, SlotBound, ChargedTo, RequestsPerMinute
    <2> QED
      BY <2>2, <2>3, <2>4 DEF WindowInv
  <1>6. CASE UNCHANGED vars
    BY <1>4, <1>6 DEF vars
  <1>7. ASSUME NEW r \in Requests,
               \/ Authenticate(r) \/ FindPolicy(r) \/ FindGrants(r)
               \/ IncrementDailyAccepted(r) \/ RecordRateLimited(r)
               \/ RecordResponseClass(r) \/ Disconnect(r)
               \/ \E class \in HandlerAnswers : Respond(r, class)
        PROVE  WindowInv'
    BY <1>4, <1>7, Zenon DEF Authenticate, FindPolicy, FindGrants,
       IncrementDailyAccepted, RecordRateLimited, RecordResponseClass,
       Disconnect, Respond
  <1>8. ASSUME \/ \E k \in Revocable : RevokeByPrefix(k)
               \/ \E k \in Unstable : PolicyDisappears(k)
               \/ \E k \in Expiring : KeyExpires(k)
               \/ \E a \in Accounts, status \in {"suspended", "closed"} :
                     SetAccountStatus(a, status)
               \/ \E hg \in ExpiringGrants : GrantExpires(hg[1], hg[2])
               \/ \E x \in Keys : IssueApiKey(x) \/ IssueAccountApiKey(x)
               \/ Tick \/ Midnight
        PROVE  WindowInv'
    BY <1>4, <1>8 DEF RevokeByPrefix, PolicyDisappears, KeyExpires,
       SetAccountStatus, GrantExpires, IssueApiKey,
       IssueAccountApiKey, InsertIssuedKey, Tick, Midnight
  <1> QED
    BY <1>1, <1>2, <1>3, <1>5, <1>6, <1>7, <1>8, Zenon DEF Next, RequestStep

LEMMA WindowInvariant == Spec => []WindowInv
  BY WindowInit, WindowStep, TypeInvariant, FlowInvariant, PTL DEF Spec

(* For any number of requests and keys, any limits and any window length,  *)
(* the used count of every live window is the number of requests that hold *)
(* a slot of it.                                                           *)
THEOREM WindowAccountingHolds == Spec => []WindowAccounting
  BY WindowInvariant, PTL DEF WindowInv

(* For any traffic the handler runs at most requests_per_minute times on   *)
(* the reservations of one window.                                         *)
THEOREM MinuteQuotaHolds == Spec => []MinuteQuota
  <1>1. TypeInv /\ WindowInv => MinuteQuota
    <2> SUFFICES ASSUME TypeInv, WindowInv, NEW k \in Keys,
                        NEW t \in 0 .. MaxTime
                 PROVE  Cardinality(ChargedTo(k, t) \intersect handled)
                           <= RequestsPerMinute(k)
      BY DEF MinuteQuota
    <2>1. t \in Nat /\ RequestsPerMinute(k) \in Nat
      BY AdmissionAssumption, LimitsTyped
    <2>2. /\ IsFiniteSet(ChargedTo(k, t))
          /\ Cardinality(ChargedTo(k, t)) \in Nat
      BY ChargedFinite
    <2>3. /\ Cardinality(ChargedTo(k, t) \intersect handled)
                <= Cardinality(ChargedTo(k, t))
          /\ Cardinality(ChargedTo(k, t) \intersect handled) \in Nat
      BY <2>2, FS_Subset, FS_CardinalityType
    <2>4. Cardinality(ChargedTo(k, t)) <= RequestsPerMinute(k)
      BY <2>1 DEF WindowInv, SlotBound
    <2> QED
      BY <2>1, <2>2, <2>3, <2>4
  <1> QED
    BY <1>1, TypeInvariant, WindowInvariant, PTL

(* For any traffic, a 429 of the minute limiter is caused by requests that *)
(* hold all slots of a window open when the limiter was asked.             *)
THEOREM MinuteRejectionIsJustified == Spec => MinuteRejectionJustified
  <1> DEFINE Justified(r) ==
        \E t \in 0 .. now :
           /\ now - t < WINDOW + LockDelay
           /\ Cardinality(ChargedTo(presented[r], t))
                 >= RequestsPerMinute(presented[r])
  <1>1. ASSUME TypeInv, Flow, WindowInv, [Next]_vars, NEW r \in Requests,
               pc[r] = "reserve", pc'[r] = "limited"
        PROVE  Justified(r)
    <2> USE DelayTyped
    <2>1. PICK at \in Sampled : Reserve(r, at)
      <3>1. pc \in [Requests -> Stages]
        BY <1>1, RequestsTyped, Zenon
      <3>2. ASSUME NEW q \in Requests,
                   \/ \E k \in Keys \union {NoKey}, c \in Capabilities :
                         Arrive(q, k, c)
                   \/ Authenticate(q) \/ FindPolicy(q) \/ FindGrants(q)
                   \/ IncrementDailyAccepted(q) \/ Settle(q)
                   \/ RecordRateLimited(q)
                   \/ \E class \in HandlerAnswers : Respond(q, class)
                   \/ RecordResponseClass(q) \/ Disconnect(q)
            PROVE  FALSE
        BY <1>1, <3>1, <3>2, Zenon
           DEF Arrive, Authenticate, FindPolicy, FindGrants,
               IncrementDailyAccepted, Settle, RecordRateLimited, Respond,
               RecordResponseClass, Disconnect, Continue, Refuse
      <3>3. ASSUME NEW q \in Requests, NEW at \in Sampled, Reserve(q, at)
            PROVE  q = r
        BY <1>1, <3>1, <3>3, Zenon DEF Reserve, Continue
      <3>4. ASSUME \/ UNCHANGED vars
                   \/ \E k \in Revocable : RevokeByPrefix(k)
                   \/ \E k \in Unstable : PolicyDisappears(k)
                   \/ \E k \in Expiring : KeyExpires(k)
                   \/ \E a \in Accounts, status \in {"suspended", "closed"} :
                         SetAccountStatus(a, status)
                   \/ \E hg \in ExpiringGrants : GrantExpires(hg[1], hg[2])
                   \/ \E x \in Keys : IssueApiKey(x) \/ IssueAccountApiKey(x)
                   \/ Tick \/ Midnight
            PROVE  FALSE
        <4>1. pc' = pc
          BY <3>4 DEF vars, reqVars, RevokeByPrefix, PolicyDisappears,
             KeyExpires, SetAccountStatus, GrantExpires, IssueApiKey,
       IssueAccountApiKey, InsertIssuedKey, Tick, Midnight
        <4> QED
          BY <1>1, <4>1
      <3>5. ASSUME Restart PROVE FALSE
        BY <1>1, <3>1, <3>5 DEF Restart, InFlight
      <3> QED
        BY <1>1, <3>2, <3>3, <3>4, <3>5, Zenon DEF Next, RequestStep
    <2> DEFINE w == CurrentWindow(windows, presented[r], at)
               limit == RequestsPerMinute(presented[r])
    <2>2. /\ presented[r] \in Keys /\ limit \in Nat /\ now \in Nat
          /\ at \in Nat /\ at <= now /\ now - at <= LockDelay
          /\ IsWindowMap(windows)
      <3>1. presented[r] \in Keys
        BY <1>1 DEF TypeInv, Authenticated, InFlight
      <3>2. at \in Nat /\ at <= now /\ now - at <= LockDelay
        BY <1>1, LimiterTyped DEF Sampled
      <3> QED
        BY <1>1, <3>1, <3>2, LimiterTyped, LimitsTyped
    <2>3. ~ CanReserve(windows, presented[r], limit, at)
      BY <1>1, <2>1, RequestsTyped, Zenon DEF Reserve, Continue
    <2>4. /\ w \in MinuteWindow /\ w.started_at <= now
          /\ w.used = Cardinality(ChargedTo(presented[r], w.started_at))
      BY <1>1, <2>1, <2>2, CurrentWindowCharged, Zenon
    <2>5. at - w.started_at < WINDOW
      <3>1. CASE presented[r] \in DOMAIN windows /\ Open(windows[presented[r]], at)
        BY <3>1 DEF CurrentWindow, Open
      <3>2. CASE ~ (presented[r] \in DOMAIN windows /\ Open(windows[presented[r]], at))
        <4>1. w.started_at = at
          BY <3>2 DEF CurrentWindow
        <4>2. at \in Nat /\ 0 < WINDOW
          BY <2>2
        <4> QED
          BY <4>1, <4>2
      <3> QED
        BY <3>1, <3>2, Zenon
    <2>6. w.used >= limit
      <3>1. w.used \in Nat /\ (~ (limit > 0) \/ ~ (w.used < limit))
        BY <2>3, <2>4 DEF CanReserve, MinuteWindow
      <3> QED
        BY <2>2, <3>1
    <2> HIDE DEF w, limit
    <2>7. w.started_at \in 0 .. now /\ now - w.started_at < WINDOW + LockDelay
      BY <2>2, <2>4, <2>5 DEF MinuteWindow
    <2> QED
      BY <2>4, <2>6, <2>7 DEF limit
  <1>2. TypeInv /\ Flow /\ WindowInv /\ [Next]_vars
          => [\A r \in Requests :
                 pc[r] = "reserve" /\ pc'[r] = "limited" => Justified(r)]_vars
    BY <1>1
  <1> QED
    BY <1>2, TypeInvariant, FlowInvariant, WindowInvariant, PTL
       DEF Spec, MinuteRejectionJustified

=============================================================================
