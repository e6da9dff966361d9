-------------------------- MODULE ApiKeyUsageProofs --------------------------
(***************************************************************************)
(* Proofs about ApiKeyAdmission, continued: what the daily table counts,   *)
(* and what a key or a grant that is lost can still do, on top of the      *)
(* invariants of ApiKeyAdmissionProofs.                                    *)
(***************************************************************************)
EXTENDS ApiKeyAdmissionProofs

(***************************************************************************)
(* The daily quota: the counter of a date is the number of requests        *)
(* accepted on it, also of those whose reply was lost.                     *)
(***************************************************************************)

AcceptedOn(k, d) == {r \in Requests : presented[r] = k /\ accepted_on[r] = d}

DailyInv ==
    \A k \in Keys, d \in Days :
        /\ usage[k][d]["accepted"] = Cardinality(AcceptedOn(k, d))
        /\ usage[k][d]["accepted"] <= RequestsPerDay(k)

LEMMA AcceptedFinite ==
    ASSUME NEW k, NEW d
    PROVE  /\ IsFiniteSet(AcceptedOn(k, d))
           /\ Cardinality(AcceptedOn(k, d)) \in Nat
  <1>1. IsFiniteSet(Requests) /\ AcceptedOn(k, d) \subseteq Requests
    BY AdmissionAssumption DEF AcceptedOn
  <1> QED
    BY <1>1, FS_Subset, FS_CardinalityType

LEMMA DailyInit == Init => DailyInv
  <1> SUFFICES ASSUME Init, NEW k \in Keys, NEW d \in Days
               PROVE  /\ usage[k][d]["accepted"] = Cardinality(AcceptedOn(k, d))
                      /\ usage[k][d]["accepted"] <= RequestsPerDay(k)
    BY DEF DailyInv
  <1>1. AcceptedOn(k, d) = {}
    <2>1. \A r \in Requests : accepted_on[r] # d
      BY NoneApart DEF Init
    <2> QED
      BY <2>1 DEF AcceptedOn
  <1>2. Cardinality(AcceptedOn(k, d)) = 0
    BY <1>1, FS_EmptySet
  <1>3. usage[k][d]["accepted"] = 0
    BY DEF Init, Counters
  <1>4. RequestsPerDay(k) \in Nat
    BY LimitsTyped
  <1> QED
    BY <1>2, <1>3, <1>4

(* A step that leaves the accepted counters and dates alone.               *)
LEMMA DailyFrame ==
    ASSUME DailyInv,
           \A k \in Keys, d \in Days :
              usage'[k][d]["accepted"] = usage[k][d]["accepted"],
           \A r \in Requests :
              /\ accepted_on'[r] = accepted_on[r]
              /\ accepted_on[r] # None => presented'[r] = presented[r]
    PROVE  DailyInv'
  <1> SUFFICES ASSUME NEW k \in Keys, NEW d \in Days
               PROVE  /\ usage'[k][d]["accepted"] =
                            Cardinality(AcceptedOn(k, d)')
                      /\ usage'[k][d]["accepted"] <= RequestsPerDay(k)
    BY DEF DailyInv, RequestsPerDay
  <1>1. AcceptedOn(k, d)' = AcceptedOn(k, d)
    <2>1. ASSUME NEW q \in Requests
          PROVE  presented'[q] = k /\ accepted_on'[q] = d <=>
                 presented[q] = k /\ accepted_on[q] = d
      BY NoneApart
    <2> QED
      BY <2>1 DEF AcceptedOn
  <1> QED
    BY <1>1 DEF DailyInv

LEMMA DailyStep == TypeInv /\ Flow /\ DailyInv /\ [Next]_vars => DailyInv'
  <1> SUFFICES ASSUME TypeInv, Flow, DailyInv, [Next]_vars
               PROVE  DailyInv'
    OBVIOUS
  <1> USE DEF dbVars, clockVars, reqVars
  <1>t. /\ usage \in [Keys -> [Days -> [Counters -> Nat]]]
        /\ accepted_on \in [Requests -> Days \union {None}]
        /\ presented \in [Requests -> Keys \union {NoKey}]
        /\ today \in Days
    BY DEF TypeInv, TypeOK
  <1>1. ASSUME NEW r \in Requests, NEW k \in Keys \union {NoKey},
               NEW c \in Capabilities, Arrive(r, k, c)
        PROVE  DailyInv'
    <2>1. accepted_on[r] = None
      BY <1>1 DEF Arrive, Flow, FlowOf, Untouched
    <2>2. \A q \in Requests :
             accepted_on[q] # None => presented'[q] = presented[q]
      BY <1>t, <1>1, <2>1 DEF Arrive
    <2> QED
      BY <1>1, <2>2, DailyFrame DEF Arrive
  <1>2. ASSUME usage' = usage, accepted_on' = accepted_on,
               presented' = presented
        PROVE  DailyInv'
    BY <1>2, DailyFrame
  <1>3. ASSUME NEW k \in Keys, NEW c \in Counters, c # "accepted",
               Count(k, c), accepted_on' = accepted_on, presented' = presented
        PROVE  DailyInv'
    <2>1. \A x \in Keys, d \in Days :
             usage'[x][d]["accepted"] = usage[x][d]["accepted"]
      <3> SUFFICES ASSUME NEW x \in Keys, NEW d \in Days
                   PROVE  usage'[x][d]["accepted"] = usage[x][d]["accepted"]
        OBVIOUS
      <3>1. usage'[x][d] = IF x = k /\ d = today
                           THEN [usage[x][d] EXCEPT ![c] = @ + 1] ELSE usage[x][d]
        BY <1>t, <1>3, Zenon DEF Count
      <3>2. usage[x][d] \in [Counters -> Nat]
        BY <1>t
      <3>3. ASSUME NEW u \in [Counters -> Nat]
            PROVE  [u EXCEPT ![c] = @ + 1]["accepted"] = u["accepted"]
        BY <1>3 DEF Counters
      <3> QED
        BY <3>1, <3>2, <3>3
    <2> QED
      BY <1>3, <2>1, DailyFrame
  <1>4. ASSUME NEW r \in Requests, IncrementDailyAccepted(r)
        PROVE  DailyInv'
    <2>1. CASE usage' = usage /\ accepted_on' = accepted_on
      BY <1>2, <1>4, <2>1 DEF IncrementDailyAccepted
    <2>2. CASE /\ DailyOutcome(presented[r]) = "accepted"
               /\ Count(presented[r], "accepted")
               /\ accepted_on' = [accepted_on EXCEPT ![r] = today]
      <3>k. PICK key \in Keys : key = presented[r]
        BY <1>4 DEF IncrementDailyAccepted, TypeInv, Authenticated, InFlight
      <3>d. PICK day \in Days : day = today
        BY <1>t
      <3>1. /\ accepted_on[r] = None /\ presented' = presented
            /\ accepted_on \in [Requests -> Days \union {None}]
            /\ usage \in [Keys -> [Days -> [Counters -> Nat]]]
            /\ "accepted" \in Counters
        BY <1>t, <1>4 DEF IncrementDailyAccepted, Flow, FlowOf, Counters
      <3>2. usage[key][day]["accepted"] < RequestsPerDay(key)
        BY <2>2, <3>k, <3>d DEF DailyOutcome
      <3>3. /\ usage'[key][day]["accepted"] = usage[key][day]["accepted"] + 1
            /\ \A x \in Keys, d \in Days :
                  x # key \/ d # day =>
                     usage'[x][d]["accepted"] = usage[x][d]["accepted"]
        <4> SUFFICES ASSUME NEW x \in Keys, NEW d \in Days
                     PROVE  usage'[x][d]["accepted"] =
                               IF x = key /\ d = day
                               THEN usage[x][d]["accepted"] + 1
                               ELSE usage[x][d]["accepted"]
          OBVIOUS
        <4>1. usage'[x][d] =
                 IF x = key /\ d = day
                 THEN [usage[x][d] EXCEPT !["accepted"] = @ + 1] ELSE usage[x][d]
          BY <2>2, <3>k, <3>d, <3>1, Zenon DEF Count
        <4>2. usage[x][d] \in [Counters -> Nat]
          BY <3>1
        <4> QED
          BY <3>1, <4>1, <4>2
      <3>4. /\ AcceptedOn(key, day)' = AcceptedOn(key, day) \union {r}
            /\ r \notin AcceptedOn(key, day)
        <4>1. ASSUME NEW q \in Requests
              PROVE  presented[q] = key /\ accepted_on'[q] = day <=>
                     (presented[q] = key /\ accepted_on[q] = day) \/ q = r
          BY <2>2, <3>k, <3>d, <3>1
        <4> QED
          BY <3>1, <3>d, <4>1, NoneApart DEF AcceptedOn
      <3>5. ASSUME NEW x \in Keys, NEW d \in Days, x # key \/ d # day
            PROVE  AcceptedOn(x, d)' = AcceptedOn(x, d)
        <4>1. ASSUME NEW q \in Requests
              PROVE  presented[q] = x /\ accepted_on'[q] = d <=>
                     presented[q] = x /\ accepted_on[q] = d
          BY <2>2, <3>k, <3>d, <3>1, <3>5, NoneApart
        <4> QED
          BY <3>1, <4>1 DEF AcceptedOn
      <3>6. Cardinality(AcceptedOn(key, day)') =
               Cardinality(AcceptedOn(key, day)) + 1
        <4>1. Cardinality(AcceptedOn(key, day) \union {r}) =
                 Cardinality(AcceptedOn(key, day)) + 1
          BY <3>4, AcceptedFinite, FS_AddElement
        <4> QED
          BY <3>4, <4>1
      <3>7. RequestsPerDay(key) \in Nat /\ usage[key][day]["accepted"] \in Nat
        BY <3>1, LimitsTyped
      <3> SUFFICES ASSUME NEW x \in Keys, NEW d \in Days
                   PROVE  /\ usage'[x][d]["accepted"] =
                                Cardinality(AcceptedOn(x, d)')
                          /\ usage'[x][d]["accepted"] <= RequestsPerDay(x)
        BY DEF DailyInv, RequestsPerDay
      <3>8. CASE x = key /\ d = day
        <4>1. PICK n \in Nat : n = usage[key][day]["accepted"]
          BY <3>7
        <4>2. usage'[key][day]["accepted"] = n + 1 /\ n < RequestsPerDay(key)
          BY <3>2, <3>3, <4>1
        <4>3. Cardinality(AcceptedOn(key, day)') = n + 1
          BY <3>6, <4>1 DEF DailyInv
        <4>4. n + 1 <= RequestsPerDay(key)
          <5>1. PICK m \in Nat : m = RequestsPerDay(key)
            BY <3>7
          <5>2. n + 1 <= m
            BY <4>2, <5>1
          <5> QED
            BY <5>1, <5>2
        <4> QED
          BY <3>8, <4>2, <4>3, <4>4
      <3>9. CASE ~ (x = key /\ d = day)
        <4>1. AcceptedOn(x, d)' = AcceptedOn(x, d)
          BY <3>5, <3>9
        <4>2. usage'[x][d]["accepted"] = usage[x][d]["accepted"]
          BY <3>3, <3>9
        <4> QED
          BY <4>1, <4>2 DEF DailyInv
      <3> QED
        BY <3>8, <3>9
    <2> QED
      BY <1>4, <2>1, <2>2 DEF IncrementDailyAccepted
  <1>5. ASSUME NEW r \in Requests, RecordRateLimited(r)
        PROVE  DailyInv'
    <2>1. presented[r] \in Keys
      BY <1>5 DEF RecordRateLimited, TypeInv, Authenticated, InFlight
    <2> QED
      BY <1>2, <1>3, <1>5, <2>1 DEF RecordRateLimited, Counters
  <1>6. ASSUME NEW r \in Requests, RecordResponseClass(r)
        PROVE  DailyInv'
    <2>1. presented[r] \in Keys
      BY <1>6 DEF RecordResponseClass, TypeInv, Authenticated, InFlight
    <2> QED
      BY <1>2, <1>3, <1>6, <2>1 DEF RecordResponseClass, Counters, ResponseClasses
  <1>7. CASE UNCHANGED vars
    BY <1>2, <1>7 DEF vars
  <1>8. ASSUME NEW r \in Requests,
               \/ Authenticate(r) \/ FindPolicy(r) \/ FindGrants(r)
               \/ \E at \in Sampled : Reserve(r, at)
               \/ Settle(r) \/ Disconnect(r)
               \/ \E class \in HandlerAnswers : Respond(r, class)
        PROVE  DailyInv'
    BY <1>2, <1>8, Zenon DEF Authenticate, FindPolicy, FindGrants, Reserve, Settle,
                      Disconnect, Respond
  <1>9. ASSUME \/ \E k \in Revocable : RevokeByPrefix(k)
               \/ \E k \in Unstable : PolicyDisappears(k)
               \/ \E k \in Expiring : KeyExpires(k)
               \/ \E a \in Accounts, status \in {"suspended", "closed"} :
                     SetAccountStatus(a, status)
               \/ \E hg \in ExpiringGrants : GrantExpires(hg[1], hg[2])
               \/ \E x \in Keys : IssueApiKey(x) \/ IssueAccountApiKey(x)
               \/ Tick \/ Midnight \/ Restart
        PROVE  DailyInv'
    BY <1>2, <1>9 DEF RevokeByPrefix, PolicyDisappears, KeyExpires,
       SetAccountStatus, GrantExpires, IssueApiKey,
       IssueAccountApiKey, InsertIssuedKey, Tick, Midnight, Restart
  <1> QED
    BY <1>1, <1>4, <1>5, <1>6, <1>7, <1>8, <1>9 DEF Next, RequestStep

LEMMA DailyInvariant == Spec => []DailyInv
  BY DailyInit, DailyStep, TypeInvariant, FlowInvariant, PTL DEF Spec

(* For any traffic the handler runs at most requests_per_day times for the *)
(* requests accepted on one date, and the date's counter covers them.      *)
THEOREM DailyQuotaHolds == Spec => []DailyQuota
  <1>1. TypeInv /\ DailyInv => DailyQuota
    <2> SUFFICES ASSUME TypeInv, DailyInv, NEW k \in Keys, NEW d \in Days
                 PROVE  /\ Cardinality({r \in handled : presented[r] = k
                                          /\ accepted_on[r] = d})
                              <= usage[k][d]["accepted"]
                        /\ usage[k][d]["accepted"] <= RequestsPerDay(k)
      BY DEF DailyQuota
    <2>1. {r \in handled : presented[r] = k /\ accepted_on[r] = d}
             \in SUBSET AcceptedOn(k, d)
      BY DEF AcceptedOn, TypeInv, TypeOK
    <2>2. Cardinality({r \in handled : presented[r] = k /\ accepted_on[r] = d})
             <= Cardinality(AcceptedOn(k, d))
      BY <2>1, AcceptedFinite, FS_Subset
    <2> QED
      BY <2>2 DEF DailyInv
  <1> QED
    BY <1>1, TypeInvariant, DailyInvariant, PTL

(***************************************************************************)
(* The daily table as a count of requests: one unit of one counter for     *)
(* each request that was accepted, limited or answered.                    *)
(***************************************************************************)

(* The daily counters have their type.                                     *)
UsageTyped == usage \in [Keys -> [Days -> [Counters -> Nat]]]

(* What a counter counts is a finite set: its total is a number.           *)
LEMMA TotalTyped ==
    ASSUME UsageTyped, NEW k \in Keys, NEW c \in Counters
    PROVE  IsFiniteSet(Tally(k, c)) /\ Total(k, c) \in Nat
  <1> DEFINE g == [d \in Days |-> {d} \X (1 .. usage[k][d][c])]
             T == {{d} \X (1 .. usage[k][d][c]) : d \in Days}
  <1>1. IsFiniteSet(Days)
    BY FS_Interval, AdmissionAssumption DEF Days, AdmissionAssumption
  <1>2. g \in Surjection(Days, T)
    BY Zenon DEF Surjection
  <1>3. \A t \in T : IsFiniteSet(t)
    <2> SUFFICES ASSUME NEW d \in Days
                 PROVE  IsFiniteSet({d} \X (1 .. usage[k][d][c]))
      OBVIOUS
    <2>1. PICK n \in Nat : n = usage[k][d][c]
      BY DEF UsageTyped
    <2>2. IsFiniteSet(1 .. n)
      BY FS_Interval
    <2>3. IsFiniteSet({d})
      BY FS_Singleton, Zenon
    <2> QED BY <2>1, <2>2, <2>3, FS_Product
  <1>4. Tally(k, c) = UNION T
    BY DEF Tally
  <1> HIDE DEF g, T
  <1>5. IsFiniteSet(T)
    BY <1>1, <1>2, FS_Surjection
  <1>6. IsFiniteSet(Tally(k, c))
    BY <1>3, <1>4, <1>5, FS_UNION
  <1> QED BY <1>6, FS_CardinalityType DEF Total

(* Count adds one to one total and leaves the others alone.                *)
LEMMA CountTotal ==
    ASSUME UsageTyped, today \in Days, NEW k \in Keys, NEW c \in Counters,
           Count(k, c)
    PROVE  /\ Total(k, c)' = Total(k, c) + 1
           /\ \A x \in Keys, e \in Counters :
                 x # k \/ e # c => Total(x, e)' = Total(x, e)
  <1>d. PICK day \in Days : day = today
    OBVIOUS
  <1>0. ASSUME NEW x \in Keys, NEW e \in Counters, NEW d \in Days
        PROVE  usage'[x][d][e] = IF x = k /\ d = day /\ e = c
                                 THEN usage[x][d][e] + 1 ELSE usage[x][d][e]
    <2>1. usage'[x][d] = IF x = k /\ d = day
                         THEN [usage[x][d] EXCEPT ![c] = @ + 1]
                           ELSE usage[x][d]
      BY <1>d DEF Count, UsageTyped
    <2>2. usage[x][d] \in [Counters -> Nat]
      BY DEF UsageTyped
    <2> QED BY <2>1, <2>2
  <1>1. ASSUME NEW x \in Keys, NEW e \in Counters, x # k \/ e # c
        PROVE  Total(x, e)' = Total(x, e)
    <2>1. \A d \in Days : usage'[x][d][e] = usage[x][d][e]
      BY <1>0, <1>1
    <2>2. Tally(x, e)' = Tally(x, e)
      BY <2>1, Zenon DEF Tally
    <2> QED BY <2>2 DEF Total
  <1>2. Total(k, c)' = Total(k, c) + 1
    <2> DEFINE n == usage[k][day][c]
    <2>1. n \in Nat
      BY DEF UsageTyped
    <2>2. \A d \in Days : d # day => usage'[k][d][c] = usage[k][d][c]
      BY <1>0
    <2>3. usage'[k][day][c] = n + 1
      BY <1>0
    <2>4. 1 .. (n + 1) = (1 .. n) \union {n + 1} /\ n + 1 \notin 1 .. n
      BY <2>1
    <2>5. \A u : u \in Tally(k, c) <=>
                 \E d \in Days : \E i \in 1 .. usage[k][d][c] : u = <<d, i>>
      BY DEF Tally
    <2>6. \A u : u \in Tally(k, c)' <=>
                 \E d \in Days : \E i \in 1 .. usage'[k][d][c] : u = <<d, i>>
      BY DEF Tally
    <2>7. Tally(k, c)' = Tally(k, c) \union {<<day, n + 1>>}
      <3>1. \A u : u \in Tally(k, c)' <=> u \in Tally(k, c) \/ u = <<day, n + 1>>
        BY <2>2, <2>3, <2>4, <2>5, <2>6
      <3> QED BY <3>1, Zenon
    <2>8. <<day, n + 1>> \notin Tally(k, c)
      BY <2>4, <2>5
    <2>9. Cardinality(Tally(k, c) \union {<<day, n + 1>>}) =
            Cardinality(Tally(k, c)) + 1
      BY <2>8, TotalTyped, FS_AddElement, Zenon
    <2> QED BY <2>7, <2>9 DEF Total
  <1> QED BY <1>1, <1>2

(* The requests of a key that its counters stand for.                      *)
Counted(k)   == {r \in Requests : presented[r] = k /\ accepted_on[r] # None}
Limited(k)   ==
  {r \in Requests : presented[r] = k /\ answer[r] = "rate_limited"}
Answered(k)  == {r \in handled : presented[r] = k /\ pc[r] = "done"}
Responses(k) == Total(k, "successful") + Total(k, "client_error")
                   + Total(k, "server_error")

(* A request is counted as accepted exactly when its increment took        *)
(* effect, as rate limited only once it is answered so, and in a response  *)
(* class only once it is done.                                             *)
CountInv ==
    \A k \in Keys :
        /\ Total(k, "accepted") = Cardinality(Counted(k))
        /\ Total(k, "rate_limited") <= Cardinality(Limited(k))
        /\ Responses(k) <= Cardinality(Answered(k))

(* Sets of requests are finite, and their sizes behave.                    *)
LEMMA RequestSet ==
    ASSUME NEW S \in SUBSET Requests
    PROVE  /\ IsFiniteSet(S) /\ Cardinality(S) \in Nat
           /\ \A T \in SUBSET S : Cardinality(T) <= Cardinality(S)
           /\ \A r : r \notin S =>
                Cardinality(S \union {r}) = Cardinality(S) + 1
  <1>1. IsFiniteSet(S)
    BY FS_Subset, AdmissionAssumption DEF AdmissionAssumption
  <1> QED BY <1>1, FS_CardinalityType, FS_Subset, FS_AddElement

LEMMA DisjointUnion ==
    ASSUME NEW S \in SUBSET Requests, NEW T \in SUBSET Requests,
           S \intersect T = {}
    PROVE  Cardinality(S \union T) = Cardinality(S) + Cardinality(T)
  <1>1. /\ IsFiniteSet(S) /\ IsFiniteSet(T)
        /\ Cardinality(S) \in Nat /\ Cardinality(T) \in Nat
    BY RequestSet
  <1>2. Cardinality(S \union T) =
           Cardinality(S) + Cardinality(T) - Cardinality(S \intersect T)
    BY <1>1, FS_Union
  <1>3. Cardinality(S \intersect T) = 0
    BY FS_EmptySet
  <1> QED BY <1>1, <1>2, <1>3

LEMMA TotalsTyped ==
    ASSUME UsageTyped, NEW k \in Keys
    PROVE  /\ Total(k, "accepted") \in Nat /\ Total(k, "rate_limited") \in Nat
           /\ Total(k, "successful") \in Nat /\
                Total(k, "client_error") \in Nat
           /\ Total(k, "server_error") \in Nat
  BY TotalTyped DEF Counters

LEMMA CountInit == Init => CountInv
  <1> SUFFICES ASSUME Init, NEW k \in Keys
               PROVE  /\ Total(k, "accepted") = Cardinality(Counted(k))
                      /\ Total(k, "rate_limited") <= Cardinality(Limited(k))
                      /\ Responses(k) <= Cardinality(Answered(k))
    BY Zenon DEF CountInv
  <1>1. ASSUME NEW c \in Counters PROVE Total(k, c) = 0
    <2>1. \A d \in Days : usage[k][d][c] = 0
      BY DEF Init
    <2>2. 1 .. 0 = {}
      OBVIOUS
    <2>3. Tally(k, c) = {}
      BY <2>1, <2>2, Zenon DEF Tally
    <2> QED BY <2>3, FS_EmptySet DEF Total
  <1>2. Counted(k) = {} /\ Limited(k) = {} /\ Answered(k) = {}
    BY DEF Init, Counted, Limited, Answered
  <1> QED BY <1>1, <1>2, FS_EmptySet DEF Counters, Responses

(* A step that counts nothing: it takes no request out of the three sets.  *)
LEMMA CountFrame ==
    ASSUME UsageTyped, CountInv, usage' = usage, handled' \subseteq Requests,
           \A k \in Keys : /\ Counted(k)' = Counted(k)
                           /\ Limited(k) \subseteq Limited(k)'
                           /\ Answered(k) \subseteq Answered(k)'
    PROVE  CountInv'
  <1> SUFFICES ASSUME NEW k \in Keys
               PROVE  /\ Total(k, "accepted")' = Cardinality(Counted(k)')
                      /\ Total(k, "rate_limited")' <= Cardinality(Limited(k)')
                      /\ Responses(k)' <= Cardinality(Answered(k)')
    BY DEF CountInv
  <1>1. \A c : Total(k, c)' = Total(k, c)
    BY DEF Total, Tally
  <1>2. Responses(k)' = Responses(k) /\ Responses(k) \in Nat
    BY <1>1, TotalsTyped DEF Responses
  <1>3. Limited(k)' \in SUBSET Requests /\ Answered(k)' \in SUBSET Requests
    BY DEF Limited, Answered
  <1>4. /\ Cardinality(Limited(k)) <= Cardinality(Limited(k)')
        /\ Cardinality(Limited(k)) \in Nat /\ Cardinality(Limited(k)') \in Nat
    <2> DEFINE S == Limited(k)'
               T == Limited(k)
    <2>1. S \in SUBSET Requests /\ T \in SUBSET S /\ T \in SUBSET Requests
      BY <1>3 DEF Limited
    <2> HIDE DEF S, T
    <2>2. Cardinality(T) <= Cardinality(S) /\ Cardinality(S) \in Nat /\
            Cardinality(T) \in Nat
      BY <2>1, RequestSet
    <2> QED BY <2>2 DEF S, T
  <1>5. /\ Cardinality(Answered(k)) <= Cardinality(Answered(k)')
        /\ Cardinality(Answered(k)) \in Nat /\
             Cardinality(Answered(k)') \in Nat
    <2> DEFINE S == Answered(k)'
               T == Answered(k)
    <2>1. S \in SUBSET Requests /\ T \in SUBSET S /\ T \in SUBSET Requests
      BY <1>3
    <2> HIDE DEF S, T
    <2>2. Cardinality(T) <= Cardinality(S) /\ Cardinality(S) \in Nat /\
            Cardinality(T) \in Nat
      BY <2>1, RequestSet
    <2> QED BY <2>2 DEF S, T
  <1>6. Total(k, "rate_limited") \in Nat
    BY TotalsTyped
  <1> QED BY <1>1, <1>2, <1>4, <1>5, <1>6 DEF CountInv

(* A step that counts, for one key: the counter of that key goes with its  *)
(* set.                                                                    *)
LEMMA CountOne ==
    ASSUME UsageTyped, today \in Days, CountInv, handled' \subseteq Requests,
           NEW key \in Keys, NEW c \in Counters, Count(key, c),
           NEW r \in Requests,
           \A k \in Keys :
              /\ IF k = key /\ c = "accepted"
                 THEN r \notin Counted(k) /\
                   Counted(k)' = Counted(k) \union {r}
                 ELSE Counted(k)' = Counted(k)
              /\ IF k = key /\ c = "rate_limited"
                 THEN r \notin Limited(k) /\
                   Limited(k)' = Limited(k) \union {r}
                 ELSE Limited(k)' = Limited(k)
              /\ IF k = key /\ c \in ResponseClasses
                 THEN /\ r \notin Answered(k)
                      /\ Answered(k)' = Answered(k) \union {r}
                 ELSE Answered(k) \subseteq Answered(k)'
    PROVE  CountInv'
  <1> SUFFICES ASSUME NEW k \in Keys
               PROVE  /\ Total(k, "accepted")' = Cardinality(Counted(k)')
                      /\ Total(k, "rate_limited")' <= Cardinality(Limited(k)')
                      /\ Responses(k)' <= Cardinality(Answered(k)')
    BY DEF CountInv
  <1>1. \A e \in Counters :
           Total(k, e)' = IF k = key /\ e = c THEN Total(k, e) + 1
                          ELSE Total(k, e)
    BY CountTotal
  <1>2. Total(k, "accepted")' = Cardinality(Counted(k)')
    <2> DEFINE S == Counted(k)
    <2>1. S \in SUBSET Requests
      BY DEF Counted
    <2> HIDE DEF S
    <2>2. r \notin S => Cardinality(S \union {r}) = Cardinality(S) + 1
      BY <2>1, RequestSet
    <2> QED BY <1>1, <2>2 DEF S, CountInv, Counters
  <1>3. Total(k, "rate_limited")' <= Cardinality(Limited(k)')
    <2> DEFINE S == Limited(k)
    <2>1. S \in SUBSET Requests
      BY DEF Limited
    <2> HIDE DEF S
    <2>2. /\ r \notin S => Cardinality(S \union {r}) = Cardinality(S) + 1
          /\ Cardinality(S) \in Nat
      BY <2>1, RequestSet
    <2>3. Total(k, "rate_limited") \in Nat
      BY TotalsTyped
    <2>4. Total(k, "rate_limited") <= Cardinality(S)
      BY DEF S, CountInv
    <2>5. CASE k = key /\ c = "rate_limited"
      <3>1. Total(k, "rate_limited")' = Total(k, "rate_limited") + 1
        BY <1>1, <2>5
      <3>2. r \notin S /\ Limited(k)' = S \union {r}
        BY <2>5 DEF S
      <3>3. Cardinality(Limited(k)') = Cardinality(S) + 1
        BY <2>2, <3>2
      <3> QED BY <2>2, <2>3, <2>4, <3>1, <3>3
    <2>6. CASE ~ (k = key /\ c = "rate_limited")
      <3>1. Total(k, "rate_limited")' = Total(k, "rate_limited")
        BY <1>1, <2>6 DEF Counters
      <3>2. Limited(k)' = S
        BY <2>6 DEF S
      <3> QED BY <2>4, <3>1, <3>2
    <2> QED BY <2>5, <2>6
  <1>4. Responses(k)' <= Cardinality(Answered(k)')
    <2> DEFINE S == Answered(k)
               U == Answered(k)'
    <2>1. U \in SUBSET Requests /\ S \in SUBSET U
      BY DEF Answered
    <2> HIDE DEF S, U
    <2>2. /\ r \notin S => Cardinality(S \union {r}) = Cardinality(S) + 1
          /\ Cardinality(S) \in Nat /\ Cardinality(U) \in Nat
          /\ Cardinality(S) <= Cardinality(U)
      BY <2>1, RequestSet
    <2>3. Responses(k) \in Nat
      BY TotalsTyped DEF Responses
    <2>4. Responses(k)' = IF k = key /\ c \in ResponseClasses
                          THEN Responses(k) + 1 ELSE Responses(k)
      <3>1. PICK a \in Nat, b \in Nat, d \in Nat :
               /\ a = Total(k, "successful") /\ b = Total(k, "client_error")
               /\ d = Total(k, "server_error")
        BY TotalsTyped
      <3>2. /\ Responses(k) = a + b + d
            /\ Responses(k)' = Total(k, "successful")'
                  + Total(k, "client_error")' + Total(k, "server_error")'
        BY <3>1 DEF Responses
      <3>3. CASE ~ (k = key /\ c \in ResponseClasses)
        BY <1>1, <3>1, <3>2, <3>3 DEF Counters, ResponseClasses
      <3>4. CASE k = key /\ c = "successful"
        BY <1>1, <3>1, <3>2, <3>4 DEF Counters, ResponseClasses
      <3>5. CASE k = key /\ c = "client_error"
        BY <1>1, <3>1, <3>2, <3>5 DEF Counters, ResponseClasses
      <3>6. CASE k = key /\ c = "server_error"
        BY <1>1, <3>1, <3>2, <3>6 DEF Counters, ResponseClasses
      <3> QED BY <3>3, <3>4, <3>5, <3>6 DEF ResponseClasses
    <2>5. Responses(k) <= Cardinality(S)
      BY DEF S, CountInv
    <2>6. IF k = key /\ c \in ResponseClasses THEN r \notin S /\
            U = S \union {r}
          ELSE TRUE
      BY DEF S, U
    <2>7. Responses(k)' <= Cardinality(U)
      <3>1. CASE k = key /\ c \in ResponseClasses
        <4>1. Cardinality(U) = Cardinality(S) + 1
          BY <2>2, <2>6, <3>1, Zenon
        <4>2. Responses(k)' = Responses(k) + 1
          BY <2>4, <3>1
        <4> QED BY <2>2, <2>3, <2>5, <4>1, <4>2
      <3>2. CASE ~ (k = key /\ c \in ResponseClasses)
        <4>1. Responses(k)' = Responses(k)
          BY <2>4, <3>2
        <4> QED BY <2>2, <2>3, <2>5, <4>1
      <3> QED BY <3>1, <3>2
    <2> QED BY <2>7 DEF U
  <1> QED BY <1>2, <1>3, <1>4

LEMMA CountStep == TypeInv /\ Flow /\ CountInv /\ [Next]_vars => CountInv'
  <1> SUFFICES ASSUME TypeInv, TypeInv', Flow, CountInv, [Next]_vars
               PROVE  CountInv'
    BY TypeStep
  <1> USE DEF dbVars, clockVars, reqVars
  <1>t. /\ UsageTyped /\ today \in Days
        /\ handled \subseteq Requests /\ handled' \subseteq Requests
        /\ pc \in [Requests -> Stages] /\ answer \in [Requests -> Answers]
        /\ accepted_on \in [Requests -> Days \union {None}]
        /\ presented \in [Requests -> Keys \union {NoKey}]
    BY DEF TypeInv, TypeOK, UsageTyped
  <1>f. ASSUME usage' = usage, accepted_on' = accepted_on,
               \A q \in Requests :
                  /\ q \in handled => q \in handled'
                  /\ pc[q] = "done" => pc'[q] = "done"
                  /\ answer[q] = "rate_limited" => answer'[q] = "rate_limited"
                  /\ \/ presented'[q] = presented[q]
                     \/ Untouched(q) /\ answer[q] = "none"
        PROVE  CountInv'
    <2>1. \A k \in Keys : /\ Counted(k)' = Counted(k)
                          /\ Limited(k) \subseteq Limited(k)'
                          /\ Answered(k) \subseteq Answered(k)'
      BY <1>t, <1>f DEF Counted, Limited, Answered, Untouched
    <2> QED BY <1>t, <1>f, <2>1, CountFrame, Zenon
  <1>1. ASSUME NEW r \in Requests, NEW k \in Keys \union {NoKey},
               NEW c \in Capabilities, Arrive(r, k, c)
        PROVE  CountInv'
    <2>1. Untouched(r) /\ answer[r] = "none"
      BY <1>1, Zenon DEF Arrive, Flow, FlowOf
    <2> QED BY <1>t, <1>1, <1>f, <2>1 DEF Arrive
  <1>2. ASSUME NEW r \in Requests,
               \/ Authenticate(r) \/ FindPolicy(r) \/ FindGrants(r)
               \/ \E at \in Sampled : Reserve(r, at)
               \/ Settle(r) \/ \E class \in HandlerAnswers : Respond(r, class)
        PROVE  CountInv'
    <2>1. /\ answer[r] = "none" /\ pc[r] # "done"
          /\ usage' = usage /\ accepted_on' = accepted_on
          /\ presented' = presented /\ handled \subseteq handled'
      BY <1>2, Zenon DEF Authenticate, FindPolicy, FindGrants, Reserve, Settle,
                  Respond, Flow, FlowOf
    <2>2. \A q \in Requests :
             q # r => pc'[q] = pc[q] /\ answer'[q] = answer[q]
      BY <1>t, <1>2, Zenon DEF Authenticate, FindPolicy, FindGrants, Reserve, Settle,
                        Respond, Continue, Refuse
    <2> QED BY <1>f, <2>1, <2>2, Zenon
  <1>3. ASSUME NEW r \in Requests, Disconnect(r)
        PROVE  CountInv'
    <2>1. pc[r] # "done" /\ \A q \in Requests : q # r => pc'[q] = pc[q]
      BY <1>t, <1>3, AdmissionAssumption
         DEF Disconnect, AdmissionAssumption, InFlight
    <2> QED BY <1>f, <1>3, <2>1, Zenon DEF Disconnect
  <1>4. ASSUME Restart PROVE CountInv'
    <2>1. \A q \in Requests : pc[q] = "done" => pc'[q] = "done"
      BY <1>t, <1>4 DEF Restart, InFlight
    <2> QED BY <1>f, <1>4, <2>1, Zenon DEF Restart
  <1>5. ASSUME UNCHANGED <<usage, reqVars>> PROVE CountInv'
    BY <1>f, <1>5
  <1>6. ASSUME NEW r \in Requests, IncrementDailyAccepted(r)
        PROVE  CountInv'
    <2>1. PICK key \in Keys : key = presented[r]
      BY <1>6 DEF IncrementDailyAccepted, TypeInv, Authenticated, InFlight
    <2>2. /\ accepted_on[r] = None /\ presented' = presented
          /\ answer' = answer /\ handled' = handled
          /\ \A q \in Requests : pc[q] = "done" => pc'[q] = "done"
      BY <1>t, <1>6, Zenon DEF IncrementDailyAccepted, Flow, FlowOf
    <2>3. CASE usage' = usage /\ accepted_on' = accepted_on
      BY <1>f, <2>2, <2>3, Zenon
    <2>4. CASE /\ Count(presented[r], "accepted")
               /\ accepted_on' = [accepted_on EXCEPT ![r] = today]
      <3>1. /\ r \notin Counted(key)
            /\ Counted(key)' = Counted(key) \union {r}
            /\ \A k \in Keys : k # key => Counted(k)' = Counted(k)
        <4>1. \A q \in Requests : accepted_on'[q] # None <=>
                                     accepted_on[q] # None \/ q = r
          BY <1>t, <2>2, <2>4, NoneApart
        <4> QED BY <1>t, <2>1, <2>2, <4>1 DEF Counted
      <3>2. \A k \in Keys : /\ Limited(k)' = Limited(k)
                            /\ Answered(k) \subseteq Answered(k)'
        BY <1>t, <2>2 DEF Limited, Answered
      <3>3. /\ "accepted" \in Counters /\ "accepted" \notin ResponseClasses
            /\ Count(key, "accepted")
        BY <2>1, <2>4 DEF Counters, ResponseClasses
      <3> QED BY <1>t, <3>1, <3>2, <3>3, CountOne
    <2> QED BY <1>6, <2>3, <2>4 DEF IncrementDailyAccepted
  <1>7. ASSUME NEW r \in Requests, RecordRateLimited(r)
        PROVE  CountInv'
    <2>1. PICK key \in Keys : key = presented[r]
      BY <1>7 DEF RecordRateLimited, TypeInv, Authenticated, InFlight
    <2>2. /\ accepted_on' = accepted_on /\ presented' = presented
          /\ answer[r] = "none" /\ handled' = handled
          /\ \A q \in Requests : pc[q] = "done" => pc'[q] = "done"
          /\ \A q \in Requests : answer'[q] = IF q = r THEN "rate_limited"
                                               ELSE answer[q]
      BY <1>t, <1>7, Zenon DEF RecordRateLimited, Refuse, Flow, FlowOf
    <2>3. CASE usage' = usage
      BY <1>f, <2>2, <2>3, Zenon
    <2>4. CASE Count(presented[r], "rate_limited")
      <3>1. /\ r \notin Limited(key)
            /\ Limited(key)' = Limited(key) \union {r}
            /\ \A k \in Keys : k # key => Limited(k)' = Limited(k)
        BY <1>t, <2>1, <2>2 DEF Limited
      <3>2. \A k \in Keys : /\ Counted(k)' = Counted(k)
                            /\ Answered(k) \subseteq Answered(k)'
        BY <1>t, <2>2 DEF Counted, Answered
      <3>3. /\ "rate_limited" \in Counters
            /\ "rate_limited" \notin ResponseClasses
            /\ Count(key, "rate_limited")
        BY <2>1, <2>4 DEF Counters, ResponseClasses
      <3> QED BY <1>t, <3>1, <3>2, <3>3, CountOne
    <2> QED BY <1>7, <2>3, <2>4, Zenon DEF RecordRateLimited
  <1>8. ASSUME NEW r \in Requests, RecordResponseClass(r)
        PROVE  CountInv'
    <2>1. PICK key \in Keys : key = presented[r]
      BY <1>8, Zenon DEF RecordResponseClass, TypeInv, Authenticated, InFlight
    <2>2. /\ accepted_on' = accepted_on /\ presented' = presented
          /\ answer' = answer /\ handled' = handled /\ r \in handled
          /\ pc[r] # "done"
          /\ \A q \in Requests : pc'[q] = IF q = r THEN "done" ELSE pc[q]
      BY <1>t, <1>8, Zenon DEF RecordResponseClass, Flow, FlowOf, Served
    <2>3. CASE usage' = usage
      BY <1>f, <2>2, <2>3, Zenon
    <2>4. CASE answer[r] \in ResponseClasses /\ Count(presented[r], answer[r])
      <3>1. /\ r \notin Answered(key)
            /\ Answered(key)' = Answered(key) \union {r}
            /\ \A k \in Keys : Answered(k) \subseteq Answered(k)'
        BY <1>t, <2>1, <2>2 DEF Answered
      <3>2. \A k \in Keys : Counted(k)' = Counted(k) /\
              Limited(k)' = Limited(k)
        BY <1>t, <2>2 DEF Counted, Limited
      <3>3. PICK c \in ResponseClasses : c = answer[r]
        BY <2>4
      <3>4. /\ c \in Counters /\ c # "accepted" /\ c # "rate_limited"
            /\ Count(key, c)
        BY <2>1, <2>4, <3>3 DEF Counters, ResponseClasses
      <3> QED BY <1>t, <3>1, <3>2, <3>3, <3>4, CountOne
    <2> QED BY <1>8, <2>3, <2>4, Zenon DEF RecordResponseClass
  <1>9. ASSUME \/ \E k \in Revocable : RevokeByPrefix(k)
               \/ \E k \in Unstable : PolicyDisappears(k)
               \/ \E k \in Expiring : KeyExpires(k)
               \/ \E a \in Accounts, status \in {"suspended", "closed"} :
                     SetAccountStatus(a, status)
               \/ \E hg \in ExpiringGrants : GrantExpires(hg[1], hg[2])
               \/ \E x \in Keys : IssueApiKey(x) \/ IssueAccountApiKey(x)
               \/ Tick \/ Midnight \/ UNCHANGED vars
        PROVE  UNCHANGED <<usage, reqVars>>
    BY <1>9 DEF RevokeByPrefix, PolicyDisappears, KeyExpires,
       SetAccountStatus, GrantExpires, IssueApiKey, IssueAccountApiKey,
       InsertIssuedKey, Tick, Midnight, vars
  <1> QED
    BY <1>1, <1>2, <1>3, <1>4, <1>5, <1>6, <1>7, <1>8, <1>9
       DEF Next, RequestStep

(* No request is counted twice, however requests interleave, replies get   *)
(* lost, clients disconnect and the process restarts: a key's accepted and *)
(* rate limited requests, over all dates, are distinct requests that       *)
(* reached its limits, and its responses are of distinct accepted requests *)
(* (auth.rs require_api_key_for, api_keys.rs).                             *)
THEOREM NoDoubleCountingHolds == Spec => []NoDoubleCounting
  <1>1. TypeInv /\ Flow /\ CountInv => NoDoubleCounting
    <2> SUFFICES ASSUME TypeInv, Flow, CountInv, NEW k \in Keys
                 PROVE  /\ Total(k, "accepted") + Total(k, "rate_limited")
                              <= Cardinality({r \in Requests : presented[r] = k
                                   /\ pc[r] \notin {"authenticate",
                                        "find_policy", "find_grants",
                                        "reserve", "increment"}})
                        /\ Responses(k)
                              + Cardinality({r \in handled : presented[r] = k
                                   /\ pc[r] \in {"handler", "record"}})
                              <= Total(k, "accepted")
      BY Zenon DEF NoDoubleCounting, Responses
    <2> DEFINE reached == {r \in Requests : presented[r] = k
                             /\ pc[r] \notin {"authenticate", "find_policy",
                                  "find_grants", "reserve", "increment"}}
               open == {r \in handled : presented[r] = k
                          /\ pc[r] \in {"handler", "record"}}
               both == Counted(k) \union Limited(k)
               served == Answered(k) \union open
    <2>t. /\ UsageTyped /\ handled \subseteq Requests
          /\ pc \in [Requests -> Stages]
      BY DEF TypeInv, TypeOK, UsageTyped
    <2>1. /\ Counted(k) \intersect Limited(k) = {}
          /\ both \in SUBSET reached /\ reached \in SUBSET Requests
      <3>1. ASSUME NEW r \in Requests, accepted_on[r] # None
            PROVE  /\ answer[r] # "rate_limited"
                   /\ pc[r] \notin {"authenticate", "find_policy",
                                    "find_grants", "reserve", "increment"}
        BY <2>t, <3>1 DEF Flow, FlowOf, Untouched, Refusals, Stages, InFlight
      <3>2. ASSUME NEW r \in Requests, answer[r] = "rate_limited"
            PROVE  pc[r] \notin {"authenticate", "find_policy", "find_grants",
                                "reserve", "increment"}
        BY <2>t, <3>2 DEF Flow, FlowOf
      <3> QED BY <3>1, <3>2 DEF Counted, Limited
    <2>2. /\ Answered(k) \intersect open = {}
          /\ served \in SUBSET Counted(k)
          /\ Counted(k) \in SUBSET Requests
      <3>1. ASSUME NEW r \in handled
            PROVE  accepted_on[r] # None
        BY <2>t DEF Flow, FlowOf, Untouched, Served, Stages, InFlight
      <3> QED BY <2>t, <3>1 DEF Counted, Answered
    <2> HIDE DEF reached, open
    <2>3. Cardinality(both) = Cardinality(Counted(k)) + Cardinality(Limited(k))
      BY <2>1, DisjointUnion DEF Counted, Limited
    <2>4. Cardinality(served) = Cardinality(Answered(k)) + Cardinality(open)
      <3>1. Answered(k) \in SUBSET Requests /\ open \in SUBSET Requests
        BY <2>2
      <3> QED BY <2>2, <3>1, DisjointUnion
    <2> HIDE DEF both, served
    <2>5. /\ Cardinality(both) <= Cardinality(reached)
          /\ Cardinality(reached) \in Nat /\ Cardinality(both) \in Nat
      BY <2>1, RequestSet
    <2>6. /\ Cardinality(served) <= Cardinality(Counted(k))
          /\ Cardinality(Counted(k)) \in Nat /\ Cardinality(served) \in Nat
      BY <2>2, RequestSet
    <2>7. /\ Cardinality(Limited(k)) \in Nat /\
               Cardinality(Answered(k)) \in Nat
          /\ Cardinality(open) \in Nat
      BY <2>t, RequestSet DEF Limited, Answered, open
    <2>8. Total(k, "rate_limited") \in Nat /\ Responses(k) \in Nat
      BY <2>t, TotalsTyped DEF Responses
    <2>9. /\ Total(k, "accepted") = Cardinality(Counted(k))
          /\ Total(k, "rate_limited") <= Cardinality(Limited(k))
          /\ Responses(k) <= Cardinality(Answered(k))
      BY DEF CountInv
    <2>10. Total(k, "accepted") + Total(k, "rate_limited")
              <= Cardinality(reached)
      BY <2>3, <2>5, <2>6, <2>7, <2>8, <2>9
    <2>11. Responses(k) + Cardinality(open) <= Total(k, "accepted")
      BY <2>4, <2>6, <2>7, <2>8, <2>9
    <2> QED BY <2>10, <2>11 DEF reached, open
  <1>2. Spec => []CountInv
    BY CountInit, CountStep, TypeInvariant, FlowInvariant, PTL DEF Spec
  <1> QED BY <1>1, <1>2, TypeInvariant, FlowInvariant, PTL

(***************************************************************************)
(* Revocation: what a barred key's request can still do.                   *)
(***************************************************************************)

Rejected(r, k) ==
    /\ Barred(k)
    /\ \/ /\ pc[r] \in {"idle", "authenticate", "done", "dropped"}
          /\ r \notin handled
       \/ presented[r] # k /\ pc[r] # "idle"

LEMMA BarredForGood ==
    ASSUME TypeInv, [Next]_vars, NEW k \in Keys, Barred(k)
    PROVE  Barred(k)'
  <1> USE AdmissionAssumption
  <1>1. /\ key_status[k] = "revoked" => key_status'[k] = "revoked"
        /\ expired \subseteq expired'
        /\ \A o \in Owners :
              owner_status[o] = "closed" => owner_status'[o] = "closed"
    <2>1. CASE UNCHANGED dbVars
      BY <2>1, Zenon DEF dbVars
    <2>2. ASSUME \/ \E x \in Revocable : RevokeByPrefix(x)
                 \/ \E x \in Unstable : PolicyDisappears(x)
                 \/ \E x \in Expiring : KeyExpires(x)
                 \/ \E a \in Accounts, status \in {"suspended", "closed"} :
                       SetAccountStatus(a, status)
                 \/ \E hg \in ExpiringGrants : GrantExpires(hg[1], hg[2])
                 \/ \E x \in Keys : IssueApiKey(x) \/ IssueAccountApiKey(x)
          PROVE  <1>1!:
      BY <2>2 DEF RevokeByPrefix, PolicyDisappears, KeyExpires,
         SetAccountStatus, GrantExpires, IssueApiKey, IssueAccountApiKey,
         InsertIssuedKey,
         TypeInv, TypeOK
    <2>3. ASSUME NEW q \in Requests,
                 \/ \E x \in Keys \union {NoKey}, c \in Capabilities :
                       Arrive(q, x, c)
                 \/ RequestStep(q) \/ Disconnect(q)
          PROVE  UNCHANGED dbVars
      BY <2>3, Zenon DEF RequestStep, Arrive, Authenticate, FindPolicy, FindGrants,
         Reserve, IncrementDailyAccepted, Settle, RecordRateLimited, Respond,
         RecordResponseClass, Disconnect
    <2>4. ASSUME Tick \/ Midnight \/ Restart \/ UNCHANGED vars
          PROVE  UNCHANGED dbVars
      BY <2>4 DEF Tick, Midnight, Restart, vars
    <2> QED
      BY <2>1, <2>2, <2>3, <2>4, Zenon DEF Next
  <1>2. OwnerOf[k] \in Owners
    OBVIOUS
  <1> QED
    BY <1>1, <1>2 DEF Barred

LEMMA RejectedStep ==
    ASSUME NEW r \in Requests, NEW k \in Keys
    PROVE  TypeInv /\ Rejected(r, k) /\ [Next]_vars => Rejected(r, k)'
  <1> SUFFICES ASSUME TypeInv, Rejected(r, k), [Next]_vars
               PROVE  Rejected(r, k)'
    OBVIOUS
  <1> USE AdmissionAssumption
  <1>b. Barred(k) /\ Barred(k)'
    BY BarredForGood DEF Rejected
  <1>t. /\ pc \in [Requests -> Stages]
        /\ presented \in [Requests -> Keys \union {NoKey}]
    BY DEF TypeInv, TypeOK
  <1>a. ~ Authentic(k)
    BY <1>b, Zenon DEF Barred, Authentic, ConsumerActive
  <1> DEFINE Out == \/ /\ pc[r] \in {"idle", "authenticate", "done", "dropped"}
                       /\ r \notin handled
                    \/ presented[r] # k /\ pc[r] # "idle"
  <1>o. Out
    BY Zenon DEF Rejected
  <1> SUFFICES Out'
    BY <1>b DEF Rejected
  <1>1. ASSUME NEW q \in Requests, NEW x \in Keys \union {NoKey},
               NEW c \in Capabilities, Arrive(q, x, c)
        PROVE  Out'
    BY <1>1, <1>o, <1>t DEF Arrive
  <1>2. ASSUME NEW q \in Requests, Authenticate(q)
        PROVE  Out'
    BY <1>2, <1>o, <1>t, <1>a DEF Authenticate, Continue, Refuse
  <1>3. ASSUME NEW q \in Requests,
               \/ FindPolicy(q) \/ FindGrants(q)
               \/ \E at \in Sampled : Reserve(q, at)
               \/ IncrementDailyAccepted(q) \/ Settle(q)
               \/ RecordRateLimited(q)
               \/ \E class \in HandlerAnswers : Respond(q, class)
               \/ RecordResponseClass(q)
        PROVE  Out'
    <2>1. /\ pc[q] \notin {"idle", "authenticate", "done", "dropped"}
          /\ presented' = presented
          /\ handled' \subseteq handled \union {q}
          /\ \E stage \in Stages \ {"idle"} : pc' = [pc EXCEPT ![q] = stage]
      BY <1>3, Zenon DEF FindPolicy, FindGrants, Reserve, IncrementDailyAccepted,
         Settle, RecordRateLimited, Respond, RecordResponseClass, Continue,
         Refuse, Stages, InFlight
    <2> QED
      BY <2>1, <1>o, <1>t
  <1>4. ASSUME NEW q \in Requests, Disconnect(q)
        PROVE  Out'
    BY <1>4, <1>o, <1>t DEF Disconnect
  <1>5. ASSUME Restart PROVE Out'
    BY <1>5, <1>o, <1>t DEF Restart, InFlight
  <1>6. ASSUME UNCHANGED reqVars PROVE Out'
    BY <1>6, <1>o, Zenon DEF reqVars
  <1>7. ASSUME \/ UNCHANGED vars
               \/ \E x \in Revocable : RevokeByPrefix(x)
               \/ \E x \in Unstable : PolicyDisappears(x)
               \/ \E x \in Expiring : KeyExpires(x)
               \/ \E a \in Accounts, status \in {"suspended", "closed"} :
                     SetAccountStatus(a, status)
               \/ \E hg \in ExpiringGrants : GrantExpires(hg[1], hg[2])
               \/ \E x \in Keys : IssueApiKey(x) \/ IssueAccountApiKey(x)
               \/ Tick \/ Midnight
        PROVE  UNCHANGED reqVars
    BY <1>7 DEF vars, RevokeByPrefix, PolicyDisappears, KeyExpires,
       SetAccountStatus, GrantExpires, IssueApiKey,
       IssueAccountApiKey, InsertIssuedKey, Tick, Midnight
  <1> HIDE DEF Out
  <1> QED
    BY <1>1, <1>2, <1>3, <1>4, <1>5, <1>6, <1>7 DEF Next, RequestStep

(* A key that is revoked, expired or of a closed account before a request  *)
(* looks it up never gets that request to the handler, for any number of   *)
(* keys, requests and restarts.                                            *)
THEOREM RevocationHolds == Spec => RevocationIsFinal
  <1>1. ASSUME NEW r \in Requests, NEW k \in Keys
        PROVE  Spec => [](pc[r] \in {"idle", "authenticate"} /\ Barred(k)
                          => [](presented[r] = k => r \notin handled))
    <2>1. Flow /\ pc[r] \in {"idle", "authenticate"} /\ Barred(k)
             => Rejected(r, k)
      BY DEF Flow, FlowOf, Untouched, Rejected
    <2>2. Rejected(r, k) => (presented[r] = k => r \notin handled)
      BY DEF Rejected
    <2>3. TypeInv /\ Rejected(r, k) /\ [Next]_vars => Rejected(r, k)'
      BY RejectedStep
    <2> QED
      BY <2>1, <2>2, <2>3, TypeInvariant, FlowInvariant, PTL DEF Spec
  <1> QED
    BY <1>1 DEF RevocationIsFinal

(***************************************************************************)
(* Capability grants: what a request without them can still do.            *)
(***************************************************************************)

Ungranted(r, k, c) ==
    /\ Lost(k, c)
    /\ \/ /\ pc[r] \in {"idle", "authenticate", "find_policy", "find_grants",
                        "done", "dropped"}
          /\ r \notin handled
       \/ /\ pc[r] # "idle"
          /\ presented[r] # k \/ capability[r] # c

(* No step gives a lost grant back.                                        *)
LEMMA LostForGood ==
    ASSUME TypeInv, [Next]_vars, NEW k \in Keys, NEW c, Lost(k, c)
    PROVE  Lost(k, c)'
  <1> USE AdmissionAssumption
  <1> DEFINE Denied(gs) == \A g \in gs : g.capability = c => g.status # "active"
             HasRow(gs) == \E g \in gs : /\ g.capability = c
                                         /\ g.network_scope = AnyNetwork
             Fixed(h)   == h \in Consumers /\ c \in LegacyBaseline
  <1>h. PICK h \in Holders(k) :
           Denied(grants[h]) /\ (Fixed(h) => HasRow(grants[h]))
    BY Zenon DEF Lost
  <1>k. key_status[k] # "unissued"
    BY DEF Lost
  <1>d. h \in Owners \union Keys
    BY DEF Holders
  <1>s. ASSUME key_status'[k] # "unissued", Denied(grants'[h]),
               Fixed(h) => HasRow(grants'[h])
        PROVE  Lost(k, c)'
    BY <1>s, <1>h, Zenon DEF Lost, Holders
  <1>1. CASE grants' = grants /\ key_status'[k] # "unissued"
    BY <1>1, <1>h, <1>s, Zenon
  <1>2. ASSUME NEW hg \in ExpiringGrants, GrantExpires(hg[1], hg[2])
        PROVE  Lost(k, c)'
    <2> DEFINE old == hg[2]
               new == [hg[2] EXCEPT !.status = "expired"]
    <2>2. hg[1] \in Owners \union Keys /\ old \in CapabilityGrant
      OBVIOUS
    <2>3. \/ grants'[h] = grants[h]
          \/ grants'[h] = (grants[h] \ {old}) \union {new}
      BY <1>2, <1>d, <2>2 DEF GrantExpires, TypeInv, TypeOK
    <2>4. /\ new.status = "expired" /\ new.capability = old.capability
          /\ new.network_scope = old.network_scope
      BY <2>2 DEF CapabilityGrant
    <2>5. key_status' = key_status
      BY <1>2 DEF GrantExpires
    <2> HIDE DEF old, new
    <2>6. Denied(grants'[h])
      BY <1>h, <2>3, <2>4, Zenon
    <2>7. HasRow(grants[h]) => HasRow(grants'[h])
      BY <2>3, <2>4, Zenon
    <2> QED
      BY <1>h, <1>k, <1>s, <2>5, <2>6, <2>7, Zenon
  <1>3. ASSUME NEW x \in Keys, IssueApiKey(x)
        PROVE  Lost(k, c)'
    <2>1. x # k /\ OwnerOf[x] \in Consumers /\ OwnerOf[x] \in Owners
      BY <1>3, <1>k, IssuanceAssumption DEF IssueApiKey, InsertIssuedKey
    <2>2. h # x
      BY <2>1, IssuanceAssumption DEF Holders
    <2>3. key_status'[k] # "unissued"
      BY <1>3, <1>k DEF IssueApiKey, InsertIssuedKey, TypeInv, TypeOK
    <2>4. \/ grants'[h] = grants[h]
          \/ h = OwnerOf[x] /\ grants'[h] = WithBaseline(grants[h])
      BY <1>3, <1>d, <2>2 DEF IssueApiKey, InsertIssuedKey, TypeInv, TypeOK
    <2>5. CASE grants'[h] = grants[h]
      BY <1>h, <1>s, <2>3, <2>5, Zenon
    <2>6. CASE h = OwnerOf[x] /\ grants'[h] = WithBaseline(grants[h])
      <3>1. h \in Consumers
        BY <2>1, <2>6, Zenon
      <3>2. ASSUME NEW b \in LegacyBaseline,
                   \A g \in grants[h] :
                      g.capability = b => g.network_scope # AnyNetwork
            PROVE  Unscoped(b).capability # c
        BY <1>h, <3>1, <3>2, Zenon DEF Unscoped
      <3>3. Denied(grants'[h])
        <4>1. ASSUME NEW g \in WithBaseline(grants[h]), g.capability = c
              PROVE  g \in grants[h]
          BY <3>2, <4>1, Zenon DEF WithBaseline
        <4> QED
          BY <1>h, <2>6, <4>1, Zenon
      <3>4. HasRow(grants[h]) => HasRow(grants'[h])
        BY <2>6, Zenon DEF WithBaseline
      <3> QED
        BY <1>h, <1>s, <2>3, <3>3, <3>4, Zenon
    <2> QED
      BY <2>4, <2>5, <2>6, Zenon
  <1>4. ASSUME NEW x \in Keys, IssueAccountApiKey(x)
        PROVE  Lost(k, c)'
    <2>1. x # k
      BY <1>4, <1>k DEF IssueAccountApiKey, InsertIssuedKey
    <2>2. h # x
      BY <2>1, IssuanceAssumption DEF Holders
    <2>3. grants'[h] = grants[h] /\ key_status'[k] # "unissued"
      BY <1>4, <1>k, <1>d, <2>1, <2>2, Zenon DEF IssueAccountApiKey, InsertIssuedKey, TypeInv, TypeOK
    <2> QED
      BY <1>h, <1>s, <2>3, Zenon
  <1>5. ASSUME NEW q \in Requests,
               \/ \E x \in Keys \union {NoKey}, y \in Capabilities :
                     Arrive(q, x, y)
               \/ RequestStep(q) \/ Disconnect(q)
        PROVE  Lost(k, c)'
    <2>1. grants' = grants /\ key_status' = key_status
      BY <1>5, Zenon DEF RequestStep, Arrive, Authenticate, FindPolicy, FindGrants,
         Reserve, IncrementDailyAccepted, Settle, RecordRateLimited, Respond,
         RecordResponseClass, Disconnect, dbVars
    <2> QED
      BY <1>1, <1>k, <2>1
  <1>6. ASSUME \/ UNCHANGED vars \/ Tick \/ Midnight \/ Restart
               \/ \E x \in Revocable : RevokeByPrefix(x)
               \/ \E x \in Unstable : PolicyDisappears(x)
               \/ \E x \in Expiring : KeyExpires(x)
               \/ \E a \in Accounts, status \in {"suspended", "closed"} :
                     SetAccountStatus(a, status)
        PROVE  Lost(k, c)'
    <2>1. grants' = grants /\ key_status'[k] # "unissued"
      BY <1>6, <1>k, Zenon DEF vars, dbVars, Tick, Midnight, Restart, RevokeByPrefix,
         PolicyDisappears, KeyExpires, SetAccountStatus, TypeInv, TypeOK
    <2> QED
      BY <1>1, <2>1
  <1> QED
    BY <1>2, <1>3, <1>4, <1>5, <1>6 DEF Next

(* Every holder behind a key is asked.                                     *)
LEMMA LostIsDenied ==
    ASSUME NEW k \in Keys, NEW c, Lost(k, c)
    PROVE  ~ IsAuthorizedForRoute(k, c)
  <1> USE AdmissionAssumption
  <1> DEFINE request == RouteRequest(c)
  <1>1. PICK h \in Holders(k) : ~ AnyPermits(grants[h], request)
    BY Zenon DEF Lost, AnyPermits, GrantPermits, RouteRequest
  <1>2. \/ h = k
        \/ KindOf[k] # "anonymous_demo" /\ h = OwnerOf[k]
        \/ KindOf[k] = "agent" /\ h = ClientOf[k]
    BY DEF Holders
  <1>3. \/ ~ AnyPermits(GrantContext(k).owner_grants, request)
        \/ \E gs \in GrantContext(k).client_grants : ~ AnyPermits(gs, request)
        \/ ~ AnyPermits(GrantContext(k).key_grants, request)
    BY <1>1, <1>2 DEF GrantContext
  <1> HIDE DEF request
  <1>4. EvaluateAuthorization(GrantContext(k), request) # "allow"
    BY <1>3 DEF EvaluateAuthorization
  <1> QED
    BY <1>4 DEF IsAuthorizedForRoute, request

LEMMA UngrantedStep ==
    ASSUME NEW r \in Requests, NEW k \in Keys, NEW c \in Capabilities
    PROVE  TypeInv /\ Ungranted(r, k, c) /\ [Next]_vars => Ungranted(r, k, c)'
  <1> SUFFICES ASSUME TypeInv, Ungranted(r, k, c), [Next]_vars
               PROVE  Ungranted(r, k, c)'
    OBVIOUS
  <1> USE AdmissionAssumption
  <1>b. Lost(k, c) /\ Lost(k, c)'
    BY LostForGood, Zenon DEF Ungranted
  <1>t. /\ pc \in [Requests -> Stages]
        /\ presented \in [Requests -> Keys \union {NoKey}]
        /\ capability \in [Requests -> Capabilities \union {"none"}]
    BY DEF TypeInv, TypeOK
  <1>a. ~ IsAuthorizedForRoute(k, c)
    BY <1>b, LostIsDenied
  <1> DEFINE Out == \/ /\ pc[r] \in {"idle", "authenticate", "find_policy",
                                     "find_grants", "done", "dropped"}
                       /\ r \notin handled
                    \/ /\ pc[r] # "idle"
                       /\ presented[r] # k \/ capability[r] # c
  <1>o. Out
    BY Zenon DEF Ungranted
  <1> SUFFICES Out'
    BY <1>b, Zenon DEF Ungranted
  <1>1. ASSUME NEW q \in Requests, NEW x \in Keys \union {NoKey},
               NEW y \in Capabilities, Arrive(q, x, y)
        PROVE  Out'
    BY <1>1, <1>o, <1>t DEF Arrive
  <1>2. ASSUME NEW q \in Requests, Authenticate(q) \/ FindPolicy(q)
        PROVE  Out'
    BY <1>2, <1>o, <1>t, Zenon DEF Authenticate, FindPolicy, Continue, Refuse
  <1>3. ASSUME NEW q \in Requests, FindGrants(q)
        PROVE  Out'
    BY <1>3, <1>o, <1>t, <1>a, Zenon DEF FindGrants, Continue, Refuse
  <1>4. ASSUME NEW q \in Requests,
               \/ \E at \in Sampled : Reserve(q, at)
               \/ IncrementDailyAccepted(q) \/ Settle(q)
               \/ RecordRateLimited(q)
               \/ \E class \in HandlerAnswers : Respond(q, class)
               \/ RecordResponseClass(q)
        PROVE  Out'
    <2>1. /\ pc[q] \notin {"idle", "authenticate", "find_policy",
                           "find_grants", "done", "dropped"}
          /\ presented' = presented /\ capability' = capability
          /\ handled' \subseteq handled \union {q}
          /\ \E stage \in Stages \ {"idle"} : pc' = [pc EXCEPT ![q] = stage]
      BY <1>4, Zenon DEF Reserve, IncrementDailyAccepted, Settle, RecordRateLimited,
         Respond, RecordResponseClass, Continue, Refuse, Stages, InFlight
    <2> QED
      BY <2>1, <1>o, <1>t, Zenon
  <1>5. ASSUME NEW q \in Requests, Disconnect(q)
        PROVE  Out'
    BY <1>5, <1>o, <1>t, Zenon DEF Disconnect
  <1>6. ASSUME Restart PROVE Out'
    BY <1>6, <1>o, <1>t DEF Restart, InFlight
  <1>7. ASSUME UNCHANGED reqVars PROVE Out'
    BY <1>7, <1>o, Zenon DEF reqVars
  <1>8. ASSUME \/ UNCHANGED vars
               \/ \E x \in Revocable : RevokeByPrefix(x)
               \/ \E x \in Unstable : PolicyDisappears(x)
               \/ \E x \in Expiring : KeyExpires(x)
               \/ \E a \in Accounts, status \in {"suspended", "closed"} :
                     SetAccountStatus(a, status)
               \/ \E hg \in ExpiringGrants : GrantExpires(hg[1], hg[2])
               \/ \E x \in Keys : IssueApiKey(x) \/ IssueAccountApiKey(x)
               \/ Tick \/ Midnight
        PROVE  UNCHANGED reqVars
    BY <1>8 DEF vars, RevokeByPrefix, PolicyDisappears, KeyExpires,
       SetAccountStatus, GrantExpires, IssueApiKey,
       IssueAccountApiKey, InsertIssuedKey, Tick, Midnight
  <1> HIDE DEF Out
  <1> QED
    BY <1>1, <1>2, <1>3, <1>4, <1>5, <1>6, <1>7, <1>8, Zenon DEF Next, RequestStep

(* A request that has yet to look up a grant that one of its key's holders *)
(* has lost never gets to the handler of the route, for any grants.        *)
THEOREM GrantLossHolds == Spec => GrantLossIsFinal
  <1>1. ASSUME NEW r \in Requests, NEW k \in Keys, NEW c \in Capabilities
        PROVE  Spec => [](/\ pc[r] \in {"idle", "authenticate", "find_policy",
                                        "find_grants"}
                          /\ Lost(k, c)
                          => [](presented[r] = k /\ capability[r] = c
                                => r \notin handled))
    <2>1. Flow /\ pc[r] \in {"idle", "authenticate", "find_policy",
                             "find_grants"} /\ Lost(k, c)
             => Ungranted(r, k, c)
      BY Zenon DEF Flow, FlowOf, Untouched, Ungranted
    <2>2. Ungranted(r, k, c)
             => (presented[r] = k /\ capability[r] = c => r \notin handled)
      BY DEF Ungranted
    <2>3. TypeInv /\ Ungranted(r, k, c) /\ [Next]_vars => Ungranted(r, k, c)'
      BY UngrantedStep
    <2> QED
      BY <2>1, <2>2, <2>3, TypeInvariant, FlowInvariant, PTL DEF Spec
  <1> QED
    BY <1>1 DEF GrantLossIsFinal

=============================================================================
