--------------------------- MODULE ApiKeyAdmission ---------------------------
(***************************************************************************)
(* Admission of protected requests: the middleware require_api_key_for     *)
(* (src/adapters/http/auth.rs), the minute limiter it shares between all   *)
(* requests of the process, and the API-key tables it reads and updates    *)
(* (src/adapters/postgres/api_keys.rs).                                    *)
(*                                                                         *)
(* A request is a process whose steps are the stretches of code between    *)
(* two awaits; any number of requests interleave.  A database call is the  *)
(* step in which its statement takes effect, and the code that uses its    *)
(* result is a later step, so that what was read may be stale when used.   *)
(* A statement may fail without effect, and a writing statement may also   *)
(* take effect and yet be reported as failed.  The client may disconnect,  *)
(* which drops the request's future where it stands, and the process may   *)
(* crash and restart with an empty limiter.  Around the requests, the      *)
(* administrator issues and revokes keys and suspends or closes accounts,  *)
(* and keys and grants expire.                                             *)
(***************************************************************************)
EXTENDS MinuteLimiter, Authorization, FiniteSets, FiniteSetsExt

CONSTANTS Requests,     \* the requests that arrive
          Owners,       \* api_consumer, ib_account and ib_client rows
          Accounts,     \* the ib_account rows the administrator may act on
          Consumers,    \* the api_consumer rows among the owners
          KindOf,       \* api_key.kind
          OwnerOf,      \* the consumer or account behind each key
          ClientOf,     \* the client behind each agent key
          PolicyOf,     \* api_key_policy: the two limits of each key
          GrantsOf,     \* the grants each owner, client and key starts with
          Issued,       \* the keys issued before the service starts
          LegacyBaseline, \* Capability::LEGACY_BASELINE
          AccountBaseline, \* Capability::ACCOUNT_BASELINE
          DemoNetwork,  \* the network of anonymous demo keys
          Expiring,     \* the keys issued with an expires_at
          Revocable,    \* the keys the administrator may revoke
          Unstable,     \* the keys whose policy row may be deleted
          Failing,      \* the stages whose database call may fail
          Dropping,     \* the stages at which a client may disconnect
          HandlerAnswers, \* the response classes the route handlers produce
          ExpiringGrants, \* the grants <<holder, grant>> with an expires_at
          LockDelay,    \* longest wait between Instant::now() and the mutex
          MaxTime,      \* bound: last tick of the monotonic clock
          MaxRestarts,  \* bound: restarts of the process
          MaxDay        \* bound: last UTC date

KeyKinds == {"legacy", "account", "anonymous_demo", "agent"}

NoKey == "no_key"    \* no credential, a malformed one, or one of no key

InFlight == {"authenticate", "find_policy", "find_grants", "reserve",
             "increment", "settle", "limited", "handler", "record"}

Stages == {"idle", "done", "dropped"} \union InFlight

ResponseClasses == {"successful", "client_error", "server_error"}

ASSUME AdmissionAssumption ==
    /\ IsFiniteSet(Requests)
    /\ NoKey \notin Keys
    /\ Accounts \subseteq Owners
    /\ KindOf \in [Keys -> KeyKinds]
    /\ OwnerOf \in [Keys -> Owners]
    /\ ClientOf \in [Keys -> Owners]
    /\ PolicyOf \in [Keys -> [requests_per_minute : Nat, requests_per_day : Nat]]
    /\ GrantsOf \in [Owners \union Keys -> SUBSET CapabilityGrant]
    /\ Expiring \subseteq Keys /\ Revocable \subseteq Keys
    /\ Unstable \subseteq Keys
    /\ Failing \subseteq InFlight /\ Dropping \subseteq InFlight
    /\ HandlerAnswers \subseteq ResponseClasses \union {"other"}
    /\ ExpiringGrants \subseteq (Owners \union Keys) \X CapabilityGrant
    /\ LockDelay \in Nat /\ LockDelay < WINDOW
    /\ MaxTime \in Nat /\ MaxDay \in Nat /\ MaxRestarts \in Nat

ASSUME IssuanceAssumption ==
    /\ Consumers \subseteq Owners
    /\ Owners \intersect Keys = {}
    /\ \A k \in Keys : KindOf[k] = "legacy" <=> OwnerOf[k] \in Consumers
    /\ Issued \subseteq Keys
    /\ LegacyBaseline \subseteq Capabilities
    /\ AccountBaseline \subseteq Capabilities
    /\ DemoNetwork \in Networks

Days == 0 .. MaxDay

(* The columns of api_key_usage_daily; a missing row counts 0.             *)
Counters == {"accepted", "rate_limited", "successful", "client_error",
             "server_error"}

None == -1    \* no reservation, no date

VARIABLES
    key_status,    \* api_key.status
    expired,       \* the keys whose expires_at has passed
    owner_status,  \* api_consumer, ib_account and ib_client status
    policies,      \* the keys that have an api_key_policy row
    grants,        \* capability grants of every holder
    usage,         \* api_key_usage_daily
    windows,       \* ApiKeyMinuteLimiter.windows, lost in a restart
    now,           \* the monotonic clock
    booted_at,     \* when the process started
    restarts,      \* how often it was restarted
    today,         \* the database's UTC date
    pc,            \* where each request stands
    presented,     \* the key each request presents
    capability,    \* the capability of the route it asks for
    outcome,       \* what its increment_daily_accepted returned to it
    slot,          \* its minute reservation: the window's started_at
    accepted_on,   \* the date its increment_daily_accepted was counted on
    handled,       \* history: the requests the route handler ran for
    answer         \* the status class it was answered with

dbVars    == <<key_status, expired, owner_status, policies, grants>>
clockVars == <<now, booted_at, restarts, today>>
reqVars   == <<pc, presented, capability, outcome, slot, accepted_on, handled,
               answer>>
vars      == <<dbVars, usage, windows, clockVars, reqVars>>

(* The answers of the middleware itself, then those of the handler.  A     *)
(* response outside 2xx..5xx is counted in no class.                       *)
Refusals == {"unauthorized", "unavailable", "not_granted", "rate_limited"}
Answers  == {"none"} \union Refusals \union ResponseClasses \union {"other"}

DailyOutcomes == {"accepted", "limit_exceeded", "missing_policy", "error"}

(***************************************************************************)
(* What the queries compute.                                               *)
(***************************************************************************)

(* Mutant: an agent key only needs its client.                             *)
ConsumerActiveClientOnly(k) ==
    CASE KindOf[k] \in {"legacy", "account"} ->
            owner_status[OwnerOf[k]] = "active"
      [] KindOf[k] = "anonymous_demo" -> TRUE
      [] KindOf[k] = "agent" -> owner_status[ClientOf[k]] = "active"

(* consumer_status in find_key_by_prefix_and_hash.                         *)
ConsumerActive(k) ==
    CASE KindOf[k] \in {"legacy", "account"} ->
            owner_status[OwnerOf[k]] = "active"
      [] KindOf[k] = "anonymous_demo" -> TRUE
      [] KindOf[k] = "agent" -> /\ owner_status[OwnerOf[k]] = "active"
                                /\ owner_status[ClientOf[k]] = "active"

(* principal_from_lookup.  Every stored key is hashed with sha256.         *)
Authentic(k) ==
    key_status[k] = "active" /\ ConsumerActive(k) /\ k \notin expired

(* Demo keys own the legacy baseline on one network.                       *)
DemoGrants ==
    {[capability |-> c, network_scope |-> DemoNetwork, status |-> "active"] :
        c \in LegacyBaseline}

(* find_authorization_grants.  Its queries are one step.  The owner's      *)
(* grants are read first, and those of the client and of an issued key     *)
(* only shrink: what the queries allow was allowed when the first one ran, *)
(* and what they deny was denied then or when the last one ran.            *)
GrantContext(k) ==
    [owner_grants  |-> IF KindOf[k] = "anonymous_demo"
                       THEN DemoGrants ELSE grants[OwnerOf[k]],
     client_grants |-> IF KindOf[k] = "agent" THEN {grants[ClientOf[k]]} ELSE {},
     key_grants    |-> grants[k]]

IsAuthorizedForRoute(k, c) ==
    EvaluateAuthorization(GrantContext(k), RouteRequest(c)) = "allow"

RequestsPerMinute(k) == PolicyOf[k].requests_per_minute
RequestsPerDay(k)    == PolicyOf[k].requests_per_day

(* Mutant: one request too many.                                           *)
DailyOutcomeOffByOne(k) ==
    CASE k \notin policies -> "missing_policy"
      [] /\ k \in policies
         /\ RequestsPerDay(k) > 0
         /\ usage[k][today]["accepted"] <= RequestsPerDay(k) -> "accepted"
      [] OTHER -> "limit_exceeded"

(* increment_daily_accepted: one statement, one outcome.                   *)
DailyOutcome(k) ==
    CASE k \notin policies -> "missing_policy"
      [] /\ k \in policies
         /\ RequestsPerDay(k) > 0
         /\ usage[k][today]["accepted"] < RequestsPerDay(k) -> "accepted"
      [] OTHER -> "limit_exceeded"

(***************************************************************************)
(* The initial state: no traffic yet, the keys issued so far are active.   *)
(***************************************************************************)
Init ==
    /\ key_status = [k \in Keys |-> IF k \in Issued THEN "active" ELSE "unissued"]
    /\ expired = {}
    /\ owner_status = [o \in Owners |-> "active"]
    /\ policies = Issued
    /\ grants = [h \in Owners \union Keys |->
                   IF h \in Keys \ Issued THEN {} ELSE GrantsOf[h]]
    /\ usage = [k \in Keys |-> [d \in Days |-> [c \in Counters |-> 0]]]
    /\ windows = NoWindows
    /\ now = 0 /\ booted_at = 0 /\ restarts = 0 /\ today = 0
    /\ pc = [r \in Requests |-> "idle"]
    /\ presented = [r \in Requests |-> NoKey]
    /\ capability = [r \in Requests |-> "none"]
    /\ outcome = [r \in Requests |-> "none"]
    /\ slot = [r \in Requests |-> None]
    /\ accepted_on = [r \in Requests |-> None]
    /\ handled = {}
    /\ answer = [r \in Requests |-> "none"]

(***************************************************************************)
(* The steps of a request.                                                 *)
(***************************************************************************)

(* A request reaches a protected route with a credential in its header.    *)
Arrive(r, k, c) ==
    /\ pc[r] = "idle"
    /\ pc' = [pc EXCEPT ![r] = "authenticate"]
    /\ presented' = [presented EXCEPT ![r] = k]
    /\ capability' = [capability EXCEPT ![r] = c]
    /\ UNCHANGED <<dbVars, usage, windows, clockVars, outcome, slot,
                   accepted_on, handled, answer>>

(* The middleware answers without running the handler.                     *)
Refuse(r, a) ==
    /\ pc' = [pc EXCEPT ![r] = "done"]
    /\ answer' = [answer EXCEPT ![r] = a]

Continue(r, stage) ==
    /\ pc' = [pc EXCEPT ![r] = stage]
    /\ UNCHANGED answer

CallFails(r) == pc[r] \in Failing

(* authenticate: the header is parsed, the key looked up and checked.      *)
Authenticate(r) ==
    /\ pc[r] = "authenticate"
    /\ \/ /\ presented[r] \in Keys
          /\ Authentic(presented[r])
          /\ Continue(r, "find_policy")
       \/ /\ presented[r] \in Keys => ~ Authentic(presented[r])
          /\ Refuse(r, "unauthorized")
       \/ /\ presented[r] \in Keys
          /\ CallFails(r)
          /\ Refuse(r, "unavailable")
    /\ UNCHANGED <<dbVars, usage, windows, clockVars, presented, capability,
                   outcome, slot, accepted_on, handled>>

(* find_policy: the key's limits; no row and a failed query are the same.  *)
FindPolicy(r) ==
    /\ pc[r] = "find_policy"
    /\ \/ presented[r] \in policies /\ Continue(r, "find_grants")
       \/ /\ presented[r] \notin policies \/ CallFails(r)
          /\ Refuse(r, "unavailable")
    /\ UNCHANGED <<dbVars, usage, windows, clockVars, presented, capability,
                   outcome, slot, accepted_on, handled>>

FindGrants(r) ==
    /\ pc[r] = "find_grants"
    /\ \/ /\ IsAuthorizedForRoute(presented[r], capability[r])
          /\ Continue(r, "reserve")
       \/ /\ ~ IsAuthorizedForRoute(presented[r], capability[r])
          /\ Refuse(r, "not_granted")
       \/ CallFails(r) /\ Refuse(r, "unavailable")
    /\ UNCHANGED <<dbVars, usage, windows, clockVars, presented, capability,
                   outcome, slot, accepted_on, handled>>

(* The instants a reservation that takes the mutex now may have sampled.   *)
Sampled == {t \in booted_at .. now : now - t <= LockDelay}

(* The minute limiter decides with the limit found by find_policy.         *)
Reserve(r, at) ==
    LET k     == presented[r]
        limit == RequestsPerMinute(k)
    IN  /\ pc[r] = "reserve"
        /\ windows' = AfterReserve(windows, k, limit, at)
        /\ \/ /\ CanReserve(windows, k, limit, at)
              /\ slot' = [slot EXCEPT ![r] =
                            CurrentWindow(windows, k, at).started_at]
              /\ Continue(r, "increment")
           \/ /\ ~ CanReserve(windows, k, limit, at)
              /\ Continue(r, "limited")
              /\ UNCHANGED slot
        /\ UNCHANGED <<dbVars, usage, clockVars, presented, capability,
                       outcome, accepted_on, handled>>

Count(k, counter) ==
    usage' = [usage EXCEPT ![k][today][counter] = @ + 1]

(* Mutant: a statement whose reply is lost is sent again.                  *)
IncrementRetried(r) ==
    LET k == presented[r]
    IN  /\ pc[r] = "increment"
        /\ \/ /\ DailyOutcome(k) = "accepted"
              /\ Count(k, "accepted")
              /\ accepted_on' = [accepted_on EXCEPT ![r] = today]
              /\ \/ /\ outcome' = [outcome EXCEPT ![r] = "accepted"]
                    /\ pc' = [pc EXCEPT ![r] = "settle"]
                 \/ CallFails(r) /\ UNCHANGED <<outcome, pc>>
           \/ /\ DailyOutcome(k) # "accepted"
              /\ outcome' = [outcome EXCEPT ![r] = DailyOutcome(k)]
              /\ pc' = [pc EXCEPT ![r] = "settle"]
              /\ UNCHANGED <<usage, accepted_on>>
        /\ UNCHANGED <<dbVars, windows, clockVars, presented, capability, slot,
                       handled, answer>>

(* The daily quota statement runs in the database.  Its reply reaches the  *)
(* request in a later step, or is lost: the request then sees an error     *)
(* although the row may have been updated.                                 *)
IncrementDailyAccepted(r) ==
    LET k == presented[r]
    IN  /\ pc[r] = "increment"
        /\ pc' = [pc EXCEPT ![r] = "settle"]
        /\ \/ /\ DailyOutcome(k) = "accepted"
              /\ Count(k, "accepted")
              /\ accepted_on' = [accepted_on EXCEPT ![r] = today]
              /\ \/ outcome' = [outcome EXCEPT ![r] = "accepted"]
                 \/ CallFails(r) /\ outcome' = [outcome EXCEPT ![r] = "error"]
           \/ /\ DailyOutcome(k) # "accepted"
              /\ outcome' = [outcome EXCEPT ![r] = DailyOutcome(k)]
              /\ UNCHANGED <<usage, accepted_on>>
           \/ /\ CallFails(r)
              /\ outcome' = [outcome EXCEPT ![r] = "error"]
              /\ UNCHANGED <<usage, accepted_on>>
        /\ UNCHANGED <<dbVars, windows, clockVars, presented, capability, slot,
                       handled, answer>>

(* The reservation goes back to the limiter: the request holds it no more. *)
Release(r) ==
    /\ windows' = AfterRelease(windows, presented[r], slot[r])
    /\ slot' = [slot EXCEPT ![r] = None]

(* Mutant: an error of the daily quota does not release the reservation.   *)
SettleKeepsSlot(r) ==
    /\ pc[r] = "settle"
    /\ \/ /\ outcome[r] = "accepted"
          /\ handled' = handled \union {r}
          /\ Continue(r, "handler")
          /\ UNCHANGED <<windows, slot>>
       \/ /\ outcome[r] = "limit_exceeded"
          /\ Release(r)
          /\ Continue(r, "limited")
          /\ UNCHANGED handled
       \/ /\ outcome[r] \in {"missing_policy", "error"}
          /\ Refuse(r, "unavailable")
          /\ UNCHANGED <<handled, windows, slot>>
    /\ outcome' = [outcome EXCEPT ![r] = "none"]
    /\ UNCHANGED <<dbVars, usage, clockVars, presented, capability, accepted_on>>

(* Mutant: a policy that disappeared is never answered for.                *)
SettleIgnoresMissing(r) ==
    outcome[r] # "missing_policy" /\ SettleKeepsSlot(r)

(* The request continues with the outcome of the daily quota.              *)
Settle(r) ==
    /\ pc[r] = "settle"
    /\ \/ /\ outcome[r] = "accepted"
          /\ handled' = handled \union {r}
          /\ Continue(r, "handler")
          /\ UNCHANGED <<windows, slot>>
       \/ /\ outcome[r] = "limit_exceeded"
          /\ Release(r)
          /\ Continue(r, "limited")
          /\ UNCHANGED handled
       \/ /\ outcome[r] \in {"missing_policy", "error"}
          /\ Release(r)
          /\ Refuse(r, "unavailable")
          /\ UNCHANGED handled
    /\ outcome' = [outcome EXCEPT ![r] = "none"]
    /\ UNCHANGED <<dbVars, usage, clockVars, presented, capability, accepted_on>>

(* record_rate_limited: counted, or only logged when the statement fails.  *)
RecordRateLimited(r) ==
    /\ pc[r] = "limited"
    /\ \/ Count(presented[r], "rate_limited")
       \/ CallFails(r) /\ UNCHANGED usage
    /\ Refuse(r, "rate_limited")
    /\ UNCHANGED <<dbVars, windows, clockVars, presented, capability, outcome,
                   slot, accepted_on, handled>>

(* The route handler produces its response.                                *)
Respond(r, class) ==
    /\ pc[r] = "handler"
    /\ pc' = [pc EXCEPT ![r] = "record"]
    /\ answer' = [answer EXCEPT ![r] = class]
    /\ UNCHANGED <<dbVars, usage, windows, clockVars, presented, capability,
                   outcome, slot, accepted_on, handled>>

(* record_response_class: on the date the response is counted.             *)
RecordResponseClass(r) ==
    /\ pc[r] = "record"
    /\ \/ answer[r] \in ResponseClasses /\ Count(presented[r], answer[r])
       \/ (answer[r] = "other" \/ CallFails(r)) /\ UNCHANGED usage
    /\ pc' = [pc EXCEPT ![r] = "done"]
    /\ UNCHANGED <<dbVars, windows, clockVars, presented, capability, outcome,
                   slot, accepted_on, handled, answer>>

(* The connection closes and the request's future is dropped at an await.  *)
(* Nothing is undone: a reservation it holds stays charged.                *)
Disconnect(r) ==
    /\ pc[r] \in Dropping
    /\ pc' = [pc EXCEPT ![r] = "dropped"]
    /\ UNCHANGED <<dbVars, usage, windows, clockVars, presented, capability,
                   outcome, slot, accepted_on, handled, answer>>

(***************************************************************************)
(* The administrator, the clocks and the process.                          *)
(***************************************************************************)

Unscoped(c) == [capability    |-> c,
                network_scope |-> AnyNetwork,
                status        |-> "active"]

(* Mutant: insert .. on conflict do update set status = 'active'.          *)
WithBaselineRenewed(gs) ==
    {g \in gs : g.capability \in LegacyBaseline => g.network_scope # AnyNetwork}
        \union {Unscoped(c) : c \in LegacyBaseline}

(* insert .. on conflict do nothing: a row of any status stays as it is.   *)
WithBaseline(gs) ==
    gs \union {Unscoped(c) : c \in {x \in LegacyBaseline : \A g \in gs :
                  g.capability = x => g.network_scope # AnyNetwork}}

(* insert_issued_key and insert_policy_for_issue.                          *)
InsertIssuedKey(k) ==
    /\ key_status[k] = "unissued"
    /\ key_status' = [key_status EXCEPT ![k] = "active"]
    /\ policies' = policies \union {k}

(* admin api-key issue: one transaction inserts the key, its policy, its   *)
(* grants and the grants its consumer has no row for.                      *)
IssueApiKey(k) ==
    /\ KindOf[k] = "legacy"
    /\ InsertIssuedKey(k)
    /\ grants' = [h \in DOMAIN grants |->
                    CASE h = k -> {Unscoped(c) : c \in LegacyBaseline}
                      [] h = OwnerOf[k] -> WithBaseline(grants[h])
                      [] OTHER -> grants[h]]
    /\ UNCHANGED <<expired, owner_status, usage, windows, clockVars, reqVars>>

(* admin account issue: only for an active account, whose grants stay.     *)
IssueAccountApiKey(k) ==
    /\ KindOf[k] = "account"
    /\ owner_status[OwnerOf[k]] = "active"
    /\ InsertIssuedKey(k)
    /\ grants' = [grants EXCEPT ![k] = {Unscoped(c) : c \in AccountBaseline}]
    /\ UNCHANGED <<expired, owner_status, usage, windows, clockVars, reqVars>>

(* admin api-key revoke: idempotent and final.                             *)
RevokeByPrefix(k) ==
    /\ key_status[k] # "unissued"
    /\ key_status' = [key_status EXCEPT ![k] = "revoked"]
    /\ UNCHANGED <<expired, owner_status, policies, grants, usage, windows,
                   clockVars, reqVars>>

(* admin account suspend | close: a closed account stays closed.  (The     *)
(* browser sessions it ends as well admit no API request.)                 *)
SetAccountStatus(a, status) ==
    /\ owner_status[a] # "closed"
    /\ owner_status' = [owner_status EXCEPT ![a] = status]
    /\ UNCHANGED <<key_status, expired, policies, grants, usage, windows,
                   clockVars, reqVars>>

(* A key's expires_at passes.                                              *)
KeyExpires(k) ==
    /\ key_status[k] # "unissued"
    /\ expired' = expired \union {k}
    /\ UNCHANGED <<key_status, owner_status, policies, grants, usage, windows,
                   clockVars, reqVars>>

(* A grant's expires_at passes.                                            *)
GrantExpires(h, g) ==
    /\ g \in grants[h]
    /\ grants' = [grants EXCEPT ![h] =
                    (@ \ {g}) \union {[g EXCEPT !.status = "expired"]}]
    /\ UNCHANGED <<key_status, expired, owner_status, policies, usage, windows,
                   clockVars, reqVars>>

(* An operator deletes a policy row, which the middleware answers for.     *)
PolicyDisappears(k) ==
    /\ policies' = policies \ {k}
    /\ UNCHANGED <<key_status, expired, owner_status, grants, usage, windows,
                   clockVars, reqVars>>

Tick ==
    /\ now < MaxTime
    /\ now' = now + 1
    /\ UNCHANGED <<dbVars, usage, windows, booted_at, restarts, today, reqVars>>

Midnight ==
    /\ today < MaxDay
    /\ today' = today + 1
    /\ UNCHANGED <<dbVars, usage, windows, now, booted_at, restarts, reqVars>>

(* The process dies and comes up again: the limiter starts empty, the      *)
(* requests in flight are gone, the database keeps what was committed.     *)
Restart ==
    /\ now < MaxTime
    /\ restarts < MaxRestarts
    /\ restarts' = restarts + 1
    /\ now' = now + 1
    /\ booted_at' = now + 1
    /\ windows' = NoWindows
    /\ pc' = [r \in Requests |-> IF pc[r] \in InFlight THEN "dropped" ELSE pc[r]]
    /\ UNCHANGED <<dbVars, usage, today, presented, capability, outcome, slot,
                   accepted_on, handled, answer>>

RequestStep(r) ==
    \/ Authenticate(r)
    \/ FindPolicy(r)
    \/ FindGrants(r)
    \/ \E at \in Sampled : Reserve(r, at)
    \/ IncrementDailyAccepted(r)
    \/ Settle(r)
    \/ RecordRateLimited(r)
    \/ \E class \in HandlerAnswers : Respond(r, class)
    \/ RecordResponseClass(r)

Next ==
    \/ \E r \in Requests :
          \/ \E k \in Keys \union {NoKey}, c \in Capabilities : Arrive(r, k, c)
          \/ RequestStep(r)
          \/ Disconnect(r)
    \/ \E k \in Keys : IssueApiKey(k) \/ IssueAccountApiKey(k)
    \/ \E k \in Revocable : RevokeByPrefix(k)
    \/ \E k \in Unstable : PolicyDisappears(k)
    \/ \E k \in Expiring : KeyExpires(k)
    \/ \E a \in Accounts, status \in {"suspended", "closed"} :
          SetAccountStatus(a, status)
    \/ \E hg \in ExpiringGrants : GrantExpires(hg[1], hg[2])
    \/ Tick
    \/ Midnight
    \/ Restart

Spec == Init /\ [][Next]_vars

(***************************************************************************)
(* Fairness: the runtime keeps polling a request that can make progress,   *)
(* and every database or upstream call returns (pool and HTTP timeouts).   *)
(***************************************************************************)
FairSpec == Spec /\ \A r \in Requests : WF_vars(RequestStep(r))

(***************************************************************************)
(* Properties.                                                             *)
(***************************************************************************)

TypeOK ==
    /\ key_status \in [Keys -> {"unissued", "active", "revoked"}]
    /\ expired \subseteq Keys
    /\ owner_status \in [Owners -> {"active", "suspended", "closed"}]
    /\ policies \subseteq Keys
    /\ grants \in [Owners \union Keys -> SUBSET CapabilityGrant]
    /\ usage \in [Keys -> [Days -> [Counters -> Nat]]]
    /\ IsWindowMap(windows)
    /\ now \in 0 .. MaxTime /\ booted_at \in 0 .. now /\ today \in Days
    /\ restarts \in 0 .. MaxRestarts
    /\ pc \in [Requests -> Stages]
    /\ presented \in [Requests -> Keys \union {NoKey}]
    /\ capability \in [Requests -> Capabilities \union {"none"}]
    /\ outcome \in [Requests -> {"none"} \union DailyOutcomes]
    /\ slot \in [Requests -> Nat \union {None}]
    /\ accepted_on \in [Requests -> Days \union {None}]
    /\ handled \subseteq Requests
    /\ answer \in [Requests -> Answers]

(* The requests that hold a slot of the window of k that started at t.     *)
ChargedTo(k, t) == {r \in Requests : presented[r] = k /\ slot[r] = t}

(* Every slot in use in a live window of the limiter is held by exactly    *)
(* one request: reserve, release, expiry, restart and dropped requests     *)
(* never lose a slot, free one twice or free one of another window         *)
(* (rate_limit.rs reserve_at and release).                                 *)
WindowAccounting ==
    \A k \in DOMAIN windows :
        windows[k].used = Cardinality(ChargedTo(k, windows[k].started_at))

(* However requests, releases and restarts interleave, the handler runs at *)
(* most requests_per_minute times on reservations of one minute window,    *)
(* open or past (auth.rs require_api_key_for, rate_limit.rs).              *)
MinuteQuota ==
    \A k \in Keys, t \in 0 .. MaxTime :
        Cardinality(ChargedTo(k, t) \intersect handled) <= RequestsPerMinute(k)

(* The handler runs at most requests_per_day times for the requests        *)
(* accepted on one UTC date, and each of them is in the date's counter     *)
(* (api_keys.rs increment_daily_accepted; SPEC-010: concurrent accepted    *)
(* requests must not exceed the stored daily limit).                       *)
DailyQuota ==
    \A k \in Keys, d \in Days :
        /\ Cardinality({r \in handled : presented[r] = k /\ accepted_on[r] = d})
              <= usage[k][d]["accepted"]
        /\ usage[k][d]["accepted"] <= RequestsPerDay(k)

(* A request the middleware refuses, at whatever step, keeps no slot of    *)
(* the minute window and never ran the handler; a rate-limited one is not  *)
(* counted as accepted either (auth.rs: each refusal after the reservation *)
(* releases it).                                                           *)
RefusedUncharged ==
    \A r \in Requests :
        /\ answer[r] \in Refusals => slot[r] = None /\ r \notin handled
        /\ answer[r] = "rate_limited" => accepted_on[r] = None

(* A counter of a key summed over the rows of api_key_usage_daily: what it *)
(* counts in all of them, one by one.                                      *)
Tally(k, counter) == UNION {{d} \X (1 .. usage[k][d][counter]) : d \in Days}

Total(k, counter) == Cardinality(Tally(k, counter))

(* No request is counted twice (SPEC-010: the middleware must avoid        *)
(* double-counting a request): over all dates, a key's accepted and rate   *)
(* limited requests are together at most the requests that reached its     *)
(* limits, and its response counters never outgrow the accepted requests   *)
(* whose response is out.                                                  *)
NoDoubleCounting ==
    \A k \in Keys :
        /\ Total(k, "accepted") + Total(k, "rate_limited")
              <= Cardinality({r \in Requests : presented[r] = k /\
                    pc[r] \notin {"authenticate", "find_policy", "find_grants",
                                  "reserve", "increment"}})
        /\ Total(k, "successful") + Total(k, "client_error")
              + Total(k, "server_error")
              + Cardinality({r \in handled : presented[r] = k /\
                    pc[r] \in {"handler", "record"}})
              <= Total(k, "accepted")

(* The minute limiter turns a request away only when a window that was     *)
(* open at the instant it sampled is full of slots that requests still     *)
(* hold: a released slot or an expired window never causes a 429           *)
(* (rate_limit.rs reserve_at).                                             *)
MinuteRejectionJustified ==
    [][\A r \in Requests :
          pc[r] = "reserve" /\ pc'[r] = "limited" =>
             \E t \in 0 .. now :
                /\ now - t < WINDOW + LockDelay
                /\ Cardinality(ChargedTo(presented[r], t))
                      >= RequestsPerMinute(presented[r])]_vars

(* The key, or the account behind it, is out of use for good.              *)
Barred(k) ==
    \/ key_status[k] = "revoked"
    \/ k \in expired
    \/ /\ KindOf[k] \in {"account", "agent"}
       /\ owner_status[OwnerOf[k]] = "closed"

(* A revocation, an expiry or the closing of the account that commits      *)
(* before a request's key lookup is final: whatever was cached or in       *)
(* flight, the handler never runs for that request (api_keys.rs            *)
(* revoke_by_prefix and set_account_status, auth.rs authenticate).         *)
RevocationIsFinal ==
    \A r \in Requests, k \in Keys :
        [](pc[r] \in {"idle", "authenticate"} /\ Barred(k)
           => [](presented[r] = k => r \notin handled))

(* The rows whose grants a key needs: its own, its owner's, its client's.  *)
Holders(k) ==
    {k} \union (IF KindOf[k] = "anonymous_demo" THEN {} ELSE {OwnerOf[k]})
        \union (IF KindOf[k] = "agent" THEN {ClientOf[k]} ELSE {})

(* One of them has no active grant, and issuing another key to the same    *)
(* consumer does not bring one: there is a row already.                    *)
Lost(k, c) ==
    /\ key_status[k] # "unissued"
    /\ \E h \in Holders(k) :
          /\ \A g \in grants[h] : g.capability = c => g.status # "active"
          /\ h \in Consumers /\ c \in LegacyBaseline =>
                \E g \in grants[h] :
                   g.capability = c /\ g.network_scope = AnyNetwork

(* The same for capabilities: once the key, its owner or its client has    *)
(* lost its grant, no request that has yet to look the grants up runs the  *)
(* handler of the route: the grant of one holder never stands in for that  *)
(* of another (auth.rs is_authorized_for_route, capabilities.rs            *)
(* evaluate_authorization).                                                *)
GrantLossIsFinal ==
    \A r \in Requests, k \in Keys, c \in Capabilities :
        [](/\ pc[r] \in {"idle", "authenticate", "find_policy", "find_grants"}
           /\ Lost(k, c)
           => [](presented[r] = k /\ capability[r] = c => r \notin handled))

(* Every request that reaches the middleware is answered, unless its       *)
(* client goes away or the process dies.                                   *)
RequestAnswered ==
    \A r \in Requests :
        pc[r] = "authenticate" ~> pc[r] \in {"done", "dropped"}

=============================================================================
