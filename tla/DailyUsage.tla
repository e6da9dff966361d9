----------------------------- MODULE DailyUsage -----------------------------
(***************************************************************************)
(* The api_key_usage_daily rows of one API key under concurrent statements *)
(* (src/adapters/postgres/api_keys.rs increment_daily_accepted,            *)
(* increment_daily_rate_limited and increment_daily_response; table and    *)
(* constraints in migrations/0008_api_key_policy_usage.sql).               *)
(*                                                                         *)
(* Each statement is its own transaction: now() is the instant it starts,  *)
(* which fixes usage_date and all timestamps, while its upsert takes       *)
(* effect later, in the order in which the statements get the row.  The    *)
(* upsert sees the latest version of the row (on conflict do update).      *)
(***************************************************************************)
EXTENDS Integers, FiniteSets

CONSTANTS Statements,   \* the counter statements that run
          Limit,        \* api_key_policy.requests_per_day
          DAY,          \* the clock ticks of a UTC date
          MaxTime       \* bound: last tick of the clock

ASSUME UsageAssumption ==
    /\ IsFiniteSet(Statements)
    /\ Limit \in Nat
    /\ DAY \in Nat \ {0}
    /\ MaxTime \in Nat

VARIABLES clock,        \* the database clock
          stage,        \* idle, started or done
          counter,      \* the counter each statement increments
          started_at,   \* now() of each statement
          result,       \* what the statement returned
          rows          \* usage_date -> row, for the rows that exist

vars == <<clock, stage, counter, started_at, result, rows>>

Counters == {"accepted", "rate_limited", "successful", "client_error",
             "server_error"}

Times == 0 .. MaxTime

DateOf(t) == t \div DAY

Dates == {DateOf(t) : t \in Times}

Results == {"none", "counted", "limit_exceeded", "failed"}

Row == [counts : [Counters -> Nat], created_at : Times, updated_at : Times,
        last_used_at : Times]

(* api_key_usage_daily_timestamps_sane                                     *)
TimestampsSane(row) ==
    row.updated_at >= row.created_at /\ row.last_used_at >= row.created_at

Init ==
    /\ clock = 0
    /\ stage = [s \in Statements |-> "idle"]
    /\ counter = [s \in Statements |-> "none"]
    /\ started_at = [s \in Statements |-> 0]
    /\ result = [s \in Statements |-> "none"]
    /\ rows = [d \in {} |-> 0]

(* A statement reaches the database: now() is fixed.                       *)
Begin(s, c) ==
    /\ stage[s] = "idle"
    /\ stage' = [stage EXCEPT ![s] = "started"]
    /\ counter' = [counter EXCEPT ![s] = c]
    /\ started_at' = [started_at EXCEPT ![s] = clock]
    /\ UNCHANGED <<clock, result, rows>>

(* values (.., 1, now()): the other counters and timestamps by default.    *)
InsertedRow(c, t) ==
    [counts |-> [x \in Counters |-> IF x = c THEN 1 ELSE 0],
     created_at |-> t, updated_at |-> t, last_used_at |-> t]

(* Mutant: set accepted_requests = excluded.accepted_requests.             *)
UpdatedRowExcluded(row, c, t) ==
    [counts |-> [row.counts EXCEPT ![c] = 1],
     created_at |-> row.created_at, updated_at |-> t, last_used_at |-> t]

(* do update set ..                                                        *)
UpdatedRow(row, c, t) ==
    [counts |-> [row.counts EXCEPT ![c] = @ + 1],
     created_at |-> row.created_at, updated_at |-> t, last_used_at |-> t]

(* Mutants: the limit is compared with <= and with the incremented count.  *)
OverLimitTooLate(c, d) ==
    c = "accepted" /\ (Limit = 0 \/ (d \in DOMAIN rows
                                     /\ rows[d].counts[c] > Limit))
OverLimitTooEarly(c, d) ==
    c = "accepted" /\ (Limit = 0 \/ (d \in DOMAIN rows
                                     /\ rows[d].counts[c] + 1 >= Limit))

(* The daily limit, with the row as it is when the statement gets it.      *)
OverLimit(c, d) ==
    c = "accepted" /\ (Limit = 0 \/ (d \in DOMAIN rows
                                     /\ rows[d].counts[c] >= Limit))

PutRow(d, row) ==
    rows' = [x \in DOMAIN rows \union {d} |-> IF x = d THEN row ELSE rows[x]]

Finish(s, r) ==
    /\ stage' = [stage EXCEPT ![s] = "done"]
    /\ result' = [result EXCEPT ![s] = r]

(* There is no row of the date yet.                                        *)
Insert(s) ==
    LET c == counter[s]
        t == started_at[s]
    IN  /\ stage[s] = "started"
        /\ ~ OverLimit(c, DateOf(t))
        /\ DateOf(t) \notin DOMAIN rows
        /\ PutRow(DateOf(t), InsertedRow(c, t))
        /\ Finish(s, "counted")
        /\ UNCHANGED <<clock, counter, started_at>>

(* The row exists: it is updated, unless the new version breaks the        *)
(* table's constraint, which fails the statement.                          *)
Update(s) ==
    LET c == counter[s]
        t == started_at[s]
        d == DateOf(t)
        row == UpdatedRow(rows[d], c, t)
    IN  /\ stage[s] = "started"
        /\ ~ OverLimit(c, d)
        /\ d \in DOMAIN rows
        /\ \/ /\ TimestampsSane(row)
              /\ PutRow(d, row)
              /\ Finish(s, "counted")
           \/ /\ ~ TimestampsSane(row)
              /\ Finish(s, "failed")
              /\ UNCHANGED rows
        /\ UNCHANGED <<clock, counter, started_at>>

(* increment_daily_accepted finds the limit used up.                       *)
Exceed(s) ==
    /\ stage[s] = "started"
    /\ OverLimit(counter[s], DateOf(started_at[s]))
    /\ Finish(s, "limit_exceeded")
    /\ UNCHANGED <<clock, counter, started_at, rows>>

Tick ==
    /\ clock < MaxTime
    /\ clock' = clock + 1
    /\ UNCHANGED <<stage, counter, started_at, result, rows>>

Next ==
    \/ \E s \in Statements :
          \/ \E c \in Counters : Begin(s, c)
          \/ Insert(s)
          \/ Update(s)
          \/ Exceed(s)
    \/ Tick

Spec == Init /\ [][Next]_vars

(***************************************************************************)
(* Properties.                                                             *)
(***************************************************************************)

TypeOK ==
    /\ clock \in Times
    /\ stage \in [Statements -> {"idle", "started", "done"}]
    /\ counter \in [Statements -> Counters \union {"none"}]
    /\ started_at \in [Statements -> Times]
    /\ result \in [Statements -> Results]
    /\ DOMAIN rows \subseteq Dates
    /\ rows \in [DOMAIN rows -> Row]

(* What a row that may not exist yet counts.                               *)
UsageOn(d) ==
    IF d \in DOMAIN rows THEN rows[d].counts ELSE [c \in Counters |-> 0]

Usage == [d \in Dates |-> UsageOn(d)]

Counted(d, c) ==
    {s \in Statements : /\ result[s] = "counted"
                        /\ counter[s] = c
                        /\ DateOf(started_at[s]) = d}

(* Every counter of every date is the number of statements that reported   *)
(* success for it: concurrent upserts lose nothing, a failed one leaves    *)
(* nothing, and one that is overtaken by midnight still counts on the date *)
(* it started on (increment_daily_accepted, increment_daily_rate_limited   *)
(* and increment_response_counter).                                        *)
CountersExact ==
    \A d \in Dates, c \in Counters :
        UsageOn(d)[c] = Cardinality(Counted(d, c))

(* increment_daily_accepted refuses a request only when the limit of its   *)
(* date is used up, whatever the other date's row says.                    *)
RefusalJustified ==
    \A s \in Statements :
        result[s] = "limit_exceeded" =>
           UsageOn(DateOf(started_at[s]))["accepted"] = Limit

(* The counter statements implement the counters of UsageCounters.         *)
Promise == INSTANCE UsageCounters WITH usage <- Usage

ImplementsUsageCounters == Promise!Spec

(* An increment_daily_accepted that reaches a working database accepts the *)
(* request or finds the limit used up: SPEC-010 reserves the 503 that      *)
(* auth.rs answers to any error of it for a database that is unavailable.  *)
NoSpuriousFailure ==
    \A s \in Statements : counter[s] = "accepted" => result[s] # "failed"

=============================================================================
