-------------------------- MODULE DailyUsageProofs --------------------------
(***************************************************************************)
(* Proofs about DailyUsage, for any number of concurrent statements, any   *)
(* limit and any length of a day.                                          *)
(***************************************************************************)
EXTENDS DailyUsage, FiniteSetTheorems, TLAPS

(* A statement has no result before it is done, and knows its counter once *)
(* it has started.                                                         *)
Progress ==
    \A s \in Statements :
        /\ stage[s] # "done" => result[s] = "none"
        /\ stage[s] # "idle" => counter[s] \in Counters

WithinLimit == \A d \in Dates : UsageOn(d)["accepted"] <= Limit

UsageInv ==
    TypeOK /\ Progress /\ CountersExact /\ WithinLimit /\ RefusalJustified

(* A finished statement that counted nothing.                              *)
NothingCounted(s, r) ==
    /\ stage[s] = "started"
    /\ Finish(s, r)
    /\ UNCHANGED <<clock, counter, started_at, rows>>

(* A finished statement that counted, by insert or by update.              *)
CountedOnce(s, row) ==
    LET d == DateOf(started_at[s])
    IN  /\ stage[s] = "started"
        /\ ~ OverLimit(counter[s], d)
        /\ row \in Row
        /\ row.counts = [UsageOn(d) EXCEPT ![counter[s]] = @ + 1]
        /\ PutRow(d, row)
        /\ Finish(s, "counted")
        /\ UNCHANGED <<clock, counter, started_at>>

(* Insert and Update are one and the same step to the counters.            *)
LEMMA UpsertCounts ==
    ASSUME TypeOK, Progress, NEW s \in Statements, Insert(s) \/ Update(s)
    PROVE  (\E row \in Row : CountedOnce(s, row)) \/ NothingCounted(s, "failed")
  <1> USE UsageAssumption
  <1> DEFINE c == counter[s]
             t == started_at[s]
             d == DateOf(t)
  <1>1. c \in Counters /\ t \in Times /\ d \in Dates
    BY DEF TypeOK, Progress, Insert, Update, Dates
  <1>2. ASSUME Insert(s) PROVE \E row \in Row : CountedOnce(s, row)
    <2> DEFINE row == InsertedRow(c, t)
    <2>1. row \in Row
      BY <1>1 DEF InsertedRow, Row
    <2>2. row.counts = [UsageOn(d) EXCEPT ![c] = @ + 1]
      BY <1>1, <1>2 DEF InsertedRow, UsageOn, Insert
    <2> QED
      BY <1>2, <2>1, <2>2 DEF Insert, CountedOnce
  <1>3. ASSUME Update(s), TimestampsSane(UpdatedRow(rows[d], c, t))
        PROVE  \E row \in Row : CountedOnce(s, row)
    <2> DEFINE row == UpdatedRow(rows[d], c, t)
    <2>0. d \in DOMAIN rows /\ rows[d] \in Row
      BY <1>3 DEF Update, TypeOK
    <2>1. row \in Row
      BY <1>1, <2>0 DEF UpdatedRow, Row
    <2>2. row.counts = [UsageOn(d) EXCEPT ![c] = @ + 1]
      BY <1>1, <2>0 DEF UpdatedRow, UsageOn, Row
    <2> QED
      BY <1>3, <2>1, <2>2 DEF Update, CountedOnce
  <1>4. ASSUME Update(s), ~ TimestampsSane(UpdatedRow(rows[d], c, t))
        PROVE  NothingCounted(s, "failed")
    BY <1>4 DEF Update, NothingCounted
  <1> QED
    BY <1>2, <1>3, <1>4

LEMMA CountedFinite ==
    ASSUME NEW d, NEW c
    PROVE  /\ IsFiniteSet(Counted(d, c))
           /\ Cardinality(Counted(d, c)) \in Nat
  BY UsageAssumption, FS_Subset, FS_CardinalityType DEF Counted

LEMMA UsageTyped ==
    ASSUME TypeOK, NEW d
    PROVE  UsageOn(d) \in [Counters -> Nat]
  BY DEF TypeOK, UsageOn, Row

LEMMA UsageInit == Init => UsageInv
  <1> SUFFICES ASSUME Init PROVE UsageInv
    OBVIOUS
  <1> USE UsageAssumption
  <1>1. TypeOK
    BY DEF Init, TypeOK, Times, Results
  <1>2. \A d : UsageOn(d) = [c \in Counters |-> 0]
    BY DEF Init, UsageOn
  <1>3. \A d, c : Counted(d, c) = {}
    BY DEF Init, Counted
  <1>4. CountersExact
    BY <1>2, <1>3, FS_EmptySet DEF CountersExact
  <1>5. WithinLimit
    BY <1>2 DEF WithinLimit, Counters
  <1>6. Progress /\ RefusalJustified
    BY DEF Init, Progress, RefusalJustified
  <1> QED
    BY <1>1, <1>4, <1>5, <1>6 DEF UsageInv

(* The steps that count nothing keep all counters.                         *)
LEMMA UsageFrame ==
    ASSUME UsageInv, TypeOK', Progress', rows' = rows,
           \A d \in Dates, c \in Counters : Counted(d, c)' = Counted(d, c),
           \A s \in Statements : result'[s] = "limit_exceeded" =>
              /\ started_at'[s] = started_at[s]
              /\ \/ result[s] = "limit_exceeded"
                 \/ UsageOn(DateOf(started_at[s]))["accepted"] = Limit
    PROVE  UsageInv'
  <1>1. \A d : UsageOn(d)' = UsageOn(d)
    BY DEF UsageOn
  <1>2. CountersExact'
    BY <1>1 DEF UsageInv, CountersExact
  <1>3. WithinLimit'
    BY <1>1 DEF UsageInv, WithinLimit
  <1>4. RefusalJustified'
    BY <1>1 DEF UsageInv, RefusalJustified
  <1> QED
    BY <1>2, <1>3, <1>4 DEF UsageInv

LEMMA NothingCountedStep ==
    ASSUME UsageInv, NEW s \in Statements,
           NEW r \in {"limit_exceeded", "failed"}, NothingCounted(s, r),
           r = "limit_exceeded" => OverLimit(counter[s], DateOf(started_at[s]))
    PROVE  UsageInv'
  <1> USE UsageAssumption DEF NothingCounted, Finish
  <1>1. TypeOK'
    BY DEF UsageInv, TypeOK, Results
  <1>2. Progress'
    BY DEF UsageInv, TypeOK, Progress
  <1>3. result[s] = "none"
    BY DEF UsageInv, Progress
  <1>4. \A d \in Dates, c \in Counters : Counted(d, c)' = Counted(d, c)
    BY <1>3 DEF Counted, UsageInv, TypeOK
  <1>5. DateOf(started_at[s]) \in Dates
    BY DEF UsageInv, TypeOK, Dates
  <1>6. UsageOn(DateOf(started_at[s])) \in [Counters -> Nat]
    BY UsageTyped DEF UsageInv
  <1>7. r = "limit_exceeded" =>
           UsageOn(DateOf(started_at[s]))["accepted"] = Limit
    BY <1>5, <1>6 DEF OverLimit, UsageInv, WithinLimit, UsageOn, Counters
  <1> QED
    BY <1>1, <1>2, <1>4, <1>7, UsageFrame DEF UsageInv, TypeOK

LEMMA CountedOnceStep ==
    ASSUME UsageInv, NEW s \in Statements, NEW row \in Row, CountedOnce(s, row)
    PROVE  UsageInv'
  <1> USE UsageAssumption
  <1> DEFINE t == started_at[s]
  <1>c. PICK c \in Counters : c = counter[s]
    BY DEF CountedOnce, UsageInv, Progress
  <1>d. PICK d \in Dates : d = DateOf(t)
    BY DEF UsageInv, TypeOK, Dates
  <1>0. TypeOK /\ Progress /\ result[s] = "none"
    BY DEF UsageInv, Progress, CountedOnce
  <1>1. TypeOK'
    <2>1. /\ DOMAIN rows' = DOMAIN rows \union {d}
          /\ rows' \in [DOMAIN rows \union {d} -> Row]
      BY <1>0, <1>d DEF CountedOnce, PutRow, TypeOK
    <2> QED
      BY <1>0, <2>1 DEF CountedOnce, Finish, TypeOK, Results
  <1>2. Progress'
    BY <1>0 DEF CountedOnce, Finish, TypeOK, Progress
  <1>3. /\ UsageOn(d)' = [UsageOn(d) EXCEPT ![c] = @ + 1]
        /\ \A x \in Dates : x # d => UsageOn(x)' = UsageOn(x)
    BY <1>c, <1>d DEF CountedOnce, PutRow, UsageOn
  <1>4. \A x \in Dates : UsageOn(x) \in [Counters -> Nat]
    BY <1>0, UsageTyped
  <1>5. /\ Counted(d, c)' = Counted(d, c) \union {s}
        /\ s \notin Counted(d, c)
    BY <1>0, <1>c, <1>d DEF CountedOnce, Finish, Counted, TypeOK
  <1>6. ASSUME NEW x \in Dates, NEW y \in Counters, x # d \/ y # c
        PROVE  Counted(x, y)' = Counted(x, y)
    BY <1>0, <1>c, <1>d, <1>6 DEF CountedOnce, Finish, Counted, TypeOK
  <1>7. Cardinality(Counted(d, c)') = Cardinality(Counted(d, c)) + 1
    <2>1. Cardinality(Counted(d, c) \union {s}) = Cardinality(Counted(d, c)) + 1
      BY <1>5, CountedFinite, FS_AddElement
    <2> QED
      BY <1>5, <2>1
  <1>8. CountersExact'
    <2> SUFFICES ASSUME NEW x \in Dates, NEW y \in Counters
                 PROVE  UsageOn(x)'[y] = Cardinality(Counted(x, y)')
      BY DEF CountersExact
    <2>1. UsageOn(x)[y] = Cardinality(Counted(x, y))
      BY DEF UsageInv, CountersExact
    <2>2. CASE x = d /\ y = c
      BY <1>3, <1>4, <1>7, <2>1, <2>2
    <2>3. CASE ~ (x = d /\ y = c)
      BY <1>3, <1>4, <1>6, <2>1, <2>3
    <2> QED
      BY <2>2, <2>3
  <1>9. c = "accepted" => UsageOn(d)["accepted"] + 1 <= Limit
    BY <1>c, <1>d, <1>4 DEF CountedOnce, OverLimit, UsageOn
  <1>10. WithinLimit'
    <2> SUFFICES ASSUME NEW x \in Dates PROVE UsageOn(x)'["accepted"] <= Limit
      BY DEF WithinLimit
    <2> QED
      BY <1>3, <1>4, <1>9 DEF UsageInv, WithinLimit, Counters
  <1>11. RefusalJustified'
    <2> SUFFICES ASSUME NEW q \in Statements, result'[q] = "limit_exceeded"
                 PROVE  UsageOn(DateOf(started_at[q]))'["accepted"] = Limit
      BY DEF RefusalJustified, CountedOnce
    <2>x. PICK x \in Dates : x = DateOf(started_at[q])
      BY <1>0 DEF TypeOK, Dates
    <2>1. result[q] = "limit_exceeded"
      BY <1>0 DEF CountedOnce, Finish, TypeOK
    <2>2. UsageOn(x)["accepted"] = Limit
      BY <2>1, <2>x DEF UsageInv, RefusalJustified
    <2>3. UsageOn(x)'["accepted"] = Limit
      BY <1>3, <1>4, <1>9, <2>2 DEF Counters
    <2>4. x = DateOf(started_at'[q])
      BY <2>x DEF CountedOnce
    <2> QED
      BY <2>3, <2>4
  <1> QED
    BY <1>1, <1>2, <1>8, <1>10, <1>11 DEF UsageInv

LEMMA UsageStep == UsageInv /\ [Next]_vars => UsageInv'
  <1> SUFFICES ASSUME UsageInv, [Next]_vars PROVE UsageInv'
    OBVIOUS
  <1> USE UsageAssumption
  <1>1. ASSUME NEW s \in Statements, NEW c \in Counters, Begin(s, c)
        PROVE  UsageInv'
    <2>1. TypeOK'
      BY <1>1 DEF Begin, UsageInv, TypeOK
    <2>2. Progress'
      BY <1>1 DEF Begin, UsageInv, TypeOK, Progress
    <2>3. result[s] = "none"
      BY <1>1 DEF Begin, UsageInv, Progress
    <2>4. \A d \in Dates, x \in Counters : Counted(d, x)' = Counted(d, x)
      BY <1>1, <2>3 DEF Begin, Counted, UsageInv, TypeOK
    <2> QED
      BY <1>1, <2>1, <2>2, <2>3, <2>4, UsageFrame DEF Begin, UsageInv, TypeOK
  <1>2. ASSUME NEW s \in Statements, Insert(s) \/ Update(s)
        PROVE  UsageInv'
    BY <1>2, UpsertCounts, CountedOnceStep, NothingCountedStep DEF UsageInv
  <1>3. ASSUME NEW s \in Statements, Exceed(s)
        PROVE  UsageInv'
    <2>1. NothingCounted(s, "limit_exceeded")
      BY <1>3 DEF Exceed, NothingCounted
    <2>2. OverLimit(counter[s], DateOf(started_at[s]))
      BY <1>3 DEF Exceed
    <2> QED
      BY <2>1, <2>2, NothingCountedStep
  <1>4. ASSUME Tick \/ UNCHANGED vars
        PROVE  UsageInv'
    <2>1. TypeOK'
      BY <1>4 DEF Tick, vars, UsageInv, TypeOK, Times
    <2>2. Progress'
      BY <1>4 DEF Tick, vars, UsageInv, Progress
    <2>3. \A d \in Dates, x \in Counters : Counted(d, x)' = Counted(d, x)
      BY <1>4 DEF Tick, vars, Counted
    <2> QED
      BY <1>4, <2>1, <2>2, <2>3, UsageFrame DEF Tick, vars
  <1> QED
    BY <1>1, <1>2, <1>3, <1>4 DEF Next

LEMMA UsageInvariant == Spec => []UsageInv
  BY UsageInit, UsageStep, PTL DEF Spec

(* The statements of the daily usage counters keep the state well typed.   *)
THEOREM UsageTypeCorrect == Spec => []TypeOK
  BY UsageInvariant, PTL DEF UsageInv

(* No interleaving of counter statements, around midnight or not, loses or *)
(* invents a count.                                                        *)
THEOREM CountersExactHolds == Spec => []CountersExact
  BY UsageInvariant, PTL DEF UsageInv

(* increment_daily_accepted refuses only when the limit is used up.        *)
THEOREM RefusalsJustified == Spec => []RefusalJustified
  BY UsageInvariant, PTL DEF UsageInv

(* The concurrent upserts implement atomic counters with a daily limit.    *)
THEOREM UsageRefinement == Spec => ImplementsUsageCounters
  <1> USE UsageAssumption
  <1>1. Init => Promise!Init
    BY DEF Init, Promise!Init, Usage, UsageOn
  <1>2. UsageInv /\ [Next]_vars => [Promise!Next]_Usage
    <2> SUFFICES ASSUME UsageInv, [Next]_vars, Usage' # Usage
                 PROVE  Promise!Next
      BY DEF Promise!Next
    <2>0. TypeOK /\ Progress
      BY DEF UsageInv
    <2>1. ASSUME rows' = rows PROVE FALSE
      BY <2>1 DEF Usage, UsageOn
    <2>2. PICK s \in Statements : Insert(s) \/ Update(s)
      BY <2>1 DEF Next, vars, Begin, Exceed, Tick
    <2>3. PICK row \in Row : CountedOnce(s, row)
      BY <2>0, <2>1, <2>2, UpsertCounts DEF NothingCounted
    <2>c. PICK c \in Counters : c = counter[s]
      BY <2>0, <2>3 DEF CountedOnce, Progress
    <2>d. PICK d \in Dates : d = DateOf(started_at[s])
      BY <2>0 DEF TypeOK, Dates
    <2>4. \A x \in Dates : UsageOn(x) \in [Counters -> Nat]
      BY <2>0, UsageTyped
    <2>5. /\ UsageOn(d)' = [UsageOn(d) EXCEPT ![c] = @ + 1]
          /\ \A x \in Dates : x # d => UsageOn(x)' = UsageOn(x)
      BY <2>3, <2>c, <2>d DEF CountedOnce, PutRow, UsageOn
    <2>6. Usage' = [Usage EXCEPT ![d][c] = @ + 1]
      BY <2>4, <2>5 DEF Usage
    <2>7. c = "accepted" => Usage[d][c] < Limit
      BY <2>3, <2>c, <2>d, <2>4 DEF CountedOnce, OverLimit, UsageOn, Usage
    <2> QED
      BY <2>6, <2>7 DEF Promise!Next, Promise!Increment
  <1> QED
    BY <1>1, <1>2, UsageInvariant, PTL
       DEF Spec, ImplementsUsageCounters, Promise!Spec

=============================================================================
