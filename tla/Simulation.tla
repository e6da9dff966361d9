----------------------------- MODULE Simulation -----------------------------
(***************************************************************************)
(* The Lab's portfolio simulation: the form                                *)
(* (src/adapters/http/data_lab.rs), the evidence and the calculation       *)
(* (src/application/portfolio_simulation.rs), and the stored run           *)
(* (src/adapters/postgres/portfolio_simulations.rs).                       *)
(***************************************************************************)
EXTENDS AaveEvidence, PriceIndexer

CONSTANTS MAX_DAYS,                \* 366
          ANNUALIZED_FROM_DAYS     \* 30

ASSUME DaysAssumption == MAX_DAYS \in Nat

(* A date is the numbers of its fields, or none.                           *)
ASSUME DatesAssumption ==
    \A in \in Inputs : in.handler = "simulation" =>
        \A d \in in.request.start_date \union in.request.end_date :
            d.year \in Nat /\ d.month \in Nat /\ d.day \in Nat

(***************************************************************************)
(* The window: days + 1 daily boundaries, from the first day to the end of *)
(* the last.                                                               *)
(***************************************************************************)
DayNumber(date) == DaysFromCivil(date.year, date.month, date.day)

SimulationDays(r) ==
    DayNumber(CHOOSE d \in r.end_date : TRUE)
      - DayNumber(CHOOSE d \in r.start_date : TRUE) + 1

TimestampForDay(days) == CivilFromDays(days)

Boundaries(w) == [i \in 1..(w.days + 1) |-> w.start_day + i - 1]

Strategies == [btc |-> "bitcoin", eth |-> "ethereum", aave |-> "usdc"]

(* run, up to the first call.                                              *)
SimulationInputError(r) ==
    FirstError(<<
      Fail(~ \E c \in r.initial_capital : c > 0, "invalid_initial_capital"),
      Fail(r.quote_currency # "USD", "unsupported_quote_currency"),
      Fail(\E dates \in {r.start_date, r.end_date} :
             ~ \E d \in dates : ParseDate(d), "invalid_date_range"),
      IF \A dates \in {r.start_date, r.end_date} : \E d \in dates : ParseDate(d)
      THEN Fail(SimulationDays(r) \notin 1..MAX_DAYS, "invalid_date_range") ELSE {},
      Fail(r.strategy \notin DOMAIN Strategies, "unsupported_strategy") >>)

SubmitSimulation ==
    LET r == input.request
        window == [start_day |-> DayNumber(CHOOSE d \in r.start_date : TRUE),
                   days |-> SimulationDays(r)]
    IN /\ At("simulation", "parse")
       /\ \/ LabRefusal
          \/ /\ LabAdmits
             /\ IF SimulationInputError(r) # {}
                THEN \E e \in SimulationInputError(r) : LabAnswer(200, e)
                ELSE Goto("series", [window |-> window, prices |-> <<>>,
                                     indexes |-> <<>>, resolver |-> NewResolver,
                                     run |-> {}])
       /\ UNCHANGED <<input, grants>>

(* failed_run: what is kept of a run whose evidence could not be had.      *)
FailedRun(reason) == [status |-> "failed", reason |-> {reason}, metrics |-> {},
                      snapshots |-> <<>>]

StoreRun(run) == Goto("store", [local EXCEPT !.run = {run}])

(***************************************************************************)
(* load_prices.  A point has a price, a price carried over from an earlier *)
(* day, or none.                                                           *)
(***************************************************************************)
ValidSeries(series, w) ==
    /\ series.quote_currency = "USD"
    /\ series.granularity = "1d"
    /\ series.from = TimestampForDay(w.start_day)
    /\ series.to = TimestampForDay(w.start_day + w.days)
    /\ Distinct(series.points, LAMBDA p : p.bucket_start)

PriceObservation(series, timestamp) ==
    LET found == {p \in ToSet(series.points) : p.bucket_start = timestamp} IN
    IF found = {} THEN [timestamp |-> timestamp, price |-> {}, status |-> "missing"]
    ELSE LET point == CHOOSE p \in found : TRUE IN
         [timestamp |-> timestamp, price |-> point.price, status |-> point.status]

(* The Price Indexer (external): a price for each day, one carried, one    *)
(* without a price, days left out, or a series that is not the one wanted. *)
Series(w, points) ==
    [quote_currency |-> "USD", granularity |-> "1d",
     from |-> TimestampForDay(w.start_day), to |-> TimestampForDay(w.start_day + w.days),
     points |-> points]

DailyPoint(day, kind) ==
    [bucket_start |-> TimestampForDay(day),
     price |-> IF kind = "none" THEN {} ELSE {input.daily_price[(day % 4) + 1]},
     status |-> CASE kind = "carried" -> "carry_forward" [] OTHER -> "observed"]

SeriesReplies(w) ==
    LET Points(f) == SelectSeq([i \in 1..(w.days + 1) |->
                                  [DailyPoint(w.start_day + i - 1, f[i])
                                     EXCEPT !.status = IF f[i] = "absent" THEN "" ELSE @]],
                               LAMBDA p : p.status # "")
        full == Series(w, Points([i \in 1..(w.days + 1) |-> "observed"]))
    IN {Success(Series(w, Points(f))) :
          f \in [1..(w.days + 1) -> input.point_kinds]}
       \union {Success([full EXCEPT !.granularity = "1h"]),
               Success([full EXCEPT !.to = full.from]),
               Success([full EXCEPT !.points = Append(@, @[1])]),
               Unreadable(200), Lost("timeout")}

LoadPrices ==
    LET w == local.window IN
    /\ At("simulation", "series")
    /\ IF ~ CreatePriceIndexerClient(input.clients.prices)
       THEN StoreRun(FailedRun("historical_price_source_unavailable"))
       ELSE \E reply \in SeriesReplies(w) :
              IF SignalError(reply) \ {"MALFORMED_RESPONSE"} # {}
              THEN StoreRun(FailedRun("historical_price_source_unavailable"))
              ELSE IF SignalError(reply) # {} \/ ~ \E s \in reply.body : ValidSeries(s, w)
              THEN StoreRun(FailedRun("historical_price_source_malformed"))
              ELSE LET s == CHOOSE d \in reply.body : TRUE IN
                   Goto(IF input.request.strategy = "aave" THEN "protocol" ELSE "simulate",
                        [local EXCEPT !.prices =
                           MapSeq(Boundaries(w),
                                  LAMBDA day : PriceObservation(s, TimestampForDay(day)))])
    /\ UNCHANGED <<input, grants>>

(***************************************************************************)
(* load_aave_factors: for each boundary the block, then the index.  Every  *)
(* call may fail, which ends the run.                                      *)
(***************************************************************************)
AaveProtocol == RealizedYieldProtocol(input.catalog, input.protocols, "aave-v3")

AaveFailed == StoreRun(FailedRun("aave_evidence_source_unavailable"))

FindAaveProtocol ==
    /\ At("simulation", "protocol")
    /\ IF ~ CreateBigwigClient(input.clients.bigwig) \/ AaveProtocol = {}
       THEN AaveFailed ELSE Goto("boundary", local)
    /\ UNCHANGED <<input, grants>>

(* parse_rfc3339_epoch reads back the boundary that timestamp_for_day      *)
(* wrote, for years of four digits.                                        *)
Target == Boundaries(local.window)[Len(local.indexes) + 1] * 86400

(* The head is read once for all boundaries: its number, then its block.   *)
ReadHead ==
    /\ At("simulation", "boundary")
    /\ local.resolver.head = {}
    /\ \E reply \in RpcReplies(HeadBlock) :
         IF RpcResult(reply) = {} THEN AaveFailed
         ELSE Goto("boundary", [local EXCEPT !.resolver.head = RpcResult(reply),
                                             !.resolver.cache = RpcResult(reply)])
    /\ UNCHANGED <<input, grants>>

(* block: a block that was read before is not read again.                  *)
BlockReplies(block) ==
    IF block \in local.resolver.cache THEN {Success(block)} ELSE RpcReplies(block)

Resolved(block) ==
    Goto("index", [local EXCEPT !.resolver.low = {block}, !.resolver.high = {}])

OpenBracket ==
    LET resolver == local.resolver
        cached == [resolver EXCEPT !.cache = @ \union {Block(0)}]
        bracket == Bracket(cached, Target, Block(0))
    IN /\ At("simulation", "boundary")
       /\ resolver.head # {}
       /\ IF \E head \in resolver.head : Target >= head.epoch_seconds
          THEN Resolved(HeadBlock)
          ELSE \E reply \in BlockReplies(Block(0)) :
                 IF RpcResult(reply) = {} \/ Target < Block(0).epoch_seconds
                 THEN AaveFailed
                 ELSE Goto("probe", [local EXCEPT !.resolver =
                        [cached EXCEPT !.low = {bracket.low}, !.high = {bracket.high}]])
       /\ UNCHANGED <<input, grants>>

ProbeBlock ==
    LET resolver == local.resolver
        low == CHOOSE b \in resolver.low : TRUE
        high == CHOOSE b \in resolver.high : TRUE
        middle == Block(InterpolatedBlockNumber(Target, low, high))
        narrowed ==
          IF middle.epoch_seconds <= Target
          THEN [resolver EXCEPT !.cache = @ \union {middle}, !.low = {middle}]
          ELSE [resolver EXCEPT !.cache = @ \union {middle}, !.high = {middle}]
    IN /\ At("simulation", "probe")
       /\ IF low.number + 1 >= high.number THEN Resolved(low)
          ELSE \E reply \in BlockReplies(middle) :
                 IF RpcResult(reply) = {} THEN AaveFailed
                 ELSE Goto("probe", [local EXCEPT !.resolver = narrowed])
       /\ UNCHANGED <<input, grants>>

ReadIndex ==
    LET block == CHOOSE b \in local.resolver.low : TRUE
        protocol == CHOOSE p \in AaveProtocol : TRUE
        At1(reply) == IncomeIndexAt(protocol, "usdc", block.number, reply)
        last == Len(local.indexes) = local.window.days
    IN /\ At("simulation", "index")
       /\ \E reply \in IndexReplies(block.number) :
            IF At1(reply) = {} THEN AaveFailed
            ELSE \E index \in At1(reply) :
                   Goto(IF last THEN "simulate" ELSE "boundary",
                        [local EXCEPT !.indexes =
                           Append(@, [block |-> block, income_index |-> index])])
       /\ UNCHANGED <<input, grants>>

(***************************************************************************)
(* simulate.  Every value of a run has the same denominator, the first     *)
(* price times the first index: values are counted in that unit.           *)
(***************************************************************************)
IndexAt(i) == IF local.indexes = <<>> THEN 1 ELSE local.indexes[i].income_index

Unsupported(reason) == [status |-> "unsupported", reason |-> {reason}, metrics |-> {},
                        snapshots |-> <<>>]

(* (value - peak) / peak, as a pair.                                       *)
Below(left, right) == left[1] * right[2] < right[1] * left[2]

(* Mutant: the peak stays the first value.                                 *)
MaxDrawdownFromStart(values) ==
    FoldLeft(LAMBDA worst, v : IF Below(<<v - values[1], values[1]>>, worst)
                               THEN <<v - values[1], values[1]>> ELSE worst,
             <<0, 1>>, values)

MaxDrawdown(values) ==
    LET Step(acc, v) ==
          LET peak == IF v > acc.peak THEN v ELSE acc.peak IN
          [peak |-> peak,
           worst |-> IF Below(<<v - peak, peak>>, acc.worst) THEN <<v - peak, peak>>
                     ELSE acc.worst]
    IN FoldLeft(Step, [peak |-> values[1], worst |-> <<0, 1>>], values).worst

Simulate ==
    LET prices == local.prices
        capital == CHOOSE c \in input.request.initial_capital : TRUE
        Price(i) == CHOOSE p \in prices[i].price : TRUE
        n == Len(prices)
        Value(i) == {capital * p * IndexAt(i) : p \in prices[i].price}
        values == [i \in 1..n |-> Value(i)]
        partial == \E i \in 1..n : \/ values[i] = {}
                                   \/ prices[i].status \in {"carry_forward", "missing"}
        initial == capital * Price(1) * IndexAt(1)
        final == capital * Price(n) * IndexAt(n)
        held == capital * Price(n) * IndexAt(1)
        days == local.window.days
        metrics ==
          [initial |-> initial, final |-> final, absolute_return |-> final - initial,
           annualized_return |-> ~ partial /\ days >= ANNUALIZED_FROM_DAYS,
           maximum_drawdown |->
             IF partial THEN {}
             ELSE {MaxDrawdown(MapSeq(values, LAMBDA v : CHOOSE x \in v : TRUE))},
           price_appreciation |-> held - initial, yield |-> final - held]
        run == IF prices[1].price = {} \/ prices[n].price = {}
               THEN Unsupported("required_start_or_final_price_evidence_unavailable")
               ELSE [status |-> IF partial THEN "partial" ELSE "complete",
                     reason |-> {}, metrics |-> {metrics},
                     snapshots |-> [i \in 1..n |-> [timestamp |-> prices[i].timestamp,
                                                    value |-> values[i],
                                                    price_status |-> prices[i].status]]]
    IN /\ At("simulation", "simulate")
       /\ StoreRun(run)
       /\ UNCHANGED <<input, grants>>

(* repository.create, then the redirect to the run.                        *)
CreateRun ==
    /\ At("simulation", "store")
    /\ \/ LabAnswer(503, "unavailable")
       \/ (\E run \in local.run : Respond(run)) /\ UNCHANGED local
    /\ UNCHANGED <<input, grants>>

SimulationNext ==
    \/ SubmitSimulation \/ LoadPrices \/ FindAaveProtocol \/ ReadHead
    \/ OpenBracket \/ ProbeBlock \/ ReadIndex \/ Simulate \/ CreateRun

(***************************************************************************)
(* Properties.                                                             *)
(***************************************************************************)

(* BlockResolver::at_or_before: whatever blocks earlier boundaries left in *)
(* the cache, the block of each boundary is the last one of the chain      *)
(* whose time is not after it - the head when the boundary is later than   *)
(* the chain.  A search that has not found it probes strictly inside its   *)
(* bracket, around the boundary, so that the bracket shrinks with every    *)
(* probe and the search ends.                                              *)
BlocksAtOrBefore ==
    input.handler = "simulation" /\ local # <<>> =>
      /\ \A i \in DOMAIN local.indexes :
           LET n == local.indexes[i].block.number
               boundary == Boundaries(local.window)[i] * 86400
           IN /\ Block(n).epoch_seconds <= boundary
              /\ n + 1 < Len(input.chain) => Block(n + 1).epoch_seconds > boundary
      /\ pc = "probe" =>
           \A low \in local.resolver.low, high \in local.resolver.high :
             /\ low.epoch_seconds <= Target /\ Target < high.epoch_seconds
             /\ low.number + 1 < high.number =>
                  InterpolatedBlockNumber(Target, low, high)
                    \in (low.number + 1) .. (high.number - 1)

(* Reference: the worst fall from any value to a later one.                *)
WorstFall(values) ==
    LET days == {p \in (DOMAIN values) \X (DOMAIN values) : p[1] <= p[2]}
        falls == {<<values[p[2]] - values[p[1]], values[p[1]]>> : p \in days}
    IN CHOOSE f \in falls : \A g \in falls : ~ Below(g, f)

(* run, failed_run and simulate: a stored run is complete only when every  *)
(* day of the requested period, counted on the calendar, has a price of    *)
(* its own; then its drawdown is the worst fall from any day to a later    *)
(* one.  A partial run claims neither a drawdown nor an annual return, and *)
(* a run without its first or last price claims nothing.                   *)
SimulationHonest ==
    input.handler = "simulation" => \A run \in answer.body :
      LET start == CHOOSE d \in input.request.start_date : TRUE
          end == CHOOSE d \in input.request.end_date : TRUE
          own == {i \in DOMAIN run.snapshots :
                    run.snapshots[i].value # {} /\ run.snapshots[i].price_status = "observed"}
          values == [i \in DOMAIN run.snapshots |->
                       CHOOSE v \in run.snapshots[i].value : TRUE]
      IN /\ run.status \in {"complete", "partial"} =>
              /\ Len(run.snapshots) = CountedDays(end) - CountedDays(start) + 2
              /\ \A i \in DOMAIN run.snapshots :
                   LET t == run.snapshots[i].timestamp IN
                   /\ ParseDate(t)
                   /\ CountedDays(t) = CountedDays(start) + i - 1
              /\ (run.status = "complete") = (own = DOMAIN run.snapshots)
         /\ (run.metrics = {}) = (run.status \in {"failed", "unsupported"})
         /\ \A m \in run.metrics :
              /\ (m.maximum_drawdown # {}) = (run.status = "complete")
              /\ m.annualized_return => run.status = "complete"
              /\ \A fall \in m.maximum_drawdown :
                   LET worst == WorstFall(values) IN
                   fall[1] * worst[2] = worst[1] * fall[2]

=============================================================================
