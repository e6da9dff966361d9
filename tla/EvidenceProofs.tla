--------------------------- MODULE EvidenceProofs ---------------------------
(***************************************************************************)
(* Proofs about the evidence that the lab reads from the chain: the blocks *)
(* of a simulation's boundaries (Simulation) and the blocks of a yield     *)
(* study (RealizedYield), for any chain, catalog and request.              *)
(***************************************************************************)
EXTENDS Simulation, RealizedYield, FiniteSetTheorems, WellFoundedInduction, TLAPS

(***************************************************************************)
(* Least and greatest elements, and the operators of Requests that rest on *)
(* them.                                                                   *)
(***************************************************************************)

(* Induction over the subsets of a finite set: a family of them has a      *)
(* minimal member.                                                         *)
LEMMA LeastSubset ==
    ASSUME NEW S, IsFiniteSet(S), NEW T \in SUBSET (SUBSET S), T # {}
    PROVE  \E x \in T : \A y \in T : y \subseteq x => y = x
  <1>1. T \subseteq FiniteSubsetsOf(S)
    BY FS_FiniteSubsetsOfFinite
  <1>2. PICK x \in T : \A y \in T : ~ (<<y, x>> \in StrictSubsetOrdering(S))
    BY <1>1, FS_StrictSubsetOrderingWellFounded, WFMin, Zenon
  <1>3. QED BY <1>2, Zenon DEF StrictSubsetOrdering

(* A set of natural numbers has a least one: what comes before the initial *)
(* segments of its members is finite.                                      *)
LEMMA LeastNatural ==
    ASSUME NEW T \in SUBSET Nat, T # {}
    PROVE  \E x \in T : \A y \in T : x <= y
  <1>1. PICK n \in T : TRUE
    BY Zenon
  <1> DEFINE U == {1 .. m : m \in {k \in T : k <= n}}
  <1>2. U \in SUBSET (SUBSET (1 .. n)) /\ U # {}
    OBVIOUS
  <1>3. IsFiniteSet(1 .. n)
    BY FS_Interval
  <1>4. PICK u \in U : \A v \in U : v \subseteq u => v = u
    <2> DEFINE S == 1 .. n
    <2>1. IsFiniteSet(S) /\ U \in SUBSET (SUBSET S) /\ U # {}
      BY <1>2, <1>3
    <2> HIDE DEF U, S
    <2> QED BY <2>1, LeastSubset
  <1>5. PICK m \in T : m <= n /\ u = 1 .. m
    OBVIOUS
  <1>6. ASSUME NEW y \in T PROVE m <= y
    <2>1. CASE y > m
      BY <2>1
    <2>2. CASE y <= m
      <3>1. 1 .. y \in U /\ 1 .. y \subseteq u
        BY <2>2, <1>5
      <3>2. 1 .. y = 1 .. m
        BY <3>1, <1>4, <1>5, Zenon
      <3>3. m = 0 \/ m \in 1 .. y
        BY <3>2
      <3> QED BY <3>3
    <2> QED BY <2>1, <2>2
  <1> QED BY <1>6

(* A bounded set of natural numbers has a greatest one.                    *)
LEMMA GreatestNatural ==
    ASSUME NEW n \in Nat, NEW T \in SUBSET (0 .. n), T # {}
    PROVE  \E x \in T : \A y \in T : y <= x
  <1> DEFINE U == {n - x : x \in T}
  <1>1. \A x \in T : x \in Nat /\ n - x \in Nat
    OBVIOUS
  <1>10. U \in SUBSET Nat /\ U # {}
    BY <1>1, Zenon
  <1>2. PICK u \in U : \A v \in U : u <= v
    <2> HIDE DEF U
    <2> QED BY <1>10, LeastNatural
  <1>3. PICK x \in T : u = n - x
    OBVIOUS
  <1>4. ASSUME NEW y \in T PROVE y <= x
    <2>1. n - y \in U
      OBVIOUS
    <2>2. u <= n - y
      BY <2>1, <1>2
    <2> QED BY <2>2, <1>3
  <1> QED BY <1>4

(* Nth(P, k) is a member of P: the least number with k members of P up to  *)
(* it is the k-th.                                                         *)
LEMMA NthIn ==
    ASSUME NEW n \in Nat, NEW P \in SUBSET (1..n), NEW k \in 1..Cardinality(P)
    PROVE  Nth(P, k) \in P
  <1> DEFINE Upto(i) == {j \in P : j <= i}
  <1> DEFINE Enough == {i \in Nat : Cardinality(Upto(i)) >= k}
  <1>p. \A j \in P : j \in Nat /\ j <= n /\ j # 0
    OBVIOUS
  <1>1. IsFiniteSet(P)
    <2>1. IsFiniteSet(1..n)
      BY FS_Interval
    <2> QED BY <2>1, FS_Subset, Zenon
  <1>2. ASSUME NEW i \in Nat
        PROVE  IsFiniteSet(Upto(i)) /\ Cardinality(Upto(i)) \in Nat
    <2>1. Upto(i) \in SUBSET P
      OBVIOUS
    <2> HIDE DEF Upto
    <2> QED BY <1>1, <2>1, FS_Subset, FS_CardinalityType
  <1>3. Cardinality(P) \in Nat /\ k \in Nat /\ k # 0 /\ k <= Cardinality(P)
    BY <1>1, FS_CardinalityType
  <1>4. n \in Enough
    <2>1. Upto(n) = P
      <3>1. \A j \in P : j <= n
        BY <1>p
      <3> QED BY <3>1, Zenon
    <2>2. Cardinality(Upto(n)) >= k
      BY <2>1, <1>3
    <2> QED BY <2>2
  <1>5. PICK i \in Nat : i \in Enough /\ \A j \in Enough : i <= j
    <2>1. Enough \in SUBSET Nat
      OBVIOUS
    <2> HIDE DEF Enough
    <2> QED BY <1>4, <2>1, LeastNatural
  <1>e. Cardinality(Upto(i)) >= k /\ \A j \in Nat : j < i => ~ (Cardinality(Upto(j)) >= k)
    BY <1>5
  <1> HIDE DEF Enough
  <1>6. i # 0
    <2> SUFFICES ASSUME i = 0 PROVE FALSE
      OBVIOUS
    <2>1. Upto(i) = {}
      <3>1. \A j \in P : ~ (j <= i)
        BY <1>p
      <3> QED BY <3>1, Zenon
    <2>2. Cardinality(Upto(i)) = 0
      BY <2>1, FS_EmptySet
    <2> HIDE DEF Upto
    <2> QED BY <2>2, <1>3, <1>e
  <1>7. i - 1 \in Nat /\ i - 1 < i
    BY <1>6
  <1>8. Cardinality(Upto(i - 1)) < k
    <2> HIDE DEF Upto
    <2> QED BY <1>2, <1>3, <1>7, <1>e
  <1>9. i \in P
    <2> SUFFICES ASSUME i \notin P PROVE FALSE
      OBVIOUS
    <2>1. Upto(i) = Upto(i - 1)
      <3>1. \A j \in P : j <= i <=> j <= i - 1
        BY <1>7, <1>p
      <3> QED BY <3>1, Zenon
    <2> HIDE DEF Upto
    <2> QED BY <2>1, <1>2, <1>3, <1>7, <1>8, <1>e
  <1>10. Upto(i) = Upto(i - 1) \union {i} /\ i \notin Upto(i - 1)
    <2>1. /\ \A j \in P : j <= i <=> j <= i - 1 \/ j = i
          /\ ~ (i <= i - 1)
      BY <1>7, <1>p
    <2> QED BY <2>1, <1>9, Zenon
  <1>11. Cardinality(Upto(i)) = Cardinality(Upto(i - 1)) + 1
    <2> HIDE DEF Upto
    <2> QED BY <1>2, <1>7, <1>10, FS_AddElement, Zenon
  <1>12. Cardinality(Upto(i)) = k
    <2> HIDE DEF Upto
    <2> QED BY <1>2, <1>3, <1>7, <1>8, <1>11, <1>e
  <1> QED BY <1>9, <1>12 DEF Nth

(* FirstError finds nothing only when no check fails.                      *)
LEMMA NoError ==
    ASSUME NEW s, DOMAIN s \subseteq Nat, FirstError(s) = {}
    PROVE  \A i \in DOMAIN s : s[i] = {}
  <1> DEFINE failed == {i \in DOMAIN s : s[i] # {}}
  <1>1. SUFFICES ASSUME failed # {} PROVE FALSE
    OBVIOUS
  <1>2. \E i \in failed : \A j \in failed : i <= j
    <2>1. failed \in SUBSET Nat
      OBVIOUS
    <2> HIDE DEF failed
    <2> QED BY <1>1, <2>1, LeastNatural
  <1>3. PICK i \in failed : FirstError(s) = s[i]
    BY <1>1, <1>2 DEF FirstError
  <1> QED BY <1>3

(* What is left of a sequence without its repetitions comes from it.       *)
LEMMA DeduplicatedFrom ==
    ASSUME NEW n \in Nat, NEW s, DOMAIN s = 1..n, NEW k \in DOMAIN Deduplicated(s)
    PROVE  \E i \in 1..n : Deduplicated(s)[k] = s[i]
  <1> DEFINE P == {i \in DOMAIN s : \A j \in 1..(i - 1) : s[j] # s[i]}
  <1>1. P \in SUBSET (1..n)
    OBVIOUS
  <1>2. Deduplicated(s) = [m \in 1..Cardinality(P) |-> s[Nth(P, m)]]
    BY DEF Deduplicated, Selected
  <1> HIDE DEF P
  <1>3. Nth(P, k) \in P
    BY <1>1, <1>2, NthIn, Zenon
  <1> QED BY <1>1, <1>2, <1>3, Zenon

(* A readable answer of the node is the answer to what was asked.          *)
LEMMA Reply ==
    ASSUME NEW result, NEW reply \in RpcReplies(result)
    PROVE  RpcResult(reply) \subseteq {result}
  BY DEF RpcReplies, RpcResult, Success, Unreadable, ErrorReply, Lost

(* So is a readable income index.                                          *)
LEMMA IndexReply ==
    ASSUME NEW p, NEW a, NEW n, NEW reply \in IndexReplies(n),
           NEW x \in IncomeIndexAt(p, a, n, reply)
    PROVE  x = IncomeIndex(n)
  BY DEF IndexReplies, IncomeIndexAt, RpcReplies, RpcResult, Success, Unreadable, ErrorReply, Lost

(***************************************************************************)
(* Simulation: the block search.                                           *)
(***************************************************************************)

(* A block of a chain c, given as the times of its blocks.                 *)
BlockOf(c, n) == [number |-> n, epoch_seconds |-> c[n + 1]]

Numbers(c) == 0 .. (Len(c) - 1)

BlocksOf(c) == {BlockOf(c, n) : n \in Numbers(c)}

(* The time of a daily boundary, and the block for it.                     *)
Boundary(w, i) == (w.start_day + i - 1) * 86400

AtOrBefore(c, n, t) ==
    /\ c[n + 1] <= t
    /\ n + 1 < Len(c) => c[n + 2] > t

(* An index with the block it was read at.                                 *)
Evidence(c) == {[block |-> BlockOf(c, n), income_index |-> IncomeIndex(n)] :
                  n \in Numbers(c)}

(* What load_aave_factors holds at each step: blocks of the chain only,    *)
(* for each boundary the block it belongs to, a bracket around the         *)
(* boundary while it searches, then its block.                             *)
Searching(c, loc, p) ==
    LET w == loc.window
        s == loc.resolver
        t == Boundary(w, Len(loc.indexes) + 1)
    IN /\ DOMAIN loc = {"window", "prices", "indexes", "resolver", "run"}
       /\ DOMAIN s = {"head", "cache", "low", "high"}
       /\ w.days \in Nat /\ w.start_day \in Int
       /\ loc.indexes \in Seq(Evidence(c))
       /\ \A i \in DOMAIN loc.indexes :
            /\ i <= w.days + 1
            /\ AtOrBefore(c, loc.indexes[i].block.number, Boundary(w, i))
       /\ s.head \subseteq {BlockOf(c, Len(c) - 1)}
       /\ s.cache \subseteq BlocksOf(c)
       /\ p \in {"boundary", "probe", "index"} => Len(loc.indexes) <= w.days
       /\ p \in {"series", "protocol"} => loc.indexes = <<>>
       /\ p = "probe" =>
            \E a, b \in Numbers(c) :
               /\ s.low = {BlockOf(c, a)} /\ s.high = {BlockOf(c, b)}
               /\ c[a + 1] <= t /\ t < c[b + 1]
       /\ p = "index" =>
            \E a \in Numbers(c) : s.low = {BlockOf(c, a)} /\ AtOrBefore(c, a, t)

(* The inductive invariant of the search.                                  *)
SearchInv ==
    /\ input \in Inputs
    /\ input.handler = "simulation" =>
         \/ local = <<>> /\ pc \in {"boot", "refused", "parse", "answered"}
         \/ /\ pc \in {"series", "protocol", "boundary", "probe", "index",
                       "simulate", "store", "answered"}
            /\ Searching(input.chain, local, pc)

(* A set of blocks of the chain has a first one,                           *)
LEMMA FirstBlock ==
    ASSUME NEW c \in Seq(Nat), NEW S \in SUBSET BlocksOf(c), S # {}
    PROVE  \E b \in S : \A d \in S : b.number <= d.number
  <1> DEFINE T == {b.number : b \in S}
  <1>1. \A b \in S : \E n \in Numbers(c) : b = BlockOf(c, n) /\ b.number = n
    BY DEF BlocksOf, BlockOf
  <1>2. T \in SUBSET Nat /\ T # {}
    BY <1>1 DEF Numbers
  <1>3. PICK x \in T : \A y \in T : x <= y
    <2> HIDE DEF T
    <2> QED BY <1>2, LeastNatural
  <1> QED BY <1>3

(* and a last one.                                                         *)
LEMMA LastBlock ==
    ASSUME NEW c \in Seq(Nat), NEW S \in SUBSET BlocksOf(c), S # {}
    PROVE  \E b \in S : \A d \in S : d.number <= b.number
  <1> DEFINE T == {b.number : b \in S}
  <1>1. \A b \in S : \E n \in Numbers(c) : b = BlockOf(c, n) /\ b.number = n
    BY DEF BlocksOf, BlockOf
  <1>2. Len(c) - 1 \in Nat /\ T \in SUBSET (0 .. (Len(c) - 1)) /\ T # {}
    BY <1>1 DEF Numbers
  <1>3. PICK x \in T : \A y \in T : y <= x
    <2> DEFINE k == Len(c) - 1
    <2>1. k \in Nat /\ T \in SUBSET (0 .. k)
      BY <1>2
    <2> HIDE DEF T, k
    <2> QED BY <1>2, <2>1, GreatestNatural, Zenon
  <1> QED BY <1>3

(* What ChainAssumption says of the chain of a request: times never go     *)
(* back.                                                                   *)
Chain(c) == /\ c \in Seq(Nat) /\ c # <<>>
            /\ \A m, n \in DOMAIN c : m <= n => c[m] <= c[n]

(* A block of the chain has a time.                                        *)
LEMMA Times ==
    ASSUME NEW c, Chain(c), NEW a \in Numbers(c)
    PROVE  a \in Nat /\ a + 1 \in DOMAIN c /\ c[a + 1] \in Nat
  BY DEF Chain, Numbers

(* A boundary between the times of two blocks: the low one comes first,    *)
(* and when they are neighbours it is the block of the boundary.           *)
LEMMA Adjacent ==
    ASSUME NEW c, Chain(c), NEW t \in Int, NEW a \in Numbers(c), NEW b \in Numbers(c),
           c[a + 1] <= t, t < c[b + 1]
    PROVE  a < b /\ (a + 1 >= b => AtOrBefore(c, a, t))
  <1>1. a \in Nat /\ a + 1 \in DOMAIN c /\ c[a + 1] \in Nat
    BY Times
  <1>2. b \in Nat /\ b + 1 \in DOMAIN c /\ c[b + 1] \in Nat
    BY Times
  <1>3. b <= a => c[b + 1] <= c[a + 1]
    BY <1>1, <1>2 DEF Chain
  <1>4. a < b
    BY <1>1, <1>2, <1>3
  <1>5. ASSUME a + 1 >= b PROVE AtOrBefore(c, a, t)
    <2>1. b + 1 = a + 2
      BY <1>1, <1>2, <1>4, <1>5
    <2> QED BY <2>1 DEF AtOrBefore
  <1> QED BY <1>4, <1>5

(* Integer division and products stay integers.                            *)
LEMMA DivInt ==
    ASSUME NEW x \in Int, NEW y \in Nat, y > 0
    PROVE  x \div y \in Int
  OBVIOUS

LEMMA ProductInt ==
    ASSUME NEW x \in Int, NEW y \in Int
    PROVE  x * y \in Int
  OBVIOUS

(* interpolated_block_number: whatever the times, the block to probe is    *)
(* strictly inside the bracket.                                            *)
LEMMA Between ==
    ASSUME NEW c, Chain(c), NEW t \in Int, NEW a \in Numbers(c), NEW b \in Numbers(c),
           c[a + 1] <= t, t < c[b + 1], a + 1 < b
    PROVE  InterpolatedBlockNumber(t, BlockOf(c, a), BlockOf(c, b)) \in (a + 1) .. (b - 1)
  <1>1. a \in Nat /\ c[a + 1] \in Nat /\ b \in Nat /\ c[b + 1] \in Nat
    BY Times
  <1> DEFINE low == BlockOf(c, a)
  <1> DEFINE high == BlockOf(c, b)
  <1>2. /\ low.number = a /\ high.number = b
        /\ low.epoch_seconds = c[a + 1] /\ high.epoch_seconds = c[b + 1]
    BY DEF BlockOf
  <1> HIDE DEF low, high
  <1>3. PICK x \in Nat : x = c[a + 1]
    BY <1>1
  <1>4. PICK y \in Nat : y = c[b + 1]
    BY <1>1
  <1> DEFINE off == IF t - x < 0 THEN 0 ELSE IF t - x > y - x THEN y - x ELSE t - x
  <1>5. off \in Int /\ b - a \in Int /\ y - x \in Nat /\ y - x > 0
    BY <1>1, <1>3, <1>4
  <1> DEFINE q == (off * (b - a)) \div (y - x)
  <1>6. q \in Int
    <2> HIDE DEF off
    <2>1. off * (b - a) \in Int
      BY <1>5, ProductInt
    <2> QED BY <2>1, <1>5, DivInt
  <1>7. InterpolatedBlockNumber(t, low, high) =
          IF a + q < a + 1 THEN a + 1 ELSE IF a + q > b - 1 THEN b - 1 ELSE a + q
    <2>1. ~ (y - x <= 0)
      BY <1>5
    <2> QED BY <2>1, <1>2, <1>3, <1>4 DEF InterpolatedBlockNumber
  <1>8. InterpolatedBlockNumber(t, low, high) \in (a + 1) .. (b - 1)
    <2> HIDE DEF q, off
    <2> QED BY <1>6, <1>7, <1>1
  <1> QED BY <1>8 DEF low, high

(* The chain that a simulation reads is one.                               *)
LEMMA ChainOf ==
    ASSUME input \in Inputs, input.handler = "simulation"
    PROVE  Chain(input.chain)
  BY ChainAssumption DEF Chain

LEMMA BlockIs ==
    \A n : Block(n) = BlockOf(input.chain, n)
  BY DEF Block, BlockOf

(* The boundaries of a window are its days, in seconds.                    *)
LEMMA BoundaryIs ==
    ASSUME NEW w, w.days \in Nat, w.start_day \in Int, NEW i \in 1 .. (w.days + 1)
    PROVE  Boundaries(w)[i] * 86400 = Boundary(w, i) /\ Boundary(w, i) \in Int
  BY DEF Boundaries, Boundary

(* The boundary that the search is at.                                     *)
LEMMA TargetIs ==
    ASSUME NEW c, NEW p \in {"boundary", "probe", "index"}, Searching(c, local, p)
    PROVE  /\ Target = Boundary(local.window, Len(local.indexes) + 1)
           /\ Target \in Int
  <1>1. Len(local.indexes) \in Nat /\ Len(local.indexes) <= local.window.days
    BY DEF Searching
  <1>2. local.window.days \in Nat /\ local.window.start_day \in Int
    BY DEF Searching
  <1>3. Len(local.indexes) + 1 \in 1 .. (local.window.days + 1)
    BY <1>1, <1>2
  <1> QED BY <1>2, <1>3, BoundaryIs DEF Target

(* Ending the search with a run, failed or not, keeps the evidence found.  *)
LEMMA Stored ==
    ASSUME NEW c, NEW p, Searching(c, local, p), NEW run, StoreRun(run)
    PROVE  pc' = "store" /\ Searching(c, local', "store")
  <1>1. /\ DOMAIN local' = DOMAIN local /\ local'.window = local.window
        /\ local'.indexes = local.indexes /\ local'.resolver = local.resolver
    BY DEF StoreRun, Goto, Searching
  <1>2. PICK loc2 : loc2 = local'
    OBVIOUS
  <1>3. Searching(c, loc2, "store")
    <2>1. /\ DOMAIN loc2 = DOMAIN local /\ loc2.window = local.window
          /\ loc2.indexes = local.indexes /\ loc2.resolver = local.resolver
      BY <1>1, <1>2
    <2>2. "store" \in {"store", "simulate", "answered"}
      OBVIOUS
    <2> QED BY <2>1 DEF Searching
  <1> QED BY <1>2, <1>3 DEF StoreRun, Goto

(* at_or_before: the cached blocks on either side of the boundary bracket  *)
(* it, whatever earlier searches left in the cache.                        *)
LEMMA Opened ==
    ASSUME NEW c, Chain(c), NEW s, NEW t \in Int,
           s.cache \subseteq BlocksOf(c), s.head = {BlockOf(c, Len(c) - 1)},
           t < c[Len(c)], c[1] <= t
    PROVE  \E a, b \in Numbers(c) :
             /\ Bracket(s, t, BlockOf(c, 0)) = [low |-> BlockOf(c, a), high |-> BlockOf(c, b)]
             /\ c[a + 1] <= t /\ t < c[b + 1]
  <1> DEFINE before == {b \in s.cache : b.epoch_seconds <= t} \union {BlockOf(c, 0)}
  <1> DEFINE after == {b \in s.cache : b.epoch_seconds > t} \union s.head
  <1>1. 0 \in Numbers(c) /\ Len(c) - 1 \in Numbers(c) /\ c \in Seq(Nat) /\ Len(c) \in Nat
    BY DEF Numbers, Chain
  <1>2. before \in SUBSET BlocksOf(c) /\ before # {}
    BY <1>1 DEF BlocksOf
  <1>3. after \in SUBSET BlocksOf(c) /\ after # {}
    BY <1>1 DEF BlocksOf
  <1>4. \A b \in before : b.epoch_seconds <= t
    BY <1>1 DEF BlockOf
  <1>5. \A b \in after : t < b.epoch_seconds
    <2>1. \A b \in s.head : b.epoch_seconds = c[Len(c)]
      BY <1>1 DEF BlockOf
    <2>2. \A b \in s.cache : b.epoch_seconds \in Nat
      BY Times DEF BlocksOf, BlockOf
    <2> QED BY <2>1, <2>2
  <1> DEFINE lo == CHOOSE b \in before : \A d \in before : d.number <= b.number
  <1> DEFINE hi == CHOOSE b \in after : \A d \in after : b.number <= d.number
  <1>6. Bracket(s, t, BlockOf(c, 0)) = [low |-> lo, high |-> hi]
    BY DEF Bracket
  <1>7. lo \in before
    <2> HIDE DEF before
    <2>1. \E b \in before : \A d \in before : d.number <= b.number
      BY <1>1, <1>2, LastBlock
    <2> QED BY <2>1
  <1>8. hi \in after
    <2> HIDE DEF after
    <2>1. \E b \in after : \A d \in after : b.number <= d.number
      BY <1>1, <1>3, FirstBlock
    <2> QED BY <2>1
  <1> HIDE DEF before, after, lo, hi
  <1>9. PICK a \in Numbers(c) : lo = BlockOf(c, a)
    BY <1>7, <1>2 DEF BlocksOf
  <1>10. PICK b \in Numbers(c) : hi = BlockOf(c, b)
    BY <1>8, <1>3 DEF BlocksOf
  <1>11. c[a + 1] <= t /\ t < c[b + 1]
    BY <1>4, <1>5, <1>7, <1>8, <1>9, <1>10 DEF BlockOf
  <1> QED BY <1>6, <1>9, <1>10, <1>11

(* The steps of a simulation that was accepted.                            *)
Steps == {"series", "protocol", "boundary", "probe", "index", "simulate", "store", "answered"}

(* A step that keeps the evidence keeps the invariant.                     *)
LEMMA Onward ==
    ASSUME SearchInv, input' = input, pc' \in Steps, Searching(input.chain, local', pc')
    PROVE  SearchInv'
  BY DEF SearchInv, Steps

(* A request that is turned away has no evidence.                          *)
LEMMA Refused ==
    ASSUME SearchInv, input' = input, input.handler = "simulation", local = <<>>,
           NEW status, NEW error, LabAnswer(status, error)
    PROVE  SearchInv'
  BY DEF SearchInv, LabAnswer

(* The days of the calendar are integers.                                  *)
LEMMA DayOfEraInt ==
    ASSUME NEW y \in Int, NEW d \in Int
    PROVE  DayOfEra(y, d) \in Int
  BY DEF DayOfEra

LEMMA CivilDays ==
    ASSUME NEW year \in Nat, NEW month \in Nat, NEW day \in Nat
    PROVE  DaysFromCivil(year, month, day) \in Int
  <1>1. PICK a \in Int : a = MarchYear(year, month)
    BY DEF MarchYear
  <1>2. PICK m \in Int : m = MonthPrime(month)
    BY DEF MonthPrime
  <1>3. PICK era \in Int : era = a \div 400
    OBVIOUS
  <1>4. PICK d \in Int : d = (153 * m + 2) \div 5 + day - 1
    OBVIOUS
  <1>5. DaysFromCivil(year, month, day) = era * 146097 + DayOfEra(a - era * 400, d) - 719468
    BY <1>1, <1>2, <1>3, <1>4 DEF DaysFromCivil
  <1>6. PICK e \in Int : e = DayOfEra(a - era * 400, d)
    BY DayOfEraInt
  <1> QED BY <1>5, <1>6

(* submit_simulation: an accepted window has a start and a number of days. *)
LEMMA SubmitKeeps ==
    ASSUME SearchInv, SubmitSimulation
    PROVE  SearchInv'
  <1> DEFINE r == input.request
  <1> DEFINE start == CHOOSE d \in r.start_date : TRUE
  <1> DEFINE window == [start_day |-> DayNumber(start), days |-> SimulationDays(r)]
  <1>1. /\ input \in Inputs /\ input.handler = "simulation" /\ pc = "parse"
        /\ input' = input
    BY DEF SubmitSimulation, At, SearchInv
  <1>2. local = <<>>
    BY <1>1 DEF SearchInv
  <1>3. CASE LabRefusal
    BY <1>1, <1>2, <1>3, Refused DEF LabRefusal
  <1>4. ASSUME NEW e, LabAnswer(200, e) PROVE SearchInv'
    BY <1>1, <1>2, <1>4, Refused
  <1>5. ASSUME SimulationInputError(r) = {},
               Goto("series", [window |-> window, prices |-> <<>>,
                               indexes |-> <<>>, resolver |-> NewResolver,
                               run |-> {}])
        PROVE  SearchInv'
    <2> DEFINE parsed == \A dates \in {r.start_date, r.end_date} : \E d \in dates : ParseDate(d)
    <2> DEFINE checks == <<
        Fail(~ \E k \in r.initial_capital : k > 0, "invalid_initial_capital"),
        Fail(r.quote_currency # "USD", "unsupported_quote_currency"),
        Fail(\E dates \in {r.start_date, r.end_date} :
               ~ \E d \in dates : ParseDate(d), "invalid_date_range"),
        IF parsed THEN Fail(SimulationDays(r) \notin 1..MAX_DAYS, "invalid_date_range") ELSE {},
        Fail(r.strategy \notin DOMAIN Strategies, "unsupported_strategy") >>
    <2>1. FirstError(checks) = {}
      BY <1>5, Zenon DEF SimulationInputError
    <2>2. DOMAIN checks = 1 .. 5
      OBVIOUS
    <2>3. checks[3] = {} /\ checks[4] = {}
      <3> HIDE DEF checks
      <3>1. DOMAIN checks \subseteq Nat
        BY <2>2
      <3>2. \A i \in DOMAIN checks : checks[i] = {}
        BY <3>1, <2>1, NoError
      <3> QED BY <3>2, <2>2
    <2>4. parsed
      BY <2>3 DEF Fail
    <2>5. SimulationDays(r) \in 1 .. MAX_DAYS
      BY <2>3, <2>4 DEF Fail
    <2>6. SimulationDays(r) \in Nat
      <3> HIDE DEF r
      <3> QED BY <2>5, DaysAssumption
    <2>7. start \in r.start_date
      BY <2>4
    <2>8. start.year \in Nat /\ start.month \in Nat /\ start.day \in Nat
      BY <2>7, <1>1, DatesAssumption
    <2>9. DayNumber(start) \in Int
      BY <2>8, CivilDays DEF DayNumber
    <2>10. window.days \in Nat /\ window.start_day \in Int
      BY <2>6, <2>9
    <2> HIDE DEF window
    <2>11. /\ local'.window = window /\ local'.indexes = <<>> /\ local'.resolver = NewResolver
           /\ DOMAIN local' = {"window", "prices", "indexes", "resolver", "run"}
           /\ pc' = "series"
      BY <1>5 DEF Goto
    <2>12. Searching(input.chain, local', "series")
      BY <2>10, <2>11 DEF Searching, NewResolver
    <2> QED BY <1>1, <2>11, <2>12, Onward DEF Steps
  <1>6. \/ LabRefusal
        \/ \E e : LabAnswer(200, e)
        \/ /\ SimulationInputError(r) = {}
           /\ Goto("series", [window |-> window, prices |-> <<>>,
                               indexes |-> <<>>, resolver |-> NewResolver,
                               run |-> {}])
    BY DEF SubmitSimulation
  <1> HIDE DEF window, r
  <1> QED BY <1>3, <1>4, <1>5, <1>6

(* What holds at a step of the search.                                     *)
LEMMA Searches ==
    ASSUME SearchInv, NEW step, At("simulation", step),
           step \in {"series", "protocol", "boundary", "probe", "index", "simulate", "store"}
    PROVE  Searching(input.chain, local, step) /\ input \in Inputs /\ Chain(input.chain)
           /\ input.handler = "simulation"
  BY ChainOf DEF SearchInv, At

(* Every failure of the evidence ends in StoreRun.                         *)
LEMMA StoredKeeps ==
    ASSUME SearchInv, NEW step, Searching(input.chain, local, step), input' = input,
           NEW run, StoreRun(run)
    PROVE  SearchInv'
  BY Stored, Onward DEF Steps

(* load_prices leaves the evidence alone.                                  *)
LEMMA PricesKeep ==
    ASSUME SearchInv, LoadPrices
    PROVE  SearchInv'
  <1>1. Searching(input.chain, local, "series") /\ input' = input
    BY Searches DEF LoadPrices
  <1>2. CASE \E run : StoreRun(run)
    BY <1>1, <1>2, StoredKeeps
  <1>3. ASSUME NEW step \in {"protocol", "simulate"}, NEW prices,
               Goto(step, [local EXCEPT !.prices = prices])
        PROVE  SearchInv'
    <2>1. /\ DOMAIN local' = DOMAIN local /\ local'.window = local.window
          /\ local'.indexes = local.indexes /\ local'.resolver = local.resolver
          /\ pc' = step
      BY <1>1, <1>3 DEF Goto, Searching
    <2>2. Searching(input.chain, local', step)
      BY <1>1, <2>1 DEF Searching
    <2> QED BY <1>1, <2>1, <2>2, Onward DEF Steps
  <1>4. \/ \E run : StoreRun(run)
        \/ \E step \in {"protocol", "simulate"} : \E prices :
             Goto(step, [local EXCEPT !.prices = prices])
    BY Zenon DEF LoadPrices
  <1> QED BY <1>2, <1>3, <1>4, Zenon

(* So does the lookup of the protocol.                                     *)
LEMMA ProtocolKeeps ==
    ASSUME SearchInv, FindAaveProtocol
    PROVE  SearchInv'
  <1>1. Searching(input.chain, local, "protocol") /\ input' = input
    BY Searches DEF FindAaveProtocol
  <1>2. CASE \E run : StoreRun(run)
    BY <1>1, <1>2, StoredKeeps
  <1>3. CASE Goto("boundary", local)
    <2>1. local' = local /\ pc' = "boundary"
      BY <1>3 DEF Goto
    <2>2. Searching(input.chain, local, "boundary")
      BY <1>1 DEF Searching
    <2> QED BY <1>1, <2>1, <2>2, Onward DEF Steps
  <1> QED BY <1>2, <1>3 DEF FindAaveProtocol, AaveFailed

(* BlockResolver: the head is read once, and is the last block.            *)
LEMMA HeadKeeps ==
    ASSUME SearchInv, ReadHead
    PROVE  SearchInv'
  <1>1. Searching(input.chain, local, "boundary") /\ input' = input /\ Chain(input.chain)
    BY Searches DEF ReadHead
  <1>2. CASE \E run : StoreRun(run)
    BY <1>1, <1>2, StoredKeeps
  <1>3. ASSUME NEW reply \in RpcReplies(HeadBlock),
               Goto("boundary", [local EXCEPT !.resolver.head = RpcResult(reply),
                                              !.resolver.cache = RpcResult(reply)])
        PROVE  SearchInv'
    <2>1. RpcResult(reply) \subseteq {BlockOf(input.chain, Len(input.chain) - 1)}
      BY Reply, BlockIs DEF HeadBlock
    <2>2. RpcResult(reply) \subseteq BlocksOf(input.chain)
      BY <2>1, <1>1 DEF BlocksOf, Numbers, Chain
    <2> DEFINE S == RpcResult(reply)
    <2> HIDE DEF S
    <2>3. /\ DOMAIN local' = DOMAIN local /\ local'.window = local.window
          /\ local'.indexes = local.indexes
          /\ DOMAIN local'.resolver = DOMAIN local.resolver
          /\ local'.resolver.head = S /\ local'.resolver.cache = S
          /\ pc' = "boundary"
      BY <1>1, <1>3, Zenon DEF Goto, Searching, S
    <2>4. Searching(input.chain, local', "boundary")
      BY <1>1, <2>1, <2>2, <2>3 DEF Searching, S
    <2> QED BY <1>1, <2>3, <2>4, Onward DEF Steps
  <1> QED BY <1>2, <1>3, Zenon DEF ReadHead, AaveFailed

(* The search ends with the block of the boundary.                         *)
LEMMA ResolvedKeeps ==
    ASSUME SearchInv, NEW step \in {"boundary", "probe"}, Searching(input.chain, local, step),
           input' = input, NEW a \in Numbers(input.chain), AtOrBefore(input.chain, a, Target),
           Resolved(BlockOf(input.chain, a))
    PROVE  SearchInv'
  <1> DEFINE B == BlockOf(input.chain, a)
  <1> HIDE DEF B
  <1>1. Target = Boundary(local.window, Len(local.indexes) + 1)
    BY TargetIs
  <1>2. /\ DOMAIN local' = DOMAIN local /\ local'.window = local.window
        /\ local'.indexes = local.indexes
        /\ DOMAIN local'.resolver = DOMAIN local.resolver
        /\ local'.resolver.head = local.resolver.head
        /\ local'.resolver.cache = local.resolver.cache
        /\ local'.resolver.low = {B}
        /\ pc' = "index"
    BY Zenon DEF Resolved, Goto, Searching, B
  <1>3. Searching(input.chain, local', "index")
    BY <1>1, <1>2 DEF Searching, B
  <1> QED BY <1>2, <1>3, Onward DEF Steps

(* A readable block is the one that was asked for.                         *)
LEMMA BlockReply ==
    ASSUME NEW block, NEW reply \in BlockReplies(block)
    PROVE  RpcResult(reply) \subseteq {block}
  <1>1. reply \in RpcReplies(block)
    BY DEF BlockReplies, RpcReplies
  <1> QED BY <1>1, Reply

(* at_or_before: a boundary later than the chain takes the head, an        *)
(* earlier one opens a bracket around it.                                  *)
LEMMA OpenKeeps ==
    ASSUME SearchInv, OpenBracket
    PROVE  SearchInv'
  <1> DEFINE c == input.chain
  <1>1. Searching(c, local, "boundary") /\ input' = input /\ Chain(c)
    BY Searches DEF OpenBracket
  <1> DEFINE resolver == local.resolver
  <1> DEFINE cached == [resolver EXCEPT !.cache = @ \union {Block(0)}]
  <1> DEFINE bracket == Bracket(cached, Target, Block(0))
  <1>2. /\ resolver.head = {BlockOf(c, Len(c) - 1)} /\ resolver.cache \subseteq BlocksOf(c)
        /\ DOMAIN resolver = {"head", "cache", "low", "high"}
        /\ DOMAIN local = {"window", "prices", "indexes", "resolver", "run"}
    BY <1>1 DEF Searching, OpenBracket
  <1>3. Target = Boundary(local.window, Len(local.indexes) + 1) /\ Target \in Int
    BY <1>1, TargetIs
  <1>4. 0 \in Numbers(c) /\ Len(c) - 1 \in Numbers(c) /\ Len(c) \in Nat /\ c[1] \in Nat
    BY <1>1 DEF Chain, Numbers
  <1>5. CASE \E run : StoreRun(run)
    BY <1>1, <1>5, StoredKeeps
  <1>6. CASE Target >= HeadBlock.epoch_seconds /\ Resolved(HeadBlock)
    <2>1. HeadBlock = BlockOf(c, Len(c) - 1)
      BY BlockIs DEF HeadBlock
    <2>2. AtOrBefore(c, Len(c) - 1, Target)
      BY <2>1, <1>6, <1>4, <1>3 DEF AtOrBefore, BlockOf
    <2> QED BY <1>1, <1>4, <1>6, <2>1, <2>2, ResolvedKeeps
  <1>7. ASSUME ~ (Target >= HeadBlock.epoch_seconds), ~ (Target < Block(0).epoch_seconds),
               Goto("probe", [local EXCEPT !.resolver =
                       [cached EXCEPT !.low = {bracket.low}, !.high = {bracket.high}]])
        PROVE  SearchInv'
    <2>1. HeadBlock.epoch_seconds = c[Len(c)] /\ Block(0).epoch_seconds = c[1]
      BY <1>4 DEF HeadBlock, Block
    <2>2. c[Len(c)] \in Nat
      BY <1>1, <1>4 DEF Chain
    <2>3. Target < c[Len(c)] /\ c[1] <= Target
      BY <2>1, <2>2, <1>3, <1>4, <1>7
    <2>4. /\ cached.head = resolver.head /\ cached.cache \subseteq BlocksOf(c)
          /\ DOMAIN cached = DOMAIN resolver
      BY <1>2, <1>4, BlockIs DEF BlocksOf
    <2> HIDE DEF cached
    <2>5. PICK a \in Numbers(c), b \in Numbers(c) :
             /\ Bracket(cached, Target, BlockOf(c, 0)) = [low |-> BlockOf(c, a), high |-> BlockOf(c, b)]
             /\ c[a + 1] <= Target /\ Target < c[b + 1]
      <3> HIDE DEF c, resolver
      <3> QED BY <1>1, <1>2, <1>3, <2>3, <2>4, Opened, Zenon
    <2>6. bracket.low = BlockOf(c, a) /\ bracket.high = BlockOf(c, b)
      BY <2>5, BlockIs
    <2> DEFINE A == BlockOf(c, a)
    <2> DEFINE B == BlockOf(c, b)
    <2> HIDE DEF bracket, A, B
    <2>7. /\ DOMAIN local' = DOMAIN local /\ local'.window = local.window
          /\ local'.indexes = local.indexes
          /\ DOMAIN local'.resolver = DOMAIN resolver
          /\ local'.resolver.head = resolver.head
          /\ local'.resolver.cache = cached.cache
          /\ local'.resolver.low = {A} /\ local'.resolver.high = {B}
          /\ pc' = "probe"
      BY <1>2, <1>7, <2>4, <2>6, Zenon DEF Goto, A, B
    <2>8. Searching(c, local', "probe")
      BY <1>1, <1>3, <2>4, <2>5, <2>7 DEF Searching, A, B
    <2> QED BY <1>1, <2>7, <2>8, Onward DEF Steps
  <1>8. \A head \in resolver.head : head = HeadBlock
    BY <1>2, BlockIs DEF HeadBlock
  <1>9. \/ \E run : StoreRun(run)
        \/ Target >= HeadBlock.epoch_seconds /\ Resolved(HeadBlock)
        \/ /\ ~ (Target >= HeadBlock.epoch_seconds) /\ ~ (Target < Block(0).epoch_seconds)
           /\ Goto("probe", [local EXCEPT !.resolver =
                       [cached EXCEPT !.low = {bracket.low}, !.high = {bracket.high}]])
    BY <1>2, <1>8 DEF OpenBracket, AaveFailed
  <1> HIDE DEF cached, bracket
  <1> QED BY <1>5, <1>6, <1>7, <1>9

(* The probed block replaces the side of the bracket it falls on, and      *)
(* neighbours end the search.                                              *)
LEMMA ProbeKeeps ==
    ASSUME SearchInv, ProbeBlock
    PROVE  SearchInv'
  <1> DEFINE c == input.chain
  <1>1. Searching(c, local, "probe") /\ input' = input /\ Chain(c)
    BY Searches, Zenon DEF ProbeBlock
  <1> DEFINE resolver == local.resolver
  <1>2. /\ resolver.cache \subseteq BlocksOf(c)
        /\ DOMAIN resolver = {"head", "cache", "low", "high"}
        /\ DOMAIN local = {"window", "prices", "indexes", "resolver", "run"}
    BY <1>1 DEF Searching
  <1>3. Target = Boundary(local.window, Len(local.indexes) + 1) /\ Target \in Int
    BY <1>1, TargetIs
  <1>4. PICK a \in Numbers(c), b \in Numbers(c) :
          /\ resolver.low = {BlockOf(c, a)} /\ resolver.high = {BlockOf(c, b)}
          /\ c[a + 1] <= Target /\ Target < c[b + 1]
    BY <1>1, <1>3 DEF Searching
  <1> DEFINE low == CHOOSE x \in resolver.low : TRUE
  <1> DEFINE high == CHOOSE x \in resolver.high : TRUE
  <1>5. low = BlockOf(c, a) /\ high = BlockOf(c, b) /\ low.number = a /\ high.number = b
    BY <1>4 DEF BlockOf
  <1> DEFINE n == InterpolatedBlockNumber(Target, low, high)
  <1> DEFINE middle == Block(n)
  <1> DEFINE left == [resolver EXCEPT !.cache = @ \union {middle}, !.low = {middle}]
  <1> DEFINE right == [resolver EXCEPT !.cache = @ \union {middle}, !.high = {middle}]
  <1> DEFINE next == IF middle.epoch_seconds <= Target THEN left ELSE right
  <1>6. CASE \E run : StoreRun(run)
    BY <1>1, <1>6, StoredKeeps
  <1>7. CASE low.number + 1 >= high.number /\ Resolved(low)
    <2>1. AtOrBefore(c, a, Target)
      BY <1>1, <1>3, <1>4, <1>5, <1>7, Adjacent
    <2> QED BY <2>1, <1>1, <1>5, <1>7, ResolvedKeeps, Zenon
  <1>8. ASSUME ~ (low.number + 1 >= high.number),
               Goto("probe", [local EXCEPT !.resolver = next])
        PROVE  SearchInv'
    <2>1. a \in Nat /\ b \in Nat /\ a + 1 < b
      BY <1>1, <1>4, <1>5, <1>8, Times
    <2>2. n \in (a + 1) .. (b - 1)
      BY <2>1, <1>1, <1>3, <1>4, <1>5, Between
    <2> HIDE DEF n, low, high
    <2>3. n \in Numbers(c)
      BY <2>1, <2>2 DEF Numbers
    <2>4. middle = BlockOf(c, n) /\ middle \in BlocksOf(c) /\ middle.epoch_seconds = c[n + 1]
      BY <2>3, BlockIs DEF BlocksOf, BlockOf
    <2>5. c[n + 1] \in Nat
      BY <1>1, <2>3, Times
    <2> HIDE DEF middle
    <2>10. /\ DOMAIN left = DOMAIN resolver /\ left.head = resolver.head
           /\ left.cache = resolver.cache \union {middle}
           /\ left.low = {middle} /\ left.high = resolver.high
      BY <1>2
    <2>11. /\ DOMAIN right = DOMAIN resolver /\ right.head = resolver.head
           /\ right.cache = resolver.cache \union {middle}
           /\ right.low = resolver.low /\ right.high = {middle}
      BY <1>2
    <2> HIDE DEF left, right
    <2>12. next = IF c[n + 1] <= Target THEN left ELSE right
      BY <2>4
    <2> HIDE DEF next
    <2>6. /\ DOMAIN local' = DOMAIN local /\ local'.window = local.window
          /\ local'.indexes = local.indexes
          /\ local'.resolver = next
          /\ pc' = "probe"
      BY <1>2, <1>8 DEF Goto
    <2>7. /\ DOMAIN local'.resolver = DOMAIN resolver
          /\ local'.resolver.head = resolver.head
          /\ local'.resolver.cache = resolver.cache \union {middle}
          /\ IF c[n + 1] <= Target
             THEN local'.resolver.low = {middle} /\ local'.resolver.high = resolver.high
             ELSE local'.resolver.low = resolver.low /\ local'.resolver.high = {middle}
      BY <2>6, <2>10, <2>11, <2>12
    <2>8. \E x, y \in Numbers(c) :
             /\ local'.resolver.low = {BlockOf(c, x)} /\ local'.resolver.high = {BlockOf(c, y)}
             /\ c[x + 1] <= Target /\ Target < c[y + 1]
      <3>1. CASE c[n + 1] <= Target
        BY <3>1, <2>3, <2>4, <2>7, <1>4
      <3>2. CASE ~ (c[n + 1] <= Target)
        <4>1. Target < c[n + 1]
          BY <3>2, <2>5, <1>3
        <4> QED BY <3>2, <4>1, <2>3, <2>4, <2>7, <1>4
      <3> QED BY <3>1, <3>2
    <2>9. Searching(c, local', "probe")
      BY <1>1, <1>2, <1>3, <2>4, <2>6, <2>7, <2>8 DEF Searching
    <2> QED BY <1>1, <2>6, <2>9, Onward DEF Steps
  <1>9. \/ \E run : StoreRun(run)
        \/ low.number + 1 >= high.number /\ Resolved(low)
        \/ /\ ~ (low.number + 1 >= high.number)
           /\ Goto("probe", [local EXCEPT !.resolver = next])
    BY Zenon DEF ProbeBlock, AaveFailed
  <1> HIDE DEF low, high, next
  <1> QED BY <1>6, <1>7, <1>8, <1>9

(* The index read at the block of the boundary joins the evidence.         *)
LEMMA IndexKeeps ==
    ASSUME SearchInv, ReadIndex
    PROVE  SearchInv'
  <1> DEFINE c == input.chain
  <1>1. Searching(c, local, "index") /\ input' = input /\ Chain(c)
    BY Searches DEF ReadIndex
  <1>2. /\ DOMAIN local = {"window", "prices", "indexes", "resolver", "run"}
        /\ local.indexes \in Seq(Evidence(c)) /\ Len(local.indexes) <= local.window.days
        /\ local.window.days \in Nat
    BY <1>1 DEF Searching
  <1>3. Target = Boundary(local.window, Len(local.indexes) + 1) /\ Target \in Int
    BY <1>1, TargetIs
  <1>4. PICK a \in Numbers(c) : local.resolver.low = {BlockOf(c, a)} /\ AtOrBefore(c, a, Target)
    BY <1>1, <1>3 DEF Searching
  <1> DEFINE block == CHOOSE b \in local.resolver.low : TRUE
  <1>5. block = BlockOf(c, a) /\ block.number = a
    BY <1>4 DEF BlockOf
  <1>6. CASE \E run : StoreRun(run)
    BY <1>1, <1>6, StoredKeeps
  <1>7. ASSUME NEW step, step = IF Len(local.indexes) = local.window.days THEN "simulate" ELSE "boundary",
               NEW index, index = IncomeIndex(a),
               Goto(step, [local EXCEPT !.indexes =
                             Append(@, [block |-> block, income_index |-> index])])
        PROVE  SearchInv'
    <2> DEFINE e == [block |-> block, income_index |-> index]
    <2>1. e \in Evidence(c) /\ e.block.number = a
      BY <1>5, <1>7, Zenon DEF Evidence
    <2> HIDE DEF e, block
    <2>2. /\ DOMAIN local' = DOMAIN local /\ local'.window = local.window
          /\ local'.resolver = local.resolver
          /\ local'.indexes = Append(local.indexes, e) /\ pc' = step
      BY <1>2, <1>7 DEF Goto, e
    <2> DEFINE s == local.indexes
    <2> DEFINE s2 == Append(s, e)
    <2>3. /\ s2 \in Seq(Evidence(c)) /\ Len(s2) = Len(s) + 1 /\ Len(s) \in Nat
          /\ DOMAIN s2 = 1 .. (Len(s) + 1) /\ DOMAIN s = 1 .. Len(s)
          /\ s2[Len(s) + 1] = e
          /\ \A i \in 1 .. Len(s) : s2[i] = s[i]
      BY <1>2, <2>1
    <2> HIDE DEF s2
    <2>4. \A i \in DOMAIN s2 :
            /\ i <= local.window.days + 1
            /\ AtOrBefore(c, s2[i].block.number, Boundary(local.window, i))
      <3> SUFFICES ASSUME NEW i \in DOMAIN s2
                   PROVE  /\ i <= local.window.days + 1
                          /\ AtOrBefore(c, s2[i].block.number, Boundary(local.window, i))
        OBVIOUS
      <3>1. CASE i \in 1 .. Len(s)
        BY <3>1, <2>3, <1>1 DEF Searching
      <3>2. CASE i = Len(s) + 1
        BY <3>2, <2>1, <2>3, <1>2, <1>3, <1>4
      <3> QED BY <3>1, <3>2, <2>3
    <2>5. step \in {"simulate", "boundary"} /\ (step = "boundary" => Len(s2) <= local.window.days)
      BY <1>2, <1>7, <2>3
    <2>6. Searching(c, local', step)
      <3>1. local'.indexes = s2
        BY <2>2 DEF s2
      <3> QED BY <3>1, <1>1, <2>2, <2>3, <2>4, <2>5 DEF Searching
    <2> QED BY <1>1, <2>2, <2>5, <2>6, Onward DEF Steps
  <1>8. \/ \E run : StoreRun(run)
        \/ \E index : /\ index = IncomeIndex(a)
             /\ Goto(IF Len(local.indexes) = local.window.days THEN "simulate" ELSE "boundary",
                     [local EXCEPT !.indexes = Append(@, [block |-> block, income_index |-> index])])
    BY <1>5, IndexReply, Zenon DEF ReadIndex, AaveFailed
  <1> HIDE DEF block
  <1> QED BY <1>6, <1>7, <1>8, Zenon

(* The last two steps leave the evidence alone.                            *)
LEMMA SimulateKeeps ==
    ASSUME SearchInv, Simulate
    PROVE  SearchInv'
  <1>1. Searching(input.chain, local, "simulate") /\ input' = input
    BY Searches, Zenon DEF Simulate
  <1>2. \E run : StoreRun(run)
    BY Zenon DEF Simulate
  <1> QED BY <1>1, <1>2, StoredKeeps

LEMMA CreateKeeps ==
    ASSUME SearchInv, CreateRun
    PROVE  SearchInv'
  <1>1. Searching(input.chain, local, "store") /\ input' = input
    BY Searches DEF CreateRun
  <1>2. local' = local /\ pc' = "answered"
    BY DEF CreateRun, LabAnswer, Respond
  <1>3. Searching(input.chain, local, "answered")
    BY <1>1 DEF Searching
  <1> QED BY <1>1, <1>2, <1>3, Onward DEF Steps

(* A step of a simulation, and only of one.                                *)
LEMMA SimulationFrame ==
    ASSUME SimulationNext
    PROVE  input.handler = "simulation" /\ input' = input /\ grants' = grants
  BY Zenon DEF SimulationNext, SubmitSimulation, LoadPrices, FindAaveProtocol, ReadHead,
         OpenBracket, ProbeBlock, ReadIndex, Simulate, CreateRun, At

(* Every step of the search keeps the invariant.                           *)
LEMMA SimulationKeeps ==
    ASSUME SearchInv, SimulationNext
    PROVE  SearchInv'
  BY SubmitKeeps, PricesKeep, ProtocolKeeps, HeadKeeps, OpenKeeps, ProbeKeeps,
     IndexKeeps, SimulateKeeps, CreateKeeps DEF SimulationNext

(* So do the steps of others: another handler, and what happens before the *)
(* handler starts.                                                         *)
LEMMA SearchOthers ==
    ASSUME SearchInv, input' = input,
           \/ input.handler # "simulation"
           \/ local' = local /\ pc' = pc
           \/ Boot
    PROVE  SearchInv'
  <1>1. CASE input.handler # "simulation"
    BY <1>1 DEF SearchInv
  <1>2. CASE local' = local /\ pc' = pc
    BY <1>2 DEF SearchInv
  <1>3. CASE Boot
    <2>1. pc = "boot" /\ local' = local /\ pc' \in {"parse", "refused"}
      BY <1>3 DEF Boot
    <2> QED BY <2>1 DEF SearchInv
  <1> QED BY <1>1, <1>2, <1>3

(* The block kept for a boundary is the last one not after it.             *)
LEMMA BlocksFound ==
    ASSUME SearchInv, input.handler = "simulation", local # <<>>,
           NEW i \in DOMAIN local.indexes,
           NEW n, n = local.indexes[i].block.number,
           NEW t, t = Boundaries(local.window)[i] * 86400
    PROVE  /\ Block(n).epoch_seconds <= t
           /\ n + 1 < Len(input.chain) => Block(n + 1).epoch_seconds > t
  <1>1. PICK p : Searching(input.chain, local, p)
    BY DEF SearchInv
  <1>2. /\ AtOrBefore(input.chain, n, Boundary(local.window, i))
        /\ local.window.days \in Nat /\ local.window.start_day \in Int
        /\ i <= local.window.days + 1 /\ local.indexes \in Seq(Evidence(input.chain))
    BY <1>1 DEF Searching
  <1>3. i \in 1 .. (local.window.days + 1)
    BY <1>2
  <1>4. t = Boundary(local.window, i)
    BY <1>2, <1>3, BoundaryIs
  <1>5. local.indexes[i] \in Evidence(input.chain)
    BY <1>2
  <1>6. n \in Numbers(input.chain)
    BY <1>5 DEF Evidence, BlockOf
  <1>7. n + 2 = (n + 1) + 1
    BY <1>6 DEF Numbers
  <1> QED BY <1>2, <1>4, <1>7 DEF AtOrBefore, Block

(* A search under way has its boundary inside the bracket, and probes      *)
(* strictly inside it.                                                     *)
LEMMA ProbesInside ==
    ASSUME SearchInv, input.handler = "simulation", local # <<>>, pc = "probe",
           NEW low \in local.resolver.low, NEW high \in local.resolver.high
    PROVE  /\ low.epoch_seconds <= Target /\ Target < high.epoch_seconds
           /\ low.number + 1 < high.number =>
                InterpolatedBlockNumber(Target, low, high)
                  \in (low.number + 1) .. (high.number - 1)
  <1> DEFINE c == input.chain
  <1>1. Searching(c, local, "probe") /\ Chain(c)
    BY Searches DEF At
  <1>2. Target = Boundary(local.window, Len(local.indexes) + 1) /\ Target \in Int
    BY <1>1, TargetIs
  <1>3. PICK a \in Numbers(c), b \in Numbers(c) :
          /\ local.resolver.low = {BlockOf(c, a)} /\ local.resolver.high = {BlockOf(c, b)}
          /\ c[a + 1] <= Target /\ Target < c[b + 1]
    BY <1>1, <1>2 DEF Searching
  <1>4. low = BlockOf(c, a) /\ high = BlockOf(c, b)
    BY <1>3
  <1>5. /\ low.number = a /\ low.epoch_seconds = c[a + 1]
        /\ high.number = b /\ high.epoch_seconds = c[b + 1]
    BY <1>4 DEF BlockOf
  <1>6. ASSUME a + 1 < b
        PROVE  InterpolatedBlockNumber(Target, low, high) \in (a + 1) .. (b - 1)
    BY <1>1, <1>2, <1>3, <1>4, <1>6, Between
  <1> QED BY <1>3, <1>5, <1>6

(* The invariant of the search gives BlocksAtOrBefore.                     *)
LEMMA BlocksTold == SearchInv => BlocksAtOrBefore
  BY BlocksFound, ProbesInside DEF BlocksAtOrBefore

(***************************************************************************)
(* RealizedYield.                                                          *)
(***************************************************************************)

(* materialize_protocol: the reserve of an asset is the active deployment  *)
(* of that asset on the protocol's network.                                *)
LEMMA Reserve ==
    ASSUME NEW catalog, NEW d, NEW p \in MaterializeProtocol(catalog, d), NEW asset,
           ReserveOf(p, asset) # {}
    PROVE  \E m \in ToSet(catalog.maps) :
             /\ m.asset_slug = asset /\ m.status = "active"
             /\ m.network_slug = d.network_slug
             /\ {r.address : r \in ReserveOf(p, asset)} = m.deployment_address
  <1> DEFINE reserves == {t \in ToSet(d.targets) : t.kind = "reserve"}
  <1>1. /\ Distinct(d.targets, LAMBDA t : t.key)
        /\ \A t \in ToSet(d.targets) : ValidTarget(catalog, d.network_slug, t)
        /\ p.reserves = {[asset_slug |-> r.key, address |-> r.address] : r \in reserves}
    BY DEF MaterializeProtocol
  <1>2. PICK r \in ReserveOf(p, asset) : TRUE
    OBVIOUS
  <1>3. PICK t \in reserves : r = [asset_slug |-> t.key, address |-> t.address]
    BY <1>1, <1>2 DEF ReserveOf
  <1>4. t.key = asset
    BY <1>2, <1>3 DEF ReserveOf
  <1>5. \A u, v \in ToSet(d.targets) : u.key = v.key => u = v
    BY <1>1 DEF Distinct, ToSet
  <1>6. \A q \in ReserveOf(p, asset) : q.address = t.address
    <2> SUFFICES ASSUME NEW q \in ReserveOf(p, asset) PROVE q.address = t.address
      OBVIOUS
    <2>1. PICK u \in reserves : q = [asset_slug |-> u.key, address |-> u.address]
      BY <1>1 DEF ReserveOf
    <2>2. u.key = asset
      BY <2>1 DEF ReserveOf
    <2> QED BY <2>1, <2>2, <1>3, <1>4, <1>5
  <1>7. {q.address : q \in ReserveOf(p, asset)} = {t.address}
    BY <1>2, <1>6
  <1>8. PICK m \in Active(Mapping(catalog, asset, d.network_slug)) :
           m.deployment_address = {t.address}
    BY <1>1, <1>3, <1>4 DEF ValidTarget
  <1>9. /\ m \in ToSet(catalog.maps) /\ m.asset_slug = asset
        /\ m.network_slug = d.network_slug /\ m.status = "active"
    BY <1>8 DEF Active, IsActive, Mapping, Indexed, ToSet
  <1> QED BY <1>7, <1>8, <1>9

(* Blocks up to the last final one are in the chain.                       *)
LEMMA Inside ==
    ASSUME NEW m \in Nat, NEW n \in Nat, NEW f \in Nat, NEW t \in Nat,
           0 < f, f < t, t + m < n
    PROVE  f + 1 \in 1..n /\ t + 1 \in 1..n
  OBVIOUS

(* The study ends at a final block.                                        *)
Final == local.to <= LatestFinal(Len(input.chain) - 1)

(* The indexes are those of the two blocks, of a reserve of the protocol.  *)
Indexes ==
    /\ local.indexes = <<IncomeIndex(local.from), IncomeIndex(local.to)>>
    /\ ReserveOf(CHOOSE p \in YieldProtocol : TRUE, input.request.asset_slug) # {}

(* The times of the two blocks, or none when one could not be read.        *)
StudyTimes == {<<>>, <<input.chain[local.from + 1], input.chain[local.to + 1]>>}

(* What a study holds at each step, and what it answered.                  *)
Studying ==
    /\ input.request.from_block = {local.from} /\ input.request.to_block = {local.to}
    /\ DOMAIN local = {"from", "to", "indexes"}
    /\ local.from \in Nat /\ local.to \in Nat /\ 0 < local.from /\ local.from < local.to
    /\ YieldProtocol # {}
    /\ pc \in {"indexes", "times"} => Final
    /\ pc = "times" => Indexes
    /\ pc # "answered" => answer.body = {}
    /\ answer.body # {} => Final /\ Indexes
    /\ \A body \in answer.body : \E times \in StudyTimes : body = YieldResult(times)

(* The inductive invariant of a study.                                     *)
YieldInv ==
    /\ input \in Inputs
    /\ input.handler = "yield" =>
         \/ /\ local = <<>> /\ pc \in {"boot", "refused", "parse", "answered"}
            /\ answer.body = {}
         \/ pc \in {"head", "indexes", "times", "answered"} /\ Studying

(* A failure answers without a result.                                     *)
LEMMA Failed ==
    ASSUME YieldInv, input' = input, input.handler = "yield", pc # "answered",
           NEW status, NEW error, LabAnswer(status, error)
    PROVE  YieldInv'
  <1>1. /\ local' = local /\ pc' = "answered" /\ answer'.body = {}
    BY DEF LabAnswer
  <1>2. CASE local = <<>>
    BY <1>1, <1>2 DEF YieldInv
  <1>3. CASE Studying
    <2>1. Studying'
      BY <1>1, <1>3 DEF Studying, YieldProtocol
    <2> QED BY <1>1, <2>1 DEF YieldInv
  <1> QED BY <1>2, <1>3 DEF YieldInv

(* Each failure of a study is such an answer.                              *)
LEMMA FailureIs ==
    ASSUME NEW e, YieldFailure(e), e \in {"protocol_unavailable", "invalid_block_range",
                                          "block_not_final", "unsupported_asset",
                                          "provider", "invalid_response"}
    PROVE  \E status, error : LabAnswer(status, error)
  BY DEF YieldFailure

(* submit_realized_yield: a study has two blocks in order, and a protocol. *)
LEMMA SubmitYieldKeeps ==
    ASSUME YieldInv, SubmitYield
    PROVE  YieldInv'
  <1> DEFINE r == input.request
  <1>1. input \in Inputs /\ input.handler = "yield" /\ pc = "parse" /\ input' = input
    BY DEF SubmitYield, At, YieldInv
  <1>2. local = <<>> /\ answer.body = {}
    BY <1>1 DEF YieldInv
  <1>3. CASE \E status, error : LabAnswer(status, error)
    BY <1>1, <1>3, Failed
  <1>4. ASSUME ~ (r.from_block = {} \/ r.to_block = {}), YieldProtocol # {},
               ~ (\E from \in r.from_block, to \in r.to_block :
                         from = 0 \/ to = 0 \/ from >= to),
               Goto("head", [from |-> CHOOSE b \in r.from_block : TRUE,
                             to |-> CHOOSE b \in r.to_block : TRUE,
                             indexes |-> <<>>])
        PROVE  YieldInv'
    <2>1. PICK from \in r.from_block, to \in r.to_block :
             /\ local' = [from |-> from, to |-> to, indexes |-> <<>>]
             /\ pc' = "head" /\ answer' = answer
      BY <1>4, Zenon DEF Goto
    <2>2. r.from_block = {from} /\ r.to_block = {to} /\ from \in Nat /\ to \in Nat
      BY <1>1, StudyAssumption
    <2>3. 0 < from /\ from < to
      BY <1>4, <2>2
    <2>4. Studying'
      BY <1>1, <1>2, <1>4, <2>1, <2>2, <2>3 DEF Studying, YieldProtocol
    <2> QED BY <1>1, <2>1, <2>4 DEF YieldInv
  <1>5. \/ \E status, error : LabAnswer(status, error)
        \/ /\ ~ (r.from_block = {} \/ r.to_block = {}) /\ YieldProtocol # {}
           /\ ~ (\E from \in r.from_block, to \in r.to_block :
                         from = 0 \/ to = 0 \/ from >= to)
           /\ Goto("head", [from |-> CHOOSE b \in r.from_block : TRUE,
                             to |-> CHOOSE b \in r.to_block : TRUE,
                             indexes |-> <<>>])
    <2>1. CASE LabRefusal
      BY <2>1 DEF LabRefusal
    <2>2. CASE ~ LabRefusal
      BY <2>2, FailureIs DEF SubmitYield
    <2> QED BY <2>1, <2>2
  <1> QED BY <1>3, <1>4, <1>5

(* What holds at a step of a study.                                        *)
LEMMA Studies ==
    ASSUME YieldInv, NEW step, At("yield", step), step \in {"head", "indexes", "times"}
    PROVE  /\ Studying /\ input \in Inputs /\ input.handler = "yield" /\ pc = step
           /\ answer.body = {}
  BY DEF YieldInv, At, Studying

(* The study goes on only when its last block is final.                    *)
LEMMA FinalityKeeps ==
    ASSUME YieldInv, CheckFinality
    PROVE  YieldInv'
  <1>1. /\ Studying /\ input \in Inputs /\ input.handler = "yield" /\ pc = "head"
        /\ input' = input /\ answer.body = {}
    BY Studies DEF CheckFinality
  <1>2. CASE \E status, error : LabAnswer(status, error)
    BY <1>1, <1>2, Failed
  <1>3. ASSUME ~ (local.to > LatestFinal(HeadBlock.number)), Goto("indexes", local)
        PROVE  YieldInv'
    <2>1. HeadBlock.number = Len(input.chain) - 1
      BY DEF HeadBlock, Block
    <2>2. Len(input.chain) \in Nat /\ MIN_CONFIRMATIONS \in Nat
      BY <1>1, ChainAssumption, StudyAssumption
    <2>3. LatestFinal(Len(input.chain) - 1) \in Int
      BY <2>2 DEF LatestFinal
    <2>4. Final
      BY <2>1, <2>3, <1>1, <1>3 DEF Final, Studying
    <2>5. local' = local /\ pc' = "indexes" /\ answer' = answer
      BY <1>3 DEF Goto
    <2>6. Studying'
      BY <1>1, <2>4, <2>5 DEF Studying, YieldProtocol, Final
    <2> QED BY <1>1, <2>5, <2>6 DEF YieldInv
  <1>4. \/ \E status, error : LabAnswer(status, error)
        \/ ~ (local.to > LatestFinal(HeadBlock.number)) /\ Goto("indexes", local)
    BY FailureIs DEF CheckFinality
  <1> QED BY <1>2, <1>3, <1>4

(* Both indexes are read, each at its block, or the study fails.           *)
LEMMA IndexesKeep ==
    ASSUME YieldInv, ReadIndexes
    PROVE  YieldInv'
  <1> DEFINE protocol == CHOOSE p \in YieldProtocol : TRUE
  <1> DEFINE asset == input.request.asset_slug
  <1>1. /\ Studying /\ input \in Inputs /\ input.handler = "yield" /\ pc = "indexes"
        /\ input' = input /\ answer.body = {}
    BY Studies DEF ReadIndexes
  <1>2. CASE \E status, error : LabAnswer(status, error)
    BY <1>1, <1>2, Failed
  <1>3. ASSUME ReserveOf(protocol, asset) # {}, NEW x, NEW y,
               x = IncomeIndex(local.from), y = IncomeIndex(local.to),
               Goto("times", [local EXCEPT !.indexes = <<x, y>>])
        PROVE  YieldInv'
    <2>1. /\ local'.from = local.from /\ local'.to = local.to /\ local'.indexes = <<x, y>>
          /\ DOMAIN local' = DOMAIN local
          /\ pc' = "times" /\ answer' = answer
      BY <1>1, <1>3 DEF Goto, Studying
    <2>2. Final'
      BY <1>1, <2>1 DEF Studying, Final
    <2>3. Indexes'
      BY <1>1, <1>3, <2>1 DEF Indexes, YieldProtocol
    <2>4. Studying'
      BY <1>1, <2>1, <2>2, <2>3 DEF Studying, YieldProtocol
    <2> QED BY <1>1, <2>1, <2>4 DEF YieldInv
  <1>4. \/ \E status, error : LabAnswer(status, error)
        \/ /\ ReserveOf(protocol, asset) # {}
           /\ \E x, y : /\ x = IncomeIndex(local.from) /\ y = IncomeIndex(local.to)
                        /\ Goto("times", [local EXCEPT !.indexes = <<x, y>>])
    <2>1. CASE \E e : YieldFailure(e) /\ e \in {"unsupported_asset", "invalid_response"}
      BY <2>1, FailureIs
    <2>2. CASE ~ \E e : YieldFailure(e) /\ e \in {"unsupported_asset", "invalid_response"}
      <3>1. PICK from \in IndexReplies(local.from), to \in IndexReplies(local.to) :
               /\ ReserveOf(protocol, asset) # {}
               /\ IncomeIndexAt(protocol, asset, local.from, from) # {}
               /\ IncomeIndexAt(protocol, asset, local.to, to) # {}
               /\ Goto("times", [local EXCEPT !.indexes =
                        <<CHOOSE i \in IncomeIndexAt(protocol, asset, local.from, from) : TRUE,
                          CHOOSE i \in IncomeIndexAt(protocol, asset, local.to, to) : TRUE>>])
        BY <2>2, Zenon DEF ReadIndexes
      <3> DEFINE f == IncomeIndexAt(protocol, asset, local.from, from)
      <3> DEFINE t == IncomeIndexAt(protocol, asset, local.to, to)
      <3>2. PICK x \in f : x = CHOOSE i \in f : TRUE
        BY <3>1
      <3>3. PICK y \in t : y = CHOOSE i \in t : TRUE
        BY <3>1
      <3>4. x = IncomeIndex(local.from) /\ y = IncomeIndex(local.to)
        BY IndexReply
      <3> QED BY <3>1, <3>2, <3>3, <3>4, Zenon
    <2> QED BY <2>1, <2>2, Zenon
  <1> HIDE DEF protocol, asset
  <1> QED BY <1>2, <1>3, <1>4, Zenon

(* The result is answered whether or not the times were read.              *)
LEMMA TimesKeep ==
    ASSUME YieldInv, ReadTimes
    PROVE  YieldInv'
  <1>1. /\ Studying /\ input \in Inputs /\ input.handler = "yield" /\ pc = "times"
        /\ input' = input /\ local' = local /\ answer.body = {}
    BY Studies DEF ReadTimes
  <1>2. PICK times \in StudyTimes : Respond(YieldResult(times))
    BY DEF ReadTimes, StudyTimes, Block
  <1>3. answer'.body = {YieldResult(times)} /\ pc' = "answered"
    BY <1>2 DEF Respond
  <1>4. Final /\ Indexes
    BY <1>1 DEF Studying
  <1>5. times \in StudyTimes' /\ YieldResult(times)' = YieldResult(times) /\ Final' /\ Indexes'
    BY <1>1, <1>2, <1>4, Zenon DEF StudyTimes, YieldResult, YieldProtocol, Final, Indexes
  <1>6. Studying'
    BY <1>1, <1>3, <1>5 DEF Studying, YieldProtocol
  <1> QED BY <1>1, <1>3, <1>6 DEF YieldInv

(* What the study answers is what YieldOfFinalBlocks says.                 *)
LEMMA YieldTold ==
    YieldInv => YieldOfFinalBlocks
  <1> SUFFICES ASSUME YieldInv, input.handler = "yield", NEW body \in answer.body,
                      NEW from \in input.request.from_block, NEW to \in input.request.to_block
               PROVE
          /\ 0 < from /\ from < to /\ to + MIN_CONFIRMATIONS < Len(input.chain)
          /\ \E m \in ToSet(input.catalog.maps) :
               /\ m.asset_slug = input.request.asset_slug /\ m.status = "active"
               /\ body.underlying_asset_address = m.deployment_address
               /\ \E d \in ToSet(input.protocols.protocols) :
                    d.slug = input.request.protocol_slug /\ d.network_slug = m.network_slug
          /\ body.realized_yield = <<IncomeIndex(to) - IncomeIndex(from), IncomeIndex(from)>>
          /\ IncomeIndex(to) < IncomeIndex(from) =>
               "decreasing_income_index" \in body.warnings
          /\ body.annualized => Block(from).epoch_seconds < Block(to).epoch_seconds
          /\ input.request.annualized =>
               body.annualized # ("timestamp_lookup_failed" \in body.warnings)
    BY DEF YieldOfFinalBlocks
  <1>1. Studying /\ input \in Inputs /\ Final /\ Indexes
    BY DEF YieldInv, Studying
  <1>2. from = local.from /\ to = local.to /\ from \in Nat /\ to \in Nat /\ 0 < from /\ from < to
    BY <1>1 DEF Studying
  <1>3. to + MIN_CONFIRMATIONS < Len(input.chain)
    <2>1. Len(input.chain) \in Nat /\ MIN_CONFIRMATIONS \in Nat
      BY <1>1, ChainAssumption, StudyAssumption
    <2> QED BY <2>1, <1>1, <1>2 DEF Final, LatestFinal
  <1>4. PICK times \in StudyTimes : body = YieldResult(times)
    BY <1>1 DEF Studying
  <1> DEFINE protocol == CHOOSE p \in YieldProtocol : TRUE
  <1>5. PICK d \in ToSet(input.protocols.protocols) :
           /\ d.slug = input.request.protocol_slug
           /\ protocol \in MaterializeProtocol(input.catalog, d)
    <2>1. protocol \in YieldProtocol
      BY <1>1 DEF Studying
    <2> HIDE DEF protocol
    <2> QED BY <2>1 DEF YieldProtocol, RealizedYieldProtocol
  <1>6. PICK m \in ToSet(input.catalog.maps) :
           /\ m.asset_slug = input.request.asset_slug /\ m.status = "active"
           /\ m.network_slug = d.network_slug
           /\ {r.address : r \in ReserveOf(protocol, input.request.asset_slug)}
                = m.deployment_address
    <2>1. ReserveOf(protocol, input.request.asset_slug) # {}
      BY <1>1 DEF Indexes
    <2> HIDE DEF protocol
    <2> QED BY <2>1, <1>5, Reserve
  <1>7. body.underlying_asset_address
          = {r.address : r \in ReserveOf(protocol, input.request.asset_slug)}
    BY <1>4 DEF YieldResult
  <1> HIDE DEF protocol
  <1>8. local.indexes[1] = IncomeIndex(from) /\ local.indexes[2] = IncomeIndex(to)
    BY <1>1, <1>2 DEF Indexes
  <1>9. body.realized_yield = <<IncomeIndex(to) - IncomeIndex(from), IncomeIndex(from)>>
    BY <1>4, <1>8 DEF YieldResult
  <1>10. IncomeIndex(to) < IncomeIndex(from) => "decreasing_income_index" \in body.warnings
    BY <1>4, <1>8 DEF YieldResult
  <1> DEFINE elapsed == Len(times) = 2 /\ times[2] > times[1]
  <1>11. body.annualized <=> input.request.annualized /\ elapsed
    BY <1>4, Zenon DEF YieldResult
  <1>12. elapsed => Block(from).epoch_seconds < Block(to).epoch_seconds
    <2>1. /\ input.chain \in Seq(Nat) /\ Len(input.chain) \in Nat
          /\ from + 1 \in 1 .. Len(input.chain) /\ to + 1 \in 1 .. Len(input.chain)
      <3>1. input.chain \in Seq(Nat) /\ MIN_CONFIRMATIONS \in Nat
        BY <1>1, ChainAssumption, StudyAssumption
      <3>2. Len(input.chain) \in Nat
        BY <3>1
      <3>3. from + 1 \in 1 .. Len(input.chain) /\ to + 1 \in 1 .. Len(input.chain)
        BY <1>2, <1>3, <3>1, <3>2, Inside, Zenon
      <3> QED BY <3>1, <3>2, <3>3
    <2>2. input.chain[from + 1] \in Nat /\ input.chain[to + 1] \in Nat
      BY <2>1
    <2>3. CASE times = <<>>
      BY <2>3
    <2>4. CASE times = <<input.chain[from + 1], input.chain[to + 1]>>
      BY <2>2, <2>4 DEF Block
    <2> QED BY <1>2, <1>4, <2>3, <2>4 DEF StudyTimes
  <1>13. input.request.annualized =>
           ("timestamp_lookup_failed" \in body.warnings <=> ~ elapsed)
    <2> HIDE DEF elapsed
    <2>1. body.warnings = (IF local.indexes[2] < local.indexes[1]
                           THEN {"decreasing_income_index"} ELSE {})
                         \union (IF input.request.annualized /\ ~ elapsed
                                 THEN {"timestamp_lookup_failed"} ELSE {})
      BY <1>4 DEF YieldResult, elapsed
    <2> QED BY <2>1
  <1>14. input.request.annualized =>
               body.annualized # ("timestamp_lookup_failed" \in body.warnings)
    <2> HIDE DEF elapsed
    <2> QED BY <1>11, <1>13, Zenon
  <1> HIDE DEF elapsed
  <1> QED BY <1>2, <1>3, <1>5, <1>6, <1>7, <1>9, <1>10, <1>11, <1>12, <1>14

(* A step of a study, and only of one.                                     *)
LEMMA YieldFrame ==
    ASSUME YieldNext
    PROVE  input.handler = "yield" /\ input' = input /\ grants' = grants
  BY DEF YieldNext, SubmitYield, CheckFinality, ReadIndexes, ReadTimes, At

(* Every step of a study keeps the invariant.                              *)
LEMMA YieldKeeps ==
    ASSUME YieldInv, YieldNext
    PROVE  YieldInv'
  BY SubmitYieldKeeps, FinalityKeeps, IndexesKeep, TimesKeep DEF YieldNext

(* So do the steps of others.                                              *)
LEMMA YieldOthers ==
    ASSUME YieldInv, input' = input,
           \/ input.handler # "yield"
           \/ local' = local /\ pc' = pc /\ answer' = answer
           \/ Boot
    PROVE  YieldInv'
  <1>1. CASE input.handler # "yield"
    BY <1>1 DEF YieldInv
  <1>2. CASE local' = local /\ pc' = pc /\ answer' = answer
    <2>1. Final' = Final /\ StudyTimes' = StudyTimes /\ YieldProtocol' = YieldProtocol
      BY <1>2 DEF Final, StudyTimes, YieldProtocol
    <2>2. Indexes' = Indexes /\ \A times : YieldResult(times)' = YieldResult(times)
      BY <1>2, <2>1 DEF Indexes, YieldResult
    <2>3. Studying' = Studying
      BY <1>2, <2>1, <2>2, Zenon DEF Studying
    <2> QED BY <1>2, <2>3 DEF YieldInv
  <1>3. CASE Boot
    <2>1. pc = "boot" /\ local' = local /\ answer' = answer /\ pc' \in {"parse", "refused"}
      BY <1>3 DEF Boot
    <2> QED BY <2>1 DEF YieldInv
  <1> QED BY <1>1, <1>2, <1>3

=============================================================================
