--------------------------- MODULE UsageCounters ---------------------------
(***************************************************************************)
(* What the daily usage counters of one API key promise to whoever reads   *)
(* them: for every UTC date each counter starts at 0 and only ever grows,  *)
(* by one request at a time, and the accepted counter stops at the limit.  *)
(***************************************************************************)
EXTENDS Naturals

CONSTANTS Dates,      \* the UTC dates
          Counters,   \* the counters of a date
          Limit       \* requests_per_day of the key

VARIABLE usage        \* date -> counter -> number of requests

Init == usage = [d \in Dates |-> [c \in Counters |-> 0]]

Increment(d, c) ==
    /\ c = "accepted" => usage[d][c] < Limit
    /\ usage' = [usage EXCEPT ![d][c] = @ + 1]

Next == \E d \in Dates, c \in Counters : Increment(d, c)

Spec == Init /\ [][Next]_usage

=============================================================================
