---------------------------- MODULE DailyUsageMC ----------------------------
(***************************************************************************)
(* DailyUsage for TLC: four statements over two dates of two ticks each.   *)
(***************************************************************************)
EXTENDS DailyUsage, TLC

CONSTANTS s1, s2, s3, s4

StatementSymmetry == Permutations(Statements)
=============================================================================
