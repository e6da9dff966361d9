---------------------------- MODULE AsyncReportsMC ----------------------------
(***************************************************************************)
(* AsyncReports with symmetric submissions and deliveries.                 *)
(***************************************************************************)
EXTENDS AsyncReports, TLC

Symmetry == Permutations(Submissions) \union Permutations(Deliveries)

=============================================================================
