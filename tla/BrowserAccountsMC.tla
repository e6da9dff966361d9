--------------------------- MODULE BrowserAccountsMC ---------------------------
(***************************************************************************)
(* BrowserAccounts with interchangeable requests and passwords.            *)
(***************************************************************************)
EXTENDS BrowserAccounts, TLC

Symmetry == Permutations(Requests) \union Permutations(Passwords)

=============================================================================
