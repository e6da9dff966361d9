----------------------------- MODULE WorkspacesMC -----------------------------
(***************************************************************************)
(* Small instances of Workspaces for TLC: acme owns w1 from the start and  *)
(* zed owns w2; Alpha and alpha differ in case only.                       *)
(***************************************************************************)
EXTENDS Workspaces

CONSTANTS acme, zed, w1, w2, w3, n0, n1, a1, a2, a3, Alpha, alpha, beta

MCInitialOf  == [a \in Accounts |-> IF a = acme THEN w1 ELSE w2]
MCLower      == [l \in Labels |-> IF l = Alpha THEN alpha ELSE l]

ByAcme(kind) == [kind |-> kind, account |-> acme, ws |-> w1]
Named(kind, account) ==
    [kind |-> kind, account |-> account, ws |-> w1, name |-> n1]
Addressed(kind, account, address) ==
    [kind |-> kind, account |-> account, ws |-> w1, address |-> address]
Labelled(kind, label) ==
    [kind |-> kind, account |-> acme, ws |-> w1, address |-> a1, label |-> label]

(* Lifecycle, members, captures and a foreign account.                     *)
LifecycleOps ==
    {ByAcme(k) : k \in {"archive", "restore", "capture"}}
      \union {Named("create", acme), Named("rename", acme), Named("rename", zed)}
      \union {Addressed("add_address", acme, x) : x \in {a2, a3}}
      \union {Addressed("add_address", zed, a2)}
      \union {Addressed("observe", acme, a1)}

(* Labels and snapshots, and an archive that races them.                   *)
LabelOps ==
    {ByAcme("archive"), ByAcme("capture")}
      \union {Labelled("add_label", l) : l \in Labels}
      \union {Labelled("remove_label", l) : l \in {alpha, beta}}

(* What changes and reads the activity log.                                *)
ActivityOps ==
    {ByAcme("archive"), Labelled("remove_label", alpha)}
      \union {Labelled("add_label", l) : l \in Labels}

=============================================================================
