------------------------------- MODULE Lists -------------------------------
(***************************************************************************)
(* Lists, as the reading handlers build and walk them.  The operators have *)
(* the names they have in SequencesExt, which is not extended because it   *)
(* brings in Bags: next to Bags the proof system takes several times       *)
(* longer over every obligation.                                           *)
(***************************************************************************)
EXTENDS Integers, Sequences, FiniteSets, FiniteSetsExt, Functions, TLC

(* The elements of a list.                                                 *)
ToSet(s) == {s[i] : i \in DOMAIN s}

(* A finite set as a list, in some order.                                  *)
SetToSeq(S) == CHOOSE s \in Injection(1 .. Cardinality(S), S) : TRUE

Reverse(s) == [i \in DOMAIN s |-> s[Len(s) + 1 - i]]

(* op, from the first element to the last.                                 *)
FoldLeft(op(_, _), base, s) ==
    LET folded[n \in 0 .. Len(s)] ==
          IF n = 0 THEN base ELSE op(folded[n - 1], s[n])
    IN folded[Len(s)]

FlattenSeq(lists) == FoldLeft(LAMBDA all, s : all \o s, <<>>, lists)

=============================================================================
