------------------------------- MODULE Places -------------------------------
(***************************************************************************)
(* Rows are kept in the order of their ids, and a list is put together     *)
(* from the places of the rows that it takes.                              *)
(***************************************************************************)
EXTENDS Integers, Sequences, FiniteSets, SequencesExt

(* The members of a finite set of numbers, the least first.                *)
InOrder(P) ==
    CHOOSE s \in [1..Cardinality(P) -> P] :
        ToSet(s) = P /\ \A j, k \in DOMAIN s : j < k => s[j] < s[k]
=============================================================================
