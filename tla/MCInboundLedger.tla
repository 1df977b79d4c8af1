-------------------------- MODULE MCInboundLedger --------------------------
(* Instances of InboundLedger for TLC. *)
EXTENDS InboundLedger, TLC

CONSTANTS o1, o2, c1, c2, c3

TwoSkus == 1..2

Count(n, d, known) == [received |-> n, damaged |-> d, priced |-> known]

(* o1 has two lines and a purchase request behind it, of two of sku 1 and  *)
(* one of sku 2; o2 shares one sku.                                        *)
TwoOrderLines == o1 :> {1, 2} @@ o2 :> {1}
FromRequest == o1 :> [s \in TwoSkus |-> 3 - s] @@ o2 :> None

(* Counts of o1: two that may be torn into a negative one, both of which   *)
(* accept nothing of sku 2 and the second of which completes the request,  *)
(* and one with as much in all, but too much of sku 1; and a count of o2.  *)
FewPayloads ==
    { 1 :> Count(1, 0, TRUE) @@ 2 :> Count(1, 1, FALSE),
      1 :> Count(2, 2, FALSE) @@ 2 :> Count(1, 1, FALSE),
      1 :> Count(3, 0, FALSE) @@ 2 :> Count(0, 0, FALSE),
      1 :> Count(2, 0, FALSE) }

ClientSymmetry == Permutations(Clients)
=============================================================================
