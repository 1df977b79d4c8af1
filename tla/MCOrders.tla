------------------------------ MODULE MCOrders ------------------------------
(* The way of sales data for TLC.                                          *)
EXTENDS SalesData, MCReplenishment, TLC

CONSTANTS o1, o2, s1, s2, c1, c2

(* Orders: o1 has versions: a sale of two skus, one that drops the second, *)
(* one that was cancelled.  o2 has times only: a sale, and its refund moved*)
(* a day.                                                                  *)
One(s, n, r) == [l \in {1} |-> [esku |-> s, ordered |-> n, refunded |-> r]]
Two(s, t) == [l \in {1, 2} |-> [esku |-> IF l = 1 THEN s ELSE t, ordered |-> 1, refunded |-> 0]]
E(o, v, u, d, sale, items) ==
    [order |-> o, version |-> v, updated |-> u, created |-> d, sale |-> sale, items |-> items]

MCEvents == {E(o1, 1, 1, 2, TRUE, Two(s1, s2)), E(o1, 2, 1, 2, TRUE, One(s1, 2, 0)),
             E(o1, 3, 1, 2, FALSE, One(s1, 1, 0)),
             E(o2, None, 1, 1, TRUE, One(s1, 1, 0)), E(o2, None, 2, 2, TRUE, One(s2, 2, 1))}
MCRacing == {e \in MCEvents : e.order = o1}

P(i, f) == [id |-> i, sku |-> 1, from |-> f, cost |-> i]
MCPrices == {P(1, 3), P(2, 1)}

Swap == Permutations(Clients)

(* Profits: a sale, a part refund and a full one; dear and cheap products. *)
(* Five percent of 100.10 - 99.40 is 0.035, and in doubles 0.03499...      *)
Trade(ordered, undone, gross, back) ==
    [ordered |-> ordered, undone |-> undone, gross |-> gross, back |-> back]
MCTrades == {Trade(1, 0, 5, 0), Trade(2, 1, 10010, 9940), Trade(1, 2, 5, 9)}
MCShortFees == {Trade(2, 1, 10010, 9940)}
MCUnitCost == [s \in Goods |-> IF s = "g" THEN 1 ELSE 14]

(* Quality: clean, dirty, old and contradicting rows; a page of each form. *)
R(key, hash, dirty, old) == [key |-> key, hash |-> hash, dirty |-> dirty, old |-> old]
Page(resource, form, old, rows) ==
    [resource |-> resource, form |-> form, old |-> old, rows |-> rows]
MCStored == {R(1, 1, FALSE, FALSE), R(1, 2, FALSE, FALSE), R(2, 1, TRUE, FALSE), R(2, 1, FALSE, TRUE)}
MCPages == {Page("orders", "whole", FALSE, <<R(1, 1, FALSE, FALSE)>>),
            Page("orders", "whole", FALSE, <<R(2, 1, TRUE, FALSE)>>),
            Page("inventory", "whole", TRUE, << >>),
            Page("orders", "broken", FALSE, << >>),
            Page("inventory", "truncated", FALSE, << >>),
            Page("inventory", "whole", FALSE, <<R(3, 1, FALSE, FALSE)>>)}
MCDeclared == SUBSET {"orders", "inventory"}
=============================================================================
