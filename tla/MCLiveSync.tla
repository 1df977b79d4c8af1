------------------------------ MODULE MCLiveSync ------------------------------
(* Inventory fits in one page, orders take two.                             *)
EXTENDS LiveSync, TLC

CONSTANTS c1, c2, k1, k2

MCClients == {c1, c2}
MCKeys == {k1, k2}
MCPages == [x \in Resources |-> IF x = "orders" THEN 2 ELSE 1]

(* Two runs of both resources or of one, or three runs of inventory.           *)
MCScopes == {[requests |-> {<<"inventory", "orders">>, <<"inventory">>}, runs |-> 2],
             [requests |-> {<<"inventory">>}, runs |-> 3]}

Symmetry == Permutations(MCClients) \cup Permutations(MCKeys)
=============================================================================
