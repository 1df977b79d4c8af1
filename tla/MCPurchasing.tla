---------------------------- MODULE MCPurchasing ----------------------------
(* Two suggestions of one sku, two requests and two calls at a time.       *)
EXTENDS Purchasing, TLC

CONSTANTS p1, p2, s1, s2, c1, c2

MCRequests == {p1, p2}
MCSuggestions == {s1, s2}
MCClients == {c1, c2}
MCSkuOf == [s \in MCSuggestions |-> 1]

Symmetry == Permutations(MCRequests) \cup Permutations(MCSuggestions) \cup Permutations(MCClients)
=============================================================================
