------------------------------- MODULE MCDesks -------------------------------
(* The desks of the workbench for TLC.                                     *)
EXTENDS Desks, TLC

CONSTANTS e1, e2, f1, f2, x1, u1, u2, b1, l1, kk, ff

(* Those who call and those who work are interchangeable.  A desk uses a   *)
(* pair for each of the two kinds.                                         *)
DeskSymmetry == Permutations({e1, e2}) \union Permutations({f1, f2})

(* Documents: 1 has two chunks, 2 does not parse, 3 repeats a chunk.       *)
MCPieces == [x \in Uploads |-> IF x = 1 THEN 2 ELSE 1]

(* Listings of up to three pages that end, go on or come back, with        *)
(* products on two pages, and a second page of any kind.                   *)
Page(items, next, gate) == [items |-> items, next |-> next, gate |-> gate]
Listing(first, second) == [p \in 1..3 |-> IF p = 1 THEN first ELSE IF p = 2 THEN second
                                          ELSE Page({4}, LastPage, "open")]
MCListings ==
    {Listing(Page(i, n, f), Page(j, m, g)) : f \in {"open", "unreadable"},
        i \in {{}, {1}, {1, 2}}, n \in {2, LastPage}, j \in {{}, {2}, {2, 3}},
        m \in {1, 3, LastPage}, g \in Gates}
=============================================================================
