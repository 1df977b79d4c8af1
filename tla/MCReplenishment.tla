-------------------------- MODULE MCReplenishment --------------------------
(* An instance of Replenishment for TLC: a week or a month of sales in two *)
(* shops, and the two days after it.                                       *)
EXTENDS Replenishment

S(shop, day, net, whole) == [shop |-> shop, day |-> day, net |-> net, whole |-> whole]

(* A week of eight, one without a sale, one of nine with an incomplete    *)
(* row, one of seven with a second shop on its last day, and one of        *)
(* twenty-nine; three weeks that end with a day of two; and thirty days    *)
(* of which only the first nine sell.                                      *)
Week(last) == [d \in 1..7 |-> S("s", d, IF d = 7 THEN last ELSE 1, TRUE)]
MCHistories == {Week(2), [d \in 1..7 |-> S("s", d, 0, TRUE)],
                [Week(3) EXCEPT ![4].whole = FALSE], Append(Week(1), S("t", 7, 0, TRUE)),
                Week(23), [d \in 1..21 |-> S("s", d - 14, IF d = 21 THEN 2 ELSE 1, TRUE)],
                [d \in 1..30 |-> S("s", d - 23, IF d <= 9 THEN 1 ELSE 0, TRUE)]}

(* The doubles of a net below 45 that fall beside, with a safety stock of  *)
(* one: 29 / 7 * 14 + 1 is above 59, and 18 / (9 / 7) below 14.            *)
MCOvershot == {<<25, 3, 30>>, <<25, 6, 30>>, <<29, 7, 7>>, <<29, 7, 14>>, <<29, 14, 14>>, <<31, 15, 30>>}
MCUndershot == {<<18, 7, 9>>, <<18, 14, 18>>, <<18, 21, 27>>, <<18, 28, 36>>}

MCRebuilds == {S("s", 4, 1, TRUE), S("s", 8, 3, TRUE), S("t", 8, 1, FALSE), S("t", 9, 1, TRUE)}

MCWindows == {[from |-> 8, to |-> 8], [from |-> 8, to |-> 9], [from |-> 6, to |-> 7]}
=============================================================================
