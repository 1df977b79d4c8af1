------------------------------- MODULE Profit -------------------------------
(***************************************************************************)
(* The estimated profit of a window of sales: its summary by currency, its *)
(* ranking of products and the lines behind it (app/finance.py).  All of   *)
(* it is read from the order lines and nothing is stored.  Money is in     *)
(* cents, rates in ten-thousandths.                                        *)
(*                                                                         *)
(* The details take the fee of a line in decimals, the summary in SQL, on  *)
(* doubles.  A double is next to the decimal it stands for, which decides  *)
(* nothing but at half a cent: there it may fall short.  Which do is a     *)
(* constant.                                                               *)
(***************************************************************************)
EXTENDS Integers, FiniteSets, Functions

CONSTANTS
    LineNos,       \* order lines
    OrderIds,
    Currencies,
    Goods,          \* internal products
    NoSku,         \* the product of a line that is not mapped
    Trades,        \* quantities and amounts of a line, as [ordered, undone, gross, back]
    UnitCost,      \* anchored cost of a product
    FeeRate,       \* anchored rate of the platform
    ShortFees      \* the trades whose fee in doubles is less than it is

ASSUME ProfitAssumption ==
    /\ \A t \in Trades : {t.ordered, t.undone, t.gross, t.back} \subseteq Nat
    /\ UnitCost \in [Goods -> Nat] /\ FeeRate \in 0..10000 /\ NoSku \notin Goods
    /\ ShortFees \subseteq Trades /\ IsFiniteSet(LineNos)

VARIABLES
    line,          \* external_order_lines, with what is asked of their orders
    onSale,        \* orders of the window that are paid, fulfilled or completed
    report         \* what summarize_profit and list_profit_lines answered

profitVars == <<line, onSale, report>>

(* A cost is anchored when the product is known and had one.               *)
Anchors == [sku : Goods, status : {"resolved", "backfilled", "missing"}]
           \cup [sku : {NoSku}, status : {"unmapped"}]
OrderLine == {[order |-> o, currency |-> c, sku |-> a.sku, status |-> a.status, trade |-> t] :
                 o \in OrderIds, c \in Currencies, a \in Anchors, t \in Trades}
NoReport == [at |-> "none"]

ProfitInit ==
    /\ line \in UNION {[L -> OrderLine] : L \in SUBSET LineNos}
    /\ onSale \in SUBSET OrderIds
    /\ report = NoReport

-----------------------------------------------------------------------------
(* One line *)

(* net_qty *)
NetQty(l) == LET t == line[l].trade IN IF t.ordered > t.undone THEN t.ordered - t.undone ELSE 0

(* _revenue_expression *)
Revenue(l) == LET t == line[l].trade IN IF t.gross > t.back THEN t.gross - t.back ELSE 0

(* ROUND_HALF_UP to the cent.                                              *)
Share(amount, rate) == (amount * rate + 5000) \div 10000

COMPUTABLE_STATUSES == {"resolved", "backfilled"}
Computed == {l \in DOMAIN line : line[l].status \in COMPUTABLE_STATUSES}

Cost(l) == UnitCost[line[l].sku] * NetQty(l)
Fee(l) == Share(Revenue(l), FeeRate)

(* A fee of so many cents and a half.                                      *)
IsHalf(l) == (Revenue(l) * FeeRate) % 10000 = 5000

(* fee_expr: round() of the database rounds what the double is nearest to. *)
SummedFee(l) == IF IsHalf(l) /\ line[l].trade \in ShortFees THEN Fee(l) - 1 ELSE Fee(l)

(* line_amounts, of a line that can be computed.                           *)
LineProfit(l) == Revenue(l) - Cost(l) - Fee(l)

-----------------------------------------------------------------------------
(* summarize_profit *)

(* _window_filters *)
Window == {l \in DOMAIN line : line[l].order \in onSale}

SumOver(Of(_), S) == SumFunctionOnSet([x \in S |-> Of(x)], S)

(* A mutant: the fee is rounded once, on the revenue of the group.         *)
FeeOfTotal(lines) == Share(SumOver(Revenue, lines), FeeRate)

(* The fee of a group of lines is rounded line by line.                    *)
FeeOf(lines) == SumOver(SummedFee, lines)

(* The rows of the aggregate: lines of one currency, product and status.   *)
GroupKeys == {<<line[l].currency, line[l].sku, line[l].status>> : l \in Window}
GroupOf(key) ==
    {l \in Window : <<line[l].currency, line[l].sku, line[l].status>> = key}
GroupProfit(key) ==
    LET lines == GroupOf(key) IN SumOver(Revenue, lines) - SumOver(Cost, lines) - FeeOf(lines)

Computable(keys) == {k \in keys : k[3] \in COMPUTABLE_STATUSES}

KeysOf(c) == Computable({k \in GroupKeys : k[1] = c})

CurrencyProfit(c) == SumOver(GroupProfit, KeysOf(c))

Counted == {k[1] : k \in GroupKeys}
NothingComputed == Computable(GroupKeys) = {}

(* The one total there is when there is one currency and a line to count.  *)
TotalProfit ==
    IF Cardinality(Counted) = 1 /\ ~NothingComputed
    THEN {CurrencyProfit(c) : c \in Counted} ELSE {}

Quality ==
    IF NothingComputed THEN "insufficient"
    ELSE IF Computable(GroupKeys) # GroupKeys THEN "partial" ELSE "complete"

(* Orders that miss a cost, each counted once.                             *)
MissingOrders == {line[l].order : l \in {m \in Window : line[m].status = "missing"}}

(* _build_ranking, within its limit: the profit of a product in a currency *)
(* is with the winners or the losers, or it is nothing.                    *)
SkuProfit(c, sku) == SumOver(GroupProfit, {k \in KeysOf(c) : k[2] = sku})
Ranked(c) == {sku \in Goods : \E k \in KeysOf(c) : k[2] = sku}
Ranking(c) ==
    [winners |-> {sku \in Ranked(c) : SkuProfit(c, sku) > 0},
     losers  |-> {sku \in Ranked(c) : SkuProfit(c, sku) < 0}]

Summarize ==
    /\ report.at = "none"
    /\ report' =
           [at |-> "summary", page |-> NoReport,
            profit |-> [c \in Counted |-> CurrencyProfit(c)],
            total |-> TotalProfit, quality |-> Quality, missing |-> Cardinality(MissingOrders),
            ranking |-> [c \in Counted |-> Ranking(c)]]
    /\ UNCHANGED <<line, onSale>>

-----------------------------------------------------------------------------
(* list_profit_lines, all its pages: the lines that a currency and a       *)
(* status let through, each with its profit or none.                       *)
Filters == {"all", "computed", "missing", "unmapped"}
Listed(c, filter) ==
    {l \in Window : /\ line[l].currency = c
                    /\ filter = "computed" => l \in Computed
                    /\ filter \in {"missing", "unmapped"} => line[l].status = filter}

ListLines(c, filter) ==
    /\ report.at = "summary"
    /\ report' = [report EXCEPT !.at = "page", !.page =
           [currency |-> c, filter |-> filter, items |-> Listed(c, filter),
            profit |-> SumOver(LineProfit, Listed(c, filter) \cap Computed)]]
    /\ UNCHANGED <<line, onSale>>

ProfitNext == Summarize \/ \E c \in Currencies, filter \in Filters : ListLines(c, filter)

ProfitSpec == ProfitInit /\ [][ProfitNext]_profitVars

-----------------------------------------------------------------------------
(* The ranking adds up to the total, and the details to at most a cent     *)
(* less for each line that has half a cent of fee, whatever doubles do; a  *)
(* summary speaks of a total only when it adds one currency, and of none   *)
(* when nothing could be computed (summarize_profit, list_profit_lines,    *)
(* _build_ranking).                                                        *)
SummaryIsSumOfDetails ==
    report.at = "page" =>
        LET page == report.page  c == page.currency IN
        c \in DOMAIN report.profit =>
            /\ page.filter \in {"all", "computed"} =>
                   report.profit[c] - page.profit
                      \in 0..Cardinality({l \in page.items \cap Computed : IsHalf(l)})
            /\ page.filter \in {"missing", "unmapped"} => page.profit = 0
            /\ report.total # {} => report.total = {report.profit[c]}
            /\ LET sides == report.ranking[c].winners \cup report.ranking[c].losers
               IN SumOver(LAMBDA sku : SkuProfit(c, sku), sides) = report.profit[c]
            /\ (report.quality = "complete" /\ page.filter = "all")
                   => page.items \subseteq Computed /\ report.missing = 0
=============================================================================
