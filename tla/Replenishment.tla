--------------------------- MODULE Replenishment ---------------------------
(***************************************************************************)
(* What is ordered again of one sku in one warehouse, how that is judged   *)
(* afterwards, and how the sku stands meanwhile: calculate_replenishment   *)
(* and evaluate_replenishment of app/replenishment.py, build_sku_health of *)
(* app/dashboard.py and build_product_quadrant of app/analytics.py, over   *)
(* the daily sales of each shop.                                           *)
(*                                                                         *)
(* A shop's sales of a day are deleted and inserted again whenever an      *)
(* order of that day is ingested, and come last from then on: both queries *)
(* read the rows in the order of their ids.  Averages are decimals, kept to*)
(* a number of digits: 28 in Python, and a constant here.  The views take  *)
(* the average as a double.  It is next to the quotient it stands for,     *)
(* which decides nothing but where that makes a whole number or is at a    *)
(* limit; which doubles then fall beside it are constants.                 *)
(***************************************************************************)
EXTENDS Integers, Sequences, FiniteSets, SequencesExt, Places

CONSTANTS
    Histories,     \* the daily sales there may be at first
    Rebuilds,      \* the daily sales that an ingestion may insert
    CoverageDays,  \* windows of days: looked back on, provided for, compared
    Safety,        \* safety_stock_qty of the policy, 0 without one
    OnHand,        \* what the warehouse may hold
    Windows,       \* windows an evaluation may be asked for: [from, to]
    DaysLow,       \* days_low of the quadrant
    Digits,        \* significant digits of a decimal
    Overshot,      \* net, days covered and days of which a double makes more than a whole
    Undershot,     \* held, days covered and net that a double puts below the limit they are at
    MaxEvaluations \* bound on the evaluations on record

(* whole: data_completeness is complete, not partial.                      *)
Sale == [shop : STRING, day : Int, net : Nat, whole : BOOLEAN]

ASSUME ReplenishmentAssumption ==
    /\ Rebuilds \subseteq Sale
    /\ Histories \subseteq Seq(Sale)
    /\ \A h \in Histories : h # << >> /\ \A j, k \in DOMAIN h :
          h[j].shop = h[k].shop /\ h[j].day = h[k].day => j = k
    /\ CoverageDays \subseteq {7, 14, 30} /\ Safety \in Nat /\ OnHand \subseteq Nat
    /\ \A w \in Windows : w.from \in Nat /\ w.to \in Nat
    /\ DaysLow \in Nat /\ Digits \in Nat \ {0} /\ MaxEvaluations \in Nat

VARIABLES
    sales,        \* daily_sku_sales of the sku, in the order of their ids
    suggestion,   \* the replenishment_suggestions row that is evaluated
    evaluations,  \* replenishment_evaluations
    judging       \* the row a call to evaluate is about to insert

replVars == <<sales, suggestion, evaluations, judging>>

NoSuggestion == [qty |-> 0]
NotJudging == [from |-> 0]

ReplInit ==
    /\ sales \in Histories /\ suggestion = NoSuggestion
    /\ evaluations = {} /\ judging = NotJudging

-----------------------------------------------------------------------------
(* Decimal arithmetic: m / TenTo[k], of at most Digits digits, half to     *)
(* even.                                                                   *)

TenTo[k \in Nat] == IF k = 0 THEN 1 ELSE 10 * TenTo[k - 1]

HalfEven(n, d) ==
    LET q == n \div d  r == n % d
    IN IF 2 * r > d \/ (2 * r = d /\ q % 2 = 1) THEN q + 1 ELSE q

(* n / d as a decimal: with the least number of places that is enough.     *)
Enough(n, d, k) == n * TenTo[k] >= d * TenTo[Digits - 1]

Decimal(n, d) ==
    IF n = 0 THEN [m |-> 0, k |-> 0]
    ELSE LET k == CHOOSE x \in 0..2 * Digits :
                      Enough(n, d, x) /\ (x = 0 \/ ~Enough(n, d, x - 1))
         IN [m |-> HalfEven(n * TenTo[k], d), k |-> k]

Times(x, n) == Decimal(x.m * n, TenTo[x.k])
Plus(x, n) == Decimal(x.m + n * TenTo[x.k], TenTo[x.k])
Ceiling(x) == (x.m + TenTo[x.k] - 1) \div TenTo[x.k]

-----------------------------------------------------------------------------
(* The places of a day's rows among the sales.                             *)
OfDay(d) == {k \in DOMAIN sales : sales[k].day = d}

(* The sales of a shop's day are rebuilt.                                  *)
RebuildDay ==
    \E r \in Rebuilds :
        LET there == {k \in OfDay(r.day) : sales[k].shop = r.shop}
        IN /\ \/ there = {} /\ sales' = Append(sales, r)
              \/ \E k \in there : sales' = Append(RemoveAt(sales, k), r)
           /\ sales' # sales
           /\ UNCHANGED <<suggestion, evaluations, judging>>

NetOf(rows) == SumFunction([k \in DOMAIN rows |-> rows[k].net])

(* _sales_inputs: a day counts when each shop's sales of it are whole.     *)
Covered(d) == OfDay(d) # {} /\ \A k \in OfDay(d) : sales[k].whole

(* resolve_sales_as_of, when no day is given: the last that is whole       *)
(* somewhere, or the last there is.                                        *)
SalesAsOf ==
    LET days(P) == {sales[k].day : k \in P}
        whole == {k \in DOMAIN sales : sales[k].whole}
    IN Max(days(IF whole # {} THEN whole ELSE DOMAIN sales))

Back(from, days) == from - days + 1..from

Sold(window) ==
    SumFunctionOnSet([k \in DOMAIN sales |-> sales[k].net],
                     {k \in DOMAIN sales : sales[k].day \in window})

Target(net, days) == Ceiling(Plus(Times(Decimal(net, days), days), Safety))

(* It is suggested when the window is covered and something is missing; as *)
(* a decimal, the average of the window is multiplied by its days again.   *)
Suggest ==
    /\ suggestion = NoSuggestion
    /\ \E days \in CoverageDays, held \in OnHand :
          LET window == Back(SalesAsOf, days)
              net == Sold(window)
          IN /\ \A d \in window : Covered(d)
             /\ Target(net, days) > held
             /\ suggestion' = [qty |-> Target(net, days) - held, onHand |-> held,
                               sold |-> net, asOf |-> SalesAsOf]
    /\ UNCHANGED <<sales, evaluations, judging>>

-----------------------------------------------------------------------------
(* The dashboards.  Both take the average of the days that are covered,    *)
(* and find none when no day is.                                           *)

CoveredDays(days) == {d \in Back(SalesAsOf, days) : Covered(d)}

(* What the view would have in stock.                                      *)
TargetShown(net, covered, days) ==
    (net * days + covered - 1) \div covered + Safety
    + (IF net * days % covered = 0 /\ <<net, covered, days>> \in Overshot THEN 1 ELSE 0)

(* The stock lasts less than so many two-hundredths of a day.              *)
Below(held, covered, net, limit) ==
    \/ held * covered * 200 < limit * net
    \/ held * covered * 200 = limit * net /\ <<held, covered, net>> \in Undershot

(* build_sku_health: what to order, and the days of stock, which are       *)
(* rounded to the hundredth before they are held against three and seven.  *)
Health(days, held) ==
    LET covered == Cardinality(CoveredDays(days))
        net == Sold(CoveredDays(days))
        target == TargetShown(net, covered, days)
    IN IF CoveredDays(days) = {} THEN [status |-> "data_insufficient", suggested |-> -1]
       ELSE IF net = 0 THEN [status |-> "no_sales", suggested |-> 0]
       ELSE [status |-> IF Below(held, covered, net, 599) THEN "urgent"
                        ELSE IF Below(held, covered, net, 1399) THEN "reorder" ELSE "healthy",
             suggested |-> IF target > held THEN target - held ELSE 0]

(* build_product_quadrant: the net of the last days against that of as     *)
(* many, or other many, days before them, and the days of stock.  No rows  *)
(* are read but those of the days compared, however long the days of stock *)
(* are looked back on.                                                     *)
Quadrant(short, base, days, held) ==
    LET last == Back(SalesAsOf, short)
        before == Back(SalesAsOf - short, base)
        covered == CoveredDays(IF days <= short + base THEN days ELSE short + base)
        net == Sold(covered)
        compared == Sold(before) > 0 /\ \A d \in last \cup before : Covered(d)
        grows == (Sold(last) - Sold(before)) * 10 >= Sold(before)
        low == Below(held, Cardinality(covered), net, 200 * DaysLow)
    IN CASE net = 0 -> "insufficient"
         [] net # 0 /\ ~compared -> "watch"
         [] net # 0 /\ compared /\ grows -> IF low THEN "focal_supplement" ELSE "healthy"
         [] OTHER -> IF low THEN "watch" ELSE "slow_risk"

-----------------------------------------------------------------------------
(* Evaluation *)

(* The rows of a day as the snapshot keeps them, without their shops.      *)
Figures(d) ==
    LET rows == InOrder(OfDay(d))
    IN [k \in DOMAIN rows |-> [net |-> sales[rows[k]].net, whole |-> sales[rows[k]].whole]]

(* Mutant of Judgeable: of several rows of a day, the last one decides.    *)
JudgeableByLast(rows) == rows # << >> /\ rows[Len(rows)].whole

(* One whole row is enough for the day, unlike in _sales_inputs.           *)
Judgeable(rows) == \E k \in DOMAIN rows : rows[k].whole

Error(actual, qty) == IF actual > qty THEN actual - qty ELSE qty - actual

Evaluation(w) ==
    LET seen == [d \in w.from..w.to |-> Figures(d)]
        complete == \A d \in DOMAIN seen : Judgeable(seen[d])
        actual == SumFunction([d \in DOMAIN seen |-> NetOf(seen[d])])
    IN [from |-> w.from, to |-> w.to, seen |-> seen,
        status |-> IF complete THEN "evaluated" ELSE "insufficient",
        error |-> IF complete THEN Error(actual, suggestion.qty) ELSE -1]

(* evaluate_replenishment, up to the query for what is recorded already.   *)
StartEvaluation ==
    /\ suggestion # NoSuggestion /\ judging = NotJudging
    /\ Cardinality(evaluations) < MaxEvaluations
    /\ \E w \in Windows :
          /\ w.from <= w.to /\ suggestion.asOf < w.to
          /\ Evaluation(w) \notin evaluations
          /\ judging' = Evaluation(w)
    /\ UNCHANGED <<sales, suggestion, evaluations>>

(* The insert; one like it is refused by the unique key.                   *)
RecordEvaluation ==
    /\ judging # NotJudging
    /\ evaluations' = evaluations \cup {judging} /\ judging' = NotJudging
    /\ UNCHANGED <<sales, suggestion>>

ReplNext == RebuildDay \/ Suggest \/ StartEvaluation \/ RecordEvaluation

ReplSpec == ReplInit /\ [][ReplNext]_replVars

-----------------------------------------------------------------------------
(* Properties *)

(* The same rows, in whatever order.                                       *)
SameRows(s, t) ==
    \E p \in Bijection(DOMAIN s, DOMAIN t) : \A k \in DOMAIN s : t[p[k]] = s[k]

(* Two evaluations of a window over the same rows agree.                   *)
JudgedAlike ==
    \A e, f \in evaluations :
        e.from = f.from /\ e.to = f.to
        /\ (\A d \in e.from..e.to : SameRows(e.seen[d], f.seen[d]))
        => e.status = f.status /\ e.error = f.error

(* The average of n keeps two decimals, and what it is multiplied to one:  *)
(* with the 28 digits of Python, for any n below 7 * 10^26.                *)
Fits(n) == 10 * n < 7 * TenTo[Digits - 1]

(* What one view knows nothing of, the other knows nothing of either, and  *)
(* what one calls urgent or to be reordered the other does not call in     *)
(* good supply, as far back as both look: the quadrant does not look back  *)
(* longer than it compares.  It compares only what is covered; and what a  *)
(* suggestion would ask for is what the view shows, but for one more or    *)
(* less by the rounding of the average, and for the safety stock of what   *)
(* does not sell, which the view leaves out.  Looked at before there is a  *)
(* suggestion, which no sales depend on.                                   *)
ViewsAgree ==
    \A days \in CoverageDays, held \in OnHand :
        LET health == Health(days, held)
            covered == \A d \in Back(SalesAsOf, days) : Covered(d)
            net == Sold(Back(SalesAsOf, days))
            missing == Target(net, days) - held
        IN /\ covered /\ missing > 0 /\ Fits(net) =>
                  IF health.status = "no_sales" THEN missing = Safety - held
                                                ELSE missing - health.suggested \in {-1, 0, 1}
           /\ \A short, base \in CoverageDays :
                  LET quadrant == Quadrant(short, base, days, held)
                      unknown == health.status \in {"data_insufficient", "no_sales"}
                  IN short # base =>
                     /\ unknown => quadrant = "insufficient"
                     /\ days <= short + base =>
                           /\ quadrant = "insufficient" => unknown
                           /\ DaysLow >= 7 /\ health.status \in {"urgent", "reorder"}
                                  => quadrant \notin {"healthy", "slow_risk"}
                     /\ quadrant \in {"focal_supplement", "healthy", "slow_risk"}
                            => \A d \in Back(SalesAsOf, short + base) : Covered(d)

(* What was suggested brings the stock to what was sold and the safety     *)
(* stock, and at most one more, whichever way the average was rounded.     *)
BringsToTarget ==
    suggestion # NoSuggestion /\ Fits(suggestion.sold) =>
        suggestion.qty + suggestion.onHand - suggestion.sold - Safety \in {0, 1}

(* The same sales are judged alike however often, and in whatever order,   *)
(* they were rebuilt (evaluate_replenishment); what is suggested brings    *)
(* the stock to what is missed (calculate_replenishment); and the          *)
(* dashboards tell the same of the sku.                                    *)
SuggestedAndJudged ==
    /\ JudgedAlike
    /\ BringsToTarget
    /\ sales # << >> /\ suggestion = NoSuggestion => ViewsAgree

(* README.md:608: the target stock is ceil(daily average * coverage_days + *)
(* safety_stock), the average being that of those very days; so that the   *)
(* target is what was sold in them and the safety stock.                   *)
TargetIsTheFormula ==
    suggestion # NoSuggestion =>
        suggestion.qty + suggestion.onHand = suggestion.sold + Safety
=============================================================================
