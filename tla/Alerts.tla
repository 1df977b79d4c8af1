------------------------------- MODULE Alerts -------------------------------
(***************************************************************************)
(* Inventory policies and the alerts about stock and about external        *)
(* synchronisation (app/alerts.py and its routes in app/main.py).  Alerts  *)
(* of different causes share no state: an instance is about the stock of   *)
(* one warehouse and sku, the latest run of one source, or its snapshot.   *)
(*                                                                         *)
(* A refresh reads what it judges and commits at the end; it emits what    *)
(* differs from the alert it loaded.                                       *)
(***************************************************************************)
EXTENDS Integers, FiniteSets

CONSTANTS MaxStock, Refreshers   \* a bound on the stock; refreshes in progress

ASSUME AlertsAssumption == MaxStock \in Nat

VARIABLES
    about,      \* what the alerts are about
    stock,      \* on_hand_qty
    policy,     \* safety and reorder point, of inventory_policies
    source,     \* how the latest run, or the latest snapshot, of the source is
    alert,      \* inventory_alerts by kind
    refresh,    \* what each refresh is about to write
    fresh,      \* history: since the last refresh read them nobody changed what
                \* it judged by, or acknowledged an alert that was over
    oneRefresh  \* whether refreshes and acknowledgements are served one at a time

alertVars == <<about, stock, policy, source, alert, refresh, fresh, oneRefresh>>
alertSources == <<about, stock, policy, source>>

(* The kinds of alert of each, the states of its source that raise one.    *)
KindsAbout(a) == CASE a = "stock" -> {"low_stock"}
                   [] a = "run" -> {"failed", "partial", "stalled"}
                   [] a = "snapshot" -> {"stale", "clock_skew"}
Kinds == KindsAbout(about)
SourceStates(a) == CASE a = "stock" -> {}
                     [] a = "run" -> {"running", "succeeded", "failed", "partial", "stalled"}
                     [] a = "snapshot" -> {"fresh", "stale", "clock_skew"}
Policy == {[safety |-> s, reorder |-> r] : s, r \in 0..MaxStock}
NoPolicy == [safety |-> 0]
Alert == [status : {"none", "open", "acknowledged", "resolved"}, severity : {"warning", "critical"}]
NoAlert == [status |-> "none", severity |-> "warning"]
Idle == [at |-> "idle"]

AlertsTypeOK ==
    /\ stock \in 0..MaxStock /\ policy \in Policy \cup {NoPolicy}
    /\ about \in {"stock", "run", "snapshot"}
    /\ source \in SourceStates(about) \cup {"none"}
    /\ alert \in [Kinds -> Alert]
    /\ \A c \in Refreshers : refresh[c] # Idle =>
           /\ refresh[c].seen \in [Kinds -> Alert] /\ refresh[c].new \in [Kinds -> Alert]
           /\ refresh[c].clean \in BOOLEAN
    /\ fresh \in BOOLEAN /\ oneRefresh \in BOOLEAN

AlertsInit ==
    /\ about \in {"stock", "run", "snapshot"}
    /\ stock = 0 /\ policy = NoPolicy /\ source = "none"
    /\ alert = [k \in Kinds |-> NoAlert]
    /\ refresh = [c \in Refreshers |-> Idle]
    /\ fresh = FALSE /\ oneRefresh \in BOOLEAN

(* Whoever changes what a refresh looks at.                                *)
Disturbs ==
    /\ fresh' = FALSE
    /\ refresh' = [c \in Refreshers |->
                      IF refresh[c] # Idle THEN [refresh[c] EXCEPT !.clean = FALSE] ELSE Idle]

(* upsert_inventory_policy                                                 *)
SavePolicy ==
    /\ about = "stock"
    /\ \E p \in Policy : p.reorder >= p.safety /\ p # policy /\ policy' = p
    /\ Disturbs
    /\ UNCHANGED <<about, stock, source, alert, oneRefresh>>

(* Receipts and shipments, ...                                             *)
StockMoves ==
    /\ about = "stock" /\ stock' \in {stock - 1, stock + 1} \cap (0..MaxStock)
    /\ Disturbs
    /\ UNCHANGED <<about, policy, source, alert, oneRefresh>>

(* ... runs and snapshots, and the passing of time.                        *)
SourceMoves ==
    /\ source' \in SourceStates(about) \ {source}
    /\ Disturbs
    /\ UNCHANGED <<about, stock, policy, alert, oneRefresh>>

-----------------------------------------------------------------------------
Active(k) == IF k = "low_stock" THEN stock <= policy.reorder ELSE source = k

Severity(k) ==
    IF k = "low_stock" THEN (IF stock <= policy.safety THEN "critical" ELSE "warning")
    ELSE IF k \in {"partial", "clock_skew"} THEN "warning" ELSE "critical"

(* Mutant of Judged: an alert that was acknowledged is not resolved.       *)
JudgedWhileOpen(k) ==
    IF Active(k)
    THEN [status |-> IF alert[k].status \in {"none", "resolved"} THEN "open" ELSE alert[k].status,
          severity |-> Severity(k)]
    ELSE [alert[k] EXCEPT !.status = IF @ = "open" THEN "resolved" ELSE @]

(* An alert that is over is opened again, one that is acknowledged is not. *)
(* An external alert is written in any case, one of stock only when low.   *)
Judged(k) ==
    IF Active(k)
    THEN [status |-> IF alert[k].status \in {"none", "resolved"} THEN "open" ELSE alert[k].status,
          severity |-> Severity(k)]
    ELSE IF k = "low_stock"
         THEN [alert[k] EXCEPT !.status = IF @ = "none" THEN "none" ELSE "resolved"]
         ELSE [status |-> "resolved", severity |-> Severity(k)]

(* There is a policy, a run or a snapshot to judge by.                     *)
Judgeable == IF about = "stock" THEN policy # NoPolicy ELSE source # "none"

Unattended == \A c \in Refreshers : refresh[c] = Idle

(* refresh_low_stock_alerts, refresh_external_alerts                       *)
StartRefresh(c) ==
    /\ refresh[c] = Idle /\ (oneRefresh => Unattended)
    /\ Judgeable
    /\ refresh' = [refresh EXCEPT ![c] =
           [seen |-> alert, clean |-> TRUE, new |-> [k \in Kinds |-> Judged(k)]]]
    /\ UNCHANGED <<alertSources, alert, fresh, oneRefresh>>

(* A second alert under one key fails its refresh.                         *)
CommitRefresh(c) ==
    LET call == refresh[c]
        inserts == {k \in Kinds : call.seen[k].status = "none" /\ call.new[k].status # "none"}
    IN /\ call # Idle
       /\ IF \E k \in inserts : alert[k].status # "none"
          THEN UNCHANGED <<alert, fresh>>
          ELSE /\ alert' = [k \in Kinds |->
                      [f \in DOMAIN NoAlert |->
                          IF call.new[k][f] = call.seen[k][f] THEN alert[k][f] ELSE call.new[k][f]]]
               /\ fresh' = call.clean
       /\ refresh' = [refresh EXCEPT ![c] = Idle]
       /\ UNCHANGED <<alertSources, oneRefresh>>

(* acknowledge_alert asks for no status: one that is over becomes          *)
(* acknowledged, and is not opened when its cause comes back.              *)
Acknowledge(k) ==
    /\ alert[k].status # "none" /\ (oneRefresh => Unattended)
    /\ alert' = [alert EXCEPT ![k].status = "acknowledged"]
    /\ fresh' = (fresh /\ alert[k].status # "resolved")
    /\ UNCHANGED <<alertSources, refresh, oneRefresh>>

AlertsNext ==
    \/ SavePolicy \/ StockMoves \/ SourceMoves
    \/ \E k \in Kinds : Acknowledge(k)
    \/ \E c \in Refreshers : StartRefresh(c) \/ CommitRefresh(c)

AlertsSpec == AlertsInit /\ [][AlertsNext]_alertVars

(* While refreshes are served one at a time, and until something changes,  *)
(* the alerts that are not over are those whose cause is there, at its     *)
(* severity, in whatever order causes came, went and were acknowledged     *)
(* (refresh_low_stock_alerts, refresh_external_alerts).                    *)
RefreshedAlertsAgree ==
    (oneRefresh /\ fresh) =>
        \A k \in Kinds :
            /\ (alert[k].status \in {"open", "acknowledged"}) <=> Active(k)
            /\ Active(k) => alert[k].severity = Severity(k)
=============================================================================
