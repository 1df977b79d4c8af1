---------------------------- MODULE PurchaseFlow ----------------------------
(***************************************************************************)
(* What purchasing promises: a request takes a set of replenishment        *)
(* suggestions that no other request has, is submitted, decided once, and  *)
(* becomes at most one inbound order, only once it was approved; it can be *)
(* withdrawn until then, which frees its suggestions.                      *)
(***************************************************************************)
CONSTANTS Requests, Suggestions

VARIABLES
    status,     \* of each request
    items,      \* the suggestions it takes
    ordered,    \* it has an inbound order
    committed   \* the suggestions under a submitted, approved or rejected request

flowVars == <<status, items, ordered, committed>>

Free(S) == S # {} /\ \A p \in Requests : S \cap items[p] = {}

Open(p, S, to) ==
    /\ status[p] = "absent" /\ Free(S)
    /\ status' = [status EXCEPT ![p] = to]
    /\ items' = [items EXCEPT ![p] = S]
    /\ committed' = IF to = "submitted" THEN committed \cup S ELSE committed
    /\ UNCHANGED ordered

Submit(p) ==
    /\ status[p] = "draft"
    /\ status' = [status EXCEPT ![p] = "submitted"]
    /\ committed' = committed \cup items[p]
    /\ UNCHANGED <<items, ordered>>

Decide(p, to) ==
    /\ status[p] = "submitted"
    /\ status' = [status EXCEPT ![p] = to]
    /\ UNCHANGED <<items, ordered, committed>>

Withdraw(p) ==
    /\ status[p] \in {"draft", "submitted", "approved"} /\ ~ordered[p]
    /\ status' = [status EXCEPT ![p] = "cancelled"]
    /\ committed' = committed \ items[p]
    /\ UNCHANGED <<items, ordered>>

Order(p) ==
    /\ status[p] = "approved" /\ ~ordered[p]
    /\ ordered' = [ordered EXCEPT ![p] = TRUE]
    /\ UNCHANGED <<status, items, committed>>

FlowInit ==
    /\ status = [p \in Requests |-> "absent"]
    /\ items = [p \in Requests |-> {}]
    /\ ordered = [p \in Requests |-> FALSE]
    /\ committed = {}

FlowNext ==
    \E p \in Requests :
        \/ \E S \in SUBSET Suggestions, to \in {"draft", "submitted"} : Open(p, S, to)
        \/ Submit(p) \/ Withdraw(p) \/ Order(p)
        \/ \E to \in {"approved", "rejected"} : Decide(p, to)

FlowSpec == FlowInit /\ [][FlowNext]_flowVars
=============================================================================
