---------------------------- MODULE StockLedger ----------------------------
(***************************************************************************)
(* What the internal stock ledger promises (docs/domain-boundaries.md): an *)
(* inbound order is created, counted once by the warehouse and confirmed   *)
(* once by operations; only the confirmation posts the accepted quantities *)
(* and moves the balances, both at once and by the same amounts.           *)
(*                                                                         *)
(* InboundLedger is shown to implement this module when requests are       *)
(* served one at a time.                                                   *)
(***************************************************************************)
EXTENDS Integers

CONSTANTS Orders, Skus, LinesOf, None

VARIABLES status, accepted, posted, onHand

ledgerVars == <<status, accepted, posted, onHand>>

LedgerInit ==
    /\ status = [o \in Orders |-> "absent"]
    /\ accepted = [o \in Orders |-> [s \in Skus |-> 0]]
    /\ posted = [o \in Orders |-> [s \in Skus |-> None]]
    /\ onHand = [s \in Skus |-> 0]

Create(o) ==
    /\ status[o] = "absent"
    /\ status' = [status EXCEPT ![o] = "expected"]
    /\ UNCHANGED <<accepted, posted, onHand>>

(* The count is fixed once and for all, and moves no stock.                *)
Receive(o) ==
    /\ status[o] = "expected"
    /\ status' = [status EXCEPT ![o] = "received"]
    /\ \A p \in Orders \ {o} : accepted'[p] = accepted[p]
    /\ \A s \in Skus : accepted'[o][s] >= 0
    /\ UNCHANGED <<posted, onHand>>

Confirm(o) ==
    /\ status[o] = "received"
    /\ status' = [status EXCEPT ![o] = "confirmed"]
    /\ posted' = [posted EXCEPT ![o] =
                    [s \in Skus |-> IF s \in LinesOf[o] THEN accepted[o][s] ELSE None]]
    /\ onHand' = [s \in Skus |->
                    IF s \in LinesOf[o] THEN onHand[s] + accepted[o][s] ELSE onHand[s]]
    /\ UNCHANGED accepted

LedgerNext == \E o \in Orders : Create(o) \/ Receive(o) \/ Confirm(o)

LedgerSpec == LedgerInit /\ [][LedgerNext]_ledgerVars
=============================================================================
