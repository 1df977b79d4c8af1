--------------------------- MODULE InboundLedger ---------------------------
(***************************************************************************)
(* Inbound orders and the stock they post: create_inbound, receive_inbound *)
(* and confirm_inbound (app/repository.py) as the API routes of            *)
(* app/main.py call them.                                                  *)
(*                                                                         *)
(* Every request runs in a thread and a session of its own.  What it reads *)
(* it keeps (expire_on_commit=False, and a second SELECT does not refresh  *)
(* an object of the identity map); what it writes are the attributes that  *)
(* differ from the ones it loaded, by primary key, in one commit.  Other   *)
(* requests commit between its reads and its commit.  The first flush of a *)
(* transaction takes the write lock of the database until the commit.      *)
(*                                                                         *)
(* There is one warehouse and one workspace; a sku stands for the line of  *)
(* an order that names it, and lines are processed in the order of skus.   *)
(***************************************************************************)
EXTENDS Integers, FiniteSets, Functions

CONSTANTS
    Orders,     \* inbound orders
    Skus,       \* numbers, in the order of the lines
    Clients,    \* requests that may be in progress at once
    None,       \* NULL
    LinesOf,    \* the skus an order expects
    Requested,  \* requested_qty of the purchase request behind an order, or None
    Payloads    \* bodies of receive requests

Quantity == [received : Nat, damaged : Nat, priced : BOOLEAN]

Entry == [delta : Int, priced : BOOLEAN]

Posting == [delta : Int, priced : BOOLEAN, was : Int \cup {None}]

ASSUME InboundAssumption ==
    /\ Skus \subseteq Nat
    /\ LinesOf \in [Orders -> SUBSET Skus] /\ \A o \in Orders : IsFiniteSet(LinesOf[o])
    /\ Requested \in [Orders -> [Skus -> Nat] \cup {None}]
    /\ \A p \in Payloads : DOMAIN p \subseteq Skus /\ p \in [DOMAIN p -> Quantity]
    /\ None \notin Payloads /\ None \notin Orders /\ None \notin Clients
    /\ None \notin Int /\ None \notin [Skus -> Nat]
    /\ None \notin Entry /\ None \notin Posting

VARIABLES
    order,    \* inbound_orders.status
    line,     \* inbound_lines: received, damaged, and whether unit_cost is known
    ledger,   \* inventory_transactions, by order and sku
    balance,  \* inventory_balances.on_hand_qty by sku, None when there is no row
    req,      \* what each request asks for
    pc,       \* where it is
    seen,     \* the order and the lines it has loaded
    todo,     \* the lines a confirmation has still to look at
    plan,     \* the postings it is going to write, by sku
    holder,   \* the request that holds the write lock
    serial    \* requests are served one at a time

clientVars == <<req, pc, seen, todo, plan, holder>>
vars == <<order, line, ledger, balance, clientVars, serial>>

NoLine == [received |-> 0, damaged |-> 0, priced |-> FALSE]
NoRequest == [op |-> "none", o |-> None, payload |-> None]
NothingSeen == [order |-> "absent", lines |-> [s \in Skus |-> NoLine]]
NoPlan == [s \in Skus |-> None]

Status == {"absent", "expected", "received", "confirmed"}

TypeOK ==
    /\ order \in [Orders -> Status]
    /\ line \in [Orders -> [Skus -> Quantity]]
    /\ ledger \in [Orders -> [Skus -> Entry \cup {None}]]
    /\ balance \in [Skus -> Int \cup {None}]
    /\ req \in [Clients -> [op : {"none", "receive", "confirm"}, o : Orders \cup {None},
                            payload : Payloads \cup {None}]]
    /\ pc \in [Clients -> {"idle", "lines", "write", "post", "flush"}]
    /\ seen \in [Clients -> [order : Status, lines : [Skus -> Quantity]]]
    /\ todo \in [Clients -> SUBSET Skus]
    /\ plan \in [Clients -> [Skus -> Posting \cup {None}]]
    /\ holder \in Clients \cup {None}
    /\ \A c \in Clients :
          /\ pc[c] = "idle" => req[c] = NoRequest
          /\ pc[c] \notin {"post", "flush"} => todo[c] = {} /\ plan[c] = NoPlan /\ holder # c
          /\ pc[c] \in {"post", "flush"} => req[c].o # None
    /\ serial \in BOOLEAN

-----------------------------------------------------------------------------
(* Requests *)

(* The request is answered, or fails and is rolled back.                   *)
Finish(c) ==
    /\ req' = [req EXCEPT ![c] = NoRequest]
    /\ pc' = [pc EXCEPT ![c] = "idle"]
    /\ seen' = [seen EXCEPT ![c] = NothingSeen]
    /\ todo' = [todo EXCEPT ![c] = {}]
    /\ plan' = [plan EXCEPT ![c] = NoPlan]
    /\ holder' = IF holder = c THEN None ELSE holder

Goto(c, p) == pc' = [pc EXCEPT ![c] = p]

(* No other transaction holds the write lock.                              *)
WriteFree(c) == holder \in {None, c}

CreateInbound(o) ==
    /\ order[o] = "absent" /\ holder = None
    /\ order' = [order EXCEPT ![o] = "expected"]
    /\ UNCHANGED <<line, ledger, balance, clientVars, serial>>

(* The routes load the order to check access to its warehouse.             *)
ReadOrder(c, op, o, payload) ==
    /\ pc[c] = "idle" /\ order[o] # "absent"
    /\ serial => \A d \in Clients : pc[d] = "idle"
    /\ req' = [req EXCEPT ![c] = [op |-> op, o |-> o, payload |-> payload]]
    /\ seen' = [seen EXCEPT ![c].order = order[o]]
    /\ Goto(c, "lines")
    /\ UNCHANGED <<order, line, ledger, balance, todo, plan, holder, serial>>

StartReceive(c) ==
    \E o \in Orders, p \in Payloads : ReadOrder(c, "receive", o, p)

StartConfirm(c) ==
    \E o \in Orders : ReadOrder(c, "confirm", o, None)

(* A request dies, or a database error rolls it back.                      *)
Abandon(c) ==
    /\ pc[c] # "idle"
    /\ Finish(c)
    /\ UNCHANGED <<order, line, ledger, balance, serial>>

-----------------------------------------------------------------------------
(* receive_inbound *)

(* Mutant of Valid: the purchase request is not consulted.                 *)
ValidUnlinked(o, p) ==
    /\ DOMAIN p = LinesOf[o]
    /\ \A s \in DOMAIN p : p[s].damaged <= p[s].received

(* Every line is counted, damage is part of what was received, and an      *)
(* order that comes from a purchase request gets at most what it asked for.*)
Valid(o, p) ==
    /\ DOMAIN p = LinesOf[o]
    /\ \A s \in DOMAIN p : /\ p[s].damaged <= p[s].received
                           /\ Requested[o] # None => p[s].received <= Requested[o][s]

(* Answered without writing: a malformed count, or an order that has been  *)
(* counted (its key and payload hash only decide how it is answered).      *)
ReceiveRefused(c) ==
    LET r == req[c] IN
    /\ pc[c] = "lines" /\ r.op = "receive"
    /\ seen[c].order # "expected" \/ ~Valid(r.o, r.payload)
    /\ Finish(c)
    /\ UNCHANGED <<order, line, ledger, balance, serial>>

ReadLines(c) ==
    LET r == req[c] IN
    /\ pc[c] = "lines"
    /\ \/ /\ r.op = "receive"
          /\ seen[c].order = "expected" /\ Valid(r.o, r.payload)
          /\ Goto(c, "write")
          /\ UNCHANGED todo
       \/ /\ r.op = "confirm" /\ seen[c].order = "received"
          /\ Goto(c, "post")
          /\ todo' = [todo EXCEPT ![c] = LinesOf[r.o]]
    /\ seen' = [seen EXCEPT ![c].lines = line[r.o]]
    /\ UNCHANGED <<order, line, ledger, balance, req, plan, holder, serial>>

Emit(stored, loaded, dirty) == IF dirty = loaded THEN stored ELSE dirty

(* The attributes of a line that the count p changes; a price is only set. *)
Reported(stored, loaded, p) ==
    [received |-> Emit(stored.received, loaded.received, p.received),
     damaged  |-> Emit(stored.damaged, loaded.damaged, p.damaged),
     priced   |-> stored.priced \/ p.priced]

(* The commit of receive_inbound.                                          *)
CommitReceive(c) ==
    LET o == req[c].o  p == req[c].payload IN
    /\ pc[c] = "write" /\ WriteFree(c)
    /\ line' = [line EXCEPT ![o] = [s \in Skus |->
                  IF s \in DOMAIN p THEN Reported(@[s], seen[c].lines[s], p[s]) ELSE @[s]]]
    /\ order' = [order EXCEPT ![o] = "received"]
    /\ Finish(c)
    /\ UNCHANGED <<ledger, balance, serial>>

-----------------------------------------------------------------------------
(* confirm_inbound *)

(* A confirmed order is answered as it is; any other but received is refused. *)
ConfirmRefused(c) ==
    /\ pc[c] = "lines" /\ req[c].op = "confirm"
    /\ seen[c].order # "received"
    /\ Finish(c)
    /\ UNCHANGED <<order, line, ledger, balance, serial>>

(* One turn of the loop over the lines: a line that has no transaction yet *)
(* gets one, and its balance is read.                                      *)
PlanLine(c) ==
    LET o == req[c].o IN
    \E s \in todo[c] :
        LET x == seen[c].lines[s] IN
        /\ pc[c] = "post" /\ \A t \in todo[c] : s <= t
        /\ todo' = [todo EXCEPT ![c] = @ \ {s}]
        /\ IF ledger[o][s] # None
           THEN UNCHANGED <<plan, pc>>
           ELSE /\ plan' = [plan EXCEPT ![c][s] =
                      [delta |-> x.received - x.damaged, priced |-> x.priced, was |-> balance[s]]]
                /\ Goto(c, IF x.priced THEN "flush" ELSE "post")
        /\ UNCHANGED <<order, line, ledger, balance, req, seen, holder, serial>>

(* Mutant of Planned: a line that moves nothing is not posted.             *)
PlannedMoves(c) == {s \in Skus : plan[c][s] # None /\ plan[c][s].delta # 0}

Planned(c) == {s \in Skus : plan[c][s] # None}

(* Mutant of Conflict: the transactions have no unique key.                *)
BalanceConflict(c) == \E s \in Planned(c) : plan[c][s].was = None /\ balance[s] # None

(* A unique constraint fails: the transaction, or the balance row, has     *)
(* been inserted by another request since it was looked for.               *)
Conflict(c) ==
    \E s \in Planned(c) : \/ ledger[req[c].o][s] # None
                          \/ plan[c][s].was = None /\ balance[s] # None

(* create_cost_snapshot flushes the postings planned so far.               *)
FlushPlan(c) ==
    /\ pc[c] = "flush" /\ WriteFree(c) /\ ~Conflict(c)
    /\ holder' = c
    /\ Goto(c, "post")
    /\ UNCHANGED <<order, line, ledger, balance, req, seen, todo, plan, serial>>

(* The flush or the commit fails and everything is rolled back.            *)
ConfirmFails(c) ==
    /\ \/ pc[c] = "flush"
       \/ pc[c] = "post" /\ todo[c] = {}
    /\ WriteFree(c) /\ Conflict(c)
    /\ Finish(c)
    /\ UNCHANGED <<order, line, ledger, balance, serial>>

(* Mutant of NewBalance: the balance is set, not raised.                   *)
BalanceReplaced(stored, posting) == posting.delta

(* balance.on_hand_qty += accepted, on the balance as it was read.         *)
NewBalance(stored, posting) ==
    IF posting.was = None THEN posting.delta
    ELSE Emit(stored, posting.was, posting.was + posting.delta)

(* The commit: transactions, balances and the status together.             *)
CommitConfirm(c) ==
    LET o == req[c].o IN
    /\ pc[c] = "post" /\ todo[c] = {} /\ WriteFree(c) /\ ~Conflict(c)
    /\ ledger' = [ledger EXCEPT ![o] = [s \in Skus |->
                    IF s \in Planned(c)
                    THEN [delta |-> plan[c][s].delta, priced |-> plan[c][s].priced]
                    ELSE @[s]]]
    /\ balance' = [s \in Skus |->
                    IF s \in Planned(c) THEN NewBalance(balance[s], plan[c][s]) ELSE balance[s]]
    /\ order' = [order EXCEPT ![o] = "confirmed"]
    /\ Finish(c)
    /\ UNCHANGED <<line, serial>>

-----------------------------------------------------------------------------

Init ==
    /\ order = [o \in Orders |-> "absent"]
    /\ line = [o \in Orders |-> [s \in Skus |-> NoLine]]
    /\ ledger = [o \in Orders |-> [s \in Skus |-> None]]
    /\ balance = [s \in Skus |-> None]
    /\ req = [c \in Clients |-> NoRequest]
    /\ pc = [c \in Clients |-> "idle"]
    /\ seen = [c \in Clients |-> NothingSeen]
    /\ todo = [c \in Clients |-> {}]
    /\ plan = [c \in Clients |-> NoPlan]
    /\ holder = None
    /\ serial \in BOOLEAN

Handle(c) ==
    \/ StartReceive(c) \/ StartConfirm(c) \/ Abandon(c)
    \/ ReadLines(c) \/ ReceiveRefused(c) \/ CommitReceive(c)
    \/ ConfirmRefused(c) \/ PlanLine(c) \/ FlushPlan(c) \/ ConfirmFails(c)
    \/ CommitConfirm(c)

Next ==
    \/ \E o \in Orders : CreateInbound(o)
    \/ \E c \in Clients : Handle(c)

Spec == Init /\ [][Next]_vars
-----------------------------------------------------------------------------
(* Properties *)

Posted(o) == {s \in Skus : ledger[o][s] # None}

(* An order is posted whole or not at all, only after it was counted, and  *)
(* a confirmed order is posted, whatever the requests that raced for it.   *)
PostedWhole ==
    \A o \in Orders :
        /\ Posted(o) \in {{}, LinesOf[o]}
        /\ Posted(o) # {} => order[o] \in {"received", "confirmed"}
        /\ order[o] = "confirmed" => Posted(o) = LinesOf[o]

(* The stock transactions are append-only: no line of an order is posted   *)
(* twice, and no posting changes (uq_inventory_transaction_workspace_key). *)
LedgerAppendOnly ==
    [][\A o \in Orders, s \in Skus : ledger[o][s] # None => ledger'[o][s] = ledger[o][s]]_vars

(* What is posted for an order that comes from a purchase request is at    *)
(* most what was requested, torn counts included (OVER_RECEIVING_FORBIDDEN). *)
PostedWithinRequest ==
    \A o \in Orders, s \in Skus :
        s \in Posted(o) /\ Requested[o] # None => ledger[o][s].delta <= Requested[o][s]

PostedSum(s) == SumFunction([o \in {x \in Orders : ledger[x][s] # None} |-> ledger[o][s].delta])

(* What get_receipt_progress_for_request tells of the request behind an    *)
(* order: the lines count once the order is received.                      *)
ReceiptProgress(o) ==
    LET counted == order[o] \in {"received", "confirmed"}
        got == [s \in LinesOf[o] |-> IF counted THEN line[o][s].received ELSE 0]
        taken == [s \in LinesOf[o] |-> IF counted THEN line[o][s].received - line[o][s].damaged ELSE 0]
        missing == [s \in LinesOf[o] |->
                      IF got[s] < Requested[o][s] THEN Requested[o][s] - got[s] ELSE 0]
        requested == SumFunctionOnSet(Requested[o], LinesOf[o])
        received == SumFunction(got)
    IN [status |-> IF received = 0 THEN "pending"
                   ELSE IF received < requested THEN "partial" ELSE "completed",
        remaining |-> SumFunction(missing),
        accepted |-> SumFunction(taken)]

(* A request is reported as completed only when every line of it has come  *)
(* in full, also when counts race: too much of one line never makes up for *)
(* another.  Requests served one by one, what a confirmed order reports as *)
(* accepted is what was posted.                                            *)
ProgressIsTrue ==
    \A o \in {x \in Orders : Requested[x] # None} :
        LET p == ReceiptProgress(o)
        IN /\ p.status = "completed" => p.remaining = 0
           /\ serial /\ order[o] = "confirmed" =>
                  p.accepted = SumFunction([s \in Posted(o) |-> ledger[o][s].delta])

(* Racing confirmations may lose stock but never invent any, as long as no *)
(* negative quantity was posted; served one by one, they lose none either. *)
(* The progress that is read from the counts agrees.                       *)
StockIsPosted ==
    /\ ProgressIsTrue
    /\ \A s \in Skus :
          LET b == IF balance[s] = None THEN 0 ELSE balance[s] IN
          /\ (\A o \in Orders : s \in Posted(o) => ledger[o][s].delta >= 0) => b <= PostedSum(s)
          /\ serial => b = PostedSum(s)

Stock == INSTANCE StockLedger WITH
            status   <- order,
            accepted <- [o \in Orders |-> [s \in Skus |-> line[o][s].received - line[o][s].damaged]],
            posted   <- [o \in Orders |-> [s \in Skus |->
                           IF ledger[o][s] = None THEN None ELSE ledger[o][s].delta]],
            onHand   <- [s \in Skus |-> IF balance[s] = None THEN 0 ELSE balance[s]]

(* Served one at a time, requests implement the ledger: a count is final,  *)
(* only a confirmation moves stock, by exactly the accepted quantities.    *)
ImplementsLedger == Stock!LedgerInit /\ [][serial => Stock!LedgerNext]_(Stock!ledgerVars)
=============================================================================
