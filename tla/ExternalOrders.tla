--------------------------- MODULE ExternalOrders ---------------------------
(***************************************************************************)
(* External orders, their lines with the cost each is anchored to, the     *)
(* product mappings, the cost snapshots and the daily sales:               *)
(* app/external_orders.py, app/costs.py and the routes that call them.     *)
(*                                                                         *)
(* A call ingests a batch of events.  It SELECTs the order of an event and *)
(* then its lines without a lock; the first DELETE or INSERT takes the     *)
(* write lock of the database, and from there on nothing comes between the *)
(* call and its commit.  The attributes of a loaded order are emitted only *)
(* where they differ from what was loaded; lines are deleted and inserted  *)
(* again.  An event is its payload: two events are equal exactly when their*)
(* hashes are.  A batch has one event per order: rows of one order have    *)
(* been merged, equal copies answer no_op, and contradicting ones refuse   *)
(* the batch before anything is written.                                   *)
(***************************************************************************)
EXTENDS Integers, FiniteSets, Functions

CONSTANTS
    Orders,    \* external_order_no
    LineIds,   \* external_line_id
    ESkus,     \* external_sku
    Skus,      \* internal skus
    Events,    \* what the platforms may report
    Prices,    \* the cost snapshots somebody may record
    Clients,   \* calls in progress
    MaxBatch,  \* bound on the events of a batch
    Racing,    \* the events that are ingested when calls overlap
    None

Item == [esku : ESkus, ordered : Nat, refunded : Nat]

(* version is event_version, or None when the platform sends none; updated *)
(* and created are external_updated_at and external_created_at.            *)
IsEvent(e) ==
    /\ DOMAIN e = {"order", "version", "updated", "created", "sale", "items"}
    /\ e.order \in Orders /\ e.version \in Nat \cup {None}
    /\ e.updated \in Nat /\ e.created \in Nat /\ e.sale \in BOOLEAN
    /\ DOMAIN e.items \subseteq LineIds /\ e.items \in [DOMAIN e.items -> Item]

Price == [id : Nat, sku : Skus, from : Nat, cost : Nat]

ASSUME OrdersAssumption ==
    /\ \A e \in Events : IsEvent(e)
    /\ Prices \subseteq Price
    /\ \A p, q \in Prices : p.id = q.id => p = q
    /\ MaxBatch \in Nat /\ Racing \subseteq Events
    /\ None \notin Nat /\ None \notin Skus /\ None \notin Events
    /\ None \notin Prices /\ None \notin ESkus

Statuses == {"missing", "unmapped", "resolved", "backfilled"}
Anchored == {"resolved", "backfilled"}

OrderRow == [event : Events, version : Nat \cup {None}, updated : Nat, created : Nat, sale : BOOLEAN]
LineRow == [esku : ESkus, sku : Skus \cup {None}, ordered : Nat, refunded : Nat,
            status : Statuses, cost : Prices \cup {None}]
NoOrder == [event |-> None]
NoLine == [esku |-> None]
NoLines == [l \in LineIds |-> NoLine]

VARIABLES
    serial,     \* whether calls are served one at a time
    orders,     \* external_orders
    lines,      \* external_order_lines
    mapping,    \* external_product_mappings: the sku, or None
    snaps,      \* cost_snapshots
    daily,      \* daily_sku_sales: net quantity by sku and day
    delivered,  \* history: the events a call has judged
    pc,         \* where a call is: idle, look, lines, write, rebuild or replace
    batch,      \* the events it has still to look at
    head,       \* the event it is at, or the sku it rebuilds
    loaded,     \* the orders its session holds
    seenLines,  \* the lines of the order of head as it loaded them
    plan        \* the daily rows it has computed

callVars == <<pc, batch, head, loaded, seenLines, plan>>
bookVars == <<orders, lines, mapping, snaps, daily, delivered>>
vars == <<serial, bookVars, callVars>>

NothingLoaded == [o \in Orders |-> NoOrder]

TypeOK ==
    /\ serial \in BOOLEAN
    /\ orders \in [Orders -> OrderRow \cup {NoOrder}]
    /\ lines \in [Orders -> [LineIds -> LineRow \cup {NoLine}]]
    /\ mapping \in [ESkus -> Skus \cup {None}]
    /\ snaps \subseteq Prices
    /\ DOMAIN daily = ESkus
    /\ delivered \subseteq Events
    /\ pc \in [Clients -> {"idle", "look", "lines", "write", "rebuild", "replace"}]
    /\ batch \in [Clients -> SUBSET Events]
    /\ head \in [Clients -> Events \cup ESkus \cup {None}]
    /\ \A c \in Clients : pc[c] \in {"lines", "write"} => head[c] \in Events
    /\ loaded \in [Clients -> [Orders -> OrderRow \cup {NoOrder}]]
    /\ seenLines \in [Clients -> [LineIds -> LineRow \cup {NoLine}]]

-----------------------------------------------------------------------------
(* One event against the order it is about *)

(* Mutant of Newer: the version is not looked at.                          *)
NewerByTime(e, row) == e.updated > row.updated

(* A version decides when the event has one, the time when it has none.    *)
Newer(e, row) ==
    IF e.version = None THEN e.updated > row.updated
    ELSE row.version # None => e.version > row.version

Applies(e, row) == row # NoOrder => row.event # e /\ Newer(e, row)

RowOf(e) == [event |-> e, version |-> e.version, updated |-> e.updated,
             created |-> e.created, sale |-> e.sale]

(* An UPDATE emits what differs from the loaded object.                    *)
Flushed(stored, seen, new) ==
    [f \in DOMAIN new |-> IF new[f] = seen[f] THEN stored[f] ELSE new[f]]

-----------------------------------------------------------------------------
(* Costs *)

(* The latest snapshot of a sku in force at a time; the last recorded one  *)
(* of those that start together.                                           *)
AsOf(sku, at) ==
    LET known == {p \in snaps : p.sku = sku /\ p.from <= at}
    IN IF known = {} THEN None
       ELSE CHOOSE p \in known : \A q \in known :
                q.from < p.from \/ (q.from = p.from /\ q.id <= p.id)

(* Mutant of Inherits: a backfilled cost is looked up again.               *)
InheritsResolved(old, esku) == old # NoLine /\ old.status = "resolved" /\ old.esku = esku

Inherits(old, esku) == old # NoLine /\ old.status \in Anchored /\ old.esku = esku

(* A line as it is inserted again: without a sku it has no cost; an        *)
(* anchored one keeps its own; any other is looked up.                     *)
Inserted(item, old, at) ==
    LET sku == mapping[item.esku]
        hit == AsOf(sku, at)
        row(status, cost) == [esku |-> item.esku, sku |-> sku, ordered |-> item.ordered,
                              refunded |-> item.refunded, status |-> status, cost |-> cost]
    IN IF sku = None THEN row("unmapped", None)
       ELSE IF Inherits(old, item.esku) THEN row(old.status, old.cost)
       ELSE row(IF hit = None THEN "missing" ELSE "resolved", hit)

LinesOf(e, old) ==
    [l \in LineIds |-> IF l \in DOMAIN e.items THEN Inserted(e.items[l], old[l], e.created)
                       ELSE NoLine]

-----------------------------------------------------------------------------
(* Daily sales *)

Net(order, line) ==
    IF order.sale /\ line.ordered > line.refunded THEN line.ordered - line.refunded ELSE 0

(* The lines of a sku on a day, and what each of them counts.              *)
SoldOn(os, ls, s, day) ==
    {ol \in Orders \X LineIds :
        /\ os[ol[1]] # NoOrder /\ os[ol[1]].created = day
        /\ ls[ol[1]][ol[2]].esku = s}

NetOn(os, ls, s, day) ==
    [ol \in SoldOn(os, ls, s, day) |-> Net(os[ol[1]], ls[ol[1]][ol[2]])]

(* The days on which a sku has lines, with what they sum up to.            *)
SalesOf(os, ls, s) ==
    LET days == {os[o].created : o \in {x \in Orders : os[x] # NoOrder}}
    IN [d \in {x \in days : SoldOn(os, ls, s, x) # {}} |-> SumFunction(NetOn(os, ls, s, d))]

(* Mutant of Touched: the skus of the new lines only.                      *)
TouchedByNewLines(old, e) == {e.items[l].esku : l \in DOMAIN e.items}

(* The skus whose sales an event touches: the old lines' and the new ones'.*)
Touched(old, e) == {old[l].esku : l \in {x \in LineIds : old[x] # NoLine}}
                   \cup {e.items[l].esku : l \in DOMAIN e.items}

-----------------------------------------------------------------------------
(* Calls *)

Init ==
    /\ serial \in BOOLEAN
    /\ orders = NothingLoaded
    /\ lines = [o \in Orders |-> NoLines]
    /\ mapping = [s \in ESkus |-> None]
    /\ snaps = {}
    /\ daily = [s \in ESkus |-> << >>]
    /\ delivered = {}
    /\ pc = [c \in Clients |-> "idle"]
    /\ batch = [c \in Clients |-> {}]
    /\ head = [c \in Clients |-> None]
    /\ loaded = [c \in Clients |-> NothingLoaded]
    /\ seenLines = [c \in Clients |-> NoLines]
    /\ plan = [c \in Clients |-> << >>]

MayBegin(c) == pc[c] = "idle" /\ (serial => \A d \in Clients : pc[d] = "idle")

Finish(c) ==
    /\ pc' = [pc EXCEPT ![c] = "idle"]
    /\ batch' = [batch EXCEPT ![c] = {}]
    /\ head' = [head EXCEPT ![c] = None]
    /\ loaded' = [loaded EXCEPT ![c] = NothingLoaded]
    /\ seenLines' = [seenLines EXCEPT ![c] = NoLines]
    /\ plan' = [plan EXCEPT ![c] = << >>]

(* A call dies, or is refused; its transaction is rolled back.             *)
Abandon(c) ==
    /\ pc[c] # "idle"
    /\ Finish(c)
    /\ UNCHANGED <<serial, bookVars>>

StartIngest(c) ==
    /\ MayBegin(c)
    /\ \E b \in SUBSET (IF serial THEN Events ELSE Racing) :
          /\ b # {} /\ Cardinality(b) <= MaxBatch
          /\ \A e, f \in b : e.order = f.order => e = f
          /\ batch' = [batch EXCEPT ![c] = b]
    /\ pc' = [pc EXCEPT ![c] = "look"]
    /\ UNCHANGED <<serial, bookVars, head, loaded, seenLines, plan>>

(* The order of the next event is loaded; the event is one to write.       *)
LookAndWrite(c) ==
    \E e \in batch[c] :
        /\ pc[c] = "look" /\ Applies(e, orders[e.order])
        /\ head' = [head EXCEPT ![c] = e]
        /\ loaded' = [loaded EXCEPT ![c][e.order] = orders[e.order]]
        /\ pc' = [pc EXCEPT ![c] = IF orders[e.order] = NoOrder THEN "write" ELSE "lines"]
        /\ UNCHANGED <<serial, bookVars, batch, seenLines, plan>>

(* It answers no_op, or it is stale.                                       *)
LookAndSkip(c) ==
    \E e \in batch[c] :
        /\ pc[c] = "look" /\ ~Applies(e, orders[e.order])
        /\ delivered' = delivered \cup {e}
        /\ IF batch[c] = {e} THEN Finish(c)
           ELSE /\ batch' = [batch EXCEPT ![c] = @ \ {e}]
                /\ loaded' = [loaded EXCEPT ![c][e.order] = orders[e.order]]
                /\ UNCHANGED <<pc, head, seenLines, plan>>
        /\ UNCHANGED <<serial, orders, lines, mapping, snaps, daily>>

LoadLines(c) ==
    /\ pc[c] = "lines"
    /\ seenLines' = [seenLines EXCEPT ![c] = lines[head[c].order]]
    /\ pc' = [pc EXCEPT ![c] = "write"]
    /\ UNCHANGED <<serial, bookVars, batch, head, loaded, plan>>

(* The events of a batch that are written: the one that was looked at and  *)
(* those of the rest that apply to what the database then holds.           *)
Written(c) == {head[c]} \cup {e \in batch[c] \ {head[c]} : Applies(e, orders[e.order])}

(* The first write of the call and everything up to its commit.  Another   *)
(* call's order of the same number fails the insert (Abandon).             *)
WriteBatch(c) ==
    LET h == head[c]
        seen == loaded[c][h.order]
        written == Written(c)
        event(o) == CHOOSE e \in written : e.order = o
        isWritten(o) == \E e \in written : e.order = o
        old(o) == IF o = h.order THEN seenLines[c] ELSE lines[o]
        newLines == [o \in Orders |-> IF isWritten(o) THEN LinesOf(event(o), old(o)) ELSE lines[o]]
        memory == [o \in Orders |->
                      IF isWritten(o) THEN RowOf(event(o))
                      ELSE IF loaded[c][o] # NoOrder THEN loaded[c][o] ELSE orders[o]]
        touched == UNION {Touched(old(e.order), e) : e \in written}
    IN /\ pc[c] = "write"
       /\ seen = NoOrder => orders[h.order] = NoOrder
       /\ orders' = [o \in Orders |->
                        IF ~isWritten(o) THEN orders[o]
                        ELSE IF o = h.order /\ seen # NoOrder
                             THEN Flushed(orders[o], seen, RowOf(h))
                             ELSE RowOf(event(o))]
       /\ lines' = newLines
       /\ daily' = [s \in ESkus |-> IF s \in touched THEN SalesOf(memory, newLines, s)
                                    ELSE daily[s]]
       /\ delivered' = delivered \cup batch[c]
       /\ Finish(c)
       /\ UNCHANGED <<serial, mapping, snaps>>

-----------------------------------------------------------------------------
(* Mappings: one commit, and the sales are rebuilt in another. *)

SetProductMapping(c) ==
    /\ MayBegin(c)
    /\ \E s \in ESkus, k \in Skus \cup {None} :
          /\ mapping' = [mapping EXCEPT ![s] = k]
          /\ head' = [head EXCEPT ![c] = s]
    /\ pc' = [pc EXCEPT ![c] = "rebuild"]
    /\ UNCHANGED <<serial, orders, lines, snaps, daily, delivered, batch, loaded, seenLines, plan>>

RebuildSales(c) ==
    /\ pc[c] = "rebuild"
    /\ plan' = [plan EXCEPT ![c] = SalesOf(orders, lines, head[c])]
    /\ pc' = [pc EXCEPT ![c] = "replace"]
    /\ UNCHANGED <<serial, bookVars, batch, head, loaded, seenLines>>

ReplaceSales(c) ==
    /\ pc[c] = "replace"
    /\ daily' = [daily EXCEPT ![head[c]] = plan[c]]
    /\ Finish(c)
    /\ UNCHANGED <<serial, orders, lines, mapping, snaps, delivered>>

-----------------------------------------------------------------------------
(* Costs *)

RecordCost ==
    \E p \in Prices \ snaps :
        /\ snaps' = snaps \cup {p}
        /\ UNCHANGED <<serial, orders, lines, mapping, daily, delivered, callVars>>

(* A cost file: a row names its sku by the sku's own code or by one that   *)
(* is mapped to it, and is left out when it names none, or was recorded.   *)
Named(file, own) == {p \in file : own \/ \E s \in ESkus : mapping[s] = p.sku}

ImportCosts ==
    \E file \in SUBSET Prices, own \in BOOLEAN :
        /\ IsFiniteSet(file) /\ ~(Named(file, own) \subseteq snaps)
        /\ snaps' = snaps \cup Named(file, own)
        /\ UNCHANGED <<serial, orders, lines, mapping, daily, delivered, callVars>>

Gap(p, at) == IF p.from > at THEN p.from - at ELSE at - p.from

(* The snapshot a line without a cost is given: the first after its sale,  *)
(* or the nearest, the earlier of two as near.                             *)
BackfillOf(sku, at, mode) ==
    LET all == {p \in snaps : p.sku = sku}
        later == {p \in all : p.from > at}
        earlier(p, q) == p.from < q.from \/ (p.from = q.from /\ p.id <= q.id)
    IN IF mode = "next_after_sale"
       THEN IF later = {} THEN None ELSE CHOOSE p \in later : \A q \in later : earlier(p, q)
       ELSE IF all = {} THEN None
            ELSE CHOOSE p \in all : \A q \in all :
                     \/ Gap(p, at) < Gap(q, at)
                     \/ Gap(p, at) = Gap(q, at) /\ earlier(p, q)

ToBackfill(line, scope) == line # NoLine /\ line.status = "missing" /\ line.sku \in scope

(* The backfill of a set of skus, with its reads and its commit one step.  *)
BackfillCosts ==
    \E scope \in SUBSET Skus, mode \in {"next_after_sale", "nearest"} :
        LET hit(o, l) == BackfillOf(lines[o][l].sku, orders[o].created, mode)
        IN /\ serial => \A c \in Clients : pc[c] = "idle"
           /\ lines' = [o \in Orders |-> [l \in LineIds |->
                           IF ToBackfill(lines[o][l], scope) /\ hit(o, l) # None
                           THEN [lines[o][l] EXCEPT !.status = "backfilled", !.cost = hit(o, l)]
                           ELSE lines[o][l]]]
           /\ lines' # lines
           /\ UNCHANGED <<serial, orders, mapping, snaps, daily, delivered, callVars>>

Next ==
    \/ RecordCost \/ ImportCosts \/ BackfillCosts
    \/ \E c \in Clients :
          \/ StartIngest(c) \/ LookAndWrite(c) \/ LookAndSkip(c) \/ LoadLines(c)
          \/ WriteBatch(c) \/ Abandon(c)
          \/ SetProductMapping(c) \/ RebuildSales(c) \/ ReplaceSales(c)

Spec == Init /\ [][Next]_vars

-----------------------------------------------------------------------------
(* Properties *)

(* The events of an order can be compared: all carry a version or none.    *)
Comparable(o) ==
    \/ \A e \in Events : e.order = o => e.version # None
    \/ \A e \in Events : e.order = o => e.version = None

(* Whatever the order in which the events of an order arrive, and in which *)
(* batches, none that was judged is later than the one that is stored, by  *)
(* its version or by its time: a late older event never replaces a newer.  *)
LatestIsStored ==
    serial => \A e \in delivered :
        LET row == orders[e.order]
        IN Comparable(e.order) =>
               /\ row # NoOrder
               /\ IF e.version = None THEN e.updated <= row.updated ELSE e.version <= row.version

(* The lines of an order are those of the payload it stores, whole, also   *)
(* when two calls overlap: never lines of two events side by side.         *)
LinesAreOfThePayload ==
    \A o \in Orders, l \in LineIds :
        LET items == IF orders[o] = NoOrder THEN << >> ELSE orders[o].event.items
        IN IF l \in DOMAIN items
           THEN /\ lines[o][l].esku = items[l].esku
                /\ lines[o][l].ordered = items[l].ordered
                /\ lines[o][l].refunded = items[l].refunded
           ELSE lines[o][l] = NoLine

(* An order is the latest that was delivered, with the lines it has there. *)
OrdersAreTheLatest == LatestIsStored /\ LinesAreOfThePayload

(* The daily sales of a sku are the sums over the lines in the database,   *)
(* also after an update that drops a sku from an order or moves its day.   *)
SalesEqualLines ==
    serial => \A s \in ESkus : daily[s] = SalesOf(orders, lines, s)

(* The cost a line is anchored to survives each later update of its order, *)
(* mapping change and backfill, as long as the line stays and has a sku.   *)
KeepsAnchor(o, l) ==
    lines[o][l] # NoLine /\ lines[o][l].status \in Anchored
        => \/ lines'[o][l] = NoLine
           \/ lines'[o][l].esku # lines[o][l].esku
           \/ lines'[o][l].sku = None
           \/ /\ lines'[o][l].status = lines[o][l].status
              /\ lines'[o][l].cost = lines[o][l].cost

AnchorsAreFinal == [][serial => \A o \in Orders, l \in LineIds : KeepsAnchor(o, l)]_vars
=============================================================================
