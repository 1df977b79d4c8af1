----------------------------- MODULE OrdersProofs -----------------------------
(***************************************************************************)
(* Proofs about the way of sales data, one section for each: any events,   *)
(* prices and calls (ExternalOrders), any evidence (SourceQuality), any    *)
(* batches and receivers (EventInbox), any file (FileImport), any lines and*)
(* costs (Profit), any report of orders (OrderMerge), and any daily sales  *)
(* (Replenishment).                                                        *)
(***************************************************************************)
EXTENDS SalesData, FunctionTheorems, FiniteSetTheorems, SumTheorems, TLAPS

-----------------------------------------------------------------------------
(* External orders.  Whoever writes an order names another event than the  *)
(* one he loaded, and writes its lines in the same commit: lines and       *)
(* payload never come apart.  While calls are served one at a time, what a *)
(* call has loaded is still so, and the rules for what is newer and what is*)
(* inherited hold; and the daily sales it computes from its session's      *)
(* orders are those of the orders and lines it commits.                    *)

(* A row of external_order_lines, whatever its values are.                 *)
IsLine(r) ==
    r = [esku |-> r.esku, sku |-> r.sku, ordered |-> r.ordered, refunded |-> r.refunded,
         status |-> r.status, cost |-> r.cost]

IsFunctionOf(f, S) == f = [x \in S |-> f[x]]

Writing(c) == pc[c] \in {"lines", "write"}

ShapeInv ==
    /\ IsFunctionOf(orders, Orders) /\ IsFunctionOf(lines, Orders)
    /\ \A o \in Orders : IsFunctionOf(lines[o], LineIds)
    /\ IsFunctionOf(pc, Clients) /\ IsFunctionOf(batch, Clients) /\ IsFunctionOf(head, Clients)
    /\ IsFunctionOf(loaded, Clients) /\ IsFunctionOf(seenLines, Clients)
    /\ \A c \in Clients : IsFunctionOf(loaded[c], Orders)

(* A batch has one event per order, and a call is at one of them.          *)
BatchInv ==
    \A c \in Clients :
        /\ batch[c] \subseteq Events
        /\ \A e, f \in batch[c] : e.order = f.order => e = f
        /\ Writing(c) => head[c] \in batch[c]

(* An order that was loaded exists, and is to be changed.                  *)
LoadedInv ==
    \A c \in Clients : Writing(c) =>
        LET row == loaded[c][head[c].order] IN
        row # NoOrder => /\ row \in OrderRow /\ row.event # head[c]
                         /\ orders[head[c].order] # NoOrder

LineOf(item, row) ==
    /\ IsLine(row) /\ row.esku = item.esku
    /\ row.ordered = item.ordered /\ row.refunded = item.refunded

LinesOfEvent(e, ls) ==
    \A l \in LineIds : IF l \in DOMAIN e.items THEN LineOf(e.items[l], ls[l]) ELSE ls[l] = NoLine

PayloadInv ==
    \A o \in Orders :
        \/ orders[o] = NoOrder /\ lines[o] = NoLines
        \/ /\ orders[o] \in OrderRow /\ orders[o].event.order = o
           /\ LinesOfEvent(orders[o].event, lines[o])

(* With calls one at a time: what they have loaded is still so ...         *)
OneAtATime == \A c, d \in Clients : pc[c] # "idle" /\ pc[d] # "idle" => c = d

SeenIsSo ==
    \A c \in Clients :
        /\ Writing(c) => LET o == head[c].order IN
              loaded[c][o] = orders[o] /\ Applies(head[c], orders[o])
        /\ pc[c] = "write" => seenLines[c] = lines[head[c].order]
        /\ pc[c] \in {"idle", "look"} => seenLines[c] = NoLines

(* ... and an order is one event, as late as any that was judged.          *)
AtMost(e, row) ==
    /\ row # NoOrder
    /\ IF e.version = None THEN e.updated <= row.updated ELSE e.version <= row.version

LatestInv ==
    /\ \A o \in Orders : orders[o] # NoOrder => orders[o] = RowOf(orders[o].event)
    /\ delivered \subseteq Events
    /\ \A e \in delivered : Comparable(e.order) => AtMost(e, orders[e.order])

Inv == /\ ShapeInv /\ BatchInv /\ LoadedInv /\ PayloadInv
       /\ serial => OneAtATime /\ SeenIsSo /\ LatestInv

-----------------------------------------------------------------------------
(* Events and rows *)

LEMMA EventTypes ==
    ASSUME NEW e \in Events
    PROVE  /\ e.order \in Orders /\ e.version \in Nat \cup {None} /\ e.updated \in Nat
           /\ e.created \in Nat /\ DOMAIN e.items \subseteq LineIds
           /\ RowOf(e) \in OrderRow /\ RowOf(e).event = e /\ RowOf(e) # NoOrder
  <1>1. IsEvent(e) /\ e # None
    BY OrdersAssumption DEF OrdersAssumption
  <1> QED BY <1>1 DEF IsEvent, RowOf, OrderRow, NoOrder

LEMMA RowsExist == NoOrder \notin OrderRow
  BY OrdersAssumption DEF NoOrder, OrderRow, OrdersAssumption

LEMMA FlushOfNow ==
    ASSUME NEW row \in OrderRow, NEW e \in Events
    PROVE  Flushed(row, row, RowOf(e)) = RowOf(e)
  <1>1. Flushed(row, row, RowOf(e)) = [f \in DOMAIN RowOf(e) |-> RowOf(e)[f]]
    BY DEF Flushed
  <1>2. RowOf(e) = [f \in DOMAIN RowOf(e) |-> RowOf(e)[f]]
    BY DEF RowOf
  <1> QED BY <1>1, <1>2

LEMMA FlushNames ==
    ASSUME NEW row \in OrderRow, NEW seen \in OrderRow, NEW e \in Events, seen.event # e
    PROVE  /\ Flushed(row, seen, RowOf(e)) \in OrderRow
           /\ Flushed(row, seen, RowOf(e)).event = e
  <1>1. RowOf(e) \in OrderRow /\ RowOf(e).event = e
    BY EventTypes
  <1> QED BY <1>1 DEF Flushed, RowOf, OrderRow

(* What does not apply to an order is not later than it.                   *)
LEMMA SkippedIsNotLater ==
    ASSUME NEW e \in Events, NEW r \in Events, r.order = e.order, Comparable(e.order),
           ~Applies(e, RowOf(r))
    PROVE  AtMost(e, RowOf(r))
  <1>1. RowOf(r).version = r.version /\ RowOf(r).updated = r.updated /\ RowOf(r).event = r
    BY DEF RowOf
  <1>2. (e.version = None) = (r.version = None)
    BY DEF Comparable
  <1> QED BY <1>1, <1>2, EventTypes, OrdersAssumption DEF Applies, Newer, AtMost, OrdersAssumption

LEMMA LaterStays ==
    ASSUME NEW e \in Events, NEW r \in Events, NEW w \in Events,
           r.order = e.order, w.order = e.order, Comparable(e.order),
           AtMost(e, RowOf(r)), Applies(w, RowOf(r))
    PROVE  AtMost(e, RowOf(w))
  <1>1. /\ RowOf(r).version = r.version /\ RowOf(r).updated = r.updated
        /\ RowOf(w).version = w.version /\ RowOf(w).updated = w.updated
    BY DEF RowOf
  <1>2. (e.version = None) = (r.version = None) /\ (e.version = None) = (w.version = None)
    BY DEF Comparable
  <1>3. RowOf(r) # NoOrder /\ RowOf(w) # NoOrder
    BY EventTypes
  <1> QED BY <1>1, <1>2, <1>3, EventTypes, OrdersAssumption
          DEF Applies, Newer, AtMost, OrdersAssumption

(* A line that is inserted again.                                          *)
LEMMA InsertedIs ==
    ASSUME NEW item, NEW old, NEW at
    PROVE  /\ LineOf(item, Inserted(item, old, at))
           /\ Inserted(item, old, at).sku = mapping[item.esku]
           /\ mapping[item.esku] # None /\ Inherits(old, item.esku)
                 => /\ Inserted(item, old, at).status = old.status
                    /\ Inserted(item, old, at).cost = old.cost
  BY DEF Inserted, LineOf, IsLine

LEMMA LinesAreInserted ==
    ASSUME NEW e \in Events, NEW old
    PROVE  LinesOfEvent(e, LinesOf(e, old)) /\ IsFunctionOf(LinesOf(e, old), LineIds)
  BY InsertedIs DEF LinesOfEvent, LinesOf, IsFunctionOf

-----------------------------------------------------------------------------
(* Steps of a call *)

(* A step of c leaves what the other calls hold alone.                     *)
Frame(c) ==
    /\ IsFunctionOf(pc', Clients) /\ IsFunctionOf(batch', Clients)
    /\ IsFunctionOf(head', Clients) /\ IsFunctionOf(loaded', Clients)
    /\ IsFunctionOf(seenLines', Clients)
    /\ \A d \in Clients \ {c} :
          /\ pc'[d] = pc[d] /\ batch'[d] = batch[d] /\ head'[d] = head[d]
          /\ loaded'[d] = loaded[d] /\ seenLines'[d] = seenLines[d]

LEMMA FinishIs ==
    ASSUME ShapeInv, NEW c \in Clients, Finish(c)
    PROVE  /\ Frame(c) /\ pc'[c] = "idle" /\ batch'[c] = {}
           /\ loaded'[c] = NothingLoaded /\ seenLines'[c] = NoLines
  <1>1. /\ pc' = [pc EXCEPT ![c] = "idle"] /\ batch' = [batch EXCEPT ![c] = {}]
        /\ head' = [head EXCEPT ![c] = None] /\ loaded' = [loaded EXCEPT ![c] = NothingLoaded]
        /\ seenLines' = [seenLines EXCEPT ![c] = NoLines]
    BY DEF Finish
  <1> QED BY <1>1 DEF ShapeInv, Frame, IsFunctionOf

(* A finished call holds nothing that could be wrong.                      *)
LEMMA FinishedCall ==
    ASSUME Inv, NEW c \in Clients, Finish(c), IsFunctionOf(orders', Orders),
           IsFunctionOf(lines', Orders), \A o \in Orders : IsFunctionOf(lines'[o], LineIds),
           \A o \in Orders : orders[o] # NoOrder => orders'[o] # NoOrder
    PROVE  ShapeInv' /\ BatchInv' /\ LoadedInv'
  <1>1. /\ Frame(c) /\ pc'[c] = "idle" /\ batch'[c] = {} /\ loaded'[c] = NothingLoaded
    BY FinishIs DEF Inv
  <1>2. ShapeInv'
    <2>1. IsFunctionOf(NothingLoaded, Orders)
      BY DEF NothingLoaded, IsFunctionOf
    <2>2. \A d \in Clients : IsFunctionOf(loaded'[d], Orders)
      BY <1>1, <2>1 DEF Inv, ShapeInv, Frame
    <2> QED BY <1>1, <2>2 DEF ShapeInv, Frame
  <1>3. BatchInv'
    BY <1>1 DEF Inv, BatchInv, Frame, Writing
  <1>4. LoadedInv'
    <2> SUFFICES ASSUME NEW d \in Clients, Writing(d)', loaded'[d][head'[d].order] # NoOrder
                 PROVE  /\ loaded'[d][head'[d].order] \in OrderRow
                        /\ loaded'[d][head'[d].order].event # head'[d]
                        /\ orders'[head'[d].order] # NoOrder
      BY DEF LoadedInv
    <2>1. d # c /\ Writing(d) /\ head'[d] = head[d] /\ loaded'[d] = loaded[d]
      BY <1>1 DEF Writing, Frame
    <2>2. head[d].order \in Orders
      BY <2>1, EventTypes DEF Inv, BatchInv
    <2> QED BY <2>1, <2>2 DEF Inv, LoadedInv
  <1> QED BY <1>2, <1>3, <1>4

(* With calls one at a time a call that finishes leaves none.              *)
LEMMA FinishedSerial ==
    ASSUME Inv, serial, NEW c \in Clients, pc[c] # "idle", Finish(c)
    PROVE  OneAtATime' /\ SeenIsSo'
  <1>1. Frame(c) /\ pc'[c] = "idle" /\ seenLines'[c] = NoLines
    BY FinishIs DEF Inv
  <1>2. \A d \in Clients \ {c} : pc[d] = "idle" /\ seenLines[d] = NoLines
    BY DEF Inv, OneAtATime, SeenIsSo
  <1>3. \A d \in Clients : pc'[d] = "idle" /\ seenLines'[d] = NoLines
    BY <1>1, <1>2 DEF Frame
  <1> QED BY <1>3 DEF OneAtATime, SeenIsSo, Writing

-----------------------------------------------------------------------------
(* What the write of a batch does *)

OldLines(c, o) == IF o = head[c].order THEN seenLines[c] ELSE lines[o]
IsWritten(c, o) == \E e \in Written(c) : e.order = o
EventOf(c, o) == CHOOSE e \in Written(c) : e.order = o
NewRow(c, e) ==
    IF e.order = head[c].order /\ loaded[c][head[c].order] # NoOrder
    THEN Flushed(orders[e.order], loaded[c][head[c].order], RowOf(head[c]))
    ELSE RowOf(e)

LEMMA WrittenIs ==
    ASSUME Inv, NEW c \in Clients, pc[c] = "write"
    PROVE  /\ head[c] \in Written(c) /\ Written(c) \subseteq batch[c] /\ batch[c] \subseteq Events
           /\ \A e, f \in batch[c] : e.order = f.order => e = f
           /\ \A e \in Written(c) : EventOf(c, e.order) = e /\ IsWritten(c, e.order)
                                   /\ e.order \in Orders
  <1>1. /\ head[c] \in batch[c] /\ batch[c] \subseteq Events
        /\ \A e, f \in batch[c] : e.order = f.order => e = f
    BY DEF Inv, BatchInv, Writing
  <1>2. head[c] \in Written(c) /\ Written(c) \subseteq batch[c]
    BY <1>1 DEF Written
  <1>3. ASSUME NEW e \in Written(c) PROVE EventOf(c, e.order) = e
    <2>1. EventOf(c, e.order) \in Written(c) /\ EventOf(c, e.order).order = e.order
      BY DEF EventOf
    <2> QED BY <2>1, <1>1, <1>2
  <1> QED BY <1>1, <1>2, <1>3, EventTypes DEF IsWritten

LEMMA WriteIs ==
    ASSUME Inv, NEW c \in Clients, WriteBatch(c)
    PROVE  /\ pc[c] = "write" /\ Finish(c) /\ serial' = serial
           /\ delivered' = delivered \cup batch[c]
           /\ loaded[c][head[c].order] = NoOrder => orders[head[c].order] = NoOrder
           /\ IsFunctionOf(orders', Orders) /\ IsFunctionOf(lines', Orders)
           /\ \A e \in Written(c) : /\ orders'[e.order] = NewRow(c, e)
                                    /\ lines'[e.order] = LinesOf(e, OldLines(c, e.order))
           /\ \A o \in Orders : ~IsWritten(c, o) => orders'[o] = orders[o] /\ lines'[o] = lines[o]
  <1>1. /\ pc[c] = "write" /\ Finish(c) /\ serial' = serial
        /\ delivered' = delivered \cup batch[c]
        /\ loaded[c][head[c].order] = NoOrder => orders[head[c].order] = NoOrder
    BY DEF WriteBatch
  <1>2. lines' = [o \in Orders |-> IF IsWritten(c, o)
                                   THEN LinesOf(EventOf(c, o), OldLines(c, o)) ELSE lines[o]]
    BY Zenon DEF WriteBatch, IsWritten, EventOf, OldLines
  <1>3. orders' = [o \in Orders |->
                     IF ~IsWritten(c, o) THEN orders[o]
                     ELSE IF o = head[c].order /\ loaded[c][head[c].order] # NoOrder
                          THEN Flushed(orders[o], loaded[c][head[c].order], RowOf(head[c]))
                          ELSE RowOf(EventOf(c, o))]
    BY Zenon DEF WriteBatch, IsWritten, EventOf
  <1>4. ASSUME NEW e \in Written(c)
        PROVE  /\ orders'[e.order] = NewRow(c, e)
               /\ lines'[e.order] = LinesOf(e, OldLines(c, e.order))
    <2>1. EventOf(c, e.order) = e /\ IsWritten(c, e.order) /\ e.order \in Orders
      BY <1>1, WrittenIs
    <2> QED BY <1>2, <1>3, <2>1 DEF NewRow
  <1>5. IsFunctionOf(orders', Orders) /\ IsFunctionOf(lines', Orders)
    BY <1>2, <1>3 DEF IsFunctionOf
  <1>6. ASSUME NEW o \in Orders, ~IsWritten(c, o) PROVE orders'[o] = orders[o] /\ lines'[o] = lines[o]
    BY <1>2, <1>3, <1>6
  <1> QED BY <1>1, <1>4, <1>5, <1>6

-----------------------------------------------------------------------------
(* Steps that leave orders and lines alone *)

AnchorsStay == serial => \A o \in Orders, l \in LineIds : KeepsAnchor(o, l)

LEMMA BooksStay ==
    ASSUME Inv, orders' = orders, lines' = lines, serial' = serial, delivered' = delivered
    PROVE  /\ PayloadInv' /\ AnchorsStay /\ (serial' => LatestInv')
           /\ IsFunctionOf(orders', Orders) /\ IsFunctionOf(lines', Orders)
           /\ \A o \in Orders : IsFunctionOf(lines'[o], LineIds)
  <1>1. PayloadInv'
    BY DEF Inv, PayloadInv
  <1>2. AnchorsStay
    BY DEF AnchorsStay, KeepsAnchor
  <1>3. serial' => LatestInv'
    BY DEF Inv, LatestInv
  <1> QED BY <1>1, <1>2, <1>3 DEF Inv, ShapeInv

LEMMA NothingHappens ==
    ASSUME Inv, orders' = orders, lines' = lines, serial' = serial, delivered' = delivered,
           UNCHANGED callVars
    PROVE  Inv' /\ AnchorsStay
  <1>1. pc' = pc /\ batch' = batch /\ head' = head /\ loaded' = loaded /\ seenLines' = seenLines
    BY DEF callVars
  <1>2. ShapeInv'
    BY <1>1 DEF Inv, ShapeInv
  <1>3. BatchInv' /\ LoadedInv'
    BY <1>1 DEF Inv, BatchInv, LoadedInv, Writing
  <1>4. serial' => OneAtATime' /\ SeenIsSo'
    BY <1>1 DEF Inv, OneAtATime, SeenIsSo, Writing
  <1> QED BY <1>2, <1>3, <1>4, BooksStay DEF Inv

LEMMA AbandonStep ==
    ASSUME Inv, NEW c \in Clients, Abandon(c)
    PROVE  Inv' /\ AnchorsStay
  <1>1. /\ pc[c] # "idle" /\ Finish(c) /\ orders' = orders /\ lines' = lines
        /\ serial' = serial /\ delivered' = delivered
    BY DEF Abandon, bookVars
  <1>2. ShapeInv' /\ BatchInv' /\ LoadedInv'
    BY <1>1, BooksStay, FinishedCall
  <1>3. serial' => OneAtATime' /\ SeenIsSo'
    BY <1>1, FinishedSerial
  <1> QED BY <1>1, <1>2, <1>3, BooksStay DEF Inv

LEMMA ReplaceStep ==
    ASSUME Inv, NEW c \in Clients, ReplaceSales(c)
    PROVE  Inv' /\ AnchorsStay
  <1>1. /\ pc[c] # "idle" /\ Finish(c) /\ orders' = orders /\ lines' = lines
        /\ serial' = serial /\ delivered' = delivered
    BY DEF ReplaceSales
  <1>2. ShapeInv' /\ BatchInv' /\ LoadedInv'
    BY <1>1, BooksStay, FinishedCall
  <1>3. serial' => OneAtATime' /\ SeenIsSo'
    BY <1>1, FinishedSerial
  <1> QED BY <1>1, <1>2, <1>3, BooksStay DEF Inv

(* A call that moves without being at a write before or after.             *)
LEMMA QuietStep ==
    ASSUME Inv, NEW c \in Clients, Frame(c), orders' = orders, lines' = lines,
           serial' = serial, delivered' = delivered, ~Writing(c)', loaded' = loaded,
           batch'[c] \subseteq Events, \A e, f \in batch'[c] : e.order = f.order => e = f,
           serial => \A d \in Clients : d # c => pc[d] = "idle",
           serial /\ pc'[c] \in {"idle", "look"} => seenLines'[c] = NoLines
    PROVE  Inv' /\ AnchorsStay
  <1>1. ShapeInv'
    BY BooksStay DEF Inv, ShapeInv, Frame
  <1>2. BatchInv'
    BY DEF Inv, BatchInv, Frame, Writing
  <1>3. LoadedInv'
    BY DEF Inv, LoadedInv, Frame, Writing
  <1>4. serial => OneAtATime' /\ SeenIsSo'
    BY DEF Inv, OneAtATime, SeenIsSo, Frame, Writing
  <1> QED BY <1>1, <1>2, <1>3, <1>4, BooksStay DEF Inv

LEMMA StartStep ==
    ASSUME Inv, NEW c \in Clients, StartIngest(c)
    PROVE  Inv' /\ AnchorsStay
  <1>1. PICK b \in SUBSET (IF serial THEN Events ELSE Racing) :
            /\ \A e, f \in b : e.order = f.order => e = f
            /\ batch' = [batch EXCEPT ![c] = b]
    BY DEF StartIngest
  <1>2. /\ pc[c] = "idle" /\ (serial => \A d \in Clients : pc[d] = "idle")
        /\ pc' = [pc EXCEPT ![c] = "look"]
        /\ head' = head /\ loaded' = loaded /\ seenLines' = seenLines
        /\ serial' = serial /\ orders' = orders /\ lines' = lines /\ delivered' = delivered
    BY DEF StartIngest, MayBegin, bookVars
  <1>3. Frame(c) /\ pc'[c] = "look" /\ batch'[c] = b
    BY <1>1, <1>2 DEF Inv, ShapeInv, Frame, IsFunctionOf
  <1>4. b \subseteq Events
    BY <1>1, OrdersAssumption DEF OrdersAssumption
  <1>5. serial => seenLines'[c] = NoLines
    BY <1>2 DEF Inv, SeenIsSo
  <1> QED BY <1>1, <1>2, <1>3, <1>4, <1>5, QuietStep DEF Writing

LEMMA MappingStep ==
    ASSUME Inv, NEW c \in Clients, SetProductMapping(c)
    PROVE  Inv' /\ AnchorsStay
  <1>1. PICK s \in ESkus : head' = [head EXCEPT ![c] = s]
    BY DEF SetProductMapping
  <1>2. /\ pc[c] = "idle" /\ (serial => \A d \in Clients : pc[d] = "idle")
        /\ pc' = [pc EXCEPT ![c] = "rebuild"]
        /\ batch' = batch /\ loaded' = loaded /\ seenLines' = seenLines
        /\ serial' = serial /\ orders' = orders /\ lines' = lines /\ delivered' = delivered
    BY DEF SetProductMapping, MayBegin
  <1>3. Frame(c) /\ pc'[c] = "rebuild" /\ batch'[c] = batch[c]
    BY <1>1, <1>2 DEF Inv, ShapeInv, Frame, IsFunctionOf
  <1>4. batch[c] \subseteq Events /\ \A e, f \in batch[c] : e.order = f.order => e = f
    BY DEF Inv, BatchInv
  <1> QED BY <1>1, <1>2, <1>3, <1>4, QuietStep DEF Writing

LEMMA RebuildStep ==
    ASSUME Inv, NEW c \in Clients, RebuildSales(c)
    PROVE  Inv' /\ AnchorsStay
  <1>1. /\ pc[c] = "rebuild" /\ pc' = [pc EXCEPT ![c] = "replace"] /\ head' = head
        /\ batch' = batch /\ loaded' = loaded /\ seenLines' = seenLines
        /\ serial' = serial /\ orders' = orders /\ lines' = lines /\ delivered' = delivered
    BY DEF RebuildSales, bookVars
  <1>2. Frame(c) /\ pc'[c] = "replace" /\ batch'[c] = batch[c]
    BY <1>1 DEF Inv, ShapeInv, Frame, IsFunctionOf
  <1>3. batch[c] \subseteq Events /\ \A e, f \in batch[c] : e.order = f.order => e = f
    BY DEF Inv, BatchInv
  <1>4. serial => \A d \in Clients : d # c => pc[d] = "idle"
    BY <1>1 DEF Inv, OneAtATime
  <1> QED BY <1>1, <1>2, <1>3, <1>4, QuietStep DEF Writing

-----------------------------------------------------------------------------
(* Steps that look at an order *)

LEMMA LookAndWriteStep ==
    ASSUME Inv, NEW c \in Clients, LookAndWrite(c)
    PROVE  Inv' /\ AnchorsStay
  <1>1. PICK e \in batch[c] :
            /\ pc[c] = "look" /\ Applies(e, orders[e.order])
            /\ head' = [head EXCEPT ![c] = e]
            /\ loaded' = [loaded EXCEPT ![c][e.order] = orders[e.order]]
            /\ pc' = [pc EXCEPT ![c] = IF orders[e.order] = NoOrder THEN "write" ELSE "lines"]
            /\ batch' = batch /\ seenLines' = seenLines
            /\ serial' = serial /\ orders' = orders /\ lines' = lines /\ delivered' = delivered
    BY DEF LookAndWrite, bookVars
  <1>2. e \in Events /\ e.order \in Orders
    BY EventTypes DEF Inv, BatchInv
  <1>3. /\ Frame(c) /\ head'[c] = e
        /\ pc'[c] = IF orders[e.order] = NoOrder THEN "write" ELSE "lines"
    BY <1>1 DEF Inv, ShapeInv, Frame, IsFunctionOf
  <1>4. loaded'[c] = [loaded[c] EXCEPT ![e.order] = orders[e.order]]
    BY <1>1 DEF Inv, ShapeInv, IsFunctionOf
  <1>5. loaded'[c][e.order] = orders[e.order] /\ IsFunctionOf(loaded'[c], Orders)
    <2>1. IsFunctionOf(loaded[c], Orders)
      BY DEF Inv, ShapeInv
    <2> QED BY <1>2, <1>4, <2>1 DEF IsFunctionOf
  <1>6. ShapeInv'
    <2>1. \A d \in Clients : IsFunctionOf(loaded'[d], Orders)
      BY <1>3, <1>5 DEF Inv, ShapeInv, Frame
    <2> QED BY <1>1, <1>3, <2>1, BooksStay DEF ShapeInv, Frame
  <1>7. BatchInv'
    <2> SUFFICES ASSUME NEW d \in Clients, Writing(d)' PROVE head'[d] \in batch'[d]
      BY <1>1 DEF Inv, BatchInv
    <2> QED BY <1>1, <1>3 DEF Inv, BatchInv, Frame, Writing
  <1>8. LoadedInv'
    <2>1. ASSUME NEW d \in Clients \ {c}, Writing(d)'
          PROVE  Writing(d) /\ head'[d] = head[d] /\ loaded'[d] = loaded[d]
      BY <1>3, <2>1 DEF Frame, Writing
    <2>2. orders[e.order] # NoOrder => orders[e.order] \in OrderRow /\ orders[e.order].event # e
      BY <1>1, <1>2 DEF Inv, PayloadInv, Applies
    <2> SUFFICES ASSUME NEW d \in Clients, Writing(d)', loaded'[d][head'[d].order] # NoOrder
                 PROVE  /\ loaded'[d][head'[d].order] \in OrderRow
                        /\ loaded'[d][head'[d].order].event # head'[d]
                        /\ orders'[head'[d].order] # NoOrder
      BY DEF LoadedInv
    <2>3. CASE d = c
      BY <1>1, <1>3, <1>5, <2>2, <2>3
    <2>4. CASE d # c
      BY <1>1, <2>1, <2>4 DEF Inv, LoadedInv
    <2> QED BY <2>3, <2>4
  <1>9. serial => OneAtATime' /\ SeenIsSo'
    <2> SUFFICES ASSUME serial PROVE OneAtATime' /\ SeenIsSo'
      OBVIOUS
    <2>1. \A d \in Clients \ {c} : pc[d] = "idle" /\ pc'[d] = "idle" /\ seenLines'[d] = NoLines
      BY <1>1, <1>3 DEF Inv, OneAtATime, SeenIsSo, Frame
    <2>2. seenLines'[c] = NoLines
      BY <1>1 DEF Inv, SeenIsSo
    <2>3. pc'[c] = "write" => lines'[e.order] = NoLines
      <3>1. NoOrder \notin OrderRow
        BY RowsExist
      <3>2. pc'[c] = "write" => orders[e.order] = NoOrder
        BY <1>3
      <3> QED BY <1>1, <1>2, <3>1, <3>2 DEF Inv, PayloadInv
    <2>4. OneAtATime'
      BY <2>1 DEF OneAtATime
    <2>5. pc'[c] \in {"write", "lines"}
      BY <1>3
    <2> QED BY <1>1, <1>3, <1>5, <2>1, <2>2, <2>3, <2>4, <2>5 DEF SeenIsSo, Writing
  <1> QED BY <1>1, <1>6, <1>7, <1>8, <1>9, BooksStay DEF Inv

LEMMA LoadLinesStep ==
    ASSUME Inv, NEW c \in Clients, LoadLines(c)
    PROVE  Inv' /\ AnchorsStay
  <1>1. /\ pc[c] = "lines" /\ pc' = [pc EXCEPT ![c] = "write"]
        /\ seenLines' = [seenLines EXCEPT ![c] = lines[head[c].order]]
        /\ head' = head /\ batch' = batch /\ loaded' = loaded
        /\ serial' = serial /\ orders' = orders /\ lines' = lines /\ delivered' = delivered
    BY DEF LoadLines, bookVars
  <1>2. Frame(c) /\ pc'[c] = "write" /\ seenLines'[c] = lines[head[c].order]
    BY <1>1 DEF Inv, ShapeInv, Frame, IsFunctionOf
  <1>3. \A d \in Clients : Writing(d)' => Writing(d)
    BY <1>1, <1>2 DEF Writing, Frame
  <1>4. ShapeInv'
    BY <1>1, <1>2, BooksStay DEF Inv, ShapeInv, Frame
  <1>5. BatchInv' /\ LoadedInv'
    BY <1>1, <1>3 DEF Inv, BatchInv, LoadedInv
  <1>6. serial => OneAtATime' /\ SeenIsSo'
    <2> SUFFICES ASSUME serial PROVE OneAtATime' /\ SeenIsSo'
      OBVIOUS
    <2>1. \A d \in Clients \ {c} : pc[d] = "idle" /\ pc'[d] = "idle" /\ seenLines'[d] = NoLines
      BY <1>1, <1>2 DEF Inv, OneAtATime, SeenIsSo, Frame
    <2>2. loaded[c][head[c].order] = orders[head[c].order] /\ Applies(head[c], orders[head[c].order])
      BY <1>1 DEF Inv, SeenIsSo, Writing
    <2>3. OneAtATime'
      BY <2>1 DEF OneAtATime
    <2> QED BY <1>1, <1>2, <2>1, <2>2, <2>3 DEF SeenIsSo, Writing
  <1> QED BY <1>1, <1>4, <1>5, <1>6, BooksStay DEF Inv

(* An event that does not apply is no later than what is stored.           *)
LEMMA StaleIsNotLater ==
    ASSUME Inv, serial, NEW e \in Events, ~Applies(e, orders[e.order]), Comparable(e.order)
    PROVE  AtMost(e, orders[e.order])
  <1>1. e.order \in Orders /\ orders[e.order] # NoOrder
    BY EventTypes DEF Applies
  <1>2. orders[e.order] \in OrderRow /\ orders[e.order].event.order = e.order
    BY <1>1 DEF Inv, PayloadInv
  <1>3. orders[e.order].event \in Events /\ orders[e.order] = RowOf(orders[e.order].event)
    BY <1>1, <1>2 DEF OrderRow, Inv, LatestInv
  <1> QED BY <1>2, <1>3, SkippedIsNotLater

LEMMA LookAndSkipStep ==
    ASSUME Inv, NEW c \in Clients, LookAndSkip(c)
    PROVE  Inv' /\ AnchorsStay
  <1>1. PICK e \in batch[c] :
            /\ pc[c] = "look" /\ ~Applies(e, orders[e.order])
            /\ delivered' = delivered \cup {e}
            /\ IF batch[c] = {e} THEN Finish(c)
               ELSE /\ batch' = [batch EXCEPT ![c] = @ \ {e}]
                    /\ loaded' = [loaded EXCEPT ![c][e.order] = orders[e.order]]
                    /\ UNCHANGED <<pc, head, seenLines, plan>>
            /\ serial' = serial /\ orders' = orders /\ lines' = lines
    BY DEF LookAndSkip
  <1>2. e \in Events /\ e.order \in Orders
    BY EventTypes DEF Inv, BatchInv
  <1>3. PayloadInv' /\ AnchorsStay
    BY <1>1 DEF Inv, PayloadInv, AnchorsStay, KeepsAnchor
  <1>4. serial => LatestInv'
    <2>1. serial /\ Comparable(e.order) => AtMost(e, orders[e.order])
      BY <1>1, <1>2, StaleIsNotLater
    <2> QED BY <1>1, <1>2, <2>1 DEF Inv, LatestInv
  <1>5. CASE Finish(c)
    <2>1. ShapeInv' /\ BatchInv' /\ LoadedInv'
      BY <1>1, <1>5, FinishedCall DEF Inv, ShapeInv
    <2>2. serial => OneAtATime' /\ SeenIsSo'
      BY <1>1, <1>5, FinishedSerial
    <2> QED BY <1>1, <1>3, <1>4, <2>1, <2>2 DEF Inv
  <1>6. CASE /\ batch' = [batch EXCEPT ![c] = @ \ {e}]
             /\ loaded' = [loaded EXCEPT ![c][e.order] = orders[e.order]]
             /\ UNCHANGED <<pc, head, seenLines, plan>>
    <2>1. /\ Frame(c) /\ batch'[c] = batch[c] \ {e} /\ pc' = pc /\ head' = head
          /\ seenLines' = seenLines
          /\ loaded'[c] = [loaded[c] EXCEPT ![e.order] = orders[e.order]]
      BY <1>6 DEF Inv, ShapeInv, Frame, IsFunctionOf
    <2>2. IsFunctionOf(loaded'[c], Orders)
      <3>1. IsFunctionOf(loaded[c], Orders)
        BY DEF Inv, ShapeInv
      <3> QED BY <2>1, <3>1 DEF IsFunctionOf
    <2>3. ShapeInv'
      <3>1. \A d \in Clients : IsFunctionOf(loaded'[d], Orders)
        BY <2>1, <2>2 DEF Inv, ShapeInv, Frame
      <3> QED BY <1>1, <2>1, <3>1 DEF Inv, ShapeInv, Frame
    <2>4. \A d \in Clients : Writing(d)' => d # c /\ Writing(d)
      BY <1>1, <2>1 DEF Writing
    <2>5. BatchInv'
      BY <2>1, <2>4 DEF Inv, BatchInv, Frame
    <2>6. LoadedInv'
      BY <1>1, <2>1, <2>4 DEF Inv, LoadedInv, Frame
    <2>7. serial => OneAtATime' /\ SeenIsSo'
      BY <1>1, <2>1, <2>4 DEF Inv, OneAtATime, SeenIsSo, Frame
    <2> QED BY <1>1, <1>3, <1>4, <2>3, <2>5, <2>6, <2>7 DEF Inv
  <1> QED BY <1>1, <1>5, <1>6

-----------------------------------------------------------------------------
(* The write *)

(* Whoever writes an order leaves its event and that event's lines.        *)
LEMMA WrittenRows ==
    ASSUME Inv, NEW c \in Clients, WriteBatch(c), NEW e \in Written(c)
    PROVE  /\ orders'[e.order] \in OrderRow /\ orders'[e.order].event = e
           /\ LinesOfEvent(e, lines'[e.order]) /\ IsFunctionOf(lines'[e.order], LineIds)
           /\ serial => orders'[e.order] = RowOf(e)
  <1>1. pc[c] = "write" /\ orders'[e.order] = NewRow(c, e)
    BY WriteIs
  <1>2. e \in Events /\ head[c] \in Events /\ (e.order = head[c].order => e = head[c])
    BY <1>1, WrittenIs
  <1>3. LinesOfEvent(e, lines'[e.order]) /\ IsFunctionOf(lines'[e.order], LineIds)
    BY <1>2, WriteIs, LinesAreInserted
  <1>4. CASE e.order = head[c].order /\ loaded[c][head[c].order] # NoOrder
    <2> DEFINE seen == loaded[c][head[c].order]
    <2>1. e = head[c] /\ orders'[e.order] = Flushed(orders[e.order], seen, RowOf(e))
      BY <1>1, <1>2, <1>4 DEF NewRow
    <2>2. seen \in OrderRow /\ seen.event # e /\ orders[e.order] # NoOrder
      BY <1>1, <1>4, <2>1 DEF Inv, LoadedInv, Writing
    <2>3. orders[e.order] \in OrderRow
      BY <1>2, <2>2, EventTypes DEF Inv, PayloadInv
    <2>4. serial => seen = orders[e.order]
      BY <1>1, <2>1 DEF Inv, SeenIsSo, Writing
    <2>5. serial => orders'[e.order] = RowOf(e)
      BY <1>2, <2>1, <2>3, <2>4, FlushOfNow
    <2>6. orders'[e.order] \in OrderRow /\ orders'[e.order].event = e
      BY <1>2, <2>1, <2>2, <2>3, FlushNames
    <2> QED BY <1>3, <2>5, <2>6
  <1>5. CASE ~(e.order = head[c].order /\ loaded[c][head[c].order] # NoOrder)
    BY <1>1, <1>2, <1>3, <1>5, EventTypes DEF NewRow
  <1> QED BY <1>4, <1>5

LEMMA WriteIsLatest ==
    ASSUME Inv, serial, NEW c \in Clients, WriteBatch(c)
    PROVE  LatestInv'
  <1>1. pc[c] = "write" /\ delivered' = delivered \cup batch[c]
    BY WriteIs
  <1>2. /\ batch[c] \subseteq Events /\ Written(c) \subseteq batch[c]
        /\ \A e, f \in batch[c] : e.order = f.order => e = f
    BY <1>1, WrittenIs
  <1>3. ASSUME NEW o \in Orders, orders'[o] # NoOrder
        PROVE  orders'[o] = RowOf(orders'[o].event)
    <2>1. CASE IsWritten(c, o)
      <3>1. PICK e \in Written(c) : e.order = o
        BY <2>1 DEF IsWritten
      <3> QED BY <3>1, WrittenRows
    <2>2. CASE ~IsWritten(c, o)
      BY <1>3, <2>2, WriteIs DEF Inv, LatestInv
    <2> QED BY <2>1, <2>2
  <1>4. ASSUME NEW e \in delivered', Comparable(e.order)
        PROVE  AtMost(e, orders'[e.order])
    <2>1. e \in Events /\ e.order \in Orders
      BY <1>1, <1>2, EventTypes DEF Inv, LatestInv
    <2>2. CASE IsWritten(c, e.order)
      <3>1. PICK w \in Written(c) : w.order = e.order
        BY <2>2 DEF IsWritten
      <3>2. w \in Events /\ orders'[e.order] = RowOf(w) /\ Applies(w, orders[w.order])
        <4>1. w = head[c] => Applies(w, orders[w.order])
          BY <1>1 DEF Inv, SeenIsSo, Writing
        <4>2. w # head[c] => Applies(w, orders[w.order])
          BY DEF Written
        <4> QED BY <1>2, <3>1, <4>1, <4>2, WrittenRows
      <3>3. CASE e \in batch[c]
        <4>1. e = w
          BY <1>2, <3>1, <3>3
        <4> QED BY <2>1, <3>2, <4>1, EventTypes DEF AtMost, RowOf
      <3>4. CASE e \in delivered
        <4>1. AtMost(e, orders[e.order]) /\ orders[e.order] # NoOrder
          BY <1>4, <3>4 DEF Inv, LatestInv, AtMost
        <4>2. /\ orders[e.order] = RowOf(orders[e.order].event)
              /\ orders[e.order].event \in Events /\ orders[e.order].event.order = e.order
          BY <2>1, <4>1 DEF Inv, LatestInv, PayloadInv, OrderRow
        <4>3. AtMost(e, RowOf(w))
          BY <1>4, <2>1, <3>1, <3>2, <4>1, <4>2, LaterStays
        <4> QED BY <3>2, <4>3
      <3> QED BY <1>1, <3>3, <3>4
    <2>3. CASE ~IsWritten(c, e.order)
      <3>1. orders'[e.order] = orders[e.order]
        BY <2>1, <2>3, WriteIs
      <3>2. CASE e \in delivered
        BY <1>4, <3>1, <3>2 DEF Inv, LatestInv
      <3>3. CASE e \in batch[c]
        <4>1. ~Applies(e, orders[e.order])
          BY <2>3, <3>3 DEF IsWritten, Written
        <4> QED BY <1>4, <2>1, <3>1, <4>1, StaleIsNotLater
      <3> QED BY <1>1, <3>2, <3>3
    <2> QED BY <2>2, <2>3
  <1>5. delivered' \subseteq Events
    BY <1>1, <1>2 DEF Inv, LatestInv
  <1> QED BY <1>3, <1>4, <1>5 DEF LatestInv

LEMMA WriteKeepsAnchors ==
    ASSUME Inv, NEW c \in Clients, WriteBatch(c)
    PROVE  AnchorsStay
  <1> SUFFICES ASSUME serial, NEW o \in Orders, NEW l \in LineIds, lines[o][l] # NoLine,
                      lines[o][l].status \in Anchored, lines'[o][l] # NoLine,
                      lines'[o][l].esku = lines[o][l].esku, lines'[o][l].sku # None
               PROVE  /\ lines'[o][l].status = lines[o][l].status
                      /\ lines'[o][l].cost = lines[o][l].cost
    BY DEF AnchorsStay, KeepsAnchor
  <1>1. CASE ~IsWritten(c, o)
    BY <1>1, WriteIs
  <1>2. CASE IsWritten(c, o)
    <2>1. PICK e \in Written(c) : e.order = o
      BY <1>2 DEF IsWritten
    <2>2. OldLines(c, o) = lines[o]
      BY WriteIs DEF OldLines, Inv, SeenIsSo
    <2>3. lines'[o] = LinesOf(e, lines[o])
      BY <2>1, <2>2, WriteIs
    <2>4. l \in DOMAIN e.items /\ lines'[o][l] = Inserted(e.items[l], lines[o][l], e.created)
      BY <2>3 DEF LinesOf
    <2>5. /\ lines'[o][l].esku = e.items[l].esku
          /\ lines'[o][l].sku = mapping[e.items[l].esku]
      BY <2>4, InsertedIs DEF LineOf
    <2>6. Inherits(lines[o][l], e.items[l].esku) /\ mapping[e.items[l].esku] # None
      BY <2>5 DEF Inherits
    <2> QED BY <2>4, <2>6, InsertedIs
  <1> QED BY <1>1, <1>2

LEMMA WriteStep ==
    ASSUME Inv, NEW c \in Clients, WriteBatch(c)
    PROVE  Inv' /\ AnchorsStay
  <1>1. /\ pc[c] = "write" /\ Finish(c) /\ serial' = serial
        /\ IsFunctionOf(orders', Orders) /\ IsFunctionOf(lines', Orders)
    BY WriteIs
  <1>2. ASSUME NEW o \in Orders
        PROVE  /\ IsFunctionOf(lines'[o], LineIds)
               /\ orders[o] # NoOrder => orders'[o] # NoOrder
               /\ \/ orders'[o] = NoOrder /\ lines'[o] = NoLines
                  \/ /\ orders'[o] \in OrderRow /\ orders'[o].event.order = o
                     /\ LinesOfEvent(orders'[o].event, lines'[o])
    <2>1. CASE IsWritten(c, o)
      <3>1. PICK e \in Written(c) : e.order = o
        BY <2>1 DEF IsWritten
      <3> QED BY <3>1, WrittenRows, RowsExist
    <2>2. CASE ~IsWritten(c, o)
      <3>1. orders'[o] = orders[o] /\ lines'[o] = lines[o]
        BY <2>2, WriteIs
      <3> QED BY <3>1 DEF Inv, ShapeInv, PayloadInv
    <2> QED BY <2>1, <2>2
  <1>3. PayloadInv'
    BY <1>2 DEF PayloadInv, LinesOfEvent
  <1>4. ShapeInv' /\ BatchInv' /\ LoadedInv'
    BY <1>1, <1>2, FinishedCall
  <1>5. serial' => OneAtATime' /\ SeenIsSo' /\ LatestInv'
    BY <1>1, FinishedSerial, WriteIsLatest
  <1> QED BY <1>3, <1>4, <1>5, WriteKeepsAnchors DEF Inv

-----------------------------------------------------------------------------
(* The backfill *)

LEMMA BackfillStep ==
    ASSUME Inv, BackfillCosts
    PROVE  Inv' /\ AnchorsStay
  <1>1. PICK scope \in SUBSET Skus, mode \in {"next_after_sale", "nearest"} :
            LET hit(o, l) == BackfillOf(lines[o][l].sku, orders[o].created, mode)
            IN lines' = [o \in Orders |-> [l \in LineIds |->
                            IF ToBackfill(lines[o][l], scope) /\ hit(o, l) # None
                            THEN [lines[o][l] EXCEPT !.status = "backfilled", !.cost = hit(o, l)]
                            ELSE lines[o][l]]]
    BY DEF BackfillCosts
  <1>2. /\ (serial => \A c \in Clients : pc[c] = "idle") /\ serial' = serial
        /\ orders' = orders /\ delivered' = delivered
        /\ pc' = pc /\ batch' = batch /\ head' = head /\ loaded' = loaded
        /\ seenLines' = seenLines
    BY DEF BackfillCosts, callVars
  <1>3. /\ IsFunctionOf(lines', Orders)
        /\ \A o \in Orders : IsFunctionOf(lines'[o], LineIds)
        /\ \A o \in Orders, l \in LineIds :
              \/ lines'[o][l] = lines[o][l]
              \/ /\ lines[o][l] # NoLine /\ lines[o][l].status = "missing"
                 /\ \E hit : lines'[o][l] = [lines[o][l] EXCEPT !.status = "backfilled", !.cost = hit]
    BY <1>1 DEF IsFunctionOf, ToBackfill
  <1>4. AnchorsStay
    BY <1>3 DEF AnchorsStay, KeepsAnchor, Anchored
  <1>5. ASSUME NEW o \in Orders, lines[o] = NoLines PROVE lines'[o] = NoLines
    <2>1. \A l \in LineIds : lines'[o][l] = NoLine
      BY <1>3, <1>5 DEF NoLines
    <2> QED BY <1>3, <2>1 DEF NoLines, IsFunctionOf
  <1>6. ASSUME NEW o \in Orders, NEW e \in Events, LinesOfEvent(e, lines[o])
        PROVE  LinesOfEvent(e, lines'[o])
    <2> SUFFICES ASSUME NEW l \in LineIds
                 PROVE IF l \in DOMAIN e.items THEN LineOf(e.items[l], lines'[o][l])
                       ELSE lines'[o][l] = NoLine
      BY DEF LinesOfEvent
    <2>1. CASE lines'[o][l] = lines[o][l]
      BY <1>6, <2>1 DEF LinesOfEvent
    <2>2. CASE lines'[o][l] # lines[o][l]
      <3>1. PICK hit : lines'[o][l] = [lines[o][l] EXCEPT !.status = "backfilled", !.cost = hit]
        BY <1>3, <2>2
      <3>2. l \in DOMAIN e.items /\ LineOf(e.items[l], lines[o][l])
        BY <1>3, <1>6, <2>2 DEF LinesOfEvent
      <3>3. LineOf(e.items[l], lines'[o][l])
        BY <3>1, <3>2 DEF LineOf, IsLine
      <3> QED BY <3>2, <3>3
    <2> QED BY <2>1, <2>2
  <1>7. PayloadInv'
    BY <1>2, <1>5, <1>6 DEF Inv, PayloadInv, OrderRow
  <1>8. ShapeInv'
    BY <1>2, <1>3 DEF Inv, ShapeInv
  <1>9. BatchInv' /\ LoadedInv'
    BY <1>2 DEF Inv, BatchInv, LoadedInv, Writing
  <1>10. serial' => OneAtATime' /\ SeenIsSo' /\ LatestInv'
    BY <1>2 DEF Inv, OneAtATime, SeenIsSo, LatestInv, Writing
  <1> QED BY <1>4, <1>7, <1>8, <1>9, <1>10 DEF Inv

-----------------------------------------------------------------------------
LEMMA InvInit == Init => Inv
  <1> SUFFICES ASSUME Init PROVE Inv
    OBVIOUS
  <1>1. ShapeInv
    BY DEF Init, ShapeInv, IsFunctionOf, NothingLoaded, NoLines
  <1>2. BatchInv /\ LoadedInv
    BY DEF Init, BatchInv, LoadedInv, Writing
  <1>3. PayloadInv
    BY DEF Init, PayloadInv, NothingLoaded
  <1>4. OneAtATime /\ SeenIsSo
    BY DEF Init, OneAtATime, SeenIsSo, Writing
  <1>5. LatestInv
    BY DEF Init, LatestInv, NothingLoaded
  <1> QED BY <1>1, <1>2, <1>3, <1>4, <1>5 DEF Inv

LEMMA InvNext == Inv /\ [Next]_vars => Inv' /\ (AnchorsStay \/ UNCHANGED vars)
  <1> SUFFICES ASSUME Inv, [Next]_vars PROVE Inv' /\ (AnchorsStay \/ UNCHANGED vars)
    OBVIOUS
  <1>1. CASE UNCHANGED vars
    BY <1>1, NothingHappens DEF vars, bookVars
  <1>2. CASE RecordCost
    BY <1>2, NothingHappens DEF RecordCost
  <1>3. CASE ImportCosts
    BY <1>3, NothingHappens DEF ImportCosts
  <1>4. CASE BackfillCosts
    BY <1>4, BackfillStep
  <1>5. ASSUME NEW c \in Clients,
               \/ StartIngest(c) \/ LookAndWrite(c) \/ LookAndSkip(c) \/ LoadLines(c)
               \/ WriteBatch(c) \/ Abandon(c)
               \/ SetProductMapping(c) \/ RebuildSales(c) \/ ReplaceSales(c)
        PROVE  Inv' /\ AnchorsStay
    BY <1>5, StartStep, LookAndWriteStep, LookAndSkipStep, LoadLinesStep, WriteStep,
       AbandonStep, MappingStep, RebuildStep, ReplaceStep
  <1> QED BY <1>1, <1>2, <1>3, <1>4, <1>5 DEF Next

LEMMA InvHolds == Spec => []Inv
  BY InvInit, InvNext, PTL DEF Spec

(* For any number of orders, events and calls: among comparable events of  *)
(* an order none that was judged is later than the stored one, whatever    *)
(* order and batches they came in, and the stored lines are those of the   *)
(* stored payload, also where calls overlap: ingest_order_event judges by  *)
(* version or time, and writes an order with its lines in one commit.      *)
THEOREM LatestOrdersAreStored == Spec => []OrdersAreTheLatest
  <1>1. Inv => LatestIsStored
    BY DEF Inv, LatestInv, LatestIsStored, AtMost
  <1>2. Inv => LinesAreOfThePayload
    <2> SUFFICES ASSUME Inv, NEW o \in Orders, NEW l \in LineIds
                 PROVE LET items == IF orders[o] = NoOrder THEN << >> ELSE orders[o].event.items
                       IN IF l \in DOMAIN items
                          THEN /\ lines[o][l].esku = items[l].esku
                               /\ lines[o][l].ordered = items[l].ordered
                               /\ lines[o][l].refunded = items[l].refunded
                          ELSE lines[o][l] = NoLine
      BY DEF LinesAreOfThePayload
    <2>1. CASE orders[o] = NoOrder
      <3>1. lines[o][l] = NoLine
        BY <2>1, RowsExist DEF Inv, PayloadInv, NoLines
      <3> QED BY <2>1, <3>1
    <2>2. CASE orders[o] # NoOrder
      BY <2>2 DEF Inv, PayloadInv, LinesOfEvent, LineOf
    <2> QED BY <2>1, <2>2
  <1> QED BY InvHolds, <1>1, <1>2, PTL DEF OrdersAreTheLatest

(* For any number of orders, events and calls: an anchored cost survives   *)
(* each step that leaves its line with the same product and a sku, the     *)
(* delete and insert of an update, a new mapping and a backfill included.  *)
THEOREM AnchorsStayPut == Spec => AnchorsAreFinal
  <1>1. Inv /\ [Next]_vars => [serial => \A o \in Orders, l \in LineIds : KeepsAnchor(o, l)]_vars
    BY InvNext DEF AnchorsStay
  <1> QED BY InvHolds, <1>1, PTL DEF Spec, AnchorsAreFinal

-----------------------------------------------------------------------------
(* Daily sales *)

(* The sales of a sku depend on the orders' days and kinds and on what its *)
(* lines count, and on nothing else of an order or a line.                 *)
Counts(os, ls, s, o, l) == os[o] # NoOrder /\ ls[o][l].esku = s

SameCount(os, ls, ps, ms, s, o, l) ==
    /\ os[o].created = ps[o].created /\ os[o].sale = ps[o].sale
    /\ ls[o][l].ordered = ms[o][l].ordered /\ ls[o][l].refunded = ms[o][l].refunded

SameSales(os, ls, ps, ms, s) ==
    \A o \in Orders, l \in LineIds :
        /\ Counts(os, ls, s, o, l) <=> Counts(ps, ms, s, o, l)
        /\ Counts(os, ls, s, o, l) => SameCount(os, ls, ps, ms, s, o, l)

LEMMA SalesAgree ==
    ASSUME NEW os, NEW ls, NEW ps, NEW ms, NEW s, SameSales(os, ls, ps, ms, s)
    PROVE  SalesOf(os, ls, s) = SalesOf(ps, ms, s)
  <1>1. ASSUME NEW d PROVE SoldOn(os, ls, s, d) = SoldOn(ps, ms, s, d)
    BY DEF SoldOn, SameSales, SameCount, Counts
  <1>2. ASSUME NEW d PROVE NetOn(os, ls, s, d) = NetOn(ps, ms, s, d)
    <2>1. ASSUME NEW ol \in SoldOn(os, ls, s, d)
          PROVE  Net(os[ol[1]], ls[ol[1]][ol[2]]) = Net(ps[ol[1]], ms[ol[1]][ol[2]])
      <3>1. /\ ol[1] \in Orders /\ ol[2] \in LineIds
            /\ Counts(os, ls, s, ol[1], ol[2])
        BY DEF SoldOn, Counts
      <3>2. SameCount(os, ls, ps, ms, s, ol[1], ol[2])
        BY <3>1 DEF SameSales
      <3> QED BY <3>2 DEF SameCount, Net
    <2>2. NetOn(os, ls, s, d) = [ol \in SoldOn(os, ls, s, d) |-> Net(ps[ol[1]], ms[ol[1]][ol[2]])]
      BY <2>1, Zenon DEF NetOn
    <2> QED BY <1>1, <2>2 DEF NetOn
  <1> DEFINE Days(qs, ks) == {x \in {qs[o].created : o \in {z \in Orders : qs[z] # NoOrder}} :
                                 SoldOn(qs, ks, s, x) # {}}
  <1>3. Days(os, ls) = Days(ps, ms)
    <2>1. ASSUME NEW d PROVE d \in Days(os, ls) <=> \E ol : ol \in SoldOn(os, ls, s, d)
      BY DEF SoldOn
    <2>2. ASSUME NEW d PROVE d \in Days(ps, ms) <=> \E ol : ol \in SoldOn(ps, ms, s, d)
      BY DEF SoldOn
    <2> QED BY <1>1, <2>1, <2>2
  <1>4. SalesOf(os, ls, s) = [d \in Days(os, ls) |-> SumFunction(NetOn(os, ls, s, d))]
    BY DEF SalesOf
  <1>5. SalesOf(ps, ms, s) = [d \in Days(ps, ms) |-> SumFunction(NetOn(ps, ms, s, d))]
    BY DEF SalesOf
  <1> HIDE DEF Days
  <1> QED BY <1>2, <1>3, <1>4, <1>5

(* While calls are served one at a time the sales are those of the lines,  *)
(* the orders a call holds are as stored, and what it computed still is.   *)
SalesInv ==
    /\ IsFunctionOf(daily, ESkus) /\ IsFunctionOf(plan, Clients)
    /\ serial =>
          /\ \A s \in ESkus : daily[s] = SalesOf(orders, lines, s)
          /\ \A c \in Clients :
                /\ pc[c] = "idle" => loaded[c] = NothingLoaded
                /\ \A o \in Orders : loaded[c][o] # NoOrder => loaded[c][o] = orders[o]
                /\ pc[c] \in {"rebuild", "replace"} => head[c] \in ESkus
                /\ pc[c] = "replace" => plan[c] = SalesOf(orders, lines, head[c])

(* A finished call, when the sales are right already.                      *)
LEMMA FinishedSales ==
    ASSUME Inv, SalesInv, NEW c \in Clients, pc[c] # "idle", Finish(c), serial' = serial,
           IsFunctionOf(daily', ESkus),
           serial => \A s \in ESkus : daily'[s] = SalesOf(orders', lines', s)
    PROVE  SalesInv'
  <1>1. Frame(c) /\ pc'[c] = "idle" /\ loaded'[c] = NothingLoaded
    BY FinishIs DEF Inv
  <1>2. IsFunctionOf(plan', Clients)
    BY DEF Finish, SalesInv, IsFunctionOf
  <1>3. serial => \A d \in Clients : pc'[d] = "idle" /\ loaded'[d] = NothingLoaded
    BY <1>1 DEF Inv, OneAtATime, SalesInv, Frame
  <1> QED BY <1>2, <1>3 DEF SalesInv, NothingLoaded

(* The lines of an order that a call loaded are still those in the database. *)
LEMMA OldLinesAre ==
    ASSUME Inv, serial, NEW c \in Clients, pc[c] = "write", NEW o
    PROVE  OldLines(c, o) = lines[o]
  BY DEF OldLines, Inv, SeenIsSo

(* A sku no written event touches sells what it sold before.               *)
LEMMA UntouchedStays ==
    ASSUME Inv, serial, NEW c \in Clients, WriteBatch(c), NEW s \in ESkus,
           \A e \in Written(c) : s \notin Touched(OldLines(c, e.order), e)
    PROVE  SalesOf(orders', lines', s) = SalesOf(orders, lines, s)
  <1>1. pc[c] = "write"
    BY WriteIs
  <1>2. s # None
    BY OrdersAssumption DEF OrdersAssumption
  <1>3. ASSUME NEW e \in Written(c), NEW l \in LineIds
        PROVE  lines[e.order][l].esku # s /\ lines'[e.order][l].esku # s
    <2>1. OldLines(c, e.order) = lines[e.order]
      BY <1>1, OldLinesAre
    <2>2. s \notin Touched(lines[e.order], e)
      BY <2>1
    <2>3. lines[e.order][l].esku # s
      BY <1>2, <2>2 DEF Touched, NoLine
    <2>4. LinesOfEvent(e, lines'[e.order])
      BY WrittenRows
    <2> DEFINE row == lines'[e.order][l]
    <2>5. IF l \in DOMAIN e.items THEN LineOf(e.items[l], row) ELSE row = NoLine
      BY <2>4 DEF LinesOfEvent
    <2>6. CASE l \in DOMAIN e.items
      <3>1. e.items[l].esku \in Touched(lines[e.order], e)
        BY <2>6 DEF Touched
      <3>2. row.esku = e.items[l].esku
        BY <2>5, <2>6 DEF LineOf
      <3> QED BY <2>2, <2>3, <3>1, <3>2
    <2>7. CASE l \notin DOMAIN e.items
      <3>1. row.esku = None
        BY <2>5, <2>7 DEF NoLine
      <3> QED BY <1>2, <2>3, <3>1
    <2> QED BY <2>6, <2>7
  <1>4. ASSUME NEW o \in Orders, NEW l \in LineIds
        PROVE  /\ Counts(orders', lines', s, o, l) <=> Counts(orders, lines, s, o, l)
               /\ Counts(orders', lines', s, o, l) => SameCount(orders', lines', orders, lines, s, o, l)
    <2>1. CASE IsWritten(c, o)
      BY <1>3, <2>1 DEF IsWritten, Counts
    <2>2. CASE ~IsWritten(c, o)
      <3>1. orders'[o] = orders[o] /\ lines'[o] = lines[o]
        BY <2>2, WriteIs
      <3> QED BY <3>1 DEF Counts, SameCount
    <2> QED BY <2>1, <2>2
  <1> QED BY <1>4, SalesAgree DEF SameSales

(* The orders as the session holds them at its flush.                      *)
Memory(c) ==
    [o \in Orders |-> IF IsWritten(c, o) THEN RowOf(EventOf(c, o))
                      ELSE IF loaded[c][o] # NoOrder THEN loaded[c][o] ELSE orders[o]]

TouchedBy(c) == UNION {Touched(OldLines(c, e.order), e) : e \in Written(c)}

LEMMA MemoryIs ==
    ASSUME Inv, SalesInv, serial, NEW c \in Clients, WriteBatch(c)
    PROVE  Memory(c) = orders'
  <1>1. pc[c] = "write" /\ IsFunctionOf(orders', Orders)
    BY WriteIs
  <1>2. ASSUME NEW o \in Orders PROVE Memory(c)[o] = orders'[o]
    <2>1. CASE IsWritten(c, o)
      <3>1. PICK e \in Written(c) : e.order = o
        BY <2>1 DEF IsWritten
      <3>2. EventOf(c, o) = e
        BY <1>1, <3>1, WrittenIs
      <3>3. orders'[o] = RowOf(e)
        BY <3>1, WrittenRows
      <3> QED BY <2>1, <3>2, <3>3 DEF Memory
    <2>2. CASE ~IsWritten(c, o)
      <3>1. orders'[o] = orders[o]
        BY <2>2, WriteIs
      <3>2. loaded[c][o] # NoOrder => loaded[c][o] = orders[o]
        BY DEF SalesInv
      <3> QED BY <2>2, <3>1, <3>2 DEF Memory
    <2> QED BY <2>1, <2>2
  <1> QED BY <1>1, <1>2 DEF Memory, IsFunctionOf

LEMMA WriteSales ==
    ASSUME Inv, SalesInv, NEW c \in Clients, WriteBatch(c)
    PROVE  SalesInv'
  <1>1. pc[c] = "write" /\ Finish(c) /\ serial' = serial
    BY WriteIs
  <1>2. daily' = [s \in ESkus |-> IF s \in TouchedBy(c) THEN SalesOf(Memory(c), lines', s)
                                  ELSE daily[s]]
    BY Zenon DEF WriteBatch, TouchedBy, Memory, IsWritten, EventOf, OldLines
  <1>3. ASSUME serial, NEW s \in ESkus PROVE daily'[s] = SalesOf(orders', lines', s)
    <2>1. CASE s \in TouchedBy(c)
      BY <1>2, <1>3, <2>1, MemoryIs
    <2>2. CASE s \notin TouchedBy(c)
      <3>1. \A e \in Written(c) : s \notin Touched(OldLines(c, e.order), e)
        BY <2>2 DEF TouchedBy
      <3>2. SalesOf(orders', lines', s) = SalesOf(orders, lines, s)
        BY <1>3, <3>1, UntouchedStays
      <3> QED BY <1>2, <1>3, <2>2, <3>2 DEF SalesInv
    <2> QED BY <2>1, <2>2
  <1>4. IsFunctionOf(daily', ESkus)
    BY <1>2 DEF IsFunctionOf
  <1> QED BY <1>1, <1>3, <1>4, FinishedSales

LEMMA BackfillSales ==
    ASSUME Inv, SalesInv, BackfillCosts
    PROVE  SalesInv'
  <1>1. /\ (serial => \A c \in Clients : pc[c] = "idle") /\ serial' = serial
        /\ orders' = orders /\ daily' = daily /\ plan' = plan
        /\ pc' = pc /\ head' = head /\ loaded' = loaded
    BY DEF BackfillCosts, callVars
  <1>2. PICK scope \in SUBSET Skus, mode \in {"next_after_sale", "nearest"} :
            LET hit(o, l) == BackfillOf(lines[o][l].sku, orders[o].created, mode)
            IN lines' = [o \in Orders |-> [l \in LineIds |->
                            IF ToBackfill(lines[o][l], scope) /\ hit(o, l) # None
                            THEN [lines[o][l] EXCEPT !.status = "backfilled", !.cost = hit(o, l)]
                            ELSE lines[o][l]]]
    BY DEF BackfillCosts
  <1>3. ASSUME NEW o \in Orders, NEW l \in LineIds
        PROVE  /\ lines'[o][l].esku = lines[o][l].esku
               /\ lines[o][l] # NoLine => /\ lines'[o][l].ordered = lines[o][l].ordered
                                          /\ lines'[o][l].refunded = lines[o][l].refunded
    <2>1. \/ lines'[o][l] = lines[o][l]
          \/ /\ lines[o][l] # NoLine
             /\ \E hit : lines'[o][l] = [lines[o][l] EXCEPT !.status = "backfilled", !.cost = hit]
      BY <1>2 DEF ToBackfill
    <2>2. lines[o][l] # NoLine => IsLine(lines[o][l])
      BY DEF Inv, PayloadInv, LinesOfEvent, LineOf, NoLines
    <2> QED BY <2>1, <2>2 DEF IsLine
  <1>4. ASSUME NEW s \in ESkus PROVE SalesOf(orders', lines', s) = SalesOf(orders, lines, s)
    <2>1. s # NoLine.esku
      BY OrdersAssumption DEF OrdersAssumption, NoLine
    <2>2. SameSales(orders', lines', orders, lines, s)
      BY <1>1, <1>3, <2>1 DEF SameSales, Counts, SameCount
    <2> QED BY <2>2, SalesAgree
  <1> QED BY <1>1, <1>4 DEF SalesInv

(* A step that leaves the books of the sales alone, and the other calls.   *)
LEMMA QuietSales ==
    ASSUME Inv, SalesInv, NEW c \in Clients, Frame(c), IsFunctionOf(plan', Clients),
           \A d \in Clients \ {c} : plan'[d] = plan[d],
           orders' = orders, lines' = lines, daily' = daily, serial' = serial,
           pc'[c] # "idle",
           serial => /\ \A o \in Orders : loaded'[c][o] # NoOrder => loaded'[c][o] = orders[o]
                     /\ pc'[c] \in {"rebuild", "replace"} => head'[c] \in ESkus
                     /\ pc'[c] = "replace" => plan'[c] = SalesOf(orders, lines, head'[c])
    PROVE  SalesInv'
  <1>1. ASSUME NEW d \in Clients, serial
        PROVE  /\ pc'[d] = "idle" => loaded'[d] = NothingLoaded
               /\ \A o \in Orders : loaded'[d][o] # NoOrder => loaded'[d][o] = orders[o]
               /\ pc'[d] \in {"rebuild", "replace"} => head'[d] \in ESkus
               /\ pc'[d] = "replace" => plan'[d] = SalesOf(orders, lines, head'[d])
    <2>1. CASE d = c
      BY <1>1, <2>1
    <2>2. CASE d # c
      BY <1>1, <2>2 DEF SalesInv, Frame
    <2> QED BY <2>1, <2>2
  <1> QED BY <1>1 DEF SalesInv

LEMMA SameBooksSales ==
    ASSUME SalesInv, orders' = orders, lines' = lines, daily' = daily, serial' = serial,
           UNCHANGED callVars
    PROVE  SalesInv'
  BY DEF SalesInv, callVars
LEMMA SalesNext ==
    ASSUME Inv, SalesInv, [Next]_vars
    PROVE  SalesInv'
  <1>1. CASE UNCHANGED vars
    BY <1>1, SameBooksSales DEF vars, bookVars
  <1>2. CASE RecordCost
    BY <1>2, SameBooksSales DEF RecordCost
  <1>3. CASE ImportCosts
    BY <1>3, SameBooksSales DEF ImportCosts
  <1>4. CASE BackfillCosts
    BY <1>4, BackfillSales
  <1>5. ASSUME NEW c \in Clients, StartIngest(c) PROVE SalesInv'
    <2>1. /\ pc[c] = "idle" /\ pc' = [pc EXCEPT ![c] = "look"]
          /\ head' = head /\ loaded' = loaded /\ seenLines' = seenLines /\ plan' = plan
          /\ serial' = serial /\ orders' = orders /\ lines' = lines /\ daily' = daily
          /\ \E b : batch' = [batch EXCEPT ![c] = b]
      BY <1>5 DEF StartIngest, MayBegin, bookVars
    <2>2. Frame(c) /\ pc'[c] = "look"
      BY <2>1 DEF Inv, ShapeInv, Frame, IsFunctionOf
    <2> QED BY <2>1, <2>2, QuietSales DEF SalesInv
  <1>6. ASSUME NEW c \in Clients, LookAndWrite(c) PROVE SalesInv'
    <2>1. PICK e \in batch[c] :
              /\ head' = [head EXCEPT ![c] = e]
              /\ loaded' = [loaded EXCEPT ![c][e.order] = orders[e.order]]
              /\ pc' = [pc EXCEPT ![c] = IF orders[e.order] = NoOrder THEN "write" ELSE "lines"]
              /\ batch' = batch /\ seenLines' = seenLines /\ plan' = plan
              /\ serial' = serial /\ orders' = orders /\ lines' = lines /\ daily' = daily
      BY <1>6 DEF LookAndWrite, bookVars
    <2>2. /\ Frame(c) /\ pc'[c] \in {"write", "lines"}
          /\ loaded'[c] = [loaded[c] EXCEPT ![e.order] = orders[e.order]]
      BY <2>1 DEF Inv, ShapeInv, Frame, IsFunctionOf
    <2>3. ASSUME serial, NEW o \in Orders, loaded'[c][o] # NoOrder
          PROVE  loaded'[c][o] = orders[o]
      <3>1. IsFunctionOf(loaded[c], Orders)
        BY DEF Inv, ShapeInv
      <3>2. loaded'[c][o] = IF o = e.order THEN orders[o] ELSE loaded[c][o]
        BY <2>2, <3>1 DEF IsFunctionOf
      <3> QED BY <2>3, <3>2 DEF SalesInv
    <2> QED BY <2>1, <2>2, <2>3, QuietSales DEF SalesInv
  <1>7. ASSUME NEW c \in Clients, LookAndSkip(c) PROVE SalesInv'
    <2>1. PICK e \in batch[c] :
              /\ pc[c] = "look"
              /\ IF batch[c] = {e} THEN Finish(c)
                 ELSE /\ batch' = [batch EXCEPT ![c] = @ \ {e}]
                      /\ loaded' = [loaded EXCEPT ![c][e.order] = orders[e.order]]
                      /\ UNCHANGED <<pc, head, seenLines, plan>>
              /\ serial' = serial /\ orders' = orders /\ lines' = lines /\ daily' = daily
      BY <1>7 DEF LookAndSkip
    <2>2. CASE Finish(c)
      BY <2>1, <2>2, FinishedSales DEF SalesInv
    <2>3. CASE /\ batch' = [batch EXCEPT ![c] = @ \ {e}]
               /\ loaded' = [loaded EXCEPT ![c][e.order] = orders[e.order]]
               /\ UNCHANGED <<pc, head, seenLines, plan>>
      <3>1. /\ Frame(c) /\ pc' = pc /\ plan' = plan
            /\ loaded'[c] = [loaded[c] EXCEPT ![e.order] = orders[e.order]]
        BY <2>3 DEF Inv, ShapeInv, Frame, IsFunctionOf
      <3>2. ASSUME serial, NEW o \in Orders, loaded'[c][o] # NoOrder
            PROVE  loaded'[c][o] = orders[o]
        <4>1. IsFunctionOf(loaded[c], Orders)
          BY DEF Inv, ShapeInv
        <4>2. loaded'[c][o] = IF o = e.order THEN orders[o] ELSE loaded[c][o]
          BY <3>1, <4>1 DEF IsFunctionOf
        <4> QED BY <3>2, <4>2 DEF SalesInv
      <3> QED BY <2>1, <3>1, <3>2, QuietSales DEF SalesInv
    <2> QED BY <2>1, <2>2, <2>3
  <1>8. ASSUME NEW c \in Clients, LoadLines(c) PROVE SalesInv'
    <2>1. /\ pc' = [pc EXCEPT ![c] = "write"]
          /\ seenLines' = [seenLines EXCEPT ![c] = lines[head[c].order]]
          /\ head' = head /\ batch' = batch /\ loaded' = loaded /\ plan' = plan
          /\ serial' = serial /\ orders' = orders /\ lines' = lines /\ daily' = daily
      BY <1>8 DEF LoadLines, bookVars
    <2>2. Frame(c) /\ pc'[c] = "write"
      BY <2>1 DEF Inv, ShapeInv, Frame, IsFunctionOf
    <2> QED BY <2>1, <2>2, QuietSales DEF SalesInv
  <1>9. ASSUME NEW c \in Clients, WriteBatch(c) PROVE SalesInv'
    BY <1>9, WriteSales
  <1>10. ASSUME NEW c \in Clients, Abandon(c) PROVE SalesInv'
    <2>1. /\ pc[c] # "idle" /\ Finish(c) /\ serial' = serial
          /\ orders' = orders /\ lines' = lines /\ daily' = daily
      BY <1>10 DEF Abandon, bookVars
    <2> QED BY <2>1, FinishedSales DEF SalesInv
  <1>11. ASSUME NEW c \in Clients, SetProductMapping(c) PROVE SalesInv'
    <2>1. PICK s \in ESkus : head' = [head EXCEPT ![c] = s]
      BY <1>11 DEF SetProductMapping
    <2>2. /\ pc' = [pc EXCEPT ![c] = "rebuild"]
          /\ batch' = batch /\ loaded' = loaded /\ seenLines' = seenLines /\ plan' = plan
          /\ serial' = serial /\ orders' = orders /\ lines' = lines /\ daily' = daily
      BY <1>11 DEF SetProductMapping
    <2>3. Frame(c) /\ pc'[c] = "rebuild" /\ head'[c] = s
      BY <2>1, <2>2 DEF Inv, ShapeInv, Frame, IsFunctionOf
    <2> QED BY <2>2, <2>3, QuietSales DEF SalesInv
  <1>12. ASSUME NEW c \in Clients, RebuildSales(c) PROVE SalesInv'
    <2>1. /\ pc[c] = "rebuild" /\ pc' = [pc EXCEPT ![c] = "replace"]
          /\ plan' = [plan EXCEPT ![c] = SalesOf(orders, lines, head[c])]
          /\ head' = head /\ batch' = batch /\ loaded' = loaded /\ seenLines' = seenLines
          /\ serial' = serial /\ orders' = orders /\ lines' = lines /\ daily' = daily
      BY <1>12 DEF RebuildSales, bookVars
    <2>2. Frame(c) /\ pc'[c] = "replace"
      BY <2>1 DEF Inv, ShapeInv, Frame, IsFunctionOf
    <2>3. /\ plan'[c] = SalesOf(orders, lines, head[c]) /\ IsFunctionOf(plan', Clients)
          /\ \A d \in Clients \ {c} : plan'[d] = plan[d]
      BY <2>1 DEF SalesInv, IsFunctionOf
    <2> QED BY <2>1, <2>2, <2>3, QuietSales DEF SalesInv
  <1>13. ASSUME NEW c \in Clients, ReplaceSales(c) PROVE SalesInv'
    <2>1. /\ pc[c] = "replace" /\ Finish(c) /\ serial' = serial
          /\ orders' = orders /\ lines' = lines
          /\ daily' = [daily EXCEPT ![head[c]] = plan[c]]
      BY <1>13 DEF ReplaceSales
    <2>2. IsFunctionOf(daily', ESkus)
      BY <2>1 DEF SalesInv, IsFunctionOf
    <2>3. ASSUME serial, NEW s \in ESkus PROVE daily'[s] = SalesOf(orders, lines, s)
      <3>1. daily'[s] = IF s = head[c] THEN plan[c] ELSE daily[s]
        BY <2>1 DEF SalesInv, IsFunctionOf
      <3> QED BY <2>1, <2>3, <3>1 DEF SalesInv
    <2> QED BY <2>1, <2>2, <2>3, FinishedSales
  <1> QED BY <1>1, <1>2, <1>3, <1>4, <1>5, <1>6, <1>7, <1>8, <1>9, <1>10, <1>11, <1>12, <1>13
          DEF Next

LEMMA SalesInit == Init => SalesInv
  <1> SUFFICES ASSUME Init PROVE SalesInv
    OBVIOUS
  <1>1. ASSUME NEW s \in ESkus PROVE SalesOf(orders, lines, s) = << >>
    <2>1. {x \in Orders : orders[x] # NoOrder} = {}
      BY DEF Init, NothingLoaded
    <2>2. SalesOf(orders, lines, s) = [d \in {} |-> SumFunction(NetOn(orders, lines, s, d))]
      BY <2>1 DEF SalesOf
    <2> QED BY <2>2
  <1>2. /\ IsFunctionOf(daily, ESkus) /\ IsFunctionOf(plan, Clients)
        /\ \A s \in ESkus : daily[s] = << >>
        /\ \A c \in Clients : pc[c] = "idle" /\ loaded[c] = NothingLoaded
        /\ orders = NothingLoaded
    BY DEF Init, IsFunctionOf
  <1> QED BY <1>1, <1>2 DEF SalesInv, NothingLoaded

(* For any number of orders, events, skus and calls: while calls are served *)
(* one at a time the daily sales of a sku are the sums over the lines in    *)
(* the database, after an update that drops the sku or moves its day, a     *)
(* rebuild for a new mapping and a backfill.  A write rebuilds the skus of  *)
(* the old lines and of the new ones, from the orders its session holds.    *)
THEOREM SalesAreOfTheLines == Spec => []SalesEqualLines
  <1>1. Inv /\ SalesInv /\ [Next]_vars => SalesInv'
    BY SalesNext
  <1>2. SalesInv => SalesEqualLines
    BY DEF SalesInv, SalesEqualLines
  <1> QED BY InvHolds, SalesInit, <1>1, <1>2, PTL DEF Spec
-----------------------------------------------------------------------------
(* Quality.  Until a run ends there is no verdict, and afterwards the      *)
(* evidence does not change: a verdict is that on the evidence as it is.   *)

Unnamed == [resource : {"unknown"}, form : Forms, old : BOOLEAN, rows : {<< >>}]
HeldPages == Pages \cup Unnamed

QualityShape ==
    /\ evidence = [status |-> evidence.status, live |-> evidence.live,
                   declared |-> evidence.declared, pages |-> evidence.pages,
                   kept |-> evidence.kept, rows |-> evidence.rows, existing |-> evidence.existing]
    /\ evidence.status \in {"running", "failing", "partial", "succeeded"}
    /\ evidence.live \in BOOLEAN /\ evidence.declared \in Declared
    /\ evidence.pages \in Seq(HeldPages)
    /\ evidence.kept \in [evidence.declared -> {"ok", "truncated", "failed"}]
    /\ \A q, r \in evidence.existing : q = r
    /\ fetched \in Seq(evidence.declared)
    /\ ~evidence.live => fetched = << >>

FetchedOf(n) == {i \in DOMAIN fetched : fetched[i] = n}
CutOf(n) == \E i \in FilesOf(n) : evidence.pages[i].form = "truncated"

(* A resource never has more files than responses.                         *)
LossesTold ==
    \A n \in evidence.declared :
        /\ IsFiniteSet(FilesOf(n)) /\ IsFiniteSet(FetchedOf(n))
        /\ Cardinality(FilesOf(n)) <= Cardinality(FetchedOf(n))
        /\ Cardinality(FilesOf(n)) < Cardinality(FetchedOf(n)) <=> evidence.kept[n] = "failed"
        /\ evidence.kept[n] # "failed" => (CutOf(n) <=> evidence.kept[n] = "truncated")

VerdictsHold ==
    /\ Running => gated = "null" /\ replayed = "null"
    /\ gated # "null" => gated = GateVerdict(evidence) /\ evidence.status = "succeeded"
    /\ replayed # "null" => replayed = ReplayVerdict(evidence)

QualityInv == QualityShape /\ LossesTold /\ VerdictsHold

LEMMA NilIs == ASSUME NEW S, NEW s \in Seq(S) PROVE s \o << >> = s
  OBVIOUS

LEMMA QualityInitHolds == QualityInit => QualityInv
  <1> SUFFICES ASSUME QualityInit PROVE QualityInv
    OBVIOUS
  <1>1. PICK declared \in Declared, live \in BOOLEAN :
          evidence = [status |-> "running", live |-> live, declared |-> declared, pages |-> << >>,
                      kept |-> [n \in declared |-> "ok"], rows |-> {}, existing |-> {}]
    BY DEF QualityInit
  <1>2. fetched = << >> /\ gated = "null" /\ replayed = "null"
    BY DEF QualityInit
  <1>3. QualityShape
    BY <1>1, <1>2 DEF QualityShape
  <1>4. ASSUME NEW n \in evidence.declared
        PROVE  FilesOf(n) = {} /\ FetchedOf(n) = {} /\ evidence.kept[n] = "ok"
    BY <1>1, <1>2, <1>4 DEF FilesOf, FetchedOf
  <1>5. LossesTold
    BY <1>4, FS_EmptySet DEF LossesTold, CutOf
  <1>6. VerdictsHold
    BY <1>2 DEF VerdictsHold
  <1> QED BY <1>3, <1>5, <1>6 DEF QualityInv

(* A response of resource m, with the files that are left of it.           *)
LEMMA FetchedPage ==
    ASSUME QualityInv, Running, NEW p \in Pages, NEW disk \in Disk, p.resource \in evidence.declared,
           evidence' = [evidence EXCEPT !.pages = @ \o Left(p, disk),
                                        !.kept[p.resource] = Worse(@, Retained(p, disk))],
           fetched' = Append(fetched, p.resource), evidence.live,
           gated' = gated, replayed' = replayed
    PROVE  QualityInv'
  <1>0. PICK m : m = p.resource
    OBVIOUS
  <1>1. /\ evidence'.declared = evidence.declared /\ evidence'.pages = evidence.pages \o Left(p, disk)
        /\ evidence'.kept = [evidence.kept EXCEPT ![p.resource] = Worse(@, Retained(p, disk))]
        /\ evidence'.status = evidence.status /\ evidence'.live = evidence.live
        /\ evidence'.existing = evidence.existing
        /\ evidence' = [status |-> evidence'.status, live |-> evidence'.live,
                   declared |-> evidence'.declared, pages |-> evidence'.pages,
                   kept |-> evidence'.kept, rows |-> evidence'.rows, existing |-> evidence'.existing]
    BY DEF QualityInv, QualityShape
  <1>2. p.form \in Forms
    BY QualityAssumption DEF QualityAssumption
  <1>3. /\ disk = "kept" => Left(p, disk) = <<p>>
        /\ disk = "torn meta" => \E u \in Unnamed : Left(p, disk) = <<u>>
        /\ disk \notin {"kept", "torn meta"} => Left(p, disk) = << >>
    <2>1. disk = "torn meta" => Left(p, disk) = <<[resource |-> "unknown", form |-> p.form,
                                                   old |-> FALSE, rows |-> << >>]>>
      BY DEF Left
    <2> QED BY <1>2, <2>1 DEF Left, Unnamed
  <1>4. evidence.pages \in Seq(HeldPages) /\ fetched \in Seq(evidence.declared)
    BY DEF QualityInv, QualityShape
  <1>5. /\ FetchedOf(m)' = FetchedOf(m) \cup {Len(fetched) + 1} /\ Len(fetched) + 1 \notin FetchedOf(m)
        /\ \A n \in evidence.declared \ {m} : FetchedOf(n)' = FetchedOf(n)
        /\ fetched' \in Seq(evidence.declared)
    <2>1. fetched \in Seq(evidence.declared) /\ m \in evidence.declared
      BY <1>0, <1>4
    <2>2. fetched' = Append(fetched, m)
      BY <1>0
    <2>3. /\ fetched' \in Seq(evidence.declared)
          /\ DOMAIN fetched' = DOMAIN fetched \cup {Len(fetched) + 1}
          /\ Len(fetched) + 1 \notin DOMAIN fetched /\ fetched'[Len(fetched) + 1] = m
          /\ \A i \in DOMAIN fetched : fetched'[i] = fetched[i]
      BY <2>1, <2>2
    <2> QED BY <2>3 DEF FetchedOf
  <1>6. /\ IsFiniteSet(FetchedOf(m)') /\ Cardinality(FetchedOf(m)') = Cardinality(FetchedOf(m)) + 1
    BY <1>0, <1>5, FS_AddElement DEF QualityInv, LossesTold
  <1>7. evidence'.kept \in [evidence.declared -> {"ok", "truncated", "failed"}]
    BY <1>1 DEF Worse, QualityInv, QualityShape
  <1>8. VerdictsHold'
    BY <1>1 DEF QualityInv, VerdictsHold, Running
  <1>9. ASSUME disk # "kept" 
        PROVE  /\ evidence'.pages \in Seq(HeldPages) /\ \A n \in evidence.declared : FilesOf(n)' = FilesOf(n)
               /\ \A i \in DOMAIN evidence.pages : evidence'.pages[i] = evidence.pages[i]
    <2>1. CASE disk = "torn meta"
      <3>0. evidence'.pages = evidence.pages \o Left(p, disk)
        BY <1>1
      <3>1. PICK u \in Unnamed : evidence'.pages = evidence.pages \o <<u>>
        <4>1. PICK u \in Unnamed : Left(p, disk) = <<u>>
          BY <1>3, <2>1
        <4> QED BY <3>0, <4>1, Zenon
      <3>2. u.resource = "unknown" /\ u \in HeldPages
        BY DEF Unnamed, HeldPages
      <3>3. "unknown" \notin evidence.declared
        BY QualityAssumption DEF QualityAssumption, QualityInv, QualityShape
      <3>4. /\ evidence'.pages \in Seq(HeldPages)
            /\ DOMAIN evidence'.pages = DOMAIN evidence.pages \cup {Len(evidence.pages) + 1}
            /\ evidence'.pages[Len(evidence.pages) + 1] = u
            /\ \A i \in DOMAIN evidence.pages : evidence'.pages[i] = evidence.pages[i]
        <4>1. evidence'.pages = Append(evidence.pages, u)
          <5>1. evidence.pages \o <<u>> = Append(evidence.pages, u)
            BY <1>4, <3>2
          <5> QED BY <3>1, <5>1, Zenon
        <4> QED BY ONLY <1>4, <3>2, <4>1
      <3> QED BY <3>2, <3>3, <3>4 DEF FilesOf
    <2>2. CASE disk # "torn meta"
      <3>0. evidence'.pages = evidence.pages \o Left(p, disk) /\ Left(p, disk) = << >>
        BY <1>1, <1>3, <1>9, <2>2
      <3>1. evidence'.pages = evidence.pages
        <4>1. evidence'.pages = evidence.pages \o << >>
          BY <3>0, Zenon
        <4> QED BY <1>4, <4>1, NilIs, Zenon
      <3> QED BY <1>4, <3>1 DEF FilesOf
    <2> QED BY <2>1, <2>2
  <1>10. ASSUME disk = "kept"
         PROVE  /\ evidence'.pages \in Seq(HeldPages) /\ Len(evidence.pages) + 1 \notin FilesOf(m)
                /\ FilesOf(m)' = FilesOf(m) \cup {Len(evidence.pages) + 1}
                /\ \A n \in evidence.declared \ {m} : FilesOf(n)' = FilesOf(n)
                /\ evidence'.pages[Len(evidence.pages) + 1] = p
                /\ \A i \in DOMAIN evidence.pages : evidence'.pages[i] = evidence.pages[i]
    <2>0. evidence'.pages = evidence.pages \o Left(p, disk) /\ Left(p, disk) = <<p>>
      BY <1>1, <1>3, <1>10
    <2>1. evidence'.pages = evidence.pages \o <<p>> /\ p \in HeldPages
      BY <2>0, Zenon DEF HeldPages
    <2>2. /\ evidence'.pages \in Seq(HeldPages)
          /\ DOMAIN evidence'.pages = DOMAIN evidence.pages \cup {Len(evidence.pages) + 1}
          /\ Len(evidence.pages) + 1 \notin DOMAIN evidence.pages
          /\ evidence'.pages[Len(evidence.pages) + 1] = p
          /\ \A i \in DOMAIN evidence.pages : evidence'.pages[i] = evidence.pages[i]
      <3>1. evidence'.pages = Append(evidence.pages, p)
        <4>1. evidence.pages \o <<p>> = Append(evidence.pages, p)
          BY <1>4, <2>1
        <4> QED BY <2>1, <4>1, Zenon
      <3> QED BY ONLY <1>4, <2>1, <3>1
    <2> QED BY <1>0, <2>2 DEF FilesOf
  <1>11. \A i \in DOMAIN evidence.pages : evidence'.pages[i] = evidence.pages[i]
    BY <1>9, <1>10
  <1>12. QualityShape'
    <2>1. evidence'.pages \in Seq(HeldPages)
      BY <1>9, <1>10
    <2>2. /\ evidence.status \in {"running", "failing", "partial", "succeeded"}
          /\ evidence.live \in BOOLEAN /\ evidence.declared \in Declared
          /\ \A q, r \in evidence.existing : q = r
      BY DEF QualityInv, QualityShape
    <2> QED BY ONLY <1>1, <1>5, <1>7, <2>1, <2>2, evidence.live DEF QualityShape
  <1>13. ASSUME NEW n \in evidence.declared
         PROVE  /\ IsFiniteSet(FilesOf(n)') /\ IsFiniteSet(FetchedOf(n)')
                /\ Cardinality(FilesOf(n)') <= Cardinality(FetchedOf(n)')
                /\ Cardinality(FilesOf(n)') < Cardinality(FetchedOf(n)') <=> evidence'.kept[n] = "failed"
                /\ evidence'.kept[n] # "failed" => (CutOf(n)' <=> evidence'.kept[n] = "truncated")
    <2> DEFINE fs == FilesOf(n)  gs == FetchedOf(n)
    <2>1. /\ IsFiniteSet(fs) /\ IsFiniteSet(gs)
          /\ Cardinality(fs) <= Cardinality(gs)
          /\ Cardinality(fs) < Cardinality(gs) <=> evidence.kept[n] = "failed"
          /\ evidence.kept[n] # "failed" => (CutOf(n) <=> evidence.kept[n] = "truncated")
      BY DEF QualityInv, LossesTold
    <2>2. Cardinality(fs) \in Nat /\ Cardinality(gs) \in Nat
      BY <2>1, FS_CardinalityType
    <2>3. FilesOf(n)' = FilesOf(n) => (CutOf(n)' <=> CutOf(n))
      BY <1>11 DEF CutOf, FilesOf
    <2>4. CASE n # m
      <3>1. FilesOf(n)' = fs /\ FetchedOf(n)' = gs /\ evidence'.kept[n] = evidence.kept[n]
        BY <1>0, <1>1, <1>5, <1>9, <1>10, <2>4 DEF QualityInv, QualityShape
      <3> QED BY <2>1, <2>3, <3>1
    <2>5. CASE n = m /\ disk # "kept"
      <3>1. FilesOf(n)' = fs /\ evidence'.kept[n] = "failed"
        BY <1>0, <1>1, <1>9, <2>5 DEF Worse, Retained, QualityInv, QualityShape
      <3> QED BY <1>6, <2>1, <2>2, <2>5, <3>1
    <2>6. CASE n = m /\ disk = "kept"
      <3>1. /\ IsFiniteSet(FilesOf(n)') /\ Cardinality(FilesOf(n)') = Cardinality(fs) + 1
        <4> DEFINE new == Len(evidence.pages) + 1
        <4>1. FilesOf(n)' = fs \cup {new} /\ new \notin fs
          BY <1>0, <1>10, <2>6 DEF FilesOf
        <4>2. IsFiniteSet(fs)
          BY <2>1
        <4> HIDE DEF new, fs
        <4>3. IsFiniteSet(fs \cup {new}) /\ Cardinality(fs \cup {new}) = Cardinality(fs) + 1
          BY <4>1, <4>2, FS_AddElement
        <4> QED BY <4>1, <4>3
      <3>2. CutOf(n)' <=> CutOf(n) \/ p.form = "truncated"
        <4>1. /\ FilesOf(n)' = FilesOf(n) \cup {Len(evidence.pages) + 1}
              /\ evidence'.pages[Len(evidence.pages) + 1] = p
          BY <1>0, <1>10, <2>6
        <4>2. \A i \in FilesOf(n) : evidence'.pages[i] = evidence.pages[i]
          BY <1>11 DEF FilesOf
        <4> QED BY ONLY <4>1, <4>2 DEF CutOf
      <3>3. /\ evidence'.kept[n] = Worse(evidence.kept[n], Retained(p, disk))
            /\ evidence.kept[n] \in {"ok", "truncated", "failed"}
        BY <1>0, <1>1, <2>6 DEF QualityInv, QualityShape
      <3>4. /\ evidence'.kept[n] = "failed" <=> evidence.kept[n] = "failed"
            /\ evidence'.kept[n] # "failed" =>
                  (evidence'.kept[n] = "truncated" <=> evidence.kept[n] = "truncated" \/ p.form = "truncated")
        BY <2>6, <3>3 DEF Worse, Retained
      <3> QED BY <1>6, <2>1, <2>2, <2>6, <3>1, <3>2, <3>4
    <2> QED BY <2>4, <2>5, <2>6
  <1>14. LossesTold'
    BY <1>1, <1>13 DEF LossesTold
  <1> QED BY <1>8, <1>12, <1>14 DEF QualityInv

LEMMA QualityNextHolds == QualityInv /\ [QualityNext]_qualityVars => QualityInv'
  <1> SUFFICES ASSUME QualityInv, [QualityNext]_qualityVars PROVE QualityInv'
    OBVIOUS
  <1>0. ASSUME evidence'.pages = evidence.pages, evidence'.declared = evidence.declared,
               evidence'.kept = evidence.kept, fetched' = fetched
        PROVE  LossesTold'
    <2>1. ASSUME NEW n \in evidence.declared
          PROVE  /\ IsFiniteSet(FilesOf(n)') /\ IsFiniteSet(FetchedOf(n)')
                 /\ Cardinality(FilesOf(n)') <= Cardinality(FetchedOf(n)')
                 /\ Cardinality(FilesOf(n)') < Cardinality(FetchedOf(n)') <=> evidence'.kept[n] = "failed"
                 /\ evidence'.kept[n] # "failed" => (CutOf(n)' <=> evidence'.kept[n] = "truncated")
      <3>1. FilesOf(n)' = FilesOf(n) /\ FetchedOf(n)' = FetchedOf(n)
        BY <1>0 DEF FilesOf, FetchedOf
      <3>2. CutOf(n)' <=> CutOf(n)
        BY <1>0, <3>1 DEF CutOf
      <3> QED BY <1>0, <3>1, <3>2 DEF QualityInv, LossesTold
    <2> QED BY <1>0, <2>1 DEF LossesTold
  <1>1. CASE UNCHANGED qualityVars
    BY <1>0, <1>1 DEF qualityVars, QualityInv, QualityShape, VerdictsHold, Running
  (* Another status, or other rows, while nothing is judged. *)
  <1>2. ASSUME Running, fetched' = fetched, gated' = gated, replayed' = replayed,
               evidence'.declared = evidence.declared, evidence'.pages = evidence.pages,
               evidence'.kept = evidence.kept, evidence'.live = evidence.live,
               evidence'.status \in {"failing", "partial", "succeeded"},
               \A q, r \in evidence'.existing : q = r,
               evidence' = [status |-> evidence'.status, live |-> evidence'.live,
                    declared |-> evidence'.declared, pages |-> evidence'.pages,
                    kept |-> evidence'.kept, rows |-> evidence'.rows, existing |-> evidence'.existing]
        PROVE  QualityInv'
    <2>1. QualityShape'
      BY <1>2 DEF QualityInv, QualityShape
    <2>2. LossesTold'
      BY <1>0, <1>2
    <2>3. VerdictsHold'
      BY <1>2 DEF QualityInv, VerdictsHold
    <2> QED BY <2>1, <2>2, <2>3 DEF QualityInv
  <1>5. CASE Fetch
    <2>1. PICK answers \in [1..(MaxRetries + 1) -> {"page", "busy", "refused"}] :
            IF Outcome(answers) # "page"
            THEN evidence' = [evidence EXCEPT !.status = "failing"] /\ UNCHANGED fetched
            ELSE \E p \in Pages, disk \in Disk :
                    /\ p.resource \in evidence.declared
                    /\ evidence' = [evidence EXCEPT
                          !.pages = @ \o Left(p, disk),
                          !.kept[p.resource] = Worse(@, Retained(p, disk))]
                    /\ fetched' = Append(fetched, p.resource)
      BY <1>5 DEF Fetch
    <2>2. Running /\ evidence.live /\ gated' = gated /\ replayed' = replayed
      BY <1>5 DEF Fetch
    <2>3. CASE Outcome(answers) # "page"
      BY <1>2, <2>1, <2>2, <2>3 DEF QualityInv, QualityShape
    <2>4. CASE Outcome(answers) = "page"
      BY <2>1, <2>2, <2>4, FetchedPage
    <2> QED BY <2>3, <2>4
  <1>6. CASE End
    <2>1. fetched' = fetched /\ gated' = gated /\ replayed' = replayed
      BY <1>6 DEF End
    <2>2. CASE evidence.status = "failing" /\ evidence' = [evidence EXCEPT !.status = "partial"]
      BY <1>2, <2>1, <2>2 DEF QualityInv, QualityShape, Running
    <2>3. CASE /\ evidence.status = "running"
               /\ \E rs \in SUBSET StoredRows, es \in {{}} \cup {{r} : r \in StoredRows} :
                     evidence' = [evidence EXCEPT !.status = "succeeded", !.rows = rs, !.existing = es]
      <3>1. PICK rs \in SUBSET StoredRows, es \in {{}} \cup {{r} : r \in StoredRows} :
                     evidence' = [evidence EXCEPT !.status = "succeeded", !.rows = rs, !.existing = es]
        BY <2>3
      <3>2. evidence' = [status |-> "succeeded", live |-> evidence.live,
                         declared |-> evidence.declared, pages |-> evidence.pages,
                         kept |-> evidence.kept, rows |-> rs, existing |-> es]
        BY <3>1 DEF QualityInv, QualityShape
      <3>3. Running /\ \A q, r \in evidence'.existing : q = r
        BY <2>3, <3>1, <3>2 DEF Running
      <3> QED BY <1>2, <2>1, <3>2, <3>3
    <2> QED BY <1>6, <2>2, <2>3 DEF End
  <1>7. CASE Gate
    <2>1. /\ evidence' = evidence /\ fetched' = fetched /\ replayed' = replayed
          /\ evidence.status = "succeeded" /\ gated' = GateVerdict(evidence)
      BY <1>7 DEF Gate
    <2>2. VerdictsHold'
      BY <2>1 DEF QualityInv, VerdictsHold, Running
    <2>3. QualityShape' /\ LossesTold'
      BY <1>0, <2>1 DEF QualityInv, QualityShape
    <2> QED BY <2>2, <2>3 DEF QualityInv
  <1>8. CASE ReplayPages
    <2>1. /\ evidence' = evidence /\ fetched' = fetched /\ gated' = gated
          /\ ~Running /\ replayed' = ReplayVerdict(evidence)
      BY <1>8 DEF ReplayPages
    <2>2. VerdictsHold'
      BY <2>1 DEF QualityInv, VerdictsHold, Running
    <2>3. QualityShape' /\ LossesTold'
      BY <1>0, <2>1 DEF QualityInv, QualityShape
    <2> QED BY <2>2, <2>3 DEF QualityInv
  <1> QED BY <1>1, <1>5, <1>6, <1>7, <1>8 DEF QualityNext

(* What the dimensions find out.                                           *)
LEMMA VerdictIs ==
    ASSUME NEW found
    PROVE  /\ Verdict(found) \in {"failed", "warn", "ok"}
           /\ Verdict(found) = "failed" <=> "structural" \in found \/ "integrity" \in found
           /\ Verdict(found) = "ok" <=> found = {}
  BY DEF Verdict, Hard

LEMMA FindingsAre ==
    ASSUME NEW pages, NEW rows, NEW declared, NEW existing
    PROVE  LET found == Findings(pages, rows, declared, existing)
           IN /\ "structural" \in found <=> \E i \in DOMAIN pages : pages[i].form = "broken"
              /\ "integrity" \in found <=> \E i \in DOMAIN rows : rows[i].dirty
              /\ "consistency" \in found <=> Inconsistent(rows, existing)
              /\ "completeness" \in found <=> Incomplete(pages, declared)
  BY DEF Findings, Dimensions, Hard

LEMMA GateIs ==
    ASSUME QualityInv, gated # "null"
    PROVE  LET e == evidence  broken == \E i \in DOMAIN e.pages : e.pages[i].form = "broken"
               dirty == \E r \in e.rows : r.dirty
           IN /\ gated = "unknown" <=> Unjudgeable(e)
              /\ gated \in {"unknown", "failed", "warn", "ok"}
              /\ gated = "failed" <=> ~Unjudgeable(e) /\ (broken \/ dirty)
              /\ gated = "ok" => /\ ~Incomplete(e.pages, IF e.live THEN e.declared ELSE {})
                                 /\ ~Inconsistent([r \in e.rows |-> r], e.existing)
              /\ Incomplete(e.pages, IF e.live THEN e.declared ELSE {}) /\ ~Unjudgeable(e)
                    => gated # "ok"
  <1> DEFINE e == evidence
             found == Findings(e.pages, [r \in e.rows |-> r], IF e.live THEN e.declared ELSE {}, e.existing)
  <1>1. gated = IF Unjudgeable(e) THEN "unknown" ELSE Verdict(found)
    BY DEF QualityInv, VerdictsHold, GateVerdict, RetentionExpected
  <1>2. /\ "structural" \in found <=> \E i \in DOMAIN e.pages : e.pages[i].form = "broken"
        /\ "integrity" \in found <=> \E i \in DOMAIN [r \in e.rows |-> r] : [r \in e.rows |-> r][i].dirty
        /\ "consistency" \in found <=> Inconsistent([r \in e.rows |-> r], e.existing)
        /\ "completeness" \in found <=> Incomplete(e.pages, IF e.live THEN e.declared ELSE {})
    BY FindingsAre
  <1>3. (\E i \in DOMAIN [r \in e.rows |-> r] : [r \in e.rows |-> r][i].dirty) <=> \E r \in e.rows : r.dirty
    OBVIOUS
  <1>4. /\ Verdict(found) \in {"failed", "warn", "ok"}
        /\ Verdict(found) = "failed" <=> "structural" \in found \/ "integrity" \in found
        /\ Verdict(found) = "ok" <=> found = {}
    BY VerdictIs
  <1> HIDE DEF found
  <1> QED BY <1>1, <1>2, <1>3, <1>4

LEMMA ReplayIs ==
    ASSUME QualityInv, replayed # "null"
    PROVE  LET e == evidence  broken == \E i \in DOMAIN e.pages : e.pages[i].form = "broken"
           IN /\ replayed \in {"unknown", "failed", "warn", "ok"}
              /\ replayed = "unknown" <=> e.pages = << >>
              /\ e.pages # << >> /\ broken => replayed = "failed"
              /\ replayed = "failed" => \/ broken
                                        \/ \E i \in DOMAIN e.pages : \E j \in DOMAIN e.pages[i].rows :
                                              e.pages[i].rows[j].dirty
              /\ replayed = "ok" => ~Incomplete(e.pages, {})
  <1> DEFINE e == evidence
             found == Findings(e.pages, RowsIn(e.pages), {}, {})
  <1>1. replayed = IF e.pages = << >> THEN "unknown" ELSE Verdict(found)
    BY DEF QualityInv, VerdictsHold, ReplayVerdict
  <1>2. /\ "structural" \in found <=> \E i \in DOMAIN e.pages : e.pages[i].form = "broken"
        /\ "integrity" \in found <=> \E i \in DOMAIN RowsIn(e.pages) : RowsIn(e.pages)[i].dirty
        /\ "completeness" \in found <=> Incomplete(e.pages, {})
    BY FindingsAre
  <1>3. ASSUME NEW at \in DOMAIN RowsIn(e.pages), RowsIn(e.pages)[at].dirty
        PROVE  \E i \in DOMAIN e.pages : \E j \in DOMAIN e.pages[i].rows : e.pages[i].rows[j].dirty
    <2>1. RowsIn(e.pages)[at] = e.pages[at[1]].rows[at[2]]
      BY DEF RowsIn
    <2>2. at[1] \in DOMAIN e.pages /\ at[2] \in DOMAIN e.pages[at[1]].rows
      BY DEF RowsIn
    <2> QED BY <1>3, <2>1, <2>2
  <1>4. /\ Verdict(found) \in {"failed", "warn", "ok"}
        /\ Verdict(found) = "failed" <=> "structural" \in found \/ "integrity" \in found
        /\ Verdict(found) = "ok" <=> found = {}
    BY VerdictIs
  <1> HIDE DEF found
  <1> QED BY <1>1, <1>2, <1>3, <1>4

LEMMA GapsAre ==
    /\ "broken" \in Gaps(evidence) <=> \E i \in DOMAIN evidence.pages : evidence.pages[i].form = "broken"
    /\ "truncated" \in Gaps(evidence) <=> \E i \in DOMAIN evidence.pages : evidence.pages[i].form = "truncated"
    /\ Gaps(evidence) \subseteq {"broken", "truncated"}
  BY DEF Gaps

(* The ledger of the run, as LossesTold has it.                            *)
LEMMA LedgerTells == QualityInv => LedgerTellsLosses
  <1> SUFFICES ASSUME QualityInv, NEW n \in DOMAIN evidence.kept
               PROVE  LET lost == Cardinality(FilesOf(n)) < Cardinality(FetchedOf(n))
                      IN /\ lost <=> evidence.kept[n] = "failed"
                         /\ ~lost => (CutOf(n) <=> evidence.kept[n] = "truncated")
    BY DEF LedgerTellsLosses, FetchedOf, CutOf
  <1> QED BY DEF QualityInv, QualityShape, LossesTold

(* For any responses, rows, ledgers, retries and losses of files: what a   *)
(* recorded verdict lets a reader conclude holds.  The gate and the replay *)
(* judge evidence that no longer changes, and the ledger of the run counts *)
(* each response it loses (apply_quality_gate, replay_quality, evaluate,   *)
(* ShopifyLiveTransport).                                                  *)
THEOREM VerdictsAreEarned == QualitySpec => []VerdictIsEarned
  <1> DEFINE e == evidence
  <1>1. ASSUME QualityInv, gated = "ok"
        PROVE  /\ e.pages # << >> \/ e.rows # {}
               /\ Gaps(e) = {}
               /\ \A r \in e.rows : ~r.dirty /\ (\A q \in e.existing : q.key = r.key => q.hash = r.hash)
               /\ e.live => \A n \in e.declared : FilesOf(n) # {} /\ e.kept[n] # "truncated"
    <2>1. /\ ~Unjudgeable(e) /\ ~Incomplete(e.pages, IF e.live THEN e.declared ELSE {})
          /\ ~Inconsistent([r \in e.rows |-> r], e.existing)
          /\ ~(\E i \in DOMAIN e.pages : e.pages[i].form = "broken")
          /\ ~(\E r \in e.rows : r.dirty)
      BY <1>1, GateIs
    <2>2. e.pages # << >> \/ e.rows # {}
      BY <2>1 DEF Unjudgeable
    <2>3. Gaps(e) = {}
      BY <2>1, GapsAre DEF Incomplete
    <2>4. ASSUME NEW r \in e.rows, NEW q \in e.existing, q.key = r.key PROVE q.hash = r.hash
      <3>1. \A p \in e.existing : p = q
        BY <1>1 DEF QualityInv, QualityShape
      <3>2. LET known == {p.hash : p \in {x \in e.existing : x.key = r.key}}
            IN ~(known # {} /\ r.hash \notin known)
        BY <2>1 DEF Inconsistent
      <3> QED BY <2>4, <3>1, <3>2
    <2>5. ASSUME e.live, NEW n \in e.declared PROVE FilesOf(n) # {} /\ e.kept[n] # "truncated"
      <3>1. e.declared = {e.pages[i].resource : i \in DOMAIN e.pages}
        BY <2>1, <2>5 DEF Incomplete
      <3>2. FilesOf(n) # {}
        BY <3>1 DEF FilesOf
      <3>3. e.kept[n] = "truncated" => CutOf(n)
        BY <1>1 DEF QualityInv, LossesTold
      <3>4. ~CutOf(n)
        BY <2>1 DEF CutOf, Incomplete, FilesOf
      <3> QED BY <3>2, <3>3, <3>4
    <2> QED BY <2>1, <2>2, <2>3, <2>4, <2>5
  <1>2. ASSUME QualityInv, gated = "unknown"
        PROVE  e.pages = << >> /\ \A i \in DOMAIN fetched : e.kept[fetched[i]] = "failed"
    <2>1. e.pages = << >>
      BY <1>2, GateIs DEF Unjudgeable
    <2>2. ASSUME NEW i \in DOMAIN fetched PROVE e.kept[fetched[i]] = "failed"
      <3>1. PICK n : n = fetched[i]
        OBVIOUS
      <3>2. n \in e.declared /\ i \in FetchedOf(n)
        BY <1>2, <3>1 DEF QualityInv, QualityShape, FetchedOf
      <3>3. FilesOf(n) = {}
        BY <2>1 DEF FilesOf
      <3>4. Cardinality(FilesOf(n)) = 0 /\ Cardinality(FetchedOf(n)) # 0
        BY <1>2, <3>2, <3>3, FS_EmptySet DEF QualityInv, LossesTold
      <3>5. Cardinality(FilesOf(n)) < Cardinality(FetchedOf(n))
        <4>1. Cardinality(FetchedOf(n)) \in Nat
          BY <1>2, <3>2, FS_CardinalityType DEF QualityInv, LossesTold
        <4> QED BY <3>4, <4>1
      <3> QED BY <1>2, <3>1, <3>2, <3>5 DEF QualityInv, LossesTold
    <2> QED BY <2>1, <2>2
  <1>3. ASSUME QualityInv, gated # "null", replayed = "ok" PROVE Gaps(e) = {}
    BY <1>3, ReplayIs, GapsAre DEF Incomplete
  <1>4. ASSUME QualityInv, gated = "failed", replayed \in {"ok", "warn"}
        PROVE  \E r \in e.rows : r.dirty
    BY <1>4, GateIs, ReplayIs
  <1>5. ASSUME QualityInv, Gaps(e) = {"truncated"}, \A r \in e.rows : ~r.dirty
        PROVE  gated \in {"null", "warn"}
    <2>1. /\ \E i \in DOMAIN e.pages : e.pages[i].form = "truncated"
          /\ ~(\E i \in DOMAIN e.pages : e.pages[i].form = "broken")
      BY <1>5, GapsAre
    <2>2. Incomplete(e.pages, IF e.live THEN e.declared ELSE {}) /\ ~Unjudgeable(e)
      BY <2>1 DEF Incomplete, Unjudgeable
    <2> QED BY <1>5, <2>1, <2>2, GateIs
  <1>6. ASSUME QualityInv, gated = "ok", replayed = "failed"
        PROVE  \E i \in DOMAIN e.pages : \E j \in DOMAIN e.pages[i].rows : e.pages[i].rows[j].dirty
    <2>1. ~(\E i \in DOMAIN e.pages : e.pages[i].form = "broken")
      BY <1>6, GateIs
    <2> QED BY <1>6, <2>1, ReplayIs
  <1>7. QualityInv => VerdictIsEarned
    BY <1>1, <1>2, <1>3, <1>4, <1>5, <1>6, LedgerTells DEF VerdictIsEarned
  <1> QED BY QualityInitHolds, QualityNextHolds, <1>7, PTL DEF QualitySpec
-----------------------------------------------------------------------------
(* Events.  What a call found of an event stays so until it writes: an     *)
(* event that is in the inbox keeps its payload.                           *)

InboxShape ==
    /\ inbox \in [Keys -> Entry \cup {NoEvent}]
    /\ judged \in [Keys -> SUBSET Hashes]
    /\ runOf \in [Receivers -> RunStatuses]
    /\ receiving = [c \in Receivers |->
                      [ahead |-> receiving[c].ahead, found |-> receiving[c].found]]
    /\ \A c \in Receivers :
          receiving[c].ahead \subseteq Event /\ DOMAIN receiving[c].found \subseteq Event

KeyIsJudged(k) ==
    /\ inbox[k] = NoEvent <=> judged[k] = {}
    /\ inbox[k] # NoEvent =>
          /\ inbox[k].hash \in judged[k]
          /\ inbox[k].status = "conflict" <=> judged[k] # {inbox[k].hash}

(* found is what a call that has not written yet found.                    *)
FoundIsSo(found) ==
    \A e \in DOMAIN found : found[e] # NoEvent =>
        inbox[e.key] # NoEvent /\ inbox[e.key].hash = found[e].hash

FoundAreJudged(found) == \A e \in DOMAIN found : e.hash \in judged[e.key]

ReceiversHold ==
    \A c \in Receivers :
        /\ runOf[c] = "running" => FoundIsSo(receiving[c].found)
        /\ runOf[c] \in {"judged", "succeeded"} => FoundAreJudged(receiving[c].found)

EventInv == InboxShape /\ (\A k \in Keys : KeyIsJudged(k)) /\ ReceiversHold

LEMMA EntryIsThere ==
    ASSUME NEW row \in Entry PROVE row # NoEvent /\ row.hash \in Hashes /\ row.status \in {"received", "conflict"}
  BY DEF Entry, NoEvent

LEMMA EventInitHolds == EventInit => EventInv
  BY DEF EventInit, EventInv, InboxShape, KeyIsJudged, ReceiversHold, NoEvent, RunStatuses, NotReceiving

(* What a commit makes of a key.                                           *)
LEMMA CommitJudges ==
    ASSUME EventInv, NEW c \in Receivers, CommitEvents(c), NEW k \in Keys
    PROVE  /\ inbox'[k] \in Entry \cup {NoEvent} /\ judged'[k] \in SUBSET Hashes
           /\ KeyIsJudged(k)'
           /\ inbox[k] # NoEvent => inbox'[k] # NoEvent /\ inbox'[k].hash = inbox[k].hash
           /\ \A e \in DOMAIN receiving[c].found : e.key = k => e.hash \in judged'[k]
           /\ judged[k] \subseteq judged'[k]
  <1> DEFINE found == receiving[c].found
             mine == {f \in DOMAIN found : f.key = k}
             conflicts == {e.key : e \in Contradicting(found)}
             fresh == {e.hash : e \in {f \in Fresh(found) : f.key = k}}
  <1>1. /\ runOf[c] = "running" /\ Inserts(found)
        /\ inbox'[k] = IF fresh # {} THEN [hash |-> CHOOSE h \in fresh : TRUE, status |-> "received"]
                       ELSE IF k \in conflicts THEN [inbox[k] EXCEPT !.status = "conflict"] ELSE inbox[k]
        /\ judged'[k] = judged[k] \cup {e.hash : e \in mine}
    BY DEF CommitEvents
  <1>2. /\ inbox[k] \in Entry \cup {NoEvent} /\ judged[k] \in SUBSET Hashes
        /\ DOMAIN found \subseteq Event /\ KeyIsJudged(k) /\ FoundIsSo(found)
    BY <1>1 DEF EventInv, InboxShape, ReceiversHold
  <1>3. \A e \in mine : e.hash \in Hashes /\ e.key = k
    BY <1>2 DEF Event
  <1>4. CASE fresh # {}
    <2>1. PICK e \in mine : found[e] = NoEvent
      BY <1>4 DEF Fresh
    <2>2. inbox[k] = NoEvent
      BY <1>1, <2>1 DEF Inserts, Fresh
    <2>3. \A f \in mine : f = e
      BY <1>1, <1>2, <2>1, <2>2 DEF FoundIsSo, Inserts, Fresh
    <2>4. fresh = {e.hash} /\ {f.hash : f \in mine} = {e.hash}
      BY <2>1, <2>3 DEF Fresh
    <2>5. inbox'[k] = [hash |-> e.hash, status |-> "received"] /\ judged'[k] = {e.hash}
      BY <1>1, <1>2, <1>4, <2>2, <2>4 DEF KeyIsJudged
    <2>6. inbox'[k] \in Entry
      BY <1>3, <2>1, <2>5 DEF Entry
    <2> QED BY <1>2, <1>3, <2>1, <2>2, <2>3, <2>4, <2>5, <2>6, EntryIsThere DEF KeyIsJudged
  <1>5. CASE fresh = {}
    <2>1. \A e \in mine : found[e] # NoEvent /\ inbox[k] # NoEvent /\ inbox[k].hash = found[e].hash
      BY <1>2, <1>5 DEF Fresh, FoundIsSo
    <2>2. k \in conflicts <=> \E e \in mine : e.hash # inbox[k].hash
      BY <2>1 DEF Contradicting
    <2>3. CASE k \in conflicts
      <3>1. inbox[k] # NoEvent
        BY <2>1, <2>2, <2>3
      <3>2. inbox[k] \in Entry /\ inbox'[k] = [inbox[k] EXCEPT !.status = "conflict"]
        BY <1>1, <1>2, <1>5, <2>3, <3>1
      <3>3. inbox'[k] \in Entry /\ inbox'[k].hash = inbox[k].hash /\ inbox'[k].status = "conflict"
        BY <3>2 DEF Entry
      <3> QED BY <1>1, <1>2, <1>3, <2>2, <2>3, <3>1, <3>3, EntryIsThere DEF KeyIsJudged
    <2>4. CASE k \notin conflicts
      <3>1. inbox'[k] = inbox[k]
        BY <1>1, <1>5, <2>4
      <3>2. \A e \in mine : inbox[k] # NoEvent /\ e.hash = inbox[k].hash
        BY <2>1, <2>2, <2>4
      <3>3. {e.hash : e \in mine} \subseteq judged[k]
        BY <1>2, <3>2 DEF KeyIsJudged
      <3> QED BY <1>1, <1>2, <1>3, <3>1, <3>3 DEF KeyIsJudged
    <2> QED BY <2>3, <2>4
  <1> QED BY <1>4, <1>5

LEMMA CommitEventsHolds == ASSUME EventInv, NEW c \in Receivers, CommitEvents(c) PROVE EventInv'
  <1>1. /\ runOf[c] = "running" /\ receiving' = receiving
        /\ runOf' = [runOf EXCEPT ![c] = "judged"]
        /\ inbox' = [k \in Keys |-> inbox'[k]] /\ judged' = [k \in Keys |-> judged'[k]]
    BY DEF CommitEvents
  <1>2. ASSUME NEW k \in Keys
        PROVE  /\ inbox'[k] \in Entry \cup {NoEvent} /\ judged'[k] \in SUBSET Hashes
               /\ KeyIsJudged(k)'
               /\ inbox[k] # NoEvent => inbox'[k] # NoEvent /\ inbox'[k].hash = inbox[k].hash
               /\ \A e \in DOMAIN receiving[c].found : e.key = k => e.hash \in judged'[k]
               /\ judged[k] \subseteq judged'[k]
    BY CommitJudges
  <1>3. inbox' \in [Keys -> Entry \cup {NoEvent}] /\ judged' \in [Keys -> SUBSET Hashes]
    BY ONLY <1>1, <1>2
  <1>4. InboxShape'
    BY <1>1, <1>3 DEF EventInv, InboxShape, RunStatuses
  <1>5. ASSUME NEW d \in Receivers
        PROVE  /\ runOf'[d] = "running" => FoundIsSo(receiving[d].found)'
               /\ runOf'[d] \in {"judged", "succeeded"} => FoundAreJudged(receiving[d].found)'
    <2>1. \A e \in DOMAIN receiving[d].found : e.key \in Keys
      BY DEF EventInv, InboxShape, Event
    <2>2. runOf'[d] = (IF d = c THEN "judged" ELSE runOf[d]) /\ receiving'[d] = receiving[d]
      BY <1>1 DEF EventInv, InboxShape
    <2>3. /\ runOf[d] = "running" => FoundIsSo(receiving[d].found)
          /\ runOf[d] \in {"judged", "succeeded"} => FoundAreJudged(receiving[d].found)
      BY DEF EventInv, ReceiversHold
    <2>4. CASE d = c
      BY <1>2, <2>1, <2>2, <2>4 DEF FoundAreJudged
    <2>5. CASE d # c
      BY <1>2, <2>1, <2>2, <2>3, <2>5 DEF FoundAreJudged, FoundIsSo
    <2> QED BY <2>4, <2>5
  <1>6. ReceiversHold'
    BY <1>5 DEF ReceiversHold, FoundIsSo, FoundAreJudged
  <1> QED BY <1>2, <1>4, <1>6 DEF EventInv

(* A step that changes what one call holds and nothing else.               *)
LEMMA CallMoves ==
    ASSUME EventInv, inbox' = inbox, judged' = judged, InboxShape', NEW c \in Receivers,
           \A d \in Receivers \ {c} : runOf'[d] = runOf[d] /\ receiving'[d] = receiving[d],
           runOf'[c] = "running" => FoundIsSo(receiving'[c].found),
           runOf'[c] \in {"judged", "succeeded"} => FoundAreJudged(receiving'[c].found)
    PROVE  EventInv'
  <1>1. \A k \in Keys : KeyIsJudged(k)'
    BY DEF EventInv, KeyIsJudged
  <1>2. ReceiversHold'
    BY DEF EventInv, ReceiversHold, FoundIsSo, FoundAreJudged
  <1> QED BY <1>1, <1>2 DEF EventInv

LEMMA EventNextHolds == EventInv /\ [EventNext]_eventVars => EventInv'
  <1> SUFFICES ASSUME EventInv, [EventNext]_eventVars PROVE EventInv'
    OBVIOUS
  <1>0. /\ receiving = [c \in Receivers |->
                          [ahead |-> receiving[c].ahead, found |-> receiving[c].found]]
        /\ runOf \in [Receivers -> RunStatuses]
    BY DEF EventInv, InboxShape
  <1>1. CASE UNCHANGED eventVars
    BY <1>1 DEF eventVars, EventInv, InboxShape, KeyIsJudged, ReceiversHold, FoundIsSo, FoundAreJudged
  <1>2. ASSUME NEW c \in Receivers, ReceiveBatch(c) PROVE EventInv'
    <2>1. PICK b \in SUBSET Event : receiving' = [receiving EXCEPT ![c] = [ahead |-> b, found |-> << >>]]
      BY <1>2 DEF ReceiveBatch
    <2>2. runOf' = [runOf EXCEPT ![c] = "running"] /\ inbox' = inbox /\ judged' = judged
      BY <1>2 DEF ReceiveBatch
    <2>3. receiving'[c] = [ahead |-> b, found |-> << >>] /\ DOMAIN receiving'[c].found = {}
      BY <1>0, <2>1
    <2>4. InboxShape'
      BY <2>1, <2>2 DEF EventInv, InboxShape, RunStatuses
    <2>5. runOf'[c] = "running" /\ FoundIsSo(receiving'[c].found)
      BY <1>0, <2>2, <2>3 DEF FoundIsSo
    <2>6. \A d \in Receivers \ {c} : runOf'[d] = runOf[d] /\ receiving'[d] = receiving[d]
      BY <1>0, <2>1, <2>2
    <2> QED BY <2>2, <2>4, <2>5, <2>6, CallMoves
  <1>3. ASSUME NEW c \in Receivers, LookUpEvent(c) PROVE EventInv'
    <2> DEFINE found == receiving[c].found
    <2>1. PICK e \in receiving[c].ahead :
            receiving' = [receiving EXCEPT ![c] =
              [ahead |-> @.ahead \ {e},
               found |-> [f \in DOMAIN @.found \cup {e} |->
                             IF f = e THEN inbox[e.key] ELSE @.found[f]]]]
      BY <1>3 DEF LookUpEvent
    <2>2. runOf[c] = "running" /\ runOf' = runOf /\ inbox' = inbox /\ judged' = judged
      BY <1>3 DEF LookUpEvent
    <2>3. /\ receiving'[c].ahead = receiving[c].ahead \ {e}
          /\ receiving'[c].found = [f \in DOMAIN found \cup {e} |-> IF f = e THEN inbox[e.key] ELSE found[f]]
      BY <1>0, <2>1
    <2>4. e \in Event /\ DOMAIN found \subseteq Event /\ FoundIsSo(found)
      BY <2>2 DEF EventInv, InboxShape, ReceiversHold
    <2>5. \A d \in Receivers \ {c} : runOf'[d] = runOf[d] /\ receiving'[d] = receiving[d]
      BY <1>0, <2>1, <2>2
    <2>6. InboxShape'
      BY <2>1, <2>2, <2>3, <2>4, <2>5 DEF EventInv, InboxShape
    <2>7. FoundIsSo(receiving'[c].found)
      BY <2>3, <2>4 DEF FoundIsSo
    <2> QED BY <2>2, <2>5, <2>6, <2>7, CallMoves
  <1>4. ASSUME NEW c \in Receivers, CommitEvents(c) PROVE EventInv'
    BY <1>4, CommitEventsHolds
  <1>5. ASSUME NEW c \in Receivers, CompleteEvents(c) PROVE EventInv'
    <2>1. /\ runOf[c] = "judged" /\ runOf' = [runOf EXCEPT ![c] = "succeeded"]
          /\ inbox' = inbox /\ judged' = judged /\ receiving' = receiving
      BY <1>5 DEF CompleteEvents
    <2>2. InboxShape'
      BY <2>1 DEF EventInv, InboxShape, RunStatuses
    <2> QED BY <1>0, <2>1, <2>2, CallMoves DEF EventInv, ReceiversHold
  <1>6. ASSUME NEW c \in Receivers, FailEvents(c) PROVE EventInv'
    <2>1. /\ runOf' = [runOf EXCEPT ![c] = "failed"] /\ inbox' = inbox /\ judged' = judged
          /\ receiving' = [receiving EXCEPT ![c] = NotReceiving]
      BY <1>6 DEF FailEvents
    <2>2. InboxShape'
      <3>1. DOMAIN NotReceiving.found = {} /\ NotReceiving.ahead = {}
            /\ NotReceiving = [ahead |-> NotReceiving.ahead, found |-> NotReceiving.found]
        BY DEF NotReceiving
      <3> QED BY <2>1, <3>1 DEF EventInv, InboxShape, RunStatuses
    <2> QED BY <1>0, <2>1, <2>2, CallMoves
  <1> QED BY <1>1, <1>2, <1>3, <1>4, <1>5, <1>6 DEF EventNext

LEMMA EventsMean == EventInv => EventTypeOK /\ EventsAreJudged
  BY DEF EventInv, InboxShape, EventTypeOK, KeyIsJudged, ReceiversHold, FoundAreJudged, EventsAreJudged

(* Whatever calls overlap, an event is in the inbox once it was judged,    *)
(* with one of the payloads it came with, and marked as contradicted       *)
(* exactly when it came with another; and a run that succeeded had all of  *)
(* its events judged (ingest_events).                                      *)
THEOREM EventsStayJudged == EventSpec => []EventsAreJudged
  BY EventInitHolds, EventNextHolds, EventsMean, PTL DEF EventSpec
-----------------------------------------------------------------------------
(* File import.  The bisection reads every row, each half of a file ends   *)
(* where the other begins, and what it makes of the rows is the same for   *)
(* whoever asks again: a call goes on with it as it is.                    *)

(* The rows from a to b of an upload, given what f makes of their halves.  *)
ReadsAll(u, a, b) == \A i \in a + 1..b : Reads(u, a, i)
Taken(u, a, b) ==
    [records |-> [k \in 1..b - a |-> [row |-> a + k, ref |-> Said(u, a, a + k)]], bad |-> <<>>]
Joined(p, q) == [records |-> p.records \o q.records, bad |-> p.bad \o q.bad]
Made(u, f, a, b) ==
    IF ReadsAll(u, a, b) THEN Taken(u, a, b)
    ELSE IF b - a = 1 THEN [records |-> <<>>, bad |-> <<b>>]
    ELSE Joined(f[Halves(a, b)[1]], f[Halves(a, b)[2]])

Places(n) == (0..n) \X (0..n)
Bisects(u, n, f) == f = [r \in Places(n) |-> Made(u, f, r[1], r[2])]

LEMMA IsolateBisects ==
    ASSUME NEW u
    PROVE  Isolate(u) = (CHOOSE f : Bisects(u, Len(u.rows), f))[<<0, Len(u.rows)>>]
  BY DEF Isolate, Bisects, Places, Made, ReadsAll, Taken, Joined

LEMMA HalvesAre ==
    ASSUME NEW a \in Nat, NEW b \in Nat, b - a >= 2
    PROVE  /\ (a + b) \div 2 \in Nat /\ a < (a + b) \div 2 /\ (a + b) \div 2 < b
           /\ Halves(a, b)[1] = <<a, (a + b) \div 2>> /\ Halves(a, b)[2] = <<(a + b) \div 2, b>>
  BY DEF Halves

(* f and g agree on the places that are narrower than w.                   *)
SameBelow(n, f, g, w) == \A c, d \in 0..n : d - c < w => f[<<c, d>>] = g[<<c, d>>]

(* What is made of some rows is made of narrower ones only.                *)
LEMMA MadeOfNarrower ==
    ASSUME NEW u, NEW n \in Nat, NEW f, NEW g, NEW a \in 0..n, NEW b \in 0..n,
           SameBelow(n, f, g, b - a)
    PROVE  Made(u, f, a, b) = Made(u, g, a, b)
  <1>1. CASE b - a <= 1
    <2>1. b - a < 1 => ReadsAll(u, a, b)
      BY DEF ReadsAll
    <2> QED BY <1>1, <2>1 DEF Made
  <1>2. CASE b - a >= 2
    <2> DEFINE mid == (a + b) \div 2
    <2>1. /\ mid \in 0..n /\ mid - a < b - a /\ b - mid < b - a
          /\ Halves(a, b)[1] = <<a, mid>> /\ Halves(a, b)[2] = <<mid, b>>
      <3>1. a \in Nat /\ b \in Nat /\ b <= n
        OBVIOUS
      <3>2. /\ mid \in Nat /\ a < mid /\ mid < b
            /\ Halves(a, b)[1] = <<a, mid>> /\ Halves(a, b)[2] = <<mid, b>>
        BY <1>2, <3>1, HalvesAre
      <3> HIDE DEF mid
      <3> QED BY <3>1, <3>2
    <2>2. f[<<a, mid>>] = g[<<a, mid>>] /\ f[<<mid, b>>] = g[<<mid, b>>]
      BY <2>1 DEF SameBelow
    <2> HIDE DEF mid
    <2> QED BY <1>2, <2>1, <2>2 DEF Made
  <1> QED BY <1>1, <1>2

(* f is right for the places no wider than w.                              *)
RightTo(u, n, w, f) ==
    \A a, b \in 0..n : b - a <= w => f[<<a, b>>] = Made(u, f, a, b)

LEMMA RightForAll ==
    ASSUME NEW u, NEW n \in Nat, NEW w \in Nat
    PROVE  \E f : RightTo(u, n, w, f)
  <1> DEFINE B == {v \in Nat : ~ \E f : RightTo(u, n, v, f)}
  <1>1. ASSUME B # {} PROVE FALSE
    <2>1. PICK v \in B : \A m \in B : v <= m
      <3>1. B \in SUBSET Nat
        OBVIOUS
      <3> HIDE DEF B
      <3> QED BY <1>1, <3>1, LeastNumber
    <2>2. CASE v = 0
      <3> DEFINE f == [r \in Places(n) |-> Made(u, <<>>, r[1], r[2])]
      <3>1. ASSUME NEW a \in 0..n, NEW b \in 0..n, b - a <= 0
            PROVE  f[<<a, b>>] = Made(u, f, a, b)
        <4>1. f[<<a, b>>] = Made(u, <<>>, a, b)
          BY DEF Places
        <4>2. ReadsAll(u, a, b)
          BY <3>1 DEF ReadsAll
        <4> QED BY <4>1, <4>2 DEF Made
      <3>2. RightTo(u, n, 0, f)
        BY <3>1 DEF RightTo
      <3> QED BY <2>1, <2>2, <3>2
    <2>3. CASE v # 0
      <3>1. v - 1 \in Nat /\ v - 1 \notin B
        BY <2>1, <2>3
      <3>2. PICK f : RightTo(u, n, v - 1, f)
        BY <3>1
      <3> DEFINE g == [r \in Places(n) |-> IF r[2] - r[1] < v THEN f[r] ELSE Made(u, f, r[1], r[2])]
      <3>3. \A a, b \in 0..n : g[<<a, b>>] = IF b - a < v THEN f[<<a, b>>] ELSE Made(u, f, a, b)
        BY DEF Places
      <3> HIDE DEF g
      <3>4. ASSUME NEW a \in 0..n, NEW b \in 0..n, b - a <= v
            PROVE  g[<<a, b>>] = Made(u, g, a, b)
        <4>1. v \in Nat
          BY <2>1
        <4>2. SameBelow(n, f, g, b - a)
          BY <3>3, <3>4, <4>1 DEF SameBelow
        <4>3. Made(u, f, a, b) = Made(u, g, a, b)
          BY <4>2, MadeOfNarrower
        <4>4. b - a < v => f[<<a, b>>] = Made(u, f, a, b)
          BY <3>2, <4>1 DEF RightTo
        <4> QED BY <3>3, <4>3, <4>4
      <3>5. RightTo(u, n, v, g)
        BY <3>4 DEF RightTo
      <3> QED BY <2>1, <3>5
    <2> QED BY <2>2, <2>3
  <1> QED BY <1>1

LEMMA BisectionExists ==
    ASSUME NEW u, NEW n \in Nat
    PROVE  \E f : Bisects(u, n, f)
  <1>1. PICK f : RightTo(u, n, n, f)
    BY RightForAll
  <1> DEFINE g == [r \in Places(n) |-> Made(u, f, r[1], r[2])]
  <1>2. ASSUME NEW a \in 0..n, NEW b \in 0..n
        PROVE  g[<<a, b>>] = f[<<a, b>>]
    <2>1. g[<<a, b>>] = Made(u, f, a, b)
      BY DEF Places
    <2>2. b - a <= n
      OBVIOUS
    <2> QED BY <1>1, <2>1, <2>2 DEF RightTo
  <1> HIDE DEF g
  <1>3. ASSUME NEW r \in Places(n)
        PROVE  Made(u, f, r[1], r[2]) = Made(u, g, r[1], r[2])
    <2>1. r[1] \in 0..n /\ r[2] \in 0..n
      BY DEF Places
    <2>2. SameBelow(n, f, g, r[2] - r[1])
      BY <1>2 DEF SameBelow
    <2> QED BY <2>1, <2>2, MadeOfNarrower
  <1>4. g = [r \in Places(n) |-> Made(u, g, r[1], r[2])]
    BY <1>3 DEF g
  <1> QED BY <1>4 DEF Bisects

-----------------------------------------------------------------------------
(* Each row from the one after a up to b is in one of the two, once.       *)
Parted(p, a, b) ==
    /\ p.records \in Seq(Record) /\ p.bad \in Seq(1..MaxRows)
    /\ \A k \in 1..Len(p.records) : p.records[k].row \in a + 1..b
    /\ \A k \in 1..Len(p.bad) : p.bad[k] \in a + 1..b
    /\ \A j, k \in 1..Len(p.records) : j < k => p.records[j].row < p.records[k].row
    /\ \A i \in a + 1..b :
          (\E k \in 1..Len(p.records) : p.records[k].row = i)
              <=> ~ \E k \in 1..Len(p.bad) : p.bad[k] = i

LEMMA TakenParted ==
    ASSUME NEW u \in Upload, NEW a \in Nat, NEW b \in Nat, a <= b, b <= Len(u.rows), ReadsAll(u, a, b)
    PROVE  Parted(Taken(u, a, b), a, b) /\ Taken(u, a, b).bad = <<>>
  <1> DEFINE s == [k \in 1..b - a |-> [row |-> a + k, ref |-> Said(u, a, a + k)]]
  <1>0. PICK m \in 0..MaxRows : u.rows \in [1..m -> Row]
    BY DEF Upload, Rows
  <1>00. MaxRows \in Nat /\ Len(u.rows) = m
    BY <1>0, FileImportAssumption DEF FileImportAssumption
  <1>1. ASSUME NEW k \in 1..b - a
        PROVE  [row |-> a + k, ref |-> Said(u, a, a + k)] \in Record
    <2>1. a + k \in a + 1..b /\ a + k \in 1..m /\ a + 1 \in 1..m /\ a + k \in 1..MaxRows
      BY <1>0, <1>00
    <2>2. u.rows[a + k] \in Row /\ u.rows[a + 1] \in Row /\ u.form \in Refs \cup {Blank}
      BY <1>0, <2>1 DEF Upload
    <2>3. Said(u, a, a + k) # Blank
      BY <2>1 DEF ReadsAll, Reads
    <2>4. Said(u, a, a + k) \in Refs
      BY <2>2, <2>3 DEF Said, Row
    <2> QED BY <2>1, <2>4 DEF Record
  <1> DEFINE n == b - a
  <1>4. \A k \in 1..n : s[k].row = a + k
    OBVIOUS
  <1>5. Taken(u, a, b).records = s /\ Taken(u, a, b).bad = <<>>
    BY DEF Taken
  <1>2. s \in [1..n -> Record]
    BY ONLY <1>1
  <1>7. n \in Nat /\ b = a + n
    OBVIOUS
  <1> HIDE DEF s, n
  <1>3. s \in Seq(Record) /\ Len(s) = n
    BY ONLY <1>2, <1>7
  <1>6. ASSUME NEW i \in a + 1..b PROVE i - a \in 1..n /\ s[i - a].row = i
    <2>1. i - a \in 1..n /\ a + (i - a) = i
      BY <1>7
    <2> QED BY <1>4, <2>1
  <1>8. \A k \in 1..n : a + k \in a + 1..b
    BY <1>7
  <1>9. \A j, k \in 1..n : j < k => a + j < a + k
    BY <1>7
  <1>10. <<>> \in Seq(1..MaxRows) /\ Len(<<>>) = 0
    OBVIOUS
  <1>11. \A k \in 1..n : s[k].row \in a + 1..b
    BY <1>4, <1>8
  <1>12. \A j, k \in 1..n : j < k => s[j].row < s[k].row
    BY <1>4, <1>9
  <1>13. \A i \in a + 1..b : \E k \in 1..n : s[k].row = i
    BY <1>6
  <1>14. 1..0 = {}
    OBVIOUS
  <1> QED BY ONLY <1>3, <1>5, <1>10, <1>11, <1>12, <1>13, <1>14 DEF Parted

LEMMA Concatenated ==
    ASSUME NEW S, NEW s \in Seq(S), NEW t \in Seq(S)
    PROVE  /\ s \o t \in Seq(S) /\ Len(s) \in Nat /\ Len(t) \in Nat /\ Len(s \o t) \in Nat
           /\ \A k \in 1..Len(s) : k \in 1..Len(s \o t) /\ (s \o t)[k] = s[k]
           /\ \A k \in 1..Len(t) : k + Len(s) \in 1..Len(s \o t) /\ (s \o t)[k + Len(s)] = t[k]
           /\ \A k \in 1..Len(s \o t) : k \notin 1..Len(s) =>
                 k - Len(s) \in 1..Len(t) /\ (s \o t)[k] = t[k - Len(s)]
  <1>1. s \o t \in Seq(S) /\ Len(s) \in Nat /\ Len(t) \in Nat /\ Len(s \o t) = Len(s) + Len(t)
    OBVIOUS
  <1>2. ASSUME NEW k \in 1..Len(s) PROVE k \in 1..Len(s \o t) /\ (s \o t)[k] = s[k]
    BY <1>1
  <1>3. ASSUME NEW k \in 1..Len(t)
        PROVE  k + Len(s) \in 1..Len(s \o t) /\ (s \o t)[k + Len(s)] = t[k]
    BY <1>1
  <1>4. ASSUME NEW k \in 1..Len(s \o t), k \notin 1..Len(s)
        PROVE  k - Len(s) \in 1..Len(t) /\ (s \o t)[k] = t[k - Len(s)]
    BY <1>1, <1>4
  <1> QED BY <1>1, <1>2, <1>3, <1>4

LEMMA JoinedParted ==
    ASSUME NEW p, NEW q, NEW a \in Nat, NEW mid \in Nat, NEW b \in Nat, a <= mid, mid <= b,
           Parted(p, a, mid), Parted(q, mid, b)
    PROVE  Parted(Joined(p, q), a, b)
  <1> DEFINE s == p.records  t == q.records  v == p.bad  w == q.bad
  <1>0. s \in Seq(Record) /\ t \in Seq(Record) /\ v \in Seq(1..MaxRows) /\ w \in Seq(1..MaxRows)
    BY DEF Parted
  <1>3. /\ \A k \in 1..Len(s) : s[k].row \in a + 1..mid
        /\ \A k \in 1..Len(t) : t[k].row \in mid + 1..b
        /\ \A k \in 1..Len(v) : v[k] \in a + 1..mid
        /\ \A k \in 1..Len(w) : w[k] \in mid + 1..b
        /\ \A j, k \in 1..Len(s) : j < k => s[j].row < s[k].row
        /\ \A j, k \in 1..Len(t) : j < k => t[j].row < t[k].row
        /\ \A i \in a + 1..mid : (\E k \in 1..Len(s) : s[k].row = i) <=> ~ \E k \in 1..Len(v) : v[k] = i
        /\ \A i \in mid + 1..b : (\E k \in 1..Len(t) : t[k].row = i) <=> ~ \E k \in 1..Len(w) : w[k] = i
    BY DEF Parted
  <1> DEFINE st == s \o t  vw == v \o w
  <1>4. Joined(p, q).records = st /\ Joined(p, q).bad = vw
    BY DEF Joined
  <1> HIDE DEF s, t, v, w, st, vw
  <1>5. /\ \A k \in 1..Len(s) : k \in 1..Len(st) /\ st[k] = s[k]
        /\ \A k \in 1..Len(t) : k + Len(s) \in 1..Len(st) /\ st[k + Len(s)] = t[k]
        /\ \A k \in 1..Len(st) : k \notin 1..Len(s) => k - Len(s) \in 1..Len(t) /\ st[k] = t[k - Len(s)]
    BY <1>0, Concatenated DEF st
  <1>6. /\ \A k \in 1..Len(v) : k \in 1..Len(vw) /\ vw[k] = v[k]
        /\ \A k \in 1..Len(w) : k + Len(v) \in 1..Len(vw) /\ vw[k + Len(v)] = w[k]
        /\ \A k \in 1..Len(vw) : k \notin 1..Len(v) => k - Len(v) \in 1..Len(w) /\ vw[k] = w[k - Len(v)]
    BY <1>0, Concatenated DEF vw
  <1>7. st \in Seq(Record) /\ vw \in Seq(1..MaxRows) /\ Len(s) \in Nat /\ Len(t) \in Nat
        /\ Len(st) \in Nat
    BY <1>0, Concatenated DEF st, vw
  <1>12. a + 1..mid \subseteq a + 1..b /\ mid + 1..b \subseteq a + 1..b
    OBVIOUS
  <1>8. \A k \in 1..Len(st) : st[k].row \in a + 1..b
    <2>1. ASSUME NEW k \in 1..Len(st) PROVE st[k].row \in a + 1..mid \/ st[k].row \in mid + 1..b
      BY ONLY <1>3, <1>5, <2>1
    <2> QED BY <1>12, <2>1
  <1>9. \A k \in 1..Len(vw) : vw[k] \in a + 1..b
    <2>1. ASSUME NEW k \in 1..Len(vw) PROVE vw[k] \in a + 1..mid \/ vw[k] \in mid + 1..b
      BY ONLY <1>3, <1>6, <2>1
    <2> QED BY <1>12, <2>1
  <1>10. ASSUME NEW j \in 1..Len(st), NEW k \in 1..Len(st), j < k
         PROVE  st[j].row < st[k].row
    <2>1. CASE k \in 1..Len(s)
      <3>1. j \in 1..Len(s)
        BY <1>7, <1>10, <2>1
      <3> QED BY <1>3, <1>5, <1>10, <2>1, <3>1
    <2>2. CASE k \notin 1..Len(s) /\ j \in 1..Len(s)
      <3>1. st[k].row \in mid + 1..b /\ st[j].row \in a + 1..mid
        BY <1>3, <1>5, <2>2
      <3> QED BY <3>1
    <2>3. CASE j \notin 1..Len(s)
      <3>1. k \notin 1..Len(s) /\ j - Len(s) < k - Len(s)
        BY <1>7, <1>10, <2>3
      <3>2. /\ j - Len(s) \in 1..Len(t) /\ k - Len(s) \in 1..Len(t)
            /\ st[j] = t[j - Len(s)] /\ st[k] = t[k - Len(s)]
        BY <1>5, <2>3, <3>1
      <3> QED BY <1>3, <3>1, <3>2
    <2> QED BY <2>1, <2>2, <2>3
  <1>11. ASSUME NEW i \in a + 1..b
         PROVE  (\E k \in 1..Len(st) : st[k].row = i) <=> ~ \E k \in 1..Len(vw) : vw[k] = i
    <2>1. CASE i <= mid
      <3>1. i \in a + 1..mid /\ i \notin mid + 1..b
        BY <2>1
      <3>2. (\E k \in 1..Len(st) : st[k].row = i) <=> \E k \in 1..Len(s) : s[k].row = i
        <4>1. ASSUME NEW k \in 1..Len(st), st[k].row = i PROVE k \in 1..Len(s)
          BY ONLY <1>3, <1>5, <3>1, <4>1
        <4> QED BY ONLY <1>5, <4>1
      <3>3. (\E k \in 1..Len(vw) : vw[k] = i) <=> \E k \in 1..Len(v) : v[k] = i
        <4>1. ASSUME NEW k \in 1..Len(vw), vw[k] = i PROVE k \in 1..Len(v)
          BY ONLY <1>3, <1>6, <3>1, <4>1
        <4> QED BY ONLY <1>6, <4>1
      <3> QED BY <1>3, <3>1, <3>2, <3>3
    <2>2. CASE ~ (i <= mid)
      <3>1. i \in mid + 1..b /\ i \notin a + 1..mid
        BY <2>2
      <3>2. (\E k \in 1..Len(st) : st[k].row = i) <=> \E k \in 1..Len(t) : t[k].row = i
        <4>1. ASSUME NEW k \in 1..Len(st), st[k].row = i PROVE k \notin 1..Len(s)
          BY ONLY <1>3, <1>5, <3>1, <4>1
        <4> QED BY ONLY <1>5, <4>1
      <3>3. (\E k \in 1..Len(vw) : vw[k] = i) <=> \E k \in 1..Len(w) : w[k] = i
        <4>1. ASSUME NEW k \in 1..Len(vw), vw[k] = i PROVE k \notin 1..Len(v)
          BY ONLY <1>3, <1>6, <3>1, <4>1
        <4> QED BY ONLY <1>6, <4>1
      <3> QED BY <1>3, <3>1, <3>2, <3>3
    <2> QED BY <2>1, <2>2
  <1> QED BY <1>4, <1>7, <1>8, <1>9, <1>10, <1>11 DEF Parted

(* The bisection loses no row and takes none twice.                        *)
LEMMA BisectionParts ==
    ASSUME NEW u \in Upload, NEW f, Bisects(u, Len(u.rows), f), NEW w \in Nat,
           NEW a \in Nat, NEW b \in Nat, a <= b, b <= Len(u.rows), b - a <= w
    PROVE  Parted(f[<<a, b>>], a, b)
  <1> DEFINE Fails(c, d, v) == c <= d /\ d <= Len(u.rows) /\ d - c <= v /\ ~ Parted(f[<<c, d>>], c, d)
             B == {v \in Nat : \E c, d \in Nat : Fails(c, d, v)}
  <1>1. ASSUME B # {} PROVE FALSE
    <2>1. PICK v \in B : \A m \in B : v <= m
      <3>1. B \in SUBSET Nat
        OBVIOUS
      <3> HIDE DEF B
      <3> QED BY <1>1, <3>1, LeastNumber
    <2>2. PICK c \in Nat, d \in Nat : Fails(c, d, v)
      BY <2>1
    <2>3. PICK m \in 0..MaxRows : u.rows \in [1..m -> Row]
      BY DEF Upload, Rows
    <2>4. MaxRows \in Nat /\ Len(u.rows) = m
      BY <2>3, FileImportAssumption DEF FileImportAssumption
    <2>5. f[<<c, d>>] = Made(u, f, c, d)
      <3>1. <<c, d>> \in Places(Len(u.rows))
        BY <2>2, <2>4 DEF Places
      <3> QED BY <3>1 DEF Bisects
    <2>6. CASE ReadsAll(u, c, d)
      BY <2>2, <2>5, <2>6, TakenParted DEF Made
    <2>7. CASE ~ ReadsAll(u, c, d) /\ d - c = 1
      <3>1. f[<<c, d>>] = [records |-> <<>>, bad |-> <<d>>]
        BY <2>5, <2>7 DEF Made
      <3>2. d \in 1..MaxRows /\ d \in c + 1..d
        BY <2>2, <2>3, <2>4, <2>7
      <3>3. <<>> \in Seq(Record) /\ Len(<<>>) = 0 /\ <<d>> \in Seq(1..MaxRows) /\ Len(<<d>>) = 1
            /\ <<d>>[1] = d
        BY <3>2
      <3>4. \A i \in c + 1..d : i = d
        BY <2>7
      <3>5. Parted([records |-> <<>>, bad |-> <<d>>], c, d)
        <4> DEFINE none == <<>>  one == <<d>>  p == [records |-> none, bad |-> one]
        <4>1. p.records = none /\ p.bad = one
          OBVIOUS
        <4>2. /\ none \in Seq(Record) /\ Len(none) = 0
              /\ one \in Seq(1..MaxRows) /\ Len(one) = 1 /\ one[1] = d
          BY <3>3
        <4>3. 1..0 = {} /\ 1..1 = {1}
          OBVIOUS
        <4> HIDE DEF none, one, p
        <4>4. Parted(p, c, d)
          BY ONLY <3>2, <3>4, <4>1, <4>2, <4>3 DEF Parted
        <4> QED BY <4>4 DEF p, none, one
      <3> QED BY <2>2, <3>1, <3>5
    <2>8. CASE ~ ReadsAll(u, c, d) /\ d - c # 1
      <3>1. d - c >= 2
        <4>1. d - c < 1 => ReadsAll(u, c, d)
          BY DEF ReadsAll
        <4> QED BY <2>8, <4>1
      <3> DEFINE mid == (c + d) \div 2
      <3>2. /\ mid \in Nat /\ c < mid /\ mid < d
            /\ Halves(c, d)[1] = <<c, mid>> /\ Halves(c, d)[2] = <<mid, d>>
        BY <3>1, HalvesAre
      <3>3. f[<<c, d>>] = Joined(f[<<c, mid>>], f[<<mid, d>>])
        BY <2>5, <2>8, <3>2 DEF Made
      <3> HIDE DEF mid
      <3>4. v - 1 \in Nat /\ v - 1 \notin B
        <4>1. v \in Nat /\ v >= 2
          BY <2>1, <2>2, <3>1
        <4>2. v - 1 \in Nat /\ ~ (v <= v - 1)
          BY <4>1
        <4> HIDE DEF B
        <4> QED BY <2>1, <4>2
      <3>5. ~ Fails(c, mid, v - 1) /\ ~ Fails(mid, d, v - 1)
        BY <3>2, <3>4
      <3>6. Parted(f[<<c, mid>>], c, mid) /\ Parted(f[<<mid, d>>], mid, d)
        BY <2>1, <2>2, <2>4, <3>2, <3>5
      <3>7. Parted(f[<<c, d>>], c, d)
        BY <3>2, <3>3, <3>6, JoinedParted
      <3> QED BY <2>2, <3>7
    <2> QED BY <2>6, <2>7, <2>8
  <1>2. w \notin B
    BY <1>1
  <1> QED BY <1>2

LEMMA IsolateParts ==
    ASSUME NEW u \in Upload
    PROVE  /\ Parted(Isolate(u), 0, Len(u.rows))
           /\ ReadsAll(u, 0, Len(u.rows)) => Isolate(u).bad = <<>>
  <1> DEFINE n == Len(u.rows)
             f == CHOOSE g : Bisects(u, n, g)
  <1>1. n \in Nat
    <2>1. PICK m \in 0..MaxRows : u.rows \in [1..m -> Row]
      BY DEF Upload, Rows
    <2> QED BY <2>1, FileImportAssumption DEF FileImportAssumption
  <1>2. Bisects(u, n, f)
    BY <1>1, BisectionExists
  <1>3. Isolate(u) = f[<<0, n>>]
    BY IsolateBisects
  <1> HIDE DEF n, f
  <1>4. Bisects(u, Len(u.rows), f)
    BY <1>2 DEF n
  <1>5. Parted(f[<<0, n>>], 0, n)
    BY <1>1, <1>4, BisectionParts DEF n
  <1>6. f[<<0, n>>] = Made(u, f, 0, n)
    <2>1. <<0, n>> \in Places(n)
      BY <1>1 DEF Places
    <2> QED BY <1>2, <2>1 DEF Bisects
  <1>7. ReadsAll(u, 0, n) => Isolate(u).bad = <<>>
    BY <1>3, <1>6 DEF Made, Taken
  <1> QED BY <1>3, <1>5, <1>7 DEF n

-----------------------------------------------------------------------------
(* What a call goes on with, once it began a run, is its file bisected;    *)
(* through the older door no row of it is bad.                             *)
Stored == {"complete", "persist", "stored"}
Begun == {"ingest"} \cup Stored

ImportInv ==
    /\ upload \in Upload
    /\ importStep \in ImportSteps
    /\ importRun \in {"none", "running", "succeeded", "failed"}
    /\ Parted(parsed, 0, Len(upload.rows)) \/ parsed = NothingParsed
    /\ importStep \in {"begin"} \cup Begun => /\ Parted(parsed, 0, Len(upload.rows))
                                              /\ upload.strict => parsed.bad = <<>>
    /\ importStep \in Begun => parsed.bad = <<>> \/ upload.allow
    /\ importStep \in Stored => \A k \in 1..Len(parsed.records) : parsed.records[k] \in facts
    /\ importStep = "persist" => ~ upload.strict
    /\ facts \subseteq Record
    /\ isolated = IF importStep = "stored" THEN {parsed.bad[k] : k \in 1..Len(parsed.bad)} ELSE {}

LEMMA PartedIsTyped ==
    ASSUME NEW p, NEW n, Parted(p, 0, n) \/ p = NothingParsed
    PROVE  p.records \in Seq(Record) /\ p.bad \in Seq(1..MaxRows)
  <1>1. <<>> \in Seq(Record) /\ <<>> \in Seq(1..MaxRows)
    OBVIOUS
  <1>2. NothingParsed.bad = <<>> /\ NothingParsed.records = <<>>
    BY DEF NothingParsed
  <1> QED BY <1>1, <1>2 DEF Parted

LEMMA ElementsOf == ASSUME NEW S, NEW s \in Seq(S) PROVE \A k \in 1..Len(s) : s[k] \in S
  OBVIOUS

LEMMA ImportInitHolds == ImportInit => ImportInv
  BY DEF ImportInit, ImportInv, ImportSteps, Begun, Stored

LEMMA ImportNextHolds == ImportInv /\ [ImportNext]_importVars => ImportInv'
  <1> SUFFICES ASSUME ImportInv, [ImportNext]_importVars PROVE ImportInv'
    OBVIOUS
  <1> DEFINE n == Len(upload.rows)
  <1>0. Parted(Isolate(upload), 0, n) /\ (ReadsAll(upload, 0, n) => Isolate(upload).bad = <<>>)
    BY IsolateParts DEF ImportInv
  <1>00. NothingParsed.bad = <<>> /\ NothingParsed.records = <<>>
    BY DEF NothingParsed
  <1>1. CASE UNCHANGED importVars
    <2>1. /\ upload' = upload /\ parsed' = parsed /\ importStep' = importStep
          /\ importRun' = importRun /\ facts' = facts /\ isolated' = isolated
      BY <1>1 DEF importVars
    <2>2. Parted(parsed, 0, Len(upload.rows))' <=> Parted(parsed, 0, Len(upload.rows))
      BY <2>1 DEF Parted
    <2> QED BY <2>1, <2>2 DEF ImportInv
  <1>2. CASE Parse
    <2>1. /\ ~ upload.strict /\ upload' = upload /\ importRun' = importRun /\ facts' = facts
          /\ importStep = "parse" /\ isolated' = isolated
          /\ (parsed' = Isolate(upload) /\ importStep' = "begin")
                \/ (parsed' = NothingParsed /\ importStep' = "missing")
      BY <1>2 DEF Parse
    <2>2. /\ Parted(parsed', 0, Len(upload'.rows)) \/ parsed' = NothingParsed
          /\ importStep' = "begin" => Parted(parsed', 0, Len(upload'.rows))
      BY <1>0, <2>1
    <2> QED BY <2>1, <2>2 DEF ImportInv, Parted, ImportSteps, Refusals, Begun, Stored
  <1>3. CASE ParseWhole
    <2>1. /\ upload' = upload /\ importRun' = importRun /\ facts' = facts
          /\ importStep = "parse" /\ isolated' = isolated
          /\ (parsed' = Isolate(upload) /\ importStep' = "begin" /\ ReadsAll(upload, 0, n))
                \/ (parsed' = NothingParsed /\ importStep' = "rejected")
      <3>1. \A i : i \in 0 + 1..n <=> i \in 1..n
        OBVIOUS
      <3> QED BY <1>3, <3>1 DEF ParseWhole, ReadsAll
    <2>2. /\ Parted(parsed', 0, Len(upload'.rows)) \/ parsed' = NothingParsed
          /\ importStep' = "begin" => Parted(parsed', 0, Len(upload'.rows)) /\ parsed'.bad = <<>>
      BY <1>0, <2>1
    <2> QED BY <2>1, <2>2 DEF ImportInv, Parted, ImportSteps, Refusals, Begun, Stored
  <1>4. CASE BeginImport
    BY <1>4 DEF BeginImport, Refusal, ImportInv, Parted, ImportSteps, Refusals, Begun, Stored
  <1>5. CASE Ingest
    <2>1. \A k \in 1..Len(parsed.records) : parsed.records[k] \in Record
      <3>1. parsed.records \in Seq(Record)
        BY PartedIsTyped DEF ImportInv
      <3> QED BY <3>1, ElementsOf
    <2> QED BY <1>5, <2>1 DEF Ingest, ImportInv, Parted, ImportSteps, Refusals, Begun, Stored
  <1>6. CASE CompleteImport
    BY <1>6 DEF CompleteImport, ImportInv, Parted, ImportSteps, Refusals, Begun, Stored
  <1>7. CASE FailImport
    BY <1>7 DEF FailImport, ImportInv, Parted, ImportSteps, Refusals, Begun, Stored
  <1>8. CASE PersistRejections
    BY <1>8 DEF PersistRejections, ImportInv, Parted, ImportSteps, Refusals, Begun, Stored
  <1>9. CASE StopImport
    BY <1>9 DEF StopImport, ImportInv, Parted, ImportSteps, Refusals, Begun, Stored
  <1> QED BY <1>1, <1>2, <1>3, <1>4, <1>5, <1>6, <1>7, <1>8, <1>9 DEF ImportNext

(* Rows that grow are as many as there are records.                        *)
LEMMA RowsAreCounted ==
    ASSUME NEW s \in Seq(Record), \A j, k \in 1..Len(s) : j < k => s[j].row < s[k].row
    PROVE  Cardinality({s[k].row : k \in 1..Len(s)}) = Len(s)
  <1> DEFINE n == Len(s)
             T == {s[k].row : k \in 1..n}
             g == [k \in 1..n |-> s[k].row]
  <1>1. n \in Nat /\ \A k \in 1..n : s[k].row \in Nat
    <2>1. n \in Nat /\ \A k \in 1..n : s[k] \in Record
      OBVIOUS
    <2> QED BY <2>1, FileImportAssumption DEF Record, FileImportAssumption
  <1>2. g \in [1..n -> T] /\ \A t \in T : \E k \in 1..n : g[k] = t
    OBVIOUS
  <1>3. ASSUME NEW j \in 1..n, NEW k \in 1..n, g[j] = g[k] PROVE j = k
    BY <1>1, <1>3
  <1> HIDE DEF n, T, g
  <1>4. g \in Bijection(1..n, T)
    BY <1>2, <1>3, Fun_IsBij
  <1>5. ExistsBijection(1..n, T)
    BY <1>4, Fun_ExistsBij
  <1> QED BY <1>1, <1>5, FS_CountingElements DEF n, T

LEMMA ImportAnswers == ImportInv => EveryRowAnswered
  <1> SUFFICES ASSUME ImportInv, importStep = "stored"
               PROVE  LET taken == {parsed.records[k].row : k \in 1..Len(parsed.records)} IN
                      /\ taken \cap isolated = {} /\ taken \cup isolated = 1..Len(upload.rows)
                      /\ Len(parsed.records) = Cardinality(taken)
                      /\ isolated # {} => upload.allow
                      /\ \A k \in 1..Len(parsed.records) : parsed.records[k] \in facts
    BY DEF EveryRowAnswered
  <1> DEFINE taken == {parsed.records[k].row : k \in 1..Len(parsed.records)}
             n == Len(upload.rows)
  <1>1. /\ Parted(parsed, 0, n)
        /\ isolated = {parsed.bad[k] : k \in 1..Len(parsed.bad)}
        /\ parsed.bad = <<>> \/ upload.allow
        /\ \A k \in 1..Len(parsed.records) : parsed.records[k] \in facts
    BY DEF ImportInv, Begun, Stored
  <1>2. 0 + 1..n = 1..n
    OBVIOUS
  <1>3. taken \subseteq 1..n /\ isolated \subseteq 1..n
    BY <1>1, <1>2 DEF Parted
  <1>4. ASSUME NEW i \in 1..n PROVE i \in taken <=> i \notin isolated
    <2>1. (\E k \in 1..Len(parsed.records) : parsed.records[k].row = i)
              <=> ~ \E k \in 1..Len(parsed.bad) : parsed.bad[k] = i
      BY <1>1, <1>2 DEF Parted
    <2>2. i \in taken <=> \E k \in 1..Len(parsed.records) : parsed.records[k].row = i
      OBVIOUS
    <2>3. i \in isolated <=> \E k \in 1..Len(parsed.bad) : parsed.bad[k] = i
      BY <1>1
    <2> QED BY <2>1, <2>2, <2>3
  <1>5. isolated # {} => upload.allow
    <2>1. parsed.bad = <<>> => 1..Len(parsed.bad) = {}
      OBVIOUS
    <2> QED BY <1>1, <2>1
  <1>6. Cardinality(taken) = Len(parsed.records)
    BY <1>1, RowsAreCounted DEF Parted
  <1> QED BY <1>1, <1>3, <1>4, <1>5, <1>6

(* When an upload is answered as stored, each of its rows is a fact or is  *)
(* isolated, and not both, whatever the file: the bisection loses no row   *)
(* and none twice, and whatever was skipped is on record (parse_upload,    *)
(* external_import_commit).                                                *)
THEOREM RowsAreAnswered == ImportSpec => []EveryRowAnswered
  BY ImportInitHolds, ImportNextHolds, ImportAnswers, PTL DEF ImportSpec

LEMMA ImportTypes == ImportInv => ImportTypeOK
  <1> SUFFICES ASSUME ImportInv PROVE ImportTypeOK
    OBVIOUS
  <1>1. parsed.records \in Seq(Record) /\ parsed.bad \in Seq(1..MaxRows)
    BY PartedIsTyped DEF ImportInv
  <1>2. \A k \in 1..Len(parsed.bad) : parsed.bad[k] \in 1..MaxRows
    BY <1>1, ElementsOf
  <1> QED BY <1>1, <1>2 DEF ImportInv, ImportTypeOK

(* An import and what it stores are well formed.                           *)
THEOREM ImportsAreTyped == ImportSpec => []ImportTypeOK
  BY ImportInitHolds, ImportNextHolds, ImportTypes, PTL DEF ImportSpec
-----------------------------------------------------------------------------
(* Profit.  The aggregate has a row for each currency, product and status, *)
(* and its rows part the lines of the window: whichever way the lines are  *)
(* grouped, the sums are the same, but for the fees of half a cent.        *)

LinesOk == line \in UNION {[L -> OrderLine] : L \in SUBSET LineNos}

LEMMA LinesAre ==
    ASSUME LinesOk
    PROVE  /\ IsFiniteSet(DOMAIN line) /\ IsFiniteSet(Window)
           /\ Window \subseteq DOMAIN line /\ Computed \subseteq DOMAIN line
           /\ \A l \in DOMAIN line : line[l] \in OrderLine
  <1>1. PICK L \in SUBSET LineNos : line \in [L -> OrderLine]
    BY DEF LinesOk
  <1>2. IsFiniteSet(DOMAIN line)
    BY <1>1, ProfitAssumption, FS_Subset DEF ProfitAssumption
  <1>3. Window \subseteq DOMAIN line /\ Computed \subseteq DOMAIN line
    BY DEF Window, Computed
  <1> QED BY <1>1, <1>2, <1>3, FS_Subset

LEMMA LineIs ==
    ASSUME LinesOk, NEW l \in DOMAIN line
    PROVE  /\ line[l].trade \in Trades /\ line[l].currency \in Currencies
           /\ line[l].order \in OrderIds
           /\ line[l].status \in COMPUTABLE_STATUSES => line[l].sku \in Goods
  <1>1. line[l] \in OrderLine
    BY LinesAre
  <1>2. PICK o \in OrderIds, c \in Currencies, a \in Anchors, t \in Trades :
          line[l] = [order |-> o, currency |-> c, sku |-> a.sku, status |-> a.status, trade |-> t]
    BY <1>1 DEF OrderLine
  <1>3. a.status \in COMPUTABLE_STATUSES => a.sku \in Goods
    BY DEF Anchors, COMPUTABLE_STATUSES
  <1> QED BY <1>2, <1>3

LEMMA AmountsAre ==
    ASSUME LinesOk, NEW l \in DOMAIN line
    PROVE  /\ Revenue(l) \in Int /\ Fee(l) \in Int
           /\ SummedFee(l) = Fee(l) \/ (IsHalf(l) /\ SummedFee(l) = Fee(l) - 1)
           /\ l \in Computed => Cost(l) \in Int /\ LineProfit(l) \in Int
  <1> DEFINE t == line[l].trade
  <1>1. {t.ordered, t.undone, t.gross, t.back} \subseteq Nat
    BY LineIs, ProfitAssumption DEF ProfitAssumption
  <1>2. Revenue(l) \in Int /\ NetQty(l) \in Int
    <2>1. t.ordered \in Nat /\ t.undone \in Nat /\ t.gross \in Nat /\ t.back \in Nat
      BY <1>1
    <2>2. Revenue(l) = IF t.gross > t.back THEN t.gross - t.back ELSE 0
      BY DEF Revenue
    <2>3. NetQty(l) = IF t.ordered > t.undone THEN t.ordered - t.undone ELSE 0
      BY DEF NetQty
    <2> HIDE DEF t
    <2> QED BY <2>1, <2>2, <2>3
  <1>3. Fee(l) \in Int
    <2>1. \A x, r \in Int : Share(x, r) \in Int
      <3>1. \A x, r \in Int : x * r + 5000 \in Int
        OBVIOUS
      <3>2. \A x \in Int : x \div 10000 \in Int
        OBVIOUS
      <3> QED BY <3>1, <3>2 DEF Share
    <2>2. FeeRate \in Int
      BY ProfitAssumption DEF ProfitAssumption
    <2> QED BY <1>2, <2>1, <2>2 DEF Fee
  <1>4. ASSUME l \in Computed PROVE Cost(l) \in Int
    <2>1. line[l].sku \in Goods
      BY <1>4, LineIs DEF Computed
    <2>2. UnitCost[line[l].sku] \in Int
      BY <2>1, ProfitAssumption DEF ProfitAssumption
    <2>3. \A x, y \in Int : x * y \in Int
      OBVIOUS
    <2> QED BY <1>2, <2>2, <2>3 DEF Cost
  <1>5. SummedFee(l) = Fee(l) \/ (IsHalf(l) /\ SummedFee(l) = Fee(l) - 1)
    BY DEF SummedFee
  <1> QED BY <1>2, <1>3, <1>4, <1>5 DEF LineProfit

(* The profit of each line that has one, as the summary counts it.         *)
ProfitOf == [l \in Computed |-> Revenue(l) - Cost(l) - SummedFee(l)]

LEMMA ProfitOver ==
    ASSUME LinesOk, NEW S \in SUBSET Computed
    PROVE  /\ IsFiniteSet(S) /\ \A l \in S : ProfitOf[l] \in Int
           /\ SumFunctionOnSet(ProfitOf, S)
                 = SumOver(Revenue, S) - SumOver(Cost, S) - SumOver(SummedFee, S)
  <1> DEFINE r == [l \in S |-> Revenue(l)]
             c == [l \in S |-> Cost(l)]
             f == [l \in S |-> SummedFee(l)]
             d == [l \in S |-> Cost(l) + SummedFee(l)]
  <1>1. IsFiniteSet(S) /\ S \subseteq DOMAIN line
    BY LinesAre, FS_Subset
  <1>2. ASSUME NEW l \in S
        PROVE  /\ r[l] \in Int /\ c[l] \in Int /\ f[l] \in Int /\ ProfitOf[l] \in Int /\ d[l] \in Int
               /\ d[l] = c[l] + f[l] /\ r[l] = ProfitOf[l] + d[l]
    <2>1. /\ r[l] = Revenue(l) /\ c[l] = Cost(l) /\ f[l] = SummedFee(l)
          /\ d[l] = Cost(l) + SummedFee(l) /\ ProfitOf[l] = Revenue(l) - Cost(l) - SummedFee(l)
      BY DEF ProfitOf
    <2>2. Revenue(l) \in Int /\ SummedFee(l) \in Int /\ Cost(l) \in Int
      BY <1>1, AmountsAre
    <2> QED BY <2>1, <2>2
  <1>3. /\ SumOver(Revenue, S) = SumFunctionOnSet(r, S) /\ SumOver(Cost, S) = SumFunctionOnSet(c, S)
        /\ SumOver(SummedFee, S) = SumFunctionOnSet(f, S)
    BY DEF SumOver
  <1> HIDE DEF r, c, f, d
  <1>4. SumFunctionOnSet(d, S) = SumFunctionOnSet(c, S) + SumFunctionOnSet(f, S)
    BY <1>1, <1>2, SumAdd
  <1>5. SumFunctionOnSet(r, S) = SumFunctionOnSet(ProfitOf, S) + SumFunctionOnSet(d, S)
    BY <1>1, <1>2, SumAdd
  <1>6. /\ SumFunctionOnSet(c, S) \in Int /\ SumFunctionOnSet(f, S) \in Int
        /\ SumFunctionOnSet(ProfitOf, S) \in Int
    BY <1>1, <1>2, SumType
  <1> QED BY <1>1, <1>2, <1>3, <1>4, <1>5, <1>6

(* The details of some lines come to at most a cent less for each that     *)
(* has half a cent of fee.                                                 *)
LEMMA DetailsNear ==
    ASSUME LinesOk, NEW S \in SUBSET Computed
    PROVE  SumFunctionOnSet(ProfitOf, S) - SumOver(LineProfit, S)
               \in 0..Cardinality({l \in S : IsHalf(l)})
  <1> DEFINE H == {l \in S : IsHalf(l)}
             p == [l \in S |-> LineProfit(l)]
             gap == [l \in S |-> Fee(l) - SummedFee(l)]
             half == [l \in S |-> IF IsHalf(l) THEN 1 ELSE 0]
  <1>1. IsFiniteSet(S) /\ S \subseteq DOMAIN line
    BY LinesAre, FS_Subset
  <1>2. ASSUME NEW l \in S
        PROVE  /\ p[l] \in Int /\ gap[l] \in {0, 1} /\ half[l] \in {0, 1} /\ gap[l] <= half[l]
               /\ ProfitOf[l] = p[l] + gap[l] /\ half[l] = IF l \in H THEN 1 ELSE 0
    <2>1. /\ p[l] = LineProfit(l) /\ gap[l] = Fee(l) - SummedFee(l)
          /\ half[l] = IF IsHalf(l) THEN 1 ELSE 0
          /\ ProfitOf[l] = Revenue(l) - Cost(l) - SummedFee(l)
      BY DEF ProfitOf
    <2>2. /\ Revenue(l) \in Int /\ Fee(l) \in Int /\ Cost(l) \in Int
          /\ SummedFee(l) = Fee(l) \/ (IsHalf(l) /\ SummedFee(l) = Fee(l) - 1)
      BY <1>1, AmountsAre
    <2>3. LineProfit(l) = Revenue(l) - Cost(l) - Fee(l)
      BY DEF LineProfit
    <2>4. gap[l] \in {0, 1} /\ gap[l] <= half[l]
      BY <2>1, <2>2
    <2>5. half[l] = IF l \in H THEN 1 ELSE 0
      BY <2>1
    <2> HIDE DEF p, gap, half, H
    <2> QED BY <2>1, <2>2, <2>3, <2>4, <2>5
  <1>3. SumOver(LineProfit, S) = SumFunctionOnSet(p, S)
    BY DEF SumOver
  <1>4. IsFiniteSet(H) /\ IsFiniteSet(S \ H) /\ H \cap (S \ H) = {} /\ H \cup (S \ H) = S
    BY <1>1, FS_Subset
  <1> HIDE DEF p, gap, half, H
  <1>5. SumFunctionOnSet(ProfitOf, S) = SumFunctionOnSet(p, S) + SumFunctionOnSet(gap, S)
    BY <1>1, <1>2, SumAdd
  <1>6. SumFunctionOnSet(gap, S) \in Nat /\ SumFunctionOnSet(gap, S) <= SumFunctionOnSet(half, S)
    BY <1>1, <1>2, SumNonnegative, SumMonotone
  <1>7. SumFunctionOnSet(half, S) = SumFunctionOnSet(half, H) + SumFunctionOnSet(half, S \ H)
    BY <1>2, <1>4, SumUnion
  <1>8. SumFunctionOnSet(half, H) = Cardinality(H) /\ SumFunctionOnSet(half, S \ H) = 0
    BY <1>2, <1>4, SumOfOnes, SumZero
  <1>9. SumFunctionOnSet(p, S) \in Int /\ Cardinality(H) \in Nat
    BY <1>1, <1>2, <1>4, SumType, FS_CardinalityType
  <1> QED BY <1>3, <1>5, <1>6, <1>7, <1>8, <1>9 DEF H

LEMMA KeysAre ==
    ASSUME LinesOk
    PROVE  /\ IsFiniteSet(GroupKeys)
           /\ \A k \in GroupKeys : k = <<k[1], k[2], k[3]>> /\ k[1] \in Currencies
           /\ \A k \in Computable(GroupKeys) : k[2] \in Goods
           /\ \A l \in Window : <<line[l].currency, line[l].sku, line[l].status>> \in GroupKeys
  <1> DEFINE key == [l \in Window |-> <<line[l].currency, line[l].sku, line[l].status>>]
  <1>1. GroupKeys = {key[l] : l \in Window}
    BY DEF GroupKeys
  <1>2. IsFiniteSet(GroupKeys)
    <2> HIDE DEF key
    <2> QED BY <1>1, LinesAre, ImageIsFinite
  <1>3. ASSUME NEW k \in GroupKeys
        PROVE  \E l \in Window : k = <<line[l].currency, line[l].sku, line[l].status>>
    BY DEF GroupKeys
  <1>4. ASSUME NEW k \in GroupKeys
        PROVE  /\ k = <<k[1], k[2], k[3]>> /\ k[1] \in Currencies
               /\ k[3] \in COMPUTABLE_STATUSES => k[2] \in Goods
    <2>1. PICK l \in Window : k = <<line[l].currency, line[l].sku, line[l].status>>
      BY <1>3
    <2> QED BY <2>1, LinesAre, LineIs
  <1>5. \A k \in Computable(GroupKeys) : k[2] \in Goods
    BY <1>4 DEF Computable
  <1>6. \A l \in Window : <<line[l].currency, line[l].sku, line[l].status>> \in GroupKeys
    BY DEF GroupKeys
  <1> QED BY <1>2, <1>4, <1>5, <1>6

LEMMA GroupIsComputed ==
    ASSUME LinesOk, NEW k \in Computable(GroupKeys)
    PROVE  GroupOf(k) \subseteq Computed /\ GroupProfit(k) = SumFunctionOnSet(ProfitOf, GroupOf(k))
  <1>1. k[3] \in COMPUTABLE_STATUSES
    BY DEF Computable
  <1>2. ASSUME NEW l \in GroupOf(k) PROVE l \in Computed
    <2>1. l \in Window /\ <<line[l].currency, line[l].sku, line[l].status>> = k
      BY DEF GroupOf
    <2>2. line[l].status = k[3]
      BY <2>1
    <2> QED BY <1>1, <2>1, <2>2, LinesAre DEF Computed
  <1>3. GroupOf(k) \in SUBSET Computed
    BY <1>2
  <1>4. GroupProfit(k) = SumOver(Revenue, GroupOf(k)) - SumOver(Cost, GroupOf(k)) - SumOver(SummedFee, GroupOf(k))
    BY DEF GroupProfit, FeeOf
  <1> QED BY <1>3, <1>4, ProfitOver

(* The lines of a currency that count, group by group or all at once.      *)
CountedLines(c) == {l \in Window \cap Computed : line[l].currency = c}

LEMMA CurrencyIsLines ==
    ASSUME LinesOk, NEW c
    PROVE  CurrencyProfit(c) = SumFunctionOnSet(ProfitOf, CountedLines(c))
  <1> DEFINE K == KeysOf(c)
             of == [k \in K |-> GroupOf(k)]
             sums == [k \in K |-> GroupProfit(k)]
  <1>1. K \subseteq Computable(GroupKeys) /\ K \subseteq GroupKeys /\ \A k \in K : k[1] = c
    BY DEF KeysOf, Computable
  <1>2. IsFiniteSet(K)
    BY <1>1, KeysAre, FS_Subset
  <1>3. ASSUME NEW k \in K
        PROVE  /\ IsFiniteSet(of[k]) /\ sums[k] = SumFunctionOnSet(ProfitOf, of[k])
               /\ \A x \in of[k] : ProfitOf[x] \in Int
    <2>1. of[k] = GroupOf(k) /\ sums[k] = GroupProfit(k)
      OBVIOUS
    <2>2. GroupOf(k) \in SUBSET Computed /\ GroupProfit(k) = SumFunctionOnSet(ProfitOf, GroupOf(k))
      BY <1>1, GroupIsComputed
    <2> QED BY <2>1, <2>2, ProfitOver
  <1>4. \A j, k \in K : j # k => of[j] \cap of[k] = {}
    BY DEF GroupOf
  <1>5. UNION {of[k] : k \in K} = CountedLines(c)
    <2>1. ASSUME NEW k \in K, NEW l \in of[k] PROVE l \in CountedLines(c)
      <3>1. l \in Window /\ <<line[l].currency, line[l].sku, line[l].status>> = k
        BY <2>1 DEF GroupOf
      <3>2. l \in Computed
        BY <1>1, <2>1, GroupIsComputed
      <3>3. line[l].currency = k[1]
        BY <3>1
      <3> QED BY <1>1, <3>1, <3>2, <3>3 DEF CountedLines
    <2>2. ASSUME NEW l \in CountedLines(c) PROVE \E k \in K : l \in of[k]
      <3> DEFINE k == <<line[l].currency, line[l].sku, line[l].status>>
      <3>1. l \in Window /\ l \in Computed /\ line[l].currency = c
        BY DEF CountedLines
      <3>2. k \in GroupKeys /\ k[1] = c /\ k[3] \in COMPUTABLE_STATUSES
        BY <3>1, KeysAre DEF Computed
      <3>3. k \in K
        BY <3>2 DEF KeysOf, Computable
      <3>4. l \in GroupOf(k)
        BY <3>1 DEF GroupOf
      <3> QED BY <3>3, <3>4
    <2> HIDE DEF K, of
    <2> QED BY <2>1, <2>2
  <1>6. CurrencyProfit(c) = SumFunctionOnSet(sums, K)
    BY DEF CurrencyProfit, SumOver
  <1> HIDE DEF K, of, sums
  <1>7. SumFunctionOnSet(sums, K) = SumFunctionOnSet(ProfitOf, UNION {of[k] : k \in K})
    BY <1>2, <1>3, <1>4, SumOfSums
  <1> QED BY <1>5, <1>6, <1>7

(* The ranking: who neither wins nor loses adds nothing.                   *)
LEMMA RankingIsCurrency ==
    ASSUME LinesOk, NEW c
    PROVE  SumOver(LAMBDA sku : SkuProfit(c, sku), Ranking(c).winners \cup Ranking(c).losers)
               = CurrencyProfit(c)
  <1> DEFINE K == KeysOf(c)
             R == Ranked(c)
             sides == Ranking(c).winners \cup Ranking(c).losers
             of == [sku \in R |-> {k \in K : k[2] = sku}]
             sums == [sku \in R |-> SkuProfit(c, sku)]
             onSides == [sku \in sides |-> SkuProfit(c, sku)]
             group == [k \in K |-> GroupProfit(k)]
  <1>1. IsFiniteSet(K) /\ K \subseteq Computable(GroupKeys) /\ \A k \in K : k[2] \in Goods
    <2>1. K \subseteq Computable(GroupKeys) /\ K \subseteq GroupKeys
      BY DEF KeysOf, Computable
    <2> QED BY <2>1, KeysAre, FS_Subset
  <1>2. \A k \in K : group[k] \in Int
    <2>1. ASSUME NEW k \in K PROVE GroupProfit(k) \in Int
      <3>1. GroupOf(k) \in SUBSET Computed /\ GroupProfit(k) = SumFunctionOnSet(ProfitOf, GroupOf(k))
        BY <1>1, GroupIsComputed
      <3> QED BY <3>1, ProfitOver, SumType
    <2> QED BY <2>1
  <1>3. IsFiniteSet(R)
    <2> DEFINE second == [k \in K |-> k[2]]
    <2>1. R = {second[k] : k \in K}
      BY <1>1 DEF Ranked
    <2> HIDE DEF second, K, R
    <2> QED BY <1>1, <2>1, ImageIsFinite
  <1>4. ASSUME NEW sku \in R
        PROVE  /\ IsFiniteSet(of[sku]) /\ sums[sku] = SumFunctionOnSet(group, of[sku])
               /\ \A x \in of[sku] : group[x] \in Int
    <2>1. of[sku] = {k \in K : k[2] = sku} /\ sums[sku] = SkuProfit(c, sku)
      OBVIOUS
    <2>2. IsFiniteSet(of[sku]) /\ of[sku] \subseteq K
      BY <1>1, <2>1, FS_Subset
    <2> DEFINE share == [k \in {j \in KeysOf(c) : j[2] = sku} |-> GroupProfit(k)]
    <2>3. SkuProfit(c, sku) = SumFunctionOnSet(share, of[sku])
      BY <2>1 DEF SkuProfit, SumOver
    <2>4. \A k \in of[sku] : share[k] = group[k]
      BY <2>1
    <2> HIDE DEF share, of, group, sums, K
    <2>5. SumFunctionOnSet(share, of[sku]) = SumFunctionOnSet(group, of[sku])
      BY <2>2, <2>4, SumEqual
    <2> QED BY <1>2, <2>1, <2>2, <2>3, <2>5
  <1>5. \A r, s \in R : r # s => of[r] \cap of[s] = {}
    OBVIOUS
  <1>6. UNION {of[sku] : sku \in R} = K
    <2>1. \A k \in K : k[2] \in R /\ k \in of[k[2]]
      BY <1>1 DEF Ranked
    <2>2. \A sku \in R : of[sku] \subseteq K
      OBVIOUS
    <2> HIDE DEF of, R, K
    <2> QED BY <2>1, <2>2
  <1>7. CurrencyProfit(c) = SumFunctionOnSet(group, K)
    BY DEF CurrencyProfit, SumOver
  <1>8. /\ sides \subseteq R
        /\ \A sku \in R : sums[sku] \in Int => sku \in sides \/ sums[sku] = 0
    BY DEF Ranking
  <1>9. SumOver(LAMBDA sku : SkuProfit(c, sku), sides) = SumFunctionOnSet(onSides, sides)
    BY DEF SumOver
  <1>10. \A sku \in sides : onSides[sku] = sums[sku]
    BY <1>8
  <1> HIDE DEF K, R, sides, of, sums, onSides, group
  <1>11. SumFunctionOnSet(sums, R) = SumFunctionOnSet(group, K)
    <2>1. SumFunctionOnSet(sums, R) = SumFunctionOnSet(group, UNION {of[sku] : sku \in R})
      BY <1>3, <1>4, <1>5, SumOfSums
    <2> QED BY <1>6, <2>1
  <1>12. \A sku \in R : sums[sku] \in Int
    BY <1>4, SumType
  <1>13. /\ IsFiniteSet(sides) /\ IsFiniteSet(R \ sides) /\ sides \cap (R \ sides) = {}
         /\ sides \cup (R \ sides) = R
    BY <1>3, <1>8, FS_Subset
  <1>14. SumFunctionOnSet(sums, R) = SumFunctionOnSet(sums, sides) + SumFunctionOnSet(sums, R \ sides)
    BY <1>8, <1>12, <1>13, SumUnion
  <1>15. SumFunctionOnSet(sums, R \ sides) = 0
    BY <1>8, <1>12, <1>13, SumZero
  <1>16. SumFunctionOnSet(sums, sides) = SumFunctionOnSet(onSides, sides)
    BY <1>10, <1>13, SumEqual
  <1>17. SumFunctionOnSet(sums, sides) \in Int
    BY <1>8, <1>12, <1>13, SumType
  <1>18. SumFunctionOnSet(onSides, sides) = CurrencyProfit(c)
    BY <1>7, <1>11, <1>14, <1>15, <1>16, <1>17
  <1> QED BY <1>9, <1>18 DEF sides

-----------------------------------------------------------------------------
(* What was answered is that of the lines, which nothing changes.          *)
Answered ==
    /\ report = [at |-> report.at, page |-> report.page, profit |-> report.profit,
                 total |-> report.total, quality |-> report.quality,
                 missing |-> report.missing, ranking |-> report.ranking]
    /\ report.profit = [c \in Counted |-> CurrencyProfit(c)]
    /\ report.total = TotalProfit /\ report.quality = Quality
    /\ report.missing = Cardinality(MissingOrders)
    /\ report.ranking = [c \in Counted |-> Ranking(c)]

Paged ==
    \E c \in Currencies, filter \in Filters :
        report.page = [currency |-> c, filter |-> filter, items |-> Listed(c, filter),
                       profit |-> SumOver(LineProfit, Listed(c, filter) \cap Computed)]

ProfitInv ==
    /\ LinesOk
    /\ report.at # "none" => Answered
    /\ report.at = "page" => Paged

LEMMA ReportIsSum == ProfitInv => SummaryIsSumOfDetails
  <1> SUFFICES ASSUME ProfitInv, report.at = "page", report.page.currency \in DOMAIN report.profit
               PROVE  LET page == report.page  c == page.currency IN
                      /\ page.filter \in {"all", "computed"} =>
                             report.profit[c] - page.profit
                                \in 0..Cardinality({l \in page.items \cap Computed : IsHalf(l)})
                      /\ page.filter \in {"missing", "unmapped"} => page.profit = 0
                      /\ report.total # {} => report.total = {report.profit[c]}
                      /\ LET sides == report.ranking[c].winners \cup report.ranking[c].losers
                         IN SumOver(LAMBDA sku : SkuProfit(c, sku), sides) = report.profit[c]
                      /\ (report.quality = "complete" /\ page.filter = "all")
                             => page.items \subseteq Computed /\ report.missing = 0
    BY DEF SummaryIsSumOfDetails
  <1>1. LinesOk /\ Answered /\ Paged
    BY DEF ProfitInv
  <1>2. PICK c \in Currencies, filter \in Filters :
          report.page = [currency |-> c, filter |-> filter, items |-> Listed(c, filter),
                         profit |-> SumOver(LineProfit, Listed(c, filter) \cap Computed)]
    BY <1>1 DEF Paged
  <1>3. /\ report.page.currency = c /\ report.page.filter = filter
        /\ report.page.items = Listed(c, filter)
        /\ report.page.profit = SumOver(LineProfit, Listed(c, filter) \cap Computed)
    BY <1>2
  <1>4. /\ c \in Counted /\ report.profit[c] = CurrencyProfit(c) /\ report.ranking[c] = Ranking(c)
        /\ report.total = TotalProfit /\ report.quality = Quality
        /\ report.missing = Cardinality(MissingOrders)
    BY <1>1, <1>3 DEF Answered
  <1>5. ASSUME filter \in {"all", "computed"}
        PROVE  report.profit[c] - report.page.profit
                  \in 0..Cardinality({l \in report.page.items \cap Computed : IsHalf(l)})
    <2>1. Listed(c, filter) \cap Computed = CountedLines(c)
      BY <1>5 DEF Listed, CountedLines
    <2>2. CountedLines(c) \in SUBSET Computed
      BY DEF CountedLines
    <2> QED BY <1>1, <1>3, <1>4, <2>1, <2>2, DetailsNear, CurrencyIsLines
  <1>6. ASSUME filter \in {"missing", "unmapped"}
        PROVE  report.page.profit = 0
    <2>1. Listed(c, filter) \cap Computed = {}
      BY <1>6 DEF Listed, Computed, COMPUTABLE_STATUSES
    <2>2. SumOver(LineProfit, {}) = 0
      BY SumEmpty DEF SumOver
    <2> QED BY <1>3, <2>1, <2>2
  <1>7. ASSUME report.total # {} PROVE report.total = {report.profit[c]}
    <2>1. Cardinality(Counted) = 1 /\ report.total = {CurrencyProfit(d) : d \in Counted}
      BY <1>4, <1>7 DEF TotalProfit
    <2>2. IsFiniteSet(Counted)
      <3> DEFINE first == [k \in GroupKeys |-> k[1]]
      <3>1. Counted = {first[k] : k \in GroupKeys}
        BY DEF Counted
      <3> HIDE DEF first
      <3> QED BY <1>1, <3>1, KeysAre, ImageIsFinite
    <2>3. Counted = {c}
      BY <1>4, <2>1, <2>2, FS_Singleton
    <2> QED BY <1>4, <2>1, <2>3
  <1>8. ASSUME report.quality = "complete", filter = "all"
        PROVE  report.page.items \subseteq Computed /\ report.missing = 0
    <2>1. Computable(GroupKeys) = GroupKeys
      BY <1>4, <1>8 DEF Quality
    <2>2. ASSUME NEW l \in Window
          PROVE  l \in Computed /\ line[l].status # "missing"
      <3> DEFINE k == <<line[l].currency, line[l].sku, line[l].status>>
      <3>1. k \in Computable(GroupKeys)
        BY <1>1, <2>1, KeysAre
      <3>2. k[3] \in COMPUTABLE_STATUSES /\ k[3] = line[l].status
        BY <3>1 DEF Computable
      <3> QED BY <1>1, <3>2, LinesAre DEF Computed, COMPUTABLE_STATUSES
    <2>3. MissingOrders = {}
      BY <2>2 DEF MissingOrders
    <2>4. report.missing = 0
      BY <1>4, <2>3, FS_EmptySet
    <2>5. Listed(c, filter) \subseteq Window
      BY DEF Listed
    <2> QED BY <1>3, <2>2, <2>4, <2>5
  <1>9. SumOver(LAMBDA sku : SkuProfit(c, sku), Ranking(c).winners \cup Ranking(c).losers)
            = CurrencyProfit(c)
    BY <1>1, RankingIsCurrency
  <1> QED BY <1>3, <1>4, <1>5, <1>6, <1>7, <1>8, <1>9

LEMMA ProfitInitHolds == ProfitInit => ProfitInv
  BY DEF ProfitInit, ProfitInv, LinesOk, NoReport

(* Nothing changes the lines, and what is read from them stays.            *)
LEMMA LinesStay ==
    ASSUME line' = line, onSale' = onSale
    PROVE  /\ LinesOk' = LinesOk /\ Counted' = Counted /\ TotalProfit' = TotalProfit
           /\ Quality' = Quality /\ MissingOrders' = MissingOrders
           /\ \A c : CurrencyProfit(c)' = CurrencyProfit(c) /\ Ranking(c)' = Ranking(c)
           /\ \A c, filter : Listed(c, filter)' = Listed(c, filter)
           /\ \A c, filter : SumOver(LineProfit, Listed(c, filter) \cap Computed)'
                                = SumOver(LineProfit, Listed(c, filter) \cap Computed)
  <1>1. ASSUME NEW l PROVE Revenue(l)' = Revenue(l) /\ NetQty(l)' = NetQty(l)
    BY DEF Revenue, NetQty
  <1>2. ASSUME NEW l PROVE Cost(l)' = Cost(l) /\ Fee(l)' = Fee(l) /\ SummedFee(l)' = SummedFee(l)
    BY <1>1 DEF Cost, Fee, SummedFee, IsHalf
  <1>3. ASSUME NEW l PROVE LineProfit(l)' = LineProfit(l)
    BY <1>1, <1>2 DEF LineProfit
  <1>4. /\ Window' = Window /\ Computed' = Computed /\ GroupKeys' = GroupKeys
        /\ LinesOk' = LinesOk /\ MissingOrders' = MissingOrders
    BY DEF Window, Computed, GroupKeys, LinesOk, MissingOrders
  <1>5. ASSUME NEW k PROVE GroupOf(k)' = GroupOf(k)
    BY <1>4 DEF GroupOf
  <1>6. ASSUME NEW k PROVE GroupProfit(k)' = GroupProfit(k)
    BY <1>1, <1>2, <1>5 DEF GroupProfit, FeeOf, SumOver
  <1>7. ASSUME NEW c PROVE KeysOf(c)' = KeysOf(c)
    BY <1>4 DEF KeysOf, Computable
  <1>8. ASSUME NEW c PROVE CurrencyProfit(c)' = CurrencyProfit(c)
    BY <1>6, <1>7 DEF CurrencyProfit, SumOver
  <1>9. ASSUME NEW c, NEW sku PROVE SkuProfit(c, sku)' = SkuProfit(c, sku)
    BY <1>6, <1>7 DEF SkuProfit, SumOver
  <1>10. ASSUME NEW c PROVE Ranking(c)' = Ranking(c)
    BY <1>7, <1>9 DEF Ranking, Ranked
  <1>11. Counted' = Counted /\ NothingComputed' = NothingComputed /\ Quality' = Quality
    BY <1>4 DEF Counted, NothingComputed, Quality, Computable
  <1>12. TotalProfit' = TotalProfit
    BY <1>8, <1>11 DEF TotalProfit
  <1>13. ASSUME NEW c, NEW filter PROVE Listed(c, filter)' = Listed(c, filter)
    BY <1>4 DEF Listed
  <1>14. ASSUME NEW c, NEW filter
         PROVE  SumOver(LineProfit, Listed(c, filter) \cap Computed)'
                    = SumOver(LineProfit, Listed(c, filter) \cap Computed)
    BY <1>3, <1>4, <1>13 DEF SumOver
  <1> QED BY <1>4, <1>8, <1>10, <1>11, <1>12, <1>13, <1>14

LEMMA ProfitNextHolds == ProfitInv /\ [ProfitNext]_profitVars => ProfitInv'
  <1> SUFFICES ASSUME ProfitInv, [ProfitNext]_profitVars PROVE ProfitInv'
    OBVIOUS
  <1>1. line' = line /\ onSale' = onSale
    BY DEF ProfitNext, profitVars, Summarize, ListLines
  <1>2. LinesOk'
    BY <1>1, LinesStay DEF ProfitInv
  <1>3. CASE report' = report
    <2>1. Answered => Answered'
      BY <1>1, <1>3, LinesStay DEF Answered
    <2>2. Paged => Paged'
      BY <1>1, <1>3, LinesStay DEF Paged
    <2> QED BY <1>2, <1>3, <2>1, <2>2 DEF ProfitInv
  <1>4. CASE Summarize
    <2>1. report' =
           [at |-> "summary", page |-> NoReport,
            profit |-> [c \in Counted |-> CurrencyProfit(c)],
            total |-> TotalProfit, quality |-> Quality, missing |-> Cardinality(MissingOrders),
            ranking |-> [c \in Counted |-> Ranking(c)]]
      BY <1>4 DEF Summarize
    <2>2. Answered'
      BY <1>1, <2>1, LinesStay DEF Answered
    <2> QED BY <1>2, <2>1, <2>2 DEF ProfitInv
  <1>5. ASSUME NEW c \in Currencies, NEW filter \in Filters, ListLines(c, filter)
        PROVE  ProfitInv'
    <2> DEFINE answer ==
                 [currency |-> c, filter |-> filter, items |-> Listed(c, filter),
                  profit |-> SumOver(LineProfit, Listed(c, filter) \cap Computed)]
    <2>1. report.at = "summary" /\ report' = [report EXCEPT !.at = "page", !.page = answer]
      BY <1>5 DEF ListLines
    <2>2. Answered
      BY <2>1 DEF ProfitInv
    <2> HIDE DEF answer
    <2>3. /\ report' = [at |-> "page", page |-> answer, profit |-> report.profit,
                        total |-> report.total, quality |-> report.quality,
                        missing |-> report.missing, ranking |-> report.ranking]
      BY ONLY <2>1, <2>2 DEF Answered
    <2>4. Answered'
      BY <1>1, <2>2, <2>3, LinesStay DEF Answered
    <2>5. Paged'
      BY <1>1, <2>3, LinesStay DEF Paged, answer
    <2> QED BY <1>2, <2>4, <2>5 DEF ProfitInv
  <1> QED BY <1>3, <1>4, <1>5 DEF ProfitNext, profitVars

(* For any lines, costs and fees, and whichever fees the database rounds   *)
(* down on doubles: the ranking adds up to the total it explains, and the  *)
(* details to at most a cent less for each line with half a cent of fee    *)
(* (summarize_profit, list_profit_lines, _build_ranking).                  *)
THEOREM DetailsAddUp == ProfitSpec => []SummaryIsSumOfDetails
  BY ProfitInitHolds, ProfitNextHolds, ReportIsSum, PTL DEF ProfitSpec

-----------------------------------------------------------------------------
(* Order merging.  Members in order, and sequences end to end.           *)

(* A property of numbers up to n that holds of 0 and of the next one.    *)
LEMMA EachUpTo ==
    ASSUME NEW n \in Nat, NEW T \in SUBSET Nat, 0 \in T, \A i \in T : i < n => i + 1 \in T
    PROVE  0..n \subseteq T
  <1> DEFINE B == {i \in 0..n : i \notin T}
  <1> SUFFICES ASSUME B # {} PROVE FALSE
    OBVIOUS
  <1>1. PICK m \in B : \A i \in B : m <= i
    <2>1. B \in SUBSET Nat
      OBVIOUS
    <2> HIDE DEF B
    <2> QED BY <2>1, LeastNumber
  <1>2. m # 0 /\ m - 1 \in 0..n /\ m - 1 < m
    OBVIOUS
  <1>3. m - 1 \notin B
    BY <1>1, <1>2
  <1>4. m - 1 \in T /\ m - 1 < n /\ (m - 1) + 1 = m
    BY <1>2, <1>3
  <1>5. m \in T
    BY <1>4
  <1> QED BY <1>5

(* s has the m members of P, the least first.                            *)
Ordered(s, m, P) ==
    s \in [1..m -> P] /\ ToSet(s) = P /\ \A j, k \in 1..m : j < k => s[j] < s[k]

Enumerates(s, P) == Ordered(s, Cardinality(P), P)

(* Sets of numbers can be put in order,                                  *)
LEMMA EnumerationGrows ==
    ASSUME NEW i \in Nat, NEW R \in SUBSET (1..i), NEW m \in Nat, NEW s, Ordered(s, m, R)
    PROVE  \E t : Ordered(t, m + 1, R \cup {i + 1})
  <1> DEFINE t == [k \in 1..m + 1 |-> IF k = m + 1 THEN i + 1 ELSE s[k]]
             Q == R \cup {i + 1}
  <1>0. s \in [1..m -> R] /\ ToSet(s) = R /\ \A j, k \in 1..m : j < k => s[j] < s[k]
    BY DEF Ordered
  <1>1. \A k \in 1..m : s[k] \in R /\ s[k] \in 1..i
    BY <1>0
  <1>2. t[m + 1] = i + 1 /\ \A k \in 1..m : t[k] = s[k]
    OBVIOUS
  <1>3. t \in [1..m + 1 -> Q]
    BY <1>1
  <1> HIDE DEF t
  <1>4. ASSUME NEW q \in Q PROVE \E k \in 1..m + 1 : t[k] = q
    <2>1. CASE q = i + 1
      BY <1>2, <2>1
    <2>2. CASE q # i + 1
      <3>1. PICK k \in 1..m : s[k] = q
        BY <1>0, <2>2 DEF ToSet
      <3> QED BY <1>2, <3>1
    <2> QED BY <2>1, <2>2
  <1>5. ToSet(t) = Q
    BY <1>3, <1>4 DEF ToSet
  <1>6. ASSUME NEW j \in 1..m + 1, NEW k \in 1..m + 1, j < k PROVE t[j] < t[k]
    <2>1. j \in 1..m
      BY <1>6
    <2>2. CASE k = m + 1
      BY <1>1, <1>2, <2>1, <2>2
    <2>3. CASE k # m + 1
      BY <1>0, <1>2, <1>6, <2>1, <2>3
    <2> QED BY <2>2, <2>3
  <1> QED BY <1>3, <1>5, <1>6 DEF Ordered

LEMMA EnumerationExists ==
    ASSUME NEW n \in Nat, NEW P \in SUBSET (1..n)
    PROVE  IsFiniteSet(P) /\ \E s : Enumerates(s, P)
  <1> DEFINE Done(Q) == IsFiniteSet(Q) /\ \E s : Enumerates(s, Q)
             T == {i \in Nat : \A Q \in SUBSET (1..i) : Done(Q)}
  <1>1. ASSUME NEW Q \in SUBSET (1..0) PROVE Done(Q)
    <2>1. Q = {}
      OBVIOUS
    <2>2. IsFiniteSet(Q) /\ Cardinality(Q) = 0
      BY <2>1, FS_EmptySet
    <2>3. Enumerates(<< >>, Q)
      BY <2>1, <2>2 DEF Enumerates, Ordered, ToSet
    <2> QED BY <2>2, <2>3
  <1>2. ASSUME NEW i \in Nat, NEW Q \in SUBSET (1..i + 1), Done(Q \ {i + 1}) PROVE Done(Q)
    <2> DEFINE R == Q \ {i + 1}
               m == Cardinality(R)
    <2>1. CASE i + 1 \notin Q
      <3>1. R = Q
        BY <2>1
      <3> QED BY <1>2, <3>1
    <2>2. CASE i + 1 \in Q
      <3>1. Q = R \cup {i + 1} /\ i + 1 \notin R /\ R \in SUBSET (1..i)
        BY <2>2
      <3>2. IsFiniteSet(R) /\ \E s : Enumerates(s, R)
        BY <1>2
      <3> HIDE DEF R
      <3>3. IsFiniteSet(Q) /\ Cardinality(Q) = m + 1 /\ m \in Nat
        BY <3>1, <3>2, FS_AddElement, FS_CardinalityType
      <3>4. PICK s : Ordered(s, m, R)
        BY <3>2 DEF Enumerates
      <3>5. \E t : Ordered(t, m + 1, Q)
        BY <3>1, <3>3, <3>4, EnumerationGrows
      <3>8. \E t : Enumerates(t, Q)
        BY <3>3, <3>5 DEF Enumerates
      <3> QED BY <3>3, <3>8
    <2> QED BY <2>1, <2>2
  <1>3. T \in SUBSET Nat /\ 0 \in T
    BY <1>1
  <1>4. ASSUME NEW i \in T PROVE i + 1 \in T
    <2>1. i \in Nat /\ \A Q \in SUBSET (1..i) : Done(Q)
      OBVIOUS
    <2>2. ASSUME NEW Q \in SUBSET (1..i + 1) PROVE Done(Q)
      <3>1. Q \ {i + 1} \in SUBSET (1..i)
        BY <2>1
      <3>2. Done(Q \ {i + 1})
        BY <2>1, <3>1
      <3> HIDE DEF Done
      <3> QED BY <1>2, <2>1, <3>2
    <2> HIDE DEF Done
    <2> QED BY <2>1, <2>2
  <1>5. 0..n \subseteq T
    <2> HIDE DEF T
    <2> QED BY <1>3, <1>4, EachUpTo
  <1> QED BY <1>5

(* in one way only,                                                      *)
LEMMA OrderIsTheSame ==
    ASSUME NEW n \in Nat, NEW P \in SUBSET (1..n),
           NEW d \in Nat, NEW s, Ordered(s, d, P), NEW m \in Nat, NEW t, Ordered(t, m, P),
           NEW i \in 1..d, i <= m, \A k \in 1..i - 1 : s[k] = t[k]
    PROVE  ~(s[i] < t[i])
  <1> SUFFICES ASSUME s[i] < t[i] PROVE FALSE
    OBVIOUS
  <1>0. /\ s \in [1..d -> P] /\ \A j, k \in 1..d : j < k => s[j] < s[k]
        /\ t \in [1..m -> P] /\ ToSet(t) = P /\ \A j, k \in 1..m : j < k => t[j] < t[k]
    BY DEF Ordered
  <1>1. s[i] \in P /\ i \in 1..m /\ DOMAIN t = 1..m
    BY <1>0
  <1>2. PICK k \in 1..m : t[k] = s[i]
    BY <1>0, <1>1 DEF ToSet
  <1>3. s[i] \in 1..n /\ t[i] \in 1..n
    BY <1>0, <1>1
  <1>4. k < i
    BY <1>0, <1>1, <1>2, <1>3
  <1>5. s[k] = t[k] /\ s[k] < s[i]
    BY <1>0, <1>1, <1>4
  <1> QED BY <1>2, <1>3, <1>5

LEMMA OrdersAgree ==
    ASSUME NEW n \in Nat, NEW P \in SUBSET (1..n),
           NEW d \in Nat, NEW s, Ordered(s, d, P), NEW m \in Nat, NEW t, Ordered(t, m, P)
    PROVE  d <= m /\ \A k \in 1..d : s[k] = t[k]
  <1> DEFINE Same == {i \in Nat : \A k \in 1..i : k <= d /\ k <= m => s[k] = t[k]}
  <1>0. /\ s \in [1..d -> P] /\ \A j, k \in 1..d : j < k => s[j] < s[k]
        /\ t \in [1..m -> P] /\ ToSet(t) = P
    BY DEF Ordered
  <1>1. Same \in SUBSET Nat /\ 0 \in Same
    OBVIOUS
  <1>2. ASSUME NEW i \in Same PROVE i + 1 \in Same
    <2>1. i \in Nat /\ \A k \in 1..i : k <= d /\ k <= m => s[k] = t[k]
      OBVIOUS
    <2>2. ASSUME NEW x \in Nat, x = i + 1, x <= d, x <= m PROVE s[x] = t[x]
      <3>1. x \in 1..d /\ x \in 1..m /\ \A k \in 1..x - 1 : s[k] = t[k] /\ t[k] = s[k]
        BY <2>1, <2>2
      <3> HIDE DEF Same
      <3>2. ~(s[x] < t[x])
        BY <2>2, <3>1, OrderIsTheSame
      <3>3. ~(t[x] < s[x])
        BY <2>2, <3>1, OrderIsTheSame
      <3>4. s[x] \in 1..n /\ t[x] \in 1..n
        BY <1>0, <3>1
      <3> QED BY <3>2, <3>3, <3>4
    <2>3. i + 1 <= d /\ i + 1 <= m => s[i + 1] = t[i + 1]
      BY <2>1, <2>2
    <2> QED BY <2>1, <2>3
  <1>3. d \in Same
    <2>1. 0..d \subseteq Same
      <3> HIDE DEF Same
      <3> QED BY <1>1, <1>2, EachUpTo
    <2> QED BY <2>1
  <1>4. ASSUME m < d PROVE FALSE
    <2>1. s[m + 1] \in P /\ m + 1 \in 1..d /\ DOMAIN t = 1..m
      BY <1>0, <1>4
    <2>2. PICK k \in 1..m : t[k] = s[m + 1]
      <3> HIDE DEF Same
      <3> QED BY <1>0, <2>1 DEF ToSet
    <2>a. k \in 1..d /\ k <= m /\ k <= d
      BY <1>4
    <2>b. \A j \in 1..d : j <= d /\ j <= m => s[j] = t[j]
      BY <1>3
    <2>3. k \in 1..d /\ s[k] = t[k]
      BY <2>a, <2>b
    <2>4. s[k] < s[m + 1] /\ s[k] \in 1..n
      <3>1. s[k] \in P /\ k < m + 1
        BY <1>0, <2>3
      <3> HIDE DEF Same
      <3> QED BY <1>0, <2>1, <2>3, <3>1
    <2> QED BY <2>2, <2>3, <2>4
  <1> QED BY <1>3, <1>4

LEMMA EnumerationsAgree ==
    ASSUME NEW n \in Nat, NEW P \in SUBSET (1..n), NEW s, Enumerates(s, P),
           NEW m \in Nat, NEW t, Ordered(t, m, P)
    PROVE  s = t
  <1> DEFINE d == Cardinality(P)
  <1>1. IsFiniteSet(P)
    BY EnumerationExists
  <1>2. d \in Nat
    BY <1>1, FS_CardinalityType
  <1>3. Ordered(s, d, P)
    BY DEF Enumerates
  <1> HIDE DEF d
  <1>5. d <= m /\ \A k \in 1..d : s[k] = t[k]
    BY <1>2, <1>3, OrdersAgree
  <1>6. m <= d
    BY <1>2, <1>3, OrdersAgree
  <1>7. d = m
    BY <1>2, <1>5, <1>6
  <1> QED BY <1>3, <1>5, <1>7 DEF Ordered

(* which is InOrder.                                                     *)
LEMMA InOrderIs ==
    ASSUME NEW n \in Nat, NEW P \in SUBSET (1..n)
    PROVE  Enumerates(InOrder(P), P) /\ Cardinality(P) \in Nat
  <1>1. IsFiniteSet(P) /\ \E s : Enumerates(s, P)
    BY EnumerationExists
  <1>2. InOrder(P) = CHOOSE s \in [1..Cardinality(P) -> P] :
                         ToSet(s) = P /\ \A j, k \in DOMAIN s : j < k => s[j] < s[k]
    BY DEF InOrder
  <1>3. Cardinality(P) \in Nat
    BY <1>1, FS_CardinalityType
  <1> QED BY <1>1, <1>2, <1>3 DEF Enumerates, Ordered

-----------------------------------------------------------------------------
(* Sequences end to end: block k of ss begins after off[k - 1].          *)
Placed(ss, n, t, off) ==
    /\ off \in [0..n -> Nat] /\ off[0] = 0 /\ Len(t) = off[n]
    /\ \A k \in 1..n : off[k] = off[k - 1] + Len(ss[k])
    /\ \A k \in 1..n : \A j \in 1..Len(ss[k]) :
          off[k - 1] + j \in 1..Len(t) /\ t[off[k - 1] + j] = ss[k][j]
    /\ \A p \in 1..Len(t) : \E k \in 1..n : \E j \in 1..Len(ss[k]) : p = off[k - 1] + j

LEMMA PlacedNext ==
    ASSUME NEW S, NEW n \in Nat, NEW ss, \A k \in 1..n + 1 : ss[k] \in Seq(S),
           NEW t \in Seq(S), NEW off, Placed(ss, n, t, off)
    PROVE  \E o : Placed(ss, n + 1, t \o ss[n + 1], o)
  <1> DEFINE new == ss[n + 1]
             o == [k \in 0..n + 1 |-> IF k = n + 1 THEN off[n] + Len(new) ELSE off[k]]
             u == t \o new
  <1>1. /\ off \in [0..n -> Nat] /\ off[0] = 0 /\ Len(t) = off[n]
        /\ \A k \in 1..n : off[k] = off[k - 1] + Len(ss[k])
        /\ \A k \in 1..n : \A j \in 1..Len(ss[k]) :
              off[k - 1] + j \in 1..Len(t) /\ t[off[k - 1] + j] = ss[k][j]
        /\ \A p \in 1..Len(t) : \E k \in 1..n : \E j \in 1..Len(ss[k]) : p = off[k - 1] + j
    BY DEF Placed
  <1>2. new \in Seq(S) /\ Len(new) \in Nat /\ Len(t) \in Nat
    OBVIOUS
  <1>a. off \in [0..n -> Nat] /\ off[n] \in Nat
    BY <1>1
  <1>3. o \in [0..n + 1 -> Nat] /\ o[n + 1] = off[n] + Len(new) /\ \A k \in 0..n : o[k] = off[k]
    <2> HIDE DEF new
    <2>1. \A k \in 0..n : o[k] = off[k]
      OBVIOUS
    <2>2. \A k \in 0..n + 1 : k = n + 1 \/ k \in 0..n
      OBVIOUS
    <2> QED BY <1>a, <1>2, <2>1, <2>2
  <1>4. Len(u) = Len(t) + Len(new)
    BY <1>2
  <1>5. \A p \in 1..Len(t) : u[p] = t[p]
    BY <1>2
  <1>6. \A j \in 1..Len(new) : u[Len(t) + j] = new[j]
    BY <1>2
  <1> HIDE DEF o, u
  <1>7. ASSUME NEW k \in 1..n + 1
        PROVE  /\ o[k] = o[k - 1] + Len(ss[k])
               /\ \A j \in 1..Len(ss[k]) : o[k - 1] + j \in 1..Len(u) /\ u[o[k - 1] + j] = ss[k][j]
    <2>1. CASE k = n + 1
      <3>1. o[k - 1] = off[n] /\ off[n] = Len(t) /\ ss[k] = new
        BY <1>1, <1>3, <2>1
      <3> QED BY <1>2, <1>3, <1>4, <1>6, <2>1, <3>1
    <2>2. CASE k # n + 1
      <3>1. k \in 1..n /\ k - 1 \in 0..n /\ k \in 0..n
        BY <2>2
      <3>2. o[k - 1] = off[k - 1] /\ o[k] = off[k]
        BY <1>3, <3>1
      <3>3. /\ off[k] = off[k - 1] + Len(ss[k])
            /\ \A j \in 1..Len(ss[k]) : off[k - 1] + j \in 1..Len(t) /\ t[off[k - 1] + j] = ss[k][j]
        BY <1>1, <3>1
      <3>4. \A p \in 1..Len(t) : p \in 1..Len(u)
        BY <1>2, <1>4
      <3> QED BY <1>5, <3>2, <3>3, <3>4
    <2> QED BY <2>1, <2>2
  <1>8. ASSUME NEW p \in 1..Len(u)
        PROVE  \E k \in 1..n + 1 : \E j \in 1..Len(ss[k]) : p = o[k - 1] + j
    <2>1. CASE p \in 1..Len(t)
      <3>1. PICK k \in 1..n : \E j \in 1..Len(ss[k]) : p = off[k - 1] + j
        BY <1>1, <2>1
      <3>2. k \in 1..n + 1 /\ k - 1 \in 0..n
        OBVIOUS
      <3> QED BY <1>3, <3>1, <3>2
    <2>2. CASE p \notin 1..Len(t)
      <3>1. p - Len(t) \in 1..Len(new) /\ p = Len(t) + (p - Len(t))
        BY <1>2, <1>4, <2>2
      <3>2. n + 1 \in 1..n + 1 /\ o[(n + 1) - 1] = Len(t)
        BY <1>1, <1>3
      <3> QED BY <3>1, <3>2
    <2> QED BY <2>1, <2>2
  <1>9. o[0] = 0
    BY <1>1, <1>3
  <1>10. Len(u) = o[n + 1]
    BY <1>1, <1>3, <1>4
  <1>11. Placed(ss, n + 1, u, o)
    BY <1>3, <1>7, <1>8, <1>9, <1>10 DEF Placed
  <1> QED BY <1>11 DEF u

(* What the definition of FlattenSeq says of the table of its values.    *)
Flattens(ss, n, f) == f = [i \in 1..n |-> IF i = 1 THEN ss[i] ELSE f[i - 1] \o ss[i]]

LEMMA FlattenIsTable ==
    ASSUME NEW ss, Len(ss) # 0
    PROVE  FlattenSeq(ss) = (CHOOSE f : Flattens(ss, Len(ss), f))[Len(ss)]
  BY DEF FlattenSeq, Flattens

LEMMA FlattenExists ==
    ASSUME NEW ss, NEW n \in Nat
    PROVE  \E f : Flattens(ss, n, f)
  <1> DEFINE T == {i \in Nat : \E f : Flattens(ss, i, f)}
  <1>1. T \in SUBSET Nat
    OBVIOUS
  <1>2. 0 \in T
    <2>1. Flattens(ss, 0, << >>)
      BY DEF Flattens
    <2> QED BY <2>1
  <1>3. ASSUME NEW i \in T PROVE i + 1 \in T
    <2>1. i \in Nat
      OBVIOUS
    <2>2. PICK f : Flattens(ss, i, f)
      OBVIOUS
    <2> DEFINE g == [j \in 1..i + 1 |-> IF j = i + 1 THEN (IF j = 1 THEN ss[j] ELSE f[j - 1] \o ss[j])
                                                     ELSE f[j]]
    <2>3. \A j \in 1..i : g[j] = f[j]
      BY <2>1
    <2>4. \A j \in 1..i : f[j] = IF j = 1 THEN ss[j] ELSE f[j - 1] \o ss[j]
      BY <2>2 DEF Flattens
    <2>5. ASSUME NEW j \in 1..i + 1 PROVE g[j] = IF j = 1 THEN ss[j] ELSE g[j - 1] \o ss[j]
      <3>1. j # 1 => j - 1 \in 1..i
        BY <2>1
      <3>2. j # 1 => g[j - 1] = f[j - 1]
        BY <2>3, <3>1
      <3>3. CASE j = i + 1
        BY <3>2, <3>3
      <3>4. CASE j # i + 1
        <4>1. j \in 1..i
          BY <2>1, <3>4
        <4> HIDE DEF g
        <4> QED BY <2>3, <2>4, <3>2, <4>1
      <3> QED BY <3>3, <3>4
    <2>6. g = [j \in 1..i + 1 |-> g[j]]
      OBVIOUS
    <2> HIDE DEF g
    <2>7. Flattens(ss, i + 1, g)
      BY <2>5, <2>6 DEF Flattens
    <2> QED BY <2>1, <2>7
  <1>4. 0..n \subseteq T
    <2> HIDE DEF T
    <2> QED BY <1>1, <1>2, <1>3, EachUpTo
  <1> QED BY <1>4

LEMMA FlattenPlaces ==
    ASSUME NEW S, NEW ss \in Seq(Seq(S))
    PROVE  FlattenSeq(ss) \in Seq(S) /\ \E off : Placed(ss, Len(ss), FlattenSeq(ss), off)
  <1> DEFINE n == Len(ss)
             f == CHOOSE g : Flattens(ss, n, g)
             T == {i \in Nat : i \in 1..n => f[i] \in Seq(S) /\ \E off : Placed(ss, i, f[i], off)}
  <1>1. CASE n = 0
    <2>1. FlattenSeq(ss) = << >> /\ << >> \in Seq(S)
      BY <1>1 DEF FlattenSeq
    <2>2. Placed(ss, 0, << >>, [k \in 0..0 |-> 0])
      BY DEF Placed
    <2> QED BY <1>1, <2>1, <2>2
  <1>2. CASE n # 0
    <2>1. n \in Nat /\ \A k \in 1..n : ss[k] \in Seq(S)
      OBVIOUS
    <2>2. FlattenSeq(ss) = f[n]
      BY <1>2, FlattenIsTable
    <2>3. Flattens(ss, n, f)
      <3>1. \E g : Flattens(ss, n, g)
        BY <2>1, FlattenExists
      <3> HIDE DEF n
      <3> QED BY <3>1
    <2> HIDE DEF f, n
    <2>4. \A i \in 1..n : f[i] = IF i = 1 THEN ss[i] ELSE f[i - 1] \o ss[i]
      BY <2>3 DEF Flattens
    <2>5. T \in SUBSET Nat /\ 0 \in T
      BY <2>1
    <2>6. ASSUME NEW i \in T PROVE i + 1 \in T
      <3>1. i \in Nat /\ (i \in 1..n => f[i] \in Seq(S) /\ \E off : Placed(ss, i, f[i], off))
        OBVIOUS
      <3> SUFFICES ASSUME i + 1 \in 1..n
                   PROVE  f[i + 1] \in Seq(S) /\ \E off : Placed(ss, i + 1, f[i + 1], off)
        BY <3>1
      <3>2. \A k \in 1..i + 1 : ss[k] \in Seq(S)
        BY <2>1, <3>1
      <3>3. CASE i = 0
        <4>1. f[1] = ss[1] /\ ss[1] \in Seq(S)
          BY <2>1, <2>4, <3>3
        <4>2. Placed(ss, 0, << >>, [k \in 0..0 |-> 0]) /\ << >> \in Seq(S)
          BY DEF Placed
        <4>3. \E off : Placed(ss, 0 + 1, << >> \o ss[0 + 1], off)
          BY <3>2, <3>3, <4>2, PlacedNext
        <4>4. << >> \o ss[0 + 1] = f[1]
          BY <4>1
        <4> QED BY <3>3, <4>1, <4>3, <4>4
      <3>4. CASE i # 0
        <4>1. i \in 1..n /\ f[i + 1] = f[i] \o ss[i + 1]
          <5>1. f[i + 1] = f[(i + 1) - 1] \o ss[i + 1]
            <6>1. i + 1 \in 1..n /\ i + 1 # 1
              BY <3>1, <3>4
            <6> HIDE DEF T
            <6> QED BY <2>4, <6>1
          <5> QED BY <2>1, <3>1, <3>4, <5>1
        <4>2. f[i] \in Seq(S) /\ \E off : Placed(ss, i, f[i], off)
          BY <3>1, <4>1
        <4>3. \E off : Placed(ss, i + 1, f[i] \o ss[i + 1], off)
          BY <3>1, <3>2, <4>2, PlacedNext
        <4>4. f[i] \o ss[i + 1] \in Seq(S)
          BY <3>1, <3>2, <4>2
        <4> QED BY <4>1, <4>3, <4>4
      <3> QED BY <3>3, <3>4
    <2>7. n \in T
      <3>1. 0..n \subseteq T
        <4> HIDE DEF T
        <4> QED BY <2>1, <2>5, <2>6, EachUpTo
      <3>2. n \in 0..n
        BY <2>1
      <3> HIDE DEF T
      <3> QED BY <3>1, <3>2
    <2>8. f[n] \in Seq(S) /\ \E off : Placed(ss, n, f[n], off)
      BY <1>2, <2>1, <2>7
    <2> QED BY <2>2, <2>8 DEF n
  <1> QED BY <1>1, <1>2

LEMMA OffsetsGrow ==
    ASSUME NEW S, NEW ss \in Seq(Seq(S)), NEW t, NEW off, Placed(ss, Len(ss), t, off),
           \A k \in 1..Len(ss) : ss[k] # << >>,
           NEW k \in 1..Len(ss), NEW l \in 1..Len(ss), k < l
    PROVE  off[k - 1] < off[l - 1]
  <1> DEFINE n == Len(ss)
             T == {i \in Nat : i \in k..n - 1 => off[k - 1] < off[i]}
  <1>1. /\ n \in Nat /\ off \in [0..n -> Nat]
        /\ \A i \in 1..n : off[i] = off[i - 1] + Len(ss[i])
    BY DEF Placed
  <1>2. ASSUME NEW i \in 1..n PROVE Len(ss[i]) \in Nat /\ Len(ss[i]) > 0
    <2>1. ss[i] \in Seq(S) /\ ss[i] # << >>
      OBVIOUS
    <2> QED BY <2>1
  <1> HIDE DEF n
  <1>a. ASSUME NEW i \in 1..n PROVE off[i - 1] \in Nat /\ off[i] \in Nat /\ off[i - 1] < off[i]
    <2>1. i - 1 \in 0..n /\ i \in 0..n
      BY <1>1
    <2>2. off[i - 1] \in Nat /\ off[i] \in Nat
      BY <1>1, <2>1
    <2>3. Len(ss[i]) \in Nat /\ Len(ss[i]) > 0 /\ off[i] = off[i - 1] + Len(ss[i])
      BY <1>1, <1>2
    <2> QED BY <2>2, <2>3
  <1>b. k \in 1..n /\ l \in 1..n
    BY DEF n
  <1>3. T \in SUBSET Nat /\ 0 \in T
    BY <1>b
  <1>4. ASSUME NEW i \in T PROVE i + 1 \in T
    <2>1. i \in Nat /\ (i \in k..n - 1 => off[k - 1] < off[i])
      OBVIOUS
    <2> SUFFICES ASSUME i + 1 \in k..n - 1 PROVE off[k - 1] < off[i + 1]
      BY <2>1
    <2>2. CASE i + 1 = k
      BY <1>1, <1>a, <1>b, <2>2
    <2>3. CASE i + 1 # k
      <3>1. i \in k..n - 1 /\ i + 1 \in 1..n /\ (i + 1) - 1 = i /\ i \in 1..n
        BY <1>1, <1>b, <2>1, <2>3
      <3>2. off[k - 1] < off[i] /\ off[i] < off[i + 1]
        BY <1>a, <2>1, <3>1
      <3>3. off[k - 1] \in Nat /\ off[i] \in Nat /\ off[i + 1] \in Nat
        BY <1>a, <1>b, <3>1
      <3> QED BY <3>2, <3>3
    <2> QED BY <2>2, <2>3
  <1>5. l - 1 \in T
    <2>0. l \in Nat /\ l # 0
      BY <1>1, <1>b
    <2>1. 0..l \subseteq T
      <3> HIDE DEF T
      <3> QED BY <2>0, <1>3, <1>4, EachUpTo
    <2>2. l - 1 \in 0..l
      BY <2>0
    <2> HIDE DEF T
    <2> QED BY <2>1, <2>2
  <1> QED BY <1>1, <1>b, <1>5

LEMMA FlattenSingles ==
    ASSUME NEW S, NEW ss \in Seq(Seq(S)), \A k \in 1..Len(ss) : Len(ss[k]) = 1
    PROVE  FlattenSeq(ss) = [k \in 1..Len(ss) |-> ss[k][1]]
  <1> DEFINE n == Len(ss)
             t == FlattenSeq(ss)
  <1>1. PICK off : Placed(ss, n, t, off)
    BY FlattenPlaces
  <1>2. t \in Seq(S) /\ n \in Nat
    BY FlattenPlaces
  <1>3. /\ off[0] = 0 /\ Len(t) = off[n] /\ \A k \in 1..n : off[k] = off[k - 1] + Len(ss[k])
        /\ \A k \in 1..n : \A j \in 1..Len(ss[k]) : t[off[k - 1] + j] = ss[k][j]
    BY <1>1 DEF Placed
  <1> HIDE DEF n, t
  <1> DEFINE T == {i \in Nat : i <= n => off[i] = i}
  <1>4. T \in SUBSET Nat /\ 0 \in T
    BY <1>3
  <1>5. ASSUME NEW i \in T PROVE i + 1 \in T
    <2>1. i \in Nat /\ (i <= n => off[i] = i)
      OBVIOUS
    <2>2. ASSUME i + 1 <= n PROVE off[i + 1] = i + 1
      <3>1. i + 1 \in 1..n /\ (i + 1) - 1 = i /\ i <= n
        BY <1>2, <2>1, <2>2
      <3>2. off[i + 1] = off[i] + 1
        BY <1>3, <3>1 DEF n
      <3> QED BY <2>1, <3>1, <3>2
    <2> QED BY <2>1, <2>2
  <1>6. \A i \in 0..n : off[i] = i
    <2>1. 0..n \subseteq T
      <3> HIDE DEF T
      <3> QED BY <1>2, <1>4, <1>5, EachUpTo
    <2> QED BY <2>1
  <1>7. Len(t) = n
    BY <1>2, <1>3, <1>6
  <1>8. ASSUME NEW k \in 1..n PROVE t[k] = ss[k][1]
    <2>0. k - 1 \in 0..n /\ off[k - 1] = k - 1
      BY <1>2, <1>6
    <2>a. Len(ss[k]) = 1
      BY DEF n
    <2>1. 1 \in 1..Len(ss[k]) /\ off[k - 1] = k - 1
      BY <2>0, <2>a
    <2>2. t[off[k - 1] + 1] = ss[k][1]
      BY <1>3, <2>1
    <2> QED BY <1>2, <2>1, <2>2
  <1> QED BY <1>2, <1>7, <1>8 DEF n, t

-----------------------------------------------------------------------------
(* Blocks of records, each of an order of its own, that are not merged.  *)
Blocks(ss, csv) ==
    /\ ss \in Seq(Seq(OrderRecord))
    /\ \A k \in 1..Len(ss) :
          /\ ss[k] # << >> /\ ~Mergeable(ss[k], csv)
          /\ \A j \in 1..Len(ss[k]) : ss[k][j].no = ss[k][1].no
    /\ \A k, l \in 1..Len(ss) : ss[k][1].no = ss[l][1].no => k = l

LEMMA GroupIs ==
    ASSUME NEW S, NEW records \in Seq(S), NEW no, NEW m \in Nat, NEW t,
           Ordered(t, m, {i \in 1..Len(records) : records[i].no = no})
    PROVE  Group(records, no) = [k \in 1..m |-> records[t[k]]]
  <1> DEFINE P == {i \in 1..Len(records) : records[i].no = no}
  <1>1. P \in SUBSET (1..Len(records)) /\ Len(records) \in Nat /\ DOMAIN records = 1..Len(records)
    OBVIOUS
  <1>2. Enumerates(InOrder(P), P)
    <2> HIDE DEF P
    <2> QED BY <1>1, InOrderIs
  <1>3. InOrder(P) = t
    <2>1. Ordered(t, m, P)
      OBVIOUS
    <2> HIDE DEF P
    <2> QED BY <1>1, <1>2, <2>1, EnumerationsAgree
  <1>4. Group(records, no) = [k \in DOMAIN InOrder(P) |-> records[InOrder(P)[k]]]
    BY <1>1 DEF Group
  <1>5. DOMAIN t = 1..m
    BY DEF Ordered
  <1> QED BY <1>3, <1>4, <1>5

LEMMA AggregateStands ==
    ASSUME NEW ss, NEW csv, Blocks(ss, csv)
    PROVE  Aggregate(FlattenSeq(ss), csv) = FlattenSeq(ss)
  <1> DEFINE n == Len(ss)
             t == FlattenSeq(ss)
             no(k) == ss[k][1].no
  <1>0. ss \in Seq(Seq(OrderRecord))
    BY DEF Blocks
  <1>1. PICK off : Placed(ss, n, t, off)
    BY <1>0, FlattenPlaces
  <1>2. t \in Seq(OrderRecord) /\ n \in Nat /\ Len(t) \in Nat
    BY <1>0, FlattenPlaces
  <1>3. /\ off \in [0..n -> Nat]
        /\ \A k \in 1..n : \A j \in 1..Len(ss[k]) :
              off[k - 1] + j \in 1..Len(t) /\ t[off[k - 1] + j] = ss[k][j]
        /\ \A p \in 1..Len(t) : \E k \in 1..n : \E j \in 1..Len(ss[k]) : p = off[k - 1] + j
    BY <1>1 DEF Placed
  <1>4. /\ \A k \in 1..n : /\ ss[k] \in Seq(OrderRecord) /\ Len(ss[k]) \in Nat /\ Len(ss[k]) > 0
                           /\ ~Mergeable(ss[k], csv) /\ off[k - 1] \in Nat
                           /\ \A j \in 1..Len(ss[k]) : ss[k][j].no = no(k)
        /\ \A k, l \in 1..n : no(k) = no(l) => k = l
    <2>1. ASSUME NEW k \in 1..n
          PROVE  ss[k] \in Seq(OrderRecord) /\ Len(ss[k]) \in Nat /\ Len(ss[k]) > 0
      <3>1. ss[k] \in Seq(OrderRecord) /\ ss[k] # << >>
        BY <1>0 DEF Blocks
      <3> QED BY <3>1
    <2>2. ASSUME NEW k \in 1..n PROVE off[k - 1] \in Nat
      <3>1. k - 1 \in 0..n
        BY <1>2
      <3> QED BY <1>3, <3>1
    <2> QED BY <2>1, <2>2 DEF Blocks
  <1>5. \A k, l \in 1..n : k < l => off[k - 1] < off[l - 1]
    BY <1>0, <1>1, OffsetsGrow DEF Blocks
  <1> HIDE DEF n, t, no
  <1> DEFINE P(k) == {i \in 1..Len(t) : t[i].no = no(k)}
             place(k) == [j \in 1..Len(ss[k]) |-> off[k - 1] + j]
  <1>6. ASSUME NEW k \in 1..n PROVE Group(t, no(k)) = ss[k]
    <2> DEFINE m == Len(ss[k])
    <2>1. ASSUME NEW j \in 1..m PROVE place(k)[j] \in P(k) /\ place(k)[j] = off[k - 1] + j
      <3>1. off[k - 1] + j \in 1..Len(t) /\ t[off[k - 1] + j] = ss[k][j] /\ ss[k][j].no = no(k)
        BY <1>3, <1>4
      <3>2. place(k)[j] = off[k - 1] + j
        OBVIOUS
      <3> QED BY <3>1, <3>2
    <2>2. ASSUME NEW p \in P(k) PROVE \E j \in 1..m : place(k)[j] = p
      <3>1a. PICK l \in 1..n : \E j \in 1..Len(ss[l]) : p = off[l - 1] + j
        BY <1>3
      <3>1. PICK j \in 1..Len(ss[l]) : p = off[l - 1] + j
        BY <3>1a
      <3>a. t[p] = ss[l][j] /\ ss[l][j].no = no(l)
        BY <1>3, <1>4, <3>1
      <3>2. no(l) = no(k)
        BY <3>a
      <3>3. l = k
        BY <1>4, <3>2
      <3> QED BY <3>1, <3>3
    <2>3. m \in Nat
      BY <1>4
    <2>4. Ordered(place(k), m, P(k))
      <3>1. place(k) \in [1..m -> P(k)]
        BY <2>1
      <3>2. \A i, j \in 1..m : i < j => place(k)[i] < place(k)[j]
        BY <1>4
      <3> HIDE DEF place, P, m
      <3>3. ToSet(place(k)) = P(k)
        BY <2>2, <3>1 DEF ToSet
      <3> QED BY <3>1, <3>2, <3>3 DEF Ordered
    <2>5. Group(t, no(k)) = [j \in 1..m |-> t[place(k)[j]]]
      <3> HIDE DEF place, m
      <3> QED BY <1>2, <2>3, <2>4, GroupIs
    <2>6. \A j \in 1..m : t[place(k)[j]] = ss[k][j]
      BY <1>3
    <2>7. ss[k] \in Seq(OrderRecord)
      BY <1>4
    <2> HIDE DEF place
    <2>8. [j \in 1..m |-> t[place(k)[j]]] = [j \in 1..m |-> ss[k][j]]
      BY <2>6
    <2>9. ss[k] = [j \in 1..m |-> ss[k][j]]
      BY <2>7
    <2> QED BY <2>5, <2>8, <2>9
  <1> DEFINE H == {i \in 1..Len(t) : \A j \in 1..i - 1 : t[j].no # t[i].no}
             h == [k \in 1..n |-> off[k - 1] + 1]
  <1>7. ASSUME NEW k \in 1..n
        PROVE  h[k] \in H /\ h[k] = off[k - 1] + 1 /\ t[h[k]].no = no(k)
    <2>0. 1 \in 1..Len(ss[k]) /\ h[k] = off[k - 1] + 1
      BY <1>4
    <2>a. off[k - 1] + 1 \in 1..Len(t) /\ t[off[k - 1] + 1] = ss[k][1] /\ ss[k][1].no = no(k)
      BY <1>3, <1>4, <2>0
    <2>1. h[k] \in 1..Len(t) /\ t[h[k]].no = no(k) /\ h[k] = off[k - 1] + 1
      BY <2>0, <2>a
    <2>2. ASSUME NEW q \in 1..h[k] - 1, t[q].no = t[h[k]].no PROVE FALSE
      <3>1. q \in 1..Len(t) /\ q < h[k]
        BY <1>2, <2>1
      <3>2a. PICK l \in 1..n : \E j \in 1..Len(ss[l]) : q = off[l - 1] + j
        BY <1>3, <3>1
      <3>2. PICK j \in 1..Len(ss[l]) : q = off[l - 1] + j
        BY <3>2a
      <3>a. t[q] = ss[l][j] /\ ss[l][j].no = no(l)
        BY <1>3, <1>4, <3>2
      <3>3. l = k
        BY <1>4, <2>1, <2>2, <3>a
      <3> QED BY <1>4, <2>1, <3>1, <3>2, <3>3
    <2> QED BY <2>1, <2>2
  <1>8. ASSUME NEW p \in H PROVE \E k \in 1..n : h[k] = p
    <2>1a. PICK k \in 1..n : \E j \in 1..Len(ss[k]) : p = off[k - 1] + j
      BY <1>3
    <2>1. PICK j \in 1..Len(ss[k]) : p = off[k - 1] + j
      BY <2>1a
    <2>a. 1 \in 1..Len(ss[k]) /\ off[k - 1] \in Nat
      BY <1>4
    <2>b. \A i \in 1..Len(ss[k]) : t[off[k - 1] + i] = ss[k][i] /\ ss[k][i].no = no(k)
      BY <1>3, <1>4
    <2>2. t[p].no = no(k) /\ t[off[k - 1] + 1].no = no(k)
      BY <2>1, <2>a, <2>b
    <2>3. j = 1
      <3> SUFFICES ASSUME j # 1 PROVE FALSE
        OBVIOUS
      <3>1. off[k - 1] + 1 \in 1..p - 1
        BY <1>4, <2>1
      <3> QED BY <2>2, <3>1
    <2> QED BY <2>1, <2>3
  <1>9. Heads(t) = h
    <2>1. Ordered(h, n, H)
      <3>1. h \in [1..n -> H]
        BY <1>7
      <3>2. \A k, l \in 1..n : k < l => h[k] < h[l]
        BY <1>4, <1>5
      <3> HIDE DEF h, H
      <3>3. ToSet(h) = H
        BY <1>8, <3>1 DEF ToSet
      <3> QED BY <3>1, <3>2, <3>3 DEF Ordered
    <2>2. H \in SUBSET (1..Len(t)) /\ DOMAIN t = 1..Len(t)
      BY <1>2
    <2>3. Heads(t) = InOrder(H)
      BY <2>2 DEF Heads
    <2> HIDE DEF H, h
    <2>4. Enumerates(InOrder(H), H)
      BY <1>2, <2>2, InOrderIs
    <2> QED BY <1>2, <2>1, <2>2, <2>3, <2>4, EnumerationsAgree
  <1>10. DOMAIN h = 1..n
    OBVIOUS
  <1>11. ASSUME NEW k \in 1..n PROVE GroupOutcome(Group(t, t[h[k]].no), csv) = ss[k]
    BY <1>4, <1>6, <1>7 DEF GroupOutcome
  <1> HIDE DEF h
  <1>12. Aggregate(t, csv) = FlattenSeq([k \in 1..n |-> GroupOutcome(Group(t, t[h[k]].no), csv)])
    BY <1>9, <1>10 DEF Aggregate
  <1>13. [k \in 1..n |-> GroupOutcome(Group(t, t[h[k]].no), csv)] = [k \in 1..n |-> ss[k]]
    BY <1>11
  <1>14. [k \in 1..n |-> ss[k]] = ss
    BY <1>0 DEF n
  <1> QED BY <1>12, <1>13, <1>14 DEF t

(* The records of an order, as a report has them.                        *)
PlacesOf(records, no) == {i \in 1..Len(records) : records[i].no = no}
GroupsAt(records, no, p, m) ==
    /\ Ordered(p, m, PlacesOf(records, no))
    /\ Group(records, no) = [k \in 1..m |-> records[p[k]]]

LEMMA GroupFacts ==
    ASSUME NEW S, NEW records \in Seq(S), NEW no
    PROVE  \E p : \E m \in Nat : GroupsAt(records, no, p, m)
  <1> DEFINE P == {i \in 1..Len(records) : records[i].no = no}
             p == InOrder(P)
             m == Cardinality(P)
  <1>1. P \in SUBSET (1..Len(records)) /\ Len(records) \in Nat
    OBVIOUS
  <1>2. Enumerates(p, P) /\ m \in Nat
    <2> HIDE DEF P
    <2> QED BY <1>1, InOrderIs
  <1>3. Ordered(p, m, P)
    BY <1>2 DEF Enumerates
  <1> HIDE DEF p, m
  <1>4. Group(records, no) = [k \in 1..m |-> records[p[k]]]
    BY <1>2, <1>3, GroupIs
  <1>5. GroupsAt(records, no, p, m)
    BY <1>3, <1>4 DEF GroupsAt, PlacesOf
  <1> QED BY <1>2, <1>5

LEMMA GroupTyped ==
    ASSUME NEW records \in Seq(OrderRecord), NEW no, NEW i \in 1..Len(records), records[i].no = no
    PROVE  LET group == Group(records, no)
           IN /\ group \in Seq(OrderRecord) /\ group # << >>
              /\ \A k \in 1..Len(group) : group[k].no = no
  <1> DEFINE P == PlacesOf(records, no)
  <1>1. PICK p : \E m \in Nat : GroupsAt(records, no, p, m)
    BY GroupFacts
  <1>2. PICK m \in Nat : GroupsAt(records, no, p, m)
    BY <1>1
  <1>3. p \in [1..m -> P] /\ ToSet(p) = P /\ P = {x \in 1..Len(records) : records[x].no = no}
    BY <1>2 DEF GroupsAt, Ordered, PlacesOf
  <1>4. \A k \in 1..m : p[k] \in 1..Len(records) /\ records[p[k]].no = no
    BY <1>3
  <1>5. \A k \in 1..m : records[p[k]] \in OrderRecord
    BY <1>4
  <1>6. m # 0
    <2>1. i \in ToSet(p)
      BY <1>3
    <2>2. \E k \in 1..m : p[k] = i
      BY <1>3, <2>1 DEF ToSet
    <2> QED BY <2>2
  <1> DEFINE g == [k \in 1..m |-> records[p[k]]]
  <1>7. g \in Seq(OrderRecord) /\ Len(g) = m /\ \A k \in 1..m : g[k].no = no
    BY <1>4, <1>5
  <1>8. g # << >>
    BY <1>6, <1>7
  <1> HIDE DEF g
  <1>9. Group(records, no) = g
    BY <1>2 DEF g, GroupsAt
  <1> QED BY <1>7, <1>8, <1>9

(* What merging makes of the records of an order is a record of it.      *)
LEMMA NumberedTyped ==
    ASSUME NEW ls \in Seq(Line)
    PROVE  /\ Numbered(ls) \in Seq(Line) /\ Len(Numbered(ls)) = Len(ls)
           /\ IsInjective(Field(Numbered(ls), "id"))
           /\ \A k \in 1..Len(ls) : Numbered(ls)[k].row = ls[k].row
  <1> DEFINE new == [k \in DOMAIN ls |-> [ls[k] EXCEPT !.id = k - 1]]
  <1>1. CASE IsInjective(Field(ls, "id"))
    BY <1>1 DEF Numbered
  <1>2. CASE ~IsInjective(Field(ls, "id"))
    <2>1. Numbered(ls) = new
      BY <1>2 DEF Numbered
    <2>2. DOMAIN ls = 1..Len(ls) /\ Len(ls) \in Nat
      OBVIOUS
    <2>3. ASSUME NEW k \in 1..Len(ls)
          PROVE  new[k] \in Line /\ new[k].id = k - 1 /\ new[k].row = ls[k].row
      <3>1. ls[k] \in Line /\ k - 1 \in Nat
        OBVIOUS
      <3> QED BY <2>2, <3>1 DEF Line
    <2>4. new = [k \in 1..Len(ls) |-> new[k]] /\ DOMAIN new = 1..Len(ls)
      BY <2>2
    <2> HIDE DEF new
    <2>5. new \in Seq(Line) /\ Len(new) = Len(ls)
      BY <2>2, <2>3, <2>4
    <2>6. IsInjective(Field(new, "id"))
      <3>1. Field(new, "id") = [k \in 1..Len(ls) |-> new[k].id]
        BY <2>4 DEF Field
      <3>2. \A j, k \in 1..Len(ls) : Field(new, "id")[j] = Field(new, "id")[k] => j = k
        BY <2>2, <2>3, <3>1
      <3> QED BY <3>1, <3>2 DEF IsInjective
    <2> QED BY <2>1, <2>3, <2>5, <2>6
  <1> QED BY <1>1, <1>2

LEMMA AmountTyped ==
    ASSUME NEW m \in Nat, m # 0, NEW v \in [1..m -> Nat]
    PROVE  ResolveAmount(v) \in Nat
  <1> DEFINE D == ToSet(v)
  <1>0. DOMAIN v = 1..m /\ 1 \in 1..m
    OBVIOUS
  <1>1. D \subseteq Nat /\ v[1] \in Nat
    BY <1>0 DEF ToSet
  <1>2. ASSUME Cardinality(D \ {0}) = 1 PROVE (CHOOSE x \in D : x # 0) \in Nat
    <2>1. D \ {0} # {}
      <3>1. Cardinality({}) = 0
        BY FS_EmptySet
      <3> QED BY <1>2, <3>1
    <2>2. \E x \in D : x # 0
      BY <2>1
    <2> HIDE DEF D
    <2> QED BY <1>1, <2>2
  <1>3. SumOf(v) \in Nat
    <2>1. IsFiniteSet(1..m)
      BY FS_Interval
    <2>2. SumFunctionOnSet(v, 1..m) \in Nat
      BY <2>1, SumNonnegative
    <2> QED BY <1>0, <2>2 DEF SumOf, SumFunction
  <1> HIDE DEF D
  <1> QED BY <1>1, <1>2, <1>3 DEF ResolveAmount, D

LEMMA StatedTyped ==
    ASSUME NEW group \in Seq(OrderRecord)
    PROVE  FirstStated(group) \in Stated \cup {Unstated}
  <1> DEFINE said == {i \in DOMAIN group : group[i].stated # Unstated}
             first == CHOOSE i \in said : \A j \in said : i <= j
  <1>1. said \in SUBSET Nat /\ said \subseteq DOMAIN group /\ DOMAIN group = 1..Len(group)
    OBVIOUS
  <1>2. ASSUME said # {} PROVE group[first].stated \in Stated \cup {Unstated}
    <2> HIDE DEF said
    <2>1. \E i \in said : \A j \in said : i <= j
      BY <1>1, <1>2, LeastNumber
    <2>2. first \in said
      BY <2>1
    <2> HIDE DEF first
    <2>3. group[first] \in OrderRecord
      BY <1>1, <2>2
    <2> QED BY <2>3 DEF OrderRecord
  <1> QED BY <1>2 DEF FirstStated

LEMMA MergeGroupTyped ==
    ASSUME NEW group \in Seq(OrderRecord), group # << >>
    PROVE  /\ MergeGroup(group) \in OrderRecord
           /\ MergeGroup(group).no = group[1].no
           /\ MergeGroup(group).strict = group[1].strict
           /\ MergeGroup(group).lines = Numbered(FlattenSeq(Field(group, "lines")))
  <1>0. Len(group) \in Nat /\ Len(group) # 0 /\ DOMAIN group = 1..Len(group)
    OBVIOUS
  <1>1. \A k \in 1..Len(group) : group[k] \in OrderRecord
    OBVIOUS
  <1>2. Field(group, "lines") \in Seq(Seq(Line))
    <2>1. Field(group, "lines") = [k \in 1..Len(group) |-> group[k].lines]
      BY <1>0 DEF Field
    <2>2. \A k \in 1..Len(group) : group[k].lines \in Seq(Line)
      BY <1>1 DEF OrderRecord
    <2>3. Field(group, "lines") \in [1..Len(group) -> Seq(Line)]
      BY <2>1, <2>2
    <2> QED BY <1>0, <2>3
  <1>3. Numbered(FlattenSeq(Field(group, "lines"))) \in Seq(Line)
    BY <1>2, FlattenPlaces, NumberedTyped
  <1>4. ResolveAmount(Field(group, "gross")) \in Nat
    <2>1. Field(group, "gross") = [k \in 1..Len(group) |-> group[k].gross]
      BY <1>0 DEF Field
    <2>2. \A k \in 1..Len(group) : group[k].gross \in Nat
      BY <1>1 DEF OrderRecord
    <2>3. Field(group, "gross") \in [1..Len(group) -> Nat]
      BY <2>1, <2>2
    <2> QED BY <1>0, <2>3, AmountTyped
  <1>5. FirstStated(group) \in Stated \cup {Unstated}
    BY StatedTyped
  <1>6. group[1] \in OrderRecord
    BY <1>0, <1>1
  <1> QED BY <1>3, <1>4, <1>5, <1>6 DEF MergeGroup, OrderRecord

(* The records of an order, merged or not, are not merged once more.     *)
LEMMA OutcomeStands ==
    ASSUME NEW csv, NEW no, NEW group \in Seq(OrderRecord), group # << >>,
           \A k \in 1..Len(group) : group[k].no = no
    PROVE  LET new == GroupOutcome(group, csv)
           IN /\ new \in Seq(OrderRecord) /\ new # << >> /\ ~Mergeable(new, csv)
              /\ \A k \in 1..Len(new) : new[k].no = no
  <1>1. CASE Mergeable(group, csv)
    <2> DEFINE r == MergeGroup(group)
    <2>1. GroupOutcome(group, csv) = <<r>>
      BY <1>1 DEF GroupOutcome
    <2>2. 1 \in 1..Len(group)
      OBVIOUS
    <2>3. r \in OrderRecord /\ r.no = no
      BY <2>2, MergeGroupTyped
    <2> HIDE DEF r
    <2>4. Len(<<r>>) = 1 /\ <<r>>[1] = r /\ <<r>> \in Seq(OrderRecord) /\ <<r>> # << >>
      BY <2>3
    <2>5. ~Mergeable(<<r>>, csv)
      BY <2>4 DEF Mergeable
    <2> QED BY <2>1, <2>3, <2>4, <2>5
  <1>2. CASE ~Mergeable(group, csv)
    <2>1. GroupOutcome(group, csv) = group
      BY <1>2 DEF GroupOutcome
    <2> QED BY <1>2, <2>1
  <1> QED BY <1>1, <1>2

(* aggregate_order_records puts blocks of records end to end, one for each*)
(* order.                                                                *)
Arranged(ss, records, csv) ==
    /\ Blocks(ss, csv)
    /\ Aggregate(records, csv) = FlattenSeq(ss)
    /\ \A k \in 1..Len(ss) :
          /\ ss[k] = GroupOutcome(Group(records, ss[k][1].no), csv)
          /\ \E i \in 1..Len(records) : records[i].no = ss[k][1].no

LEMMA AggregateArranges ==
    ASSUME NEW records \in Seq(OrderRecord), NEW csv
    PROVE  \E ss : Arranged(ss, records, csv)
  <1> DEFINE H == {i \in 1..Len(records) : \A j \in 1..i - 1 : records[j].no # records[i].no}
             n == Cardinality(H)
             h == InOrder(H)
             ss == [k \in 1..n |-> GroupOutcome(Group(records, records[h[k]].no), csv)]
  <1>1. H \in SUBSET (1..Len(records)) /\ Len(records) \in Nat /\ DOMAIN records = 1..Len(records)
    OBVIOUS
  <1>2. n \in Nat /\ Ordered(h, n, H)
    <2> HIDE DEF H
    <2>1. Enumerates(h, H) /\ n \in Nat
      BY <1>1, InOrderIs
    <2> QED BY <2>1 DEF Enumerates
  <1>3. Heads(records) = h
    BY <1>1 DEF Heads
  <1>4. \A i \in H : i \in 1..Len(records) /\ \A j \in 1..i - 1 : records[j].no # records[i].no
    OBVIOUS
  <1> HIDE DEF H, n, h
  <1>5. h \in [1..n -> H] /\ \A j, k \in 1..n : j < k => h[j] < h[k]
    BY <1>2 DEF Ordered
  <1>6. Aggregate(records, csv) = FlattenSeq(ss)
    BY <1>3, <1>5 DEF Aggregate
  <1>7. ASSUME NEW k \in 1..n
        PROVE  /\ ss[k] = GroupOutcome(Group(records, records[h[k]].no), csv)
               /\ h[k] \in 1..Len(records)
               /\ ss[k] \in Seq(OrderRecord) /\ ss[k] # << >> /\ ~Mergeable(ss[k], csv)
               /\ \A j \in 1..Len(ss[k]) : ss[k][j].no = records[h[k]].no
               /\ ss[k][1].no = records[h[k]].no
    <2> DEFINE no == records[h[k]].no
               group == Group(records, no)
    <2>1. ss[k] = GroupOutcome(group, csv)
      OBVIOUS
    <2>2. h[k] \in H
      BY <1>5
    <2>3. h[k] \in 1..Len(records) /\ records[h[k]].no = no
      BY <1>4, <2>2
    <2>a. ss[k] = GroupOutcome(Group(records, no), csv)
      BY <2>1
    <2> HIDE DEF no
    <2>4. group \in Seq(OrderRecord) /\ group # << >> /\ \A j \in 1..Len(group) : group[j].no = no
      BY <2>3, GroupTyped
    <2> HIDE DEF group, ss
    <2> DEFINE new == GroupOutcome(group, csv)
    <2>b. /\ new \in Seq(OrderRecord) /\ new # << >> /\ ~Mergeable(new, csv)
          /\ \A j \in 1..Len(new) : new[j].no = no
      BY <2>4, OutcomeStands
    <2>c. ss[k] = new
      BY <2>a DEF group
    <2> HIDE DEF new
    <2>5. /\ ss[k] \in Seq(OrderRecord) /\ ss[k] # << >> /\ ~Mergeable(ss[k], csv)
          /\ \A j \in 1..Len(ss[k]) : ss[k][j].no = no
      BY <2>b, <2>c
    <2>6. 1 \in 1..Len(ss[k])
      BY <2>5
    <2>7. ss[k][1].no = no
      BY <2>5, <2>6
    <2> QED BY <2>1, <2>3, <2>5, <2>7 DEF no, group
  <1>8. ASSUME NEW k \in 1..n, NEW l \in 1..n, k < l PROVE ss[k][1].no # ss[l][1].no
    <2>1. h[k] < h[l] /\ h[k] \in H /\ h[l] \in H
      BY <1>5, <1>8
    <2>a. h[k] \in 1..Len(records) /\ h[l] \in 1..Len(records)
      BY <1>4, <2>1
    <2>2. h[k] \in 1..h[l] - 1
      BY <1>1, <2>1, <2>a
    <2>3. records[h[k]].no # records[h[l]].no
      BY <1>4, <2>1, <2>2
    <2> HIDE DEF ss
    <2> QED BY <1>7, <2>3
  <1>9. ss \in Seq(Seq(OrderRecord)) /\ Len(ss) = n
    <2>1. ss = [k \in 1..n |-> ss[k]]
      OBVIOUS
    <2> HIDE DEF ss
    <2>2. ss \in [1..n -> Seq(OrderRecord)]
      BY <1>7, <2>1
    <2> QED BY <1>2, <2>2
  <1> HIDE DEF ss
  <1>10. ASSUME NEW k \in 1..n, NEW l \in 1..n, ss[k][1].no = ss[l][1].no PROVE k = l
    <2>1. ~(k < l) /\ ~(l < k)
      BY <1>8, <1>10
    <2> QED BY <1>2, <2>1
  <1>11. Blocks(ss, csv)
    BY <1>7, <1>9, <1>10 DEF Blocks
  <1>12. Arranged(ss, records, csv)
    BY <1>6, <1>7, <1>9, <1>11 DEF Arranged
  <1> QED BY <1>12

-----------------------------------------------------------------------------
(* A row of a batch is a record with one line, which knows its row.      *)
LEMMA RecordsAre ==
    ASSUME NEW b \in Batches
    PROVE  /\ Records(b) \in Seq(OrderRecord) /\ Len(Records(b)) = Len(b.rows)
           /\ DOMAIN b.rows = 1..Len(b.rows) /\ Len(b.rows) \in Nat
           /\ \A i \in 1..Len(b.rows) :
                 /\ Records(b)[i].no = b.rows[i].no /\ Records(b)[i].strict = b.rows[i].strict
                 /\ Len(Records(b)[i].lines) = 1 /\ Records(b)[i].lines[1] \in Line
                 /\ Records(b)[i].lines[1].row = i
  <1>1. PICK n \in 0..MaxReport : b \in [csv : BOOLEAN, rows : [1..n -> Cells]]
    BY DEF Batches
  <1>2. b.rows \in [1..n -> Cells] /\ n \in Nat /\ MaxReport \in Nat
    BY <1>1, OrderMergeAssumption DEF OrderMergeAssumption
  <1>3. DOMAIN b.rows = 1..n /\ Len(b.rows) = n
    BY <1>2
  <1>4. ASSUME NEW i \in 1..n
        PROVE  /\ RecordOf(b.rows[i], i) \in OrderRecord
               /\ RecordOf(b.rows[i], i).no = b.rows[i].no
               /\ RecordOf(b.rows[i], i).strict = b.rows[i].strict
               /\ Len(RecordOf(b.rows[i], i).lines) = 1
               /\ RecordOf(b.rows[i], i).lines[1] \in Line
               /\ RecordOf(b.rows[i], i).lines[1].row = i
    <2> DEFINE c == b.rows[i]
               one == [id |-> c.id, row |-> i, amount |-> c.gross]
    <2>1. c \in Cells /\ i \in 1..MaxReport
      BY <1>1, <1>2
    <2> HIDE DEF c
    <2>2. one \in Line /\ one.row = i
      BY <2>1, OrderMergeAssumption DEF Cells, Line, OrderMergeAssumption
    <2>3. RecordOf(c, i) = [no |-> c.no, strict |-> c.strict, stated |-> c.stated,
                            gross |-> c.gross, lines |-> <<one>>]
      BY DEF RecordOf
    <2> HIDE DEF one
    <2>4. <<one>> \in Seq(Line) /\ Len(<<one>>) = 1 /\ <<one>>[1] = one
      BY <2>2
    <2>5. c.gross \in Nat
      BY <2>1, OrderMergeAssumption DEF Cells, OrderMergeAssumption
    <2>6. RecordOf(c, i) \in OrderRecord
      BY <2>1, <2>3, <2>4, <2>5 DEF Cells, OrderRecord
    <2> QED BY <2>2, <2>3, <2>4, <2>6 DEF c
  <1>5. Records(b) = [i \in 1..n |-> RecordOf(b.rows[i], i)]
    BY <1>3 DEF Records
  <1>6. Records(b) \in [1..n -> OrderRecord]
    BY <1>4, <1>5
  <1>7. Records(b) \in Seq(OrderRecord) /\ Len(Records(b)) = n
    BY <1>2, <1>6
  <1> QED BY <1>2, <1>3, <1>4, <1>5, <1>7

(* The rows of an order, in the lines ls.                                *)
WholeLines(ls, rows) ==
    /\ IsInjective(Field(ls, "id"))
    /\ ToSet(Field(ls, "row")) = rows
    /\ \A k \in 1..Len(ls) - 1 : ls[k].row < ls[k + 1].row

LEMMA SingleLine ==
    ASSUME NEW ls, Len(ls) = 1, ls \in Seq(Line)
    PROVE  WholeLines(ls, {ls[1].row})
  <1>1. DOMAIN ls = 1..1
    OBVIOUS
  <1>2. Field(ls, "id") = [k \in 1..1 |-> ls[k].id]
    BY <1>1 DEF Field
  <1>3. Field(ls, "row") = [k \in 1..1 |-> ls[k].row]
    BY <1>1 DEF Field
  <1>4. IsInjective(Field(ls, "id"))
    BY <1>2 DEF IsInjective
  <1>5. ToSet(Field(ls, "row")) = {ls[1].row}
    BY <1>3 DEF ToSet
  <1> QED BY <1>4, <1>5 DEF WholeLines

(* The lines of a merged record are those of its rows, in their order.   *)
LEMMA MergedLines ==
    ASSUME NEW b \in Batches, NEW no, NEW m \in Nat, NEW p, GroupsAt(Records(b), no, p, m)
    PROVE  WholeLines(Numbered(FlattenSeq(Field(Group(Records(b), no), "lines"))),
                      PlacesOf(Records(b), no))
  <1> DEFINE r == Records(b)
             P == PlacesOf(r, no)
             ss == [k \in 1..m |-> r[p[k]].lines]
             ls == FlattenSeq(ss)
             new == Numbered(ls)
  <1>1. p \in [1..m -> P] /\ ToSet(p) = P /\ \A j, k \in 1..m : j < k => p[j] < p[k]
    BY DEF GroupsAt, Ordered
  <1>2. Field(Group(r, no), "lines") = ss
    BY DEF GroupsAt, Field
  <1>3. ASSUME NEW k \in 1..m
        PROVE  /\ p[k] \in Nat /\ ss[k] \in Seq(Line) /\ Len(ss[k]) = 1
               /\ ss[k][1] \in Line /\ ss[k][1].row = p[k]
    <2>1. p[k] \in P
      BY <1>1
    <2>2. p[k] \in 1..Len(b.rows)
      BY <2>1, RecordsAre DEF PlacesOf
    <2>3. r[p[k]] \in OrderRecord
      BY <2>2, RecordsAre
    <2>4. r[p[k]].lines \in Seq(Line)
      BY <2>3 DEF OrderRecord
    <2> QED BY <2>2, <2>4, RecordsAre
  <1>4. ss \in Seq(Seq(Line)) /\ Len(ss) = m
    <2>1. ss \in [1..m -> Seq(Line)]
      BY <1>3
    <2> QED BY <2>1
  <1> HIDE DEF ss
  <1>5. ls = [k \in 1..m |-> ss[k][1]]
    BY <1>3, <1>4, FlattenSingles
  <1> HIDE DEF ls
  <1>6. ls \in Seq(Line) /\ Len(ls) = m
    <2>1. ls \in [1..m -> Line]
      BY <1>3, <1>5
    <2> QED BY <2>1
  <1>7. /\ new \in Seq(Line) /\ Len(new) = m /\ IsInjective(Field(new, "id"))
        /\ \A k \in 1..m : new[k].row = ls[k].row
    BY <1>6, NumberedTyped
  <1> HIDE DEF new
  <1>8. \A k \in 1..m : new[k].row = p[k]
    BY <1>3, <1>5, <1>7
  <1>9. Field(new, "row") = p
    <2>1. DOMAIN new = 1..m
      BY <1>7
    <2>2. Field(new, "row") = [k \in 1..m |-> new[k].row]
      BY <2>1 DEF Field
    <2> QED BY <1>1, <1>8, <2>2
  <1>10. ASSUME NEW k \in 1..Len(new) - 1 PROVE new[k].row < new[k + 1].row
    <2>1. k \in 1..m /\ k + 1 \in 1..m /\ k < k + 1
      BY <1>7
    <2> QED BY <1>1, <1>8, <2>1
  <1>11. WholeLines(new, P)
    BY <1>1, <1>7, <1>9, <1>10 DEF WholeLines
  <1> QED BY <1>2, <1>11 DEF new, ls

(* Rows of a report that tell different things of their order are refused,*)
(* so that each order has one record.                                    *)
LEMMA UndividedBlocks ==
    ASSUME NEW ss, NEW csv, csv = TRUE, Blocks(ss, csv), ~Duplicates(FlattenSeq(ss)),
           NEW k \in 1..Len(ss)
    PROVE  Len(ss[k]) = 1
  <1> DEFINE t == FlattenSeq(ss)
             n == Len(ss)
  <1>0. ss \in Seq(Seq(OrderRecord))
    BY DEF Blocks
  <1>1. PICK off : Placed(ss, n, t, off)
    BY <1>0, FlattenPlaces
  <1>2. t \in Seq(OrderRecord) /\ DOMAIN t = 1..Len(t) /\ n \in Nat
    BY <1>0, FlattenPlaces
  <1>a. ss[k] \in Seq(OrderRecord)
    BY <1>0
  <1>3. /\ ss[k] \in Seq(OrderRecord) /\ ss[k] # << >> /\ ~Mergeable(ss[k], csv)
        /\ \A j \in 1..Len(ss[k]) : ss[k][j].no = ss[k][1].no
    BY <1>a DEF Blocks
  <1>4. \A j \in 1..Len(ss[k]) : off[k - 1] + j \in 1..Len(t) /\ t[off[k - 1] + j] = ss[k][j]
    BY <1>1 DEF Placed
  <1>5. ~Duplicates(t)
    OBVIOUS
  <1> HIDE DEF t
  <1> DEFINE m == Len(ss[k])
  <1> SUFFICES ASSUME m # 1 PROVE FALSE
    OBVIOUS
  <1>b. Len(ss[k]) \in Nat /\ DOMAIN ss[k] = 1..Len(ss[k]) /\ Len(ss[k]) # 0
    BY <1>3
  <1>6. Len(ss[k]) >= 2 /\ DOMAIN ss[k] = 1..Len(ss[k]) /\ 1 \in 1..Len(ss[k])
    <2>1. m \in Nat /\ m # 0
      BY <1>b
    <2> HIDE DEF m
    <2>2. m >= 2 /\ 1 \in 1..m
      BY <2>1
    <2> QED BY <1>b, <2>2 DEF m
  <1>7. PICK i \in 1..Len(ss[k]) : ss[k][i].strict # ss[k][1].strict
    <2>1. ~(\A i \in DOMAIN ss[k] : ss[k][i].strict = ss[k][1].strict)
      BY <1>3, <1>6 DEF Mergeable
    <2> QED BY <1>6, <2>1
  <1>8. ss[k][i] \in OrderRecord /\ ss[k][1] \in OrderRecord
    BY <1>3, <1>6
  <1>9. \A r \in OrderRecord : Hash(r).strict = r.strict
    BY DEF Hash, OrderRecord
  <1>10. Hash(ss[k][i]) # Hash(ss[k][1]) /\ ss[k][i].no = ss[k][1].no
    BY <1>3, <1>7, <1>8, <1>9
  <1>11. \E x, y \in DOMAIN t : t[x] = ss[k][i] /\ t[y] = ss[k][1]
    BY <1>2, <1>4, <1>6
  <1>12. Duplicates(t)
    BY <1>10, <1>11 DEF Duplicates
  <1> QED BY <1>5, <1>12

(* The record of an order of a report that was accepted.                 *)
LEMMA RecordIsWhole ==
    ASSUME NEW b \in Batches, b.csv = TRUE, NEW no, NEW i \in 1..Len(b.rows), b.rows[i].no = no,
           NEW new, new = GroupOutcome(Group(Records(b), no), b.csv), Len(new) = 1
    PROVE  /\ WholeLines(new[1].lines, PlacesOf(Records(b), no))
           /\ \A x \in PlacesOf(Records(b), no) : b.rows[x].strict = new[1].strict
  <1> DEFINE r == Records(b)
             P == PlacesOf(r, no)
             group == Group(r, no)
  <1>1. r \in Seq(OrderRecord) /\ Len(r) = Len(b.rows) /\ r[i].no = no
    BY RecordsAre
  <1>2. group \in Seq(OrderRecord) /\ group # << >>
    <2> HIDE DEF r
    <2> QED BY <1>1, GroupTyped
  <1>3. PICK p : \E m \in Nat : GroupsAt(r, no, p, m)
    <2> HIDE DEF r
    <2> QED BY <1>1, GroupFacts
  <1>4. PICK m \in Nat : GroupsAt(r, no, p, m)
    BY <1>3
  <1>5. p \in [1..m -> P] /\ ToSet(p) = P /\ group = [k \in 1..m |-> r[p[k]]]
    BY <1>4 DEF GroupsAt, Ordered
  <1>6. \A x \in P : x \in 1..Len(b.rows) /\ r[x].strict = b.rows[x].strict
    BY <1>1, RecordsAre DEF PlacesOf
  <1>7. WholeLines(Numbered(FlattenSeq(Field(group, "lines"))), P)
    BY <1>4, MergedLines
  <1>8. \A x \in P : \E k \in 1..m : p[k] = x
    BY <1>5 DEF ToSet
  <1>a. new = GroupOutcome(group, b.csv)
    OBVIOUS
  <1>b. \A x \in P : /\ Len(r[x].lines) = 1 /\ r[x].lines[1] \in Line /\ r[x].lines[1].row = x
                     /\ r[x] \in OrderRecord
    BY <1>1, <1>6, RecordsAre
  <1> HIDE DEF r, P, group
  <1>9. CASE Mergeable(group, b.csv)
    <2>1. new[1] = MergeGroup(group)
      BY <1>9, <1>a DEF GroupOutcome
    <2>2. new[1].strict = group[1].strict
      BY <1>2, <2>1, MergeGroupTyped
    <2>3. new[1].lines = Numbered(FlattenSeq(Field(group, "lines")))
      BY <1>2, <2>1, MergeGroupTyped
    <2>4. ASSUME NEW x \in P PROVE b.rows[x].strict = new[1].strict
      <3>1. PICK k \in 1..m : p[k] = x
        BY <1>8
      <3>2. group[k] = r[x] /\ k \in DOMAIN group
        BY <1>5, <3>1
      <3>3. group[k].strict = group[1].strict
        BY <1>9, <3>2 DEF Mergeable
      <3> QED BY <1>6, <2>2, <3>2, <3>3
    <2> QED BY <1>7, <2>3, <2>4 DEF P, r
  <1>10. CASE ~Mergeable(group, b.csv)
    <2>1. new = group
      BY <1>10, <1>a DEF GroupOutcome
    <2>2. m = 1
      <3>1. DOMAIN group = 1..m /\ Len(group) = 1 /\ DOMAIN group = 1..Len(group)
        BY <1>2, <1>5, <2>1
      <3>2. 1..m = 1..1
        BY <3>1
      <3>3. 1 \in 1..m /\ \A x \in 1..m : x = 1
        BY <3>2
      <3>4. m \in 1..m
        BY <3>3
      <3> QED BY <3>3, <3>4
    <2>3. p[1] \in P /\ new[1] = r[p[1]]
      BY <1>5, <2>1, <2>2
    <2>4. P = {p[1]}
      BY <1>8, <2>2, <2>3
    <2>5. r[p[1]].lines \in Seq(Line)
      BY <1>b, <2>3 DEF OrderRecord
    <2>6. WholeLines(new[1].lines, P)
      BY <1>b, <2>3, <2>4, <2>5, SingleLine
    <2>7. \A x \in P : b.rows[x].strict = new[1].strict
      BY <1>6, <2>3, <2>4
    <2> QED BY <2>6, <2>7 DEF P, r
  <1> QED BY <1>9, <1>10

(* What AcceptedOrdersAreWhole says of the records t made of a batch.    *)
TakenWhole(b, t) ==
    \A i \in DOMAIN t :
       LET rows == {n \in DOMAIN b.rows : b.rows[n].no = t[i].no}
           ls == t[i].lines
       IN /\ IsInjective(Field(ls, "id"))
          /\ b.csv => /\ ToSet(Field(ls, "row")) = rows
                      /\ \A k \in 1..Len(ls) - 1 : ls[k].row < ls[k + 1].row
                      /\ \A n \in rows : b.rows[n].strict = t[i].strict
                      /\ \A j \in DOMAIN t : t[j].no = t[i].no => j = i

LEMMA RowsArePlaces ==
    ASSUME NEW b \in Batches, NEW no
    PROVE  {n \in DOMAIN b.rows : b.rows[n].no = no} = PlacesOf(Records(b), no)
  <1>1. /\ DOMAIN b.rows = 1..Len(b.rows) /\ Len(Records(b)) = Len(b.rows)
        /\ \A i \in 1..Len(b.rows) : Records(b)[i].no = b.rows[i].no
    BY RecordsAre
  <1> QED BY <1>1 DEF PlacesOf

LEMMA ReportIsWhole ==
    ASSUME NEW b \in Batches, b.csv = TRUE, NEW ss, Arranged(ss, Records(b), b.csv),
           ~Duplicates(FlattenSeq(ss))
    PROVE  TakenWhole(b, FlattenSeq(ss))
  <1> DEFINE t == [k \in 1..Len(ss) |-> ss[k][1]]
  <1>1. ss \in Seq(Seq(OrderRecord)) /\ Blocks(ss, b.csv)
    BY DEF Arranged, Blocks
  <1>2. \A k \in 1..Len(ss) : Len(ss[k]) = 1
    BY <1>1, UndividedBlocks
  <1>3. FlattenSeq(ss) = t
    BY <1>1, <1>2, FlattenSingles
  <1>4. DOMAIN t = 1..Len(ss) /\ \A k \in 1..Len(ss) : t[k] = ss[k][1]
    OBVIOUS
  <1> HIDE DEF t
  <1>5. ASSUME NEW i \in 1..Len(ss)
        PROVE  /\ WholeLines(t[i].lines, PlacesOf(Records(b), t[i].no))
               /\ \A x \in PlacesOf(Records(b), t[i].no) : b.rows[x].strict = t[i].strict
    <2> DEFINE no == ss[i][1].no
               new == ss[i]
    <2>1. new = GroupOutcome(Group(Records(b), no), b.csv) /\ Len(new) = 1
      BY <1>2 DEF Arranged
    <2>2. PICK x \in 1..Len(Records(b)) : Records(b)[x].no = no
      BY DEF Arranged
    <2>3. x \in 1..Len(b.rows) /\ b.rows[x].no = no
      BY <2>2, RecordsAre
    <2>4. t[i] = new[1] /\ t[i].no = no
      BY <1>4
    <2> HIDE DEF no, new
    <2>5. /\ WholeLines(new[1].lines, PlacesOf(Records(b), no))
          /\ \A y \in PlacesOf(Records(b), no) : b.rows[y].strict = new[1].strict
      BY <2>1, <2>3, RecordIsWhole
    <2> QED BY <2>4, <2>5
  <1>6. ASSUME NEW i \in 1..Len(ss), NEW j \in 1..Len(ss), t[j].no = t[i].no PROVE j = i
    <2>1. \A k, l \in 1..Len(ss) : ss[k][1].no = ss[l][1].no => k = l
      BY <1>1 DEF Blocks
    <2>2. t[i] = ss[i][1] /\ t[j] = ss[j][1]
      BY <1>4
    <2>3. ss[j][1].no = ss[i][1].no
      BY <1>6, <2>2
    <2> QED BY <2>1, <2>3
  <1>7. ASSUME NEW i \in 1..Len(ss)
        PROVE  {n \in DOMAIN b.rows : b.rows[n].no = t[i].no} = PlacesOf(Records(b), t[i].no)
    BY RowsArePlaces
  <1>8. TakenWhole(b, t)
    BY <1>4, <1>5, <1>6, <1>7 DEF TakenWhole, WholeLines
  <1> QED BY <1>3, <1>8

LEMMA OthersAreWhole ==
    ASSUME NEW b \in Batches, b.csv = FALSE, NEW ss, Arranged(ss, Records(b), b.csv)
    PROVE  TakenWhole(b, FlattenSeq(ss))
  <1> DEFINE t == FlattenSeq(ss)
             r == Records(b)
  <1>0. ss \in Seq(Seq(OrderRecord))
    BY DEF Arranged, Blocks
  <1>1. PICK off : Placed(ss, Len(ss), t, off)
    BY <1>0, FlattenPlaces
  <1>2. t \in Seq(OrderRecord) /\ DOMAIN t = 1..Len(t)
    BY <1>0, FlattenPlaces
  <1>3. ASSUME NEW i \in 1..Len(t) PROVE IsInjective(Field(t[i].lines, "id"))
    <2>1. PICK k \in 1..Len(ss) : \E j \in 1..Len(ss[k]) : i = off[k - 1] + j
      BY <1>1 DEF Placed
    <2>2. PICK j \in 1..Len(ss[k]) : i = off[k - 1] + j
      BY <2>1
    <2>3. t[i] = ss[k][j]
      BY <1>1, <2>2 DEF Placed
    <2> DEFINE no == ss[k][1].no
               group == Group(r, no)
    <2>4. ss[k] = GroupOutcome(group, b.csv)
      BY DEF Arranged
    <2>5. ss[k] = group
      BY <2>4 DEF GroupOutcome, Mergeable
    <2>6. r \in Seq(OrderRecord)
      BY RecordsAre
    <2> HIDE DEF no, r
    <2>7. PICK p : \E m \in Nat : GroupsAt(r, no, p, m)
      BY <2>6, GroupFacts
    <2>8. PICK m \in Nat : GroupsAt(r, no, p, m)
      BY <2>7
    <2>9. p \in [1..m -> PlacesOf(r, no)] /\ group = [x \in 1..m |-> r[p[x]]]
      BY <2>8 DEF GroupsAt, Ordered
    <2>10. j \in 1..m /\ t[i] = r[p[j]]
      <3>1. ss[k] \in Seq(OrderRecord)
        BY <1>0
      <3>2. j \in DOMAIN ss[k]
        BY <3>1
      <3> HIDE DEF group
      <3>3. j \in 1..m
        BY <2>5, <2>9, <3>2
      <3> QED BY <2>3, <2>5, <2>9, <3>3
    <2>11. p[j] \in 1..Len(r)
      BY <2>9, <2>10 DEF PlacesOf
    <2>12. r[p[j]] \in OrderRecord /\ Len(r[p[j]].lines) = 1
      BY <2>6, <2>11, RecordsAre DEF r
    <2>13. r[p[j]].lines \in Seq(Line)
      BY <2>12 DEF OrderRecord
    <2> QED BY <2>10, <2>12, <2>13, SingleLine DEF WholeLines
  <1> HIDE DEF t
  <1> QED BY <1>2, <1>3 DEF TakenWhole, t

-----------------------------------------------------------------------------
(* merged is what aggregate_order_records makes of the batch.            *)
MergeInv ==
    /\ MergeTypeOK
    /\ mergeStep # "aggregate" => merged = Aggregate(Records(sheet), sheet.csv)
    /\ mergeStep = "accepted" => ~Duplicates(merged)

LEMMA AggregateTyped ==
    ASSUME NEW records \in Seq(OrderRecord), NEW csv
    PROVE  Aggregate(records, csv) \in Seq(OrderRecord)
  <1>1. PICK ss : Arranged(ss, records, csv)
    BY AggregateArranges
  <1>2. ss \in Seq(Seq(OrderRecord)) /\ Aggregate(records, csv) = FlattenSeq(ss)
    BY <1>1 DEF Arranged, Blocks
  <1> QED BY <1>2, FlattenPlaces

LEMMA MergeInvInit == MergeInit => MergeInv
  BY DEF MergeInit, MergeInv, MergeTypeOK

LEMMA MergeInvStep == MergeInv /\ [MergeNext]_mergeVars => MergeInv'
  <1> SUFFICES ASSUME MergeInv, [MergeNext]_mergeVars PROVE MergeInv'
    OBVIOUS
  <1>1. CASE AggregateBatch
    <2>1. sheet' = sheet /\ mergeStep' = "check" /\ merged' = Aggregate(Records(sheet), sheet.csv)
      BY <1>1 DEF AggregateBatch
    <2>2. Records(sheet) \in Seq(OrderRecord)
      BY RecordsAre DEF MergeInv, MergeTypeOK
    <2>3. merged' \in Seq(OrderRecord)
      BY <2>1, <2>2, AggregateTyped
    <2> QED BY <2>1, <2>3 DEF MergeInv, MergeTypeOK
  <1>2. CASE CheckBatch
    BY <1>2 DEF CheckBatch, MergeInv, MergeTypeOK
  <1>3. CASE UNCHANGED mergeVars
    BY <1>3 DEF mergeVars, MergeInv, MergeTypeOK
  <1> QED BY <1>1, <1>2, <1>3 DEF MergeNext

LEMMA MergeInvMeans == MergeInv => MergeTypeOK /\ AcceptedOrdersAreWhole
  <1> SUFFICES ASSUME MergeInv, mergeStep = "accepted"
               PROVE  Aggregate(merged, sheet.csv) = merged /\ TakenWhole(sheet, merged)
    BY DEF MergeInv, AcceptedOrdersAreWhole, TakenWhole
  <1>1. sheet \in Batches /\ Records(sheet) \in Seq(OrderRecord)
    BY RecordsAre DEF MergeInv, MergeTypeOK
  <1>2. PICK ss : Arranged(ss, Records(sheet), sheet.csv)
    BY <1>1, AggregateArranges
  <1>3. Blocks(ss, sheet.csv) /\ merged = FlattenSeq(ss) /\ ~Duplicates(merged)
    BY <1>2 DEF Arranged, MergeInv
  <1>4. Aggregate(merged, sheet.csv) = merged
    BY <1>3, AggregateStands
  <1>5. sheet.csv = TRUE \/ sheet.csv = FALSE
    BY <1>1 DEF Batches
  <1>6. TakenWhole(sheet, merged)
    BY <1>1, <1>2, <1>3, <1>5, ReportIsWhole, OthersAreWhole
  <1> QED BY <1>4, <1>6

(* The records of an accepted batch hold all its lines, and say one thing*)
(* of each order; merging them again changes nothing (aggregate_order_   *)
(* records, ingest_orders).                                              *)
THEOREM OrdersAreTakenWhole == MergeSpec => [](MergeTypeOK /\ AcceptedOrdersAreWhole)
  BY MergeInvInit, MergeInvStep, MergeInvMeans, PTL DEF MergeSpec

-----------------------------------------------------------------------------
(* The whole way.  External orders keep to their types: the snapshots are  *)
(* finitely many, so that there is a latest and a nearest one.             *)

(* What a call rebuilds is a sku.                                          *)
TypeInv ==
    /\ TypeOK /\ IsFiniteSet(snaps)
    /\ \A c \in Clients : pc[c] \in {"rebuild", "replace"} => head[c] \in ESkus

(* Of finitely many one is not below any other.                            *)
LEMMA Undominated ==
    ASSUME NEW S, IsFiniteSet(S), S # {}, NEW R, \A p \in S : <<p, p>> \notin R,
           \A p, q, r \in S : <<p, q>> \in R /\ <<q, r>> \in R => <<p, r>> \in R
    PROVE  \E p \in S : \A q \in S : <<p, q>> \notin R
  <1> DEFINE Above(p) == {q \in S : <<p, q>> \in R}
             B == {Above(p) : p \in S}
  <1>1. B \subseteq SUBSET S /\ B # {}
    <2>1. PICK p \in S : TRUE
      OBVIOUS
    <2>2. Above(p) \in B
      OBVIOUS
    <2>3. ASSUME NEW U \in B PROVE U \subseteq S
      <3>1. PICK q \in S : U = Above(q)
        OBVIOUS
      <3> QED BY <3>1
    <2> HIDE DEF B, Above
    <2> QED BY <2>2, <2>3
  <1>2. PICK T \in B : \A U \in B : U \subseteq T => U = T
    <2> HIDE DEF B
    <2> QED BY <1>1, MinimalSubset
  <1>3. PICK p \in S : T = Above(p)
    BY <1>2
  <1>4. ASSUME NEW q \in S, <<p, q>> \in R PROVE FALSE
    <2>1. Above(q) \subseteq Above(p) /\ q \in Above(p) /\ q \notin Above(q)
      BY <1>4
    <2>2. Above(q) \in B
      OBVIOUS
    <2> HIDE DEF B, Above
    <2> QED BY <1>2, <1>3, <2>1, <2>2
  <1> QED BY <1>4

LEMMA AsOfTyped ==
    ASSUME TypeInv, NEW sku, NEW at
    PROVE  AsOf(sku, at) \in Prices \cup {None}
  <1> DEFINE known == {p \in snaps : p.sku = sku /\ p.from <= at}
             R == {pq \in known \X known : \/ pq[1].from < pq[2].from
                                           \/ pq[1].from = pq[2].from /\ pq[1].id < pq[2].id}
  <1>1. known \subseteq Prices /\ known \subseteq snaps /\ IsFiniteSet(snaps)
    BY DEF TypeInv, TypeOK
  <1>2. \A p \in known : p.from \in Nat /\ p.id \in Nat
    BY <1>1, OrdersAssumption DEF OrdersAssumption, Price
  <1>3. \A p, q \in known : <<p, q>> \in R <=> \/ p.from < q.from
                                               \/ p.from = q.from /\ p.id < q.id
    OBVIOUS
  <1>4. AsOf(sku, at) = IF known = {} THEN None
                        ELSE CHOOSE p \in known : \A q \in known :
                                 q.from < p.from \/ (q.from = p.from /\ q.id <= p.id)
    BY DEF AsOf
  <1> HIDE DEF known, R
  <1>5. ASSUME known # {}
        PROVE  \E p \in known : \A q \in known : q.from < p.from \/ (q.from = p.from /\ q.id <= p.id)
    <2>1. IsFiniteSet(known)
      BY <1>1, FS_Subset
    <2>2. \A p \in known : <<p, p>> \notin R
      BY <1>2, <1>3
    <2>3. \A p, q, r \in known : <<p, q>> \in R /\ <<q, r>> \in R => <<p, r>> \in R
      BY <1>2, <1>3
    <2>4. PICK p \in known : \A q \in known : <<p, q>> \notin R
      BY <1>5, <2>1, <2>2, <2>3, Undominated
    <2>5. ASSUME NEW q \in known PROVE q.from < p.from \/ (q.from = p.from /\ q.id <= p.id)
      <3>1. ~(p.from < q.from \/ (p.from = q.from /\ p.id < q.id))
        BY <1>3, <2>4
      <3> QED BY <1>2, <3>1
    <2> QED BY <2>5
  <1> QED BY <1>1, <1>4, <1>5

LEMMA BackfillTyped ==
    ASSUME TypeInv, NEW sku, NEW at \in Nat, NEW mode
    PROVE  BackfillOf(sku, at, mode) \in Prices \cup {None}
  <1> DEFINE all == {p \in snaps : p.sku = sku}
             later == {p \in all : p.from > at}
             earlier(p, q) == p.from < q.from \/ (p.from = q.from /\ p.id <= q.id)
             before(p, q) == p.from < q.from \/ (p.from = q.from /\ p.id < q.id)
  <1>1. all \subseteq Prices /\ all \subseteq snaps /\ IsFiniteSet(snaps) /\ later \subseteq all
    BY DEF TypeInv, TypeOK
  <1>2. \A p \in all : p.from \in Nat /\ p.id \in Nat
    BY <1>1, OrdersAssumption DEF OrdersAssumption, Price
  <1>3. BackfillOf(sku, at, mode) =
            IF mode = "next_after_sale"
            THEN IF later = {} THEN None ELSE CHOOSE p \in later : \A q \in later : earlier(p, q)
            ELSE IF all = {} THEN None
                 ELSE CHOOSE p \in all : \A q \in all :
                          \/ Gap(p, at) < Gap(q, at)
                          \/ Gap(p, at) = Gap(q, at) /\ earlier(p, q)
    BY DEF BackfillOf
  <1>4. IsFiniteSet(all) /\ IsFiniteSet(later)
    BY <1>1, FS_Subset
  <1> HIDE DEF all, later
  <1>5. ASSUME later # {} PROVE \E p \in later : \A q \in later : earlier(p, q)
    <2> DEFINE R == {pq \in later \X later : before(pq[2], pq[1])}
    <2>1. \A p, q \in later : <<p, q>> \in R <=> before(q, p)
      OBVIOUS
    <2>2. \A p \in later : p.from \in Nat /\ p.id \in Nat
      BY <1>1, <1>2
    <2> HIDE DEF R
    <2>3. \A p \in later : <<p, p>> \notin R
      BY <2>1, <2>2
    <2>4. \A p, q, r \in later : <<p, q>> \in R /\ <<q, r>> \in R => <<p, r>> \in R
      BY <2>1, <2>2
    <2>5. PICK p \in later : \A q \in later : <<p, q>> \notin R
      BY <1>4, <1>5, <2>3, <2>4, Undominated
    <2>6. ASSUME NEW q \in later PROVE earlier(p, q)
      <3>1. ~before(q, p)
        BY <2>1, <2>5
      <3> QED BY <2>2, <3>1
    <2> QED BY <2>6
  <1>6. ASSUME all # {}
        PROVE  \E p \in all : \A q \in all : \/ Gap(p, at) < Gap(q, at)
                                             \/ Gap(p, at) = Gap(q, at) /\ earlier(p, q)
    <2> DEFINE nearer(p, q) == Gap(p, at) < Gap(q, at) \/ (Gap(p, at) = Gap(q, at) /\ before(p, q))
               R == {pq \in all \X all : nearer(pq[2], pq[1])}
    <2>1. \A p, q \in all : <<p, q>> \in R <=> nearer(q, p)
      OBVIOUS
    <2>2. \A p \in all : p.from \in Nat /\ p.id \in Nat /\ Gap(p, at) \in Nat
      BY <1>2 DEF Gap
    <2> HIDE DEF R
    <2>3. \A p \in all : <<p, p>> \notin R
      BY <2>1, <2>2
    <2>4. \A p, q, r \in all : <<p, q>> \in R /\ <<q, r>> \in R => <<p, r>> \in R
      BY <2>1, <2>2
    <2>5. PICK p \in all : \A q \in all : <<p, q>> \notin R
      BY <1>4, <1>6, <2>3, <2>4, Undominated
    <2>6. ASSUME NEW q \in all
          PROVE  Gap(p, at) < Gap(q, at) \/ (Gap(p, at) = Gap(q, at) /\ earlier(p, q))
      <3>1. ~nearer(q, p)
        BY <2>1, <2>5
      <3> QED BY <2>2, <3>1
    <2> HIDE DEF earlier
    <2> QED BY <2>6
  <1>7. ASSUME later # {} PROVE (CHOOSE p \in later : \A q \in later : earlier(p, q)) \in Prices
    BY <1>1, <1>5, <1>7
  <1>8. ASSUME all # {}
        PROVE  (CHOOSE p \in all : \A q \in all : \/ Gap(p, at) < Gap(q, at)
                                                  \/ Gap(p, at) = Gap(q, at) /\ earlier(p, q)) \in Prices
    <2> HIDE DEF earlier
    <2> QED BY <1>1, <1>6, <1>8
  <1> QED BY <1>3, <1>7, <1>8

LEMMA InsertedTyped ==
    ASSUME TypeInv, NEW item \in Item, NEW old \in LineRow \cup {NoLine}, NEW at
    PROVE  Inserted(item, old, at) \in LineRow
  <1>1. mapping[item.esku] \in Skus \cup {None} /\ item.esku \in ESkus
    BY DEF TypeInv, TypeOK, Item
  <1>2. AsOf(mapping[item.esku], at) \in Prices \cup {None}
    BY AsOfTyped
  <1>3. Inherits(old, item.esku) => old.status \in Statuses /\ old.cost \in Prices \cup {None}
    BY DEF Inherits, LineRow, Statuses
  <1> QED BY <1>1, <1>2, <1>3 DEF Inserted, LineRow, Item, Statuses

LEMMA LinesTyped ==
    ASSUME TypeInv, NEW e \in Events, NEW old \in [LineIds -> LineRow \cup {NoLine}]
    PROVE  LinesOf(e, old) \in [LineIds -> LineRow \cup {NoLine}]
  <1>1. e.items \in [DOMAIN e.items -> Item]
    BY OrdersAssumption DEF OrdersAssumption, IsEvent
  <1>2. \A l \in DOMAIN e.items : e.items[l] \in Item
    BY <1>1
  <1>3. \A l \in LineIds : l \in DOMAIN e.items => Inserted(e.items[l], old[l], e.created) \in LineRow
    BY <1>2, InsertedTyped
  <1> QED BY <1>3 DEF LinesOf

LEMMA RestTyped == NoLines \in [LineIds -> LineRow \cup {NoLine}]
                   /\ NothingLoaded \in [Orders -> OrderRow \cup {NoOrder}]
  BY DEF NoLines, NothingLoaded

LEMMA TypeInvInit == Init => TypeInv
  BY RestTyped, FS_EmptySet DEF Init, TypeInv, TypeOK, NothingLoaded

(* The calls of a step that does not write.                                *)
CallTypes ==
    /\ pc \in [Clients -> {"idle", "look", "lines", "write", "rebuild", "replace"}]
    /\ batch \in [Clients -> SUBSET Events]
    /\ head \in [Clients -> Events \cup ESkus \cup {None}]
    /\ \A c \in Clients : pc[c] \in {"lines", "write"} => head[c] \in Events
    /\ \A c \in Clients : pc[c] \in {"rebuild", "replace"} => head[c] \in ESkus
    /\ loaded \in [Clients -> [Orders -> OrderRow \cup {NoOrder}]]
    /\ seenLines \in [Clients -> [LineIds -> LineRow \cup {NoLine}]]

BookTypes ==
    /\ serial \in BOOLEAN
    /\ orders \in [Orders -> OrderRow \cup {NoOrder}]
    /\ lines \in [Orders -> [LineIds -> LineRow \cup {NoLine}]]
    /\ mapping \in [ESkus -> Skus \cup {None}]
    /\ snaps \subseteq Prices /\ IsFiniteSet(snaps)
    /\ DOMAIN daily = ESkus
    /\ delivered \subseteq Events

LEMMA TypesAre == TypeInv <=> BookTypes /\ CallTypes
  BY DEF TypeInv, TypeOK, BookTypes, CallTypes

LEMMA TypesAreThen == BookTypes' /\ CallTypes' => TypeInv'
  BY DEF TypeInv, TypeOK, BookTypes, CallTypes

LEMMA FinishTyped ==
    ASSUME CallTypes, NEW c \in Clients, Finish(c)
    PROVE  CallTypes'
  <1>1. /\ pc' = [pc EXCEPT ![c] = "idle"] /\ batch' = [batch EXCEPT ![c] = {}]
        /\ head' = [head EXCEPT ![c] = None] /\ loaded' = [loaded EXCEPT ![c] = NothingLoaded]
        /\ seenLines' = [seenLines EXCEPT ![c] = NoLines]
    BY DEF Finish
  <1>2. /\ pc' \in [Clients -> {"idle", "look", "lines", "write", "rebuild", "replace"}]
        /\ batch' \in [Clients -> SUBSET Events]
        /\ head' \in [Clients -> Events \cup ESkus \cup {None}]
        /\ loaded' \in [Clients -> [Orders -> OrderRow \cup {NoOrder}]]
        /\ seenLines' \in [Clients -> [LineIds -> LineRow \cup {NoLine}]]
    BY <1>1, RestTyped DEF CallTypes
  <1>3. pc'[c] = "idle" /\ \A d \in Clients \ {c} : pc'[d] = pc[d] /\ head'[d] = head[d]
    BY <1>1 DEF CallTypes
  <1> QED BY <1>2, <1>3 DEF CallTypes

LEMMA BooksKept == BookTypes /\ UNCHANGED <<serial, bookVars>> => BookTypes'
  BY DEF BookTypes, bookVars

LEMMA IngestTyped ==
    ASSUME Inv, TypeInv, NEW c \in Clients,
           StartIngest(c) \/ LookAndWrite(c) \/ LookAndSkip(c) \/ LoadLines(c)
    PROVE  TypeInv'
  <1>0. BookTypes /\ CallTypes
    BY TypesAre
  <1>1. CASE StartIngest(c)
    <2>1. PICK b \in SUBSET (IF serial THEN Events ELSE Racing) : batch' = [batch EXCEPT ![c] = b]
      BY <1>1 DEF StartIngest
    <2>2. b \subseteq Events
      BY <2>1, OrdersAssumption DEF OrdersAssumption
    <2>3. /\ pc' = [pc EXCEPT ![c] = "look"] /\ UNCHANGED <<serial, bookVars>>
          /\ head' = head /\ loaded' = loaded /\ seenLines' = seenLines
      BY <1>1 DEF StartIngest
    <2>4. CallTypes'
      BY <1>0, <2>1, <2>2, <2>3 DEF CallTypes
    <2> QED BY <1>0, <2>3, <2>4, BooksKept, TypesAreThen
  <1>2. CASE LookAndWrite(c)
    <2>1. PICK e \in batch[c] :
            /\ head' = [head EXCEPT ![c] = e]
            /\ loaded' = [loaded EXCEPT ![c][e.order] = orders[e.order]]
            /\ pc' = [pc EXCEPT ![c] = IF orders[e.order] = NoOrder THEN "write" ELSE "lines"]
            /\ UNCHANGED <<serial, bookVars, batch, seenLines, plan>>
      BY <1>2 DEF LookAndWrite
    <2>2. e \in Events /\ e.order \in Orders
      BY <1>0, EventTypes DEF CallTypes
    <2>3. loaded' \in [Clients -> [Orders -> OrderRow \cup {NoOrder}]]
      BY <1>0, <2>1, <2>2 DEF CallTypes, BookTypes
    <2>4. CallTypes'
      BY <1>0, <2>1, <2>2, <2>3 DEF CallTypes
    <2>5. UNCHANGED <<serial, bookVars>>
      BY <2>1
    <2> QED BY <1>0, <2>4, <2>5, BooksKept, TypesAreThen
  <1>3. CASE LookAndSkip(c)
    <2>1. PICK e \in batch[c] :
            /\ delivered' = delivered \cup {e}
            /\ IF batch[c] = {e} THEN Finish(c)
               ELSE /\ batch' = [batch EXCEPT ![c] = @ \ {e}]
                    /\ loaded' = [loaded EXCEPT ![c][e.order] = orders[e.order]]
                    /\ UNCHANGED <<pc, head, seenLines, plan>>
            /\ UNCHANGED <<serial, orders, lines, mapping, snaps, daily>>
      BY <1>3 DEF LookAndSkip
    <2>2. e \in Events /\ e.order \in Orders
      BY <1>0, EventTypes DEF CallTypes
    <2>3. CallTypes'
      <3>1. CASE batch[c] = {e}
        BY <1>0, <2>1, <3>1, FinishTyped
      <3>2. CASE batch[c] # {e}
        <4>1. /\ batch' = [batch EXCEPT ![c] = @ \ {e}]
              /\ loaded' = [loaded EXCEPT ![c][e.order] = orders[e.order]]
              /\ UNCHANGED <<pc, head, seenLines, plan>>
          BY <2>1, <3>2, Zenon
        <4>2. loaded' \in [Clients -> [Orders -> OrderRow \cup {NoOrder}]]
          <5>1. /\ loaded \in [Clients -> [Orders -> OrderRow \cup {NoOrder}]]
                /\ orders[e.order] \in OrderRow \cup {NoOrder}
            BY <1>0, <2>2 DEF CallTypes, BookTypes
          <5> QED BY <2>2, <4>1, <5>1
        <4>3. batch[c] \in SUBSET Events /\ batch \in [Clients -> SUBSET Events]
          BY <1>0 DEF CallTypes
        <4>4. batch' \in [Clients -> SUBSET Events]
          BY <4>1, <4>3
        <4> QED BY <1>0, <4>1, <4>2, <4>4 DEF CallTypes
      <3> QED BY <3>1, <3>2
    <2>4. BookTypes'
      BY <1>0, <2>1, <2>2 DEF BookTypes
    <2> QED BY <2>3, <2>4, TypesAreThen
  <1>4. CASE LoadLines(c)
    <2>1. /\ pc[c] = "lines" /\ seenLines' = [seenLines EXCEPT ![c] = lines[head[c].order]]
          /\ pc' = [pc EXCEPT ![c] = "write"] /\ UNCHANGED <<serial, bookVars>>
          /\ batch' = batch /\ head' = head /\ loaded' = loaded
      BY <1>4 DEF LoadLines
    <2>2. head[c].order \in Orders
      BY <1>0, <2>1, EventTypes DEF CallTypes
    <2>3. lines[head[c].order] \in [LineIds -> LineRow \cup {NoLine}]
      BY <1>0, <2>2 DEF BookTypes
    <2>4. CallTypes'
      BY <1>0, <2>1, <2>3 DEF CallTypes
    <2> QED BY <1>0, <2>1, <2>4, BooksKept, TypesAreThen
  <1> QED BY <1>1, <1>2, <1>3, <1>4

LEMMA WriteTyped ==
    ASSUME Inv, Inv', TypeInv, NEW c \in Clients, WriteBatch(c)
    PROVE  TypeInv'
  <1>0. BookTypes /\ CallTypes
    BY TypesAre
  <1>1. /\ pc[c] = "write" /\ Finish(c) /\ serial' = serial /\ delivered' = delivered \cup batch[c]
        /\ IsFunctionOf(orders', Orders) /\ IsFunctionOf(lines', Orders)
        /\ \A e \in Written(c) : lines'[e.order] = LinesOf(e, OldLines(c, e.order))
        /\ \A o \in Orders : ~IsWritten(c, o) => lines'[o] = lines[o]
    BY WriteIs
  <1>2. DOMAIN daily' = ESkus /\ mapping' = mapping /\ snaps' = snaps
    BY DEF WriteBatch
  <1>3. orders' \in [Orders -> OrderRow \cup {NoOrder}]
    BY <1>1 DEF Inv, PayloadInv, IsFunctionOf
  <1>4. ASSUME NEW o \in Orders PROVE lines'[o] \in [LineIds -> LineRow \cup {NoLine}]
    <2>1. CASE IsWritten(c, o)
      <3>1. PICK e \in Written(c) : e.order = o
        BY <2>1 DEF IsWritten
      <3>2. e \in Events
        BY <1>1, WrittenIs
      <3>3. OldLines(c, o) \in [LineIds -> LineRow \cup {NoLine}]
        BY <1>0 DEF OldLines, BookTypes, CallTypes
      <3>4. LinesOf(e, OldLines(c, o)) \in [LineIds -> LineRow \cup {NoLine}]
        BY <3>2, <3>3, LinesTyped
      <3> QED BY <1>1, <3>1, <3>4
    <2>2. CASE ~IsWritten(c, o)
      BY <1>0, <1>1, <2>2 DEF BookTypes
    <2> QED BY <2>1, <2>2
  <1>5. lines' \in [Orders -> [LineIds -> LineRow \cup {NoLine}]]
    BY <1>1, <1>4 DEF IsFunctionOf
  <1>6. BookTypes'
    <2>1. batch[c] \subseteq Events
      BY <1>0 DEF CallTypes
    <2> QED BY <1>0, <1>1, <1>2, <1>3, <1>5, <2>1 DEF BookTypes
  <1> QED BY <1>0, <1>1, <1>6, FinishTyped, TypesAreThen

LEMMA OthersTyped ==
    ASSUME Inv, TypeInv, NEW c \in Clients,
           Abandon(c) \/ SetProductMapping(c) \/ RebuildSales(c) \/ ReplaceSales(c)
    PROVE  TypeInv'
  <1>0. BookTypes /\ CallTypes
    BY TypesAre
  <1>1. CASE Abandon(c)
    BY <1>0, <1>1, FinishTyped, BooksKept, TypesAreThen DEF Abandon
  <1>2. CASE SetProductMapping(c)
    <2>1. PICK s \in ESkus, k \in Skus \cup {None} :
            mapping' = [mapping EXCEPT ![s] = k] /\ head' = [head EXCEPT ![c] = s]
      BY <1>2 DEF SetProductMapping
    <2>2. /\ pc' = [pc EXCEPT ![c] = "rebuild"]
          /\ UNCHANGED <<serial, orders, lines, snaps, daily, delivered, batch, loaded, seenLines>>
      BY <1>2 DEF SetProductMapping
    <2>3. CallTypes'
      BY <1>0, <2>1, <2>2 DEF CallTypes
    <2>4. BookTypes'
      BY <1>0, <2>1, <2>2 DEF BookTypes
    <2> QED BY <2>3, <2>4, TypesAreThen
  <1>3. CASE RebuildSales(c)
    <2>1. /\ pc[c] = "rebuild" /\ pc' = [pc EXCEPT ![c] = "replace"]
          /\ UNCHANGED <<serial, bookVars>> /\ UNCHANGED <<batch, head, loaded, seenLines>>
      BY <1>3 DEF RebuildSales
    <2>2. CallTypes'
      BY <1>0, <2>1 DEF CallTypes
    <2> QED BY <1>0, <2>1, <2>2, BooksKept, TypesAreThen
  <1>4. CASE ReplaceSales(c)
    <2>1. /\ Finish(c) /\ DOMAIN daily' = DOMAIN daily
          /\ UNCHANGED <<serial, orders, lines, mapping, snaps, delivered>>
      BY <1>4 DEF ReplaceSales
    <2>2. BookTypes'
      BY <1>0, <2>1 DEF BookTypes
    <2> QED BY <1>0, <2>1, <2>2, FinishTyped, TypesAreThen
  <1> QED BY <1>1, <1>2, <1>3, <1>4

LEMMA CostsTyped ==
    ASSUME Inv, TypeInv, RecordCost \/ ImportCosts \/ BackfillCosts
    PROVE  TypeInv'
  <1>0. BookTypes /\ CallTypes
    BY TypesAre
  <1>1. CASE RecordCost
    <2>1. PICK p \in Prices : snaps' = snaps \cup {p}
      BY <1>1 DEF RecordCost
    <2>2. UNCHANGED <<serial, orders, lines, mapping, daily, delivered>> /\ UNCHANGED callVars
      BY <1>1 DEF RecordCost
    <2>3. IsFiniteSet(snaps')
      BY <1>0, <2>1, FS_AddElement DEF BookTypes
    <2>4. BookTypes' /\ CallTypes'
      BY <1>0, <2>1, <2>2, <2>3 DEF BookTypes, CallTypes, callVars
    <2> QED BY <2>4, TypesAreThen
  <1>2. CASE ImportCosts
    <2>1. PICK file \in SUBSET Prices, own \in BOOLEAN :
            IsFiniteSet(file) /\ snaps' = snaps \cup Named(file, own)
      BY <1>2 DEF ImportCosts
    <2>2. UNCHANGED <<serial, orders, lines, mapping, daily, delivered>> /\ UNCHANGED callVars
      BY <1>2 DEF ImportCosts
    <2>3. Named(file, own) \subseteq file
      BY DEF Named
    <2>4. IsFiniteSet(snaps')
      BY <1>0, <2>1, <2>3, FS_Subset, FS_Union DEF BookTypes
    <2>5. BookTypes' /\ CallTypes'
      BY <1>0, <2>1, <2>2, <2>3, <2>4 DEF BookTypes, CallTypes, callVars
    <2> QED BY <2>5, TypesAreThen
  <1>3. CASE BackfillCosts
    <2>1. PICK scope \in SUBSET Skus, mode \in {"next_after_sale", "nearest"} :
            lines' = [o \in Orders |-> [l \in LineIds |->
                IF ToBackfill(lines[o][l], scope)
                   /\ BackfillOf(lines[o][l].sku, orders[o].created, mode) # None
                THEN [lines[o][l] EXCEPT !.status = "backfilled",
                          !.cost = BackfillOf(lines[o][l].sku, orders[o].created, mode)]
                ELSE lines[o][l]]]
      BY <1>3, Zenon DEF BackfillCosts
    <2>2. UNCHANGED <<serial, orders, mapping, snaps, daily, delivered>> /\ UNCHANGED callVars
      BY <1>3 DEF BackfillCosts
    <2>3. ASSUME NEW o \in Orders, NEW l \in LineIds PROVE lines'[o][l] \in LineRow \cup {NoLine}
      <3>1. lines[o][l] \in LineRow \cup {NoLine}
        BY <1>0 DEF BookTypes
      <3>2. CASE ToBackfill(lines[o][l], scope)
                 /\ BackfillOf(lines[o][l].sku, orders[o].created, mode) # None
        <4> DEFINE hit == BackfillOf(lines[o][l].sku, orders[o].created, mode)
        <4>1. lines[o][l] \in LineRow
          BY <3>1, <3>2 DEF ToBackfill
        <4>2. orders[o] # NoOrder
          <5>1. lines[o] # NoLines
            BY <3>2 DEF ToBackfill, NoLines
          <5> QED BY <5>1, RowsExist DEF Inv, PayloadInv
        <4>3. orders[o].created \in Nat
          BY <1>0, <4>2 DEF BookTypes, OrderRow
        <4>4. hit \in Prices \cup {None}
          BY <4>3, BackfillTyped
        <4>5. lines'[o][l] = [lines[o][l] EXCEPT !.status = "backfilled", !.cost = hit]
          BY <2>1, <3>2
        <4> HIDE DEF hit
        <4> QED BY <4>1, <4>4, <4>5 DEF LineRow, Statuses
      <3>3. CASE ~(ToBackfill(lines[o][l], scope)
                   /\ BackfillOf(lines[o][l].sku, orders[o].created, mode) # None)
        BY <2>1, <3>1, <3>3
      <3> QED BY <3>2, <3>3
    <2>4. lines' \in [Orders -> [LineIds -> LineRow \cup {NoLine}]]
      <3>1. /\ lines' = [o \in Orders |-> lines'[o]]
            /\ \A o \in Orders : lines'[o] = [l \in LineIds |-> lines'[o][l]]
        BY <2>1
      <3> QED BY <2>3, <3>1
    <2>5. BookTypes' /\ CallTypes'
      BY <1>0, <2>2, <2>4 DEF BookTypes, CallTypes, callVars
    <2> QED BY <2>5, TypesAreThen
  <1> QED BY <1>1, <1>2, <1>3

LEMMA TypeInvStep == Inv /\ Inv' /\ TypeInv /\ [Next]_vars => TypeInv'
  <1> SUFFICES ASSUME Inv, Inv', TypeInv, [Next]_vars PROVE TypeInv'
    OBVIOUS
  <1>1. CASE UNCHANGED vars
    BY <1>1 DEF vars, bookVars, callVars, TypeInv, TypeOK
  <1>2. CASE Next
    BY <1>2, IngestTyped, WriteTyped, OthersTyped, CostsTyped DEF Next
  <1> QED BY <1>1, <1>2

-----------------------------------------------------------------------------
(* Replenishment.  Powers of ten, and decimals of so many digits.        *)

(* What the definition of TenTo says of its values up to n.              *)
Tens(n, f) == \A k \in 0..n : f[k] = IF k = 0 THEN 1 ELSE 10 * f[k - 1]

LEMMA TensAgree ==
    ASSUME NEW n \in Nat, NEW f, Tens(n, f), NEW m \in Nat, NEW h, Tens(m, h), m <= n
    PROVE  f[m] = h[m]
  <1> DEFINE T == {k \in Nat : k <= m => f[k] = h[k]}
  <1>1. T \in SUBSET Nat
    OBVIOUS
  <1>2. 0 \in T
    BY DEF Tens
  <1>3. ASSUME NEW k \in T PROVE k + 1 \in T
    <2>1. k \in Nat /\ (k <= m => f[k] = h[k]) /\ (k + 1) - 1 = k
      OBVIOUS
    <2>2. CASE k + 1 <= m
      <3>1. k + 1 \in 0..n /\ k + 1 \in 0..m /\ k + 1 # 0
        BY <2>1, <2>2
      <3> HIDE DEF T
      <3>2. f[k + 1] = 10 * f[(k + 1) - 1] /\ h[k + 1] = 10 * h[(k + 1) - 1]
        BY <3>1 DEF Tens
      <3>3. f[k + 1] = h[k + 1]
        BY <2>1, <2>2, <3>2
      <3> QED BY <2>1, <3>3 DEF T
    <2> QED BY <2>1, <2>2
  <1>4. 0..m \subseteq T
    <2> HIDE DEF T
    <2> QED BY <1>1, <1>2, <1>3, EachUpTo
  <1> QED BY <1>4

LEMMA TensExist ==
    ASSUME NEW n \in Nat
    PROVE  \E f : Tens(n, f)
  <1> DEFINE T == {k \in Nat : \E f : Tens(k, f)}
  <1>1. T \in SUBSET Nat
    OBVIOUS
  <1>2. 0 \in T
    <2>1. Tens(0, [k \in 0..0 |-> 1])
      BY DEF Tens
    <2> QED BY <2>1
  <1>3. ASSUME NEW k \in T PROVE k + 1 \in T
    <2>1. k \in Nat
      OBVIOUS
    <2>2. PICK f : Tens(k, f)
      OBVIOUS
    <2> DEFINE g == [j \in 0..k + 1 |-> IF j = k + 1 THEN 10 * f[k] ELSE f[j]]
    <2>3. g[k + 1] = 10 * f[k] /\ \A j \in 0..k : g[j] = f[j]
      BY <2>1
    <2> HIDE DEF g
    <2>4. ASSUME NEW j \in 0..k + 1 PROVE g[j] = IF j = 0 THEN 1 ELSE 10 * g[j - 1]
      <3>1. CASE j = k + 1
        <4>1. j # 0 /\ j - 1 = k /\ k \in 0..k
          BY <2>1, <3>1
        <4> QED BY <2>3, <3>1, <4>1
      <3>2. CASE j # k + 1
        <4>1. j \in 0..k /\ (j # 0 => j - 1 \in 0..k)
          BY <2>1, <3>2
        <4>2. f[j] = IF j = 0 THEN 1 ELSE 10 * f[j - 1]
          BY <2>2, <4>1 DEF Tens
        <4> QED BY <2>3, <4>1, <4>2
      <3> QED BY <3>1, <3>2
    <2>5. Tens(k + 1, g)
      BY <2>4 DEF Tens
    <2> QED BY <2>1, <2>5
  <1>4. 0..n \subseteq T
    <2> HIDE DEF T
    <2> QED BY <1>1, <1>2, <1>3, EachUpTo
  <1> QED BY <1>4

LEMMA TenToEquation ==
    ASSUME NEW k \in Nat
    PROVE  TenTo[k] = IF k = 0 THEN 1 ELSE 10 * TenTo[k - 1]
  <1> DEFINE IsTenTo(f) == f = [i \in Nat |-> IF i = 0 THEN 1 ELSE 10 * f[i - 1]]
             table(i) == CHOOSE f : Tens(i, f)
             g == [i \in Nat |-> table(i)[i]]
  <1>1. TenTo = CHOOSE f : IsTenTo(f)
    BY DEF TenTo
  <1>2. \A i \in Nat : Tens(i, table(i))
    BY TensExist
  <1>3. ASSUME NEW i \in Nat PROVE g[i] = IF i = 0 THEN 1 ELSE 10 * g[i - 1]
    <2>1. Tens(i, table(i)) /\ g[i] = table(i)[i]
      BY <1>2
    <2>2. CASE i = 0
      <3> HIDE DEF table, g
      <3> QED BY <2>1, <2>2 DEF Tens
    <2>3. CASE i # 0
      <3>1. i - 1 \in Nat /\ i - 1 <= i /\ i \in 0..i
        BY <2>3
      <3>2. Tens(i - 1, table(i - 1)) /\ g[i - 1] = table(i - 1)[i - 1]
        BY <1>2, <3>1
      <3> HIDE DEF table, g
      <3>3. table(i)[i - 1] = table(i - 1)[i - 1]
        BY <2>1, <3>1, <3>2, TensAgree
      <3>4. table(i)[i] = 10 * table(i)[i - 1]
        BY <2>1, <2>3, <3>1 DEF Tens
      <3> QED BY <2>1, <2>3, <3>2, <3>3, <3>4
    <2> QED BY <2>2, <2>3
  <1>4. IsTenTo(g)
    <2>1. g = [i \in Nat |-> g[i]]
      OBVIOUS
    <2> HIDE DEF g
    <2> QED BY <1>3, <2>1
  <1> HIDE DEF g
  <1>5. IsTenTo(TenTo)
    <2> HIDE DEF IsTenTo
    <2> QED BY <1>1, <1>4
  <1> QED BY <1>5

LEMMA TenToPositive ==
    ASSUME NEW k \in Nat
    PROVE  TenTo[k] \in Nat /\ TenTo[k] >= 1
  <1> DEFINE T == {i \in Nat : TenTo[i] \in Nat /\ TenTo[i] >= 1}
  <1>1. T \in SUBSET Nat
    OBVIOUS
  <1>2. 0 \in T
    BY TenToEquation
  <1>3. ASSUME NEW i \in T PROVE i + 1 \in T
    <2>1. i \in Nat /\ TenTo[i] \in Nat /\ TenTo[i] >= 1
      OBVIOUS
    <2>2. i + 1 \in Nat /\ i + 1 # 0 /\ (i + 1) - 1 = i
      BY <2>1
    <2> HIDE DEF T
    <2>3. TenTo[i + 1] = 10 * TenTo[i]
      BY <2>2, TenToEquation
    <2>4. TenTo[i + 1] \in Nat /\ TenTo[i + 1] >= 1
      BY <2>1, <2>3
    <2> QED BY <2>2, <2>4 DEF T
  <1>4. 0..k \subseteq T
    <2> HIDE DEF T
    <2> QED BY <1>1, <1>2, <1>3, EachUpTo
  <1> QED BY <1>4

LEMMA TenToGrows ==
    ASSUME NEW k \in Nat, NEW j \in 0..k
    PROVE  TenTo[j] <= TenTo[k]
  <1> DEFINE T == {i \in Nat : TenTo[j] <= TenTo[j + i]}
  <1>0. j \in Nat /\ TenTo[j] \in Nat
    BY TenToPositive
  <1>1. T \in SUBSET Nat
    OBVIOUS
  <1>2. 0 \in T
    BY <1>0
  <1>3. ASSUME NEW i \in T PROVE i + 1 \in T
    <2>1. i \in Nat /\ TenTo[j] <= TenTo[j + i] /\ TenTo[j + i] \in Nat
      BY <1>0, TenToPositive
    <2>2. j + (i + 1) \in Nat /\ j + (i + 1) # 0 /\ (j + (i + 1)) - 1 = j + i
      BY <1>0, <2>1
    <2> HIDE DEF T
    <2>3. TenTo[j + (i + 1)] = 10 * TenTo[j + i]
      BY <2>2, TenToEquation
    <2>4. TenTo[j] <= TenTo[j + (i + 1)]
      BY <1>0, <2>1, <2>3
    <2> QED BY <2>1, <2>4 DEF T
  <1>4. 0..k - j \subseteq T
    <2>1. k - j \in Nat
      OBVIOUS
    <2> HIDE DEF T
    <2> QED BY <1>1, <1>2, <1>3, <2>1, EachUpTo
  <1>5. k - j \in T /\ j + (k - j) = k
    BY <1>4
  <1> QED BY <1>5

(* Products and quotients of numbers.                                    *)
LEMMA TimesGrows ==
    ASSUME NEW a \in Int, NEW b \in Int, a <= b, NEW c \in Nat
    PROVE  a * c <= b * c
  OBVIOUS

LEMMA TimesGone ==
    ASSUME NEW a \in Int, NEW b \in Int, NEW c \in Nat, c >= 1, a * c <= b * c
    PROVE  a <= b
  <1> SUFFICES ASSUME b + 1 <= a PROVE FALSE
    OBVIOUS
  <1>1. (b + 1) * c <= a * c
    BY TimesGrows
  <1>2. (b + 1) * c = b * c + c /\ b * c \in Int /\ a * c \in Int
    OBVIOUS
  <1> QED BY <1>1, <1>2

LEMMA Quotient ==
    ASSUME NEW n \in Int, NEW d \in Nat, d >= 1
    PROVE  /\ n \div d \in Int /\ n % d \in 0..d - 1
           /\ n = d * (n \div d) + (n % d)
           /\ \A b \in Int : b * d <= n <=> b <= n \div d
  <1> DEFINE q == n \div d
             r == n % d
  <1>1. q \in Int /\ r \in 0..d - 1 /\ n = d * q + r
    OBVIOUS
  <1> HIDE DEF q, r
  <1>2. ASSUME NEW b \in Int PROVE b * d <= n <=> b <= q
    <2>1. ASSUME b <= q PROVE b * d <= n
      <3>1. b * d <= q * d /\ b * d \in Int /\ q * d \in Int /\ q * d = d * q
        BY <1>1, <2>1, TimesGrows
      <3> QED BY <1>1, <3>1
    <2>2. ASSUME b * d <= n PROVE b <= q
      <3> SUFFICES ASSUME q + 1 <= b PROVE FALSE
        BY <1>1
      <3>1. (q + 1) * d <= b * d
        BY <1>1, TimesGrows
      <3>2. (q + 1) * d = d * q + d /\ b * d \in Int /\ d * q \in Int
        BY <1>1
      <3> QED BY <1>1, <2>2, <3>1, <3>2
    <2> QED BY <2>1, <2>2
  <1>3. /\ q \in Int /\ r \in 0..d - 1 /\ n = d * q + r
        /\ \A b \in Int : b * d <= n <=> b <= q
    BY <1>1, <1>2
  <1> QED BY ONLY <1>3 DEF q, r

LEMMA HalfEvenNear ==
    ASSUME NEW n \in Nat, NEW d \in Nat, d >= 1
    PROVE  /\ HalfEven(n, d) \in Nat
           /\ 2 * (HalfEven(n, d) * d) <= 2 * n + d
           /\ 2 * n <= 2 * (HalfEven(n, d) * d) + d
           /\ \A b \in Nat : b * d <= n => b <= HalfEven(n, d)
  <1> DEFINE q == n \div d
             r == n % d
             h == HalfEven(n, d)
  <1>1. /\ q \in Int /\ r \in 0..d - 1 /\ n = d * q + r
        /\ \A b \in Int : b * d <= n <=> b <= q
    <2>1. n \in Int
      OBVIOUS
    <2> QED BY <2>1, Quotient, Zenon
  <1>2. h = IF 2 * r > d \/ (2 * r = d /\ q % 2 = 1) THEN q + 1 ELSE q
    BY DEF HalfEven
  <1> HIDE DEF q, r, h
  <1>3. 0 * d <= n
    OBVIOUS
  <1>4. q \in Nat
    BY <1>1, <1>3
  <1>5. h \in Nat /\ q <= h
    BY <1>2, <1>4
  <1>6. q * d = d * q /\ (q + 1) * d = d * q + d /\ d * q \in Nat
    BY <1>4
  <1>7. 2 * (h * d) <= 2 * n + d /\ 2 * n <= 2 * (h * d) + d
    <2>1. CASE h = q + 1
      <3>1. h * d = d * q + d
        BY <1>6, <2>1
      <3>2. 2 * r >= d
        BY <1>1, <1>2, <1>4, <2>1
      <3> QED BY <1>1, <1>6, <3>1, <3>2
    <2>2. CASE h = q
      <3>1. h * d = d * q
        BY <1>6, <2>2
      <3>2. 2 * r <= d
        BY <1>1, <1>2, <1>4, <2>2
      <3> QED BY <1>1, <1>6, <3>1, <3>2
    <2> QED BY <1>2, <2>1, <2>2
  <1>8. ASSUME NEW b \in Nat, b * d <= n PROVE b <= h
    <2>1. b <= q
      BY <1>1, <1>8
    <2> QED BY <1>4, <1>5, <2>1
  <1> QED BY <1>5, <1>7, <1>8 DEF h

(* A decimal is as near as half a unit of its last place, and has all the *)
(* digits there are, but no more places than it takes.                   *)
LEMMA DecimalNear ==
    ASSUME Digits \in Nat \ {0}, NEW n \in Nat, n >= 1, NEW d \in Nat, d >= 1,
           Enough(n, d, 2 * Digits), NEW x, x = Decimal(n, d)
    PROVE  /\ x.m \in Nat /\ x.k \in 0..2 * Digits
           /\ 2 * (x.m * d) <= 2 * (n * TenTo[x.k]) + d
           /\ 2 * (n * TenTo[x.k]) <= 2 * (x.m * d) + d
           /\ TenTo[Digits - 1] <= x.m
           /\ \A j \in Nat : ~Enough(n, d, j) => j < x.k
  <1> DEFINE k == CHOOSE i \in 0..2 * Digits : Enough(n, d, i) /\ (i = 0 \/ ~Enough(n, d, i - 1))
             B == {i \in 0..2 * Digits : Enough(n, d, i)}
  <1>1. x = [m |-> HalfEven(n * TenTo[k], d), k |-> k]
    BY DEF Decimal
  <1>2. PICK i \in B : \A j \in B : i <= j
    <2>1. B \in SUBSET Nat /\ 2 * Digits \in B
      OBVIOUS
    <2> HIDE DEF B
    <2> QED BY <2>1, LeastNumber
  <1>3. i \in 0..2 * Digits /\ Enough(n, d, i) /\ (i = 0 \/ ~Enough(n, d, i - 1))
    <2>1. i \in 0..2 * Digits /\ Enough(n, d, i)
      OBVIOUS
    <2>2. ASSUME i # 0, Enough(n, d, i - 1) PROVE FALSE
      <3>1. i - 1 \in B
        BY <2>1, <2>2
      <3> HIDE DEF B
      <3> QED BY <1>2, <2>1, <3>1
    <2> QED BY <2>1, <2>2
  <1>4. k \in 0..2 * Digits /\ Enough(n, d, k)
    BY <1>3
  <1> HIDE DEF k, B
  <1> DEFINE a == HalfEven(n * TenTo[k], d)
  <1>5. x.m = a /\ x.k = k
    BY <1>1
  <1>6. TenTo[k] \in Nat /\ n * TenTo[k] \in Nat /\ TenTo[Digits - 1] \in Nat
    <2>1. TenTo[k] \in Nat /\ TenTo[Digits - 1] \in Nat
      BY <1>4, TenToPositive
    <2> QED BY <2>1
  <1>7. /\ a \in Nat
        /\ 2 * (a * d) <= 2 * (n * TenTo[k]) + d
        /\ 2 * (n * TenTo[k]) <= 2 * (a * d) + d
        /\ \A b \in Nat : b * d <= n * TenTo[k] => b <= a
    <2> DEFINE t == n * TenTo[k]
    <2>1. t \in Nat
      BY <1>6
    <2> HIDE DEF t
    <2>2. /\ HalfEven(t, d) \in Nat
          /\ 2 * (HalfEven(t, d) * d) <= 2 * t + d
          /\ 2 * t <= 2 * (HalfEven(t, d) * d) + d
          /\ \A b \in Nat : b * d <= t => b <= HalfEven(t, d)
      BY <2>1, HalfEvenNear
    <2> QED BY <2>2 DEF t
  <1> HIDE DEF a
  <1>8. TenTo[Digits - 1] <= a
    <2>1. TenTo[Digits - 1] * d <= n * TenTo[k]
      BY <1>4, <1>6 DEF Enough
    <2> QED BY <1>6, <1>7, <2>1
  <1>9. ASSUME NEW j \in Nat, ~Enough(n, d, j) PROVE j < k
    <2> SUFFICES ASSUME k <= j PROVE FALSE
      BY <1>4
    <2>1. TenTo[k] <= TenTo[j] /\ TenTo[j] \in Nat
      BY <1>4, TenToGrows, TenToPositive
    <2>2. TenTo[k] * n <= TenTo[j] * n
      BY <1>6, <2>1, TimesGrows
    <2>3. d * TenTo[Digits - 1] <= n * TenTo[k] /\ n * TenTo[k] = TenTo[k] * n /\ n * TenTo[j] = TenTo[j] * n
          /\ d * TenTo[Digits - 1] \in Nat /\ n * TenTo[j] \in Nat
      BY <1>4, <1>6, <2>1 DEF Enough
    <2>4. n * TenTo[j] >= d * TenTo[Digits - 1]
      BY <1>6, <2>2, <2>3
    <2> QED BY <1>9, <2>4 DEF Enough
  <1> QED BY <1>4, <1>5, <1>7, <1>8, <1>9

(* What is rounded thrice is less than one away in the end.              *)
LEMMA RoundedThrice ==
    ASSUME NEW n \in Nat, NEW safety \in Nat, NEW d \in Nat, d <= 30,
           NEW a \in Nat, NEW P \in Nat, P >= 100,
           2 * (a * d) <= 2 * (n * P) + d, 2 * (n * P) <= 2 * (a * d) + d,
           NEW b \in Nat, NEW Q \in Nat, Q >= 10,
           2 * (b * P) <= 2 * ((a * d) * Q) + P, 2 * ((a * d) * Q) <= 2 * (b * P) + P,
           NEW c \in Nat, NEW R \in Nat, R >= 1,
           2 * (c * Q) <= 2 * ((b + safety * Q) * R) + Q,
           2 * ((b + safety * Q) * R) <= 2 * (c * Q) + Q
    PROVE  (c + R - 1) \div R \in {n + safety, n + safety + 1}
  <1> DEFINE N == n + safety
             PQ == P * Q
             u == (a * d) * Q
             v == (n * P) * Q
             w == b * P
  <1>1. /\ PQ \in Nat /\ u \in Nat /\ v \in Nat /\ w \in Nat /\ N \in Nat
        /\ a * d \in Nat /\ n * P \in Nat /\ d * Q \in Nat
    OBVIOUS
  <1>2. 2 * u <= 2 * v + d * Q /\ 2 * v <= 2 * u + d * Q
    <2>1. (2 * (a * d)) * Q <= (2 * (n * P) + d) * Q
      BY <1>1, TimesGrows
    <2>2. (2 * (n * P)) * Q <= (2 * (a * d) + d) * Q
      BY <1>1, TimesGrows
    <2>3. /\ (2 * (a * d)) * Q = 2 * u /\ (2 * (n * P)) * Q = 2 * v
          /\ (2 * (n * P) + d) * Q = 2 * v + d * Q /\ (2 * (a * d) + d) * Q = 2 * u + d * Q
      BY <1>1
    <2> QED BY <2>1, <2>2, <2>3
  <1>3. 10 * (d * Q) <= 3 * PQ /\ 10 * P <= PQ
    <2>1. d * Q <= 30 * Q
      BY TimesGrows
    <2>2. 100 * Q <= P * Q
      BY TimesGrows
    <2>3. 10 * P <= Q * P /\ Q * P = PQ
      BY TimesGrows
    <2> QED BY <1>1, <2>1, <2>2, <2>3
  <1>4. 2 * w <= 2 * u + P /\ 2 * u <= 2 * w + P
    OBVIOUS
  <1> HIDE DEF PQ, u, v, w
  <1>5. 5 * w <= 5 * v + PQ /\ 5 * v <= 5 * w + PQ
    BY <1>1, <1>2, <1>3, <1>4
  <1>6. 5 * b <= (5 * n + 1) * Q /\ (5 * n - 1) * Q <= 5 * b
    <2>1. /\ 5 * w = (5 * b) * P /\ 5 * v + PQ = ((5 * n + 1) * Q) * P
          /\ 5 * v - PQ = ((5 * n - 1) * Q) * P
      BY DEF w, v, PQ
    <2>2. (5 * b) * P <= ((5 * n + 1) * Q) * P /\ ((5 * n - 1) * Q) * P <= (5 * b) * P
      BY <1>1, <1>5, <2>1
    <2>3. 5 * b \in Int /\ (5 * n + 1) * Q \in Int /\ (5 * n - 1) * Q \in Int /\ P >= 1
      OBVIOUS
    <2> HIDE <1>1, <1>2, <1>3, <1>4, <1>5
    <2> QED BY <2>2, <2>3, TimesGone
  <1> DEFINE bR == b * R
             sQR == (safety * Q) * R
             nQR == (n * Q) * R
             QR == Q * R
             cQ == c * Q
  <1>7. bR \in Nat /\ sQR \in Nat /\ nQR \in Nat /\ QR \in Nat /\ cQ \in Nat
    OBVIOUS
  <1>8. 5 * bR <= 5 * nQR + QR /\ 5 * nQR <= 5 * bR + QR
    <2>1. (5 * b) * R <= ((5 * n + 1) * Q) * R /\ ((5 * n - 1) * Q) * R <= (5 * b) * R
      BY <1>6, TimesGrows
    <2>2. /\ (5 * b) * R = 5 * bR /\ ((5 * n + 1) * Q) * R = 5 * nQR + QR
          /\ ((5 * n - 1) * Q) * R = 5 * nQR - QR
      OBVIOUS
    <2> HIDE DEF bR, nQR, QR
    <2> QED BY <1>7, <2>1, <2>2
  <1>9. 2 * cQ <= 2 * bR + 2 * sQR + Q /\ 2 * bR + 2 * sQR <= 2 * cQ + Q
    <2>1. (b + safety * Q) * R = bR + sQR
      OBVIOUS
    <2> QED BY <2>1
  <1>10. Q <= QR
    <2>1. 1 * Q <= R * Q /\ R * Q = QR
      BY TimesGrows
    <2> QED BY <2>1
  <1> HIDE DEF bR, sQR, nQR, QR, cQ
  <1>11. 10 * cQ <= 10 * nQR + 10 * sQR + 7 * QR /\ 10 * nQR + 10 * sQR <= 10 * cQ + 7 * QR
    BY <1>7, <1>8, <1>9, <1>10
  <1>12. 10 * c <= (10 * N + 7) * R /\ (10 * N - 7) * R <= 10 * c
    <2>1. /\ 10 * cQ = (10 * c) * Q
          /\ 10 * nQR + 10 * sQR + 7 * QR = ((10 * N + 7) * R) * Q
          /\ 10 * nQR + 10 * sQR - 7 * QR = ((10 * N - 7) * R) * Q
      BY DEF cQ, nQR, sQR, QR
    <2>2. (10 * c) * Q <= ((10 * N + 7) * R) * Q /\ ((10 * N - 7) * R) * Q <= (10 * c) * Q
      BY <1>7, <1>11, <2>1
    <2>3. 10 * c \in Int /\ (10 * N + 7) * R \in Int /\ (10 * N - 7) * R \in Int /\ Q >= 1
      OBVIOUS
    <2> HIDE DEF N
    <2> QED BY <2>2, <2>3, TimesGone
  <1> DEFINE t == (c + R - 1) \div R
             NR == N * R
  <1> HIDE DEF N
  <1>13. NR \in Nat
    BY <1>1
  <1>14. 10 * c <= 10 * NR + 7 * R /\ 10 * NR <= 10 * c + 7 * R
    <2>1. (10 * N + 7) * R = 10 * NR + 7 * R /\ (10 * N - 7) * R = 10 * NR - 7 * R
      BY <1>1
    <2> HIDE DEF NR
    <2> QED BY <1>12, <1>13, <2>1
  <1>15. /\ t \in Int /\ \A x \in Int : x * R <= c + R - 1 <=> x <= t
    <2>1. c + R - 1 \in Int
      OBVIOUS
    <2> QED BY <2>1, Quotient, Zenon
  <1> HIDE DEF t
  <1>16. N <= t
    <2>1. NR <= c + R - 1
      <3> HIDE DEF NR
      <3> QED BY <1>13, <1>14
    <2> QED BY <1>1, <1>15, <2>1
  <1>17. t <= N + 1
    <2> SUFFICES ASSUME N + 2 <= t PROVE FALSE
      BY <1>1, <1>15
    <2>1. (N + 2) * R <= c + R - 1
      BY <1>1, <1>15
    <2>2. (N + 2) * R = NR + 2 * R
      BY <1>1
    <2> HIDE DEF NR
    <2> QED BY <1>13, <1>14, <2>1, <2>2
  <1> QED BY <1>1, <1>15, <1>16, <1>17 DEF N, t

(* A decimal that has all its digits is multiplied by enough of them.    *)
LEMMA EnoughPlaces ==
    ASSUME Digits \in Nat \ {0}, NEW n \in Nat, TenTo[Digits - 1] <= n, NEW k \in 0..2 * Digits
    PROVE  Enough(n, TenTo[k], 2 * Digits)
  <1> DEFINE B == TenTo[Digits - 1]
             P == TenTo[k]
             A == TenTo[2 * Digits]
  <1>1. B \in Nat /\ P \in Nat /\ A \in Nat /\ P <= A /\ B <= n
    BY TenToPositive, TenToGrows
  <1> HIDE DEF A, P, B
  <1>2. P * B <= A * B
    BY <1>1, TimesGrows
  <1>3. B * A <= n * A
    BY <1>1, TimesGrows
  <1>4. A * B = B * A /\ P * B \in Nat /\ A * B \in Nat /\ n * A \in Nat
    BY <1>1
  <1>5. n * A >= P * B
    BY <1>2, <1>3, <1>4
  <1> QED BY <1>5 DEF Enough, A, P, B

LEMMA FirstPowers == TenTo[0] = 1 /\ TenTo[1] = 10 /\ TenTo[2] = 100
  <1>1. TenTo[0] = 1
    BY TenToEquation
  <1>2. TenTo[1] = 10 * TenTo[1 - 1] /\ 1 - 1 = 0
    BY TenToEquation
  <1>3. TenTo[2] = 10 * TenTo[2 - 1] /\ 2 - 1 = 1
    BY TenToEquation
  <1> QED BY <1>1, <1>2, <1>3

(* The average keeps two places, and one when it is multiplied again.    *)
LEMMA AverageOf ==
    ASSUME Digits \in Nat \ {0}, NEW n \in Nat, n >= 1, Fits(n), NEW d \in {7, 14, 30},
           NEW x, x = Decimal(n, d)
    PROVE  /\ x.m \in Nat /\ x.k \in 0..2 * Digits /\ TenTo[x.k] \in Nat /\ TenTo[x.k] >= 100
           /\ 2 * (x.m * d) <= 2 * (n * TenTo[x.k]) + d
           /\ 2 * (n * TenTo[x.k]) <= 2 * (x.m * d) + d
           /\ TenTo[Digits - 1] <= x.m
  <1> DEFINE B == TenTo[Digits - 1]
             A == TenTo[2 * Digits]
  <1>1. B \in Nat /\ B >= 1 /\ d \in Nat /\ d >= 7 /\ d <= 30 /\ 10 * n < 7 * B
    BY TenToPositive DEF Fits
  <1>2. A \in Nat /\ 100 * B <= A
    <2>1. TenTo[Digits] = 10 * B /\ TenTo[Digits + 1] = 10 * TenTo[Digits]
      <3>1. Digits \in Nat /\ Digits # 0 /\ Digits + 1 \in Nat /\ Digits + 1 # 0 /\ (Digits + 1) - 1 = Digits
        OBVIOUS
      <3> HIDE DEF B
      <3>2. TenTo[Digits] = 10 * TenTo[Digits - 1]
        BY <3>1, TenToEquation
      <3>3. TenTo[Digits + 1] = 10 * TenTo[(Digits + 1) - 1]
        BY <3>1, TenToEquation
      <3> QED BY <3>1, <3>2, <3>3 DEF B
    <2>2. TenTo[Digits + 1] <= A /\ A \in Nat
      BY TenToGrows, TenToPositive
    <2> HIDE DEF A, B
    <2> QED BY <1>1, <2>1, <2>2
  <1>3. Enough(n, d, 2 * Digits)
    <2> HIDE DEF A, B
    <2>1. d * B <= 30 * B /\ d * B \in Nat
      BY <1>1, TimesGrows
    <2>2. 1 * A <= n * A /\ n * A \in Nat
      BY <1>2, TimesGrows
    <2>3. n * A >= d * B
      BY <1>1, <1>2, <2>1, <2>2
    <2> QED BY <2>3 DEF Enough, A, B
  <1>4. ~Enough(n, d, 1)
    <2> HIDE DEF A, B
    <2>1. 7 * B <= d * B /\ d * B \in Nat
      BY <1>1, TimesGrows
    <2>2. n * 10 < d * B
      BY <1>1, <2>1
    <2> QED BY <1>1, <2>1, <2>2, FirstPowers DEF Enough, B
  <1> HIDE DEF A, B
  <1>5. /\ x.m \in Nat /\ x.k \in 0..2 * Digits
        /\ 2 * (x.m * d) <= 2 * (n * TenTo[x.k]) + d
        /\ 2 * (n * TenTo[x.k]) <= 2 * (x.m * d) + d
        /\ TenTo[Digits - 1] <= x.m
        /\ \A j \in Nat : ~Enough(n, d, j) => j < x.k
    BY <1>1, <1>3, DecimalNear
  <1>6. 2 \in 0..x.k
    BY <1>4, <1>5
  <1>7. TenTo[x.k] \in Nat /\ TenTo[2] <= TenTo[x.k]
    BY <1>5, <1>6, TenToPositive, TenToGrows
  <1> QED BY <1>5, <1>7, FirstPowers

(* What is known of the average a / TenTo[k] of n over d days, and of y,  *)
(* the decimal that u / P comes to.                                       *)
IsAverage(n, d, a, k) ==
    /\ a \in Nat /\ k \in 0..2 * Digits /\ TenTo[k] >= 100 /\ TenTo[Digits - 1] <= a
    /\ 2 * (a * d) <= 2 * (n * TenTo[k]) + d

IsAgain(u, P, y) ==
    /\ y.m \in Nat /\ y.k \in 0..2 * Digits /\ TenTo[y.k] \in Nat /\ TenTo[y.k] >= 10
    /\ 2 * (y.m * P) <= 2 * (u * TenTo[y.k]) + P
    /\ 2 * (u * TenTo[y.k]) <= 2 * (y.m * P) + P
    /\ TenTo[Digits - 1] <= y.m

LEMMA AgainOf ==
    ASSUME NEW n \in Nat, Fits(n), NEW d \in {7, 14, 30}, NEW a, NEW k, IsAverage(n, d, a, k)
    PROVE  IsAgain(a * d, TenTo[k], Decimal(a * d, TenTo[k]))
  <1>0. /\ Digits \in Nat \ {0} /\ a \in Nat /\ k \in 0..2 * Digits /\ TenTo[k] >= 100
        /\ TenTo[Digits - 1] <= a /\ 2 * (a * d) <= 2 * (n * TenTo[k]) + d
    BY ReplenishmentAssumption DEF ReplenishmentAssumption, IsAverage
  <1> PICK y : y = Decimal(a * d, TenTo[k])
    OBVIOUS
  <1> DEFINE B == TenTo[Digits - 1]
             P == TenTo[k]
             u == a * d
  <1>1. /\ B \in Nat /\ B >= 1 /\ d \in Nat /\ d >= 7 /\ d <= 30 /\ 10 * n < 7 * B
        /\ P \in Nat /\ P >= 100 /\ B <= a
    BY <1>0, TenToPositive DEF Fits
  <1>2. u \in Nat /\ a <= u
    <2>1. 1 * a <= d * a /\ d * a = u
      BY <1>0, <1>1, TimesGrows
    <2> QED BY <1>0, <1>1, <2>1
  <1>3. 2 * u <= 2 * (n * P) + d
    BY <1>0
  <1> HIDE DEF u, P, B
  <1>4. u >= 1 /\ B <= u
    BY <1>0, <1>1, <1>2
  <1>5. Enough(u, P, 2 * Digits)
    BY <1>0, <1>2, <1>4, EnoughPlaces DEF P, B
  <1>6. ~Enough(u, P, 0)
    <2>1. (10 * n) * P <= (7 * B - 1) * P
      BY <1>1, TimesGrows
    <2>2. (10 * n) * P = 10 * (n * P) /\ (7 * B - 1) * P = 7 * (P * B) - P /\ n * P \in Nat /\ P * B \in Nat
      BY <1>1
    <2>3. 1 * P <= B * P /\ B * P = P * B
      BY <1>1, TimesGrows
    <2>4. u * 1 < P * B
      BY <1>1, <1>2, <1>3, <2>1, <2>2, <2>3
    <2>5. u * TenTo[0] < P * B
      BY <2>4, FirstPowers
    <2> QED BY <1>0, <1>1, <1>2, <2>2, <2>4, <2>5, FirstPowers DEF Enough, B
  <1>7. /\ y.m \in Nat /\ y.k \in 0..2 * Digits
        /\ 2 * (y.m * P) <= 2 * (u * TenTo[y.k]) + P
        /\ 2 * (u * TenTo[y.k]) <= 2 * (y.m * P) + P
        /\ TenTo[Digits - 1] <= y.m
        /\ \A j \in Nat : ~Enough(u, P, j) => j < y.k
    <2>1. y = Decimal(u, P) /\ P >= 1
      BY <1>1 DEF u, P
    <2> QED BY <1>0, <1>1, <1>2, <1>4, <1>5, <2>1, DecimalNear
  <1>8. 1 \in 0..y.k
    BY <1>6, <1>7
  <1>9. TenTo[y.k] \in Nat /\ TenTo[1] <= TenTo[y.k]
    BY <1>0, <1>7, <1>8, TenToPositive, TenToGrows
  <1> QED BY <1>7, <1>9, FirstPowers DEF u, P, IsAgain

(* What is to be in stock: what was sold in the window and the safety    *)
(* stock, or one more.                                                   *)
LEMMA TargetNear ==
    ASSUME NEW n \in Nat, n >= 1, Fits(n), NEW days \in {7, 14, 30}
    PROVE  Target(n, days) \in {n + Safety, n + Safety + 1}
  <1>1. Digits \in Nat \ {0} /\ Safety \in Nat
    BY ReplenishmentAssumption DEF ReplenishmentAssumption
  <1>2. PICK x : x = Decimal(n, days)
    OBVIOUS
  <1>3. PICK P : P = TenTo[x.k]
    OBVIOUS
  <1>4. PICK u : u = x.m * days
    OBVIOUS
  <1>5. PICK y : y = Decimal(u, P)
    OBVIOUS
  <1>6. PICK Q : Q = TenTo[y.k]
    OBVIOUS
  <1>7. PICK s : s = y.m + Safety * Q
    OBVIOUS
  <1>8. PICK z : z = Decimal(s, Q)
    OBVIOUS
  <1>9. PICK R : R = TenTo[z.k]
    OBVIOUS
  <1>10. Target(n, days) = (z.m + R - 1) \div R
    BY ONLY <1>2, <1>3, <1>4, <1>5, <1>6, <1>7, <1>8, <1>9, Zenon
       DEF Target, Ceiling, Plus, Times
  <1>11. /\ x.m \in Nat /\ x.k \in 0..2 * Digits /\ P \in Nat /\ P >= 100
         /\ 2 * u <= 2 * (n * P) + days /\ 2 * (n * P) <= 2 * u + days
         /\ TenTo[Digits - 1] <= x.m
    BY <1>1, <1>2, <1>3, <1>4, AverageOf
  <1>12. /\ y.m \in Nat /\ y.k \in 0..2 * Digits /\ Q \in Nat /\ Q >= 10
         /\ 2 * (y.m * P) <= 2 * (u * Q) + P /\ 2 * (u * Q) <= 2 * (y.m * P) + P
         /\ TenTo[Digits - 1] <= y.m
    <2> DEFINE a == x.m  k == x.k
    <2>1. IsAverage(n, days, a, k) /\ y = Decimal(a * days, TenTo[k])
      BY <1>3, <1>4, <1>5, <1>11 DEF IsAverage
    <2> HIDE DEF a, k
    <2>2. IsAgain(a * days, TenTo[k], y)
      BY <2>1, AgainOf
    <2>3. P = TenTo[k] /\ u = a * days /\ Q = TenTo[y.k]
      BY ONLY <1>3, <1>4, <1>6 DEF a, k
    <2> QED BY ONLY <2>2, <2>3 DEF IsAgain
  <1>13. s \in Nat /\ y.m <= s
    <2>1. Safety * Q \in Nat
      BY <1>1, <1>12
    <2> QED BY <1>7, <1>12, <2>1
  <1>14. TenTo[Digits - 1] \in Nat /\ TenTo[Digits - 1] >= 1
    BY <1>1, TenToPositive
  <1>15. s >= 1 /\ TenTo[Digits - 1] <= s
    BY <1>12, <1>13, <1>14
  <1>16. Enough(s, Q, 2 * Digits)
    BY <1>1, <1>6, <1>12, <1>13, <1>15, EnoughPlaces
  <1>17. /\ z.m \in Nat /\ z.k \in 0..2 * Digits
         /\ 2 * (z.m * Q) <= 2 * (s * R) + Q /\ 2 * (s * R) <= 2 * (z.m * Q) + Q
    BY <1>1, <1>8, <1>9, <1>12, <1>13, <1>15, <1>16, DecimalNear
  <1>18. R \in Nat /\ R >= 1
    BY <1>1, <1>9, <1>17, TenToPositive
  <1>19. (z.m + R - 1) \div R \in {n + Safety, n + Safety + 1}
    <2> DEFINE a == x.m  b == y.m  c == z.m
    <2>1. /\ a \in Nat /\ b \in Nat /\ c \in Nat /\ days \in Nat /\ days <= 30 /\ Safety \in Nat
          /\ P \in Nat /\ P >= 100 /\ Q \in Nat /\ Q >= 10 /\ R \in Nat /\ R >= 1
          /\ 2 * (a * days) <= 2 * (n * P) + days /\ 2 * (n * P) <= 2 * (a * days) + days
          /\ 2 * (b * P) <= 2 * ((a * days) * Q) + P /\ 2 * ((a * days) * Q) <= 2 * (b * P) + P
          /\ 2 * (c * Q) <= 2 * ((b + Safety * Q) * R) + Q
          /\ 2 * ((b + Safety * Q) * R) <= 2 * (c * Q) + Q
      BY <1>1, <1>4, <1>7, <1>11, <1>12, <1>17, <1>18
    <2> HIDE DEF a, b, c
    <2>2. (c + R - 1) \div R \in {n + Safety, n + Safety + 1}
      BY ONLY <2>1, n \in Nat, RoundedThrice
    <2> QED BY <2>2 DEF c
  <1> QED BY <1>10, <1>19

LEMMA TargetOfNothing ==
    ASSUME NEW days \in {7, 14, 30}
    PROVE  Target(0, days) = Safety
  <1>1. Digits \in Nat \ {0} /\ Safety \in Nat
    BY ReplenishmentAssumption DEF ReplenishmentAssumption
  <1>2. Decimal(0, days) = [m |-> 0, k |-> 0]
    BY DEF Decimal
  <1>3. Times([m |-> 0, k |-> 0], days) = [m |-> 0, k |-> 0]
    BY FirstPowers DEF Decimal, Times
  <1>4. Plus([m |-> 0, k |-> 0], Safety) = Decimal(Safety, 1)
    BY <1>1, FirstPowers DEF Plus
  <1>5. PICK z : z = Decimal(Safety, 1)
    OBVIOUS
  <1>6. Target(0, days) = Ceiling(z)
    BY ONLY <1>2, <1>3, <1>4, <1>5 DEF Target
  <1>7. CASE Safety = 0
    <2>1. z = [m |-> 0, k |-> 0]
      BY <1>5, <1>7 DEF Decimal
    <2>2. Ceiling(z) = (0 + 1 - 1) \div 1
      BY <2>1, FirstPowers DEF Ceiling
    <2> QED BY <1>6, <1>7, <2>2
  <1>8. CASE Safety # 0
    <2>1. Safety >= 1
      BY <1>1, <1>8
    <2>2. Enough(Safety, 1, 2 * Digits)
      <3>1. 2 * Digits \in Nat /\ Digits - 1 \in 0..2 * Digits
        BY <1>1
      <3>2. /\ TenTo[Digits - 1] <= TenTo[2 * Digits] /\ TenTo[Digits - 1] \in Nat
            /\ TenTo[2 * Digits] \in Nat
        BY <3>1, TenToGrows, TenToPositive
      <3>3. 1 * TenTo[2 * Digits] <= Safety * TenTo[2 * Digits] /\ Safety * TenTo[2 * Digits] \in Nat
        BY <1>1, <2>1, <3>2, TimesGrows
      <3> QED BY <3>2, <3>3 DEF Enough
    <2>3. PICK R : R = TenTo[z.k]
      OBVIOUS
    <2>4. /\ z.m \in Nat /\ z.k \in 0..2 * Digits
          /\ 2 * (z.m * 1) <= 2 * (Safety * R) + 1 /\ 2 * (Safety * R) <= 2 * (z.m * 1) + 1
      BY <1>1, <1>5, <2>1, <2>2, <2>3, DecimalNear
    <2>5. R \in Nat /\ R >= 1
      BY <1>1, <2>3, <2>4, TenToPositive
    <2>6. Safety * R \in Nat /\ z.m = Safety * R /\ (Safety + 1) * R = Safety * R + R
      <3>1. Safety * R \in Nat /\ (Safety + 1) * R = Safety * R + R
        BY <1>1, <2>5
      <3> QED BY <2>4, <3>1
    <2>7. PICK n : n = z.m + R - 1
      OBVIOUS
    <2>8. n \in Int /\ Safety * R <= n /\ ~((Safety + 1) * R <= n)
      BY <2>5, <2>6, <2>7
    <2>9. n \div R \in Int /\ \A b \in Int : b * R <= n <=> b <= n \div R
      BY <2>5, <2>8, Quotient, Zenon
    <2>10. Safety <= n \div R /\ ~(Safety + 1 <= n \div R)
      BY <1>1, <2>8, <2>9
    <2>11. n \div R = Safety
      BY <1>1, <2>9, <2>10
    <2> QED BY <1>6, <2>3, <2>7, <2>11 DEF Ceiling
  <1> QED BY <1>7, <1>8

-----------------------------------------------------------------------------
(* Replenishment.  The daily sales, their last day, and what was sold.   *)

LEMMA LastOfDays ==
    ASSUME NEW S, IsFiniteSet(S), S # {}, S \subseteq Int
    PROVE  Max(S) \in S /\ \A x \in S : x <= Max(S)
  <1> DEFINE R == {pq \in S \X S : pq[1] < pq[2]}
  <1>1. \A p, q \in S : <<p, q>> \in R <=> p < q
    OBVIOUS
  <1> HIDE DEF R
  <1>2. \A p \in S : p \in Int
    OBVIOUS
  <1>3. \A p \in S : <<p, p>> \notin R
    BY <1>1, <1>2
  <1>4. \A p, q, r \in S : <<p, q>> \in R /\ <<q, r>> \in R => <<p, r>> \in R
    BY <1>1, <1>2
  <1>5. PICK p \in S : \A q \in S : <<p, q>> \notin R
    BY <1>3, <1>4, Undominated
  <1>6. ASSUME NEW q \in S PROVE p >= q
    <2>1. ~(p < q) /\ p \in Int /\ q \in Int
      BY <1>1, <1>2, <1>5
    <2> QED BY <2>1
  <1>7. Max(S) \in S /\ \A q \in S : Max(S) >= q
    BY <1>6 DEF Max
  <1> QED BY <1>2, <1>7

SalePlaces == DOMAIN sales

LEMMA PlacesFinite ==
    ASSUME sales \in Seq(Sale)
    PROVE  /\ SalePlaces = 1..Len(sales) /\ Len(sales) \in Nat /\ IsFiniteSet(SalePlaces)
           /\ \A k \in SalePlaces : sales[k] \in Sale
           /\ \A P \in SUBSET SalePlaces : IsFiniteSet(P)
  <1>1. SalePlaces = 1..Len(sales) /\ Len(sales) \in Nat /\ \A k \in SalePlaces : sales[k] \in Sale
    BY DEF SalePlaces
  <1>2. IsFiniteSet(SalePlaces)
    BY <1>1, FS_Interval
  <1> QED BY <1>1, <1>2, FS_Subset

LEMMA SalesAsOfIsADay ==
    ASSUME sales \in Seq(Sale), sales # << >>
    PROVE  SalesAsOf \in Int
  <1> DEFINE days(P) == {sales[k].day : k \in P}
             whole == {k \in SalePlaces : sales[k].whole}
             P == IF whole # {} THEN whole ELSE SalePlaces
  <1>1. P \in SUBSET SalePlaces /\ P # {}
    <2>1. SalePlaces # {}
      BY PlacesFinite
    <2> QED BY <2>1
  <1>2. SalesAsOf = Max(days(P))
    BY DEF SalesAsOf, SalePlaces
  <1>3. IsFiniteSet(P) /\ \A k \in P : sales[k].day \in Int
    BY <1>1, PlacesFinite DEF Sale
  <1> HIDE DEF P
  <1>4. IsFiniteSet(days(P)) /\ days(P) # {} /\ days(P) \subseteq Int
    <2>1. days(P) # {} /\ days(P) \subseteq Int
      BY <1>1, <1>3
    <2>2. IsFiniteSet({sales[k].day : k \in P})
      <3> DEFINE f == [k \in P |-> sales[k].day]
                 T == {sales[k].day : k \in P}
      <3>1. f \in Surjection(P, T)
        BY DEF Surjection
      <3> HIDE DEF f, T
      <3>2. IsFiniteSet(T)
        BY <1>3, <3>1, FS_Surjection
      <3> QED BY <3>2 DEF T
    <2> QED BY <2>1, <2>2
  <1> HIDE DEF days
  <1>5. Max(days(P)) \in days(P)
    BY <1>4, LastOfDays
  <1> QED BY <1>2, <1>4, <1>5

LEMMA SoldIsNumber ==
    ASSUME sales \in Seq(Sale), NEW window
    PROVE  Sold(window) \in Nat
  <1> DEFINE nets == [k \in DOMAIN sales |-> sales[k].net]
             P == {k \in DOMAIN sales : sales[k].day \in window}
  <1>1. IsFiniteSet(P) /\ \A k \in P : nets[k] \in Nat
    BY PlacesFinite DEF SalePlaces, Sale
  <1> HIDE DEF nets, P
  <1>2. SumFunctionOnSet(nets, P) \in Nat
    BY <1>1, SumNonnegative
  <1> QED BY <1>2 DEF Sold, nets, P

LEMMA SoldOnNoDay == Sold({}) = 0
  <1>1. {k \in DOMAIN sales : sales[k].day \in {}} = {}
    OBVIOUS
  <1> QED BY <1>1, SumEmpty DEF Sold

LEMMA SoldOnFewerDays ==
    ASSUME sales \in Seq(Sale), NEW W, Sold(W) = 0, NEW U \in SUBSET W
    PROVE  Sold(U) = 0
  <1> DEFINE nets == [k \in DOMAIN sales |-> sales[k].net]
             P == {k \in DOMAIN sales : sales[k].day \in U}
             Q == {k \in DOMAIN sales : sales[k].day \in W}
  <1>1. /\ P \subseteq Q /\ IsFiniteSet(P) /\ IsFiniteSet(Q \ P) /\ P \cap (Q \ P) = {}
        /\ P \cup (Q \ P) = Q /\ \A k \in Q : nets[k] \in Nat
    BY PlacesFinite DEF SalePlaces, Sale
  <1>2. Sold(U) = SumFunctionOnSet(nets, P) /\ SumFunctionOnSet(nets, Q) = 0
    BY DEF Sold
  <1> HIDE DEF nets, P, Q
  <1>3. SumFunctionOnSet(nets, Q) = SumFunctionOnSet(nets, P) + SumFunctionOnSet(nets, Q \ P)
    BY <1>1, SumUnion
  <1>4. SumFunctionOnSet(nets, P) \in Nat /\ SumFunctionOnSet(nets, Q \ P) \in Nat
    BY <1>1, SumNonnegative
  <1> QED BY <1>2, <1>3, <1>4

LEMMA WindowHasDays ==
    ASSUME NEW at \in Int, NEW days \in {7, 14, 30}
    PROVE  /\ IsFiniteSet(Back(at, days)) /\ Cardinality(Back(at, days)) = days
           /\ Back(at, days) \subseteq Int
  <1>1. at - days + 1 \in Int /\ at - (at - days + 1) + 1 = days /\ at - days + 1 <= at
    OBVIOUS
  <1> QED BY <1>1, FS_Interval DEF Back

-----------------------------------------------------------------------------
(* Replenishment.  What the dashboards and a suggestion say of a sku.    *)

(* Days of stock, when they are below seven to the hundredth.            *)
LEMMA ShortOfStock ==
    ASSUME NEW held \in Nat, NEW c \in Nat, NEW net \in Nat, net >= 1,
           Below(held, c, net, 599) \/ Below(held, c, net, 1399)
    PROVE  held * c < 7 * net
  <1>1. PICK stock : stock = held * c
    OBVIOUS
  <1>2. stock \in Nat
    BY <1>1
  <1>3. stock * 200 <= 599 * net \/ stock * 200 <= 1399 * net
    BY <1>1, <1>2 DEF Below
  <1> QED BY <1>1, <1>2, <1>3

LEMMA HealthSays ==
    ASSUME NEW days, NEW held, NEW C, C = CoveredDays(days), NEW net, net = Sold(C),
           NEW h, h = Health(days, held)
    PROVE  /\ C = {} => h.status = "data_insufficient"
           /\ C # {} /\ net = 0 => h.status = "no_sales" /\ h.suggested = 0
           /\ C # {} /\ net # 0 =>
                 /\ h.status \in {"urgent", "reorder", "healthy"}
                 /\ h.status \in {"urgent", "reorder"} =>
                        \/ Below(held, Cardinality(C), net, 599)
                        \/ Below(held, Cardinality(C), net, 1399)
                 /\ LET target == TargetShown(net, Cardinality(C), days)
                    IN h.suggested = IF target > held THEN target - held ELSE 0
  <1> DEFINE urgent == Below(held, Cardinality(C), net, 599)
             reorder == Below(held, Cardinality(C), net, 1399)
             target == TargetShown(net, Cardinality(C), days)
  <1>1. h = IF C = {} THEN [status |-> "data_insufficient", suggested |-> -1]
            ELSE IF net = 0 THEN [status |-> "no_sales", suggested |-> 0]
            ELSE [status |-> IF urgent THEN "urgent" ELSE IF reorder THEN "reorder" ELSE "healthy",
                  suggested |-> IF target > held THEN target - held ELSE 0]
    BY DEF Health
  <1> HIDE DEF urgent, reorder, target
  <1>2. CASE C = {}
    BY <1>1, <1>2
  <1>3. CASE C # {} /\ net = 0
    BY <1>1, <1>3
  <1>4. CASE C # {} /\ net # 0
    <2>1. /\ h.status = IF urgent THEN "urgent" ELSE IF reorder THEN "reorder" ELSE "healthy"
          /\ h.suggested = IF target > held THEN target - held ELSE 0
      BY <1>1, <1>4
    <2>2. /\ h.status \in {"urgent", "reorder", "healthy"}
          /\ h.status \in {"urgent", "reorder"} => urgent \/ reorder
      BY <2>1
    <2> QED BY <1>4, <2>1, <2>2 DEF urgent, reorder, target
  <1> QED BY <1>2, <1>3, <1>4

(* The days of stock of the quadrant: no more than are compared.         *)
Looked(short, base, days) == IF days <= short + base THEN days ELSE short + base

LEMMA QuadrantSays ==
    ASSUME NEW short, NEW base, NEW days, NEW held,
           NEW C, C = CoveredDays(Looked(short, base, days)),
           NEW net, net = Sold(C), NEW q, q = Quadrant(short, base, days, held)
    PROVE  /\ q = "insufficient" <=> net = 0
           /\ Below(held, Cardinality(C), net, 200 * DaysLow) => q \notin {"healthy", "slow_risk"}
           /\ q \in {"focal_supplement", "healthy", "slow_risk"} =>
                 \A d \in Back(SalesAsOf, short) \cup Back(SalesAsOf - short, base) : Covered(d)
  <1> DEFINE last == Back(SalesAsOf, short)
             before == Back(SalesAsOf - short, base)
             compared == Sold(before) > 0 /\ \A d \in last \cup before : Covered(d)
             grows == (Sold(last) - Sold(before)) * 10 >= Sold(before)
             low == Below(held, Cardinality(C), net, 200 * DaysLow)
  <1>1. q = CASE net = 0 -> "insufficient"
              [] net # 0 /\ ~compared -> "watch"
              [] net # 0 /\ compared /\ grows -> IF low THEN "focal_supplement" ELSE "healthy"
              [] OTHER -> IF low THEN "watch" ELSE "slow_risk"
    BY DEF Quadrant, Looked
  <1>2. compared => \A d \in last \cup before : Covered(d)
    OBVIOUS
  <1> HIDE DEF last, before, compared, grows, low
  <1>3. CASE net = 0
    <2>1. q = "insufficient"
      BY <1>1, <1>3
    <2> QED BY <1>3, <2>1
  <1>4. CASE net # 0 /\ ~compared
    <2>1. q = "watch"
      BY <1>1, <1>4
    <2> QED BY <1>4, <2>1
  <1>5. CASE net # 0 /\ compared
    <2>1. q \in {"focal_supplement", "healthy", "watch", "slow_risk"}
          /\ (low => q \in {"focal_supplement", "watch"})
      BY <1>1, <1>5
    <2>2. /\ q # "insufficient" /\ net # 0 /\ (low => q \notin {"healthy", "slow_risk"})
          /\ \A d \in last \cup before : Covered(d)
      BY <1>2, <1>5, <2>1
    <2> QED BY <2>2 DEF low, last, before
  <1> QED BY <1>3, <1>4, <1>5

LEMMA ViewsHold ==
    ASSUME sales \in Seq(Sale), sales # << >>
    PROVE  ViewsAgree
  <1> SUFFICES ASSUME NEW days \in CoverageDays, NEW held \in OnHand
               PROVE  LET health == Health(days, held)
                          covered == \A d \in Back(SalesAsOf, days) : Covered(d)
                          net == Sold(Back(SalesAsOf, days))
                          missing == Target(net, days) - held
                      IN /\ covered /\ missing > 0 /\ Fits(net) =>
                                IF health.status = "no_sales"
                                THEN missing = Safety - held
                                ELSE missing - health.suggested \in {-1, 0, 1}
                         /\ \A short, base \in CoverageDays :
                                LET quadrant == Quadrant(short, base, days, held)
                                    unknown == health.status \in {"data_insufficient", "no_sales"}
                                IN short # base =>
                                   /\ unknown => quadrant = "insufficient"
                                   /\ days <= short + base =>
                                         /\ quadrant = "insufficient" => unknown
                                         /\ DaysLow >= 7 /\ health.status \in {"urgent", "reorder"}
                                                => quadrant \notin {"healthy", "slow_risk"}
                                   /\ quadrant \in {"focal_supplement", "healthy", "slow_risk"}
                                          => \A d \in Back(SalesAsOf, short + base) : Covered(d)
    BY DEF ViewsAgree
  <1>1. /\ days \in {7, 14, 30} /\ held \in Nat /\ Safety \in Nat /\ DaysLow \in Nat
        /\ \A d \in CoverageDays : d \in {7, 14, 30}
    BY ReplenishmentAssumption DEF ReplenishmentAssumption
  <1>2. PICK at : at = SalesAsOf
    OBVIOUS
  <1>3. at \in Int
    BY <1>2, SalesAsOfIsADay
  <1>4. PICK C : C = CoveredDays(days)
    OBVIOUS
  <1>5. PICK net : net = Sold(C)
    OBVIOUS
  <1>6. PICK h : h = Health(days, held)
    OBVIOUS
  <1>7. C \subseteq Back(at, days) /\ \A d \in Back(at, days) : Covered(d) => d \in C
    BY <1>2, <1>4 DEF CoveredDays
  <1>8. IsFiniteSet(C) /\ Cardinality(C) \in Nat /\ net \in Nat /\ (C = {} => net = 0)
        /\ (C # {} => Cardinality(C) >= 1)
    <2>1. IsFiniteSet(C)
      BY <1>1, <1>3, <1>7, WindowHasDays, FS_Subset
    <2>2. Cardinality(C) \in Nat /\ (C # {} => Cardinality(C) >= 1)
      BY <2>1, FS_CardinalityType, FS_EmptySet
    <2> QED BY <1>5, <2>1, <2>2, SoldIsNumber, SoldOnNoDay
  <1> DEFINE c == Cardinality(C)
             shown == TargetShown(net, c, days)
  <1>9. /\ C = {} => h.status = "data_insufficient"
        /\ C # {} /\ net = 0 => h.status = "no_sales" /\ h.suggested = 0
        /\ C # {} /\ net # 0 =>
              /\ h.status \in {"urgent", "reorder", "healthy"}
              /\ h.status \in {"urgent", "reorder"} =>
                     Below(held, c, net, 599) \/ Below(held, c, net, 1399)
              /\ h.suggested = IF shown > held THEN shown - held ELSE 0
    BY <1>4, <1>5, <1>6, HealthSays
  <1>10. ASSUME \A d \in Back(at, days) : Covered(d),
                Target(Sold(Back(at, days)), days) - held > 0, Fits(Sold(Back(at, days)))
         PROVE  IF h.status = "no_sales"
                THEN Target(Sold(Back(at, days)), days) - held = Safety - held
                ELSE Target(Sold(Back(at, days)), days) - held - h.suggested \in {-1, 0, 1}
    <2>1. C = Back(at, days) /\ c = days /\ C # {}
      <3>1. C = Back(at, days)
        BY <1>7, <1>10
      <3>2. c = days
        BY <1>1, <1>3, <3>1, WindowHasDays
      <3>3. at \in Back(at, days)
        BY <1>1, <1>3 DEF Back
      <3> QED BY <3>1, <3>2, <3>3
    <2>2. Target(net, days) - held > 0 /\ Fits(net)
      BY <1>5, <1>10, <2>1
    <2>3. CASE net = 0
      BY <1>1, <1>5, <1>9, <2>1, <2>3, TargetOfNothing
    <2>4. CASE net # 0
      <3>1. net \in Nat /\ net >= 1
        BY <1>8, <2>4
      <3>2. Target(net, days) \in {net + Safety, net + Safety + 1}
        BY <1>1, <2>2, <3>1, TargetNear
      <3>3. shown \in {net + Safety, net + Safety + 1}
        <4>1. PICK n : n = net * days + days - 1
          OBVIOUS
        <4>2. net * days \in Nat /\ days \in Nat /\ days >= 1 /\ (net + 1) * days = net * days + days
          BY <1>1, <3>1
        <4>3. n \in Int /\ net * days <= n /\ ~((net + 1) * days <= n)
          BY <4>1, <4>2
        <4>4. n \div days \in Int /\ \A b \in Int : b * days <= n <=> b <= n \div days
          BY <4>2, <4>3, Quotient, Zenon
        <4>5. net <= n \div days /\ ~(net + 1 <= n \div days)
          BY <3>1, <4>3, <4>4
        <4>6. n \div days = net
          BY <3>1, <4>4, <4>5
        <4> QED BY <1>1, <2>1, <3>1, <4>1, <4>6 DEF TargetShown
      <3> HIDE DEF shown
      <3>4. h.suggested = IF shown > held THEN shown - held ELSE 0
        BY <1>9, <2>1, <2>4
      <3>5. Target(net, days) - held - h.suggested \in {-1, 0, 1}
        BY <1>1, <2>2, <3>1, <3>2, <3>3, <3>4
      <3>6. h.status # "no_sales"
        BY <1>9, <2>1, <2>4
      <3> QED BY <1>5, <2>1, <3>5, <3>6
    <2> QED BY <2>3, <2>4
  <1>11. ASSUME NEW short \in CoverageDays, NEW base \in CoverageDays,
                NEW q, q = Quadrant(short, base, days, held)
         PROVE  /\ h.status \in {"data_insufficient", "no_sales"} => q = "insufficient"
                /\ days <= short + base =>
                      /\ q = "insufficient" => h.status \in {"data_insufficient", "no_sales"}
                      /\ DaysLow >= 7 /\ h.status \in {"urgent", "reorder"}
                             => q \notin {"healthy", "slow_risk"}
                /\ q \in {"focal_supplement", "healthy", "slow_risk"}
                       => \A d \in Back(at, short + base) : Covered(d)
    <2> DEFINE D == CoveredDays(Looked(short, base, days))
    <2>1. /\ q = "insufficient" <=> Sold(D) = 0
          /\ Below(held, Cardinality(D), Sold(D), 200 * DaysLow) => q \notin {"healthy", "slow_risk"}
          /\ q \in {"focal_supplement", "healthy", "slow_risk"} =>
                 \A d \in Back(at, short) \cup Back(at - short, base) : Covered(d)
      BY <1>2, <1>11, QuadrantSays
    <2>2. D \subseteq C /\ (days <= short + base => D = C)
      <3>1. short \in Nat /\ base \in Nat
        BY <1>1
      <3>2. Looked(short, base, days) \in Nat /\ Looked(short, base, days) <= days
        BY <1>1, <3>1 DEF Looked
      <3>3. Back(at, Looked(short, base, days)) \subseteq Back(at, days)
        BY <1>1, <1>3, <3>2 DEF Back
      <3>4. days <= short + base => Looked(short, base, days) = days
        BY DEF Looked
      <3> QED BY <1>2, <1>4, <3>3, <3>4 DEF CoveredDays
    <2> HIDE DEF D
    <2>3. net = 0 <=> h.status \in {"data_insufficient", "no_sales"}
      BY <1>8, <1>9
    <2>4. net = 0 => Sold(D) = 0
      BY <1>5, <2>2, SoldOnFewerDays
    <2>5. ASSUME DaysLow >= 7, h.status \in {"urgent", "reorder"}
          PROVE  Below(held, c, net, 200 * DaysLow)
      <3>1. C # {} /\ net # 0
        BY <1>8, <1>9, <2>5
      <3>2. net \in Nat /\ net >= 1 /\ c \in Nat /\ held * c \in Nat
        BY <1>1, <1>8, <3>1
      <3>3. held * c < 7 * net
        <4>1. Below(held, c, net, 599) \/ Below(held, c, net, 1399)
          BY <1>9, <2>5, <3>1
        <4> HIDE DEF c
        <4> QED BY <1>1, <3>2, <4>1, ShortOfStock
      <3>4. 1400 * net <= (200 * DaysLow) * net /\ (200 * DaysLow) * net \in Nat
        <4>1. 1400 <= 200 * DaysLow /\ 200 * DaysLow \in Nat
          BY <1>1, <2>5
        <4> QED BY <3>2, <4>1, TimesGrows
      <3>5. PICK stock : stock = held * c
        OBVIOUS
      <3>6. stock * 200 < (200 * DaysLow) * net
        BY <3>2, <3>3, <3>4, <3>5
      <3> QED BY <3>5, <3>6 DEF Below
    <2>6. Back(at, short + base) \subseteq Back(at, short) \cup Back(at - short, base)
      <3>1. short \in Nat /\ base \in Nat
        BY <1>1
      <3>2. ASSUME NEW d \in Back(at, short + base)
            PROVE  d \in Back(at, short) \/ d \in Back(at - short, base)
        BY <1>3, <3>1, <3>2 DEF Back
      <3> QED BY <3>2
    <2> QED BY <1>5, <2>1, <2>2, <2>3, <2>4, <2>5, <2>6
  <1> QED BY <1>2, <1>6, <1>10, <1>11

-----------------------------------------------------------------------------
(* Replenishment.  What is judged depends on the rows, not on their order.*)

LEMMA SumRearranged ==
    ASSUME NEW S, IsFiniteSet(S), NEW T, NEW p \in Bijection(S, T),
           NEW f, NEW g, \A k \in S : f[k] = g[p[k]], \A k \in T : g[k] \in Int
    PROVE  SumFunctionOnSet(f, S) = SumFunctionOnSet(g, T)
  <1>1. /\ p \in [S -> T] /\ \A j, k \in S : p[j] = p[k] => j = k
        /\ \A t \in T : \E k \in S : p[k] = t
    BY DEF Bijection, Injection, Surjection, IsInjective
  <1> DEFINE of == [k \in S |-> {p[k]}]
  <1>2. ASSUME NEW k \in S
        PROVE  /\ IsFiniteSet(of[k]) /\ f[k] = SumFunctionOnSet(g, of[k])
               /\ \A x \in of[k] : g[x] \in Int
    <2>1. p[k] \in T /\ g[p[k]] \in Int /\ of[k] = {p[k]}
      BY <1>1
    <2>2. IsFiniteSet({p[k]}) /\ {} \cup {p[k]} = {p[k]}
      BY FS_Singleton
    <2>3. SumFunctionOnSet(g, {} \cup {p[k]}) = g[p[k]] + SumFunctionOnSet(g, {})
      BY <2>1, SumInsert, FS_EmptySet
    <2> HIDE DEF of
    <2>4. SumFunctionOnSet(g, of[k]) = g[p[k]]
      BY <2>1, <2>2, <2>3, SumEmpty
    <2> QED BY <2>1, <2>2, <2>4
  <1>3. \A j, k \in S : j # k => of[j] \cap of[k] = {}
    BY <1>1
  <1>4. UNION {of[k] : k \in S} = T
    <2>1. ASSUME NEW t \in T PROVE t \in UNION {of[k] : k \in S}
      <3>1. PICK k \in S : p[k] = t
        BY <1>1
      <3>2. t \in of[k]
        BY <3>1
      <3> QED BY <3>2
    <2>2. ASSUME NEW k \in S PROVE of[k] \subseteq T
      BY <1>1
    <2> HIDE DEF of
    <2> QED BY <2>1, <2>2
  <1> HIDE DEF of
  <1>5. SumFunctionOnSet(f, S) = SumFunctionOnSet(g, UNION {of[k] : k \in S})
    BY <1>2, <1>3, SumOfSums
  <1> QED BY <1>4, <1>5

(* A row of the snapshot of an evaluation.                               *)
Figure == [net : Nat, whole : BOOLEAN]

LEMMA FiguresAreRows ==
    ASSUME sales \in Seq(Sale), NEW d
    PROVE  Figures(d) \in Seq(Figure)
  <1> DEFINE P == OfDay(d)
             rows == InOrder(P)
  <1>1. P \in SUBSET (1..Len(sales)) /\ Len(sales) \in Nat
    BY DEF OfDay
  <1>2. Figures(d) = [k \in DOMAIN rows |-> [net |-> sales[rows[k]].net, whole |-> sales[rows[k]].whole]]
    BY DEF Figures
  <1> HIDE DEF P
  <1>3. Cardinality(P) \in Nat /\ rows \in [1..Cardinality(P) -> P]
    BY <1>1, InOrderIs DEF Enumerates, Ordered
  <1> HIDE DEF rows
  <1>4. ASSUME NEW k \in 1..Cardinality(P) PROVE sales[rows[k]] \in Sale
    <2>1. rows[k] \in 1..Len(sales)
      BY <1>1, <1>3
    <2> QED BY <2>1
  <1>5. \A k \in 1..Cardinality(P) :
            [net |-> sales[rows[k]].net, whole |-> sales[rows[k]].whole] \in Figure
    BY <1>4 DEF Sale, Figure
  <1> QED BY <1>2, <1>3, <1>5

LEMMA RowsSumAlike ==
    ASSUME NEW s \in Seq(Figure), NEW t \in Seq(Figure), SameRows(s, t)
    PROVE  NetOf(s) = NetOf(t) /\ (Judgeable(s) <=> Judgeable(t))
  <1> DEFINE S == DOMAIN s
             T == DOMAIN t
             f == [k \in S |-> s[k].net]
             g == [k \in T |-> t[k].net]
  <1>1. PICK p \in Bijection(S, T) : \A k \in S : t[p[k]] = s[k]
    BY DEF SameRows
  <1>2. p \in [S -> T] /\ \A j \in T : \E k \in S : p[k] = j
    BY DEF Bijection, Injection, Surjection
  <1>3. NetOf(s) = SumFunctionOnSet(f, S) /\ NetOf(t) = SumFunctionOnSet(g, T)
    BY DEF NetOf, SumFunction
  <1>4. IsFiniteSet(S)
    <2>1. S = 1..Len(s) /\ Len(s) \in Nat
      OBVIOUS
    <2> HIDE DEF S
    <2> QED BY <2>1, FS_Interval
  <1>5. \A k \in S : f[k] = g[p[k]]
    BY <1>1, <1>2
  <1>6. ASSUME NEW k \in T PROVE g[k] \in Int
    <2>1. t[k] \in Figure
      OBVIOUS
    <2> QED BY <2>1 DEF Figure
  <1>7. Judgeable(s) <=> Judgeable(t)
    BY <1>1, <1>2 DEF Judgeable
  <1> HIDE DEF f, g, S, T
  <1>8. SumFunctionOnSet(f, S) = SumFunctionOnSet(g, T)
    BY <1>1, <1>4, <1>5, <1>6, SumRearranged
  <1> QED BY <1>3, <1>7, <1>8

(* An evaluation of a suggestion of qty says what its rows say.          *)
Judged(e, qty) ==
    LET complete == \A d \in e.from..e.to : Judgeable(e.seen[d])
        actual == SumFunction([d \in e.from..e.to |-> NetOf(e.seen[d])])
    IN /\ \A d \in e.from..e.to : e.seen[d] \in Seq(Figure)
       /\ e.status = IF complete THEN "evaluated" ELSE "insufficient"
       /\ e.error = IF complete THEN Error(actual, qty) ELSE -1

LEMMA EvaluationIsJudged ==
    ASSUME sales \in Seq(Sale), NEW w
    PROVE  Judged(Evaluation(w), suggestion.qty)
  <1> DEFINE D == w.from..w.to
             seen == [d \in D |-> Figures(d)]
             complete == \A d \in D : Judgeable(seen[d])
             actual == SumFunction([d \in D |-> NetOf(seen[d])])
             status == IF complete THEN "evaluated" ELSE "insufficient"
             error == IF complete THEN Error(actual, suggestion.qty) ELSE -1
             e == [from |-> w.from, to |-> w.to, seen |-> seen, status |-> status, error |-> error]
  <1>1. DOMAIN seen = D
    OBVIOUS
  <1>2. Evaluation(w) = e
    BY ONLY <1>1 DEF Evaluation
  <1>3. \A d \in D : seen[d] \in Seq(Figure)
    BY FiguresAreRows
  <1> HIDE DEF seen
  <1>4. e.from..e.to = D /\ e.seen = seen /\ e.status = status /\ e.error = error
    OBVIOUS
  <1> HIDE DEF e, D
  <1>5. Judged(e, suggestion.qty)
    BY <1>3, <1>4 DEF Judged
  <1> QED BY <1>2, <1>5

LEMMA JudgedTheSame ==
    ASSUME NEW qty, NEW e, Judged(e, qty), NEW f, Judged(f, qty), e.from = f.from, e.to = f.to,
           \A d \in e.from..e.to : SameRows(e.seen[d], f.seen[d])
    PROVE  e.status = f.status /\ e.error = f.error
  <1> DEFINE D == e.from..e.to
             nets(s) == [d \in D |-> NetOf(s[d])]
             complete(s) == \A d \in D : Judgeable(s[d])
  <1>1. \A d \in D : e.seen[d] \in Seq(Figure) /\ f.seen[d] \in Seq(Figure)
    BY DEF Judged
  <1>2. \A d \in D : /\ NetOf(e.seen[d]) = NetOf(f.seen[d])
                     /\ Judgeable(e.seen[d]) <=> Judgeable(f.seen[d])
    BY <1>1, RowsSumAlike
  <1>3. nets(e.seen) = nets(f.seen) /\ (complete(e.seen) <=> complete(f.seen))
    BY <1>2
  <1>4. /\ e.status = IF complete(e.seen) THEN "evaluated" ELSE "insufficient"
        /\ e.error = IF complete(e.seen) THEN Error(SumFunction(nets(e.seen)), qty) ELSE -1
        /\ f.status = IF complete(f.seen) THEN "evaluated" ELSE "insufficient"
        /\ f.error = IF complete(f.seen) THEN Error(SumFunction(nets(f.seen)), qty) ELSE -1
    BY DEF Judged
  <1> HIDE DEF nets, complete
  <1> QED BY <1>3, <1>4

-----------------------------------------------------------------------------
(* Replenishment.  A suggestion is made once, from whole sales, and its   *)
(* evaluations keep to what they were made of while the sales change.     *)

ReplInv ==
    /\ sales \in Seq(Sale) /\ sales # << >>
    /\ suggestion = NoSuggestion => evaluations = {} /\ judging = NotJudging
    /\ BringsToTarget
    /\ \A e \in evaluations : Judged(e, suggestion.qty)
    /\ judging # NotJudging => Judged(judging, suggestion.qty)

LEMMA ReplInitHolds == ReplInit => ReplInv
  <1> SUFFICES ASSUME ReplInit PROVE ReplInv
    OBVIOUS
  <1>1. sales \in Histories /\ suggestion = NoSuggestion /\ evaluations = {} /\ judging = NotJudging
    BY DEF ReplInit
  <1>2. sales \in Seq(Sale) /\ sales # << >>
    BY <1>1, ReplenishmentAssumption DEF ReplenishmentAssumption
  <1> QED BY <1>1, <1>2 DEF ReplInv, BringsToTarget

LEMMA ReplNextHolds == ReplInv /\ [ReplNext]_replVars => ReplInv'
  <1> SUFFICES ASSUME ReplInv, [ReplNext]_replVars PROVE ReplInv'
    OBVIOUS
  <1>1. /\ sales \in Seq(Sale) /\ sales # << >>
        /\ suggestion = NoSuggestion => evaluations = {} /\ judging = NotJudging
        /\ BringsToTarget
        /\ \A e \in evaluations : Judged(e, suggestion.qty)
        /\ judging # NotJudging => Judged(judging, suggestion.qty)
    BY DEF ReplInv
  <1>2. CASE UNCHANGED replVars
    BY <1>1, <1>2 DEF ReplInv, BringsToTarget, replVars
  <1>3. CASE RebuildDay
    <2>1. PICK r \in Rebuilds :
              /\ \/ sales' = Append(sales, r)
                 \/ \E k \in OfDay(r.day) : sales' = Append(RemoveAt(sales, k), r)
              /\ UNCHANGED <<suggestion, evaluations, judging>>
      BY <1>3 DEF RebuildDay
    <2>2. r \in Sale
      BY ReplenishmentAssumption DEF ReplenishmentAssumption
    <2>3. ASSUME NEW kept \in Seq(Sale), sales' = Append(kept, r)
          PROVE  sales' \in Seq(Sale) /\ sales' # << >>
      BY <2>2, <2>3
    <2>4. ASSUME NEW k \in OfDay(r.day) PROVE RemoveAt(sales, k) \in Seq(Sale)
      BY <1>1 DEF RemoveAt, OfDay
    <2>5. sales' \in Seq(Sale) /\ sales' # << >>
      BY <1>1, <2>1, <2>3, <2>4
    <2> QED BY <1>1, <2>1, <2>5 DEF ReplInv, BringsToTarget
  <1>4. CASE Suggest
    <2>0. PICK days \in CoverageDays, held \in OnHand :
              \E n, t : /\ n = Sold(Back(SalesAsOf, days)) /\ t = Target(n, days)
                        /\ suggestion' = [qty |-> t - held, onHand |-> held,
                                          sold |-> n, asOf |-> SalesAsOf]
      BY <1>4 DEF Suggest
    <2>1. PICK n, t : /\ n = Sold(Back(SalesAsOf, days)) /\ t = Target(n, days)
                      /\ suggestion' = [qty |-> t - held, onHand |-> held,
                                        sold |-> n, asOf |-> SalesAsOf]
      BY <2>0
    <2>2. suggestion = NoSuggestion /\ UNCHANGED <<sales, evaluations, judging>>
      BY <1>4 DEF Suggest
    <2>3. days \in {7, 14, 30} /\ held \in Nat /\ Safety \in Nat
      BY ReplenishmentAssumption DEF ReplenishmentAssumption
    <2>4. n \in Nat
      BY <1>1, <2>1, SoldIsNumber
    <2>5. Fits(n) => t \in {n + Safety, n + Safety + 1}
      <3>1. CASE n = 0
        BY <2>1, <2>3, <3>1, TargetOfNothing
      <3>2. CASE n # 0
        BY <2>1, <2>3, <2>4, <3>2, TargetNear
      <3> QED BY <3>1, <3>2
    <2>6. suggestion'.qty = t - held /\ suggestion'.onHand = held /\ suggestion'.sold = n
      BY <2>1
    <2>7. BringsToTarget'
      <3> SUFFICES ASSUME Fits(n)
                   PROVE  (t - held) + held - n - Safety \in {0, 1}
        BY <2>6 DEF BringsToTarget, Fits
      <3> QED BY <2>3, <2>4, <2>5
    <2> QED BY <1>1, <2>2, <2>7 DEF ReplInv
  <1>5. CASE StartEvaluation
    <2>1. /\ suggestion # NoSuggestion /\ UNCHANGED <<sales, suggestion, evaluations>>
          /\ \E w \in Windows : judging' = Evaluation(w)
      BY <1>5 DEF StartEvaluation
    <2>2. Judged(judging', suggestion.qty)
      BY <1>1, <2>1, EvaluationIsJudged
    <2> QED BY <1>1, <2>1, <2>2 DEF ReplInv, BringsToTarget
  <1>6. CASE RecordEvaluation
    <2>1. /\ judging # NotJudging /\ evaluations' = evaluations \cup {judging}
          /\ judging' = NotJudging /\ UNCHANGED <<sales, suggestion>>
      BY <1>6 DEF RecordEvaluation
    <2>2. \A e \in evaluations' : Judged(e, suggestion.qty)
      BY <1>1, <2>1
    <2> QED BY <1>1, <2>1, <2>2 DEF ReplInv, BringsToTarget
  <1> QED BY <1>2, <1>3, <1>4, <1>5, <1>6 DEF ReplNext

LEMMA ReplInvSuffices == ReplInv => SuggestedAndJudged
  <1> SUFFICES ASSUME ReplInv PROVE SuggestedAndJudged
    OBVIOUS
  <1>1. ViewsAgree
    BY ViewsHold DEF ReplInv
  <1>2. JudgedAlike
    <2>1. ASSUME NEW e \in evaluations, NEW f \in evaluations, e.from = f.from, e.to = f.to,
                 \A d \in e.from..e.to : SameRows(e.seen[d], f.seen[d])
          PROVE  e.status = f.status /\ e.error = f.error
      BY <2>1, JudgedTheSame DEF ReplInv
    <2> QED BY <2>1 DEF JudgedAlike
  <1> QED BY <1>1, <1>2 DEF ReplInv, SuggestedAndJudged

(* Whatever is sold, however its sales are rebuilt and wherever doubles    *)
(* fall: what is suggested brings the stock to what was sold and the       *)
(* safety stock, or one more; the same sales are judged alike; and the     *)
(* dashboards agree with it, to one more or less, and with each other as   *)
(* far back as both look (calculate_replenishment, evaluate_replenishment, *)
(* build_sku_health, build_product_quadrant).                              *)
THEOREM SuggestionsHold == ReplSpec => []SuggestedAndJudged
  BY ReplInitHolds, ReplNextHolds, ReplInvSuffices, PTL DEF ReplSpec

-----------------------------------------------------------------------------
(* The parts together: orders and events rest in a first state of their    *)
(* own, the others in one of the composition.                              *)
WayInv ==
    /\ Inv /\ TypeInv /\ EventInv
    /\ IF part = "import" THEN ImportInv ELSE ImportRests
    /\ IF part = "merge" THEN MergeInv ELSE MergeRests

LEMMA WayInit == OrdersInit => WayInv
  BY InvInit, TypeInvInit, EventInitHolds, ImportInitHolds, MergeInvInit DEF OrdersInit, WayInv

LEMMA WayNext == WayInv /\ [OrdersNext]_ordersVars => WayInv'
  <1> SUFFICES ASSUME WayInv, [OrdersNext]_ordersVars PROVE WayInv'
    OBVIOUS
  <1>1. /\ part' = part /\ [Next]_vars /\ [EventNext]_eventVars
        /\ IF part = "import" THEN [ImportNext]_importVars ELSE UNCHANGED importVars
        /\ IF part = "merge" THEN [MergeNext]_mergeVars ELSE UNCHANGED mergeVars
    BY DEF OrdersNext, ordersVars
  <1>2. Inv' /\ TypeInv'
    BY <1>1, InvNext, TypeInvStep DEF WayInv
  <1>3. EventInv'
    BY <1>1, EventNextHolds DEF WayInv
  <1>4. IF part = "import" THEN ImportInv' ELSE ImportRests'
    <2>1. CASE part = "import"
      BY <1>1, <2>1, ImportNextHolds DEF WayInv
    <2>2. CASE part # "import"
      BY <1>1, <2>2 DEF WayInv, ImportRests, importVars
    <2> QED BY <2>1, <2>2
  <1>5. IF part = "merge" THEN MergeInv' ELSE MergeRests'
    <2>1. CASE part = "merge"
      BY <1>1, <2>1, MergeInvStep DEF WayInv
    <2>2. CASE part # "merge"
      BY <1>1, <2>2 DEF WayInv, MergeRests, mergeVars
    <2> QED BY <2>1, <2>2
  <1> QED BY <1>1, <1>2, <1>3, <1>4, <1>5 DEF WayInv

(* Whichever part is at work keeps to its types.                           *)
THEOREM PartsAreTyped == OrdersSpec => []PartsTypeOK
  <1>1. WayInv => PartsTypeOK
    BY ImportTypes, MergeInvMeans, EventsMean DEF WayInv, TypeInv, PartsTypeOK
  <1> QED BY WayInit, WayNext, <1>1, PTL DEF OrdersSpec

(* Whatever arrives as a file or a batch is taken as a whole: no row of a  *)
(* report, no line of an accepted order and no event of a batch is lost    *)
(* (external_import_commit, ingest_orders, ingest_events).                 *)
THEOREM ArrivalsAreWhole == OrdersSpec => []ArrivalsAreTakenWhole
  <1>1. WayInv => EveryRowAnswered
    BY ImportAnswers DEF WayInv, ImportRests, EveryRowAnswered
  <1>2. WayInv => AcceptedOrdersAreWhole
    BY MergeInvMeans DEF WayInv, MergeRests, AcceptedOrdersAreWhole
  <1>3. WayInv => ArrivalsAreTakenWhole
    BY <1>1, <1>2, EventsMean DEF WayInv, ArrivalsAreTakenWhole
  <1> QED BY WayInit, WayNext, <1>3, PTL DEF OrdersSpec

(* Orders and events are those of their parts, whichever part is at work;  *)
(* of the others each is at work, or rests.                                *)
LEMMA OrdersAndEventsAreThere == OrdersSpec => Spec /\ EventSpec
  <1>1. OrdersInit => Init /\ EventInit
    BY DEF OrdersInit
  <1>2. [OrdersNext]_ordersVars => [Next]_vars /\ [EventNext]_eventVars
    BY DEF OrdersNext, ordersVars
  <1> QED BY <1>1, <1>2, PTL DEF OrdersSpec, Spec, EventSpec

LEMMA PartsWorkOrRest ==
    OrdersSpec => /\ ProfitSpec \/ []ProfitRests
                  /\ QualitySpec \/ []QualityRests
                  /\ ReplSpec \/ []ReplRests
  <1>1. OrdersInit => /\ ProfitInit \/ (ProfitRests /\ part # "profit")
                      /\ QualityInit \/ (QualityRests /\ part # "quality")
                      /\ ReplInit \/ (ReplRests /\ part # "replenishment")
    BY DEF OrdersInit
  <1>2. [OrdersNext]_ordersVars =>
            [ProfitNext]_profitVars /\ [QualityNext]_qualityVars /\ [ReplNext]_replVars
    BY DEF OrdersNext, ordersVars
  <1>3. /\ ProfitRests /\ part # "profit" /\ [OrdersNext]_ordersVars
              => (ProfitRests /\ part # "profit")'
        /\ QualityRests /\ part # "quality" /\ [OrdersNext]_ordersVars
              => (QualityRests /\ part # "quality")'
        /\ ReplRests /\ part # "replenishment" /\ [OrdersNext]_ordersVars
              => (ReplRests /\ part # "replenishment")'
    BY DEF OrdersNext, ordersVars, profitVars, qualityVars, replVars,
           ProfitRests, QualityRests, ReplRests
  <1> QED BY <1>1, <1>2, <1>3, PTL DEF OrdersSpec, ProfitSpec, QualitySpec, ReplSpec

(* A part that rests has shown nothing.                                    *)
LEMMA RestsShowNothing ==
    /\ ProfitRests => SummaryIsSumOfDetails
    /\ QualityRests => VerdictIsEarned
    /\ ReplRests => SuggestedAndJudged
  <1>1. ProfitRests => SummaryIsSumOfDetails
    BY DEF ProfitRests, NoReport, SummaryIsSumOfDetails
  <1>2. QualityRests => VerdictIsEarned
    <2> SUFFICES ASSUME QualityRests PROVE VerdictIsEarned
      OBVIOUS
    <2>1. DOMAIN evidence.kept = {} /\ gated = "null" /\ replayed = "null"
      BY DEF QualityRests
    <2> QED BY <2>1 DEF VerdictIsEarned, LedgerTellsLosses
  <1>3. ReplRests => SuggestedAndJudged
    BY DEF ReplRests, SuggestedAndJudged, JudgedAlike, BringsToTarget
  <1> QED BY <1>1, <1>2, <1>3

(* What holds of orders, their sales, profits and verdicts, and of what is *)
(* ordered again, holds on the whole way (SalesData).                      *)
THEOREM SalesDataIsKept ==
    OrdersSpec => /\ [](OrdersAreTheLatest /\ SalesEqualLines)
                  /\ [](SummaryIsSumOfDetails /\ VerdictIsEarned /\ SuggestedAndJudged)
                  /\ AnchorsAreFinal
  <1>1. OrdersSpec => [](OrdersAreTheLatest /\ SalesEqualLines)
    BY OrdersAndEventsAreThere, LatestOrdersAreStored, SalesAreOfTheLines, PTL
  <1>2. OrdersSpec => AnchorsAreFinal
    BY OrdersAndEventsAreThere, AnchorsStayPut, PTL
  <1>3. OrdersSpec => [](SummaryIsSumOfDetails /\ VerdictIsEarned /\ SuggestedAndJudged)
    BY PartsWorkOrRest, RestsShowNothing, DetailsAddUp, VerdictsAreEarned, SuggestionsHold, PTL
  <1> QED BY <1>1, <1>2, <1>3, PTL
=============================================================================
