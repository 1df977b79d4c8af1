----------------------------- MODULE OrderMerge -----------------------------
(***************************************************************************)
(* A flattened report has one row per product of an order.  Its rows are   *)
(* merged into one record per order (app/order_aggregation.py) before      *)
(* ingest_orders of app/external_orders.py refuses a batch that holds two  *)
(* versions of an order.  What is stored is the matter of ExternalOrders.  *)
(***************************************************************************)
EXTENDS Integers, Sequences, FiniteSets, SequencesExt, Places

CONSTANTS
    OrderNos,      \* order_group_key: account, store and number
    RowIds,        \* external_line_id of a row that has one; 0 for line:0
    Strict,        \* STRICT_FIELDS: status, currency and times of an order
    Amounts,       \* gross_amount of a row
    Stated,        \* FIRST_NON_NULL_FIELDS
    Unstated,      \* ... and their null
    MaxReport      \* a bound on the rows of a batch

ASSUME OrderMergeAssumption ==
    /\ 0 \in RowIds /\ RowIds \subseteq Nat /\ Amounts \subseteq Nat
    /\ Unstated \notin Stated /\ MaxReport \in Nat

VARIABLES
    sheet,         \* the records of the batch, and where they come from
    merged,        \* what aggregate_order_records made of them
    mergeStep      \* "aggregate", "check", or how the batch was taken

mergeVars == <<sheet, merged, mergeStep>>

(* A line remembers the row it comes from, and has its amount.             *)
Line == [id : Nat, row : 1..MaxReport, amount : Amounts]
OrderRecord == [no : OrderNos, strict : Strict, stated : Stated \cup {Unstated},
                gross : Nat, lines : Seq(Line)]

(* One line for each row of a report, with the amount of the row; records  *)
(* of another source have whatever lines they have, here one.              *)
RecordOf(cells, row) ==
    [no |-> cells.no, strict |-> cells.strict, stated |-> cells.stated, gross |-> cells.gross,
     lines |-> <<[id |-> cells.id, row |-> row, amount |-> cells.gross]>>]
Cells == [no : OrderNos, strict : Strict, stated : Stated \cup {Unstated},
          gross : Amounts, id : RowIds]
Batches == UNION {[csv : BOOLEAN, rows : [1..n -> Cells]] : n \in 0..MaxReport}
Records(b) == [i \in 1..Len(b.rows) |-> RecordOf(b.rows[i], i)]

MergeTypeOK ==
    /\ sheet \in Batches
    /\ merged \in Seq(OrderRecord)
    /\ mergeStep \in {"aggregate", "check", "accepted", "duplicate"}

MergeInit == sheet \in Batches /\ merged = <<>> /\ mergeStep = "aggregate"

-----------------------------------------------------------------------------
SumOf(values) == SumFunction(values)

Field(group, f) == [i \in DOMAIN group |-> group[i][f]]

(* resolve_amount: what the rows agree on, the one value that is not zero, *)
(* or the sum.                                                             *)
ResolveAmount(values) ==
    LET distinct == ToSet(values) IN
    IF Cardinality(distinct) = 1 THEN values[1]
    ELSE IF Cardinality(distinct \ {0}) = 1 THEN CHOOSE v \in distinct : v # 0
    ELSE SumOf(values)

(* merge_lines: numbered anew from line:0, all of them, when two would be  *)
(* the same.                                                               *)
Numbered(lines) ==
    IF IsInjective(Field(lines, "id")) THEN lines
    ELSE [k \in DOMAIN lines |-> [lines[k] EXCEPT !.id = k - 1]]

(* _first_non_null *)
FirstStated(group) ==
    LET said == {i \in DOMAIN group : group[i].stated # Unstated}
    IN IF said = {} THEN Unstated ELSE group[CHOOSE i \in said : \A j \in said : i <= j].stated

(* merge_group: rows of a report that tell the same about their order.     *)
Mergeable(group, csv) ==
    csv /\ Len(group) >= 2 /\ \A i \in DOMAIN group : group[i].strict = group[1].strict

(* The lines of the rows in a row; the hash is that of the content.        *)
MergeGroup(group) ==
    [group[1] EXCEPT !.gross = ResolveAmount(Field(group, "gross")),
                     !.stated = FirstStated(group),
                     !.lines = Numbered(FlattenSeq(Field(group, "lines")))]

(* aggregate_order_records: the groups come in the order in which their    *)
(* numbers first appear, a group that is not merged row by row.            *)
Group(records, no) ==
    LET places == InOrder({i \in DOMAIN records : records[i].no = no})
    IN [k \in DOMAIN places |-> records[places[k]]]
Heads(records) ==
    InOrder({i \in DOMAIN records : \A j \in 1..i - 1 : records[j].no # records[i].no})
GroupOutcome(group, csv) == IF Mergeable(group, csv) THEN <<MergeGroup(group)>> ELSE group
Aggregate(records, csv) ==
    LET heads == Heads(records)
    IN FlattenSeq([k \in DOMAIN heads |-> GroupOutcome(Group(records, records[heads[k]].no), csv)])

(* payload_hash covers all of a record but where its lines stood.          *)
Hash(record) == [record EXCEPT !.lines =
                    [k \in DOMAIN record.lines |-> <<record.lines[k].id, record.lines[k].amount>>]]

(* find_duplicate_order_numbers *)
Duplicates(records) ==
    \E i, j \in DOMAIN records :
        records[i].no = records[j].no /\ Hash(records[i]) # Hash(records[j])

-----------------------------------------------------------------------------
AggregateBatch ==
    /\ mergeStep = "aggregate"
    /\ merged' = Aggregate(Records(sheet), sheet.csv)
    /\ mergeStep' = "check"
    /\ UNCHANGED sheet

(* ingest_orders: DUPLICATE_ORDER_NO_IN_BATCH refuses all of it.           *)
CheckBatch ==
    /\ mergeStep = "check"
    /\ mergeStep' = IF Duplicates(merged) THEN "duplicate" ELSE "accepted"
    /\ UNCHANGED <<sheet, merged>>

MergeNext == AggregateBatch \/ CheckBatch

MergeSpec == MergeInit /\ [][MergeNext]_mergeVars

-----------------------------------------------------------------------------
(* A batch that is accepted says one thing of each order.  From a report   *)
(* that is one record with the lines of all its rows, in their order and   *)
(* under different ids, and its rows agree on the order; merging what was  *)
(* merged changes nothing, so that an order is not taken for changed when  *)
(* the file comes again (aggregate_order_records, merge_lines).            *)
AcceptedOrdersAreWhole ==
    mergeStep = "accepted" =>
        /\ Aggregate(merged, sheet.csv) = merged
        /\ \A i \in DOMAIN merged :
              LET rows == {n \in DOMAIN sheet.rows : sheet.rows[n].no = merged[i].no}
                  lines == merged[i].lines
              IN /\ IsInjective(Field(lines, "id"))
                 /\ sheet.csv => /\ ToSet(Field(lines, "row")) = rows
                                 /\ \A k \in 1..Len(lines) - 1 : lines[k].row < lines[k + 1].row
                                 /\ \A n \in rows : sheet.rows[n].strict = merged[i].strict
                                 /\ \A j \in DOMAIN merged : merged[j].no = merged[i].no => j = i
=============================================================================
