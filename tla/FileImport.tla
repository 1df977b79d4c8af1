----------------------------- MODULE FileImport -----------------------------
(***************************************************************************)
(* An uploaded CSV report: its rows are read, those that can not be read   *)
(* are isolated by bisection (app/imports.py over _decode_input and        *)
(* load_records of app/connectors.py), and the rest is stored by           *)
(* external_import_commit of app/main.py, one transaction after another.   *)
(*                                                                         *)
(* The older door, SyncApplicationService.ingest_inventory, takes a file   *)
(* whole or not at all.                                                    *)
(*                                                                         *)
(* A row keeps two cells: one that the rows below may leave blank, since a *)
(* CSV takes it from its first row (the account, the time the stock was    *)
(* counted), and the rest of the row, which is right or wrong.             *)
(***************************************************************************)
EXTENDS Integers, Sequences, FiniteSets

CONSTANTS
    Refs,          \* what the first of these cells may say
    Blank,
    MaxRows        \* a bound on the rows of a file

ASSUME FileImportAssumption ==
    /\ Blank \notin Refs /\ MaxRows \in Nat

VARIABLES
    upload,        \* the file and the form it is sent with
    parsed,        \* what parse_upload made of it: records and rejected rows
    importStep,    \* what the call is at, or how it was answered
    importRun,     \* status of the run of the call in external_sync_runs
    facts,         \* external_inventory_snapshots
    isolated       \* rows of this upload in external_import_rejections

importVars == <<upload, parsed, importStep, importRun, facts, isolated>>

Row == [ref : Refs \cup {Blank}, right : BOOLEAN]
Rows == UNION {[1..n -> Row] : n \in 0..MaxRows}

(* scoped: the cell is one of account, store and warehouse, which the form *)
(* may give and the rows of a batch must share; otherwise it is as_of.     *)
(* strict: it comes through the older door, which has no form, no mapping  *)
(* of columns and no leave to skip rows.                                   *)
Upload == {u \in [rows : Rows, scoped : BOOLEAN, form : Refs \cup {Blank},
                  mapped : BOOLEAN, allow : BOOLEAN, strict : BOOLEAN] :
              /\ u.scoped \/ u.form = Blank
              /\ u.strict => u.form = Blank /\ u.mapped /\ ~u.allow}

(* A record is known by the row, one sku each, and by what the cell says.  *)
Record == [row : 1..MaxRows, ref : Refs]
NothingParsed == [records |-> <<>>, bad |-> <<>>]
Refusals == {"missing", "rejected", "empty", "mixed"}
ImportSteps == {"parse", "begin", "ingest", "complete", "persist", "stored", "failed", "stopped"} \cup Refusals

ImportTypeOK ==
    /\ upload \in Upload
    /\ parsed.records \in Seq(Record) /\ parsed.bad \in Seq(1..MaxRows)
    /\ importStep \in ImportSteps
    /\ importRun \in {"none", "running", "succeeded", "failed"}
    /\ facts \subseteq Record /\ isolated \subseteq 1..MaxRows

ImportInit ==
    /\ upload \in Upload
    /\ parsed = NothingParsed /\ importStep = "parse" /\ importRun = "none"
    /\ facts = {} /\ isolated = {}

-----------------------------------------------------------------------------
(* _decode_input, then the defaults of load_records: what the cell of row  *)
(* i says when the rows from the one after a are read as a file.           *)
Said(u, a, i) ==
    IF u.rows[i].ref # Blank THEN u.rows[i].ref
    ELSE IF u.rows[a + 1].ref # Blank THEN u.rows[a + 1].ref
    ELSE u.form

(* A mutant: a row is read whether its cell says anything or not.          *)
ReadsUnsaid(u, a, i) == u.rows[i].right

(* normalize_inventory_row, normalize_order_row: it raises, or not.        *)
Reads(u, a, i) == u.rows[i].right /\ Said(u, a, i) # Blank

(* A mutant: the second half begins after the middle row.                  *)
HalvesApart(a, b) == LET mid == (a + b) \div 2 IN <<<<a, mid>>, <<mid + 1, b>>>>

Halves(a, b) == LET mid == (a + b) \div 2 IN <<<<a, mid>>, <<mid, b>>>>

(* _isolate on the rows from a to b, without a: the whole of it when every *)
(* row reads, otherwise each half as a file of its own.                    *)
Isolate(u) ==
    LET n == Len(u.rows)
        isolate[r \in (0..n) \X (0..n)] ==
            LET a == r[1]  b == r[2]  half == Halves(a, b) IN
            IF \A i \in a + 1..b : Reads(u, a, i)
            THEN [records |-> [k \in 1..b - a |-> [row |-> a + k, ref |-> Said(u, a, a + k)]],
                  bad |-> <<>>]
            ELSE IF b - a = 1 THEN [records |-> <<>>, bad |-> <<b>>]
            ELSE [records |-> isolate[half[1]].records \o isolate[half[2]].records,
                  bad |-> isolate[half[1]].bad \o isolate[half[2]].bad]
    IN isolate[<<0, n>>]

(* A required column that is not mapped leaves no records at all.          *)
Parse ==
    /\ importStep = "parse" /\ ~upload.strict
    /\ parsed' = IF upload.mapped THEN Isolate(upload) ELSE NothingParsed
    /\ importStep' = IF upload.mapped THEN "begin" ELSE "missing"
    /\ UNCHANGED <<upload, importRun, facts, isolated>>

(* load_records, with no bisection: one row that does not read refuses all.*)
ParseWhole ==
    LET n == Len(upload.rows)
        reads == \A i \in 1..n : Reads(upload, 0, i)
    IN /\ importStep = "parse" /\ upload.strict
       /\ parsed' = IF reads THEN Isolate(upload) ELSE NothingParsed
       /\ importStep' = IF reads THEN "begin" ELSE "rejected"
       /\ UNCHANGED <<upload, importRun, facts, isolated>>

-----------------------------------------------------------------------------
(* validate_inventory_batch_scope; other columns than the scope may differ.*)
Mixed == upload.scoped /\ \E m, n \in 1..Len(parsed.records) :
                              parsed.records[m].ref # parsed.records[n].ref

(* external_import_commit: what it refuses before it has begun a run.      *)
Refusal ==
    IF parsed.bad # <<>> /\ ~upload.allow THEN "rejected"
    ELSE IF parsed.records = <<>> THEN "empty" ELSE IF Mixed THEN "mixed" ELSE "none"

BeginImport ==
    /\ importStep = "begin"
    /\ IF Refusal = "none"
       THEN importStep' = "ingest" /\ importRun' = "running"
       ELSE importStep' = Refusal /\ UNCHANGED importRun
    /\ UNCHANGED <<upload, parsed, facts, isolated>>

(* ingest_inventory: a fact that is there is left alone, in one commit.    *)
Ingest ==
    /\ importStep = "ingest"
    /\ facts' = facts \cup {parsed.records[k] : k \in 1..Len(parsed.records)}
    /\ importStep' = "complete"
    /\ UNCHANGED <<upload, parsed, importRun, isolated>>

(* complete_sync_run, of a run without resources.                          *)
CompleteImport ==
    /\ importStep = "complete"
    /\ importRun' = "succeeded"
    /\ importStep' = IF upload.strict THEN "stored" ELSE "persist"
    /\ UNCHANGED <<upload, parsed, facts, isolated>>

(* fail_sync_run, when a transaction after the run's own fails: the facts  *)
(* that are committed by then stay.                                        *)
FailImport ==
    /\ importStep \in {"ingest", "complete"}
    /\ importRun' = "failed" /\ importStep' = "failed"
    /\ UNCHANGED <<upload, parsed, facts, isolated>>

(* _persist_rejections, in a transaction of its own.                       *)
PersistRejections ==
    /\ importStep = "persist"
    /\ isolated' = isolated \cup {parsed.bad[k] : k \in 1..Len(parsed.bad)}
    /\ importStep' = "stored"
    /\ UNCHANGED <<upload, parsed, importRun, facts>>

(* The process stops in the middle; nobody goes on with the run.           *)
StopImport ==
    /\ importStep \in {"ingest", "complete", "persist"}
    /\ importStep' = "stopped"
    /\ UNCHANGED <<upload, parsed, importRun, facts, isolated>>

ImportNext ==
    \/ Parse \/ ParseWhole \/ BeginImport \/ Ingest \/ CompleteImport
    \/ FailImport \/ PersistRejections \/ StopImport

ImportSpec == ImportInit /\ [][ImportNext]_importVars

-----------------------------------------------------------------------------
(* When an upload is answered as stored, each of its rows is a fact or is  *)
(* isolated, and not both: the bisection loses no row and none twice, and  *)
(* whatever was skipped is on record (parse_upload, external_import_commit)*)
EveryRowAnswered ==
    importStep = "stored" =>
        LET taken == {parsed.records[k].row : k \in 1..Len(parsed.records)} IN
        /\ taken \cap isolated = {} /\ taken \cup isolated = 1..Len(upload.rows)
        /\ Len(parsed.records) = Cardinality(taken)
        /\ isolated # {} => upload.allow
        /\ \A k \in 1..Len(parsed.records) : parsed.records[k] \in facts
=============================================================================
