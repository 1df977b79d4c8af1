---------------------------- MODULE SourceQuality ----------------------------
(***************************************************************************)
(* The responses a live run retains and the quality verdict on it:         *)
(* ShopifyLiveTransport (app/platform_adapters/shopify.py),                *)
(* app/source_quality.py and the gate at the end of app/external_sync.py.  *)
(* The gate judges the rows the run stored, the retained responses and the *)
(* resources of its ledger; a replay judges the retained responses alone.  *)
(* Both write or answer one of failed, warn, ok and unknown.  Messages and *)
(* samples are left out, and files that change after the run.              *)
(***************************************************************************)
EXTENDS Integers, Sequences, FiniteSets, SequencesExt

CONSTANTS
    Pages,      \* responses: resource, form, old, and the rows in them
    StoredRows, \* rows of the tables: key, hash, and whether dirty and old
    Declared,   \* the resources a ledger may name
    MaxPages,   \* bound on the responses of a run
    MaxRetries  \* shopify_max_retries

Forms == {"whole", "broken", "truncated"}
IsRow(r) == DOMAIN r = {"key", "hash", "dirty", "old"} /\ {r.dirty, r.old} \subseteq BOOLEAN

ASSUME QualityAssumption ==
    /\ \A p \in Pages : /\ DOMAIN p = {"resource", "form", "old", "rows"}
                        /\ p.form \in Forms /\ p.old \in BOOLEAN
                        /\ \A i \in DOMAIN p.rows : IsRow(p.rows[i])
                        /\ p.form # "whole" => p.rows = << >>
    /\ \A r \in StoredRows : IsRow(r)
    /\ \A declared \in Declared : "unknown" \notin declared
    /\ MaxPages \in Nat /\ MaxRetries \in Nat

Hard == {"structural", "integrity"}
Dimensions == Hard \cup {"uniqueness", "consistency", "freshness", "completeness"}

VARIABLES
    evidence,   \* the run: its status, whether it is live, the resources of
                \* its ledger and how their responses were kept, the files,
                \* the rows it stored and those there were before
    fetched,    \* history: the responses the run went on with, by resource
    gated,      \* quality_status of the run, or null
    replayed    \* what the last replay answered, or null

qualityVars == <<evidence, fetched, gated, replayed>>

-----------------------------------------------------------------------------
(* Responses and their files *)

(* One request: a time-out, a 429 or a 5xx is tried again MaxRetries times;*)
(* anything else decides.                                                  *)
Outcome(answers) ==
    LET i == SelectInSeq(answers, LAMBDA x : x # "busy")
    IN IF i = 0 THEN "busy" ELSE answers[i]

(* What is left of a response: nothing, if the body can not be written, or *)
(* if only its meta file can not; a meta file that breaks off leaves a page*)
(* of which nobody knows the resource.                                     *)
Disk == {"kept", "no body", "no meta", "torn meta"}

Left(p, disk) ==
    CASE disk = "kept" -> <<p>>
      [] disk = "torn meta" ->
            <<[resource |-> "unknown", form |-> p.form, old |-> FALSE, rows |-> << >>]>>
      [] OTHER -> << >>

(* failed before truncated before ok.                                      *)
Worse(was, now) ==
    IF "failed" \in {was, now} THEN "failed"
    ELSE IF "truncated" \in {was, now} THEN "truncated" ELSE "ok"

Retained(p, disk) ==
    IF disk # "kept" THEN "failed" ELSE IF p.form = "truncated" THEN "truncated" ELSE "ok"

-----------------------------------------------------------------------------
(* The six dimensions *)

(* Mutant of Incomplete: a truncated response is no gap.                   *)
IncompleteByLedger(pages, declared) ==
    declared # {} /\ declared # {pages[i].resource : i \in DOMAIN pages}

(* A truncated response is a gap; with a ledger to compare with, so is a   *)
(* declared resource without a page, or a page of an undeclared one.       *)
Incomplete(pages, declared) ==
    \/ \E i \in DOMAIN pages : pages[i].form = "truncated"
    \/ declared # {} /\ declared # {pages[i].resource : i \in DOMAIN pages}

(* The same key twice with different hashes, or other than stored before.  *)
Inconsistent(rows, existing) ==
    \E i \in DOMAIN rows :
        \/ \E j \in DOMAIN rows : rows[i].key = rows[j].key /\ rows[i].hash # rows[j].hash
        \/ LET known == {r.hash : r \in {e \in existing : e.key = rows[i].key}}
           IN known # {} /\ rows[i].hash \notin known

Findings(pages, rows, declared, existing) ==
    {d \in Dimensions :
        CASE d = "structural" -> \E i \in DOMAIN pages : pages[i].form = "broken"
          [] d = "integrity" -> \E i \in DOMAIN rows : rows[i].dirty
          [] d = "uniqueness" -> \E i, j \in DOMAIN rows : i # j /\ rows[i].key = rows[j].key
          [] d = "consistency" -> Inconsistent(rows, existing)
          [] d = "freshness" -> \/ \E i \in DOMAIN pages : pages[i].old
                                \/ \E i \in DOMAIN rows : rows[i].old
          [] d = "completeness" -> Incomplete(pages, declared)}

Verdict(found) ==
    IF found \cap Hard # {} THEN "failed" ELSE IF found # {} THEN "warn" ELSE "ok"

(* main.py notes the retention of live runs only.                          *)
RetentionExpected(e) == e.live

(* Nothing to judge, or the responses that ought to be there are gone.     *)
Unjudgeable(e) == e.pages = << >> /\ (e.rows = {} \/ RetentionExpected(e))

(* The ledger counts only where responses are expected.                    *)
GateVerdict(e) ==
    IF Unjudgeable(e) THEN "unknown"
    ELSE Verdict(Findings(e.pages, [r \in e.rows |-> r], IF RetentionExpected(e) THEN e.declared ELSE {},
                          e.existing))

(* The rows of the responses, each by its page and its place there.        *)
RowsIn(pages) ==
    [at \in UNION {{i} \X DOMAIN pages[i].rows : i \in DOMAIN pages} |-> pages[at[1]].rows[at[2]]]

ReplayVerdict(e) ==
    IF e.pages = << >> THEN "unknown" ELSE Verdict(Findings(e.pages, RowsIn(e.pages), {}, {}))

-----------------------------------------------------------------------------

(* A run has begun.                                                        *)
QualityInit ==
    /\ \E declared \in Declared, live \in BOOLEAN :
          evidence = [status |-> "running", live |-> live, declared |-> declared, pages |-> << >>,
                      kept |-> [n \in declared |-> "ok"], rows |-> {}, existing |-> {}]
    /\ fetched = << >>
    /\ gated = "null" /\ replayed = "null"

Running == evidence.status \in {"running", "failing"}

(* A page of a live run: its answer is written to its files on the way.    *)
(* An error ends the resource, and the run will not have succeeded.        *)
Fetch ==
    /\ Running /\ evidence.live /\ Len(fetched) < MaxPages
    /\ \E answers \in [1..(MaxRetries + 1) -> {"page", "busy", "refused"}] :
          IF Outcome(answers) # "page"
          THEN /\ evidence' = [evidence EXCEPT !.status = "failing"]
               /\ UNCHANGED fetched
          ELSE \E p \in Pages, disk \in Disk :
                  /\ p.resource \in evidence.declared
                  /\ evidence' = [evidence EXCEPT
                        !.pages = @ \o Left(p, disk),
                        !.kept[p.resource] = Worse(@, Retained(p, disk))]
                  /\ fetched' = Append(fetched, p.resource)
    /\ UNCHANGED <<gated, replayed>>

(* The run ends; one that succeeds has stored its rows, which have unique  *)
(* keys.                                                                   *)
End ==
    /\ \/ /\ evidence.status = "failing"
          /\ evidence' = [evidence EXCEPT !.status = "partial"]
       \/ /\ evidence.status = "running"
          /\ \E rows \in SUBSET StoredRows, existing \in {{}} \cup {{r} : r \in StoredRows} :
                /\ \A r, q \in rows : r.key = q.key => r = q
                /\ evidence' = [evidence EXCEPT !.status = "succeeded", !.rows = rows,
                                                !.existing = existing]
    /\ UNCHANGED <<fetched, gated, replayed>>

(* apply_quality_gate, at the end of the run that succeeded.               *)
Gate ==
    /\ gated = "null" /\ replayed = "null" /\ evidence.status = "succeeded"
    /\ gated' = GateVerdict(evidence)
    /\ UNCHANGED <<evidence, fetched, replayed>>

(* replay_quality, of a run that has ended.                                *)
ReplayPages ==
    /\ ~Running
    /\ replayed' = ReplayVerdict(evidence)
    /\ UNCHANGED <<evidence, fetched, gated>>

QualityNext == Fetch \/ End \/ Gate \/ ReplayPages

QualitySpec == QualityInit /\ [][QualityNext]_qualityVars

-----------------------------------------------------------------------------

Gaps(e) == {e.pages[i].form : i \in DOMAIN e.pages} \cap {"broken", "truncated"}

FilesOf(n) == {i \in DOMAIN evidence.pages : evidence.pages[i].resource = n}

(* The ledger tells of every response that is not there whole: a resource  *)
(* with fewer pages than were fetched is failed in it, and one it calls ok *)
(* or truncated has them all.  It is truncated only if a page is.          *)
LedgerTellsLosses ==
    \A n \in DOMAIN evidence.kept :
        LET lost == Cardinality(FilesOf(n)) < Cardinality({i \in DOMAIN fetched : fetched[i] = n})
            cut == \E i \in FilesOf(n) : evidence.pages[i].form = "truncated"
        IN /\ lost <=> evidence.kept[n] = "failed"
           /\ ~lost => (cut <=> evidence.kept[n] = "truncated")

(* What a recorded verdict lets a reader conclude.  ok: there was evidence,*)
(* every response that is left is whole, every row clean and as stored     *)
(* before, each resource a live run declared has a response, and no        *)
(* resource is truncated in the ledger.  unknown of a live run is recorded *)
(* only where no response is left, and those it fetched are failed in the  *)
(* ledger.  A replay can find out what the gate could not see, the rows in *)
(* the responses, but never the reverse: what the gate found wrong with    *)
(* the responses the replay finds too, and neither takes a truncated       *)
(* response for a broken one.                                              *)
VerdictIsEarned ==
    LET e == evidence
    IN /\ LedgerTellsLosses
       /\ gated = "ok" =>
              /\ e.pages # << >> \/ e.rows # {}
              /\ Gaps(e) = {}
              /\ \A r \in e.rows : ~r.dirty /\ (\A q \in e.existing : q.key = r.key => q.hash = r.hash)
              /\ e.live => \A n \in e.declared : FilesOf(n) # {} /\ e.kept[n] # "truncated"
       /\ gated = "unknown" =>
              e.pages = << >> /\ \A i \in DOMAIN fetched : e.kept[fetched[i]] = "failed"
       /\ gated # "null" /\ replayed = "ok" => Gaps(e) = {}
       /\ gated = "failed" /\ replayed \in {"ok", "warn"} => \E r \in e.rows : r.dirty
       /\ Gaps(e) = {"truncated"} /\ (\A r \in e.rows : ~r.dirty) => gated \in {"null", "warn"}
       /\ gated = "ok" /\ replayed = "failed" =>
              \E i \in DOMAIN e.pages : \E j \in DOMAIN e.pages[i].rows : e.pages[i].rows[j].dirty
=============================================================================
