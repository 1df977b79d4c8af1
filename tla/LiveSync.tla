------------------------------ MODULE LiveSync ------------------------------
(***************************************************************************)
(* The live synchronisation of a shop and the letters its failures leave:  *)
(* _shopify_sync_run, _shopify_resume_run and _dead_letter_replay_core     *)
(* (app/main.py), the run ledger (app/external_sync.py), the dead letters  *)
(* (app/dead_letters.py) and the paging loop of the adapter                *)
(* (app/platform_adapters/shopify.py).                                     *)
(*                                                                         *)
(* A run pages through the resources it was asked for, commits its cursor  *)
(* after each page, and stores what it fetched only after the last one. A  *)
(* run that fails can be resumed from its cursor by a new run, or replayed *)
(* through the dead letter it left. One process-wide gate admits one run   *)
(* at a time; requests about letters come at any time, and the process may *)
(* stop between two commits.                                               *)
(***************************************************************************)
EXTENDS Integers, FiniteSets, Sequences

CONSTANTS
    Clients,      \* requests about letters that may be in progress at once
    Keys,         \* the idempotency keys that callers use
    NoKey,        \* NULL in retry_idempotency_key
    Pages,        \* for each resource, the number of pages upstream
    MaxPages,     \* settings.shopify_max_pages, for each run
    MaxAttempts,  \* settings.sync_compensation_max_attempts
    MaxRuns,      \* bound on the number of runs
    Scopes,       \* bounds of a behaviour: the lists of resources that callers
                  \* ask for, and how many runs there are
    MaxKilled     \* bound on the number of runs that a restart cuts short

Resources == {"inventory", "orders"}

ASSUME LiveSyncAssumption ==
    /\ NoKey \notin Keys
    /\ Pages \in [Resources -> Nat \ {0}]
    /\ Scopes \subseteq [requests : SUBSET (Seq(Resources) \ {<<>>}), runs : 1 .. MaxRuns]
    /\ \A s \in Scopes : \A asked \in s.requests :    \* each resource once
          \A m, n \in DOMAIN asked : asked[m] = asked[n] => m = n
    /\ MaxPages \in Nat \ {0} /\ MaxAttempts \in Nat /\ MaxRuns \in Nat /\ MaxKilled \in Nat

VARIABLES
    runs,       \* external_sync_runs, in the order of their creation
    letters,    \* external_sync_dead_letters, one per run at most
    stored,     \* for each resource, the pages whose records were ingested
    cur,        \* the run that holds the gate, 0 when it is free
    step,       \* where that run is
    todo,       \* the resources it has still to visit
    loaded,     \* what each request about a letter has read and will act on
    killed,     \* runs whose process stopped before they ended
    serial,     \* requests about letters come one at a time
    scope       \* the bounds of this behaviour

gateVars == <<cur, step, todo>>
modes == <<serial, scope>>
vars == <<runs, letters, stored, gateVars, loaded, killed, modes>>

RunIds == 1 .. MaxRuns
Errors == {"auto", "manual", "guard"}
Terminal == {"succeeded", "partial", "failed"}
Closed == {"replayed", "ignored"}

(* The answers upstream that may pass with time are "auto"; "guard" is a   *)
(* cancellation or an exhausted time budget.                               *)
NoRun == [status |-> "absent", source |-> 0, key |-> NoKey, attempt |-> 0,
          res |-> [x \in Resources |-> "absent"], skipped |-> {},
          cursor |-> [x \in Resources |-> 0]]
NoLetter == [status |-> "none", class |-> "none", by |-> 0]
Nothing == [op |-> "none", letter |-> 0, key |-> NoKey]

RunRow == [status : {"absent", "running"} \cup Terminal, source : 0 .. MaxRuns,
           key : Keys \cup {NoKey}, attempt : 0 .. MaxRuns,
           res : [Resources -> {"absent", "pending", "succeeded"} \cup Errors],
           skipped : SUBSET Resources, cursor : [Resources -> Nat]]
LetterRow == [status : {"none", "open"} \cup Closed, class : {"none", "auto", "manual"},
              by : 0 .. MaxRuns]
Request == [op : {"none", "replay", "ignore"}, letter : 0 .. MaxRuns, key : Keys \cup {NoKey}]

TypeOK ==
    /\ runs \in [RunIds -> RunRow]
    /\ \A i \in RunIds, x \in Resources : runs[i].cursor[x] <= Pages[x]
    /\ letters \in [RunIds -> LetterRow]
    /\ stored \in [Resources -> SUBSET Nat]
    /\ \A x \in Resources : stored[x] \subseteq 1 .. Pages[x]
    /\ cur \in 0 .. MaxRuns /\ (cur = 0 <=> step = "idle")
    /\ step \in {"idle", "visit", "ingest", "stored", "register", "force", "end"}
    /\ todo \in Seq(Resources)
    /\ loaded \in [Clients -> Request]
    /\ killed \subseteq RunIds /\ serial \in BOOLEAN /\ scope \in Scopes

-----------------------------------------------------------------------------
(* The ledger of a run.                                                    *)

Targets(r) == {x \in Resources : r.res[x] # "absent"}
Failed(r) == {x \in Resources : r.res[x] \in Errors}
Guarded(r) == \E x \in Resources : r.res[x] = "guard"

(* calculate_overall_status, once no resource is pending or running.       *)
Overall(r) ==
    IF Failed(r) = {} THEN "succeeded"
    ELSE IF Failed(r) = Targets(r) THEN "failed" ELSE "partial"

(* resume_plan: what a new run would do with a resource of a source run.   *)
Complete(r, x) == r.cursor[x] = Pages[x]

(* Records are fetched from the page after the cursor of the source; a     *)
(* source that has no page of the resource restarts it.                    *)
Start(r, x) == IF r.source = 0 THEN 0 ELSE runs[r.source].cursor[x]

(* _resume_plan_or_raise.                                                  *)
Resumable(i, targets) ==
    /\ runs[i].status \in {"failed", "partial"}
    /\ \E x \in targets : ~Complete(runs[i], x)

Names(s) == {s[n] : n \in DOMAIN s}
Sorted(set) == IF set = Resources THEN <<"inventory", "orders">>
               ELSE <<CHOOSE x \in set : TRUE>>

(* _dead_letter_replay_targets.                                            *)
ReplayTargets(i) ==
    LET retryable == {x \in Resources : runs[i].res[x] = "auto"} IN
    Sorted(IF retryable # {} THEN retryable ELSE Targets(runs[i]))

(* A mutant for TLC: the class of a run that a guardrail stopped comes      *)
(* from its resources.                                                     *)
RetryClassOfResource(r) ==
    IF r.res[Head(Sorted(Failed(r)))] = "auto" THEN "auto" ELSE "manual"

(* classify_retry_class of resolve_error_code: the code of a guardrail,    *)
(* otherwise that of the failed resource whose name sorts first.           *)
RetryClass(r) ==
    IF ~Guarded(r) /\ r.res[Head(Sorted(Failed(r)))] = "auto" THEN "auto" ELSE "manual"

Used == {i \in RunIds : runs[i].status # "absent"}
Replays(i) == {j \in Used : runs[j].source = i /\ runs[j].key # NoKey}

-----------------------------------------------------------------------------
Init ==
    /\ runs = [i \in RunIds |-> NoRun]
    /\ letters = [i \in RunIds |-> NoLetter]
    /\ stored = [x \in Resources |-> {}]
    /\ cur = 0 /\ step = "idle" /\ todo = <<>>
    /\ loaded = [c \in Clients |-> Nothing]
    /\ killed = {}
    /\ serial \in BOOLEAN /\ scope \in Scopes

(* The gate is taken, then the run is created with the cursors of its      *)
(* source and all its resources pending; nobody reads a running run        *)
(* between those commits. UNIQUE(workspace_id, retry_of_run_id,            *)
(* retry_idempotency_key) refuses a second run for a key.                  *)
Begin(source, key, targets) ==
    LET i == Cardinality(Used) + 1 IN
    /\ step = "idle" /\ i <= scope.runs
    /\ key = NoKey \/ \A j \in Replays(source) : runs[j].key # key
    /\ runs' = [runs EXCEPT ![i] =
         [NoRun EXCEPT !.status = "running", !.source = source, !.key = key,
            !.attempt = IF source = 0 THEN 1 ELSE runs[source].attempt + 1,
            !.res = [x \in Resources |-> IF x \in Names(targets) THEN "pending" ELSE "absent"],
            !.cursor = [x \in Resources |->
                          IF source # 0 /\ x \in Names(targets) THEN runs[source].cursor[x] ELSE 0]]]
    /\ cur' = i /\ step' = "visit" /\ todo' = targets
    /\ UNCHANGED <<letters, stored, killed, modes>>

Sync == \E targets \in scope.requests : Begin(0, NoKey, targets) /\ UNCHANGED loaded

Resume ==
    \E i \in Used, targets \in scope.requests :
        /\ Resumable(i, Names(targets))
        /\ Begin(i, NoKey, targets)
        /\ UNCHANGED loaded

-----------------------------------------------------------------------------
(* The run that holds the gate, at the first resource of todo.             *)

Run == runs[cur]
x0 == Head(todo)
others == <<letters, loaded, killed, modes>>

(* The outcome of a resource, in the ledger.                               *)
Continue(status) ==
    /\ runs' = [runs EXCEPT ![cur].res[x0] = status]
    /\ todo' = Tail(todo) /\ step' = "visit"
    /\ UNCHANGED <<cur, others>>

(* A resource that the source had fetched to the end is taken as done.     *)
Skips(x) == Run.source # 0 /\ Complete(runs[Run.source], x)
SkipResource ==
    /\ step = "visit" /\ todo # <<>> /\ Skips(x0)
    /\ runs' = [runs EXCEPT ![cur].res[x0] = "succeeded", ![cur].skipped = @ \cup {x0}]
    /\ todo' = Tail(todo)
    /\ UNCHANGED <<cur, step, stored, others>>

(* The next page, when the run has pages left to ask for.                  *)
PagesUsed(r, x) == r.cursor[x] - Start(r, x)
AtPage == step = "visit" /\ todo # <<>> /\ ~Skips(x0)

(* A checkpoint stops the run when it is cancelled or out of time: this    *)
(* resource and the ones not yet visited fail.                             *)
GuardrailStops ==
    /\ AtPage /\ PagesUsed(Run, x0) < MaxPages
    /\ runs' = [runs EXCEPT ![cur].res =
                  [x \in Resources |-> IF x \in Names(todo) THEN "guard" ELSE @[x]]]
    /\ todo' = <<>>
    /\ UNCHANGED <<cur, step, stored, others>>

(* A page that upstream answers, and the cursor committed with it.         *)
FetchPage ==
    LET page == Run.cursor[x0] + 1 IN
    /\ AtPage /\ PagesUsed(Run, x0) < MaxPages
    /\ runs' = [runs EXCEPT ![cur].cursor[x0] = page]
    /\ step' = IF page = Pages[x0] THEN "ingest" ELSE "visit"
    /\ UNCHANGED <<cur, todo, stored, others>>

(* Upstream fails, or its cursor does not advance.                         *)
UpstreamFails ==
    /\ AtPage /\ PagesUsed(Run, x0) < MaxPages
    /\ \E error \in {"auto", "manual"} : Continue(error)
    /\ UNCHANGED stored

(* A mutant for TLC: what the pages gave is stored.                        *)
PageLimitIngests ==
    /\ AtPage /\ PagesUsed(Run, x0) = MaxPages
    /\ step' = "ingest"
    /\ UNCHANGED <<runs, cur, todo, stored, others>>

(* The loop ends without having seen the last page.                        *)
PageLimit ==
    /\ AtPage /\ PagesUsed(Run, x0) = MaxPages
    /\ Continue("manual")
    /\ UNCHANGED stored

(* The pages this run fetched are stored, in one commit; a record that     *)
(* cannot be read or written fails the resource.                           *)
Ingest ==
    /\ step = "ingest"
    /\ stored' = [stored EXCEPT ![x0] = @ \cup (Start(Run, x0) + 1 .. Run.cursor[x0])]
    /\ step' = "stored"
    /\ UNCHANGED <<runs, cur, todo, others>>

IngestFails ==
    /\ step = "ingest" /\ Continue("manual")
    /\ UNCHANGED stored

ResourceSucceeds ==
    /\ step = "stored" /\ Continue("succeeded")
    /\ UNCHANGED stored

-----------------------------------------------------------------------------
(* How it ends, in commits of their own.                                   *)

(* A mutant for TLC: only the status decides.                              *)
FinalizeByStatus ==
    /\ step = "visit" /\ todo = <<>>
    /\ runs' = [runs EXCEPT ![cur].status = Overall(Run)]
    /\ step' = IF Overall(Run) = "failed" THEN "register"
               ELSE IF Guarded(Run) THEN "force" ELSE "end"
    /\ UNCHANGED <<cur, todo, stored, others>>

Finalize ==
    /\ step = "visit" /\ todo = <<>>
    /\ runs' = [runs EXCEPT ![cur].status = Overall(Run)]
    /\ step' = IF Overall(Run) = "failed" \/ Guarded(Run) THEN "register" ELSE "end"
    /\ UNCHANGED <<cur, todo, stored, others>>

(* register_dead_letter: unless the run has a letter already.              *)
Letter(r) == [status |-> "open", class |-> RetryClass(r), by |-> 0]
RegisterLetter ==
    /\ step = "register"
    /\ letters' = IF letters[cur].status = "none"
                    THEN [letters EXCEPT ![cur] = Letter(Run)] ELSE letters
    /\ step' = IF Run.status = "failed" THEN "end" ELSE "force"
    /\ UNCHANGED <<runs, cur, todo, stored, loaded, killed, modes>>

(* A run that a guardrail stopped has failed, whatever it stored before.   *)
ForceFailed ==
    /\ step = "force"
    /\ runs' = [runs EXCEPT ![cur].status = "failed"]
    /\ step' = "end"
    /\ UNCHANGED <<cur, todo, stored, others>>

(* A mutant for TLC: the gate is released and its owner stays.             *)
EndRunOwned ==
    /\ step = "end" /\ step' = "idle"
    /\ UNCHANGED <<runs, cur, letters, todo, stored, loaded, killed, modes>>

(* A replay closes the letter it came from; the gate is released.          *)
EndRun ==
    /\ step = "end"
    /\ letters' = IF Run.key = NoKey THEN letters
                  ELSE [letters EXCEPT ![Run.source].status = "replayed", ![Run.source].by = cur]
    /\ cur' = 0 /\ step' = "idle"
    /\ UNCHANGED <<runs, todo, stored, loaded, killed, modes>>

-----------------------------------------------------------------------------
(* Requests about letters. What was read is acted on later: the session    *)
(* keeps the row it loaded, and reading it again under the gate returns    *)
(* that same object.                                                       *)

Idle(c) ==
    /\ loaded[c] = Nothing
    /\ serial => /\ \A d \in Clients : loaded[d] = Nothing
                 /\ \A i \in Used : Replays(i) \cap {cur} = {}

(* check_replay_preconditions; whether the backoff is over is left open.   *)
Replayable(i) ==
    /\ letters[i].status = "open"
    /\ runs[i].attempt < MaxAttempts
    /\ letters[i].class = "auto"

Read(c, op, i, key) ==
    /\ loaded' = [loaded EXCEPT ![c] = [op |-> op, letter |-> i, key |-> key]]
    /\ UNCHANGED <<runs, letters, stored, gateVars, killed, modes>>

(* A key that has a run already is answered with that run.                 *)
ReadForReplay(c) ==
    \E i \in RunIds, key \in Keys :
        /\ Idle(c) /\ Replayable(i)
        /\ \A j \in Replays(i) : runs[j].key # key
        /\ Read(c, "replay", i, key)

Replay(c) ==
    LET i == loaded[c].letter IN
    /\ loaded[c].op = "replay"
    /\ Resumable(i, Names(ReplayTargets(i)))
    /\ Begin(i, loaded[c].key, ReplayTargets(i))
    /\ loaded' = [loaded EXCEPT ![c] = Nothing]

(* The gate is taken, the plan has nothing left or the key is used: the    *)
(* caller gets an error.                                                   *)
ReplayRefused(c) ==
    /\ loaded[c].op = "replay"
    /\ \/ cur # 0
       \/ ~Resumable(loaded[c].letter, Names(ReplayTargets(loaded[c].letter)))
       \/ \E j \in Replays(loaded[c].letter) : runs[j].key = loaded[c].key
    /\ loaded' = [loaded EXCEPT ![c] = Nothing]
    /\ UNCHANGED <<runs, letters, stored, gateVars, killed, modes>>

ReadForIgnore(c) ==
    \E i \in RunIds :
        /\ Idle(c) /\ letters[i].status = "open"
        /\ Read(c, "ignore", i, NoKey)

Ignore(c) ==
    /\ loaded[c].op = "ignore"
    /\ letters' = [letters EXCEPT ![loaded[c].letter].status = "ignored"]
    /\ loaded' = [loaded EXCEPT ![c] = Nothing]
    /\ UNCHANGED <<runs, stored, gateVars, killed, modes>>

(* archive_zombie_run, for a run that has no letter. The HTTP route asks   *)
(* for a stale heartbeat, the command line for nothing more than the run.  *)
Archive(c) ==
    \E i \in Used :
        /\ Idle(c) /\ letters[i].status = "none"
        /\ letters' = [letters EXCEPT ![i] = [status |-> "ignored", class |-> "manual", by |-> 0]]
        /\ UNCHANGED <<runs, stored, gateVars, loaded, killed, modes>>

-----------------------------------------------------------------------------
(* The process stops: gate, tokens and requests are gone, rows stay.       *)
Restart ==
    /\ cur # 0 /\ Cardinality(killed) < MaxKilled
    /\ killed' = killed \cup {cur}
    /\ cur' = 0 /\ step' = "idle" /\ todo' = <<>>
    /\ loaded' = [c \in Clients |-> Nothing]
    /\ UNCHANGED <<runs, letters, stored, modes>>

Execute ==
    \/ SkipResource \/ GuardrailStops \/ FetchPage \/ UpstreamFails
    \/ PageLimit \/ Ingest \/ IngestFails \/ ResourceSucceeds
    \/ Finalize \/ RegisterLetter \/ ForceFailed \/ EndRun

Ask(c) ==
    \/ ReadForReplay(c) \/ Replay(c) \/ ReplayRefused(c)
    \/ ReadForIgnore(c) \/ Ignore(c) \/ Archive(c)

Next ==
    \/ Sync \/ Resume \/ Execute \/ Restart
    \/ \E c \in Clients : Ask(c)

Spec == Init /\ [][Next]_vars

-----------------------------------------------------------------------------
(* A resource that a run fetched and reports succeeded is in the store,    *)
(* from the page the run began with to the last: the loop of               *)
(* _shopify_sync_run and _shopify_resume_run marks it only after the       *)
(* commit of ingest_orders or ingest_inventory, and a run that ran out of  *)
(* pages, of time or of luck never gets there.                             *)
SucceededIsStored ==
    \A i \in Used, x \in Resources :
        runs[i].res[x] = "succeeded" /\ x \notin runs[i].skipped
            => Start(runs[i], x) + 1 .. Pages[x] \subseteq stored[x]

(* Once a run is over and unless a restart cut it short, it has a letter   *)
(* if it failed, and a letter that is open or was replayed only if it did: *)
(* finalize_resource_run registers the letter of a cancelled run before    *)
(* the route makes that run failed.                                        *)
FailuresAreLettered ==
    \A i \in Used \ (killed \cup {cur}) :
        /\ runs[i].status = "failed" => letters[i].status # "none"
        /\ letters[i].status \in {"open", "replayed"} => runs[i].status = "failed"

(* Whatever requests overlap, the run of a replay has a source that failed *)
(* for a passing reason, that nobody cancelled and no budget stopped, and  *)
(* that had attempts left: check_replay_preconditions, on the class that   *)
(* register_dead_letter fixed when the source ended.                       *)
ReplayRespectsGates ==
    \A j \in Used : runs[j].key # NoKey =>
        LET i == runs[j].source IN
        /\ letters[i].class = "auto" /\ runs[i].attempt < MaxAttempts
        /\ runs[i].status = "failed" /\ ~Guarded(runs[i])
        /\ \E x \in Resources : runs[i].res[x] = "auto"

(* When requests about letters do not overlap, a letter is settled once:   *)
(* one replay of it comes to an end, none after it was ignored, and it     *)
(* then names that run. Overlapping requests break this: the row read      *)
(* again under the gate by _dead_letter_replay_core is the stale object.   *)
SettledOnce ==
    serial => \A i \in Used :
        /\ Cardinality(Replays(i) \ killed) <= 1
        /\ letters[i].status = "ignored" => Replays(i) \subseteq killed
        /\ letters[i].status = "replayed" => letters[i].by \in Replays(i)

(* A replay was due when it was made, and its letter tells of it.          *)
ReplaysHold == ReplayRespectsGates /\ SettledOnce

(* A resource that a resumed run takes as done has been stored: the        *)
(* comment at app/main.py:2892 calls it the inherited success of the       *)
(* source. False: the cursor is complete when the last page was fetched,   *)
(* before anything is stored, and resume_plan reads only the cursor.       *)
SkippedIsStored ==
    \A i \in Used : \A x \in runs[i].skipped : Pages[x] \in stored[x]
=============================================================================
