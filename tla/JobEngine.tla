----------------------------- MODULE JobEngine -----------------------------
(***************************************************************************)
(* The background job engine: the crawl_jobs rows and the atomic operations*)
(* on them (app/repository.py), and the dispatcher, the worker pool, the   *)
(* heartbeat and the future registry that drive them (app/background.py).  *)
(*                                                                         *)
(* A Run is one call of _submit_future: it carries the future, the thread  *)
(* that executes it, its SQLAlchemy session and the worker id that         *)
(* new_worker_id() draws for it.  Sessions are opened with                 *)
(* expire_on_commit=False and autoflush=False, so obj[r], the CrawlJob a   *)
(* run holds, keeps the values it was loaded with until a rollback of an   *)
(* open transaction expires it, and a commit writes the attributes that    *)
(* changed since the load, by primary key and unconditionally (Flush).     *)
(*                                                                         *)
(* Time is abstract: a lease lapses and a backoff elapses in steps of      *)
(* their own.  The job bodies are abstract too: what they do to other      *)
(* tables is modelled where those tables are.                              *)
(***************************************************************************)
EXTENDS Integers, FiniteSets

CONSTANTS
    Jobs,            \* job ids, in insertion order
    Runs,            \* futures that may be outstanding at once
    None,            \* NULL
    MaxRetries,      \* CrawlJob.max_retries
    ScanLimit,       \* rows one dispatcher scan returns: worker_concurrency * 2
    MaxAttempt,      \* the attempt column is counted up to this bound
    MaxCrashes,      \* bound on crashes, stops and database failures
    Cancellable,     \* the jobs whose cancellation the user may request
    LeaseMayLapse,   \* a live worker's heartbeat may miss a whole lease period
    PermanentErrors  \* job bodies may raise errors with retryable=False

ASSUME EngineAssumption ==
    /\ Jobs \subseteq Nat \ {0}
    /\ None \notin Runs
    /\ MaxRetries \in Nat
    /\ ScanLimit \in Nat \ {0}
    /\ MaxAttempt \in Nat \ {0}
    /\ MaxCrashes \in Nat
    /\ Cancellable \subseteq Jobs
    /\ LeaseMayLapse \in BOOLEAN
    /\ PermanentErrors \in BOOLEAN

VARIABLES
    row,        \* the crawl_jobs table
    pc,         \* where each run is in _run_one_job
    runJob,     \* the job a run was submitted for
    obj,        \* the CrawlJob in the run's identity map
    counted,    \* whether the error being handled costs a retry
    registry,   \* the keys of _cancel_futures
    sub,        \* where each submitting thread is in _submit_future
    subRun,     \* the future it submitted
    scan,       \* the ids the dispatcher still has to submit
    scanJob,    \* the id it is submitting
    accepting,  \* _accepting_jobs
    crashes

runVars == <<pc, runJob, obj, counted>>
subVars == <<sub, subRun, scan, scanJob>>
vars == <<row, runVars, registry, subVars, accepting, crashes>>

Dispatcher == 0
Submitters == Jobs \cup {Dispatcher}   \* job j is submitted by its API thread

Statuses == {"absent", "queued", "running", "retry_wait",
             "cancelled", "succeeded", "failed"}
Terminal == {"succeeded", "failed", "cancelled"}

Row == [status : Statuses, worker : Runs \cup {None},
        lease : {"none", "live", "lapsed"}, wake : {"none", "future", "due"},
        retries : Nat, attempt : 0..MaxAttempt, cancel : BOOLEAN]

AbsentRow == [status |-> "absent", worker |-> None, lease |-> "none",
              wake |-> "none", retries |-> 0, attempt |-> 0, cancel |-> FALSE]

TypeOK ==
    /\ row \in [Jobs -> Row]
    /\ pc \in [Runs -> {"done", "pending", "load", "body", "verdict",
                        "expired", "retry", "reload", "cancel", "pop", "popped"}]
    /\ runJob \in [Runs -> Jobs \cup {None}]
    /\ obj \in [Runs -> Row]
    /\ counted \in [Runs -> BOOLEAN]
    /\ registry \subseteq Jobs
    /\ sub \in [Submitters -> {"idle", "select", "snapshot", "submit",
                               "attach", "check", "stopped"}]
    /\ subRun \in [Submitters -> Runs \cup {None}]
    /\ scan \subseteq Jobs
    /\ scanJob \in Jobs \cup {None}
    /\ accepting \in BOOLEAN
    /\ crashes \in 0..MaxCrashes

-----------------------------------------------------------------------------
(* Rows and sessions *)

(* A flush writes the attributes that differ from the ones loaded.         *)
Emit(stored, loaded, dirty) == IF dirty = loaded THEN stored ELSE dirty

Flush(x, loaded, dirty) ==
    [status  |-> Emit(x.status, loaded.status, dirty.status),
     worker  |-> Emit(x.worker, loaded.worker, dirty.worker),
     lease   |-> Emit(x.lease, loaded.lease, dirty.lease),
     wake    |-> Emit(x.wake, loaded.wake, dirty.wake),
     retries |-> Emit(x.retries, loaded.retries, dirty.retries),
     attempt |-> Emit(x.attempt, loaded.attempt, dirty.attempt),
     cancel  |-> Emit(x.cancel, loaded.cancel, dirty.cancel)]

(* Mutant of Due: any unfinished row may be claimed.                       *)
DueWhileRunning(x) == x.status \notin Terminal \cup {"absent"} /\ x.wake # "future"

(* Queued, or waiting for a retry whose next_run_at has passed.            *)
Due(x) ==
    \/ x.status = "queued"
    \/ x.status = "retry_wait" /\ x.wake # "future"

(* Mutant of Claimable: the UPDATE does not look at cancel_requested.      *)
ClaimableIfDue(x) == Due(x)

Claimable(x) == Due(x) /\ ~x.cancel

Executing(r) == pc[r] \notin {"done", "pending", "load", "pop", "popped"}

(* Mutant of Owns: the worker id is not compared.                          *)
RunningAtAll(r, x) == x.status = "running"

(* The guard of renew_lease and finish_job.                                *)
Owns(r, x) == x.status = "running" /\ x.worker = r

Goto(r, p) == pc' = [pc EXCEPT ![r] = p]

-----------------------------------------------------------------------------
(* The API: enqueue_job commits the row, then the same thread submits it.  *)

EnqueueJob(j) ==
    /\ row[j].status = "absent"
    /\ row' = [row EXCEPT ![j].status = "queued"]
    /\ sub' = [sub EXCEPT ![j] = "submit"]
    /\ UNCHANGED <<runVars, registry, subRun, scan, scanJob, accepting, crashes>>

(* request_cancel only sets the flag; the flag it may still write on a row *)
(* that has just become terminal is read by nobody.                        *)
RequestCancel(j) ==
    /\ j \in Cancellable
    /\ row[j].status \notin Terminal \cup {"absent"}
    /\ row' = [row EXCEPT ![j].cancel = TRUE]
    /\ UNCHANGED <<runVars, registry, subVars, accepting, crashes>>

-----------------------------------------------------------------------------
(* _submit_future, executed by an API thread or by the dispatcher. *)

JobOf(s) == IF s = Dispatcher THEN scanJob ELSE s

(* Where a submitting thread goes when _submit_future returns.             *)
Resume(s) == IF s = Dispatcher THEN "submit" ELSE "idle"

(* The critical section of _executor_lock: no other thread is in it.       *)
LockFree == \A s \in Submitters : sub[s] # "attach"

(* executor.submit: from here on the run may be executed at any moment.    *)
SubmitFuture(s, j, r) ==
    /\ sub[s] = "submit" /\ LockFree /\ accepting
    /\ IF s = Dispatcher
       THEN /\ j \in scan /\ \A k \in scan : j <= k
            /\ scan' = scan \ {j} /\ scanJob' = j
       ELSE j = s /\ UNCHANGED <<scan, scanJob>>
    /\ pc[r] = "done" /\ \A t \in Submitters : subRun[t] # r
    /\ Goto(r, "pending")
    /\ runJob' = [runJob EXCEPT ![r] = j]
    /\ sub' = [sub EXCEPT ![s] = "attach"]
    /\ subRun' = [subRun EXCEPT ![s] = r]
    /\ UNCHANGED <<row, obj, counted, registry, accepting, crashes>>

(* RuntimeError when stopping: the API call fails, the dispatcher returns. *)
SubmitRefused(s) ==
    /\ sub[s] = "submit" /\ LockFree /\ ~accepting
    /\ s = Dispatcher => scan # {}
    /\ sub' = [sub EXCEPT ![s] = IF s = Dispatcher THEN "stopped" ELSE "idle"]
    /\ UNCHANGED <<row, runVars, registry, subRun, scan, scanJob, accepting, crashes>>

(* _attach_cancel_future, the end of the critical section.                 *)
AttachFuture(s) ==
    /\ sub[s] = "attach"
    /\ registry' = registry \cup {JobOf(s)}
    /\ sub' = [sub EXCEPT ![s] = "check"]
    /\ UNCHANGED <<row, runVars, subRun, scan, scanJob, accepting, crashes>>

(* if future.done(): _pop_cancel_future(job_id)                            *)
CheckFutureDone(s) ==
    /\ sub[s] = "check"
    /\ registry' = IF pc[subRun[s]] = "done" THEN registry \ {JobOf(s)} ELSE registry
    /\ sub' = [sub EXCEPT ![s] = Resume(s)]
    /\ subRun' = [subRun EXCEPT ![s] = None]
    /\ scanJob' = IF s = Dispatcher THEN None ELSE scanJob
    /\ UNCHANGED <<row, runVars, scan, accepting, crashes>>

-----------------------------------------------------------------------------
(* _dispatch_loop *)

(* recover_expired_jobs: an expired lease counts as one failed attempt.    *)
Recovered(x) ==
    LET released == [x EXCEPT !.worker = None, !.lease = "none", !.wake = "none"]
    IN  IF x.cancel
        THEN [released EXCEPT !.status = "cancelled"]
        ELSE IF MaxRetries <= x.retries + 1
        THEN [released EXCEPT !.status = "failed", !.retries = x.retries + 1]
        ELSE [released EXCEPT !.status = "retry_wait", !.retries = x.retries + 1,
                              !.wake = "due"]

RecoverExpired ==
    /\ sub[Dispatcher] = "idle" /\ accepting
    /\ row' = [j \in Jobs |->
                 IF row[j].status = "running" /\ row[j].lease = "lapsed"
                 THEN Recovered(row[j]) ELSE row[j]]
    /\ sub' = [sub EXCEPT ![Dispatcher] = "select"]
    /\ UNCHANGED <<runVars, registry, subRun, scan, scanJob, accepting, crashes>>

(* Mutant of ScanWindow: retries are not scanned for.                      *)
QueuedWindow == {j \in Jobs : row[j].status = "queued"}

(* order_by(id).limit(ScanLimit) over the due rows, cancelled ones included. *)
ScanWindow ==
    {j \in Jobs : /\ Due(row[j])
                  /\ Cardinality({k \in Jobs : k < j /\ Due(row[k])}) < ScanLimit}

SelectDue ==
    /\ sub[Dispatcher] = "select"
    /\ scan' = ScanWindow
    /\ sub' = [sub EXCEPT ![Dispatcher] = "snapshot"]
    /\ UNCHANGED <<row, runVars, registry, subRun, scanJob, accepting, crashes>>

(* active_ids = set(_cancel_futures): ids with a registered future are skipped. *)
SkipActive ==
    /\ sub[Dispatcher] = "snapshot"
    /\ scan' = scan \ registry
    /\ sub' = [sub EXCEPT ![Dispatcher] = "submit"]
    /\ UNCHANGED <<row, runVars, registry, subRun, scanJob, accepting, crashes>>

(* The scan is exhausted: wait for the next poll, or return if stopped.    *)
ScanEnds ==
    /\ sub[Dispatcher] = "submit" /\ scan = {}
    /\ sub' = [sub EXCEPT ![Dispatcher] = IF accepting THEN "idle" ELSE "stopped"]
    /\ UNCHANGED <<row, runVars, registry, subRun, scan, scanJob, accepting, crashes>>

-----------------------------------------------------------------------------
(* _run_one_job *)

(* Mutant of Claimed: no lease is taken.                                   *)
ClaimedForever(r, x) == [x EXCEPT !.status = "running", !.worker = r, !.wake = "none"]

(* claim_job: the guarded UPDATE and its commit.                           *)
Claimed(r, x) ==
    [x EXCEPT !.status = "running", !.worker = r, !.lease = "live", !.wake = "none",
              !.attempt = IF x.attempt < MaxAttempt THEN x.attempt + 1 ELSE x.attempt]

ClaimJob(r) ==
    LET j == runJob[r] IN
    /\ pc[r] = "pending" /\ Claimable(row[j])
    /\ row' = [row EXCEPT ![j] = Claimed(r, @)]
    /\ Goto(r, "load")
    /\ UNCHANGED <<runJob, obj, counted, registry, subVars, accepting, crashes>>

(* rowcount 0: JobClaimLost, nothing is executed.                          *)
ClaimLost(r) ==
    /\ pc[r] = "pending" /\ ~Claimable(row[runJob[r]])
    /\ Goto(r, "pop")
    /\ UNCHANGED <<row, runJob, obj, counted, registry, subVars, accepting, crashes>>

(* The SELECT of db.get, in a new transaction after the claim committed.   *)
LoadJob(r) ==
    /\ pc[r] = "load"
    /\ obj' = [obj EXCEPT ![r] = row[runJob[r]]]
    /\ Goto(r, "body")
    /\ UNCHANGED <<row, runJob, counted, registry, subVars, accepting, crashes>>

(* The job body returns. is_cancel_requested then answers from the identity*)
(* map: the flag as it was when the run loaded its job.                    *)
BodyReturns(r) ==
    /\ pc[r] = "body"
    /\ Goto(r, IF obj[r].cancel THEN "reload" ELSE "verdict")
    /\ UNCHANGED <<row, runJob, obj, counted, registry, subVars, accepting, crashes>>

(* The body raises inside an open transaction: the rollback of             *)
(* _retry_after_rollback expires the job, which is then read again.        *)
BodyRaises(r) ==
    /\ pc[r] = "body"
    /\ \E retryable \in IF PermanentErrors THEN BOOLEAN ELSE {TRUE} :
          counted' = [counted EXCEPT ![r] = retryable]
    /\ Goto(r, "expired")
    /\ UNCHANGED <<row, runJob, obj, registry, subVars, accepting, crashes>>

(* ParserError: mark_version_failed has just committed, so that rollback   *)
(* is a no-op and retry_job gets the job as it was loaded.                 *)
ParserRaises(r) ==
    /\ pc[r] = "body"
    /\ counted' = [counted EXCEPT ![r] = TRUE]
    /\ Goto(r, "retry")
    /\ UNCHANGED <<row, runJob, obj, registry, subVars, accepting, crashes>>

(* finish_job: the guarded UPDATE and its commit.                          *)
FinishJob(r) ==
    LET j == runJob[r] IN
    /\ pc[r] = "verdict" /\ Owns(r, row[j])
    /\ row' = [row EXCEPT ![j].status = "succeeded", ![j].lease = "none"]
    /\ Goto(r, "pop")
    /\ UNCHANGED <<runJob, obj, counted, registry, subVars, accepting, crashes>>

(* JobClaimLost out of finish_job is handled like any other exception.     *)
FinishLost(r) ==
    /\ pc[r] = "verdict" /\ ~Owns(r, row[runJob[r]])
    /\ counted' = [counted EXCEPT ![r] = TRUE]
    /\ Goto(r, "expired")
    /\ UNCHANGED <<row, runJob, obj, registry, subVars, accepting, crashes>>

(* The read of retry_job, or of _cancel_job, after the rollback.           *)
ReloadJob(r) ==
    /\ pc[r] \in {"expired", "reload"}
    /\ obj' = [obj EXCEPT ![r] = row[runJob[r]]]
    /\ Goto(r, IF pc[r] = "expired" THEN "retry" ELSE "cancel")
    /\ UNCHANGED <<row, runJob, counted, registry, subVars, accepting, crashes>>

(* The job belongs to another run by now: nothing is written.              *)
OwnershipLost(r) ==
    /\ pc[r] \in {"retry", "cancel"} /\ obj[r].worker # r
    /\ Goto(r, "pop")
    /\ UNCHANGED <<row, runJob, obj, counted, registry, subVars, accepting, crashes>>

(* Mutant of Retried: one retry too many.                                  *)
RetriedOnceMore(o, costs) ==
    LET n == IF costs THEN o.retries + 1 ELSE o.retries
    IN  IF n > MaxRetries
        THEN [o EXCEPT !.status = "failed", !.retries = n, !.lease = "none"]
        ELSE [o EXCEPT !.status = "retry_wait", !.retries = n, !.lease = "none",
                       !.wake = "future", !.worker = None]

(* retry_job on the object o: the attributes it assigns.                   *)
Retried(o, costs) ==
    LET n == IF costs THEN o.retries + 1 ELSE o.retries
    IN  IF n >= MaxRetries
        THEN [o EXCEPT !.status = "failed", !.retries = n, !.lease = "none"]
        ELSE [o EXCEPT !.status = "retry_wait", !.retries = n, !.lease = "none",
                       !.wake = "future", !.worker = None]

(* The commit of retry_job: no condition on what the row is now.           *)
RetryJob(r) ==
    LET j == runJob[r] IN
    /\ pc[r] = "retry" /\ obj[r].worker = r
    /\ row' = [row EXCEPT ![j] = Flush(@, obj[r], Retried(obj[r], counted[r]))]
    /\ Goto(r, "pop")
    /\ UNCHANGED <<runJob, obj, counted, registry, subVars, accepting, crashes>>

(* retry_job raises: the job stays running until its lease lapses.         *)
RetryFails(r) ==
    /\ pc[r] = "retry" /\ crashes < MaxCrashes
    /\ crashes' = crashes + 1
    /\ Goto(r, "pop")
    /\ UNCHANGED <<row, runJob, obj, counted, registry, subVars, accepting>>

(* _cancel_job: the commit, as unconditional as the one of retry_job.      *)
CancelledObj(o) == [o EXCEPT !.status = "cancelled", !.cancel = TRUE, !.lease = "none"]

CancelJob(r) ==
    LET j == runJob[r] IN
    /\ pc[r] = "cancel" /\ obj[r].worker = r
    /\ row' = [row EXCEPT ![j] = Flush(@, obj[r], CancelledObj(obj[r]))]
    /\ Goto(r, "pop")
    /\ UNCHANGED <<runJob, obj, counted, registry, subVars, accepting, crashes>>

(* The finally clause; the key is popped whichever future it names.        *)
PopFuture(r) ==
    /\ pc[r] = "pop"
    /\ registry' = registry \ {runJob[r]}
    /\ obj' = [obj EXCEPT ![r] = AbsentRow]
    /\ counted' = [counted EXCEPT ![r] = FALSE]
    /\ Goto(r, "popped")
    /\ UNCHANGED <<row, runJob, subVars, accepting, crashes>>

(* The executor resolves the future once the function has returned.        *)
ResolveFuture(r) ==
    /\ pc[r] = "popped"
    /\ runJob' = [runJob EXCEPT ![r] = None]
    /\ Goto(r, "done")
    /\ UNCHANGED <<row, obj, counted, registry, subVars, accepting, crashes>>

(* One turn of _heartbeat_loop: renew_lease does not ask whether the lease *)
(* it renews has already lapsed.                                           *)
Heartbeat(r) ==
    LET j == runJob[r] IN
    /\ Executing(r) /\ Owns(r, row[j]) /\ row[j].lease # "live"
    /\ row' = [row EXCEPT ![j].lease = "live"]
    /\ UNCHANGED <<runVars, registry, subVars, accepting, crashes>>

-----------------------------------------------------------------------------
(* Time, shutdown and crashes *)

(* A run, alive from its claim on, keeps the lease it holds fresh.         *)
HeldByLiveRun(j) ==
    \E r \in Runs : /\ runJob[r] = j
                    /\ Owns(r, row[j])
                    /\ pc[r] = "load" \/ Executing(r)

LeaseLapses(j) ==
    /\ row[j].lease = "live"
    /\ LeaseMayLapse \/ ~HeldByLiveRun(j)
    /\ row' = [row EXCEPT ![j].lease = "lapsed"]
    /\ UNCHANGED <<runVars, registry, subVars, accepting, crashes>>

BackoffElapses(j) ==
    /\ row[j].wake = "future"
    /\ row' = [row EXCEPT ![j].wake = "due"]
    /\ UNCHANGED <<runVars, registry, subVars, accepting, crashes>>

(* stop_background_workers, up to stop_event.set().                        *)
StopWorkers ==
    /\ accepting /\ LockFree /\ crashes < MaxCrashes
    /\ crashes' = crashes + 1
    /\ accepting' = FALSE
    /\ sub' = [sub EXCEPT ![Dispatcher] = IF @ = "idle" THEN "stopped" ELSE @]
    /\ UNCHANGED <<row, runVars, registry, subRun, scan, scanJob>>

(* executor.shutdown(wait=False, cancel_futures=True), after the deadline. *)
ShutdownExecutor ==
    LET dropped == {r \in Runs : pc[r] = "pending"} IN
    /\ ~accepting /\ registry # {}
    /\ pc' = [r \in Runs |-> IF r \in dropped THEN "done" ELSE pc[r]]
    /\ runJob' = [r \in Runs |-> IF r \in dropped THEN None ELSE runJob[r]]
    /\ registry' = {}
    /\ UNCHANGED <<row, obj, counted, subVars, accepting, crashes>>

(* The process dies, or exits after a stop, and is started again: threads, *)
(* sessions, futures and the registry are gone, the rows are not.          *)
Restart ==
    /\ accepting => crashes < MaxCrashes
    /\ crashes' = IF accepting THEN crashes + 1 ELSE crashes
    /\ pc' = [r \in Runs |-> "done"]
    /\ runJob' = [r \in Runs |-> None]
    /\ obj' = [r \in Runs |-> AbsentRow]
    /\ counted' = [r \in Runs |-> FALSE]
    /\ registry' = {}
    /\ sub' = [s \in Submitters |-> "idle"]
    /\ subRun' = [s \in Submitters |-> None]
    /\ scan' = {} /\ scanJob' = None
    /\ accepting' = TRUE
    /\ UNCHANGED row

-----------------------------------------------------------------------------

Init ==
    /\ row = [j \in Jobs |-> AbsentRow]
    /\ pc = [r \in Runs |-> "done"]
    /\ runJob = [r \in Runs |-> None]
    /\ obj = [r \in Runs |-> AbsentRow]
    /\ counted = [r \in Runs |-> FALSE]
    /\ registry = {}
    /\ sub = [s \in Submitters |-> "idle"]
    /\ subRun = [s \in Submitters |-> None]
    /\ scan = {} /\ scanJob = None
    /\ accepting = TRUE
    /\ crashes = 0

Submitting(s) ==
    \/ \E j \in Jobs, r \in Runs : SubmitFuture(s, j, r)
    \/ SubmitRefused(s)
    \/ AttachFuture(s)
    \/ CheckFutureDone(s)

Dispatching == RecoverExpired \/ SelectDue \/ SkipActive \/ ScanEnds

Running(r) ==
    \/ ClaimJob(r) \/ ClaimLost(r) \/ LoadJob(r)
    \/ BodyReturns(r) \/ BodyRaises(r) \/ ParserRaises(r)
    \/ FinishJob(r) \/ FinishLost(r)
    \/ ReloadJob(r) \/ OwnershipLost(r)
    \/ RetryJob(r) \/ RetryFails(r) \/ CancelJob(r)
    \/ PopFuture(r) \/ ResolveFuture(r)

Passing(j) == LeaseLapses(j) \/ BackoffElapses(j)

Next ==
    \/ \E j \in Jobs : EnqueueJob(j) \/ RequestCancel(j) \/ Passing(j)
    \/ \E s \in Submitters : Submitting(s)
    \/ Dispatching
    \/ \E r \in Runs : Running(r) \/ Heartbeat(r)
    \/ StopWorkers \/ ShutdownExecutor \/ Restart

Spec == Init /\ [][Next]_vars

(* The threads of a process that is up make progress, time passes, and a   *)
(* stopped process is started again; users and crashes owe nothing.  A     *)
(* submitting thread gets _executor_lock and a place in the executor's     *)
(* unbounded queue sooner or later: strong fairness, because the lock is   *)
(* taken and released, and Runs used up and freed, again and again.        *)
Fairness ==
    /\ \A s \in Submitters : SF_vars(Submitting(s))
    /\ WF_vars(Dispatching)
    /\ \A r \in Runs : WF_vars(Running(r))
    /\ \A j \in Jobs : WF_vars(Passing(j))
    /\ WF_vars(~accepting /\ Restart)

FairSpec == Spec /\ Fairness

-----------------------------------------------------------------------------
(* Properties *)

(* A running row carries what recovery needs, an owner and a lease, and a  *)
(* row waiting to be claimed has no owner that could still write to it:    *)
(* otherwise neither recover_expired_jobs nor claim_job ever takes it.     *)
RunningIsRecoverable ==
    \A j \in Jobs :
        /\ row[j].status = "running" => row[j].worker # None /\ row[j].lease # "none"
        /\ row[j].status \in {"queued", "retry_wait"} => row[j].worker = None

(* A job is marked succeeded only by the run that executed its latest      *)
(* attempt: a run whose lease was lost cannot report success for the run   *)
(* that replaced it (finish_job).                                          *)
SuccessStep ==
    \A j \in Jobs :
        row[j].status # "succeeded" /\ row'[j].status = "succeeded" =>
            \E r \in Runs : /\ runJob[r] = j /\ pc[r] = "verdict"
                            /\ obj[r].attempt = row[j].attempt

SucceededByLatestAttempt == [][SuccessStep]_vars

(* Once cancellation is requested no further attempt of the job starts,    *)
(* whatever recovery, retries and stale commits do to its row (claim_job). *)
CancelStep ==
    \A j \in Jobs : row[j].cancel => /\ row'[j].cancel
                                     /\ row'[j].attempt = row[j].attempt

CancelStopsAttempts == [][CancelStep]_vars

(* While heartbeats keep up with the leases, the engine implements the     *)
(* life cycle of app/jobs.py, crashes and restarts included: statuses move *)
(* along the table and no retry is lost or granted twice.                  *)
Life == INSTANCE JobLifecycle WITH
            status  <- [j \in Jobs |-> row[j].status],
            retries <- [j \in Jobs |-> row[j].retries]

ImplementsLifecycle == Life!LifeSpec

(* While heartbeats keep up, a job is executed by one run at a time, from  *)
(* its claim to the commit of its outcome, and its row names that run.     *)
OneRunAtATime ==
    \A r \in Runs : pc[r] = "load" \/ Executing(r) => Owns(r, row[runJob[r]])

(* The registry still names job j, but no future of it is left: its run    *)
(* popped the key before the submitting thread attached it, and had not    *)
(* resolved its future when that thread looked.                            *)
LeakedKey(j) ==
    /\ j \in registry
    /\ \A r \in Runs : runJob[r] # j
    /\ \A s \in Submitters : sub[s] \in {"attach", "check"} => JobOf(s) # j

(* The dispatcher carries every job to a terminal status: through failed   *)
(* attempts, lapsed leases, stops and crashes, as long as its cancellation *)
(* is not requested and its key has not leaked.                            *)
JobsSettle ==
    \A j \in Jobs : row[j].status # "absent" ~>
        row[j].status \in Terminal \/ row[j].cancel \/ LeakedKey(j)
=============================================================================
