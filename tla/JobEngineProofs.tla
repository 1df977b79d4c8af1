-------------------------- MODULE JobEngineProofs --------------------------
(* Proofs about the background job engine, for any sets of jobs and runs.  *)
EXTENDS JobEngine, TLAPS

(* A run that is not over has a job, and so has the dispatcher's call of   *)
(* _submit_future: row[runJob[r]] and JobOf(s) are then well defined.      *)
RunsHaveJobs == \A r \in Runs : pc[r] # "done" => runJob[r] \in Jobs

DispatchHasJob == sub[Dispatcher] \in {"attach", "check"} => scanJob \in Jobs

TypeInv == TypeOK /\ RunsHaveJobs /\ DispatchHasJob

(* A flush of well-typed rows leaves a well-typed row.                     *)
LEMMA FlushType ==
    ASSUME NEW x \in Row, NEW y \in Row, NEW z \in Row
    PROVE  Flush(x, y, z) \in Row
  BY DEF Flush, Emit, Row, Statuses

LEMMA RetriedType ==
    ASSUME NEW o \in Row, NEW costs \in BOOLEAN
    PROVE  Retried(o, costs) \in Row
  <1> DEFINE n == IF costs THEN o.retries + 1 ELSE o.retries
  <1>1. n \in Nat
    BY DEF Row
  <1> HIDE DEF n
  <1>2. [o EXCEPT !.status = "failed", !.retries = n, !.lease = "none"] \in Row
    BY <1>1 DEF Row, Statuses
  <1>3. [o EXCEPT !.status = "retry_wait", !.retries = n, !.lease = "none",
                  !.wake = "future", !.worker = None] \in Row
    BY <1>1 DEF Row, Statuses
  <1> QED
    BY <1>2, <1>3 DEF Retried, n

LEMMA RecoveredType ==
    ASSUME NEW x \in Row
    PROVE  Recovered(x) \in Row
  <1> DEFINE released == [x EXCEPT !.worker = None, !.lease = "none", !.wake = "none"]
  <1>0. x.retries + 1 \in Nat
    BY DEF Row
  <1>1. released \in Row
    BY DEF Row
  <1> HIDE DEF released
  <1>2. [released EXCEPT !.status = "cancelled"] \in Row
    BY <1>1 DEF Row, Statuses
  <1>3. [released EXCEPT !.status = "failed", !.retries = x.retries + 1] \in Row
    BY <1>0, <1>1 DEF Row, Statuses
  <1>4. [released EXCEPT !.status = "retry_wait", !.retries = x.retries + 1,
                         !.wake = "due"] \in Row
    BY <1>0, <1>1 DEF Row, Statuses
  <1> QED
    BY <1>2, <1>3, <1>4 DEF Recovered, released

LEMMA ClaimedType ==
    ASSUME NEW x \in Row, NEW r \in Runs
    PROVE  Claimed(r, x) \in Row
  <1> DEFINE a == IF x.attempt < MaxAttempt THEN x.attempt + 1 ELSE x.attempt
  <1>1. a \in 0..MaxAttempt
    BY EngineAssumption DEF Row
  <1> HIDE DEF a
  <1>2. [x EXCEPT !.status = "running", !.worker = r, !.lease = "live",
                  !.wake = "none", !.attempt = a] \in Row
    BY <1>1 DEF Row, Statuses
  <1> QED
    BY <1>2 DEF Claimed, a

LEMMA CancelledType ==
    ASSUME NEW o \in Row
    PROVE  CancelledObj(o) \in Row
  BY DEF CancelledObj, Row, Statuses

(* The one-column updates of the remaining actions.                        *)
LEMMA ColumnType ==
    ASSUME NEW x \in Row
    PROVE  /\ [x EXCEPT !.status = "queued"] \in Row
           /\ [x EXCEPT !.cancel = TRUE] \in Row
           /\ [x EXCEPT !.lease = "live"] \in Row
           /\ [x EXCEPT !.lease = "lapsed"] \in Row
           /\ [x EXCEPT !.wake = "due"] \in Row
           /\ [x EXCEPT !.status = "succeeded", !.lease = "none"] \in Row
  BY DEF Row, Statuses

LEMMA AbsentRowType == AbsentRow \in Row
  BY EngineAssumption DEF AbsentRow, Row, Statuses

LEMMA TypeInit == Init => TypeInv
  BY EngineAssumption, AbsentRowType
  DEF Init, TypeInv, TypeOK, RunsHaveJobs, DispatchHasJob, Submitters, Dispatcher

LEMMA TypeStep == TypeInv /\ [Next]_vars => TypeInv'
  <1> SUFFICES ASSUME TypeInv, [Next]_vars PROVE TypeInv'
    OBVIOUS
  <1> USE EngineAssumption
  <1> USE DEF TypeInv, TypeOK, RunsHaveJobs, DispatchHasJob, Submitters, Dispatcher
  <1>1. ASSUME NEW j \in Jobs, EnqueueJob(j) PROVE TypeInv'
    BY <1>1, ColumnType DEF EnqueueJob, runVars
  <1>2. ASSUME NEW j \in Jobs, RequestCancel(j) PROVE TypeInv'
    BY <1>2, ColumnType DEF RequestCancel, runVars, subVars
  <1>3. ASSUME NEW j \in Jobs, LeaseLapses(j) PROVE TypeInv'
    BY <1>3, ColumnType DEF LeaseLapses, runVars, subVars
  <1>4. ASSUME NEW j \in Jobs, BackoffElapses(j) PROVE TypeInv'
    BY <1>4, ColumnType DEF BackoffElapses, runVars, subVars
  <1>5. ASSUME NEW s \in Submitters, NEW j \in Jobs, NEW r \in Runs, SubmitFuture(s, j, r)
        PROVE TypeInv'
    BY <1>5 DEF SubmitFuture, Goto
  <1>6. ASSUME NEW s \in Submitters, SubmitRefused(s) PROVE TypeInv'
    BY <1>6 DEF SubmitRefused, runVars
  <1>7. ASSUME NEW s \in Submitters, AttachFuture(s) PROVE TypeInv'
    BY <1>7 DEF AttachFuture, runVars, JobOf
  <1>8. ASSUME NEW s \in Submitters, CheckFutureDone(s) PROVE TypeInv'
    BY <1>8 DEF CheckFutureDone, runVars, Resume
  <1>9. CASE RecoverExpired
    BY <1>9, RecoveredType DEF RecoverExpired, runVars
  <1>10. CASE SelectDue
    BY <1>10 DEF SelectDue, runVars, ScanWindow
  <1>11. CASE SkipActive
    BY <1>11 DEF SkipActive, runVars
  <1>12. CASE ScanEnds
    BY <1>12 DEF ScanEnds, runVars
  <1>13. ASSUME NEW r \in Runs, ClaimJob(r) PROVE TypeInv'
    BY <1>13, ClaimedType DEF ClaimJob, Goto, subVars
  <1>14. ASSUME NEW r \in Runs, ClaimLost(r) PROVE TypeInv'
    BY <1>14 DEF ClaimLost, Goto, subVars
  <1>15. ASSUME NEW r \in Runs, LoadJob(r) PROVE TypeInv'
    BY <1>15 DEF LoadJob, Goto, subVars
  <1>16. ASSUME NEW r \in Runs, BodyReturns(r) PROVE TypeInv'
    BY <1>16 DEF BodyReturns, Goto, subVars
  <1>17. ASSUME NEW r \in Runs, BodyRaises(r) PROVE TypeInv'
    BY <1>17 DEF BodyRaises, Goto, subVars
  <1>18. ASSUME NEW r \in Runs, ParserRaises(r) PROVE TypeInv'
    BY <1>18 DEF ParserRaises, Goto, subVars
  <1>19. ASSUME NEW r \in Runs, FinishJob(r) PROVE TypeInv'
    BY <1>19, ColumnType DEF FinishJob, Goto, subVars
  <1>20. ASSUME NEW r \in Runs, FinishLost(r) PROVE TypeInv'
    BY <1>20 DEF FinishLost, Goto, subVars
  <1>21. ASSUME NEW r \in Runs, ReloadJob(r) PROVE TypeInv'
    BY <1>21 DEF ReloadJob, Goto, subVars
  <1>22. ASSUME NEW r \in Runs, OwnershipLost(r) PROVE TypeInv'
    BY <1>22 DEF OwnershipLost, Goto, subVars
  <1>23. ASSUME NEW r \in Runs, RetryJob(r) PROVE TypeInv'
    BY <1>23, FlushType, RetriedType DEF RetryJob, Goto, subVars
  <1>24. ASSUME NEW r \in Runs, RetryFails(r) PROVE TypeInv'
    BY <1>24 DEF RetryFails, Goto, subVars
  <1>25. ASSUME NEW r \in Runs, CancelJob(r) PROVE TypeInv'
    BY <1>25, CancelledType, FlushType DEF CancelJob, Goto, subVars
  <1>26. ASSUME NEW r \in Runs, PopFuture(r) PROVE TypeInv'
    BY <1>26, AbsentRowType DEF PopFuture, Goto, subVars
  <1>27. ASSUME NEW r \in Runs, ResolveFuture(r) PROVE TypeInv'
    BY <1>27 DEF ResolveFuture, Goto, subVars
  <1>28. ASSUME NEW r \in Runs, Heartbeat(r) PROVE TypeInv'
    BY <1>28, ColumnType DEF Heartbeat, Owns, runVars, subVars
  <1>29. CASE StopWorkers
    <2>1. crashes' \in 0..MaxCrashes
      BY <1>29 DEF StopWorkers
    <2>2. sub' \in [Submitters -> {"idle", "select", "snapshot", "submit",
                                   "attach", "check", "stopped"}]
      BY <1>29 DEF StopWorkers
    <2>3. DispatchHasJob'
      BY <1>29 DEF StopWorkers
    <2> QED
      BY <1>29, <2>1, <2>2, <2>3 DEF StopWorkers, runVars
  <1>30. CASE ShutdownExecutor
    BY <1>30 DEF ShutdownExecutor, subVars
  <1>31. CASE Restart
    BY <1>31, AbsentRowType DEF Restart
  <1>32. CASE UNCHANGED vars
    BY <1>32 DEF vars, runVars, subVars
  <1> QED
    BY <1>1, <1>2, <1>3, <1>4, <1>5, <1>6, <1>7, <1>8, <1>9, <1>10, <1>11, <1>12,
       <1>13, <1>14, <1>15, <1>16, <1>17, <1>18, <1>19, <1>20, <1>21, <1>22, <1>23,
       <1>24, <1>25, <1>26, <1>27, <1>28, <1>29, <1>30, <1>31, <1>32
    DEF Next, Submitting, Dispatching, Running, Passing

(* Every variable of the engine keeps its type.                            *)
THEOREM TypeCorrect == Spec => []TypeOK
  <1>1. TypeInv => TypeOK
    BY DEF TypeInv
  <1> QED
    BY TypeInit, TypeStep, <1>1, PTL DEF Spec

-----------------------------------------------------------------------------
(* What each way of rewriting a row does to the columns that matter. *)

LEMMA RetryEffect ==
    ASSUME NEW x \in Row, NEW o \in Row, NEW costs \in BOOLEAN
    PROVE  LET y == Flush(x, o, Retried(o, costs)) IN
           /\ y.attempt = x.attempt /\ y.cancel = x.cancel
           /\ y.worker \in {x.worker, None}
           /\ y.status \in {x.status, "failed", "retry_wait"}
  <1> DEFINE d == Retried(o, costs)
  <1>1. /\ d.attempt = o.attempt /\ d.cancel = o.cancel
        /\ d.worker \in {o.worker, None} /\ d.status \in {"failed", "retry_wait"}
    BY DEF Retried, Row
  <1> HIDE DEF d
  <1> QED
    BY <1>1 DEF Flush, Emit, d

LEMMA CancelEffect ==
    ASSUME NEW x \in Row, NEW o \in Row
    PROVE  LET y == Flush(x, o, CancelledObj(o)) IN
           /\ y.attempt = x.attempt /\ y.worker = x.worker
           /\ x.cancel => y.cancel
           /\ y.status \in {x.status, "cancelled"}
  <1> DEFINE d == CancelledObj(o)
  <1>1. /\ d.attempt = o.attempt /\ d.cancel = TRUE
        /\ d.worker = o.worker /\ d.status = "cancelled"
    BY DEF CancelledObj, Row
  <1> HIDE DEF d
  <1> QED
    BY <1>1 DEF Flush, Emit, d

LEMMA RecoverEffect ==
    ASSUME NEW x \in Row
    PROVE  LET y == Recovered(x) IN
           /\ y.attempt = x.attempt /\ y.cancel = x.cancel /\ y.worker = None
           /\ y.status \in {"cancelled", "failed", "retry_wait"}
           /\ y.status = "cancelled" => y.retries = x.retries
           /\ y.status # "cancelled" => y.retries = x.retries + 1
           /\ y.status = "retry_wait" => y.retries < MaxRetries
  BY EngineAssumption DEF Recovered, Row

LEMMA ClaimEffect ==
    ASSUME NEW x \in Row, NEW r \in Runs
    PROVE  LET y == Claimed(r, x) IN
           /\ y.status = "running" /\ y.worker = r /\ y.lease = "live"
           /\ y.cancel = x.cancel /\ y.retries = x.retries
  BY DEF Claimed, Row

(* The steps that write to crawl_jobs.                                      *)
LEMMA RowWriters ==
    ASSUME [Next]_vars
    PROVE  \/ UNCHANGED row
           \/ \E k \in Jobs : EnqueueJob(k) \/ RequestCancel(k) \/ Passing(k)
           \/ RecoverExpired
           \/ \E q \in Runs : \/ ClaimJob(q) \/ FinishJob(q) \/ Heartbeat(q)
                              \/ RetryJob(q) \/ CancelJob(q)
  BY DEF Next, vars, Submitting, SubmitFuture, SubmitRefused, AttachFuture,
     CheckFutureDone, Dispatching, SelectDue, SkipActive, ScanEnds, Running,
     ClaimLost, LoadJob, BodyReturns, BodyRaises, ParserRaises, FinishLost,
     ReloadJob, OwnershipLost, RetryFails, PopFuture, ResolveFuture,
     StopWorkers, ShutdownExecutor, Restart

-----------------------------------------------------------------------------
(* Cancellation *)

LEMMA CancelStepHolds == TypeInv /\ [Next]_vars => CancelStep
  <1> SUFFICES ASSUME TypeInv, [Next]_vars, NEW j \in Jobs, row[j].cancel
               PROVE  row'[j].cancel /\ row'[j].attempt = row[j].attempt
    BY DEF CancelStep
  <1> USE DEF TypeInv, TypeOK, RunsHaveJobs
  <1>1. CASE UNCHANGED row
    BY <1>1
  <1>2. ASSUME NEW k \in Jobs, EnqueueJob(k) \/ RequestCancel(k) \/ Passing(k)
        PROVE  row'[j].cancel /\ row'[j].attempt = row[j].attempt
    BY <1>2 DEF EnqueueJob, RequestCancel, Passing, LeaseLapses, BackoffElapses, Row
  <1>3. CASE RecoverExpired
    BY <1>3, RecoverEffect DEF RecoverExpired
  <1>4. ASSUME NEW r \in Runs, ClaimJob(r)
        PROVE  row'[j].cancel /\ row'[j].attempt = row[j].attempt
    BY <1>4 DEF ClaimJob, Claimable
  <1>5. ASSUME NEW r \in Runs, FinishJob(r) \/ Heartbeat(r)
        PROVE  row'[j].cancel /\ row'[j].attempt = row[j].attempt
    <2>1. /\ [row[j] EXCEPT !.status = "succeeded", !.lease = "none"].cancel = row[j].cancel
          /\ [row[j] EXCEPT !.status = "succeeded", !.lease = "none"].attempt = row[j].attempt
          /\ [row[j] EXCEPT !.lease = "live"].cancel = row[j].cancel
          /\ [row[j] EXCEPT !.lease = "live"].attempt = row[j].attempt
      BY DEF Row
    <2> QED
      BY <1>5, <2>1 DEF FinishJob, Heartbeat, Executing
  <1>6. ASSUME NEW r \in Runs, RetryJob(r)
        PROVE  row'[j].cancel /\ row'[j].attempt = row[j].attempt
    BY <1>6, RetryEffect DEF RetryJob
  <1>7. ASSUME NEW r \in Runs, CancelJob(r)
        PROVE  row'[j].cancel /\ row'[j].attempt = row[j].attempt
    BY <1>7, CancelEffect DEF CancelJob
  <1> QED
    BY <1>1, <1>2, <1>3, <1>4, <1>5, <1>6, <1>7, RowWriters

(* For any jobs, runs, crashes and lapses of leases, no attempt of a job   *)
(* starts once its cancellation is requested.                              *)
THEOREM CancellationStopsAttempts == Spec => CancelStopsAttempts
  <1> QED
    BY TypeInit, TypeStep, CancelStepHolds, PTL DEF Spec, CancelStopsAttempts

-----------------------------------------------------------------------------
(* Success is reported by the latest attempt *)

(* A run that still owns its row holds the attempt number of its own claim.*)
AttemptInv ==
    \A r \in Runs :
        pc[r] \in {"body", "verdict"} /\ Owns(r, row[runJob[r]]) =>
            obj[r].attempt = row[runJob[r]].attempt

(* A run comes to own a row by claiming it and in no other way, and the    *)
(* attempt number of a row changes only when it is claimed.                *)
LEMMA OwnershipStep ==
    ASSUME TypeInv, [Next]_vars, NEW r \in Runs, NEW j \in Jobs, Owns(r, row'[j])
    PROVE  \/ Owns(r, row[j]) /\ row'[j].attempt = row[j].attempt
           \/ pc[r] = "pending" /\ pc'[r] = "load"
  <1> USE DEF TypeInv, TypeOK, RunsHaveJobs, Owns
  <1>0. None \notin Runs
    BY EngineAssumption
  <1>1. CASE UNCHANGED row
    BY <1>1
  <1>2. ASSUME NEW k \in Jobs, EnqueueJob(k) \/ RequestCancel(k) \/ Passing(k)
        PROVE  Owns(r, row[j]) /\ row'[j].attempt = row[j].attempt
    BY <1>2 DEF EnqueueJob, RequestCancel, Passing, LeaseLapses, BackoffElapses, Row
  <1>3. CASE RecoverExpired
    BY <1>0, <1>3, RecoverEffect DEF RecoverExpired
  <1>4. ASSUME NEW q \in Runs, ClaimJob(q)
        PROVE  \/ Owns(r, row[j]) /\ row'[j].attempt = row[j].attempt
               \/ pc[r] = "pending" /\ pc'[r] = "load"
    BY <1>4, ClaimEffect DEF ClaimJob, Goto
  <1>5. ASSUME NEW q \in Runs, FinishJob(q) \/ Heartbeat(q)
        PROVE  Owns(r, row[j]) /\ row'[j].attempt = row[j].attempt
    <2>1. [row[j] EXCEPT !.status = "succeeded", !.lease = "none"].status = "succeeded"
      BY DEF Row
    <2>2. /\ [row[j] EXCEPT !.lease = "live"].status = row[j].status
          /\ [row[j] EXCEPT !.lease = "live"].worker = row[j].worker
          /\ [row[j] EXCEPT !.lease = "live"].attempt = row[j].attempt
      BY DEF Row
    <2>3. CASE FinishJob(q)
      BY <2>1, <2>3 DEF FinishJob
    <2>4. CASE Heartbeat(q)
      BY <2>2, <2>4 DEF Heartbeat, Executing
    <2> QED
      BY <1>5, <2>3, <2>4
  <1>6. ASSUME NEW q \in Runs, RetryJob(q)
        PROVE  Owns(r, row[j]) /\ row'[j].attempt = row[j].attempt
    BY <1>0, <1>6, RetryEffect DEF RetryJob
  <1>7. ASSUME NEW q \in Runs, CancelJob(q)
        PROVE  Owns(r, row[j]) /\ row'[j].attempt = row[j].attempt
    BY <1>7, CancelEffect DEF CancelJob
  <1> QED
    BY <1>1, <1>2, <1>3, <1>4, <1>5, <1>6, <1>7, RowWriters

(* How a run reaches its body, and stays in it.                            *)
LEMMA BodyStep ==
    ASSUME TypeInv, [Next]_vars, NEW r \in Runs, pc'[r] \in {"body", "verdict"}
    PROVE  /\ runJob'[r] = runJob[r]
           /\ \/ pc[r] \in {"body", "verdict"} /\ obj'[r] = obj[r]
              \/ pc[r] = "load" /\ obj'[r] = row[runJob[r]] /\ UNCHANGED row
  <1> USE DEF TypeInv, TypeOK
  <1>1. CASE UNCHANGED runVars
    BY <1>1 DEF runVars
  <1>2. ASSUME NEW s \in Submitters, NEW j \in Jobs, NEW q \in Runs, SubmitFuture(s, j, q)
        PROVE  pc[r] \in {"body", "verdict"} /\ obj'[r] = obj[r] /\ runJob'[r] = runJob[r]
    BY <1>2 DEF SubmitFuture, Goto
  <1>3. ASSUME NEW q \in Runs, Running(q), q # r
        PROVE  pc[r] \in {"body", "verdict"} /\ obj'[r] = obj[r] /\ runJob'[r] = runJob[r]
    BY <1>3 DEF Running, ClaimJob, ClaimLost, LoadJob, BodyReturns, BodyRaises,
       ParserRaises, FinishJob, FinishLost, ReloadJob, OwnershipLost, RetryJob,
       RetryFails, CancelJob, PopFuture, ResolveFuture, Goto
  <1>4. CASE LoadJob(r) \/ BodyReturns(r)
    BY <1>4 DEF LoadJob, BodyReturns, Goto
  <1>5. CASE /\ Running(r)
             /\ ~LoadJob(r) /\ ~BodyReturns(r)
    BY <1>5 DEF Running, ClaimJob, ClaimLost, BodyRaises, ParserRaises, FinishJob,
       FinishLost, ReloadJob, OwnershipLost, RetryJob, RetryFails, CancelJob,
       PopFuture, ResolveFuture, Goto
  <1>6. CASE ShutdownExecutor \/ Restart
    BY <1>6 DEF ShutdownExecutor, Restart
  <1>7. \/ UNCHANGED runVars
        \/ \E s \in Submitters, j \in Jobs, q \in Runs : SubmitFuture(s, j, q)
        \/ \E q \in Runs : Running(q)
        \/ ShutdownExecutor \/ Restart
    BY DEF Next, vars, EnqueueJob, RequestCancel, Passing, LeaseLapses,
       BackoffElapses, Submitting, SubmitRefused, AttachFuture, CheckFutureDone,
       Dispatching, RecoverExpired, SelectDue, SkipActive, ScanEnds, Heartbeat,
       StopWorkers
  <1> QED
    BY <1>1, <1>2, <1>3, <1>4, <1>5, <1>6, <1>7

LEMMA AttemptStep == TypeInv /\ AttemptInv /\ [Next]_vars => AttemptInv'
  <1> SUFFICES ASSUME TypeInv, AttemptInv, [Next]_vars, NEW r \in Runs,
                      pc'[r] \in {"body", "verdict"}, Owns(r, row'[runJob'[r]])
               PROVE  obj'[r].attempt = row'[runJob'[r]].attempt
    BY DEF AttemptInv, Owns
  <1>1. runJob'[r] = runJob[r] /\ runJob[r] \in Jobs
    BY BodyStep DEF TypeInv, RunsHaveJobs
  <1>2. Owns(r, row[runJob[r]]) /\ row'[runJob[r]].attempt = row[runJob[r]].attempt
    BY <1>1, BodyStep, OwnershipStep
  <1> QED
    BY <1>1, <1>2, BodyStep DEF AttemptInv

LEMMA SuccessStepHolds == TypeInv /\ AttemptInv /\ [Next]_vars => SuccessStep
  <1> SUFFICES ASSUME TypeInv, AttemptInv, [Next]_vars, NEW j \in Jobs,
                      row[j].status # "succeeded", row'[j].status = "succeeded"
               PROVE  \E r \in Runs : /\ runJob[r] = j /\ pc[r] = "verdict"
                                      /\ obj[r].attempt = row[j].attempt
    BY DEF SuccessStep
  <1> USE DEF TypeInv, TypeOK, RunsHaveJobs
  <1>1. ASSUME NEW r \in Runs, FinishJob(r)
        PROVE  runJob[r] = j /\ pc[r] = "verdict" /\ obj[r].attempt = row[j].attempt
    BY <1>1 DEF FinishJob, AttemptInv
  <1>2. ASSUME NEW k \in Jobs, EnqueueJob(k) \/ RequestCancel(k) \/ Passing(k)
        PROVE  FALSE
    BY <1>2 DEF EnqueueJob, RequestCancel, Passing, LeaseLapses, BackoffElapses, Row
  <1>3. CASE RecoverExpired
    BY <1>3, RecoverEffect DEF RecoverExpired
  <1>4. ASSUME NEW r \in Runs, ClaimJob(r) PROVE FALSE
    BY <1>4, ClaimEffect DEF ClaimJob
  <1>5. ASSUME NEW r \in Runs, Heartbeat(r) PROVE FALSE
    <2>1. [row[j] EXCEPT !.lease = "live"].status = row[j].status
      BY DEF Row
    <2> QED
      BY <1>5, <2>1 DEF Heartbeat, Executing
  <1>6. ASSUME NEW r \in Runs, RetryJob(r) PROVE FALSE
    <2>1. row'[j] \in {row[j], Flush(row[j], obj[r], Retried(obj[r], counted[r]))}
      BY <1>6 DEF RetryJob
    <2>2. Flush(row[j], obj[r], Retried(obj[r], counted[r])).status
            \in {row[j].status, "failed", "retry_wait"}
      BY RetryEffect
    <2> QED
      BY <2>1, <2>2
  <1>7. ASSUME NEW r \in Runs, CancelJob(r) PROVE FALSE
    BY <1>7, CancelEffect DEF CancelJob
  <1> QED
    BY <1>1, <1>2, <1>3, <1>4, <1>5, <1>6, <1>7, RowWriters

(* For any jobs and runs, lapsed leases included: a run that lost its job  *)
(* to another one cannot report its success.                               *)
THEOREM SuccessIsLatest == Spec => SucceededByLatestAttempt
  <1>1. Init => AttemptInv
    BY DEF Init, AttemptInv
  <1> QED
    BY <1>1, TypeInit, TypeStep, AttemptStep, SuccessStepHolds, PTL
    DEF Spec, SucceededByLatestAttempt

-----------------------------------------------------------------------------
(* While heartbeats keep up with the leases *)

(* A run between its claim and its outcome owns a row with a live lease.   *)
OwnerInv ==
    \A r \in Runs : pc[r] = "load" \/ Executing(r) =>
        Owns(r, row[runJob[r]]) /\ row[runJob[r]].lease = "live"

(* What such a run has loaded is still true of its row.                    *)
FreshInv ==
    \A r \in Runs : Executing(r) =>
        /\ obj[r].status = "running" /\ obj[r].worker = r
        /\ obj[r].retries = row[runJob[r]].retries

(* A job that may still run has budget.                                    *)
BudgetInv ==
    \A j \in Jobs :
        /\ row[j].status = "absent" => row[j].retries = 0
        /\ Life!HasBudget(row[j].status, row[j].retries)

HeartbeatInv == OwnerInv /\ FreshInv /\ BudgetInv

LEMMA FreshRetry ==
    ASSUME NEW x \in Row, NEW o \in Row, NEW costs \in BOOLEAN,
           x.status = "running", o.status = "running", o.retries = x.retries
    PROVE  LET y == Flush(x, o, Retried(o, costs)) IN
           /\ y.status \in {"failed", "retry_wait"}
           /\ y.retries \in {x.retries, x.retries + 1}
           /\ y.status = "retry_wait" => y.retries < MaxRetries
  <1> DEFINE d == Retried(o, costs)
  <1>1. /\ d.status \in {"failed", "retry_wait"}
        /\ d.retries \in {o.retries, o.retries + 1}
        /\ d.status = "retry_wait" => d.retries < MaxRetries
    BY EngineAssumption DEF Retried, Row
  <1> HIDE DEF d
  <1> QED
    BY <1>1 DEF Flush, Emit, d

LEMMA FreshCancel ==
    ASSUME NEW x \in Row, NEW o \in Row, o.status = "running"
    PROVE  LET y == Flush(x, o, CancelledObj(o)) IN
           y.status = "cancelled" /\ y.retries = x.retries
  <1> DEFINE d == CancelledObj(o)
  <1>1. d.status = "cancelled" /\ d.retries = o.retries
    BY DEF CancelledObj, Row
  <1> HIDE DEF d
  <1> QED
    BY <1>1 DEF Flush, Emit, d

(* The one-column updates, column by column.                               *)
LEMMA ColumnEffect ==
    ASSUME NEW x \in Row
    PROVE  /\ LET y == [x EXCEPT !.status = "queued"] IN
              y.status = "queued" /\ y.retries = x.retries
           /\ LET y == [x EXCEPT !.status = "succeeded", !.lease = "none"] IN
              y.status = "succeeded" /\ y.retries = x.retries
           /\ \A y \in {[x EXCEPT !.cancel = TRUE], [x EXCEPT !.wake = "due"]} :
                 /\ y.status = x.status /\ y.retries = x.retries
                 /\ y.worker = x.worker /\ y.lease = x.lease
           /\ LET y == [x EXCEPT !.lease = "live"] IN
              /\ y.status = x.status /\ y.retries = x.retries
              /\ y.worker = x.worker /\ y.lease = "live"
           /\ LET y == [x EXCEPT !.lease = "lapsed"] IN
              y.status = x.status /\ y.retries = x.retries
  BY DEF Row

(* The status and retries of every row move as the life cycle allows.      *)
LEMMA LifeStep ==
    ASSUME TypeInv, HeartbeatInv, [Next]_vars, NEW j \in Jobs
    PROVE  \/ row'[j].status = row[j].status /\ row'[j].retries = row[j].retries
           \/ /\ Life!CanTransition(row[j].status, row'[j].status)
              /\ \/ row'[j].retries = row[j].retries
                 \/ /\ row'[j].retries = row[j].retries + 1
                    /\ row[j].status = "running"
                    /\ row'[j].status \in {"retry_wait", "failed"}
              /\ Life!HasBudget(row'[j].status, row'[j].retries)
  <1> DEFINE Kept == row'[j].status = row[j].status /\ row'[j].retries = row[j].retries
             Moved == /\ Life!CanTransition(row[j].status, row'[j].status)
                      /\ \/ row'[j].retries = row[j].retries
                         \/ /\ row'[j].retries = row[j].retries + 1
                            /\ row[j].status = "running"
                            /\ row'[j].status \in {"retry_wait", "failed"}
                      /\ Life!HasBudget(row'[j].status, row'[j].retries)
  <1> USE DEF TypeInv, TypeOK, RunsHaveJobs
  <1>1. CASE UNCHANGED row
    BY <1>1
  <1>2. ASSUME NEW k \in Jobs, EnqueueJob(k) PROVE Kept \/ Moved
    BY <1>2, ColumnEffect DEF EnqueueJob, HeartbeatInv, BudgetInv, Life!CanTransition,
       Life!HasBudget
  <1>3. ASSUME NEW k \in Jobs, RequestCancel(k) \/ Passing(k) PROVE Kept
    <2>1. CASE RequestCancel(k)
      BY <2>1, ColumnEffect DEF RequestCancel
    <2>2. CASE LeaseLapses(k)
      BY <2>2, ColumnEffect DEF LeaseLapses
    <2>3. CASE BackoffElapses(k)
      BY <2>3, ColumnEffect DEF BackoffElapses
    <2> QED
      BY <1>3, <2>1, <2>2, <2>3 DEF Passing
  <1>4. CASE RecoverExpired
    BY <1>4, RecoverEffect DEF RecoverExpired, Life!CanTransition,
       Life!AllowedTransitions, Life!HasBudget
  <1>5. ASSUME NEW q \in Runs, ClaimJob(q) PROVE Kept \/ Moved
    BY <1>5, ClaimEffect DEF ClaimJob, Claimable, Due, HeartbeatInv, BudgetInv,
       Life!CanTransition, Life!AllowedTransitions, Life!HasBudget
  <1>6. ASSUME NEW q \in Runs, FinishJob(q) PROVE Kept \/ Moved
    BY <1>6, ColumnEffect DEF FinishJob, Owns, Life!CanTransition,
       Life!AllowedTransitions, Life!HasBudget
  <1>7. ASSUME NEW q \in Runs, Heartbeat(q) PROVE Kept
    BY <1>7, ColumnEffect DEF Heartbeat
  <1>8. ASSUME NEW q \in Runs, RetryJob(q) PROVE Kept \/ Moved
    <2>1. Executing(q) /\ runJob[q] \in Jobs
      BY <1>8 DEF RetryJob, Executing
    <2>2. CASE runJob[q] # j
      BY <1>8, <2>1, <2>2 DEF RetryJob
    <2>3. CASE runJob[q] = j
      <3>1. row'[j] = Flush(row[j], obj[q], Retried(obj[q], counted[q]))
        BY <1>8, <2>3 DEF RetryJob
      <3>2. row[j].status = "running" /\ obj[q].status = "running"
            /\ obj[q].retries = row[j].retries
        BY <2>1, <2>3 DEF HeartbeatInv, OwnerInv, FreshInv, Owns
      <3>3. /\ row'[j].status \in {"failed", "retry_wait"}
            /\ row'[j].retries \in {row[j].retries, row[j].retries + 1}
            /\ row'[j].status = "retry_wait" => row'[j].retries < MaxRetries
        BY <3>1, <3>2, FreshRetry
      <3> QED
        BY <3>2, <3>3 DEF Life!CanTransition, Life!AllowedTransitions, Life!HasBudget
    <2> QED
      BY <2>2, <2>3
  <1>9. ASSUME NEW q \in Runs, CancelJob(q) PROVE Kept \/ Moved
    <2>1. Executing(q) /\ runJob[q] \in Jobs
      BY <1>9 DEF CancelJob, Executing
    <2>2. CASE runJob[q] # j
      BY <1>9, <2>1, <2>2 DEF CancelJob
    <2>3. CASE runJob[q] = j
      <3>1. row'[j] = Flush(row[j], obj[q], CancelledObj(obj[q]))
        BY <1>9, <2>3 DEF CancelJob
      <3>2. row[j].status = "running" /\ obj[q].status = "running"
        BY <2>1, <2>3 DEF HeartbeatInv, OwnerInv, FreshInv, Owns
      <3>3. row'[j].status = "cancelled" /\ row'[j].retries = row[j].retries
        BY <3>1, <3>2, FreshCancel
      <3> QED
        BY <3>2, <3>3 DEF Life!CanTransition, Life!AllowedTransitions, Life!HasBudget
    <2> QED
      BY <2>2, <2>3
  <1> QED
    BY <1>1, <1>2, <1>3, <1>4, <1>5, <1>6, <1>7, <1>8, <1>9, RowWriters

Held(r) == pc[r] = "load" \/ Executing(r)

(* How a run comes to hold a job, and what it knows while it does.         *)
LEMMA HeldStep ==
    ASSUME TypeInv, [Next]_vars, NEW r \in Runs, Held(r)'
    PROVE  /\ runJob'[r] = runJob[r] /\ runJob[r] \in Jobs
           /\ ~FinishJob(r) /\ ~RetryJob(r) /\ ~CancelJob(r)
           /\ \/ ClaimJob(r) /\ pc'[r] = "load"
              \/ Held(r) /\ obj'[r] = obj[r] /\ (Executing(r)' => Executing(r))
              \/ Held(r) /\ obj'[r] = row[runJob[r]] /\ UNCHANGED row
  <1> USE DEF TypeInv, TypeOK, RunsHaveJobs, Held, Executing
  <1>1. CASE UNCHANGED runVars
    BY <1>1 DEF runVars, FinishJob, RetryJob, CancelJob, Goto
  <1>2. ASSUME NEW s \in Submitters, NEW j \in Jobs, NEW q \in Runs, SubmitFuture(s, j, q)
        PROVE  /\ Held(r) /\ obj'[r] = obj[r] /\ runJob'[r] = runJob[r] /\ pc'[r] = pc[r]
    BY <1>2 DEF SubmitFuture, Goto
  <1>3. ASSUME NEW q \in Runs, Running(q), q # r
        PROVE  /\ Held(r) /\ obj'[r] = obj[r] /\ runJob'[r] = runJob[r] /\ pc'[r] = pc[r]
    BY <1>3 DEF Running, ClaimJob, ClaimLost, LoadJob, BodyReturns, BodyRaises,
       ParserRaises, FinishJob, FinishLost, ReloadJob, OwnershipLost, RetryJob,
       RetryFails, CancelJob, PopFuture, ResolveFuture, Goto
  <1>4. CASE ClaimJob(r)
    BY <1>4 DEF ClaimJob, FinishJob, RetryJob, CancelJob, Goto
  <1>5. CASE LoadJob(r) \/ ReloadJob(r)
    BY <1>5 DEF LoadJob, ReloadJob, FinishJob, RetryJob, CancelJob, Goto
  <1>6. CASE BodyReturns(r) \/ BodyRaises(r) \/ ParserRaises(r) \/ FinishLost(r)
    BY <1>6 DEF BodyReturns, BodyRaises, ParserRaises, FinishLost, FinishJob,
       RetryJob, CancelJob, Goto
  <1>7. ASSUME \/ ClaimLost(r) \/ FinishJob(r) \/ OwnershipLost(r) \/ RetryJob(r)
               \/ RetryFails(r) \/ CancelJob(r) \/ PopFuture(r) \/ ResolveFuture(r)
        PROVE FALSE
    BY <1>7 DEF ClaimLost, FinishJob, OwnershipLost, RetryJob, RetryFails,
       CancelJob, PopFuture, ResolveFuture, Goto
  <1>8. CASE ShutdownExecutor \/ Restart
    BY <1>8 DEF ShutdownExecutor, Restart, FinishJob, RetryJob, CancelJob
  <1>9. \/ UNCHANGED runVars
        \/ \E s \in Submitters, j \in Jobs, q \in Runs : SubmitFuture(s, j, q)
        \/ \E q \in Runs : Running(q)
        \/ ShutdownExecutor \/ Restart
    BY DEF Next, vars, EnqueueJob, RequestCancel, Passing, LeaseLapses,
       BackoffElapses, Submitting, SubmitRefused, AttachFuture, CheckFutureDone,
       Dispatching, RecoverExpired, SelectDue, SkipActive, ScanEnds, Heartbeat,
       StopWorkers
  <1>10. CASE \E q \in Runs : Running(q) /\ q # r
    BY <1>3, <1>10 DEF FinishJob, RetryJob, CancelJob, Goto
  <1>11. CASE \E s \in Submitters, j \in Jobs, q \in Runs : SubmitFuture(s, j, q)
    BY <1>2, <1>11 DEF FinishJob, RetryJob, CancelJob, Goto
  <1>12. CASE Running(r)
    BY <1>12, <1>4, <1>5, <1>6, <1>7 DEF Running
  <1> QED
    BY <1>1, <1>8, <1>9, <1>10, <1>11, <1>12

(* No other thread takes away, or rewrites, a row that a live run holds.   *)
LEMMA HeldRow ==
    ASSUME TypeInv, HeartbeatInv, [Next]_vars, LeaseMayLapse = FALSE,
           NEW r \in Runs, Held(r), ~FinishJob(r), ~RetryJob(r), ~CancelJob(r)
    PROVE  LET j == runJob[r] IN
           /\ Owns(r, row'[j]) /\ row'[j].lease = "live"
           /\ row'[j].retries = row[j].retries
  <1> DEFINE j == runJob[r]
             Goal == /\ Owns(r, row'[j]) /\ row'[j].lease = "live"
                     /\ row'[j].retries = row[j].retries
  <1> USE DEF TypeInv, TypeOK
  <1>0. j \in Jobs
    BY DEF Held, Executing, RunsHaveJobs
  <1> SUFFICES Goal
    OBVIOUS
  <1> HIDE DEF j
  <1>00. Owns(r, row[j]) /\ row[j].lease = "live"
    BY DEF HeartbeatInv, OwnerInv, Held, j
  <1>1. CASE UNCHANGED row
    BY <1>00, <1>1 DEF Owns
  <1>2. ASSUME NEW k \in Jobs, EnqueueJob(k) PROVE Goal
    BY <1>0, <1>00, <1>2 DEF EnqueueJob, Owns
  <1>3. ASSUME NEW k \in Jobs, RequestCancel(k) PROVE Goal
    BY <1>0, <1>00, <1>3, ColumnEffect DEF RequestCancel, Owns
  <1>4. ASSUME NEW k \in Jobs, LeaseLapses(k) PROVE Goal
    BY <1>0, <1>00, <1>4 DEF LeaseLapses, HeldByLiveRun, Held, j
  <1>5. ASSUME NEW k \in Jobs, BackoffElapses(k) PROVE Goal
    BY <1>0, <1>00, <1>5, ColumnEffect DEF BackoffElapses, Owns
  <1>6. CASE RecoverExpired
    <2>1. row'[j] = row[j]
      BY <1>0, <1>00, <1>6 DEF RecoverExpired
    <2> QED
      BY <1>00, <2>1 DEF Owns
  <1>7. ASSUME NEW q \in Runs, ClaimJob(q) PROVE Goal
    BY <1>0, <1>00, <1>7 DEF ClaimJob, Claimable, Due, Owns
  <1>8. ASSUME NEW q \in Runs, Heartbeat(q) PROVE Goal
    BY <1>0, <1>00, <1>8 DEF Heartbeat
  <1>9. ASSUME NEW q \in Runs, FinishJob(q) PROVE Goal
    BY <1>0, <1>00, <1>9 DEF FinishJob, Owns
  <1>10. ASSUME NEW q \in Runs, RetryJob(q) \/ CancelJob(q), q # r PROVE Goal
    <2>1. runJob[q] # j
      BY <1>00, <1>10 DEF RetryJob, CancelJob, Executing, HeartbeatInv, OwnerInv, Owns
    <2> QED
      BY <1>0, <1>00, <1>10, <2>1 DEF RetryJob, CancelJob
  <1> QED
    BY <1>1, <1>2, <1>3, <1>4, <1>5, <1>6, <1>7, <1>8, <1>9, <1>10, RowWriters
    DEF Passing, j

LEMMA HeartbeatStep ==
    ASSUME TypeInv, HeartbeatInv, [Next]_vars, LeaseMayLapse = FALSE
    PROVE  HeartbeatInv'
  <1> USE DEF TypeInv, TypeOK
  <1>1. BudgetInv'
    <2> SUFFICES ASSUME NEW j \in Jobs
                 PROVE  /\ row'[j].status = "absent" => row'[j].retries = 0
                        /\ Life!HasBudget(row'[j].status, row'[j].retries)
      BY DEF BudgetInv, Life!HasBudget
    <2> QED
      BY LifeStep DEF HeartbeatInv, BudgetInv, Life!CanTransition,
         Life!AllowedTransitions
  <1>2. ASSUME NEW r \in Runs, Held(r)'
        PROVE  /\ Owns(r, row'[runJob'[r]]) /\ row'[runJob'[r]].lease = "live"
               /\ Executing(r)' =>
                      /\ obj'[r].status = "running" /\ obj'[r].worker = r
                      /\ obj'[r].retries = row'[runJob'[r]].retries
    <2>1. CASE ClaimJob(r) /\ pc'[r] = "load"
      <3>1. runJob[r] \in Jobs /\ runJob'[r] = runJob[r]
        BY <1>2, HeldStep
      <3>2. row'[runJob[r]] = Claimed(r, row[runJob[r]]) /\ row[runJob[r]] \in Row
        BY <2>1, <3>1 DEF ClaimJob
      <3>3. Owns(r, row'[runJob[r]]) /\ row'[runJob[r]].lease = "live"
        BY <3>2, ClaimEffect DEF Owns
      <3>4. ~Executing(r)'
        BY <2>1 DEF Executing
      <3> QED
        BY <3>1, <3>3, <3>4
    <2>2. CASE Held(r) /\ obj'[r] = obj[r] /\ (Executing(r)' => Executing(r))
      <3>1. /\ runJob'[r] = runJob[r]
            /\ ~FinishJob(r) /\ ~RetryJob(r) /\ ~CancelJob(r)
        BY <1>2, HeldStep
      <3>2. /\ Owns(r, row'[runJob[r]]) /\ row'[runJob[r]].lease = "live"
            /\ row'[runJob[r]].retries = row[runJob[r]].retries
        BY <2>2, <3>1, HeldRow
      <3>3. Executing(r) => /\ obj[r].status = "running" /\ obj[r].worker = r
                            /\ obj[r].retries = row[runJob[r]].retries
        BY DEF HeartbeatInv, FreshInv
      <3> QED
        BY <2>2, <3>1, <3>2, <3>3
    <2>3. CASE Held(r) /\ obj'[r] = row[runJob[r]] /\ UNCHANGED row
      BY <1>2, <2>3, HeldStep DEF HeartbeatInv, OwnerInv, Owns, Held
    <2> QED
      BY <1>2, <2>1, <2>2, <2>3, HeldStep
  <1> QED
    BY <1>1, <1>2 DEF HeartbeatInv, OwnerInv, FreshInv, Held

LEMMA HeartbeatInit == Init => HeartbeatInv
  BY EngineAssumption
  DEF Init, HeartbeatInv, OwnerInv, FreshInv, BudgetInv, Life!HasBudget, Executing, AbsentRow

(* For any jobs, runs and crashes: if no lease lapses under a live run, a  *)
(* job is never executed by two runs at once.                              *)
THEOREM SingleExecution == LeaseMayLapse = FALSE => (Spec => []OneRunAtATime)
  <1> SUFFICES ASSUME LeaseMayLapse = FALSE PROVE Spec => []OneRunAtATime
    OBVIOUS
  <1>1. TypeInv /\ HeartbeatInv /\ [Next]_vars => HeartbeatInv'
    BY HeartbeatStep
  <1>2. HeartbeatInv => OneRunAtATime
    BY DEF HeartbeatInv, OwnerInv, OneRunAtATime
  <1> QED
    BY <1>1, <1>2, TypeInit, TypeStep, HeartbeatInit, PTL DEF Spec

(* Under the same assumption the engine implements the life cycle of       *)
(* app/jobs.py.                                                            *)
THEOREM LifecycleImplemented == LeaseMayLapse = FALSE => (Spec => ImplementsLifecycle)
  <1> SUFFICES ASSUME LeaseMayLapse = FALSE PROVE Spec => ImplementsLifecycle
    OBVIOUS
  <1>1. TypeInv /\ HeartbeatInv /\ [Next]_vars => HeartbeatInv'
    BY HeartbeatStep
  <1>2. Init => Life!LifeInit
    BY DEF Init, Life!LifeInit, AbsentRow
  <1>3. TypeInv /\ HeartbeatInv /\ [Next]_vars => [Life!Step]_(Life!lifeVars)
    <2> SUFFICES ASSUME TypeInv, HeartbeatInv, [Next]_vars PROVE Life!Step
      OBVIOUS
    <2> QED
      BY LifeStep DEF Life!Step, Life!Transition
  <1> QED
    BY <1>1, <1>2, <1>3, TypeInit, TypeStep, HeartbeatInit, PTL
    DEF Spec, ImplementsLifecycle, Life!LifeSpec

-----------------------------------------------------------------------------
(* What is running can be recovered, and what waits can be claimed *)

(* A row agrees with its status.  A lease may survive the end of a job     *)
(* only once its cancellation was requested, when nobody claims it again.  *)
Sound(x) ==
    /\ x.status = "running" => x.worker # None /\ x.lease # "none"
    /\ x.status \in {"absent", "queued", "retry_wait"} => x.worker = None
    /\ x.status \in {"failed", "succeeded"} => x.lease = "none" \/ x.cancel
    /\ x.status = "cancelled" => x.cancel

SoundRows == \A j \in Jobs : Sound(row[j])

(* A run that holds a job has not succeeded at it, and what it has loaded, *)
(* however old, can be written back: a cancellation it has seen is there   *)
(* to stay, so that the job does not run again.                            *)
SoundHolding ==
    \A r \in Runs :
        LET x == row[runJob[r]] IN
        /\ Held(r) => ~(x.status = "succeeded" /\ x.worker = r)
        /\ Executing(r) =>
              /\ Sound(obj[r]) /\ ~(obj[r].status = "succeeded" /\ obj[r].worker = r)
              /\ obj[r].cancel => x.cancel /\ (obj[r].status # "running" => x.status # "running")

SoundInv == SoundRows /\ SoundHolding

LEMMA RetrySound ==
    ASSUME NEW x \in Row, NEW o \in Row, NEW costs \in BOOLEAN, NEW r \in Runs,
           Sound(x), Sound(o), o.worker = r, o.status # "succeeded",
           o.cancel => x.cancel /\ (o.status # "running" => x.status # "running")
    PROVE  LET y == Flush(x, o, Retried(o, costs)) IN
           Sound(y) /\ (y.status = "running" => x.status = "running")
  <1> DEFINE d == Retried(o, costs)
             y == Flush(x, o, d)
  <1>1. /\ d.cancel = o.cancel /\ d.lease = "none"
        /\ \/ d.status = "failed" /\ d.worker = o.worker
           \/ d.status = "retry_wait" /\ d.worker = None
    BY DEF Retried, Row
  <1> HIDE DEF d
  <1>2. /\ y.status = Emit(x.status, o.status, d.status)
        /\ y.worker = Emit(x.worker, o.worker, d.worker)
        /\ y.lease = Emit(x.lease, o.lease, d.lease)
        /\ y.cancel = Emit(x.cancel, o.cancel, d.cancel)
    BY DEF Flush
  <1>3. r # None /\ o.status \in {"running", "failed", "cancelled"}
    BY EngineAssumption DEF Sound, Row, Statuses
  <1> HIDE DEF y
  <1>4. Sound(y) /\ (y.status = "running" => x.status = "running")
    BY <1>1, <1>2, <1>3 DEF Emit, Sound
  <1> QED
    BY <1>4 DEF y, d

LEMMA CancelSound ==
    ASSUME NEW x \in Row, NEW o \in Row, NEW r \in Runs,
           Sound(x), Sound(o), o.worker = r, o.status # "succeeded",
           o.cancel => x.cancel /\ (o.status # "running" => x.status # "running")
    PROVE  LET y == Flush(x, o, CancelledObj(o)) IN
           Sound(y) /\ (y.status = "running" => x.status = "running")
  <1> DEFINE d == CancelledObj(o)
             y == Flush(x, o, d)
  <1>1. d.cancel = TRUE /\ d.lease = "none" /\ d.status = "cancelled" /\ d.worker = o.worker
    BY DEF CancelledObj, Row
  <1> HIDE DEF d
  <1>2. /\ y.status = Emit(x.status, o.status, d.status)
        /\ y.worker = Emit(x.worker, o.worker, d.worker)
        /\ y.lease = Emit(x.lease, o.lease, d.lease)
        /\ y.cancel = Emit(x.cancel, o.cancel, d.cancel)
    BY DEF Flush
  <1>3. o.status \in {"running", "failed", "cancelled"} /\ o.cancel \in BOOLEAN
    BY EngineAssumption DEF Sound, Row, Statuses
  <1> HIDE DEF y
  <1>4. Sound(y) /\ (y.status = "running" => x.status = "running")
    BY <1>1, <1>2, <1>3 DEF Emit, Sound
  <1> QED
    BY <1>4 DEF y, d

LEMMA ColumnSound ==
    ASSUME NEW x \in Row, Sound(x)
    PROVE  /\ x.status = "absent" => Sound([x EXCEPT !.status = "queued"])
           /\ Sound([x EXCEPT !.cancel = TRUE]) /\ Sound([x EXCEPT !.wake = "due"])
           /\ x.lease # "none" => Sound([x EXCEPT !.lease = "lapsed"])
           /\ x.status = "running" => Sound([x EXCEPT !.lease = "live"])
           /\ Sound([x EXCEPT !.status = "succeeded", !.lease = "none"])
  BY DEF Row, Sound

LEMMA RecoveredSound ==
    ASSUME NEW x \in Row
    PROVE  Sound(Recovered(x))
  BY DEF Recovered, Row, Sound

LEMMA ClaimedSound ==
    ASSUME NEW x \in Row, NEW r \in Runs
    PROVE  Sound(Claimed(r, x))
  BY ClaimEffect, EngineAssumption DEF Sound

(* What a run writes back was loaded soundly.                              *)
LEMMA WriteBackSound ==
    ASSUME TypeInv, SoundInv, NEW r \in Runs, RetryJob(r) \/ CancelJob(r)
    PROVE  LET j == runJob[r] IN
           /\ j \in Jobs /\ Sound(row'[j])
           /\ row'[j].status = "running" => row[j].status = "running"
           /\ \A k \in Jobs : k # j => row'[k] = row[k]
  <1> DEFINE j == runJob[r]
  <1>1. /\ j \in Jobs /\ Executing(r) /\ obj[r].worker = r
        /\ row[j] \in Row /\ obj[r] \in Row /\ counted[r] \in BOOLEAN
    BY DEF TypeInv, TypeOK, RunsHaveJobs, RetryJob, CancelJob, Executing
  <1>2. /\ Sound(row[j]) /\ Sound(obj[r]) /\ obj[r].status # "succeeded"
        /\ obj[r].cancel => row[j].cancel
        /\ obj[r].cancel /\ obj[r].status # "running" => row[j].status # "running"
    BY <1>1 DEF SoundInv, SoundRows, SoundHolding
  <1>3. CASE RetryJob(r)
    <2>1. row' = [row EXCEPT ![j] = Flush(row[j], obj[r], Retried(obj[r], counted[r]))]
      BY <1>3 DEF RetryJob
    <2>2. row'[j] = Flush(row[j], obj[r], Retried(obj[r], counted[r]))
          /\ \A k \in Jobs : k # j => row'[k] = row[k]
      BY <1>1, <2>1 DEF TypeInv, TypeOK
    <2> QED
      BY <1>1, <1>2, <2>2, RetrySound
  <1>4. CASE CancelJob(r)
    <2>1. row' = [row EXCEPT ![j] = Flush(row[j], obj[r], CancelledObj(obj[r]))]
      BY <1>4 DEF CancelJob
    <2>2. row'[j] = Flush(row[j], obj[r], CancelledObj(obj[r]))
          /\ \A k \in Jobs : k # j => row'[k] = row[k]
      BY <1>1, <2>1 DEF TypeInv, TypeOK
    <2> QED
      BY <1>1, <1>2, <2>2, CancelSound
  <1> QED
    BY <1>3, <1>4

LEMMA SoundRowsStep == TypeInv /\ SoundInv /\ [Next]_vars => SoundRows'
  <1> SUFFICES ASSUME TypeInv, SoundInv, [Next]_vars, NEW j \in Jobs PROVE Sound(row'[j])
    BY DEF SoundRows, Sound
  <1> USE DEF TypeInv, TypeOK
  <1>0. Sound(row[j]) /\ row[j] \in Row
    BY DEF SoundInv, SoundRows
  <1>1. CASE UNCHANGED row
    BY <1>0, <1>1
  <1>2. ASSUME NEW k \in Jobs, EnqueueJob(k) PROVE Sound(row'[j])
    BY <1>0, <1>2, ColumnSound DEF EnqueueJob
  <1>3. ASSUME NEW k \in Jobs, RequestCancel(k) PROVE Sound(row'[j])
    <2>1. row'[j] = row[j] \/ row'[j] = [row[j] EXCEPT !.cancel = TRUE]
      BY <1>3 DEF RequestCancel
    <2> QED
      BY <1>0, <2>1, ColumnSound
  <1>4. ASSUME NEW k \in Jobs, Passing(k) PROVE Sound(row'[j])
    <2>1. \/ row'[j] = row[j] \/ row'[j] = [row[j] EXCEPT !.wake = "due"]
          \/ row[j].lease # "none" /\ row'[j] = [row[j] EXCEPT !.lease = "lapsed"]
      BY <1>4 DEF Passing, LeaseLapses, BackoffElapses
    <2> QED
      BY <1>0, <2>1, ColumnSound
  <1>5. CASE RecoverExpired
    BY <1>0, <1>5, RecoveredSound DEF RecoverExpired
  <1>6. ASSUME NEW r \in Runs, ClaimJob(r) PROVE Sound(row'[j])
    BY <1>0, <1>6, ClaimedSound DEF ClaimJob
  <1>7. ASSUME NEW r \in Runs, FinishJob(r) PROVE Sound(row'[j])
    BY <1>0, <1>7, ColumnSound DEF FinishJob
  <1>8. ASSUME NEW r \in Runs, Heartbeat(r) PROVE Sound(row'[j])
    BY <1>0, <1>8, ColumnSound DEF Heartbeat, Owns
  <1>9. ASSUME NEW r \in Runs, RetryJob(r) \/ CancelJob(r) PROVE Sound(row'[j])
    BY <1>0, <1>9, WriteBackSound
  <1> QED
    BY <1>1, <1>2, <1>3, <1>4, <1>5, <1>6, <1>7, <1>8, <1>9, RowWriters

(* A job whose cancellation is requested never starts running, and only    *)
(* its own run marks it succeeded under its name.                          *)
LEMMA RunningStep ==
    ASSUME TypeInv, SoundInv, [Next]_vars, NEW j \in Jobs, NEW r \in Runs
    PROVE  /\ row[j].cancel /\ row[j].status # "running" => row'[j].status # "running"
           /\ row'[j].status = "succeeded" /\ row'[j].worker = r =>
                 (row[j].status = "succeeded" /\ row[j].worker = r) \/ FinishJob(r)
  <1> USE DEF TypeInv, TypeOK
  <1>1. CASE UNCHANGED row
    BY <1>1
  <1>2. ASSUME NEW k \in Jobs, EnqueueJob(k) \/ RequestCancel(k) \/ Passing(k)
        PROVE  /\ row'[j].status = row[j].status \/ row'[j].status = "queued"
               /\ row'[j].worker = row[j].worker
    BY <1>2 DEF EnqueueJob, RequestCancel, Passing, LeaseLapses, BackoffElapses, Row
  <1>3. CASE RecoverExpired
    <2>1. row'[j] = row[j] \/ row'[j] = Recovered(row[j])
      BY <1>3 DEF RecoverExpired
    <2> QED
      BY <2>1, RecoverEffect
  <1>4. ASSUME NEW q \in Runs, ClaimJob(q)
        PROVE  row'[j] = row[j] \/ (row'[j].status = "running" /\ ~row[j].cancel)
    <2>1. row'[j] = row[j] \/ (row'[j] = Claimed(q, row[j]) /\ ~row[j].cancel)
      BY <1>4 DEF ClaimJob, Claimable, RunsHaveJobs
    <2> QED
      BY <2>1, ClaimEffect
  <1>5. ASSUME NEW q \in Runs, FinishJob(q)
        PROVE  \/ row'[j] = row[j]
               \/ row'[j].status = "succeeded" /\ row'[j].worker = q
    BY <1>5 DEF FinishJob, Owns, Row
  <1>6. ASSUME NEW q \in Runs, Heartbeat(q)
        PROVE  row'[j].status = row[j].status /\ row'[j].worker = row[j].worker
    BY <1>6, ColumnEffect DEF Heartbeat
  <1>7. ASSUME NEW q \in Runs, RetryJob(q) \/ CancelJob(q)
        PROVE  /\ row'[j].status = "running" => row[j].status = "running"
               /\ row'[j].status = "succeeded" => row[j].status = "succeeded"
               /\ row'[j].worker \in {row[j].worker, None}
    <2>1. row'[j].status = "running" => row[j].status = "running"
      BY <1>7, WriteBackSound
    <2>2. /\ runJob[q] \in Jobs /\ row[j] \in Row /\ obj[q] \in Row
          /\ counted[q] \in BOOLEAN
      BY <1>7 DEF RunsHaveJobs, RetryJob, CancelJob
    <2>3. /\ row'[j].status \in {row[j].status, "failed", "retry_wait", "cancelled"}
          /\ row'[j].worker \in {row[j].worker, None}
      <3>1. CASE row'[j] = Flush(row[j], obj[q], Retried(obj[q], counted[q]))
        BY <2>2, <3>1, RetryEffect
      <3>2. CASE row'[j] = Flush(row[j], obj[q], CancelledObj(obj[q]))
        BY <2>2, <3>2, CancelEffect
      <3>3. CASE row'[j] = row[j]
        BY <3>3
      <3> QED
        BY <1>7, <2>2, <3>1, <3>2, <3>3 DEF RetryJob, CancelJob
    <2> QED
      BY <2>1, <2>3
  <1> QED
    BY <1>1, <1>2, <1>3, <1>4, <1>5, <1>6, <1>7, RowWriters, EngineAssumption

LEMMA SoundHoldingStep == TypeInv /\ SoundInv /\ [Next]_vars => SoundHolding'
  <1> SUFFICES ASSUME TypeInv, SoundInv, [Next]_vars, NEW r \in Runs, Held(r)'
               PROVE  LET x == row'[runJob'[r]] IN
                      /\ ~(x.status = "succeeded" /\ x.worker = r)
                      /\ Executing(r)' =>
                            /\ Sound(obj'[r])
                            /\ ~(obj'[r].status = "succeeded" /\ obj'[r].worker = r)
                            /\ obj'[r].cancel => x.cancel
                            /\ obj'[r].cancel /\ obj'[r].status # "running" => x.status # "running"
    BY DEF SoundHolding, Held, Sound
  <1> DEFINE j == runJob[r]
  <1>1. j \in Jobs /\ runJob'[r] = j /\ ~FinishJob(r)
    BY HeldStep
  <1>2. /\ row[j].cancel => row'[j].cancel
        /\ row[j].cancel /\ row[j].status # "running" => row'[j].status # "running"
        /\ row'[j].status = "succeeded" /\ row'[j].worker = r =>
              row[j].status = "succeeded" /\ row[j].worker = r
    BY <1>1, CancelStepHolds, RunningStep DEF CancelStep
  <1>3. CASE ClaimJob(r) /\ pc'[r] = "load"
    <2>1. row'[j].status = "running"
      <3>1. row'[j] = Claimed(r, row[j]) /\ row[j] \in Row
        BY <1>1, <1>3 DEF ClaimJob, TypeInv, TypeOK
      <3> QED
        BY <3>1, ClaimEffect
    <2>2. ~Executing(r)'
      BY <1>3 DEF Executing
    <2> QED
      BY <1>1, <2>1, <2>2
  <1>4. CASE Held(r) /\ obj'[r] = obj[r] /\ (Executing(r)' => Executing(r))
    BY <1>1, <1>2, <1>4 DEF SoundInv, SoundHolding
  <1>5. CASE Held(r) /\ obj'[r] = row[j] /\ UNCHANGED row
    BY <1>1, <1>2, <1>5 DEF SoundInv, SoundHolding, SoundRows
  <1> QED
    BY <1>3, <1>4, <1>5, HeldStep

LEMMA SoundInit == Init => SoundInv
  BY EngineAssumption
  DEF Init, SoundInv, SoundRows, SoundHolding, Sound, AbsentRow, Held, Executing

(* For any jobs, runs and crashes, and whatever a run that lost its lease  *)
(* still writes over its successor: a running row has a lease that can     *)
(* lapse, and a waiting row no owner.                                      *)
THEOREM RunningStaysRecoverable == Spec => []RunningIsRecoverable
  <1>1. TypeInv /\ SoundInv /\ [Next]_vars => SoundInv'
    BY SoundRowsStep, SoundHoldingStep DEF SoundInv
  <1>2. SoundInv => RunningIsRecoverable
    BY DEF SoundInv, SoundRows, Sound, RunningIsRecoverable
  <1> QED
    BY <1>1, <1>2, TypeInit, TypeStep, SoundInit, PTL DEF Spec
=============================================================================
