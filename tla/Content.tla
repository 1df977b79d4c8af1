------------------------------ MODULE Content ------------------------------
(***************************************************************************)
(* Listing content: its revisions, their review and their export           *)
(* (app/content_application.py), and the two job bodies that generate and  *)
(* export it (app/content_production.py), run by the workers of            *)
(* app/background.py.  The revisions are those of one product.             *)
(*                                                                         *)
(* The job engine is reduced to what these bodies can tell: a job is       *)
(* claimed, the run that claimed it settles it, and a lease may lapse while*)
(* its run goes on.  A session emits the attributes that differ from the   *)
(* ones it loaded, so a generation that loaded a draft does not write the  *)
(* status of a revision that was approved meanwhile.                       *)
(***************************************************************************)
EXTENDS Integers, FiniteSets

CONSTANTS
    Revs,         \* revision numbers
    Exports,      \* the idempotency keys of exports
    ContentRuns,  \* runs of the worker pool
    Reviewers,    \* review calls in progress
    MaxTries,     \* CrawlJob.max_retries
    MaxMade,      \* bound on the generations that succeed
    MaxLapses,    \* bound on leases that lapse and crashes
    MaxReviewed,  \* bound on the version a review call expects
    NoRun

ASSUME ContentAssumption ==
    /\ Revs = 1..Cardinality(Revs) /\ Exports \cap Revs = {}
    /\ MaxTries \in Nat \ {0} /\ MaxMade \in Nat /\ MaxLapses \in Nat /\ MaxReviewed \in Nat
    /\ NoRun \notin ContentRuns \cup Revs \cup Exports

VARIABLES
    revision,    \* product_content_revisions
    actions,     \* product_content_actions of each revision
    exports,     \* product_content_exports
    contentJob,  \* the crawl_jobs of both kinds, by what they make
    linking,     \* revisions whose generation_job_id is still to be written
    work,        \* what each run is at
    review,      \* what each review call is at
    oneReview,   \* whether reviews are served one at a time
    disturbed,   \* history: revisions whose job had two runs at once or one cut off,
                 \* or whose link came late or never
    made,        \* contents generated so far; each is a number
    lapses

contentVars == <<revision, actions, exports, contentJob, linking, work, review,
                 oneReview, disturbed, made, lapses>>

Tasks == Revs \cup Exports
RevStatuses == {"absent", "generating", "generation_failed", "quality_failed", "draft",
                "in_review", "changes_requested", "approved", "rejected"}
Qualities == {"unknown", "passed", "blocked"}   \* a warning holds nothing up
Verbs == {"submit", "approve", "request_changes", "reject"}
Revision == [status : RevStatuses, version : Nat, quality : Qualities,
             content : 0..MaxMade, linked : BOOLEAN]
NoRevision == [status |-> "absent", version |-> 1, quality |-> "unknown",
               content |-> 0, linked |-> FALSE]
Export == [status : {"absent", "queued", "succeeded", "failed"},
           rev : Revs \cup {NoRun}, package : 0..MaxMade]
ContentJob == [status : {"absent", "queued", "running", "retry_wait", "succeeded", "failed"},
               retries : 0..MaxTries, run : ContentRuns \cup {NoRun}]
Seen == [status : RevStatuses, quality : Qualities, content : 0..MaxMade]
NothingSeen == [status |-> "absent", quality |-> "unknown", content |-> 0]
SeenNow(r) == [f \in DOMAIN NothingSeen |-> revision[r][f]]
Work == [at : {"idle", "load", "body", "finish", "retry", "mark"},
         task : Tasks \cup {NoRun}, seen : Seen, counted : BOOLEAN]
Resting == [at |-> "idle", task |-> NoRun, seen |-> NothingSeen, counted |-> TRUE]
Review == [at : {"idle", "commit"}, rev : Revs \cup {NoRun}, verb : Verbs,
           expected : Nat, to : RevStatuses, version : Nat]
NoReview == [at |-> "idle", rev |-> NoRun, verb |-> "submit", expected |-> 0,
             to |-> "absent", version |-> 0]

ContentTypeOK ==
    /\ revision \in [Revs -> Revision]
    /\ actions \in [Revs -> SUBSET [verb : Verbs, expected : Nat]]
    /\ exports \in [Exports -> Export]
    /\ contentJob \in [Tasks -> ContentJob]
    /\ linking \subseteq Revs /\ disturbed \subseteq Revs
    /\ work \in [ContentRuns -> Work]
    /\ review \in [Reviewers -> Review]
    /\ oneReview \in BOOLEAN /\ made \in 0..MaxMade /\ lapses \in 0..MaxLapses

ContentInit ==
    /\ revision = [r \in Revs |-> NoRevision]
    /\ actions = [r \in Revs |-> {}]
    /\ exports = [x \in Exports |-> [status |-> "absent", rev |-> NoRun, package |-> 0]]
    /\ contentJob = [t \in Tasks |-> [status |-> "absent", retries |-> 0, run |-> NoRun]]
    /\ linking = {} /\ disturbed = {}
    /\ work = [n \in ContentRuns |-> Resting]
    /\ review = [c \in Reviewers |-> NoReview]
    /\ oneReview \in BOOLEAN /\ made = 0 /\ lapses = 0

Emitted(stored, seen, new) == IF new = seen THEN stored ELSE new

-----------------------------------------------------------------------------
(* Requests *)

(* create_generation: enqueue_job commits the revision with its job.  Two  *)
(* calls that draw one number, or hold one key, leave one of them.         *)
CreateGeneration(r) ==
    /\ revision[r].status = "absent"
    /\ \A q \in Revs : q < r => revision[q].status # "absent"
    /\ revision' = [revision EXCEPT ![r].status = "generating"]
    /\ contentJob' = [contentJob EXCEPT ![r].status = "queued"]
    /\ linking' = linking \cup {r}
    /\ UNCHANGED <<actions, exports, work, review, oneReview, disturbed, made, lapses>>

(* ... and a commit of its own writes generation_job_id.                   *)
LinkJob(r) ==
    /\ r \in linking
    /\ linking' = linking \ {r}
    /\ revision' = [revision EXCEPT ![r].linked = TRUE]
    /\ UNCHANGED <<actions, exports, contentJob, work, review, oneReview, disturbed, made, lapses>>

(* export_revision: an approved revision, under a new key.                 *)
RequestExport(x, r) ==
    /\ exports[x].status = "absent" /\ revision[r].status = "approved"
    /\ exports' = [exports EXCEPT ![x] = [status |-> "queued", rev |-> r, package |-> 0]]
    /\ contentJob' = [contentJob EXCEPT ![x].status = "queued"]
    /\ UNCHANGED <<revision, actions, linking, work, review, oneReview, disturbed, made, lapses>>

-----------------------------------------------------------------------------
(* Review *)

NextStatus(verb, status) ==
    IF verb = "submit" /\ status = "draft" THEN "in_review"
    ELSE IF verb = "approve" /\ status = "in_review" THEN "approved"
    ELSE IF verb = "request_changes" /\ status = "in_review" THEN "changes_requested"
    ELSE IF verb = "reject" /\ status \in {"in_review", "draft"} THEN "rejected"
    ELSE "absent"

(* Mutant of Reviewable: the expected version is not looked at.            *)
ReviewableAnyVersion(r, verb, expected) == NextStatus(verb, revision[r].status) # "absent"

Reviewable(r, verb, expected) ==
    /\ revision[r].version = expected
    /\ ~(verb = "approve" /\ revision[r].quality = "blocked")
    /\ NextStatus(verb, revision[r].status) # "absent"

(* review_revision reads and judges ...                                    *)
StartReview(c, r, verb, expected) ==
    /\ review[c].at = "idle" /\ revision[r].status # "absent"
    /\ oneReview => \A d \in Reviewers : review[d].at = "idle"
    /\ Reviewable(r, verb, expected)
    /\ review' = [review EXCEPT ![c] = [at |-> "commit", rev |-> r, verb |-> verb,
                                        expected |-> expected,
                                        to |-> NextStatus(verb, revision[r].status),
                                        version |-> revision[r].version]]
    /\ UNCHANGED <<revision, actions, exports, contentJob, linking, work, oneReview,
                   disturbed, made, lapses>>

(* ... and writes by primary key.                                          *)
CommitReview(c) ==
    LET call == review[c]
        r == call.rev
    IN /\ call.at = "commit"
       /\ revision' = [revision EXCEPT ![r].status = call.to,
                                       ![r].version = call.version + 1]
       /\ actions' = [actions EXCEPT ![r] =
                          @ \cup {[verb |-> call.verb, expected |-> call.expected]}]
       /\ review' = [review EXCEPT ![c] = NoReview]
       /\ UNCHANGED <<exports, contentJob, linking, work, oneReview, disturbed, made, lapses>>

-----------------------------------------------------------------------------
(* The worker *)

(* Mutant of Runnable: a job that succeeded is found by the next scan.     *)
RunnableAgain(t) == contentJob[t].status \in {"queued", "retry_wait", "succeeded"}

Runnable(t) == contentJob[t].status \in {"queued", "retry_wait"}

(* The backoff of a retry is abstract: it may end before the run that     *)
(* failed has marked the revision.                                         *)
ClaimContentJob(n, t) ==
    /\ work[n].at = "idle" /\ Runnable(t)
    /\ disturbed' = IF \E m \in ContentRuns : work[m].task = t THEN disturbed \cup ({t} \cap Revs)
                    ELSE disturbed
    /\ contentJob' = [contentJob EXCEPT ![t].status = "running", ![t].run = n]
    /\ work' = [work EXCEPT ![n] = [Resting EXCEPT !.at = "load", !.task = t]]
    /\ UNCHANGED <<revision, actions, exports, linking, review, oneReview, made, lapses>>

Goes(n, at) == work' = [work EXCEPT ![n].at = at, ![n].seen = NothingSeen]

Raises(n, counted) ==
    work' = [work EXCEPT ![n].at = "retry", ![n].counted = counted, ![n].seen = NothingSeen]

(* execute_generation_job loads the revision, whatever its status is ...   *)
LoadRevision(n) ==
    /\ work[n].at = "load" /\ work[n].task \in Revs
    /\ work' = [work EXCEPT ![n].at = "body", ![n].seen = SeenNow(work[n].task)]
    /\ UNCHANGED <<revision, actions, exports, contentJob, linking, review, oneReview,
                   disturbed, made, lapses>>

(* ... and commits what the provider made and the quality gate said of it. *)
CommitGeneration(n) ==
    LET r == work[n].task
        seen == work[n].seen
    IN /\ work[n].at = "body" /\ r \in Revs /\ made < MaxMade
       /\ \E q \in {"passed", "blocked"} :
             revision' = [revision EXCEPT
                 ![r].content = made + 1,
                 ![r].quality = Emitted(@, seen.quality, q),
                 ![r].status = Emitted(@, seen.status,
                                       IF q = "blocked" THEN "quality_failed" ELSE "draft")]
       /\ made' = made + 1
       /\ Goes(n, "finish")
       /\ UNCHANGED <<actions, exports, contentJob, linking, review, oneReview, disturbed, lapses>>

(* A provider's error is not retryable, any other is.                      *)
GenerationFails(n) ==
    /\ work[n].at = "body" /\ work[n].task \in Revs
    /\ \E counted \in BOOLEAN : Raises(n, counted)
    /\ UNCHANGED <<revision, actions, exports, contentJob, linking, review, oneReview,
                   disturbed, made, lapses>>

(* execute_export_job: the revision must be approved when it is loaded.    *)
LoadApproved(n) ==
    LET x == work[n].task
    IN /\ work[n].at = "load" /\ x \in Exports
       /\ revision[exports[x].rev].status = "approved"
       /\ work' = [work EXCEPT ![n].at = "body", ![n].seen = SeenNow(exports[x].rev)]
       /\ UNCHANGED <<revision, actions, exports, contentJob, linking, review, oneReview,
                      disturbed, made, lapses>>

CommitExport(n) ==
    LET x == work[n].task
    IN /\ work[n].at = "body" /\ x \in Exports
       /\ exports' = [exports EXCEPT ![x].status = "succeeded",
                                     ![x].package = work[n].seen.content]
       /\ Goes(n, "finish")
       /\ UNCHANGED <<revision, actions, contentJob, linking, review, oneReview,
                      disturbed, made, lapses>>

(* An export that fails is marked first: not approved, which is not        *)
(* retryable, or a file that cannot be read or written, which is.          *)
ExportFails(n) ==
    LET x == work[n].task
    IN /\ x \in Exports
       /\ \/ work[n].at = "load" /\ revision[exports[x].rev].status # "approved" /\ Raises(n, FALSE)
          \/ work[n].at = "body" /\ Raises(n, TRUE)
       /\ exports' = [exports EXCEPT ![x].status = "failed"]
       /\ UNCHANGED <<revision, actions, contentJob, linking, review, oneReview,
                      disturbed, made, lapses>>

OwnsTask(n) ==
    LET j == contentJob[work[n].task] IN j.status = "running" /\ j.run = n

FinishContentJob(n) ==
    /\ work[n].at = "finish"
    /\ IF OwnsTask(n)
       THEN /\ contentJob' = [contentJob EXCEPT ![work[n].task].status = "succeeded"]
            /\ work' = [work EXCEPT ![n] = Resting]
       ELSE work' = [work EXCEPT ![n].at = "mark", ![n].counted = TRUE] /\ UNCHANGED contentJob
    /\ UNCHANGED <<revision, actions, exports, linking, review, oneReview, disturbed, made, lapses>>

(* Mutant of AfterAttempt: one retry too many.                             *)
AfterAttemptOnceMore(job, counted) ==
    LET tries == IF counted THEN job.retries + 1 ELSE job.retries
    IN IF tries > MaxTries THEN [job EXCEPT !.status = "failed", !.retries = tries]
       ELSE [status |-> "retry_wait", retries |-> tries, run |-> NoRun]

(* The attempt is over: a job that used up its tries failed.               *)
AfterAttempt(job, counted) ==
    LET tries == IF counted THEN job.retries + 1 ELSE job.retries
    IN IF tries >= MaxTries THEN [job EXCEPT !.status = "failed", !.retries = tries]
       ELSE [status |-> "retry_wait", retries |-> tries, run |-> NoRun]

RetryContentJob(n) ==
    LET t == work[n].task
    IN /\ work[n].at = "retry"
       /\ contentJob' = IF contentJob[t].run = n
                        THEN [contentJob EXCEPT ![t] = AfterAttempt(@, work[n].counted)]
                        ELSE contentJob
       /\ Goes(n, "mark")
       /\ UNCHANGED <<revision, actions, exports, linking, review, oneReview,
                      disturbed, made, lapses>>

(* An error that is not retryable is final, and so is the last try's.      *)
IsFinal(n) == ~work[n].counted \/ contentJob[work[n].task].retries >= MaxTries

(* _mark_content_generation_failed finds the revision by its job.          *)
MarkGenerationFailed(n) ==
    LET r == work[n].task
        late == r \in Revs /\ ~revision[r].linked
        marks == /\ r \in Revs /\ revision[r].linked
                 /\ revision[r].status \in {"generating", "draft"} /\ IsFinal(n)
    IN /\ work[n].at = "mark"
       /\ revision' = IF marks THEN [revision EXCEPT ![r].status = "generation_failed"] ELSE revision
       /\ disturbed' = IF late THEN disturbed \cup {r} ELSE disturbed
       /\ work' = [work EXCEPT ![n] = Resting]
       /\ UNCHANGED <<actions, exports, contentJob, linking, review, oneReview, made, lapses>>

(* recover_expired_jobs takes a job whose lease lapsed from its run.       *)
LapseContentLease(t) ==
    /\ lapses < MaxLapses /\ contentJob[t].status = "running"
    /\ contentJob' = [contentJob EXCEPT ![t] = [AfterAttempt(@, TRUE) EXCEPT !.run = NoRun]]
    /\ disturbed' = disturbed \cup ({t} \cap Revs)
    /\ lapses' = lapses + 1
    /\ UNCHANGED <<revision, actions, exports, linking, work, review, oneReview, made>>

(* The process dies: its calls and its runs are gone.                      *)
CrashContent ==
    /\ lapses < MaxLapses
    /\ disturbed' = disturbed \cup linking \cup (Revs \cap {work[n].task : n \in ContentRuns})
    /\ linking' = {}
    /\ work' = [n \in ContentRuns |-> Resting]
    /\ review' = [c \in Reviewers |-> NoReview]
    /\ lapses' = lapses + 1
    /\ UNCHANGED <<revision, actions, exports, contentJob, oneReview, made>>

ContentNext ==
    \/ CrashContent
    \/ \E r \in Revs : CreateGeneration(r) \/ LinkJob(r) \/ \E x \in Exports : RequestExport(x, r)
    \/ \E c \in Reviewers :
          \/ CommitReview(c)
          \/ \E r \in Revs, verb \in Verbs, expected \in 1..MaxReviewed : StartReview(c, r, verb, expected)
    \/ \E t \in Tasks : LapseContentLease(t) \/ \E n \in ContentRuns : ClaimContentJob(n, t)
    \/ \E n \in ContentRuns :
          \/ LoadRevision(n) \/ CommitGeneration(n) \/ GenerationFails(n)
          \/ LoadApproved(n) \/ CommitExport(n) \/ ExportFails(n)
          \/ FinishContentJob(n) \/ RetryContentJob(n) \/ MarkGenerationFailed(n)

ContentSpec == ContentInit /\ [][ContentNext]_contentVars

-----------------------------------------------------------------------------
(* Properties *)

(* While reviews are served one at a time, a revision's version counts its *)
(* reviews, and each of them answered a version of its own: nobody decides *)
(* on a state he has not seen (review_revision's CONTENT_VERSION_CONFLICT).*)
ReviewsAnswerVersions ==
    oneReview =>
        \A r \in Revs : /\ {a.expected : a \in actions[r]} = 1..(revision[r].version - 1)
                        /\ Cardinality(actions[r]) = revision[r].version - 1

(* Whom no lapse touched: when its job has failed the revision says so, and*)
(* when it has succeeded there is content (background.py, "keep the content*)
(* revision status consistent with a failed job").                         *)
RevisionFollowsJob ==
    \A r \in Revs \ disturbed :
        (\A n \in ContentRuns : work[n].task # r) =>
            /\ contentJob[r].status = "failed" => revision[r].status = "generation_failed"
            /\ contentJob[r].status = "succeeded" =>
                   revision[r].status \notin {"generating", "generation_failed"}

(* A revision tells what its reviewers decided and what its job did.       *)
RevisionsHold == ReviewsAnswerVersions /\ RevisionFollowsJob

(* Approval is for good: whom no lapse touched, while reviews are served   *)
(* one at a time, keeps the content and the status that were approved, so  *)
(* that every export packages what the reviewer saw.                       *)
ApprovedContentStands ==
    [][\A r \in Revs :
          (revision[r].status = "approved" /\ oneReview /\ r \notin disturbed') =>
              /\ revision'[r].status = "approved"
              /\ revision'[r].content = revision[r].content]_contentVars
=============================================================================
