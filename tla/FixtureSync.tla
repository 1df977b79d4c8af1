---------------------------- MODULE FixtureSync ----------------------------
(***************************************************************************)
(* Offline synchronisation of a bundle of orders and inventory, and the    *)
(* retries of what failed (app/sync_application.py, run_fixture_sync of    *)
(* app/platform_sync.py, the resource ledger of app/external_sync.py).     *)
(*                                                                         *)
(* Every step below is a commit of its own: the call that serves a run may *)
(* stop between any two of them, and calls overlap.                        *)
(***************************************************************************)
EXTENDS Integers, FiniteSets

CONSTANTS
    Bundles,       \* runs are numbered 1..MaxBundles
    Parts,         \* resources of a bundle
    RetryKeys,     \* Idempotency-Key of a retry
    Contents,      \* what a retry may carry for its resources
    Syncers,       \* calls in progress
    MaxFirst,      \* a bound on the runs that are not retries
    NoKeyGiven

ASSUME FixtureAssumption ==
    /\ Bundles = 1..Cardinality(Bundles)
    /\ IsFiniteSet(Parts) /\ MaxFirst \in Nat /\ NoKeyGiven \notin RetryKeys

VARIABLES
    bundle,        \* external_sync_runs
    syncer,        \* what each call is at
    answers        \* history: the runs that retries were answered with

fixtureVars == <<bundle, syncer, answers>>

(* prior is the prior_status of an entry that was carried forward.         *)
PartStatuses == {"absent", "pending", "running", "succeeded", "failed", "carried_forward"}
Entry == [status : PartStatuses, prior : PartStatuses, retryable : BOOLEAN]
NoEntry == [status |-> "absent", prior |-> "absent", retryable |-> FALSE]

(* retry_payload_hash covers the resources that are asked and their        *)
(* content, not those of the parent that are carried.                      *)
Payload == [want : SUBSET Parts, content : Contents \cup {NoKeyGiven}]
NoPayload == [want |-> {}, content |-> NoKeyGiven]
Bundle == [status : {"none", "running", "succeeded", "partial", "failed"},
           of : {0} \cup Bundles, key : RetryKeys \cup {NoKeyGiven}, hash : Payload,
           entry : [Parts -> Entry]]
NoBundle == [status |-> "none", of |-> 0, key |-> NoKeyGiven, hash |-> NoPayload,
             entry |-> [x \in Parts |-> NoEntry]]
NoSync == [at |-> "idle", run |-> 0, of |-> 0, key |-> NoKeyGiven, hash |-> NoPayload,
           todo |-> {}]
Answer == [of : Bundles, key : RetryKeys, hash : Payload, run : Bundles]

FixtureTypeOK ==
    /\ bundle \in [Bundles -> Bundle]
    /\ \A c \in Syncers :
           /\ syncer[c].at \in {"idle", "begin", "initialize", "resources", "finish"}
           /\ syncer[c].run \in {0} \cup Bundles /\ syncer[c].of \in {0} \cup Bundles
           /\ syncer[c].key \in RetryKeys \cup {NoKeyGiven} /\ syncer[c].hash \in Payload
           /\ syncer[c].todo \subseteq Parts
    /\ answers \subseteq Answer

FixtureInit ==
    /\ bundle = [b \in Bundles |-> NoBundle]
    /\ syncer = [c \in Syncers |-> NoSync]
    /\ answers = {}

-----------------------------------------------------------------------------
(* The ledger of a run.                                                    *)

(* retryable_resources                                                     *)
RetryableParts(b) ==
    {x \in Parts : b.entry[x].retryable /\ "failed" \in {b.entry[x].status, b.entry[x].prior}}

(* What calculate_overall_status takes an entry for: one that is carried   *)
(* again was "carried_forward" before, which is neither.                   *)
StatusOf(e) == IF e.status = "carried_forward" THEN e.prior ELSE e.status

(* calculate_overall_status, of entries that are no longer to be done.     *)
OverallOf(b) ==
    LET statuses == {StatusOf(b.entry[x]) : x \in Parts} \ {"absent"}
    IN IF {"succeeded", "failed"} \subseteq statuses THEN "partial"
       ELSE IF "failed" \notin statuses /\ statuses = {"succeeded"} THEN "succeeded"
       ELSE "failed"

(* initialize_resources: an entry is carried with its status moved into    *)
(* prior, whatever was there.                                              *)
CarriedForward(e) ==
    IF e = NoEntry THEN e ELSE [e EXCEPT !.prior = e.status, !.status = "carried_forward"]

(* retry_fixture_bundle carries what it does not retry, as the parent has  *)
(* it; a first run has no parent.                                          *)
Initialized(of, want) ==
    [x \in Parts |-> IF x \in want THEN [NoEntry EXCEPT !.status = "pending"]
                     ELSE IF of = 0 THEN NoEntry
                     ELSE CarriedForward(bundle[of].entry[x])]

-----------------------------------------------------------------------------
Begun(b) == bundle[b].status # "none"

(* The retry that took the key, if any (unique in the database).           *)
RetriesUnder(of, key) == {b \in Bundles : bundle[b].of = of /\ bundle[b].key = key}

(* run_fixture_bundle                                                      *)
StartBundle(c) ==
    /\ syncer[c].at = "idle"
    /\ Cardinality({b \in Bundles : Begun(b) /\ bundle[b].of = 0}
                   \cup {d \in Syncers : syncer[d].at = "begin" /\ syncer[d].of = 0}) < MaxFirst
    /\ \E want \in (SUBSET Parts) \ {{}} :
          syncer' = [syncer EXCEPT ![c] =
              [NoSync EXCEPT !.at = "begin", !.todo = want]]
    /\ UNCHANGED <<bundle, answers>>

(* What a retry is answered with when its key is taken: the run, or        *)
(* IDEMPOTENCY_KEY_REUSE when it asks for something else.                  *)
Replay(of, key, hash) ==
    answers' = answers \cup
        {[of |-> of, key |-> key, hash |-> hash, run |-> b] :
            b \in {r \in RetriesUnder(of, key) : bundle[r].hash = hash}}

(* retry_fixture_bundle up to begin_sync_run.                              *)
StartRetry(c, of, key, hash) ==
    /\ syncer[c].at = "idle"
    /\ bundle[of].status \in {"failed", "partial"}
    /\ hash.want # {} /\ hash.want \subseteq RetryableParts(bundle[of])
    /\ hash.content # NoKeyGiven
    /\ IF RetriesUnder(of, key) # {}
       THEN Replay(of, key, hash) /\ UNCHANGED syncer
       ELSE /\ syncer' = [syncer EXCEPT ![c] =
                   [at |-> "begin", run |-> 0, of |-> of, key |-> key, hash |-> hash,
                    todo |-> hash.want]]
            /\ UNCHANGED answers
    /\ UNCHANGED bundle

(* A mutant: the database does not refuse a second run of a key.           *)
NeverRefused(call) == FALSE

(* uq_external_sync_run_retry_idempotency; a first run has no key.         *)
Refused(call) == call.of # 0 /\ RetriesUnder(call.of, call.key) # {}

(* begin_sync_run; a call whose key was taken meanwhile answers with the   *)
(* run that took it.                                                       *)
BeginBundle(c, b) ==
    LET call == syncer[c] IN
    /\ call.at = "begin"
    /\ ~Begun(b) /\ \A other \in Bundles : other < b => Begun(other)
    /\ IF Refused(call)
       THEN /\ Replay(call.of, call.key, call.hash)
            /\ syncer' = [syncer EXCEPT ![c] = NoSync]
            /\ UNCHANGED bundle
       ELSE /\ bundle' = [bundle EXCEPT ![b] =
                   [NoBundle EXCEPT !.status = "running", !.of = call.of, !.key = call.key,
                                    !.hash = call.hash]]
            /\ syncer' = [syncer EXCEPT ![c] = [@ EXCEPT !.at = "initialize", !.run = b]]
            /\ UNCHANGED answers

InitializeResources(c) ==
    LET call == syncer[c] IN
    /\ call.at = "initialize"
    /\ bundle' = [bundle EXCEPT ![call.run].entry = Initialized(call.of, call.todo)]
    /\ syncer' = [syncer EXCEPT ![c].at = "resources"]
    /\ UNCHANGED answers

(* Orders come before inventory, but share nothing: any order will do.     *)
MarkRunning(c, x) ==
    LET call == syncer[c] IN
    /\ call.at = "resources" /\ x \in call.todo
    /\ bundle[call.run].entry[x].status = "pending"
    /\ \A y \in call.todo : bundle[call.run].entry[y].status = "pending"
    /\ bundle' = [bundle EXCEPT ![call.run].entry[x].status = "running"]
    /\ UNCHANGED <<syncer, answers>>

(* The resource is ingested (external_orders.py, ingest_inventory) or not: *)
(* mark_resource_succeeded, mark_resource_failed.                          *)
SettlePart(c, x) ==
    LET call == syncer[c] IN
    /\ call.at = "resources" /\ x \in call.todo
    /\ bundle[call.run].entry[x].status = "running"
    /\ \E e \in [status : {"succeeded"}, prior : {"absent"}, retryable : {FALSE}]
             \cup [status : {"failed"}, prior : {"absent"}, retryable : BOOLEAN] :
          bundle' = [bundle EXCEPT ![call.run].entry[x] = e]
    /\ syncer' = [syncer EXCEPT ![c].todo = @ \ {x}]
    /\ UNCHANGED answers

(* finalize_resource_run                                                   *)
FinalizeBundle(c) ==
    LET call == syncer[c] IN
    /\ call.at = "resources" /\ call.todo = {}
    /\ bundle' = [bundle EXCEPT ![call.run].status = OverallOf(bundle[call.run])]
    /\ syncer' = [syncer EXCEPT ![c].at = "finish"]
    /\ UNCHANGED answers

(* A run that failed raises its first error, if this attempt had one: a    *)
(* retry that carries a failure only answers with the run.                 *)
FinishBundle(c) ==
    LET call == syncer[c]
        raised == /\ bundle[call.run].status = "failed"
                  /\ \E x \in Parts : bundle[call.run].entry[x].status = "failed"
    IN /\ call.at = "finish"
       /\ IF call.of # 0 /\ ~raised
          THEN answers' = answers \cup
                   {[of |-> call.of, key |-> call.key, hash |-> call.hash, run |-> call.run]}
          ELSE UNCHANGED answers
       /\ syncer' = [syncer EXCEPT ![c] = NoSync]
       /\ UNCHANGED bundle

(* The process stops: nothing finishes the run, which can not be retried.  *)
StopSync(c) ==
    /\ syncer[c].at \notin {"idle", "begin"}
    /\ syncer' = [syncer EXCEPT ![c] = NoSync]
    /\ UNCHANGED <<bundle, answers>>

FixtureNext ==
    \E c \in Syncers :
        \/ StartBundle(c) \/ InitializeResources(c) \/ FinalizeBundle(c)
        \/ FinishBundle(c) \/ StopSync(c)
        \/ \E b \in Bundles : BeginBundle(c, b)
        \/ \E x \in Parts : MarkRunning(c, x) \/ SettlePart(c, x)
        \/ \E of \in Bundles, key \in RetryKeys, hash \in Payload : StartRetry(c, of, key, hash)

FixtureSpec == FixtureInit /\ [][FixtureNext]_fixtureVars

-----------------------------------------------------------------------------
(* A run is below another when it retries it, or a retry of it.            *)
IsBelow(b, a) ==
    \/ bundle[b].of = a
    \/ \E m \in Bundles : bundle[b].of = m /\ bundle[m].of = a

(* All answers to the retries of one run under one key name one run, that  *)
(* was asked the same, however the calls overlap and whichever stopped     *)
(* (retry_fixture_bundle, uq_external_sync_run_retry_idempotency).         *)
RetriesAnswerOnce ==
    \A a, b \in answers :
        (a.of = b.of /\ a.key = b.key) => (a.run = b.run /\ a.hash = b.hash)

(* A resource that succeeded is not fetched again by a retry of the run,   *)
(* or of a retry: it is carried with what it was (initialize_resources,    *)
(* retryable_resources).                                                   *)
SucceededIsNotRepeated ==
    \A b, a \in Bundles, x \in Parts :
        (IsBelow(b, a) /\ bundle[a].entry[x].status = "succeeded")
            => bundle[b].entry[x].status \in {"absent", "carried_forward"}

(* A retry is made once, and of nothing that succeeded.                    *)
RetriesHold == RetriesAnswerOnce /\ SucceededIsNotRepeated
=============================================================================
