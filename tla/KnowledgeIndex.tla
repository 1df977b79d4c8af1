--------------------------- MODULE KnowledgeIndex ---------------------------
(***************************************************************************)
(* The versions of a knowledge document and the vector index that searches *)
(* read: publish_version and unpublish_version (app/knowledge_admin.py),   *)
(* the document_index and document_unindex jobs (app/background.py) and    *)
(* InMemoryVectorStore (app/rag/vector_store.py).                          *)
(*                                                                         *)
(* The database says which versions are published; the index is updated    *)
(* after the fact, in steps that other requests and jobs come between.     *)
(* The store keeps the chunks of a version in memory and writes all of it  *)
(* to a file after each change; a restart reads the file.                  *)
(***************************************************************************)
EXTENDS Integers, FiniteSets

CONSTANTS
    Versions,      \* the versions of one document
    Empty,         \* those that parse into no chunk
    Clients,       \* requests that may be in progress at once
    Workers,       \* threads of the job pool
    None,
    MaxPublishes,  \* bound on the number of publications
    FaultModes     \* the sets of faults a run may be exposed to

(* The process is restarted, the file cannot be written, a request dies,   *)
(* a queued job is cancelled.                                              *)
Faults == {"restart", "file", "request", "cancel"}

ASSUME KnowledgeAssumption ==
    /\ Empty \subseteq Versions /\ None \notin Versions /\ MaxPublishes \in Nat
    /\ FaultModes \subseteq SUBSET Faults
    /\ IsFiniteSet(Workers)

VARIABLES
    ready,      \* document_versions with status ready
    importing,  \* those whose import has still to enqueue an index job
    published,  \* those with a published_at
    mem,        \* versions with chunks in the memory of the store
    disk,       \* and in its file
    queue,      \* jobs waiting, by type and version
    req,        \* what each request asks for
    pc,         \* where it is
    seen,       \* the published versions it has read
    todo,       \* the versions whose chunks it has still to delete
    job,        \* what each worker runs
    at,         \* where it is
    publishes,  \* publications so far
    serial,     \* requests come one at a time, and there is one worker
    faults      \* what may go wrong

imports == <<ready, importing>>
store == <<mem, disk>>
requestVars == <<req, pc, seen, todo>>
workerVars == <<job, at>>
modes == <<serial, faults>>
vars == <<imports, published, store, queue, requestVars, workerVars, publishes, modes>>

Types == {"document_index", "document_unindex"}
NoRequest == [op |-> "none", v |-> None]
NoJob == [type |-> "none", v |-> None]

TypeOK ==
    /\ ready \subseteq Versions /\ published \subseteq ready /\ importing \subseteq ready
    /\ mem \subseteq ready /\ disk \subseteq ready
    /\ queue \in [Types -> [Versions -> Nat]]
    /\ req \in [Clients -> [op : {"none", "publish", "unpublish"}, v : Versions \cup {None}]]
    /\ pc \in [Clients -> {"idle", "commit", "delete"}]
    /\ seen \in [Clients -> SUBSET Versions]
    /\ todo \in [Clients -> SUBSET Versions]
    /\ job \in [Workers -> [type : Types \cup {"none"}, v : Versions \cup {None}]]
    /\ at \in [Workers -> {"idle", "gate", "delete", "recheck", "add", "confirm", "purge"}]
    /\ publishes \in 0..MaxPublishes
    /\ serial \in BOOLEAN /\ faults \in FaultModes

-----------------------------------------------------------------------------
(* The vector store *)

(* The memory changes first; a change is then written to the file, which   *)
(* may raise.                                                              *)
Write(new, ok) ==
    /\ ok \/ ("file" \in faults /\ new # mem)
    /\ mem' = new
    /\ disk' = IF ok /\ new # mem THEN new ELSE disk

(* delete_by_version; without a record of v it does not touch the file.    *)
DeleteByVersion(v, ok) == Write(mem \ {v}, ok)

(* add always writes the file.                                             *)
AddRecords(v, ok) ==
    /\ ok \/ "file" \in faults
    /\ mem' = mem \cup {v}
    /\ disk' = IF ok THEN mem' ELSE disk

-----------------------------------------------------------------------------
(* publish_version and unpublish_version *)

(* A document import makes the chunks of a version, marks it ready, and    *)
(* then enqueues an index job, published or not: other requests and jobs   *)
(* may come between.                                                       *)
MarkReady(v) ==
    /\ v \notin ready
    /\ ready' = ready \cup {v} /\ importing' = importing \cup {v}
    /\ UNCHANGED <<published, store, queue, requestVars, workerVars, publishes, modes>>

(* enqueue_job for a version.                                              *)
Enqueue(type, v) == queue' = [queue EXCEPT ![type][v] = @ + 1]

EnqueueImported(v) ==
    /\ v \in importing
    /\ importing' = importing \ {v}
    /\ Enqueue("document_index", v)
    /\ UNCHANGED <<ready, published, store, requestVars, workerVars, publishes, modes>>

Read(c, op, v) ==
    /\ pc[c] = "idle"
    /\ serial => \A d \in Clients : pc[d] = "idle"
    /\ req' = [req EXCEPT ![c] = [op |-> op, v |-> v]]
    /\ seen' = [seen EXCEPT ![c] = published]
    /\ pc' = [pc EXCEPT ![c] = "commit"]
    /\ UNCHANGED <<imports, published, store, queue, todo, workerVars, modes>>

(* INVALID_DOCUMENT_STATE unless the version is ready.                     *)
Publishable == ready

ReadPublish(c) ==
    \E v \in Publishable :
        /\ publishes < MaxPublishes
        /\ publishes' = publishes + 1
        /\ Read(c, "publish", v)

(* VERSION_NOT_PUBLISHED unless it is published.                           *)
ReadUnpublish(c) ==
    \E v \in published : Read(c, "unpublish", v) /\ UNCHANGED publishes

(* Mutant of Superseded: the siblings keep their place.                    *)
SupersededNone(c) == {}

(* The siblings that were published when the request read them.            *)
Superseded(c) == seen[c] \ {req[c].v}

CommitPublish(c) ==
    /\ pc[c] = "commit" /\ req[c].op = "publish"
    /\ published' = (published \ Superseded(c)) \cup {req[c].v}
    /\ todo' = [todo EXCEPT ![c] = Superseded(c)]
    /\ pc' = [pc EXCEPT ![c] = "delete"]
    /\ UNCHANGED <<imports, store, queue, req, seen, workerVars, publishes, modes>>

CommitUnpublish(c) ==
    /\ pc[c] = "commit" /\ req[c].op = "unpublish"
    /\ published' = published \ {req[c].v}
    /\ todo' = [todo EXCEPT ![c] = {req[c].v}]
    /\ pc' = [pc EXCEPT ![c] = "delete"]
    /\ UNCHANGED <<imports, store, queue, req, seen, workerVars, publishes, modes>>

(* The synchronous delete, or the compensation job if it raises.           *)
DeleteNow(c) ==
    \E v \in todo[c], ok \in BOOLEAN :
        /\ DeleteByVersion(v, ok)
        /\ IF ok THEN UNCHANGED queue ELSE Enqueue("document_unindex", v)
        /\ todo' = [todo EXCEPT ![c] = @ \ {v}]
        /\ UNCHANGED <<imports, published, req, pc, seen, workerVars, publishes, modes>>

Forget(C) ==
    /\ req' = [c \in Clients |-> IF c \in C THEN NoRequest ELSE req[c]]
    /\ pc' = [c \in Clients |-> IF c \in C THEN "idle" ELSE pc[c]]
    /\ seen' = [c \in Clients |-> IF c \in C THEN {} ELSE seen[c]]
    /\ todo' = [c \in Clients |-> IF c \in C THEN {} ELSE todo[c]]

(* submit_chunk_index for a published version, and the answer.             *)
Answer(c) ==
    /\ pc[c] = "delete" /\ todo[c] = {}
    /\ IF req[c].op = "publish" THEN Enqueue("document_index", req[c].v) ELSE UNCHANGED queue
    /\ Forget({c})
    /\ UNCHANGED <<imports, published, store, workerVars, publishes, modes>>

-----------------------------------------------------------------------------
(* The jobs *)

Goto(w, p) ==
    /\ at' = [at EXCEPT ![w] = p]
    /\ job' = IF p = "idle" THEN [job EXCEPT ![w] = NoJob] ELSE job
    /\ UNCHANGED <<imports, published, requestVars, publishes, modes>>

StartJob(w) ==
    \E type \in Types, v \in Versions :
        /\ at[w] = "idle" /\ queue[type][v] > 0
        /\ serial => \A u \in Workers : at[u] = "idle"
        /\ queue' = [queue EXCEPT ![type][v] = @ - 1]
        /\ job' = [job EXCEPT ![w] = [type |-> type, v |-> v]]
        /\ at' = [at EXCEPT ![w] = IF type = "document_index" THEN "gate" ELSE "purge"]
        /\ UNCHANGED <<imports, published, store, requestVars, publishes, modes>>

(* _published_at_now: read when the step is taken.                         *)
PublishedNow(w) == job[w].v \in published

(* An unpublished version, or one without chunks, is not indexed.          *)
Gate(w) ==
    /\ at[w] = "gate"
    /\ Goto(w, IF PublishedNow(w) /\ job[w].v \notin Empty THEN "delete" ELSE "idle")
    /\ UNCHANGED <<store, queue>>

(* A job that raises is tried again, or has used up its retries.           *)
Raise(w) ==
    /\ Goto(w, "idle")
    /\ Enqueue(job[w].type, job[w].v) \/ UNCHANGED queue

DeleteOld(w) ==
    \E ok \in BOOLEAN :
        /\ at[w] = "delete"
        /\ DeleteByVersion(job[w].v, ok)
        /\ IF ok THEN Goto(w, "recheck") /\ UNCHANGED queue ELSE Raise(w)

Recheck(w) ==
    /\ at[w] = "recheck"
    /\ Goto(w, IF PublishedNow(w) THEN "add" ELSE "idle")
    /\ UNCHANGED <<store, queue>>

Add(w) ==
    \E ok \in BOOLEAN :
        /\ at[w] = "add"
        /\ AddRecords(job[w].v, ok)
        /\ IF ok THEN Goto(w, "confirm") /\ UNCHANGED queue ELSE Raise(w)

(* Mutants of AfterConfirm: what was written is not checked again, or is   *)
(* always taken back.                                                      *)
AfterConfirmIdle(w) == "idle"
AfterConfirmPurge(w) == "purge"

AfterConfirm(w) == IF PublishedNow(w) THEN "idle" ELSE "purge"

Confirm(w) ==
    /\ at[w] = "confirm"
    /\ Goto(w, AfterConfirm(w))
    /\ UNCHANGED <<store, queue>>

(* The end of an index job whose version was unpublished while it wrote,   *)
(* and the whole of a document_unindex job.                                *)
Purge(w) ==
    \E ok \in BOOLEAN :
        /\ at[w] = "purge"
        /\ DeleteByVersion(job[w].v, ok)
        /\ IF ok THEN Goto(w, "idle") /\ UNCHANGED queue ELSE Raise(w)

-----------------------------------------------------------------------------
(* Faults *)

(* An operator cancels a queued job.                                       *)
CancelJob ==
    \E type \in Types, v \in Versions :
        /\ "cancel" \in faults /\ queue[type][v] > 0
        /\ queue' = [queue EXCEPT ![type][v] = @ - 1]
        /\ UNCHANGED <<imports, published, store, requestVars, workerVars, publishes, modes>>

(* A request dies; what it has committed stays.                            *)
RequestDies(c) ==
    /\ "request" \in faults /\ pc[c] # "idle"
    /\ Forget({c})
    /\ UNCHANGED <<imports, published, store, queue, workerVars, publishes, modes>>

(* The process is restarted: the store is read from its file, requests are *)
(* gone, and the jobs that ran are queued again when their leases expire.  *)
(* An import that ran meets its own chunks then and enqueues nothing.      *)
Restart ==
    /\ "restart" \in faults
    /\ mem' = disk /\ disk' = disk
    /\ Forget(Clients)
    /\ importing' = {}
    /\ queue' = [type \in Types |-> [v \in Versions |->
                   queue[type][v] + Cardinality({w \in Workers : job[w] = [type |-> type, v |-> v]})]]
    /\ job' = [w \in Workers |-> NoJob]
    /\ at' = [w \in Workers |-> "idle"]
    /\ UNCHANGED <<ready, published, publishes, modes>>

-----------------------------------------------------------------------------

Init ==
    /\ ready = {} /\ importing = {} /\ published = {} /\ mem = {} /\ disk = {}
    /\ queue = [type \in Types |-> [v \in Versions |-> 0]]
    /\ req = [c \in Clients |-> NoRequest]
    /\ pc = [c \in Clients |-> "idle"]
    /\ seen = [c \in Clients |-> {}]
    /\ todo = [c \in Clients |-> {}]
    /\ job = [w \in Workers |-> NoJob]
    /\ at = [w \in Workers |-> "idle"]
    /\ publishes = 0
    /\ serial \in BOOLEAN /\ faults \in FaultModes

Request(c) ==
    \/ ReadPublish(c) \/ CommitPublish(c)
    \/ ReadUnpublish(c) \/ CommitUnpublish(c)
    \/ DeleteNow(c) \/ Answer(c) \/ RequestDies(c)

Work(w) ==
    \/ StartJob(w) \/ Gate(w) \/ DeleteOld(w) \/ Recheck(w)
    \/ Add(w) \/ Confirm(w) \/ Purge(w)

Next ==
    \/ \E v \in Versions : MarkReady(v) \/ EnqueueImported(v)
    \/ \E c \in Clients : Request(c)
    \/ \E w \in Workers : Work(w)
    \/ CancelJob \/ Restart

Spec == Init /\ [][Next]_vars
-----------------------------------------------------------------------------
(* Properties *)

Runs(w, v, points) == job[w].v = v /\ at[w] \in points

(* A document has one published version (publish_version takes the place   *)
(* of its siblings), when publications do not overlap.                     *)
OnePublished == serial => Cardinality(published) <= 1

(* As long as nothing fails, a version that can be searched although it is *)
(* not published has a request or a job in progress that will remove it:   *)
(* whatever publications, withdrawals and index jobs overlap.              *)
StaleIsDoomed ==
    faults = {} => \A v \in mem \ published :
        \/ \E c \in Clients : v \in todo[c]
        \/ \E w \in Workers : Runs(w, v, {"confirm", "purge"})

(* Without faults, and with one request and one worker at a time, a        *)
(* published version is searchable or will be: the request that published  *)
(* it has not answered, or an index job that has not added it is there.    *)
PublishedIsIndexed ==
    faults = {} /\ serial => \A v \in published \ (Empty \cup mem) :
        \/ \E c \in Clients : pc[c] # "idle" /\ req[c] = [op |-> "publish", v |-> v]
        \/ queue["document_index"][v] > 0
        \/ \E w \in Workers : Runs(w, v, {"gate", "delete", "recheck", "add"})

(* No request is in progress and no job waits or runs.                     *)
Quiet ==
    /\ importing = {}
    /\ \A c \in Clients : pc[c] = "idle"
    /\ \A w \in Workers : at[w] = "idle"
    /\ queue = [type \in Types |-> [v \in Versions |-> 0]]

(* The index only has chunks of published versions, once it has settled    *)
(* (the gate of document_index).                                           *)
OnlyPublishedIndexed == Quiet => mem \subseteq published
=============================================================================
