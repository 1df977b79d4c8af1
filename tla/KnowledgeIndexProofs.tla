------------------------ MODULE KnowledgeIndexProofs ------------------------
(* Proofs about the knowledge index, for any sets of versions, requests    *)
(* and workers.                                                            *)
EXTENDS KnowledgeIndex, FiniteSetTheorems, TLAPS

(* What requests, queues and workers refer to are ready versions, and a    *)
(* request only has something to delete after its commit.                  *)
RequestsRefer ==
    \A c \in Clients : /\ pc[c] # "idle" => req[c].op # "none" /\ req[c].v \in ready
                       /\ seen[c] \subseteq ready /\ todo[c] \subseteq ready
                       /\ pc[c] # "delete" => todo[c] = {}

WorkersRefer ==
    \A w \in Workers : /\ at[w] # "idle" => job[w].v \in ready /\ job[w].type \in Types
                       /\ at[w] = "idle" => job[w] = NoJob

QueuesRefer ==
    \A type \in Types, v \in Versions : queue[type][v] > 0 => v \in ready

TypeInv == TypeOK /\ RequestsRefer /\ WorkersRefer /\ QueuesRefer

LEMMA TypeInit == Init => TypeInv
  BY KnowledgeAssumption
  DEF Init, TypeInv, TypeOK, RequestsRefer, WorkersRefer, QueuesRefer, NoRequest, NoJob, Types

(* One more job in a queue.                                                *)
LEMMA EnqueueType ==
    ASSUME TypeInv, NEW type \in Types, NEW v \in ready, Enqueue(type, v)
    PROVE  /\ queue' \in [Types -> [Versions -> Nat]]
           /\ \A t \in Types, x \in Versions : queue'[t][x] > 0 => x \in ready
  BY DEF TypeInv, TypeOK, QueuesRefer, Enqueue

(* One job less.                                                           *)
LEMMA DequeueType ==
    ASSUME TypeInv, NEW type \in Types, NEW v \in Versions, queue[type][v] > 0,
           queue' = [queue EXCEPT ![type][v] = @ - 1]
    PROVE  /\ queue' \in [Types -> [Versions -> Nat]]
           /\ \A t \in Types, x \in Versions : queue'[t][x] > 0 => x \in ready
           /\ v \in ready
  BY DEF TypeInv, TypeOK, QueuesRefer

(* The store stays within the ready versions.                              *)
LEMMA DeleteType ==
    ASSUME TypeInv, NEW v, NEW ok, DeleteByVersion(v, ok)
    PROVE  mem' \subseteq ready /\ disk' \subseteq ready
  BY DEF TypeInv, TypeOK, DeleteByVersion, Write

LEMMA AddType ==
    ASSUME TypeInv, NEW v \in ready, NEW ok, AddRecords(v, ok)
    PROVE  mem' \subseteq ready /\ disk' \subseteq ready
  BY DEF TypeInv, TypeOK, AddRecords

(* A worker that moves on within its job, or ends it.                      *)
LEMMA GotoType ==
    ASSUME TypeInv, NEW w \in Workers, at[w] # "idle",
           NEW p \in {"idle", "gate", "delete", "recheck", "add", "confirm", "purge"},
           Goto(w, p), mem' \subseteq ready, disk' \subseteq ready,
           queue' \in [Types -> [Versions -> Nat]],
           \A t \in Types, x \in Versions : queue'[t][x] > 0 => x \in ready
    PROVE  TypeInv'
  BY DEF TypeInv, TypeOK, RequestsRefer, WorkersRefer, QueuesRefer, Goto, NoJob,
         imports, requestVars, modes

LEMMA RaiseType ==
    ASSUME TypeInv, NEW w \in Workers, at[w] # "idle", Raise(w),
           mem' \subseteq ready, disk' \subseteq ready
    PROVE  TypeInv'
  <1>1. job[w].v \in ready /\ job[w].type \in Types
    BY DEF TypeInv, WorkersRefer
  <1>2. /\ queue' \in [Types -> [Versions -> Nat]]
        /\ \A t \in Types, x \in Versions : queue'[t][x] > 0 => x \in ready
    BY <1>1, EnqueueType DEF Raise, TypeInv, TypeOK, QueuesRefer
  <1> QED
    BY <1>2, GotoType DEF Raise

(* A request that has read the published versions.                         *)
LEMMA ReadType ==
    ASSUME TypeInv, NEW c \in Clients, NEW op \in {"publish", "unpublish"}, NEW v \in ready,
           Read(c, op, v), publishes' \in 0..MaxPublishes
    PROVE  TypeInv'
  <1>1. /\ req' \in [Clients -> [op : {"none", "publish", "unpublish"}, v : Versions \cup {None}]]
        /\ req'[c].op # "none" /\ req'[c].v \in ready
        /\ \A d \in Clients : d # c => req'[d] = req[d]
    BY DEF Read, TypeInv, TypeOK
  <1>2. /\ pc' \in [Clients -> {"idle", "commit", "delete"}]
        /\ seen' \in [Clients -> SUBSET Versions]
        /\ \A d \in Clients : seen'[d] \subseteq ready
        /\ \A d \in Clients : d # c => pc'[d] = pc[d]
        /\ pc[c] = "idle"
    BY DEF Read, TypeInv, TypeOK, RequestsRefer
  <1>3. UNCHANGED <<ready, importing, published, store, queue, todo, workerVars, modes>>
    BY DEF Read, imports
  <1>4. TypeOK'
    BY <1>1, <1>2, <1>3 DEF TypeInv, TypeOK, store, workerVars, modes
  <1>5. RequestsRefer'
    BY <1>1, <1>2, <1>3 DEF TypeInv, RequestsRefer
  <1>6. WorkersRefer' /\ QueuesRefer'
    BY <1>3 DEF TypeInv, WorkersRefer, QueuesRefer, workerVars
  <1> QED
    BY <1>4, <1>5, <1>6 DEF TypeInv

LEMMA TypeStep == TypeInv /\ [Next]_vars => TypeInv'
  <1> SUFFICES ASSUME TypeInv, [Next]_vars PROVE TypeInv'
    OBVIOUS
  <1> USE KnowledgeAssumption
  <1> USE DEF imports, store, requestVars, workerVars, modes
  <1>0. queue \in [Types -> [Versions -> Nat]]
    BY DEF TypeInv, TypeOK
  <1>1. ASSUME NEW v \in Versions, MarkReady(v) PROVE TypeInv'
    BY <1>1 DEF MarkReady, TypeInv, TypeOK, RequestsRefer, WorkersRefer, QueuesRefer
  <1>7. ASSUME NEW v \in Versions, EnqueueImported(v) PROVE TypeInv'
    <2>1. v \in ready /\ "document_index" \in Types
      BY <1>7 DEF EnqueueImported, TypeInv, TypeOK, Types
    <2>2. /\ queue' \in [Types -> [Versions -> Nat]]
          /\ \A t \in Types, x \in Versions : queue'[t][x] > 0 => x \in ready
      BY <1>7, <2>1, EnqueueType DEF EnqueueImported
    <2> QED
      BY <1>7, <2>2 DEF EnqueueImported, TypeInv, TypeOK, RequestsRefer, WorkersRefer, QueuesRefer
  <1>2. ASSUME NEW c \in Clients, Request(c) PROVE TypeInv'
    <2>1. CASE ReadPublish(c)
      BY <2>1, ReadType DEF ReadPublish, Publishable, TypeInv, TypeOK
    <2>2. CASE ReadUnpublish(c)
      BY <2>2, ReadType DEF ReadUnpublish, TypeInv, TypeOK
    <2>3. CASE CommitPublish(c)
      BY <2>3 DEF CommitPublish, Superseded, TypeInv, TypeOK, RequestsRefer, WorkersRefer,
                  QueuesRefer
    <2>4. CASE CommitUnpublish(c)
      BY <2>4 DEF CommitUnpublish, TypeInv, TypeOK, RequestsRefer, WorkersRefer, QueuesRefer
    <2>5. CASE DeleteNow(c)
      <3>1. PICK v \in todo[c], ok \in BOOLEAN :
                /\ DeleteByVersion(v, ok)
                /\ IF ok THEN UNCHANGED queue ELSE Enqueue("document_unindex", v)
        BY <2>5 DEF DeleteNow
      <3>2. v \in ready /\ "document_unindex" \in Types
        BY DEF TypeInv, RequestsRefer, Types
      <3>3. /\ queue' \in [Types -> [Versions -> Nat]]
            /\ \A t \in Types, x \in Versions : queue'[t][x] > 0 => x \in ready
        BY <3>1, <3>2, EnqueueType DEF TypeInv, TypeOK, QueuesRefer
      <3>4. mem' \subseteq ready /\ disk' \subseteq ready
        BY <3>1, DeleteType
      <3> QED
        BY <2>5, <3>3, <3>4 DEF DeleteNow, TypeInv, TypeOK, RequestsRefer, WorkersRefer,
                                QueuesRefer
    <2>6. CASE Answer(c)
      <3>1. req[c].v \in ready /\ "document_index" \in Types
        BY <2>6 DEF Answer, TypeInv, RequestsRefer, Types
      <3>2. /\ queue' \in [Types -> [Versions -> Nat]]
            /\ \A t \in Types, x \in Versions : queue'[t][x] > 0 => x \in ready
        BY <2>6, <3>1, EnqueueType DEF Answer, TypeInv, TypeOK, QueuesRefer
      <3> QED
        BY <2>6, <3>2 DEF Answer, Forget, NoRequest, TypeInv, TypeOK, RequestsRefer,
                          WorkersRefer, QueuesRefer
    <2>7. CASE RequestDies(c)
      BY <2>7 DEF RequestDies, Forget, NoRequest, TypeInv, TypeOK, RequestsRefer,
                  WorkersRefer, QueuesRefer
    <2> QED
      BY <1>2, <2>1, <2>2, <2>3, <2>4, <2>5, <2>6, <2>7 DEF Request
  <1>3. ASSUME NEW w \in Workers, Work(w) PROVE TypeInv'
    <2>0. mem \subseteq ready /\ disk \subseteq ready
      BY DEF TypeInv, TypeOK
    <2>1. CASE StartJob(w)
      <3>1. PICK type \in Types, v \in Versions :
                /\ queue[type][v] > 0
                /\ queue' = [queue EXCEPT ![type][v] = @ - 1]
                /\ job' = [job EXCEPT ![w] = [type |-> type, v |-> v]]
                /\ at' = [at EXCEPT ![w] = IF type = "document_index" THEN "gate" ELSE "purge"]
                /\ UNCHANGED <<imports, published, store, requestVars, publishes, modes>>
        BY <2>1 DEF StartJob
      <3>2. /\ queue' \in [Types -> [Versions -> Nat]]
            /\ \A t \in Types, x \in Versions : queue'[t][x] > 0 => x \in ready
            /\ v \in ready
        BY <3>1, DequeueType
      <3> QED
        BY <3>1, <3>2 DEF TypeInv, TypeOK, RequestsRefer, WorkersRefer, QueuesRefer
    <2>2. CASE Gate(w)
      BY <2>0, <2>2, <1>0, GotoType DEF Gate, TypeInv, QueuesRefer
    <2>3. CASE DeleteOld(w)
      <3>1. mem' \subseteq ready /\ disk' \subseteq ready
        BY <2>3, DeleteType DEF DeleteOld
      <3> QED
        BY <2>3, <3>1, <1>0, GotoType, RaiseType DEF DeleteOld, TypeInv, QueuesRefer
    <2>4. CASE Recheck(w)
      BY <2>0, <2>4, <1>0, GotoType DEF Recheck, TypeInv, QueuesRefer
    <2>5. CASE Add(w)
      <3>1. job[w].v \in ready
        BY <2>5 DEF Add, TypeInv, WorkersRefer
      <3>2. mem' \subseteq ready /\ disk' \subseteq ready
        BY <2>5, <3>1, AddType DEF Add
      <3> QED
        BY <2>5, <3>2, <1>0, GotoType, RaiseType DEF Add, TypeInv, QueuesRefer
    <2>6. CASE Confirm(w)
      BY <2>0, <2>6, <1>0, GotoType DEF Confirm, AfterConfirm, TypeInv, QueuesRefer
    <2>7. CASE Purge(w)
      <3>1. mem' \subseteq ready /\ disk' \subseteq ready
        BY <2>7, DeleteType DEF Purge
      <3> QED
        BY <2>7, <3>1, <1>0, GotoType, RaiseType DEF Purge, TypeInv, QueuesRefer
    <2> QED
      BY <1>3, <2>1, <2>2, <2>3, <2>4, <2>5, <2>6, <2>7 DEF Work
  <1>4. CASE CancelJob
    BY <1>4, DequeueType DEF CancelJob, TypeInv, TypeOK, RequestsRefer, WorkersRefer, QueuesRefer
  <1>5. CASE Restart
    <2> DEFINE Ran(type, v) == {w \in Workers : job[w] = [type |-> type, v |-> v]}
    <2>1. ASSUME NEW type \in Types, NEW v \in Versions
          PROVE  Cardinality(Ran(type, v)) \in Nat
      BY FS_Subset, FS_CardinalityType
    <2>2. ASSUME NEW type \in Types, NEW v \in Versions, v \notin ready
          PROVE  Cardinality(Ran(type, v)) = 0
      <3>1. Ran(type, v) = {}
        BY <2>2 DEF TypeInv, TypeOK, WorkersRefer, NoJob
      <3> QED
        BY <3>1, FS_EmptySet
    <2> HIDE DEF Ran
    <2>3. queue' = [type \in Types |-> [v \in Versions |->
                      queue[type][v] + Cardinality(Ran(type, v))]]
      BY <1>5 DEF Restart, Ran
    <2>4. queue' \in [Types -> [Versions -> Nat]]
      BY <1>0, <2>1, <2>3
    <2>5. \A type \in Types, v \in Versions : queue'[type][v] > 0 => v \in ready
      BY <1>0, <2>1, <2>2, <2>3 DEF TypeInv, QueuesRefer
    <2> QED
      BY <1>5, <2>4, <2>5 DEF Restart, Forget, NoRequest, NoJob, TypeInv, TypeOK,
                              RequestsRefer, WorkersRefer, QueuesRefer
  <1>6. CASE UNCHANGED vars
    BY <1>6 DEF vars, TypeInv, TypeOK, RequestsRefer, WorkersRefer, QueuesRefer
  <1> QED
    BY <1>1, <1>2, <1>3, <1>4, <1>5, <1>6, <1>7 DEF Next

(* The variables keep their types.                                         *)
THEOREM TypesHold == Spec => []TypeOK
  <1>1. Init => TypeInv
    BY TypeInit
  <1>2. TypeInv /\ [Next]_vars => TypeInv'
    BY TypeStep
  <1>3. TypeInv => TypeOK
    BY DEF TypeInv
  <1> QED
    BY <1>1, <1>2, <1>3, PTL DEF Spec

-----------------------------------------------------------------------------
(* StaleIsDoomed is inductive given the types: in the absence of faults no *)
(* delete raises, so what leaves todo or passes purge has left the index.  *)

LEMMA CalmDelete ==
    ASSUME faults = {}, NEW v, NEW ok \in BOOLEAN, DeleteByVersion(v, ok)
    PROVE  ok /\ mem' = mem \ {v}
  BY DEF DeleteByVersion, Write

LEMMA StaleInit == Init => StaleIsDoomed
  BY DEF Init, StaleIsDoomed

LEMMA StaleStep == TypeInv /\ StaleIsDoomed /\ [Next]_vars => StaleIsDoomed'
  <1> SUFFICES ASSUME TypeInv, StaleIsDoomed, [Next]_vars, faults = {}, faults' = {},
                      NEW v \in mem', v \notin published'
               PROVE  \/ \E c \in Clients : v \in todo'[c]
                      \/ \E w \in Workers : Runs(w, v, {"confirm", "purge"})'
    BY DEF StaleIsDoomed, Next, vars, modes, MarkReady, EnqueueImported, Request, ReadPublish,
           ReadUnpublish, Read, CommitPublish, CommitUnpublish, DeleteNow, Answer, RequestDies,
           Work, StartJob, Gate, DeleteOld, Recheck, Add, Confirm, Purge, Goto, Raise, CancelJob, Restart
  <1> DEFINE Doomed == \/ \E c \in Clients : v \in todo[c]
                       \/ \E w \in Workers : Runs(w, v, {"confirm", "purge"})
             DoomedNext == \/ \E c \in Clients : v \in todo'[c]
                           \/ \E w \in Workers : Runs(w, v, {"confirm", "purge"})'
  <1>0. v \in mem => v \in published \/ Doomed
    BY DEF StaleIsDoomed
  <1> USE DEF imports, store, requestVars, workerVars, modes, Runs
  <1>1. ASSUME NEW x \in Versions, MarkReady(x) \/ EnqueueImported(x) PROVE DoomedNext
    BY <1>0, <1>1 DEF MarkReady, EnqueueImported
  <1>2. ASSUME NEW c \in Clients, Request(c) PROVE DoomedNext
    <2>1. CASE ReadPublish(c) \/ ReadUnpublish(c)
      BY <1>0, <2>1 DEF ReadPublish, ReadUnpublish, Read
    <2>2. CASE CommitPublish(c) \/ CommitUnpublish(c)
      <3>1. /\ todo[c] = {} /\ mem' = mem /\ UNCHANGED <<job, at>>
            /\ \A d \in Clients : d # c => todo'[d] = todo[d]
        BY <2>2 DEF CommitPublish, CommitUnpublish, TypeInv, TypeOK, RequestsRefer
      <3>2. v \in published => v \in todo'[c]
        BY <2>2 DEF CommitPublish, CommitUnpublish, Superseded, TypeInv, TypeOK
      <3> QED
        BY <1>0, <3>1, <3>2
    <2>3. CASE DeleteNow(c)
      <3>1. PICK x \in todo[c], ok \in BOOLEAN :
                /\ DeleteByVersion(x, ok) /\ todo' = [todo EXCEPT ![c] = @ \ {x}]
                /\ UNCHANGED <<published, job, at>>
        BY <2>3 DEF DeleteNow
      <3>2. mem' = mem \ {x}
        BY <3>1, CalmDelete
      <3> QED
        BY <1>0, <3>1, <3>2 DEF TypeInv, TypeOK
    <2>4. CASE Answer(c)
      BY <1>0, <2>4 DEF Answer, Forget, TypeInv, TypeOK
    <2>5. CASE RequestDies(c)
      BY <2>5 DEF RequestDies
    <2> QED
      BY <1>2, <2>1, <2>2, <2>3, <2>4, <2>5 DEF Request
  <1>3. ASSUME NEW w \in Workers, Work(w) PROVE DoomedNext
    <2>0. UNCHANGED <<published, todo>>
      BY <1>3 DEF Work, StartJob, Gate, DeleteOld, Recheck, Add, Confirm, Purge, Goto, Raise
    <2>1. CASE StartJob(w)
      BY <1>0, <2>0, <2>1 DEF StartJob, TypeInv, TypeOK
    <2>2. CASE Gate(w) \/ Recheck(w)
      BY <1>0, <2>0, <2>2 DEF Gate, Recheck, Goto, TypeInv, TypeOK
    <2>3. CASE DeleteOld(w)
      BY <1>0, <2>0, <2>3, CalmDelete DEF DeleteOld, Goto, TypeInv, TypeOK
    <2>4. CASE Add(w)
      <3>1. /\ mem' = mem \cup {job[w].v} /\ job' = job /\ at[w] = "add"
            /\ at' = [at EXCEPT ![w] = "confirm"]
        BY <2>4 DEF Add, AddRecords, Goto
      <3> QED
        BY <1>0, <2>0, <3>1 DEF TypeInv, TypeOK
    <2>5. CASE Confirm(w)
      BY <1>0, <2>0, <2>5 DEF Confirm, AfterConfirm, PublishedNow, Goto, TypeInv, TypeOK
    <2>6. CASE Purge(w)
      <3>1. mem' = mem \ {job[w].v} /\ Goto(w, "idle")
        BY <2>6, CalmDelete DEF Purge
      <3> QED
        BY <1>0, <2>0, <3>1 DEF Goto, TypeInv, TypeOK
    <2> QED
      BY <1>3, <2>1, <2>2, <2>3, <2>4, <2>5, <2>6 DEF Work
  <1>4. CASE CancelJob \/ Restart
    BY <1>4 DEF CancelJob, Restart
  <1>5. CASE UNCHANGED vars
    BY <1>0, <1>5 DEF vars
  <1> QED
    BY <1>1, <1>2, <1>3, <1>4, <1>5 DEF Next

(* Without faults, a searchable version that is not published is about to  *)
(* be removed, for any number of requests and workers.                     *)
THEOREM StaleVersionsAreDoomed == Spec => []StaleIsDoomed
  <1>1. Init => TypeInv /\ StaleIsDoomed
    BY TypeInit, StaleInit
  <1>2. TypeInv /\ StaleIsDoomed /\ [Next]_vars => TypeInv' /\ StaleIsDoomed'
    BY TypeStep, StaleStep
  <1> QED
    BY <1>1, <1>2, PTL DEF Spec

-----------------------------------------------------------------------------
(* One published version: when requests come one at a time, the one that   *)
(* is about to commit has read what is published.                          *)
SerialInv ==
    serial => /\ \A c, d \in Clients : pc[c] # "idle" /\ pc[d] # "idle" => c = d
              /\ \A c \in Clients : pc[c] = "commit" => seen[c] = published
              /\ \A x, y \in published : x = y

LEMMA SerialStep == TypeInv /\ SerialInv /\ [Next]_vars => SerialInv'
  <1> SUFFICES ASSUME TypeInv, SerialInv, [Next]_vars, serial, serial' = serial PROVE SerialInv'
    BY DEF SerialInv, Next, vars, modes, MarkReady, EnqueueImported, Request, ReadPublish,
           ReadUnpublish, Read, CommitPublish, CommitUnpublish, DeleteNow, Answer, RequestDies,
           Work, StartJob, Gate, DeleteOld, Recheck, Add, Confirm, Purge, Goto, Raise, CancelJob, Restart
  <1> USE DEF SerialInv, requestVars
  <1>1. ASSUME NEW v \in Versions, MarkReady(v) \/ EnqueueImported(v) PROVE SerialInv'
    BY <1>1 DEF MarkReady, EnqueueImported
  <1>2. ASSUME NEW c \in Clients, Request(c) PROVE SerialInv'
    <2>1. CASE ReadPublish(c) \/ ReadUnpublish(c)
      BY <2>1 DEF ReadPublish, ReadUnpublish, Read, TypeInv, TypeOK
    <2>2. CASE CommitPublish(c) \/ CommitUnpublish(c)
      <3>1. /\ pc[c] = "commit" /\ pc' = [pc EXCEPT ![c] = "delete"] /\ seen' = seen
            /\ \A x, y \in published' : x = y
        BY <2>2 DEF CommitPublish, CommitUnpublish, Superseded
      <3> QED
        BY <3>1 DEF TypeInv, TypeOK
    <2>3. CASE DeleteNow(c)
      BY <2>3 DEF DeleteNow
    <2>4. CASE Answer(c) \/ RequestDies(c)
      BY <2>4 DEF Answer, RequestDies, Forget
    <2> QED
      BY <1>2, <2>1, <2>2, <2>3, <2>4 DEF Request
  <1>3. ASSUME NEW w \in Workers, Work(w) PROVE SerialInv'
    BY <1>3 DEF Work, StartJob, Gate, DeleteOld, Recheck, Add, Confirm, Purge, Goto, Raise
  <1>4. CASE CancelJob \/ Restart
    BY <1>4 DEF CancelJob, Restart, Forget
  <1>5. CASE UNCHANGED vars
    BY <1>5 DEF vars
  <1> QED
    BY <1>1, <1>2, <1>3, <1>4, <1>5 DEF Next

LEMMA AtMostOne ==
    ASSUME NEW S, \A x, y \in S : x = y
    PROVE  Cardinality(S) <= 1
  <1>1. CASE S = {}
    BY <1>1, FS_EmptySet
  <1>2. CASE S # {}
    <2>1. PICK x : x \in S
      BY <1>2
    <2>2. S = {x}
      BY <2>1
    <2> QED
      BY <2>2, FS_Singleton
  <1> QED
    BY <1>1, <1>2

(* Publications that do not overlap leave one published version, faults    *)
(* or not.                                                                 *)
THEOREM OneVersionIsPublished == Spec => []OnePublished
  <1>1. Init => TypeInv /\ SerialInv
    BY TypeInit DEF Init, SerialInv
  <1>2. TypeInv /\ SerialInv /\ [Next]_vars => TypeInv' /\ SerialInv'
    BY TypeStep, SerialStep
  <1>3. SerialInv => OnePublished
    BY AtMostOne DEF SerialInv, OnePublished
  <1> QED
    BY <1>1, <1>2, <1>3, PTL DEF Spec

-----------------------------------------------------------------------------
(* A published version is searchable or will be. A delete may still hit a  *)
(* version that has been published again since it was decided; what makes  *)
(* up for it is that the new publication has not been indexed yet, which   *)
(* is what the third part says of a job that is about to purge.            *)

(* The request that published v has not answered, or its job waits.        *)
Pending(v) ==
    \/ \E c \in Clients : pc[c] # "idle" /\ req[c] = [op |-> "publish", v |-> v]
    \/ queue["document_index"][v] > 0

(* Nothing is left to a compensation job, and the versions a request has   *)
(* still to delete are withdrawn.                                          *)
CalmInv ==
    faults = {} /\ serial =>
        /\ \A v \in Versions : queue["document_unindex"][v] = 0
        /\ \A c \in Clients : todo[c] \cap published = {}
        /\ \A w \in Workers : at[w] = "purge" /\ job[w].v \in published => Pending(job[w].v)

(* What PublishedIsIndexed says of a version that is not in memory.        *)
Promised(v) == Pending(v) \/ \E w \in Workers : Runs(w, v, {"gate", "delete", "recheck", "add"})

LEMMA PromisedIsIndexed ==
    PublishedIsIndexed <=>
        (faults = {} /\ serial => \A v \in published \ (Empty \cup mem) : Promised(v))
  BY DEF PublishedIsIndexed, Promised, Pending

LEMMA CalmAdd ==
    ASSUME faults = {}, NEW v, NEW ok \in BOOLEAN, AddRecords(v, ok)
    PROVE  ok /\ mem' = mem \cup {v}
  BY DEF AddRecords

LEMMA ModesStay == [Next]_vars => UNCHANGED modes
  BY DEF Next, vars, modes, MarkReady, EnqueueImported, Request, ReadPublish, ReadUnpublish,
         Read, CommitPublish, CommitUnpublish, DeleteNow, Answer, RequestDies, Work, StartJob,
         Gate, DeleteOld, Recheck, Add, Confirm, Purge, Goto, Raise, CancelJob, Restart

(* A step of a request keeps what is pending, but for its answer to a      *)
(* publication, which queues the job.                                      *)
LEMMA RequestKeepsPending ==
    ASSUME TypeInv, faults = {}, NEW c \in Clients, Request(c), NEW v \in Versions, Pending(v)
    PROVE  Pending(v)'
  <1> USE DEF Pending, requestVars, TypeInv, TypeOK
  <1>1. CASE ReadPublish(c) \/ ReadUnpublish(c)
    <2>1. /\ pc[c] = "idle" /\ queue' = queue
          /\ \A d \in Clients : d # c => pc'[d] = pc[d] /\ req'[d] = req[d]
      BY <1>1 DEF ReadPublish, ReadUnpublish, Read
    <2> QED
      BY <2>1
  <1>2. CASE CommitPublish(c) \/ CommitUnpublish(c)
    BY <1>2 DEF CommitPublish, CommitUnpublish
  <1>3. CASE DeleteNow(c)
    BY <1>3, CalmDelete DEF DeleteNow
  <1>4. CASE Answer(c)
    <2>1. \A d \in Clients : d # c => pc'[d] = pc[d] /\ req'[d] = req[d]
      BY <1>4 DEF Answer, Forget
    <2>2. queue["document_index"][v] > 0 => queue'["document_index"][v] > 0
      BY <1>4 DEF Answer, Enqueue, Types
    <2>3. req[c] = [op |-> "publish", v |-> v] => queue'["document_index"][v] > 0
      BY <1>4 DEF Answer, Enqueue, Types
    <2> QED
      BY <2>1, <2>2, <2>3
  <1>5. CASE RequestDies(c)
    BY <1>5 DEF RequestDies
  <1> QED
    BY <1>1, <1>2, <1>3, <1>4, <1>5 DEF Request

(* A version is published by a request that has still to answer.           *)
LEMMA NewlyPublished ==
    ASSUME TypeInv, NEW c \in Clients, Request(c), NEW v \in published', v \notin published
    PROVE  v \in Versions /\ Pending(v)'
  <1>1. CASE CommitPublish(c)
    <2>1. v = req[c].v /\ req[c].op = "publish" /\ req' = req /\ pc'[c] = "delete"
      BY <1>1 DEF CommitPublish, TypeInv, TypeOK
    <2>2. v \in Versions
      BY <1>1, <2>1 DEF CommitPublish, TypeInv, TypeOK, RequestsRefer
    <2>3. req'[c] = [op |-> "publish", v |-> v]
      BY <2>1, <2>2 DEF TypeInv, TypeOK
    <2> QED
      BY <2>1, <2>2, <2>3 DEF Pending
  <1>2. CASE ~ CommitPublish(c)
    BY <1>2 DEF Request, ReadPublish, ReadUnpublish, Read, CommitUnpublish, DeleteNow, Answer,
                RequestDies
  <1> QED
    BY <1>1, <1>2

(* A step of a worker other than StartJob leaves the queues and the        *)
(* requests alone.                                                         *)
LEMMA WorkKeepsPending ==
    ASSUME TypeInv, faults = {}, NEW w \in Workers, Work(w), ~ StartJob(w)
    PROVE  UNCHANGED <<queue, published, requestVars>> /\ \A v : Pending(v)' <=> Pending(v)
  <1>1. UNCHANGED <<queue, published, requestVars>>
    BY CalmDelete, CalmAdd DEF Work, Gate, DeleteOld, Recheck, Add, Confirm, Purge, Goto
  <1> QED
    BY <1>1 DEF Pending, requestVars

LEMMA CalmInit == Init => CalmInv /\ PublishedIsIndexed
  BY DEF Init, CalmInv, PublishedIsIndexed, Types

LEMMA CalmStep ==
    TypeInv /\ SerialInv /\ CalmInv /\ PublishedIsIndexed /\ [Next]_vars
        => CalmInv' /\ PublishedIsIndexed'
  <1> SUFFICES ASSUME TypeInv, SerialInv, CalmInv, PublishedIsIndexed, [Next]_vars,
                      faults = {}, serial, faults' = {}, serial'
               PROVE  CalmInv' /\ PublishedIsIndexed'
    BY ModesStay DEF modes, CalmInv, PublishedIsIndexed
  <1> USE DEF imports, store, requestVars, workerVars, modes
  <1> DEFINE NoneToWithdraw == \A v \in Versions : queue["document_unindex"][v] = 0
             Withdrawn      == \A c \in Clients : todo[c] \cap published = {}
             Purged         == \A w \in Workers :
                                   at[w] = "purge" /\ job[w].v \in published => Pending(job[w].v)
             Indexed        == \A v \in published \ (Empty \cup mem) : Promised(v)
  <1>a. NoneToWithdraw /\ Withdrawn /\ Purged
    BY DEF CalmInv
  <1>b. Indexed
    BY PromisedIsIndexed
  <1>c. published \subseteq Versions /\ queue \in [Types -> [Versions -> Nat]]
        /\ "document_index" \in Types /\ "document_unindex" \in Types
    BY DEF TypeInv, TypeOK, Types
  <1>d. NoneToWithdraw' /\ Withdrawn' /\ Purged' => CalmInv'
    BY DEF CalmInv
  <1>e. Indexed' => PublishedIsIndexed'
    BY DEF PublishedIsIndexed, Promised, Pending
  <1> SUFFICES NoneToWithdraw' /\ Withdrawn' /\ Purged' /\ Indexed'
    BY <1>d, <1>e
  <1>1. ASSUME NEW v \in Versions, MarkReady(v) \/ EnqueueImported(v)
        PROVE  NoneToWithdraw' /\ Withdrawn' /\ Purged' /\ Indexed'
    <2>1. UNCHANGED <<published, mem, requestVars, workerVars>>
      BY <1>1 DEF MarkReady, EnqueueImported
    <2>2. /\ queue'["document_unindex"] = queue["document_unindex"]
          /\ \A x \in Versions : queue["document_index"][x] > 0 => queue'["document_index"][x] > 0
      BY <1>1, <1>c DEF MarkReady, EnqueueImported, Enqueue
    <2>3. \A x \in Versions : Pending(x) => Pending(x)'
      BY <2>1, <2>2 DEF Pending
    <2> QED
      BY <1>a, <1>b, <1>c, <2>1, <2>2, <2>3 DEF Promised, Runs
  <1>2. ASSUME NEW c \in Clients, Request(c)
        PROVE  NoneToWithdraw' /\ Withdrawn' /\ Purged' /\ Indexed'
    <2>1. UNCHANGED <<job, at>>
      BY <1>2 DEF Request, ReadPublish, ReadUnpublish, Read, CommitPublish, CommitUnpublish,
                  DeleteNow, Answer, RequestDies
    <2>2. \A v \in published' : Pending(v) \/ v \notin published => Pending(v)'
      BY <1>2, <1>c, RequestKeepsPending, NewlyPublished
    <2>3. Purged'
      BY <1>a, <2>1, <2>2
    <2>4. ASSUME NEW v \in published', v \notin Empty, v \notin mem' PROVE Promised(v)'
      <3>1. CASE v \notin published
        BY <2>2, <3>1 DEF Promised
      <3>2. CASE v \in published
        <4>1. v \notin mem
          <5>1. CASE DeleteNow(c)
            BY <1>a, <2>4, <3>2, <5>1, CalmDelete DEF DeleteNow
          <5>2. CASE ~ DeleteNow(c)
            BY <1>2, <2>4, <5>2 DEF Request, ReadPublish, ReadUnpublish, Read, CommitPublish,
                                    CommitUnpublish, Answer, RequestDies
          <5> QED
            BY <5>1, <5>2
        <4>2. Promised(v)
          BY <1>b, <2>4, <3>2, <4>1
        <4> QED
          BY <2>1, <2>2, <4>2 DEF Promised, Runs
      <3> QED
        BY <3>1, <3>2
    <2>5. NoneToWithdraw'
      <3>1. CASE DeleteNow(c)
        BY <1>a, <3>1, CalmDelete DEF DeleteNow
      <3>2. CASE Answer(c)
        BY <1>a, <1>c, <3>2 DEF Answer, Enqueue, TypeInv, TypeOK
      <3> QED
        BY <1>2, <1>a, <3>1, <3>2 DEF Request, ReadPublish, ReadUnpublish, Read, CommitPublish,
                                      CommitUnpublish, RequestDies
    <2>6. Withdrawn'
      <3>1. CASE CommitPublish(c) \/ CommitUnpublish(c)
        <4>1. /\ pc[c] = "commit"
              /\ todo'[c] \cap published' = {}
              /\ \A d \in Clients : d # c => todo'[d] = todo[d]
          BY <3>1 DEF CommitPublish, CommitUnpublish, Superseded, TypeInv, TypeOK
        <4>2. \A d \in Clients : d # c => todo[d] = {}
          BY <4>1 DEF SerialInv, TypeInv, RequestsRefer
        <4> QED
          BY <4>1, <4>2
      <3>2. CASE DeleteNow(c)
        <4>1. published' = published /\ \A d \in Clients : todo'[d] \subseteq todo[d]
          BY <3>2 DEF DeleteNow, TypeInv, TypeOK
        <4> QED
          BY <1>a, <4>1
      <3>3. CASE Answer(c) \/ RequestDies(c)
        BY <1>a, <3>3 DEF Answer, RequestDies, Forget
      <3>4. CASE ReadPublish(c) \/ ReadUnpublish(c)
        BY <1>a, <3>4 DEF ReadPublish, ReadUnpublish, Read
      <3> QED
        BY <1>2, <3>1, <3>2, <3>3, <3>4 DEF Request
    <2> QED
      BY <2>3, <2>4, <2>5, <2>6
  <1>3. ASSUME NEW w \in Workers, Work(w)
        PROVE  NoneToWithdraw' /\ Withdrawn' /\ Purged' /\ Indexed'
    <2>1. CASE StartJob(w)
      <3>1. PICK type \in Types, x \in Versions :
                /\ queue[type][x] > 0 /\ \A u \in Workers : at[u] = "idle"
                /\ queue' = [queue EXCEPT ![type][x] = @ - 1]
                /\ job' = [job EXCEPT ![w] = [type |-> type, v |-> x]]
                /\ at' = [at EXCEPT ![w] = IF type = "document_index" THEN "gate" ELSE "purge"]
                /\ UNCHANGED <<ready, published, store, requestVars>>
        BY <2>1 DEF StartJob
      <3>2. type = "document_index"
        BY <1>a, <3>1 DEF Types
      <3>3. NoneToWithdraw' /\ Withdrawn'
        BY <1>a, <1>c, <3>1, <3>2
      <3>4. Purged'
        BY <3>1, <3>2 DEF TypeInv, TypeOK
      <3>5. ASSUME NEW v \in published, v \notin Empty, v \notin mem PROVE Promised(v)'
        <4>1. Pending(v)
          BY <1>b, <3>1, <3>5 DEF Promised, Runs
        <4>2. CASE v = x
          BY <3>1, <3>2, <4>2 DEF Promised, Runs, TypeInv, TypeOK
        <4>3. CASE v # x
          <5>1. queue'["document_index"][v] = queue["document_index"][v]
            BY <1>c, <3>1, <3>2, <4>3
          <5> QED
            BY <3>1, <4>1, <5>1 DEF Promised, Pending
        <4> QED
          BY <4>2, <4>3
      <3> QED
        BY <3>1, <3>3, <3>4, <3>5
    <2>2. CASE ~ StartJob(w)
      <3>1. UNCHANGED <<queue, published, requestVars>> /\ \A v : Pending(v)' <=> Pending(v)
        BY <1>3, <2>2, WorkKeepsPending
      <3>2. \A u \in Workers : u # w => at'[u] = at[u] /\ job'[u] = job[u]
        BY <1>3, <2>2 DEF Work, Gate, DeleteOld, Recheck, Add, Confirm, Purge, Goto, Raise,
                          TypeInv, TypeOK
      <3>3. NoneToWithdraw' /\ Withdrawn'
        BY <1>a, <3>1
      <3>4. Purged'
        <4>1. at'[w] = "purge" => job[w].v \notin published /\ job' = job
          BY <1>3, <2>2 DEF Work, Gate, DeleteOld, Recheck, Add, Confirm, Purge, Goto, Raise,
                            AfterConfirm, PublishedNow, TypeInv, TypeOK
        <4> QED
          BY <1>a, <3>1, <3>2, <4>1
      <3>5. ASSUME NEW v \in published, v \notin Empty, v \notin mem' PROVE Promised(v)'
        <4>1. ASSUME NEW u \in Workers, u # w, Runs(u, v, {"gate", "delete", "recheck", "add"})
              PROVE  Promised(v)'
          BY <3>2, <4>1 DEF Promised, Runs
        <4>2. CASE Gate(w) \/ Recheck(w) \/ Confirm(w)
          <5>1. Promised(v)
            BY <1>b, <3>5, <4>2 DEF Gate, Recheck, Confirm
          <5>2. Runs(w, v, {"gate", "delete", "recheck", "add"})
                    => Runs(w, v, {"gate", "delete", "recheck", "add"})'
            BY <3>5, <4>2 DEF Gate, Recheck, Confirm, Runs, Goto, PublishedNow, TypeInv, TypeOK
          <5> QED
            BY <3>1, <4>1, <5>1, <5>2 DEF Promised
        <4>3. CASE DeleteOld(w)
          <5>1. /\ mem' = mem \ {job[w].v} /\ job' = job /\ at[w] = "delete"
                /\ at' = [at EXCEPT ![w] = "recheck"]
            BY <4>3, CalmDelete DEF DeleteOld, Goto
          <5>2. CASE v = job[w].v
            BY <5>1, <5>2 DEF Promised, Runs, TypeInv, TypeOK
          <5>3. CASE v # job[w].v
            BY <1>b, <3>1, <3>5, <4>1, <5>1, <5>3 DEF Promised, Runs
          <5> QED
            BY <5>2, <5>3
        <4>4. CASE Add(w)
          <5>1. mem' = mem \cup {job[w].v}
            BY <4>4, CalmAdd DEF Add
          <5>2. v # job[w].v /\ Promised(v)
            BY <1>b, <3>5, <5>1
          <5> QED
            BY <3>1, <4>1, <5>2 DEF Promised, Runs
        <4>5. CASE Purge(w)
          <5>1. mem' = mem \ {job[w].v} /\ at[w] = "purge"
            BY <4>5, CalmDelete DEF Purge
          <5>2. CASE v = job[w].v
            BY <1>a, <3>1, <3>5, <5>1, <5>2 DEF Promised
          <5>3. CASE v # job[w].v
            BY <1>b, <3>1, <3>5, <4>1, <5>1, <5>3 DEF Promised, Runs
          <5> QED
            BY <5>2, <5>3
        <4> QED
          BY <1>3, <2>2, <4>2, <4>3, <4>4, <4>5 DEF Work
      <3> QED
        BY <3>1, <3>3, <3>4, <3>5
    <2> QED
      BY <2>1, <2>2
  <1>4. CASE CancelJob \/ Restart
    BY <1>4 DEF CancelJob, Restart
  <1>5. CASE UNCHANGED vars
    BY <1>5, <1>a, <1>b DEF vars, Pending, Promised, Runs
  <1> QED
    BY <1>1, <1>2, <1>3, <1>4, <1>5 DEF Next

(* Without faults, and with one request and one worker at a time, what is  *)
(* published can be searched or is on its way into the index.              *)
THEOREM PublishedGetsIndexed == Spec => []PublishedIsIndexed
  <1>1. Init => TypeInv /\ SerialInv /\ CalmInv /\ PublishedIsIndexed
    BY TypeInit, CalmInit DEF Init, SerialInv
  <1>2. TypeInv /\ SerialInv /\ CalmInv /\ PublishedIsIndexed /\ [Next]_vars
            => TypeInv' /\ SerialInv' /\ CalmInv' /\ PublishedIsIndexed'
    BY TypeStep, SerialStep, CalmStep
  <1> QED
    BY <1>1, <1>2, PTL DEF Spec
=============================================================================
