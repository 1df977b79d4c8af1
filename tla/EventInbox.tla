----------------------------- MODULE EventInbox -----------------------------
(***************************************************************************)
(* What platforms report as events: external_events_ingest of app/main.py  *)
(* over ingest_events of app/external_sync.py.  A batch that reads, and is *)
(* of one account, becomes a run; each of its events is looked up by its   *)
(* key without a lock, and what follows from that is written in one commit.*)
(* Sessions do not flush by themselves, so that a call does not see what it*)
(* is about to insert: an event that is twice in a batch, like one that    *)
(* another call inserts meanwhile, meets the unique key.                   *)
(***************************************************************************)
EXTENDS Integers, FiniteSets

CONSTANTS
    Keys,       \* idempotency_key
    Hashes,     \* payload_hash
    Receivers,  \* calls in progress
    MaxEvents   \* bound on the events of a batch

ASSUME EventAssumption == MaxEvents \in Nat

Event == [key : Keys, hash : Hashes]
Entry == [hash : Hashes, status : {"received", "conflict"}]
NoEvent == [status |-> "none"]

VARIABLES
    inbox,      \* external_event_inbox
    receiving,  \* per call: the events still to look up, and what was found
    runOf,      \* per call: the status of its run
    judged      \* history: per key, the payloads that committed batches had

eventVars == <<inbox, receiving, runOf, judged>>

RunStatuses == {"none", "running", "judged", "succeeded", "failed"}
NotReceiving == [ahead |-> {}, found |-> << >>]

EventTypeOK ==
    /\ inbox \in [Keys -> Entry \cup {NoEvent}]
    /\ \A c \in Receivers :
          /\ receiving[c].ahead \subseteq Event /\ DOMAIN receiving[c].found \subseteq Event
          /\ runOf[c] \in RunStatuses
    /\ judged \in [Keys -> SUBSET Hashes]

EventInit ==
    /\ inbox = [k \in Keys |-> NoEvent]
    /\ receiving = [c \in Receivers |-> NotReceiving]
    /\ runOf = [c \in Receivers |-> "none"]
    /\ judged = [k \in Keys |-> {}]

-----------------------------------------------------------------------------
(* load_events, validate_event_batch_scope and begin_sync_run; what they   *)
(* refuse leaves no trace.                                                 *)
ReceiveBatch(c) ==
    /\ runOf[c] \notin {"running", "judged"}
    /\ \E b \in SUBSET Event :
          /\ b # {} /\ Cardinality(b) <= MaxEvents
          /\ receiving' = [receiving EXCEPT ![c] = [ahead |-> b, found |-> << >>]]
    /\ runOf' = [runOf EXCEPT ![c] = "running"]
    /\ UNCHANGED <<inbox, judged>>

LookUpEvent(c) ==
    /\ runOf[c] = "running"
    /\ \E e \in receiving[c].ahead :
          receiving' = [receiving EXCEPT ![c] =
              [ahead |-> @.ahead \ {e},
               found |-> [f \in DOMAIN @.found \cup {e} |->
                             IF f = e THEN inbox[e.key] ELSE @.found[f]]]]
    /\ UNCHANGED <<inbox, runOf, judged>>

Fresh(found) == {e \in DOMAIN found : found[e] = NoEvent}
Contradicting(found) == {e \in DOMAIN found : found[e] # NoEvent /\ found[e].hash # e.hash}

(* The unique key refuses what is there, or is inserted twice.             *)
Inserts(found) ==
    \A e \in Fresh(found) :
        inbox[e.key] = NoEvent /\ \A f \in Fresh(found) : f.key = e.key => f = e

CommitEvents(c) ==
    LET found == receiving[c].found
        conflicts == {e.key : e \in Contradicting(found)}
        fresh(k) == {e.hash : e \in {f \in Fresh(found) : f.key = k}}
    IN /\ runOf[c] = "running" /\ receiving[c].ahead = {} /\ Inserts(found)
       /\ inbox' = [k \in Keys |->
             IF fresh(k) # {} THEN [hash |-> CHOOSE h \in fresh(k) : TRUE, status |-> "received"]
             ELSE IF k \in conflicts THEN [inbox[k] EXCEPT !.status = "conflict"] ELSE inbox[k]]
       /\ judged' = [k \in Keys |-> judged[k] \cup {e.hash : e \in {f \in DOMAIN found : f.key = k}}]
       /\ runOf' = [runOf EXCEPT ![c] = "judged"]
       /\ UNCHANGED receiving

(* complete_sync_run, in a transaction of its own.                         *)
CompleteEvents(c) ==
    /\ runOf[c] = "judged"
    /\ runOf' = [runOf EXCEPT ![c] = "succeeded"]
    /\ UNCHANGED <<inbox, receiving, judged>>

(* fail_sync_run, after the rollback: the unique key or the database.      *)
FailEvents(c) ==
    /\ runOf[c] = "running"
    /\ runOf' = [runOf EXCEPT ![c] = "failed"]
    /\ receiving' = [receiving EXCEPT ![c] = NotReceiving]
    /\ UNCHANGED <<inbox, judged>>

EventNext ==
    \E c \in Receivers :
        ReceiveBatch(c) \/ LookUpEvent(c) \/ CommitEvents(c) \/ CompleteEvents(c) \/ FailEvents(c)

EventSpec == EventInit /\ [][EventNext]_eventVars

-----------------------------------------------------------------------------
(* Whatever calls overlap, an event is in the inbox once it was judged,    *)
(* with one of the payloads it came with, and is marked as contradicted    *)
(* exactly when it came with more than one; and a run that succeeded had   *)
(* all of its events judged (ingest_events).                               *)
EventsAreJudged ==
    /\ \A k \in Keys :
          /\ (inbox[k] = NoEvent) = (judged[k] = {})
          /\ inbox[k] # NoEvent =>
                /\ inbox[k].hash \in judged[k]
                /\ (inbox[k].status = "conflict") = (judged[k] # {inbox[k].hash})
    /\ \A c \in Receivers : runOf[c] = "succeeded" =>
          \A e \in DOMAIN receiving[c].found : e.hash \in judged[e.key]
=============================================================================
