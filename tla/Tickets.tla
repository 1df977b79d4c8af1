------------------------------ MODULE Tickets ------------------------------
(***************************************************************************)
(* Service tickets, their events and their assignments (app/tickets.py and *)
(* the /api/tickets routes of app/main.py).                                *)
(*                                                                         *)
(* A change of a ticket compares expected_version with the row it read and *)
(* writes by primary key; it emits what differs from what it read.         *)
(***************************************************************************)
EXTENDS Integers, FiniteSets

CONSTANTS
    TicketNos,     \* ticket numbers
    Assignees,
    Clerks,        \* calls in progress
    MaxVersion,    \* bound on the version of a ticket
    Nobody

ASSUME TicketsAssumption ==
    /\ TicketNos = 1..Cardinality(TicketNos)
    /\ MaxVersion \in Nat \ {0} /\ Nobody \notin Assignees

VARIABLES
    ticket,        \* service_tickets
    assignments,   \* ticket_assignments: numbered, with the end of each
    ticketEvents,  \* ticket_events: the versions after which each change was recorded
    clerk,         \* what each call is at
    oneClerk       \* whether calls are served one at a time

ticketVars == <<ticket, assignments, ticketEvents, clerk, oneClerk>>

TicketStatuses == {"open", "assigned", "in_progress", "waiting", "resolved", "closed"}
TRANSITIONS ==
    [s \in TicketStatuses |->
        CASE s = "open"        -> {"assigned", "in_progress"}
          [] s = "assigned"    -> {"in_progress", "waiting", "resolved"}
          [] s = "in_progress" -> {"waiting", "resolved"}
          [] s = "waiting"     -> {"in_progress", "resolved"}
          [] s = "resolved"    -> {"closed", "open"}
          [] s = "closed"      -> {"open"}]

Ticket == [exists : BOOLEAN, status : TicketStatuses, version : 1..MaxVersion,
           assignee : Assignees \cup {Nobody}]
NoTicket == [exists |-> FALSE, status |-> "open", version |-> 1, assignee |-> Nobody]
Assignment == [no : Nat, who : Assignees, ended : BOOLEAN]
NoWork == [no |-> 0, to |-> NoTicket, seen |-> NoTicket, ends |-> {}, assigns |-> FALSE]

TicketsTypeOK ==
    /\ ticket \in [TicketNos -> Ticket]
    /\ \A t \in TicketNos : assignments[t] \subseteq Assignment
    /\ \A t \in TicketNos : ticketEvents[t] \subseteq 1..MaxVersion
    /\ \A c \in Clerks : /\ clerk[c].no \in {0} \cup TicketNos
                         /\ clerk[c].to \in Ticket /\ clerk[c].seen \in Ticket
                         /\ clerk[c].ends \subseteq Assignment /\ clerk[c].assigns \in BOOLEAN
    /\ oneClerk \in BOOLEAN

TicketsInit ==
    /\ ticket = [t \in TicketNos |-> NoTicket]
    /\ assignments = [t \in TicketNos |-> {}]
    /\ ticketEvents = [t \in TicketNos |-> {}]
    /\ clerk = [c \in Clerks |-> NoWork]
    /\ oneClerk \in BOOLEAN

(* Two calls that count the same number of tickets draw the same number,   *)
(* and one of them fails; a repeated key finds the ticket it made.         *)
CreateTicket(t) ==
    /\ ~ticket[t].exists
    /\ \A u \in TicketNos : u < t => ticket[u].exists
    /\ ticket' = [ticket EXCEPT ![t].exists = TRUE]
    /\ UNCHANGED <<assignments, ticketEvents, clerk, oneClerk>>

MayServe(c) == clerk[c].no = 0 /\ (oneClerk => \A d \in Clerks : clerk[d].no = 0)

Current(t, expected) == ticket[t].exists /\ ticket[t].version = expected

(* transition_ticket: nothing asks whether an assigned ticket has someone. *)
StartTransition(c, t, target, expected) ==
    /\ MayServe(c) /\ Current(t, expected) /\ ticket[t].version < MaxVersion
    /\ target \in TRANSITIONS[ticket[t].status]
    /\ clerk' = [clerk EXCEPT ![c] =
           [NoWork EXCEPT !.no = t, !.seen = ticket[t],
                          !.to = [ticket[t] EXCEPT !.status = target, !.version = expected + 1]]]
    /\ UNCHANGED <<ticket, assignments, ticketEvents, oneClerk>>

(* Mutant of ToEnd: those of the assignee who is replaced only.            *)
ToEndOfAnother(t, who) == {a \in assignments[t] : ~a.ended /\ a.who # who}

ToEnd(t, who) == {a \in assignments[t] : ~a.ended}

(* assign_ticket: whatever the status; an open ticket becomes assigned.    *)
StartAssignment(c, t, who, expected) ==
    /\ MayServe(c) /\ Current(t, expected) /\ ticket[t].version < MaxVersion
    /\ clerk' = [clerk EXCEPT ![c] =
           [no |-> t, seen |-> ticket[t], assigns |-> TRUE, ends |-> ToEnd(t, who),
            to |-> [ticket[t] EXCEPT !.assignee = who, !.version = expected + 1,
                                     !.status = IF @ = "open" THEN "assigned" ELSE @]]]
    /\ UNCHANGED <<ticket, assignments, ticketEvents, oneClerk>>

(* The commit of either; only a transition records an event.               *)
CommitTicket(c) ==
    LET call == clerk[c]
        t == call.no
        ended == {[a EXCEPT !.ended = TRUE] : a \in call.ends}
        added == {[no |-> Cardinality(assignments[t]) + 1, who |-> call.to.assignee, ended |-> FALSE]}
    IN /\ t # 0
       /\ ticket' = [ticket EXCEPT ![t] =
              [f \in DOMAIN call.to |-> IF call.to[f] = call.seen[f] THEN @[f] ELSE call.to[f]]]
       /\ assignments' = IF call.assigns
                         THEN [assignments EXCEPT ![t] = ((@ \ call.ends) \cup ended) \cup added]
                         ELSE assignments
       /\ ticketEvents' = IF call.assigns THEN ticketEvents
                          ELSE [ticketEvents EXCEPT ![t] = @ \cup {call.to.version}]
       /\ clerk' = [clerk EXCEPT ![c] = NoWork]
       /\ UNCHANGED oneClerk

TicketsNext ==
    \/ \E t \in TicketNos : CreateTicket(t)
    \/ \E c \in Clerks :
          \/ CommitTicket(c)
          \/ \E t \in TicketNos, expected \in 1..MaxVersion :
                \/ \E target \in TicketStatuses : StartTransition(c, t, target, expected)
                \/ \E who \in Assignees : StartAssignment(c, t, who, expected)

TicketsSpec == TicketsInit /\ [][TicketsNext]_ticketVars

(* While calls are served one at a time, whoever a ticket names is the one *)
(* whose assignment has not ended, and every change is accounted for: the  *)
(* version counts the transitions that were recorded and the assignments.  *)
TicketsAgree ==
    oneClerk =>
        \A t \in TicketNos :
            /\ {a.who : a \in {x \in assignments[t] : ~x.ended}} = {ticket[t].assignee} \ {Nobody}
            /\ Cardinality({a \in assignments[t] : ~a.ended}) <= 1
            /\ ticket[t].version = 1 + Cardinality(ticketEvents[t]) + Cardinality(assignments[t])
=============================================================================
