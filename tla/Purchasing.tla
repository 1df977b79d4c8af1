----------------------------- MODULE Purchasing -----------------------------
(***************************************************************************)
(* Replenishment suggestions and the purchase requests made from them:     *)
(* app/replenishment.py, app/purchase_approval.py and the routes of        *)
(* app/main.py that call them.                                             *)
(*                                                                         *)
(* A call reads rows, checks what it read, and writes in one commit at the *)
(* end; other calls commit in between.  The older operations write through *)
(* the objects they loaded: only attributes that differ from the loaded    *)
(* ones are emitted, by primary key, and the version is the loaded one     *)
(* plus one.  approve, reject and cancel are one UPDATE whose WHERE clause *)
(* holds the status and the version.  A refused call writes nothing: one   *)
(* refused by its first read is no step.  A request stands for its         *)
(* idempotency key and a suggestion for its source hash; there is one      *)
(* warehouse.                                                              *)
(***************************************************************************)
EXTENDS Integers, FiniteSets

CONSTANTS
    Requests,      \* purchase_requests
    Suggestions,   \* replenishment_suggestions
    Clients,       \* calls that may be in progress at once
    None,
    SkuOf,         \* the sku of a suggestion
    SuggestedQty,  \* suggested_qty, always positive
    MaxQty,        \* bound on a modified quantity
    MaxVersion,    \* bound on the version of a suggestion
    MaxRequestVersion,  \* and of a request
    Apart          \* kinds of calls that never overlap each other

Kinds == {"generate", "decide", "draft", "direct", "edit", "submit",
          "approve", "reject", "cancel", "order"}

VARIABLES
    sug,      \* suggestions: status, decision_qty, active_slot and version
    pr,       \* purchase requests: status and version
    line,     \* the purchase_request_line of a suggestion, or None
    inbound,  \* whether a request has an inbound order
    req,      \* what each call asks for
    pc,       \* where it is: idle, check or commit
    seenPr,   \* the request as the call loaded it
    seen      \* the suggestions as it loaded them

callVars == <<req, pc, seenPr, seen>>
vars == <<sug, pr, line, inbound, callVars>>

NoSug == [status |-> "absent", qty |-> None, open |-> FALSE, version |-> 0]
NoPr == [status |-> "absent", version |-> 0]
NoCall == [op |-> "none", pr |-> None, sugs |-> {}, to |-> "none", qty |-> None, expected |-> 0]
NothingLoaded == [s \in Suggestions |-> NoSug]

SugStatus == {"absent", "suggested", "modified", "confirmed", "ignored", "submitted"}
PrStatus == {"absent", "draft", "submitted", "approved", "rejected", "cancelled"}
Version == 0..MaxVersion
RequestVersion == 0..MaxRequestVersion
SugRow == [status : SugStatus, qty : 0..MaxQty \cup {None}, open : BOOLEAN, version : Version]
PrRow == [status : PrStatus, version : RequestVersion]
Line == [pr : Requests, qty : 1..MaxQty, version : Version]
Call == [op : Kinds \cup {"none"}, pr : Requests \cup {None}, sugs : SUBSET Suggestions,
         to : SugStatus \cup {"none"}, qty : 0..MaxQty \cup {None}, expected : RequestVersion]

ASSUME PurchasingAssumption ==
    /\ SuggestedQty \in 1..MaxQty /\ MaxQty \in Nat
    /\ MaxVersion \in Nat \ {0} /\ MaxRequestVersion \in Nat \ {0}
    /\ Apart \subseteq Kinds
    /\ None \notin Requests /\ None \notin Int /\ None \notin Clients /\ None \notin Line

TypeOK ==
    /\ sug \in [Suggestions -> SugRow]
    /\ pr \in [Requests -> PrRow]
    /\ line \in [Suggestions -> Line \cup {None}]
    /\ inbound \in [Requests -> BOOLEAN]
    /\ req \in [Clients -> Call]
    /\ pc \in [Clients -> {"idle", "check", "commit"}]
    /\ seenPr \in [Clients -> PrRow]
    /\ seen \in [Clients -> [Suggestions -> SugRow]]

LinesOf(p) == {s \in Suggestions : line[s] # None /\ line[s].pr = p}

-----------------------------------------------------------------------------
(* Calls *)

(* A call loads request p and the suggestions S, and goes on at point at.  *)
Start(c, call, at) ==
    /\ pc[c] = "idle"
    /\ call.op \in Apart => \A d \in Clients : req[d].op \notin Apart
    /\ req' = [req EXCEPT ![c] = call]
    /\ pc' = [pc EXCEPT ![c] = at]
    /\ seenPr' = [seenPr EXCEPT ![c] = IF call.pr = None THEN NoPr ELSE pr[call.pr]]
    /\ seen' = [seen EXCEPT ![c] = [s \in Suggestions |->
                                       IF s \in call.sugs THEN sug[s] ELSE NoSug]]
    /\ UNCHANGED <<sug, pr, line, inbound>>

Finish(c) ==
    /\ req' = [req EXCEPT ![c] = NoCall]
    /\ pc' = [pc EXCEPT ![c] = "idle"]
    /\ seenPr' = [seenPr EXCEPT ![c] = NoPr]
    /\ seen' = [seen EXCEPT ![c] = NothingLoaded]

(* The call is refused, or dies, and its transaction is rolled back.       *)
Refused(c) ==
    /\ pc[c] # "idle"
    /\ Finish(c)
    /\ UNCHANGED <<sug, pr, line, inbound>>

Proceed(c) ==
    /\ pc' = [pc EXCEPT ![c] = "commit"]
    /\ UNCHANGED <<sug, pr, line, inbound, req, seenPr>>

At(c, op, point) == pc[c] = point /\ req[c].op = op

Emit(stored, loaded, dirty) == IF dirty = loaded THEN stored ELSE dirty

(* A row after the flush of an object that was loaded and then changed.    *)
Flushed(stored, loaded, dirty) ==
    [f \in DOMAIN stored |-> Emit(stored[f], loaded[f], dirty[f])]

-----------------------------------------------------------------------------
(* generate_suggestion *)

SlotTaken(s) == \E t \in Suggestions : SkuOf[t] = SkuOf[s] /\ sug[t].open

StartGenerate(c) ==
    \E s \in Suggestions :
        /\ sug[s].status = "absent" /\ ~SlotTaken(s)
        /\ Start(c, [NoCall EXCEPT !.op = "generate", !.sugs = {s}], "commit")

(* Mutant of CanInsert: only the source hash is unique.                    *)
CanInsertAnySlot(s) == sug[s].status = "absent"

(* The unique keys of a suggestion: its source hash, and the open slot of  *)
(* its sku.                                                                *)
CanInsert(s) == sug[s].status = "absent" /\ ~SlotTaken(s)

Generate(c) ==
    \E s \in req[c].sugs :
        /\ At(c, "generate", "commit") /\ CanInsert(s)
        /\ sug' = [sug EXCEPT ![s] = [status |-> "suggested", qty |-> None,
                                      open |-> TRUE, version |-> 1]]
        /\ Finish(c)
        /\ UNCHANGED <<pr, line, inbound>>

-----------------------------------------------------------------------------
(* decide_suggestion *)

(* What an action may decide: confirming takes the suggested quantity.     *)
Decisions == {<<"confirmed", SuggestedQty>>, <<"ignored", None>>}
             \cup ({"modified"} \X (0..MaxQty))

StartDecide(c) ==
    \E s \in Suggestions, d \in Decisions :
        /\ sug[s].status \in {"suggested", "modified"} /\ sug[s].version < MaxVersion
        /\ Start(c, [NoCall EXCEPT !.op = "decide", !.sugs = {s}, !.to = d[1], !.qty = d[2]],
                 "commit")

DecideSuggestion(c) ==
    \E s \in req[c].sugs :
        LET was == seen[c][s]
            now == [status |-> req[c].to, qty |-> req[c].qty, version |-> was.version + 1,
                    open |-> was.open /\ req[c].to # "ignored"]
        IN  /\ At(c, "decide", "commit")
            /\ sug' = [sug EXCEPT ![s] = Flushed(@, was, now)]
            /\ Finish(c)
            /\ UNCHANGED <<pr, line, inbound>>

-----------------------------------------------------------------------------
(* create_purchase_request_draft and submit_purchase_request *)

(* Mutant of Ready: a quantity of zero is asked for.                       *)
ReadyAnyQty(row) ==
    row.status \in {"confirmed", "modified"} /\ row.qty # None

(* SUGGESTION_NOT_READY otherwise.                                         *)
Ready(row) ==
    row.status \in {"confirmed", "modified"} /\ row.qty # None /\ row.qty > 0

StartRequest(c, op, at) ==
    \E p \in Requests, S \in SUBSET Suggestions :
        /\ pr[p].status = "absent" /\ S # {}
        /\ \A s \in S : Ready(sug[s]) /\ sug[s].version < MaxVersion
        /\ Start(c, [NoCall EXCEPT !.op = op, !.pr = p, !.sugs = S], at)

StartDraft(c) == StartRequest(c, "draft", "check")
StartDirect(c) == StartRequest(c, "direct", "commit")

(* SUGGESTION_ALREADY_IN_PURCHASE_REQUEST is only looked for by a draft.   *)
CheckLinked(c) ==
    /\ At(c, "draft", "check")
    /\ \A s \in req[c].sugs : line[s] = None
    /\ Proceed(c) /\ UNCHANGED seen

(* The unique keys of the request, and of its lines: by suggestion and by  *)
(* sku.                                                                    *)
CanCreate(c) ==
    /\ pr[req[c].pr].status = "absent"
    /\ \A s \in req[c].sugs : line[s] = None
    /\ \A s, t \in req[c].sugs : SkuOf[s] = SkuOf[t] => s = t

Create(c, to) ==
    LET p == req[c].pr  S == req[c].sugs IN
    /\ CanCreate(c)
    /\ pr' = [pr EXCEPT ![p] = [status |-> to, version |-> 1]]
    /\ line' = [s \in Suggestions |->
                  IF s \in S
                  THEN [pr |-> p, qty |-> seen[c][s].qty, version |-> seen[c][s].version]
                  ELSE line[s]]
    /\ Finish(c)
    /\ UNCHANGED inbound

CreateDraft(c) ==
    /\ At(c, "draft", "commit")
    /\ Create(c, "draft")
    /\ UNCHANGED sug

(* The suggestions of S, submitted through the objects that were loaded.   *)
Submitted(c, S) ==
    [s \in Suggestions |->
        IF s \in S
        THEN Flushed(sug[s], seen[c][s],
                     [seen[c][s] EXCEPT !.status = "submitted", !.open = FALSE, !.version = @ + 1])
        ELSE sug[s]]

SubmitDirect(c) ==
    /\ At(c, "direct", "commit")
    /\ Create(c, "submitted")
    /\ sug' = Submitted(c, req[c].sugs)

-----------------------------------------------------------------------------
(* edit_purchase_request_draft and submit_purchase_request_draft *)

StartOnDraft(c, op, at) ==
    \E p \in Requests :
        /\ pr[p].status = "draft" /\ pr[p].version < MaxRequestVersion
        /\ Start(c, [NoCall EXCEPT !.op = op, !.pr = p], at)

StartEdit(c) == StartOnDraft(c, "edit", "commit")
StartSubmit(c) == StartOnDraft(c, "submit", "check")

EditDraft(c) ==
    /\ At(c, "edit", "commit")
    /\ pr' = [pr EXCEPT ![req[c].pr] =
                 Flushed(@, seenPr[c], [seenPr[c] EXCEPT !.version = @ + 1])]
    /\ Finish(c)
    /\ UNCHANGED <<sug, line, inbound>>

(* Mutant of Current: the version of the suggestion is not compared.       *)
CurrentAnyVersion(s) == sug[s].status \in {"confirmed", "modified"}

(* SUGGESTION_STALE otherwise.                                             *)
Current(s) ==
    sug[s].version = line[s].version /\ sug[s].status \in {"confirmed", "modified"}

CheckCurrent(c) ==
    LET S == LinesOf(req[c].pr) IN
    /\ At(c, "submit", "check")
    /\ \A s \in S : Current(s) /\ sug[s].version < MaxVersion
    /\ seen' = [seen EXCEPT ![c] = [s \in Suggestions |-> IF s \in S THEN sug[s] ELSE NoSug]]
    /\ Proceed(c)

SubmitDraft(c) ==
    /\ At(c, "submit", "commit")
    /\ pr' = [pr EXCEPT ![req[c].pr] =
                 Flushed(@, seenPr[c],
                         [seenPr[c] EXCEPT !.status = "submitted", !.version = @ + 1])]
    /\ sug' = Submitted(c, LinesOf(req[c].pr))
    /\ Finish(c)
    /\ UNCHANGED <<line, inbound>>

-----------------------------------------------------------------------------
(* decide_purchase_request: approve, reject and cancel *)

AllowedFrom(op) ==
    IF op = "cancel" THEN {"draft", "submitted", "approved"} ELSE {"submitted"}

(* Nothing is checked on load.  The version the caller expects is the      *)
(* current one, or the next if it reads a change the load did not see.     *)
StartDecision(c) ==
    \E p \in Requests, op \in {"approve", "reject", "cancel"}, v \in 1..(MaxRequestVersion - 1) :
        /\ pr[p].status # "absent" /\ v - pr[p].version \in {0, 1}
        /\ Start(c, [NoCall EXCEPT !.op = op, !.pr = p, !.expected = v],
                 IF op = "cancel" THEN "check" ELSE "commit")

(* PURCHASE_REQUEST_ALREADY_INBOUND, for a request seen as approved.       *)
MayCancel(c) == seenPr[c].status = "approved" => ~inbound[req[c].pr]

CheckInbound(c) ==
    /\ At(c, "cancel", "check")
    /\ MayCancel(c)
    /\ Proceed(c) /\ UNCHANGED seen

(* Mutant of Hit: the update is by version only.                           *)
HitAnyStatus(c) == pr[req[c].pr].version = req[c].expected

(* The WHERE clause of the update.                                         *)
Hit(c) ==
    /\ pr[req[c].pr].version = req[c].expected
    /\ pr[req[c].pr].status \in AllowedFrom(req[c].op)

Become(c, op, to) ==
    /\ At(c, op, "commit") /\ Hit(c)
    /\ pr' = [pr EXCEPT ![req[c].pr] = [status |-> to, version |-> @.version + 1]]
    /\ Finish(c)
    /\ UNCHANGED <<line, inbound>>

Approve(c) == Become(c, "approve", "approved") /\ UNCHANGED sug
Reject(c) == Become(c, "reject", "rejected") /\ UNCHANGED sug

(* _revert_suggestions: every suggestion of the request, whatever it is.   *)
Cancel(c) ==
    LET S == LinesOf(req[c].pr) IN
    /\ Become(c, "cancel", "cancelled")
    /\ \A s \in S : sug[s].version < MaxVersion
    /\ sug' = [s \in Suggestions |->
                 IF s \in S
                 THEN [sug[s] EXCEPT !.status = "modified", !.open = FALSE, !.version = @ + 1]
                 ELSE sug[s]]

-----------------------------------------------------------------------------
(* generate_inbound_order_for_request *)

StartOrder(c) ==
    \E p \in Requests :
        /\ pr[p].status = "approved"
        /\ Start(c, [NoCall EXCEPT !.op = "order", !.pr = p], "check")

CheckOrdered(c) ==
    /\ At(c, "order", "check")
    /\ ~inbound[req[c].pr]
    /\ Proceed(c) /\ UNCHANGED seen

(* create_inbound; a second order is refused by its unique keys.           *)
GenerateInbound(c) ==
    /\ At(c, "order", "commit")
    /\ ~inbound[req[c].pr]
    /\ inbound' = [inbound EXCEPT ![req[c].pr] = TRUE]
    /\ Finish(c)
    /\ UNCHANGED <<sug, pr, line>>

-----------------------------------------------------------------------------

Init ==
    /\ sug = [s \in Suggestions |-> NoSug]
    /\ pr = [p \in Requests |-> NoPr]
    /\ line = [s \in Suggestions |-> None]
    /\ inbound = [p \in Requests |-> FALSE]
    /\ req = [c \in Clients |-> NoCall]
    /\ pc = [c \in Clients |-> "idle"]
    /\ seenPr = [c \in Clients |-> NoPr]
    /\ seen = [c \in Clients |-> NothingLoaded]

Handle(c) ==
    \/ StartGenerate(c) \/ Generate(c)
    \/ StartDecide(c) \/ DecideSuggestion(c)
    \/ StartDraft(c) \/ CheckLinked(c) \/ CreateDraft(c)
    \/ StartDirect(c) \/ SubmitDirect(c)
    \/ StartEdit(c) \/ EditDraft(c)
    \/ StartSubmit(c) \/ CheckCurrent(c) \/ SubmitDraft(c)
    \/ StartDecision(c) \/ CheckInbound(c) \/ Approve(c) \/ Reject(c) \/ Cancel(c)
    \/ StartOrder(c) \/ CheckOrdered(c) \/ GenerateInbound(c)
    \/ Refused(c)

Next == \E c \in Clients : Handle(c)

Spec == Init /\ [][Next]_vars
-----------------------------------------------------------------------------
(* Properties *)

(* The calls that write what they loaded, and the two that check a row     *)
(* they do not write: the properties need these to be made one at a time;  *)
(* the others overlap everything.                                          *)
Unguarded == {"decide", "edit", "submit", "direct", "cancel", "order"}

(* A request that awaits or has passed its decision asks for exactly what  *)
(* its suggestions were decided to be, and a submitted suggestion belongs  *)
(* to such a request (source_suggestion_version, SUGGESTION_STALE).        *)
SubmittedAgree ==
    \A s \in Suggestions :
        LET under == line[s] # None /\ pr[line[s].pr].status \in
                                         {"submitted", "approved", "rejected"}
        IN  /\ under <=> sug[s].status = "submitted"
            /\ under => sug[s].qty = line[s].qty

(* A sku has at most one open suggestion, and only an undecided, confirmed *)
(* or modified one holds the slot (OPEN_SUGGESTION_EXISTS).                *)
OneOpenPerSku ==
    \A s \in Suggestions : sug[s].open =>
        /\ sug[s].status \in {"suggested", "modified", "confirmed"}
        /\ \A t \in Suggestions : SkuOf[t] = SkuOf[s] /\ sug[t].open => t = s

Flow == INSTANCE PurchaseFlow WITH
            status    <- [p \in Requests |-> pr[p].status],
            items     <- [p \in Requests |-> LinesOf(p)],
            ordered   <- inbound,
            committed <- {s \in Suggestions : sug[s].status = "submitted"}

(* The calls, with those of Apart one at a time, implement the flow: a     *)
(* request is decided once, by the update that finds it submitted.         *)
ImplementsFlow == Flow!FlowSpec

(* A withdrawn request gives its suggestions back: one that is ready again *)
(* can be put in another request (_revert_suggestions).                    *)
WithdrawnIsRequestable ==
    \A s \in Suggestions :
        Ready(sug[s]) /\ (line[s] # None => pr[line[s].pr].status = "cancelled")
            => line[s] = None
=============================================================================
