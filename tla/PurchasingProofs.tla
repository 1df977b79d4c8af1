--------------------------- MODULE PurchasingProofs ---------------------------
(***************************************************************************)
(* Proofs about Purchasing, for any requests, suggestions and calls.       *)
(***************************************************************************)
EXTENDS Purchasing, TLAPS

(* What a call in progress holds, whatever overlaps it.                    *)
Holds(c) ==
    /\ pc[c] = "idle" <=> req[c].op = "none"
    /\ pc[c] = "idle" => req[c] = NoCall /\ seenPr[c] = NoPr /\ seen[c] = NothingLoaded
    /\ req[c].op \in {"draft", "direct", "edit", "submit", "approve", "reject", "cancel", "order"} =>
          req[c].pr \in Requests
    /\ req[c].op \in {"edit", "submit"} => seenPr[c].version < MaxRequestVersion
    /\ req[c].op \in {"approve", "reject", "cancel"} => req[c].expected < MaxRequestVersion
    /\ req[c].op \in {"decide", "direct", "submit"} =>
          \A s \in Suggestions : seen[c][s].version < MaxVersion
    /\ req[c].op \in {"draft", "direct"} => \A s \in req[c].sugs : Ready(seen[c][s])
    /\ req[c].op = "decide" => <<req[c].to, req[c].qty>> \in Decisions

HoldsInv == \A c \in Clients : Holds(c)

TypeInv == TypeOK /\ HoldsInv

-----------------------------------------------------------------------------
(* Rows *)

LEMMA RowTypes ==
    /\ NoSug \in SugRow /\ NoPr \in PrRow /\ NoCall \in Call
    /\ NothingLoaded \in [Suggestions -> SugRow]
    /\ MaxVersion \in Nat /\ MaxVersion > 0 /\ MaxRequestVersion \in Nat /\ MaxRequestVersion > 0
  <1>1. /\ MaxVersion \in Nat /\ MaxVersion > 0
        /\ MaxRequestVersion \in Nat /\ MaxRequestVersion > 0 /\ MaxQty \in Nat
    BY PurchasingAssumption DEF PurchasingAssumption
  <1>2. NoSug \in SugRow /\ NoPr \in PrRow /\ NoCall \in Call
    BY <1>1 DEF NoSug, SugRow, SugStatus, NoPr, PrRow, PrStatus, NoCall, Call, Version, RequestVersion
  <1> QED BY <1>1, <1>2 DEF NothingLoaded

LEMMA FlushedSug ==
    ASSUME NEW stored \in SugRow, NEW loaded \in SugRow, NEW dirty \in SugRow
    PROVE  /\ Flushed(stored, loaded, dirty) \in SugRow
           /\ stored = loaded => Flushed(stored, loaded, dirty) = dirty
  <1>1. Flushed(stored, loaded, dirty) =
           [status |-> Emit(stored.status, loaded.status, dirty.status),
            qty |-> Emit(stored.qty, loaded.qty, dirty.qty),
            open |-> Emit(stored.open, loaded.open, dirty.open),
            version |-> Emit(stored.version, loaded.version, dirty.version)]
    BY DEF Flushed, SugRow
  <1>2. dirty = [status |-> dirty.status, qty |-> dirty.qty, open |-> dirty.open,
                 version |-> dirty.version]
    BY DEF SugRow
  <1> QED BY <1>1, <1>2 DEF Emit, SugRow

LEMMA FlushedPr ==
    ASSUME NEW stored \in PrRow, NEW loaded \in PrRow, NEW dirty \in PrRow
    PROVE  /\ Flushed(stored, loaded, dirty) \in PrRow
           /\ stored = loaded => Flushed(stored, loaded, dirty) = dirty
  <1>1. Flushed(stored, loaded, dirty) =
           [status |-> Emit(stored.status, loaded.status, dirty.status),
            version |-> Emit(stored.version, loaded.version, dirty.version)]
    BY DEF Flushed, PrRow
  <1>2. dirty = [status |-> dirty.status, version |-> dirty.version]
    BY DEF PrRow
  <1> QED BY <1>1, <1>2 DEF Emit, PrRow


-----------------------------------------------------------------------------
(* Calls begin, go on and end *)

LEMMA StartIs ==
    ASSUME TypeOK, NEW c \in Clients, NEW call \in Call, NEW at \in {"check", "commit"},
           Start(c, call, at)
    PROVE  /\ pc[c] = "idle" /\ req' \in [Clients -> Call] /\ seenPr' \in [Clients -> PrRow]
           /\ pc' \in [Clients -> {"idle", "check", "commit"}]
           /\ seen' \in [Clients -> [Suggestions -> SugRow]]
           /\ req'[c] = call /\ pc'[c] = at
           /\ seenPr'[c] = IF call.pr = None THEN NoPr ELSE pr[call.pr]
           /\ \A s \in Suggestions : seen'[c][s] = IF s \in call.sugs THEN sug[s] ELSE NoSug
           /\ \A d \in Clients \ {c} : /\ req'[d] = req[d] /\ pc'[d] = pc[d]
                                       /\ seenPr'[d] = seenPr[d] /\ seen'[d] = seen[d]
           /\ call.op \in Apart => \A d \in Clients : req[d].op \notin Apart
           /\ UNCHANGED <<sug, pr, line, inbound>>
  <1> DEFINE loadedPr == IF call.pr = None THEN NoPr ELSE pr[call.pr]
             loaded == [s \in Suggestions |-> IF s \in call.sugs THEN sug[s] ELSE NoSug]
  <1>1. loadedPr \in PrRow
    BY RowTypes DEF TypeOK, Call
  <1>2. loaded \in [Suggestions -> SugRow]
    BY RowTypes DEF TypeOK
  <1>3. /\ req' = [req EXCEPT ![c] = call] /\ pc' = [pc EXCEPT ![c] = at]
        /\ seenPr' = [seenPr EXCEPT ![c] = loadedPr] /\ seen' = [seen EXCEPT ![c] = loaded]
        /\ pc[c] = "idle" /\ UNCHANGED <<sug, pr, line, inbound>>
        /\ call.op \in Apart => \A d \in Clients : req[d].op \notin Apart
    BY DEF Start
  <1>4. \A s \in Suggestions : loaded[s] = IF s \in call.sugs THEN sug[s] ELSE NoSug
    OBVIOUS
  <1> HIDE DEF loaded
  <1> QED BY <1>1, <1>2, <1>3, <1>4 DEF TypeOK

LEMMA FinishIs ==
    ASSUME TypeOK, NEW c \in Clients, Finish(c)
    PROVE  /\ req' \in [Clients -> Call] /\ seenPr' \in [Clients -> PrRow]
           /\ pc' \in [Clients -> {"idle", "check", "commit"}]
           /\ seen' \in [Clients -> [Suggestions -> SugRow]]
           /\ req'[c] = NoCall /\ pc'[c] = "idle" /\ seenPr'[c] = NoPr /\ seen'[c] = NothingLoaded
           /\ \A d \in Clients \ {c} : /\ req'[d] = req[d] /\ pc'[d] = pc[d]
                                       /\ seenPr'[d] = seenPr[d] /\ seen'[d] = seen[d]
  BY RowTypes DEF Finish, TypeOK

LEMMA StartKeeps ==
    ASSUME TypeInv, NEW c \in Clients, NEW call \in Call, NEW at \in {"check", "commit"},
           Start(c, call, at), call.op # "none",
           call.op \in {"draft", "direct", "edit", "submit", "approve", "reject",
                        "cancel", "order"} => call.pr \in Requests,
           call.op \in {"edit", "submit"} => pr[call.pr].version < MaxRequestVersion,
           call.op \in {"approve", "reject", "cancel"} => call.expected < MaxRequestVersion,
           call.op \in {"decide", "direct"} => \A s \in call.sugs : sug[s].version < MaxVersion,
           call.op = "submit" => call.sugs = {},
           call.op \in {"draft", "direct"} => \A s \in call.sugs : Ready(sug[s]),
           call.op = "decide" => <<call.to, call.qty>> \in Decisions
    PROVE  TypeInv'
  <1>1. /\ req' \in [Clients -> Call] /\ seenPr' \in [Clients -> PrRow]
        /\ pc' \in [Clients -> {"idle", "check", "commit"}]
        /\ seen' \in [Clients -> [Suggestions -> SugRow]]
        /\ req'[c] = call /\ pc'[c] = at
        /\ seenPr'[c] = IF call.pr = None THEN NoPr ELSE pr[call.pr]
        /\ \A s \in Suggestions : seen'[c][s] = IF s \in call.sugs THEN sug[s] ELSE NoSug
        /\ \A d \in Clients \ {c} : /\ req'[d] = req[d] /\ pc'[d] = pc[d]
                                    /\ seenPr'[d] = seenPr[d] /\ seen'[d] = seen[d]
        /\ UNCHANGED <<sug, pr, line, inbound>>
    BY StartIs DEF TypeInv
  <1>2. TypeOK'
    BY <1>1 DEF TypeInv, TypeOK
  <1>3. None \notin Requests /\ call.sugs \subseteq Suggestions
    BY PurchasingAssumption DEF PurchasingAssumption, Call
  <1>4. ASSUME NEW d \in Clients, d # c PROVE Holds(d)'
    BY <1>1, <1>4 DEF TypeInv, HoldsInv, Holds
  <1>5. Holds(c)'
    <2>1. NoSug.version < MaxVersion
      BY RowTypes DEF NoSug
    <2>2. call.op \in {"decide", "direct", "submit"} =>
             \A s \in Suggestions : seen'[c][s].version < MaxVersion
      BY <1>1, <2>1
    <2>3. call.op \in {"draft", "direct"} => \A s \in call.sugs : Ready(seen'[c][s])
      BY <1>1, <1>3
    <2>4. call.op \in {"edit", "submit"} => seenPr'[c].version < MaxRequestVersion
      BY <1>1, <1>3
    <2> QED BY <1>1, <2>2, <2>3, <2>4 DEF Holds
  <1>6. HoldsInv'
    BY <1>4, <1>5 DEF HoldsInv
  <1> QED BY <1>2, <1>6 DEF TypeInv

LEMMA FinishKeeps ==
    ASSUME TypeInv, NEW c \in Clients, Finish(c), sug' \in [Suggestions -> SugRow],
           pr' \in [Requests -> PrRow], line' \in [Suggestions -> Line \cup {None}],
           inbound' \in [Requests -> BOOLEAN]
    PROVE  TypeInv'
  <1>1. /\ req' \in [Clients -> Call] /\ seenPr' \in [Clients -> PrRow]
        /\ pc' \in [Clients -> {"idle", "check", "commit"}]
        /\ seen' \in [Clients -> [Suggestions -> SugRow]]
        /\ req'[c] = NoCall /\ pc'[c] = "idle" /\ seenPr'[c] = NoPr /\ seen'[c] = NothingLoaded
        /\ \A d \in Clients \ {c} : /\ req'[d] = req[d] /\ pc'[d] = pc[d]
                                    /\ seenPr'[d] = seenPr[d] /\ seen'[d] = seen[d]
    BY FinishIs DEF TypeInv
  <1>2. TypeOK'
    BY <1>1 DEF TypeOK
  <1>3. HoldsInv'
    BY <1>1 DEF TypeInv, HoldsInv, Holds, NoCall
  <1> QED BY <1>2, <1>3 DEF TypeInv

LEMMA ProceedKeeps ==
    ASSUME TypeInv, NEW c \in Clients, Proceed(c), pc[c] = "check",
           seen' \in [Clients -> [Suggestions -> SugRow]],
           \A d \in Clients : seen'[d] = seen[d] \/ d = c,
           req[c].op \in {"decide", "direct", "submit"} =>
              \A s \in Suggestions : seen'[c][s].version < MaxVersion,
           req[c].op \in {"draft", "direct"} => seen' = seen
    PROVE  TypeInv'
  <1>1. /\ pc' = [pc EXCEPT ![c] = "commit"] /\ UNCHANGED <<sug, pr, line, inbound, req, seenPr>>
    BY DEF Proceed
  <1>2. TypeOK'
    BY <1>1 DEF TypeInv, TypeOK
  <1>3. \A d \in Clients : (pc'[d] = "idle" <=> pc[d] = "idle") /\ (pc[d] = "idle" => d # c)
    BY <1>1 DEF TypeInv, TypeOK
  <1>4. HoldsInv'
    BY <1>1, <1>3 DEF TypeInv, HoldsInv, Holds
  <1> QED BY <1>2, <1>4 DEF TypeInv


(* What submitting makes of a suggestion, and withdrawing.                 *)
Taken(row) == [row EXCEPT !.status = "submitted", !.open = FALSE, !.version = @ + 1]
GivenBack(row) == [row EXCEPT !.status = "modified", !.open = FALSE, !.version = @ + 1]

LEMMA TakenTypes ==
    ASSUME NEW row \in SugRow, row.version < MaxVersion
    PROVE  /\ Taken(row) \in SugRow /\ GivenBack(row) \in SugRow
           /\ Taken(row).status = "submitted" /\ GivenBack(row).status = "modified"
           /\ ~Taken(row).open /\ ~GivenBack(row).open
           /\ Taken(row).qty = row.qty /\ GivenBack(row).qty = row.qty
           /\ Taken(row).version = row.version + 1 /\ GivenBack(row).version = row.version + 1
  <1>1. row.version \in Nat /\ row.version + 1 \in Version
    BY RowTypes DEF SugRow, Version
  <1> QED BY <1>1 DEF Taken, GivenBack, SugRow, SugStatus

LEMMA SubmittedTypes ==
    ASSUME TypeInv, NEW c \in Clients, req[c].op \in {"direct", "submit"}, NEW S \in SUBSET Suggestions
    PROVE  /\ Submitted(c, S) \in [Suggestions -> SugRow]
           /\ \A s \in Suggestions \ S : Submitted(c, S)[s] = sug[s]
           /\ \A s \in S : sug[s] = seen[c][s] => Submitted(c, S)[s] = Taken(sug[s])
  <1>1. ASSUME NEW s \in Suggestions
        PROVE  Taken(seen[c][s]) \in SugRow /\ seen[c][s] \in SugRow /\ sug[s] \in SugRow
    <2>1. seen[c][s] \in SugRow /\ sug[s] \in SugRow /\ seen[c][s].version < MaxVersion
      BY DEF TypeInv, TypeOK, HoldsInv, Holds
    <2> QED BY <2>1, TakenTypes
  <1>2. Submitted(c, S) = [s \in Suggestions |->
                             IF s \in S THEN Flushed(sug[s], seen[c][s], Taken(seen[c][s])) ELSE sug[s]]
    BY DEF Submitted, Taken
  <1>3. ASSUME NEW s \in Suggestions
        PROVE  /\ Flushed(sug[s], seen[c][s], Taken(seen[c][s])) \in SugRow
               /\ sug[s] = seen[c][s] => Flushed(sug[s], seen[c][s], Taken(seen[c][s])) = Taken(sug[s])
    <2>1. sug[s] = seen[c][s] => Taken(seen[c][s]) = Taken(sug[s])
      OBVIOUS
    <2> QED BY <1>1, <2>1, FlushedSug
  <1> QED BY <1>1, <1>2, <1>3

LEMMA TypeInit == Init => TypeInv
  <1> SUFFICES ASSUME Init PROVE TypeInv
    OBVIOUS
  <1>1. TypeOK
    BY RowTypes DEF Init, TypeOK
  <1>2. HoldsInv
    BY DEF Init, HoldsInv, Holds, NoCall
  <1> QED BY <1>1, <1>2 DEF TypeInv

LEMMA StartsKeep ==
    ASSUME TypeInv, NEW c \in Clients,
           \/ StartGenerate(c) \/ StartDecide(c) \/ StartDraft(c) \/ StartDirect(c)
           \/ StartEdit(c) \/ StartSubmit(c) \/ StartDecision(c) \/ StartOrder(c)
    PROVE  TypeInv'
  <1>1. NoCall \in Call /\ MaxRequestVersion \in Nat /\ MaxVersion \in Nat /\ MaxQty \in Nat
    BY RowTypes, PurchasingAssumption DEF PurchasingAssumption
  <1>2. CASE StartGenerate(c)
    <2>1. PICK s \in Suggestions : Start(c, [NoCall EXCEPT !.op = "generate", !.sugs = {s}], "commit")
      BY <1>2 DEF StartGenerate
    <2> DEFINE call == [NoCall EXCEPT !.op = "generate", !.sugs = {s}]
    <2>2. call \in Call /\ call.op = "generate"
      BY <1>1 DEF Call, Kinds
    <2> HIDE DEF call
    <2> QED BY <2>1, <2>2, StartKeeps DEF call
  <1>3. CASE StartDecide(c)
    <2>1. PICK s \in Suggestions, d \in Decisions :
             /\ sug[s].version < MaxVersion
             /\ Start(c, [NoCall EXCEPT !.op = "decide", !.sugs = {s}, !.to = d[1], !.qty = d[2]], "commit")
      BY <1>3 DEF StartDecide
    <2> DEFINE call == [NoCall EXCEPT !.op = "decide", !.sugs = {s}, !.to = d[1], !.qty = d[2]]
    <2>2. d[1] \in SugStatus /\ d[2] \in 0 .. MaxQty \cup {None} /\ d = <<d[1], d[2]>>
      BY PurchasingAssumption DEF Decisions, SugStatus, PurchasingAssumption
    <2>3. /\ call \in Call /\ call.op = "decide" /\ call.sugs = {s}
          /\ <<call.to, call.qty>> \in Decisions
      BY <1>1, <2>2 DEF Call, Kinds
    <2> HIDE DEF call
    <2>4. \A t \in call.sugs : sug[t].version < MaxVersion
      BY <2>1, <2>3
    <2> QED BY <2>1, <2>3, <2>4, StartKeeps DEF call
  <1>4. ASSUME NEW op \in {"draft", "direct"}, NEW at \in {"check", "commit"}, StartRequest(c, op, at)
        PROVE  TypeInv'
    <2>1. PICK p \in Requests, S \in SUBSET Suggestions :
             /\ \A s \in S : Ready(sug[s]) /\ sug[s].version < MaxVersion
             /\ Start(c, [NoCall EXCEPT !.op = op, !.pr = p, !.sugs = S], at)
      BY <1>4 DEF StartRequest
    <2> DEFINE call == [NoCall EXCEPT !.op = op, !.pr = p, !.sugs = S]
    <2>2. call \in Call /\ call.op = op /\ call.pr = p /\ call.sugs = S
      BY <1>1 DEF Call, Kinds
    <2> HIDE DEF call
    <2>3. call.op \in {"draft", "direct"} /\ Start(c, call, at)
      BY <2>1, <2>2 DEF call
    <2> QED BY <2>1, <2>2, <2>3, StartKeeps
  <1>5. ASSUME NEW op \in {"edit", "submit"}, NEW at \in {"check", "commit"}, StartOnDraft(c, op, at)
        PROVE  TypeInv'
    <2>1. PICK p \in Requests :
             /\ pr[p].version < MaxRequestVersion
             /\ Start(c, [NoCall EXCEPT !.op = op, !.pr = p], at)
      BY <1>5 DEF StartOnDraft
    <2> DEFINE call == [NoCall EXCEPT !.op = op, !.pr = p]
    <2>2. call \in Call /\ call.op = op /\ call.pr = p /\ call.sugs = {}
      BY <1>1 DEF Call, Kinds, NoCall
    <2> HIDE DEF call
    <2>3. call.op \in {"edit", "submit"} /\ Start(c, call, at)
      BY <2>1, <2>2 DEF call
    <2> QED BY <2>1, <2>2, <2>3, StartKeeps
  <1>6. CASE StartDecision(c)
    <2>1. PICK p \in Requests, op \in {"approve", "reject", "cancel"}, v \in 1 .. (MaxRequestVersion - 1) :
             Start(c, [NoCall EXCEPT !.op = op, !.pr = p, !.expected = v],
                   IF op = "cancel" THEN "check" ELSE "commit")
      BY <1>6 DEF StartDecision
    <2> DEFINE call == [NoCall EXCEPT !.op = op, !.pr = p, !.expected = v]
    <2>2. call \in Call /\ call.op = op /\ call.pr = p /\ call.expected < MaxRequestVersion
      <3>1. v \in RequestVersion /\ v < MaxRequestVersion
        BY <1>1 DEF RequestVersion
      <3>2. call \in Call /\ call.op = op /\ call.pr = p /\ call.expected = v
        BY <1>1, <3>1 DEF Call, Kinds
      <3> QED BY <3>1, <3>2
    <2> HIDE DEF call
    <2> DEFINE at == IF op = "cancel" THEN "check" ELSE "commit"
    <2>3. Start(c, call, at) /\ at \in {"check", "commit"}
      BY <2>1 DEF call
    <2> HIDE DEF at
    <2>4. call.op \in {"approve", "reject", "cancel"}
      BY <2>2
    <2> QED BY <2>2, <2>3, <2>4, StartKeeps
  <1>7. CASE StartOrder(c)
    <2>1. PICK p \in Requests : Start(c, [NoCall EXCEPT !.op = "order", !.pr = p], "check")
      BY <1>7 DEF StartOrder
    <2> DEFINE call == [NoCall EXCEPT !.op = "order", !.pr = p]
    <2>2. call \in Call /\ call.op = "order" /\ call.pr = p
      BY <1>1 DEF Call, Kinds
    <2> HIDE DEF call
    <2> QED BY <2>1, <2>2, StartKeeps DEF call
  <1> QED BY <1>2, <1>3, <1>4, <1>5, <1>6, <1>7 DEF StartDraft, StartDirect, StartEdit, StartSubmit


LEMMA CheckedKeep ==
    ASSUME TypeInv, NEW c \in Clients,
           CheckLinked(c) \/ CheckCurrent(c) \/ CheckInbound(c) \/ CheckOrdered(c)
    PROVE  TypeInv'
  <1>1. CASE CheckLinked(c) \/ CheckInbound(c) \/ CheckOrdered(c)
    <2>1. seen' = seen /\ Proceed(c) /\ pc[c] = "check"
      BY <1>1 DEF CheckLinked, CheckInbound, CheckOrdered, At
    <2>2. /\ seen' \in [Clients -> [Suggestions -> SugRow]]
          /\ req[c].op \in {"decide", "direct", "submit"} =>
                \A s \in Suggestions : seen'[c][s].version < MaxVersion
      BY <2>1 DEF TypeInv, TypeOK, HoldsInv, Holds
    <2> QED BY <2>1, <2>2, ProceedKeeps
  <1>2. CASE CheckCurrent(c)
    <2> DEFINE S == LinesOf(req[c].pr)
               loaded == [s \in Suggestions |-> IF s \in S THEN sug[s] ELSE NoSug]
    <2>1. /\ seen' = [seen EXCEPT ![c] = loaded] /\ Proceed(c) /\ pc[c] = "check"
          /\ req[c].op = "submit" /\ \A s \in S : sug[s].version < MaxVersion
      BY <1>2 DEF CheckCurrent, At
    <2>2. loaded \in [Suggestions -> SugRow] /\ \A s \in Suggestions : loaded[s].version < MaxVersion
      BY <2>1, RowTypes DEF TypeInv, TypeOK, NoSug
    <2> HIDE DEF loaded
    <2>3. /\ seen' \in [Clients -> [Suggestions -> SugRow]] /\ seen'[c] = loaded
          /\ \A d \in Clients : seen'[d] = seen[d] \/ d = c
      BY <2>1, <2>2 DEF TypeInv, TypeOK
    <2> QED BY <2>1, <2>2, <2>3, ProceedKeeps
  <1> QED BY <1>1, <1>2

(* What each commit writes.                                                *)
LEMMA GenerateWrites ==
    ASSUME TypeInv, NEW c \in Clients, Generate(c)
    PROVE  \E s \in req[c].sugs :
              LET row == [status |-> "suggested", qty |-> None, open |-> TRUE, version |-> 1] IN
              /\ At(c, "generate", "commit") /\ CanInsert(s) /\ s \in Suggestions /\ row \in SugRow
              /\ sug' = [sug EXCEPT ![s] = row] /\ sug' \in [Suggestions -> SugRow]
              /\ Finish(c) /\ UNCHANGED <<pr, line, inbound>>
  <1>1. [status |-> "suggested", qty |-> None, open |-> TRUE, version |-> 1] \in SugRow
    BY RowTypes DEF SugRow, SugStatus, Version
  <1>2. req[c].sugs \subseteq Suggestions
    BY DEF TypeInv, TypeOK, Call
  <1> QED BY <1>1, <1>2 DEF Generate, TypeInv, TypeOK

(* A suggestion as decided: when the row is still the one that was loaded. *)
Decided(call, row) ==
    [status |-> call.to, qty |-> call.qty, version |-> row.version + 1,
     open |-> row.open /\ call.to # "ignored"]

LEMMA DecideWrites ==
    ASSUME TypeInv, NEW c \in Clients, DecideSuggestion(c)
    PROVE  \E s \in req[c].sugs :
              /\ At(c, "decide", "commit") /\ s \in Suggestions
              /\ sug' \in [Suggestions -> SugRow]
              /\ sug[s] = seen[c][s] => sug'[s] = Decided(req[c], sug[s])
              /\ \A t \in Suggestions : t # s => sug'[t] = sug[t]
              /\ Finish(c) /\ UNCHANGED <<pr, line, inbound>>
  <1>1. PICK s \in req[c].sugs :
           /\ At(c, "decide", "commit")
           /\ sug' = [sug EXCEPT ![s] = Flushed(sug[s], seen[c][s], Decided(req[c], seen[c][s]))]
           /\ Finish(c) /\ UNCHANGED <<pr, line, inbound>>
    BY DEF DecideSuggestion, Decided
  <1>2. s \in Suggestions /\ sug[s] \in SugRow /\ seen[c][s] \in SugRow /\ seen[c][s].version < MaxVersion
    BY <1>1 DEF TypeInv, TypeOK, Call, HoldsInv, Holds, At
  <1>3. req[c].to \in SugStatus /\ req[c].qty \in 0 .. MaxQty \cup {None}
    BY <1>1 DEF TypeInv, TypeOK, Call, HoldsInv, Holds, At, Decisions, SugStatus
  <1> DEFINE now == Decided(req[c], seen[c][s])
  <1>4. now \in SugRow
    <2>1. seen[c][s].version + 1 \in Version /\ seen[c][s].open \in BOOLEAN
      BY <1>2, RowTypes DEF SugRow, Version
    <2> QED BY <1>3, <2>1 DEF Decided, SugRow
  <1> HIDE DEF now
  <1>5. /\ Flushed(sug[s], seen[c][s], now) \in SugRow
        /\ sug[s] = seen[c][s] => Flushed(sug[s], seen[c][s], now) = now
    BY <1>2, <1>4, FlushedSug
  <1>6. sug[s] = seen[c][s] => now = Decided(req[c], sug[s])
    BY DEF now
  <1> QED BY <1>1, <1>2, <1>5, <1>6 DEF TypeInv, TypeOK, now


LEMMA ReadyRow ==
    ASSUME NEW row \in SugRow, Ready(row)
    PROVE  row.qty \in 1 .. MaxQty /\ row.status \in {"confirmed", "modified"}
  BY PurchasingAssumption DEF Ready, SugRow, PurchasingAssumption

LEMMA CreateWrites ==
    ASSUME TypeInv, NEW c \in Clients, NEW to \in {"draft", "submitted"}, Create(c, to),
           req[c].op \in {"draft", "direct"}
    PROVE  /\ req[c].pr \in Requests /\ req[c].sugs \subseteq Suggestions /\ CanCreate(c)
           /\ pr' = [pr EXCEPT ![req[c].pr] = [status |-> to, version |-> 1]]
           /\ pr' \in [Requests -> PrRow] /\ line' \in [Suggestions -> Line \cup {None}]
           /\ \A s \in req[c].sugs : line'[s] = [pr |-> req[c].pr, qty |-> seen[c][s].qty,
                                                version |-> seen[c][s].version]
           /\ \A s \in Suggestions \ req[c].sugs : line'[s] = line[s]
           /\ Finish(c) /\ UNCHANGED inbound
  <1> DEFINE new(s) == [pr |-> req[c].pr, qty |-> seen[c][s].qty, version |-> seen[c][s].version]
  <1>1. req[c].pr \in Requests /\ req[c].sugs \subseteq Suggestions
    BY DEF TypeInv, TypeOK, Call, HoldsInv, Holds
  <1>2. [status |-> to, version |-> 1] \in PrRow
    BY RowTypes DEF PrRow, PrStatus, RequestVersion
  <1>3. ASSUME NEW s \in req[c].sugs PROVE new(s) \in Line
    <2>1. seen[c][s] \in SugRow /\ Ready(seen[c][s])
      BY <1>1 DEF TypeInv, TypeOK, HoldsInv, Holds
    <2>2. seen[c][s].qty \in 1 .. MaxQty /\ seen[c][s].version \in Version
      BY <2>1, ReadyRow DEF SugRow
    <2> QED BY <1>1, <2>2 DEF Line
  <1>4. /\ CanCreate(c) /\ pr' = [pr EXCEPT ![req[c].pr] = [status |-> to, version |-> 1]]
        /\ line' = [s \in Suggestions |-> IF s \in req[c].sugs THEN new(s) ELSE line[s]]
        /\ Finish(c) /\ UNCHANGED inbound
    BY DEF Create
  <1>5. pr' \in [Requests -> PrRow]
    BY <1>2, <1>4 DEF TypeInv, TypeOK
  <1>6. /\ line' \in [Suggestions -> Line \cup {None}]
        /\ \A s \in req[c].sugs : line'[s] = new(s)
        /\ \A s \in Suggestions \ req[c].sugs : line'[s] = line[s]
    <2> HIDE DEF new
    <2> QED BY <1>1, <1>3, <1>4 DEF TypeInv, TypeOK
  <1> QED BY <1>1, <1>4, <1>5, <1>6

(* A request as edited, and as submitted.                                  *)
Edited(row) == [row EXCEPT !.version = @ + 1]
Sent(row) == [row EXCEPT !.status = "submitted", !.version = @ + 1]

LEMMA EditedTypes ==
    ASSUME NEW row \in PrRow, row.version < MaxRequestVersion
    PROVE  /\ Edited(row) \in PrRow /\ Edited(row).status = row.status
           /\ Sent(row) \in PrRow /\ Sent(row).status = "submitted"
  <1>1. row.version \in Nat /\ row.version + 1 \in RequestVersion
    BY RowTypes DEF PrRow, RequestVersion
  <1> QED BY <1>1 DEF Edited, Sent, PrRow, PrStatus

LEMMA RequestWrites ==
    ASSUME TypeInv, NEW c \in Clients, EditDraft(c) \/ SubmitDraft(c)
    PROVE  /\ req[c].pr \in Requests /\ pr' \in [Requests -> PrRow]
           /\ sug' \in [Suggestions -> SugRow] /\ Finish(c) /\ UNCHANGED <<line, inbound>>
           /\ \A p \in Requests : p # req[c].pr => pr'[p] = pr[p]
           /\ pr[req[c].pr] = seenPr[c] =>
                 pr'[req[c].pr] = IF EditDraft(c) THEN Edited(seenPr[c]) ELSE Sent(seenPr[c])
  <1>1. /\ req[c].pr \in Requests /\ seenPr[c] \in PrRow /\ pr[req[c].pr] \in PrRow
        /\ seenPr[c].version < MaxRequestVersion
    BY DEF TypeInv, TypeOK, HoldsInv, Holds, EditDraft, SubmitDraft, At
  <1> DEFINE new == IF EditDraft(c) THEN Edited(seenPr[c]) ELSE Sent(seenPr[c])
  <1>2. new \in PrRow
    BY <1>1, EditedTypes
  <1>3. pr' = [pr EXCEPT ![req[c].pr] = Flushed(pr[req[c].pr], seenPr[c], new)]
    BY DEF EditDraft, SubmitDraft, Edited, Sent
  <1> HIDE DEF new
  <1>4. /\ Flushed(pr[req[c].pr], seenPr[c], new) \in PrRow
        /\ pr[req[c].pr] = seenPr[c] => Flushed(pr[req[c].pr], seenPr[c], new) = new
    BY <1>1, <1>2, FlushedPr
  <1>5. sug' \in [Suggestions -> SugRow] /\ Finish(c) /\ UNCHANGED <<line, inbound>>
    <2>1. CASE EditDraft(c)
      BY <2>1 DEF EditDraft, TypeInv, TypeOK
    <2>2. CASE SubmitDraft(c)
      <3>1. req[c].op = "submit" /\ sug' = Submitted(c, LinesOf(req[c].pr)) /\ Finish(c)
            /\ UNCHANGED <<line, inbound>>
        BY <2>2 DEF SubmitDraft, At
      <3>2. LinesOf(req[c].pr) \in SUBSET Suggestions
        BY DEF LinesOf
      <3> QED BY <3>1, <3>2, SubmittedTypes
    <2> QED BY <2>1, <2>2
  <1>6. pr' \in [Requests -> PrRow] /\ (\A p \in Requests : p # req[c].pr => pr'[p] = pr[p])
        /\ pr'[req[c].pr] = Flushed(pr[req[c].pr], seenPr[c], new)
    BY <1>1, <1>3, <1>4 DEF TypeInv, TypeOK
  <1>7. pr[req[c].pr] = seenPr[c] => pr'[req[c].pr] = new
    BY <1>4, <1>6
  <1> QED BY <1>1, <1>5, <1>6, <1>7 DEF new

LEMMA BecomeWrites ==
    ASSUME TypeInv, NEW c \in Clients, NEW op \in {"approve", "reject", "cancel"},
           NEW to \in PrStatus, Become(c, op, to)
    PROVE  /\ req[c].pr \in Requests /\ req[c].op = op /\ pc[c] = "commit" /\ Hit(c)
           /\ pr' \in [Requests -> PrRow] /\ pr'[req[c].pr].status = to
           /\ \A p \in Requests : p # req[c].pr => pr'[p] = pr[p]
           /\ Finish(c) /\ UNCHANGED <<line, inbound>>
  <1>1. /\ req[c].pr \in Requests /\ req[c].op = op /\ pc[c] = "commit" /\ Hit(c)
        /\ pr[req[c].pr] \in PrRow /\ pr[req[c].pr].version < MaxRequestVersion
    BY DEF TypeInv, TypeOK, HoldsInv, Holds, Become, At, Hit
  <1> DEFINE new == [status |-> to, version |-> pr[req[c].pr].version + 1]
  <1>2. new \in PrRow /\ new.status = to
    <2>1. pr[req[c].pr].version + 1 \in RequestVersion
      BY <1>1, RowTypes DEF PrRow, RequestVersion
    <2> QED BY <2>1 DEF PrRow
  <1>3. pr' = [pr EXCEPT ![req[c].pr] = new] /\ Finish(c) /\ UNCHANGED <<line, inbound>>
    BY DEF Become
  <1> HIDE DEF new
  <1>4. /\ pr' \in [Requests -> PrRow] /\ pr'[req[c].pr] = new
        /\ \A p \in Requests : p # req[c].pr => pr'[p] = pr[p]
    BY <1>1, <1>2, <1>3 DEF TypeInv, TypeOK
  <1> QED BY <1>1, <1>2, <1>3, <1>4

LEMMA CancelWrites ==
    ASSUME TypeInv, NEW c \in Clients, Cancel(c)
    PROVE  /\ sug' \in [Suggestions -> SugRow]
           /\ \A s \in LinesOf(req[c].pr) : /\ sug[s].version < MaxVersion
                                            /\ sug'[s] = GivenBack(sug[s])
           /\ \A s \in Suggestions \ LinesOf(req[c].pr) : sug'[s] = sug[s]
  <1> DEFINE S == LinesOf(req[c].pr)
  <1>1. /\ \A s \in S : sug[s].version < MaxVersion
        /\ sug' = [s \in Suggestions |-> IF s \in S THEN GivenBack(sug[s]) ELSE sug[s]]
    BY DEF Cancel, GivenBack
  <1>2. \A s \in S : s \in Suggestions /\ sug[s] \in SugRow /\ GivenBack(sug[s]) \in SugRow
    BY <1>1, TakenTypes DEF LinesOf, TypeInv, TypeOK
  <1> HIDE DEF S
  <1>3. sug' \in [Suggestions -> SugRow]
    BY <1>1, <1>2 DEF TypeInv, TypeOK
  <1>4. /\ \A s \in S : sug[s].version < MaxVersion /\ sug'[s] = GivenBack(sug[s])
        /\ \A s \in Suggestions \ S : sug'[s] = sug[s]
    BY <1>1, <1>2
  <1> QED BY <1>3, <1>4 DEF S

LEMMA OrderWrites ==
    ASSUME TypeInv, NEW c \in Clients, GenerateInbound(c)
    PROVE  /\ req[c].pr \in Requests /\ req[c].op = "order" /\ pc[c] = "commit"
           /\ inbound' \in [Requests -> BOOLEAN] /\ inbound'[req[c].pr]
           /\ ~inbound[req[c].pr]
           /\ \A p \in Requests : p # req[c].pr => inbound'[p] = inbound[p]
           /\ Finish(c) /\ UNCHANGED <<sug, pr, line>>
  <1>1. req[c].pr \in Requests /\ req[c].op = "order" /\ pc[c] = "commit"
    BY DEF TypeInv, HoldsInv, Holds, GenerateInbound, At
  <1> QED BY <1>1 DEF TypeInv, TypeOK, GenerateInbound

-----------------------------------------------------------------------------
(* The type invariant *)

LEMMA TypeStep == TypeInv /\ [Next]_vars => TypeInv'
  <1> SUFFICES ASSUME TypeInv, [Next]_vars PROVE TypeInv'
    OBVIOUS
  <1>1. CASE UNCHANGED vars
    BY <1>1 DEF vars, callVars, TypeInv, TypeOK, HoldsInv, Holds
  <1>2. ASSUME NEW c \in Clients, Handle(c) PROVE TypeInv'
    <2>1. CASE \/ StartGenerate(c) \/ StartDecide(c) \/ StartDraft(c) \/ StartDirect(c)
               \/ StartEdit(c) \/ StartSubmit(c) \/ StartDecision(c) \/ StartOrder(c)
      BY <2>1, StartsKeep
    <2>2. CASE CheckLinked(c) \/ CheckCurrent(c) \/ CheckInbound(c) \/ CheckOrdered(c)
      BY <2>2, CheckedKeep
    <2>3. CASE Generate(c)
      BY <2>3, GenerateWrites, FinishKeeps DEF TypeInv, TypeOK
    <2>4. CASE DecideSuggestion(c)
      BY <2>4, DecideWrites, FinishKeeps DEF TypeInv, TypeOK
    <2>5. CASE CreateDraft(c)
      <3>1. req[c].op = "draft" /\ Create(c, "draft") /\ sug' = sug
        BY <2>5 DEF CreateDraft, At
      <3> QED BY <3>1, CreateWrites, FinishKeeps DEF TypeInv, TypeOK
    <2>6. CASE SubmitDirect(c)
      <3>1. /\ req[c].op = "direct" /\ Create(c, "submitted") /\ sug' = Submitted(c, req[c].sugs)
            /\ req[c].sugs \in SUBSET Suggestions
        BY <2>6 DEF SubmitDirect, At, TypeInv, TypeOK, Call
      <3>2. sug' \in [Suggestions -> SugRow]
        BY <3>1, SubmittedTypes
      <3> QED BY <3>1, <3>2, CreateWrites, FinishKeeps DEF TypeInv, TypeOK
    <2>7. CASE EditDraft(c) \/ SubmitDraft(c)
      BY <2>7, RequestWrites, FinishKeeps DEF TypeInv, TypeOK
    <2>8. CASE Approve(c) \/ Reject(c)
      <3>1. sug' = sug /\ \E op \in {"approve", "reject", "cancel"}, to \in PrStatus : Become(c, op, to)
        BY <2>8 DEF Approve, Reject, PrStatus
      <3> QED BY <3>1, BecomeWrites, FinishKeeps DEF TypeInv, TypeOK
    <2>9. CASE Cancel(c)
      <3>1. Become(c, "cancel", "cancelled") /\ "cancelled" \in PrStatus
        BY <2>9 DEF Cancel, PrStatus
      <3> QED BY <2>9, <3>1, BecomeWrites, CancelWrites, FinishKeeps DEF TypeInv, TypeOK
    <2>10. CASE GenerateInbound(c)
      BY <2>10, OrderWrites, FinishKeeps DEF TypeInv, TypeOK
    <2>11. CASE Refused(c)
      BY <2>11, FinishKeeps DEF Refused, TypeInv, TypeOK
    <2> QED BY <1>2, <2>1, <2>2, <2>3, <2>4, <2>5, <2>6, <2>7, <2>8, <2>9, <2>10, <2>11 DEF Handle
  <1> QED BY <1>1, <1>2 DEF Next

(* Every reachable state is well typed, whatever calls overlap.            *)
THEOREM TypesHold == Spec => []TypeOK
  <1>1. Spec => []TypeInv
    BY TypeInit, TypeStep, PTL DEF Spec
  <1> QED BY <1>1, PTL DEF TypeInv

-----------------------------------------------------------------------------
(* The invariant *)

(* Calls of Apart are made one at a time.                                  *)
OneApart == \A c, d \in Clients : req[c].op \in Apart /\ req[d].op \in Apart => c = d

(* A line was made from a version of its suggestion, and has the quantity  *)
(* that version was decided to be.                                         *)
RowInv ==
    \A s \in Suggestions :
        /\ sug[s].status = "absent" => sug[s] = NoSug
        /\ sug[s].status # "absent" => sug[s].version >= 1
        /\ line[s] # None =>
              /\ pr[line[s].pr].status # "absent"
              /\ line[s].version >= 1 /\ line[s].version <= sug[s].version
              /\ line[s].version = sug[s].version => line[s].qty = sug[s].qty

OrderedInv == \A p \in Requests : inbound[p] => pr[p].status = "approved"

(* What a call in progress can still rely on: a draft may be behind the    *)
(* suggestions it loaded, and then its lines are; the unguarded ones are   *)
(* not behind what they loaded.                                            *)
Relies(c) ==
    LET op == req[c].op  p == req[c].pr  S == req[c].sugs IN
    /\ op \in {"draft", "direct"} => S # {}
    /\ op = "draft" =>
          \A s \in S : /\ seen[c][s].version >= 1 /\ seen[c][s].version <= sug[s].version
                       /\ seen[c][s].version = sug[s].version => seen[c][s] = sug[s]
    /\ op \in {"decide", "direct"} => \A s \in S : seen[c][s] = sug[s]
    /\ op = "decide" => \A s \in S : sug[s].status \in {"suggested", "modified"}
    /\ op \in {"edit", "submit"} => seenPr[c] = pr[p] /\ pr[p].status = "draft"
    /\ op = "submit" /\ pc[c] = "commit" =>
          \A s \in LinesOf(p) : seen[c][s] = sug[s] /\ Current(s)
    /\ op = "cancel" /\ (pc[c] = "commit" \/ seenPr[c].status # "approved") => ~inbound[p]
    /\ op = "order" => pr[p].status = "approved"

ReliesInv == \A c \in Clients : Relies(c)

PurchasingInv ==
    /\ TypeInv /\ OneApart /\ RowInv /\ OrderedInv /\ SubmittedAgree /\ OneOpenPerSku
    /\ ReliesInv

LEMMA InvInit == Init => PurchasingInv
  <1> SUFFICES ASSUME Init PROVE PurchasingInv
    OBVIOUS
  <1>1. TypeInv
    BY TypeInit
  <1>2. OneApart
    BY PurchasingAssumption DEF Init, OneApart, NoCall, PurchasingAssumption, Kinds
  <1>3. RowInv /\ OrderedInv /\ SubmittedAgree /\ OneOpenPerSku
    BY DEF Init, RowInv, OrderedInv, SubmittedAgree, OneOpenPerSku, NoSug
  <1>4. ReliesInv
    BY DEF Init, ReliesInv, Relies, NoCall
  <1> QED BY <1>1, <1>2, <1>3, <1>4 DEF PurchasingInv

(* Nothing another call may do disturbs what a call relies on.             *)
LEMMA OthersRely ==
    ASSUME PurchasingInv, TypeOK', Unguarded \subseteq Apart, NEW c \in Clients,
           NEW d \in Clients, d # c,
           req'[d] = req[d], pc'[d] = pc[d], seenPr'[d] = seenPr[d], seen'[d] = seen[d],
           \A s \in Suggestions : \/ sug'[s] = sug[s] \/ sug[s].status = "absent"
                                  \/ req[c].op \in Unguarded /\ sug'[s].version > sug[s].version,
           \A p \in Requests : \/ pr'[p] = pr[p] \/ pr[p].status \in {"absent", "submitted"}
                               \/ req[c].op \in Unguarded,
           \A s \in Suggestions : \/ line'[s] = line[s]
                                  \/ line[s] = None /\ pr[line'[s].pr].status = "absent",
           \A p \in Requests : inbound'[p] = inbound[p] \/ req[c].op \in Unguarded
    PROVE  Relies(d)'
  <1>1. /\ req[d].sugs \subseteq Suggestions /\ Holds(d) /\ Relies(d) /\ RowInv
    BY DEF PurchasingInv, TypeInv, TypeOK, Call, HoldsInv, ReliesInv
  <1>2. req[d].op \in Unguarded => req[c].op \notin Unguarded
    BY DEF PurchasingInv, OneApart
  <1>3. ASSUME req[d].op \in {"edit", "submit", "cancel", "order"} PROVE req[d].pr \in Requests
    BY <1>1, <1>3 DEF Holds
  <1>4. CASE req[d].op = "draft"
    <2>1. ASSUME NEW s \in req[d].sugs
          PROVE  /\ seen[d][s].version >= 1 /\ seen[d][s].version <= sug'[s].version
                 /\ seen[d][s].version = sug'[s].version => seen[d][s] = sug'[s]
      <3>1. /\ s \in Suggestions /\ seen[d][s].version \in Nat
            /\ sug[s].version \in Nat /\ sug'[s].version \in Nat
        BY <1>1, RowTypes DEF PurchasingInv, TypeInv, TypeOK, SugRow, Version
      <3>2. /\ seen[d][s].version >= 1 /\ seen[d][s].version <= sug[s].version
            /\ seen[d][s].version = sug[s].version => seen[d][s] = sug[s]
        BY <1>1, <1>4 DEF Relies
      <3>3. sug[s].status # "absent"
        BY <1>1, <3>1, <3>2 DEF RowInv, NoSug
      <3>4. sug'[s] = sug[s] \/ sug'[s].version > sug[s].version
        BY <3>1, <3>3
      <3> QED BY <3>1, <3>2, <3>4
    <2>2. req[d].sugs # {}
      BY <1>1, <1>4 DEF Relies
    <2> QED BY <1>4, <2>1, <2>2 DEF Relies
  <1>5. ASSUME req[d].op \in Unguarded
        PROVE  /\ \A s \in Suggestions : sug[s].status # "absent" => sug'[s] = sug[s]
               /\ \A p \in Requests : pr[p].status \notin {"absent", "submitted"} => pr'[p] = pr[p]
               /\ \A p \in Requests : inbound'[p] = inbound[p]
    BY <1>2, <1>5
  <1>6. CASE req[d].op \in {"decide", "direct"}
    <2>1. \A s \in req[d].sugs : seen[d][s] = sug[s] /\ sug[s].status # "absent" /\ s \in Suggestions
      BY <1>1, <1>6 DEF Relies, Holds, Ready
    <2>2. \A s \in req[d].sugs : sug'[s] = sug[s]
      BY <1>5, <1>6, <2>1 DEF Unguarded
    <2> QED BY <1>1, <1>6, <2>2 DEF Relies
  <1>7. CASE req[d].op \in {"edit", "submit"}
    <2> DEFINE p == req[d].pr
    <2>1. p \in Requests /\ seenPr[d] = pr[p] /\ pr[p].status = "draft" /\ pr'[p] = pr[p]
      BY <1>1, <1>3, <1>5, <1>7 DEF Relies, Unguarded
    <2>2. ASSUME req[d].op = "submit", pc[d] = "commit", NEW s \in LinesOf(p)'
          PROVE  seen[d][s] = sug'[s] /\ Current(s)'
      <3>1. s \in Suggestions /\ line'[s] # None /\ line'[s].pr = p
        BY DEF LinesOf
      <3>2. line'[s] = line[s]
        BY <2>1, <3>1
      <3>3. s \in LinesOf(p)
        BY <3>1, <3>2 DEF LinesOf
      <3>4. seen[d][s] = sug[s] /\ Current(s)
        BY <1>1, <2>2, <3>3 DEF Relies
      <3>5. sug'[s] = sug[s]
        BY <1>5, <1>7, <3>1, <3>4 DEF Current, Unguarded
      <3> QED BY <3>2, <3>4, <3>5 DEF Current
    <2> HIDE DEF p
    <2>3. Relies(d)'
      BY <1>7, <2>1, <2>2 DEF Relies, p
    <2> QED BY <2>3
  <1>8. CASE req[d].op = "cancel"
    <2>1. inbound'[req[d].pr] = inbound[req[d].pr]
      BY <1>3, <1>5, <1>8 DEF Unguarded
    <2> QED BY <1>1, <1>8, <2>1 DEF Relies
  <1>9. CASE req[d].op = "order"
    <2>1. pr'[req[d].pr] = pr[req[d].pr]
      BY <1>1, <1>3, <1>5, <1>9 DEF Relies, Unguarded
    <2> QED BY <1>1, <1>9, <2>1 DEF Relies
  <1>10. CASE req[d].op \notin {"draft", "decide", "direct", "edit", "submit", "cancel", "order"}
    BY <1>10 DEF Relies
  <1> QED BY <1>4, <1>6, <1>7, <1>8, <1>9, <1>10

LEMMA FinishApart ==
    ASSUME PurchasingInv, TypeInv', NEW c \in Clients, Finish(c)
    PROVE  /\ OneApart' /\ Relies(c)'
           /\ \A d \in Clients \ {c} : /\ req'[d] = req[d] /\ pc'[d] = pc[d]
                                       /\ seenPr'[d] = seenPr[d] /\ seen'[d] = seen[d]
  <1>1. /\ req'[c] = NoCall
        /\ \A d \in Clients \ {c} : /\ req'[d] = req[d] /\ pc'[d] = pc[d]
                                    /\ seenPr'[d] = seenPr[d] /\ seen'[d] = seen[d]
    BY FinishIs DEF PurchasingInv, TypeInv
  <1>2. NoCall.op \notin Apart /\ NoCall.op = "none"
    BY PurchasingAssumption DEF PurchasingAssumption, NoCall, Kinds
  <1>3. OneApart'
    BY <1>1, <1>2 DEF PurchasingInv, OneApart
  <1>4. Relies(c)'
    BY <1>1, <1>2 DEF Relies
  <1> QED BY <1>1, <1>3, <1>4

(* Starting a call writes no row.                                          *)
LEMMA StartsRely ==
    ASSUME PurchasingInv, TypeInv', Unguarded \subseteq Apart, NEW c \in Clients, NEW call \in Call,
           NEW at \in {"check", "commit"}, Start(c, call, at),
           call.op \in {"draft", "direct"} =>
              call.sugs # {} /\ \A s \in call.sugs : sug[s].status # "absent",
           call.op = "decide" => \A s \in call.sugs : sug[s].status \in {"suggested", "modified"},
           call.op \in {"edit", "submit"} => call.pr # None /\ pr[call.pr].status = "draft",
           call.op \in {"submit", "cancel"} => at = "check",
           call.op = "cancel" => call.pr \in Requests,
           call.op = "order" => pr[call.pr].status = "approved"
    PROVE  PurchasingInv'
  <1>1. /\ pc[c] = "idle" /\ req'[c] = call /\ pc'[c] = at
        /\ seenPr'[c] = IF call.pr = None THEN NoPr ELSE pr[call.pr]
        /\ \A s \in Suggestions : seen'[c][s] = IF s \in call.sugs THEN sug[s] ELSE NoSug
        /\ \A d \in Clients \ {c} : /\ req'[d] = req[d] /\ pc'[d] = pc[d]
                                    /\ seenPr'[d] = seenPr[d] /\ seen'[d] = seen[d]
        /\ call.op \in Apart => \A d \in Clients : req[d].op \notin Apart
        /\ UNCHANGED <<sug, pr, line, inbound>>
    BY StartIs DEF PurchasingInv, TypeInv
  <1>2. RowInv' /\ OrderedInv' /\ SubmittedAgree' /\ OneOpenPerSku'
    BY <1>1 DEF PurchasingInv, RowInv, OrderedInv, SubmittedAgree, OneOpenPerSku
  <1>3. OneApart'
    BY <1>1 DEF PurchasingInv, OneApart
  <1>4. \A d \in Clients : d # c => Relies(d)'
    BY <1>1, OthersRely DEF TypeInv
  <1>5. Relies(c)'
    <2>1. call.sugs \subseteq Suggestions /\ None \notin Requests
      BY PurchasingAssumption DEF Call, PurchasingAssumption
    <2>2. \A s \in call.sugs : seen'[c][s] = sug[s]
      BY <1>1, <2>1
    <2>3. ASSUME call.op = "draft", NEW s \in call.sugs
          PROVE  sug[s].version >= 1 /\ sug[s].version <= sug[s].version
      <3>1. s \in Suggestions /\ sug[s].version \in Nat
        BY <2>1 DEF PurchasingInv, TypeInv, TypeOK, SugRow, Version
      <3> QED BY <2>3, <3>1 DEF PurchasingInv, RowInv
    <2>4. ASSUME call.op = "cancel", seenPr'[c].status # "approved" PROVE ~inbound[call.pr]
      BY <1>1, <2>1, <2>4 DEF PurchasingInv, OrderedInv
    <2> QED BY <1>1, <2>2, <2>3, <2>4 DEF Relies
  <1> QED BY <1>2, <1>3, <1>4, <1>5 DEF PurchasingInv, ReliesInv

(* Nor does going on, or being refused.                                    *)
LEMMA RefusedRely ==
    ASSUME PurchasingInv, TypeInv', Unguarded \subseteq Apart, NEW c \in Clients, Refused(c)
    PROVE  PurchasingInv'
  <1>1. Finish(c) /\ UNCHANGED <<sug, pr, line, inbound>>
    BY DEF Refused
  <1>2. RowInv' /\ OrderedInv' /\ SubmittedAgree' /\ OneOpenPerSku'
    BY <1>1 DEF PurchasingInv, RowInv, OrderedInv, SubmittedAgree, OneOpenPerSku
  <1>3. \A d \in Clients : d # c => Relies(d)'
    BY <1>1, OthersRely, FinishApart DEF TypeInv
  <1> QED BY <1>1, <1>2, <1>3, FinishApart DEF PurchasingInv, ReliesInv

LEMMA ChecksRely ==
    ASSUME PurchasingInv, TypeInv', Unguarded \subseteq Apart, NEW c \in Clients,
           CheckLinked(c) \/ CheckCurrent(c) \/ CheckInbound(c) \/ CheckOrdered(c)
    PROVE  PurchasingInv'
  <1>1. /\ UNCHANGED <<sug, pr, line, inbound, req, seenPr>> /\ Proceed(c) /\ pc'[c] = "commit"
        /\ \A d \in Clients \ {c} : pc'[d] = pc[d]
    BY DEF CheckLinked, CheckCurrent, CheckInbound, CheckOrdered, Proceed, PurchasingInv, TypeInv, TypeOK
  <1>2. \A d \in Clients \ {c} : seen'[d] = seen[d]
    BY DEF CheckLinked, CheckCurrent, CheckInbound, CheckOrdered, PurchasingInv, TypeInv, TypeOK
  <1>3. RowInv' /\ OrderedInv' /\ SubmittedAgree' /\ OneOpenPerSku' /\ OneApart'
    BY <1>1 DEF PurchasingInv, RowInv, OrderedInv, SubmittedAgree, OneOpenPerSku, OneApart
  <1>4. \A d \in Clients : d # c => Relies(d)'
    BY <1>1, <1>2, OthersRely DEF TypeInv
  <1>5. Relies(c)'
    <2>1. CASE CheckLinked(c) \/ CheckOrdered(c)
      BY <1>1, <2>1 DEF CheckLinked, CheckOrdered, At, PurchasingInv, ReliesInv, Relies
    <2>2. CASE CheckInbound(c)
      BY <1>1, <2>2 DEF CheckInbound, At, MayCancel, PurchasingInv, ReliesInv, Relies
    <2>3. CASE CheckCurrent(c)
      <3>1. /\ req[c].op = "submit" /\ \A s \in LinesOf(req[c].pr) : Current(s)
            /\ \A s \in LinesOf(req[c].pr) : seen'[c][s] = sug[s]
        BY <2>3 DEF CheckCurrent, At, LinesOf, PurchasingInv, TypeInv, TypeOK
      <3>2. /\ LinesOf(req[c].pr)' = LinesOf(req[c].pr)
            /\ \A s \in Suggestions : Current(s)' = Current(s)
        BY <1>1 DEF LinesOf, Current
      <3>3. \A s \in LinesOf(req[c].pr) : s \in Suggestions
        BY DEF LinesOf
      <3> QED BY <1>1, <3>1, <3>2, <3>3 DEF PurchasingInv, ReliesInv, Relies
    <2> QED BY <2>1, <2>2, <2>3
  <1> QED BY <1>3, <1>4, <1>5 DEF PurchasingInv, ReliesInv

-----------------------------------------------------------------------------
(* Commits *)

LEMMA CommitRely ==
    ASSUME PurchasingInv, TypeInv', Unguarded \subseteq Apart, NEW c \in Clients, Finish(c),
           \A s \in Suggestions : \/ sug'[s] = sug[s] \/ sug[s].status = "absent"
                                  \/ req[c].op \in Unguarded /\ sug'[s].version > sug[s].version,
           \A p \in Requests : \/ pr'[p] = pr[p] \/ pr[p].status \in {"absent", "submitted"}
                               \/ req[c].op \in Unguarded,
           \A s \in Suggestions : \/ line'[s] = line[s]
                                  \/ line[s] = None /\ pr[line'[s].pr].status = "absent",
           \A p \in Requests : inbound'[p] = inbound[p] \/ req[c].op \in Unguarded,
           RowInv', OrderedInv', SubmittedAgree', OneOpenPerSku'
    PROVE  PurchasingInv'
  <1>1. \A d \in Clients : d # c => Relies(d)'
    BY OthersRely, FinishApart DEF TypeInv
  <1> QED BY <1>1, FinishApart DEF PurchasingInv, ReliesInv

LEMMA GenerateKeeps ==
    ASSUME PurchasingInv, TypeInv', Unguarded \subseteq Apart, NEW c \in Clients, Generate(c)
    PROVE  PurchasingInv'
  <1>1. PICK s \in Suggestions :
           LET row == [status |-> "suggested", qty |-> None, open |-> TRUE, version |-> 1] IN
           /\ CanInsert(s) /\ sug' = [sug EXCEPT ![s] = row]
           /\ Finish(c) /\ UNCHANGED <<pr, line, inbound>>
    BY GenerateWrites DEF PurchasingInv
  <1>2. /\ sug[s].status = "absent" /\ ~SlotTaken(s)
        /\ sug'[s].status = "suggested" /\ sug'[s].version = 1
        /\ \A t \in Suggestions : t # s => sug'[t] = sug[t]
    BY <1>1 DEF CanInsert, PurchasingInv, TypeInv, TypeOK
  <1>3. line[s] = None
    <2>1. sug[s].version = 0
      BY <1>2 DEF PurchasingInv, RowInv, NoSug
    <2>2. line[s] # None => line[s].version \in Nat
      BY RowTypes DEF PurchasingInv, TypeInv, TypeOK, Line, Version
    <2> QED BY <2>1, <2>2 DEF PurchasingInv, RowInv
  <1>4. RowInv' /\ OrderedInv' /\ SubmittedAgree'
    BY <1>1, <1>2, <1>3 DEF PurchasingInv, RowInv, OrderedInv, SubmittedAgree
  <1>5. OneOpenPerSku'
    BY <1>2 DEF PurchasingInv, OneOpenPerSku, SlotTaken
  <1> QED BY <1>1, <1>2, <1>4, <1>5, CommitRely

LEMMA DecidedRow ==
    ASSUME NEW call \in Call, <<call.to, call.qty>> \in Decisions, NEW row \in SugRow
    PROVE  /\ Decided(call, row).status \in {"confirmed", "modified", "ignored"}
           /\ Decided(call, row).version = row.version + 1
           /\ Decided(call, row).open <=> row.open /\ Decided(call, row).status # "ignored"
  BY DEF Decided, Decisions, SugRow

LEMMA DecideIs ==
    ASSUME PurchasingInv, NEW c \in Clients, DecideSuggestion(c)
    PROVE  \E s \in Suggestions :
              /\ sug[s].status \in {"suggested", "modified"}
              /\ sug'[s].status \in {"confirmed", "modified", "ignored"}
              /\ sug'[s].version = sug[s].version + 1
              /\ sug'[s].open <=> sug[s].open /\ sug'[s].status # "ignored"
              /\ \A t \in Suggestions : t # s => sug'[t] = sug[t]
              /\ req[c].op = "decide" /\ Finish(c) /\ UNCHANGED <<pr, line, inbound>>
  <1>1. PICK s \in req[c].sugs :
           /\ At(c, "decide", "commit") /\ s \in Suggestions
           /\ sug[s] = seen[c][s] => sug'[s] = Decided(req[c], sug[s])
           /\ \A t \in Suggestions : t # s => sug'[t] = sug[t]
           /\ Finish(c) /\ UNCHANGED <<pr, line, inbound>>
    BY DecideWrites DEF PurchasingInv
  <1>2. /\ sug[s] = seen[c][s] /\ sug[s].status \in {"suggested", "modified"}
        /\ <<req[c].to, req[c].qty>> \in Decisions /\ req[c] \in Call /\ sug[s] \in SugRow
    BY <1>1 DEF At, PurchasingInv, ReliesInv, Relies, TypeInv, TypeOK, HoldsInv, Holds
  <1>3. sug'[s] = Decided(req[c], sug[s])
    BY <1>1, <1>2
  <1> QED BY <1>1, <1>2, <1>3, DecidedRow DEF At

LEMMA DecideKeeps ==
    ASSUME PurchasingInv, TypeInv', Unguarded \subseteq Apart, NEW c \in Clients, DecideSuggestion(c)
    PROVE  PurchasingInv'
  <1>1. PICK s \in Suggestions :
           /\ sug[s].status \in {"suggested", "modified"}
           /\ sug'[s].status \in {"confirmed", "modified", "ignored"}
           /\ sug'[s].version = sug[s].version + 1
           /\ sug'[s].open <=> sug[s].open /\ sug'[s].status # "ignored"
           /\ \A t \in Suggestions : t # s => sug'[t] = sug[t]
           /\ req[c].op = "decide" /\ Finish(c) /\ UNCHANGED <<pr, line, inbound>>
    BY DecideIs
  <1>2. sug[s].version \in Nat
    BY RowTypes DEF PurchasingInv, TypeInv, TypeOK, SugRow, Version
  <1>3. sug'[s].version > sug[s].version /\ req[c].op \in Unguarded
    BY <1>1, <1>2 DEF Unguarded
  <1>4. RowInv'
    <2>1. ASSUME line[s] # None PROVE line[s].version \in Nat
      BY <2>1, RowTypes DEF PurchasingInv, TypeInv, TypeOK, Line, Version
    <2> QED BY <1>1, <1>2, <2>1 DEF PurchasingInv, RowInv
  <1>5. OrderedInv' /\ SubmittedAgree'
    BY <1>1 DEF PurchasingInv, OrderedInv, SubmittedAgree
  <1>6. OneOpenPerSku'
    BY <1>1 DEF PurchasingInv, OneOpenPerSku
  <1> QED BY <1>1, <1>3, <1>4, <1>5, <1>6, CommitRely

(* The lines of a new request are the only ones that name it.              *)
LEMMA CreateIs ==
    ASSUME PurchasingInv, NEW c \in Clients, NEW to \in {"draft", "submitted"}, Create(c, to),
           req[c].op \in {"draft", "direct"}
    PROVE  /\ req[c].pr \in Requests /\ req[c].sugs \subseteq Suggestions /\ req[c].sugs # {}
           /\ pr[req[c].pr].status = "absent" /\ pr'[req[c].pr].status = to
           /\ \A p \in Requests : p # req[c].pr => pr'[p] = pr[p]
           /\ \A s \in req[c].sugs : /\ line[s] = None /\ line'[s] # None
                                     /\ line'[s].pr = req[c].pr /\ line'[s].qty = seen[c][s].qty
                                     /\ line'[s].version = seen[c][s].version
           /\ \A s \in Suggestions \ req[c].sugs :
                 line'[s] = line[s] /\ (line[s] # None => line[s].pr \in Requests \ {req[c].pr})
           /\ Finish(c) /\ UNCHANGED inbound
  <1>1. /\ req[c].pr \in Requests /\ req[c].sugs \subseteq Suggestions /\ CanCreate(c)
        /\ pr' = [pr EXCEPT ![req[c].pr] = [status |-> to, version |-> 1]]
        /\ \A s \in req[c].sugs : line'[s] = [pr |-> req[c].pr, qty |-> seen[c][s].qty,
                                             version |-> seen[c][s].version]
        /\ \A s \in Suggestions \ req[c].sugs : line'[s] = line[s]
        /\ Finish(c) /\ UNCHANGED inbound /\ line' \in [Suggestions -> Line \cup {None}]
    BY CreateWrites DEF PurchasingInv
  <1>2. /\ pr[req[c].pr].status = "absent" /\ pr'[req[c].pr].status = to
        /\ \A p \in Requests : p # req[c].pr => pr'[p] = pr[p]
    BY <1>1 DEF CanCreate, PurchasingInv, TypeInv, TypeOK
  <1>3. ASSUME NEW s \in req[c].sugs
        PROVE  /\ line[s] = None /\ line'[s] # None
               /\ line'[s].pr = req[c].pr /\ line'[s].qty = seen[c][s].qty
               /\ line'[s].version = seen[c][s].version
    <2>1. line[s] = None
      BY <1>1 DEF CanCreate
    <2>2. /\ seen[c][s] \in SugRow /\ Ready(seen[c][s]) /\ s \in Suggestions
      BY <1>1 DEF PurchasingInv, TypeInv, TypeOK, HoldsInv, Holds
    <2>3. line'[s] = [pr |-> req[c].pr, qty |-> seen[c][s].qty, version |-> seen[c][s].version]
      BY <1>1
    <2>4. seen[c][s].qty \in 1 .. MaxQty /\ seen[c][s].version \in Version
      BY <2>2, ReadyRow DEF SugRow
    <2>5. line'[s] \in Line
      BY <1>1, <2>3, <2>4 DEF Line
    <2>6. line'[s] # None
      BY <2>5, PurchasingAssumption DEF PurchasingAssumption
    <2> QED BY <2>1, <2>3, <2>6
  <1>4. ASSUME NEW s \in Suggestions \ req[c].sugs, line[s] # None
        PROVE  line[s].pr \in Requests \ {req[c].pr}
    <2>1. line[s].pr \in Requests
      BY <1>4 DEF PurchasingInv, TypeInv, TypeOK, Line
    <2> QED BY <1>2, <1>4, <2>1 DEF PurchasingInv, RowInv
  <1>5. req[c].sugs # {}
    BY DEF PurchasingInv, ReliesInv, Relies
  <1> QED BY <1>1, <1>2, <1>3, <1>4, <1>5

LEMMA CreateDraftKeeps ==
    ASSUME PurchasingInv, TypeInv', Unguarded \subseteq Apart, NEW c \in Clients, CreateDraft(c)
    PROVE  PurchasingInv'
  <1> DEFINE p == req[c].pr  S == req[c].sugs
  <1>1. req[c].op = "draft" /\ Create(c, "draft") /\ sug' = sug
    BY DEF CreateDraft, At
  <1>2. /\ p \in Requests /\ S \subseteq Suggestions /\ S # {}
        /\ pr[p].status = "absent" /\ pr'[p].status = "draft"
        /\ \A q \in Requests : q # p => pr'[q] = pr[q]
        /\ \A s \in S : /\ line[s] = None /\ line'[s] # None /\ line'[s].pr = p
                        /\ line'[s].qty = seen[c][s].qty /\ line'[s].version = seen[c][s].version
        /\ \A s \in Suggestions \ S :
              line'[s] = line[s] /\ (line[s] # None => line[s].pr \in Requests \ {p})
        /\ Finish(c) /\ UNCHANGED inbound
    BY <1>1, CreateIs
  <1> HIDE DEF p, S
  <1>3. \A s \in S : /\ seen[c][s].version >= 1 /\ seen[c][s].version <= sug[s].version
                     /\ seen[c][s].version = sug[s].version => seen[c][s] = sug[s]
    BY <1>1 DEF PurchasingInv, ReliesInv, Relies, S
  <1>4. RowInv'
    <2> SUFFICES ASSUME NEW s \in Suggestions
                 PROVE  /\ sug'[s].status = "absent" => sug'[s] = NoSug
                        /\ sug'[s].status # "absent" => sug'[s].version >= 1
                        /\ line'[s] # None =>
                              /\ pr'[line'[s].pr].status # "absent"
                              /\ line'[s].version >= 1 /\ line'[s].version <= sug'[s].version
                              /\ line'[s].version = sug'[s].version => line'[s].qty = sug'[s].qty
      BY DEF RowInv
    <2>1. CASE s \in S
      BY <1>1, <1>2, <1>3, <2>1 DEF PurchasingInv, RowInv
    <2>2. CASE s \notin S
      BY <1>1, <1>2, <2>2 DEF PurchasingInv, RowInv
    <2> QED BY <2>1, <2>2
  <1>5. OrderedInv'
    BY <1>2 DEF PurchasingInv, OrderedInv
  <1>6. SubmittedAgree'
    BY <1>1, <1>2 DEF PurchasingInv, SubmittedAgree
  <1>7. OneOpenPerSku'
    BY <1>1 DEF PurchasingInv, OneOpenPerSku
  <1>8. /\ \A q \in Requests : pr'[q] = pr[q] \/ pr[q].status \in {"absent", "submitted"}
        /\ \A s \in Suggestions : \/ line'[s] = line[s]
                                  \/ line[s] = None /\ pr[line'[s].pr].status = "absent"
    BY <1>2
  <1> QED BY <1>1, <1>2, <1>4, <1>5, <1>6, <1>7, <1>8, CommitRely

(* What a submission makes of the suggestions in hand.                     *)
LEMMA SubmittedIs ==
    ASSUME PurchasingInv, NEW c \in Clients, req[c].op \in {"direct", "submit"},
           NEW S \in SUBSET Suggestions, \A s \in S : seen[c][s] = sug[s],
           sug' = Submitted(c, S)
    PROVE  /\ \A s \in S : /\ sug'[s].status = "submitted" /\ ~sug'[s].open
                           /\ sug'[s].qty = sug[s].qty /\ sug'[s].version = sug[s].version + 1
                           /\ sug'[s].version > sug[s].version
           /\ \A s \in Suggestions \ S : sug'[s] = sug[s]
  <1>1. /\ \A s \in Suggestions \ S : sug'[s] = sug[s]
        /\ \A s \in S : sug'[s] = Taken(sug[s])
    BY SubmittedTypes DEF PurchasingInv
  <1>2. ASSUME NEW s \in S
        PROVE  sug[s] \in SugRow /\ sug[s].version < MaxVersion /\ sug[s].version \in Nat
    <2>1. sug[s] \in SugRow /\ sug[s].version < MaxVersion
      BY DEF PurchasingInv, TypeInv, TypeOK, HoldsInv, Holds
    <2> QED BY <2>1, RowTypes DEF SugRow, Version
  <1> QED BY <1>1, <1>2, TakenTypes

LEMMA SubmitDirectIs ==
    ASSUME PurchasingInv, NEW c \in Clients, SubmitDirect(c)
    PROVE  /\ req[c].op = "direct" /\ Create(c, "submitted")
           /\ \A s \in req[c].sugs :
                 /\ seen[c][s] = sug[s]
                 /\ sug'[s].status = "submitted" /\ ~sug'[s].open /\ sug'[s].qty = sug[s].qty
                 /\ sug'[s].version = sug[s].version + 1 /\ sug'[s].version > sug[s].version
           /\ \A s \in Suggestions \ req[c].sugs : sug'[s] = sug[s]
  <1>1. req[c].op = "direct" /\ Create(c, "submitted") /\ sug' = Submitted(c, req[c].sugs)
    BY DEF SubmitDirect, At
  <1>2. req[c].sugs \in SUBSET Suggestions /\ \A s \in req[c].sugs : seen[c][s] = sug[s]
    BY <1>1 DEF PurchasingInv, TypeInv, TypeOK, Call, ReliesInv, Relies
  <1> QED BY <1>1, <1>2, SubmittedIs

LEMMA SubmitDirectKeeps ==
    ASSUME PurchasingInv, TypeInv', Unguarded \subseteq Apart, NEW c \in Clients, SubmitDirect(c)
    PROVE  PurchasingInv'
  <1> DEFINE p == req[c].pr  S == req[c].sugs
  <1>1. /\ req[c].op = "direct" /\ Create(c, "submitted")
        /\ \A s \in S : /\ seen[c][s] = sug[s]
                        /\ sug'[s].status = "submitted" /\ ~sug'[s].open /\ sug'[s].qty = sug[s].qty
                        /\ sug'[s].version = sug[s].version + 1 /\ sug'[s].version > sug[s].version
        /\ \A s \in Suggestions \ S : sug'[s] = sug[s]
    BY SubmitDirectIs
  <1>2. /\ p \in Requests /\ S \subseteq Suggestions /\ S # {}
        /\ pr[p].status = "absent" /\ pr'[p].status = "submitted"
        /\ \A q \in Requests : q # p => pr'[q] = pr[q]
        /\ \A s \in S : /\ line[s] = None /\ line'[s] # None /\ line'[s].pr = p
                        /\ line'[s].qty = seen[c][s].qty /\ line'[s].version = seen[c][s].version
        /\ \A s \in Suggestions \ S :
              line'[s] = line[s] /\ (line[s] # None => line[s].pr \in Requests \ {p})
        /\ Finish(c) /\ UNCHANGED inbound
    BY <1>1, CreateIs
  <1> HIDE DEF p, S
  <1>3. ASSUME NEW s \in S PROVE sug[s].status # "absent" /\ sug[s].version \in Nat
    <2>1. s \in Suggestions /\ Ready(sug[s])
      BY <1>1, <1>2 DEF PurchasingInv, TypeInv, HoldsInv, Holds, S
    <2> QED BY <2>1, RowTypes DEF PurchasingInv, TypeInv, TypeOK, SugRow, Version, Ready
  <1>4. RowInv'
    <2> SUFFICES ASSUME NEW s \in Suggestions
                 PROVE  /\ sug'[s].status = "absent" => sug'[s] = NoSug
                        /\ sug'[s].status # "absent" => sug'[s].version >= 1
                        /\ line'[s] # None =>
                              /\ pr'[line'[s].pr].status # "absent"
                              /\ line'[s].version >= 1 /\ line'[s].version <= sug'[s].version
                              /\ line'[s].version = sug'[s].version => line'[s].qty = sug'[s].qty
      BY DEF RowInv
    <2>1. CASE s \in S
      <3>1. line'[s].version = sug[s].version /\ line'[s].pr = p /\ sug[s].version >= 1
        BY <1>1, <1>2, <1>3, <2>1 DEF PurchasingInv, RowInv
      <3> QED BY <1>1, <1>2, <1>3, <2>1, <3>1
    <2>2. CASE s \notin S
      BY <1>1, <1>2, <2>2 DEF PurchasingInv, RowInv
    <2> QED BY <2>1, <2>2
  <1>5. OrderedInv'
    BY <1>2 DEF PurchasingInv, OrderedInv
  <1>6. SubmittedAgree'
    <2> SUFFICES ASSUME NEW s \in Suggestions
                 PROVE  LET under == line'[s] # None /\ pr'[line'[s].pr].status \in
                                                         {"submitted", "approved", "rejected"}
                        IN  /\ under <=> sug'[s].status = "submitted"
                            /\ under => sug'[s].qty = line'[s].qty
      BY DEF SubmittedAgree
    <2>1. CASE s \in S
      BY <1>1, <1>2, <2>1
    <2>2. CASE s \notin S
      BY <1>1, <1>2, <2>2 DEF PurchasingInv, SubmittedAgree
    <2> QED BY <2>1, <2>2
  <1>7. OneOpenPerSku'
    BY <1>1 DEF PurchasingInv, OneOpenPerSku
  <1>8. /\ \A q \in Requests : pr'[q] = pr[q] \/ pr[q].status \in {"absent", "submitted"}
        /\ \A s \in Suggestions : \/ line'[s] = line[s]
                                  \/ line[s] = None /\ pr[line'[s].pr].status = "absent"
        /\ req[c].op \in Unguarded
        /\ \A s \in Suggestions : sug'[s] = sug[s] \/ sug'[s].version > sug[s].version
    BY <1>1, <1>2 DEF Unguarded
  <1> QED BY <1>1, <1>2, <1>4, <1>5, <1>6, <1>7, <1>8, CommitRely

LEMMA EditIs ==
    ASSUME PurchasingInv, NEW c \in Clients, EditDraft(c)
    PROVE  /\ req[c].op = "edit" /\ req[c].pr \in Requests
           /\ \A p \in Requests : pr'[p].status = pr[p].status
           /\ Finish(c) /\ UNCHANGED <<sug, line, inbound>>
  <1>1. /\ req[c].op = "edit" /\ pr[req[c].pr] = seenPr[c] /\ seenPr[c] \in PrRow
        /\ seenPr[c].version < MaxRequestVersion
    BY DEF EditDraft, At, PurchasingInv, ReliesInv, Relies, TypeInv, TypeOK, HoldsInv, Holds
  <1>2. /\ req[c].pr \in Requests /\ Finish(c) /\ UNCHANGED <<line, inbound>>
        /\ \A p \in Requests : p # req[c].pr => pr'[p] = pr[p]
        /\ pr'[req[c].pr] = Edited(seenPr[c])
    BY <1>1, RequestWrites DEF PurchasingInv
  <1>3. pr'[req[c].pr].status = pr[req[c].pr].status
    BY <1>1, <1>2, EditedTypes
  <1> QED BY <1>1, <1>2, <1>3 DEF EditDraft

LEMMA EditKeeps ==
    ASSUME PurchasingInv, TypeInv', Unguarded \subseteq Apart, NEW c \in Clients, EditDraft(c)
    PROVE  PurchasingInv'
  <1>1. /\ req[c].op = "edit" /\ \A p \in Requests : pr'[p].status = pr[p].status
        /\ Finish(c) /\ UNCHANGED <<sug, line, inbound>>
    BY EditIs
  <1>2. \A s \in Suggestions : line[s] # None => line[s].pr \in Requests
    BY DEF PurchasingInv, TypeInv, TypeOK, Line
  <1>3. RowInv' /\ OrderedInv' /\ SubmittedAgree' /\ OneOpenPerSku'
    BY <1>1, <1>2 DEF PurchasingInv, RowInv, OrderedInv, SubmittedAgree, OneOpenPerSku
  <1>4. req[c].op \in Unguarded
    BY <1>1 DEF Unguarded
  <1> QED BY <1>1, <1>3, <1>4, CommitRely

LEMMA SubmitDraftIs ==
    ASSUME PurchasingInv, NEW c \in Clients, SubmitDraft(c)
    PROVE  /\ req[c].op = "submit" /\ req[c].pr \in Requests
           /\ pr[req[c].pr].status = "draft" /\ pr'[req[c].pr].status = "submitted"
           /\ \A p \in Requests : p # req[c].pr => pr'[p] = pr[p]
           /\ \A s \in LinesOf(req[c].pr) :
                 /\ Current(s) /\ sug'[s].status = "submitted" /\ ~sug'[s].open
                 /\ sug'[s].qty = sug[s].qty
                 /\ sug'[s].version = sug[s].version + 1 /\ sug'[s].version > sug[s].version
           /\ \A s \in Suggestions \ LinesOf(req[c].pr) : sug'[s] = sug[s]
           /\ Finish(c) /\ UNCHANGED <<line, inbound>>
  <1>1. /\ req[c].op = "submit" /\ pc[c] = "commit" /\ pr[req[c].pr] = seenPr[c]
        /\ pr[req[c].pr].status = "draft" /\ seenPr[c] \in PrRow
        /\ seenPr[c].version < MaxRequestVersion
        /\ sug' = Submitted(c, LinesOf(req[c].pr))
    BY DEF SubmitDraft, At, PurchasingInv, ReliesInv, Relies, TypeInv, TypeOK, HoldsInv, Holds
  <1>2. ~EditDraft(c)
    BY <1>1 DEF EditDraft, At
  <1>3. /\ req[c].pr \in Requests /\ Finish(c) /\ UNCHANGED <<line, inbound>>
        /\ \A p \in Requests : p # req[c].pr => pr'[p] = pr[p]
        /\ pr'[req[c].pr] = Sent(seenPr[c])
    BY <1>1, <1>2, RequestWrites DEF PurchasingInv
  <1>4. pr'[req[c].pr].status = "submitted"
    BY <1>1, <1>3, EditedTypes
  <1>5. /\ \A s \in LinesOf(req[c].pr) : seen[c][s] = sug[s] /\ Current(s)
        /\ LinesOf(req[c].pr) \in SUBSET Suggestions
    BY <1>1 DEF PurchasingInv, ReliesInv, Relies, LinesOf
  <1>6. /\ \A s \in LinesOf(req[c].pr) :
              /\ sug'[s].status = "submitted" /\ ~sug'[s].open /\ sug'[s].qty = sug[s].qty
              /\ sug'[s].version = sug[s].version + 1 /\ sug'[s].version > sug[s].version
        /\ \A s \in Suggestions \ LinesOf(req[c].pr) : sug'[s] = sug[s]
    BY <1>1, <1>5, SubmittedIs
  <1> QED BY <1>1, <1>3, <1>4, <1>5, <1>6

LEMMA SubmitDraftKeeps ==
    ASSUME PurchasingInv, TypeInv', Unguarded \subseteq Apart, NEW c \in Clients, SubmitDraft(c)
    PROVE  PurchasingInv'
  <1> DEFINE p == req[c].pr  S == LinesOf(req[c].pr)
  <1>1. /\ req[c].op = "submit" /\ p \in Requests
        /\ pr[p].status = "draft" /\ pr'[p].status = "submitted"
        /\ \A q \in Requests : q # p => pr'[q] = pr[q]
        /\ \A s \in S : /\ Current(s) /\ sug'[s].status = "submitted" /\ ~sug'[s].open
                        /\ sug'[s].qty = sug[s].qty
                        /\ sug'[s].version = sug[s].version + 1 /\ sug'[s].version > sug[s].version
        /\ \A s \in Suggestions \ S : sug'[s] = sug[s]
        /\ Finish(c) /\ UNCHANGED <<line, inbound>>
    BY SubmitDraftIs
  <1>2. /\ \A s \in S : s \in Suggestions /\ line[s] # None /\ line[s].pr = p
        /\ \A s \in Suggestions \ S : line[s] # None => line[s].pr \in Requests \ {p}
    BY DEF LinesOf, PurchasingInv, TypeInv, TypeOK, Line
  <1> HIDE DEF p, S
  <1>3. \A s \in Suggestions : /\ sug[s].version \in Nat
                               /\ line[s] # None => line[s].version \in Nat
    BY RowTypes DEF PurchasingInv, TypeInv, TypeOK, SugRow, Line, Version
  <1>4. RowInv'
    <2> SUFFICES ASSUME NEW s \in Suggestions
                 PROVE  /\ sug'[s].status = "absent" => sug'[s] = NoSug
                        /\ sug'[s].status # "absent" => sug'[s].version >= 1
                        /\ line'[s] # None =>
                              /\ pr'[line'[s].pr].status # "absent"
                              /\ line'[s].version >= 1 /\ line'[s].version <= sug'[s].version
                              /\ line'[s].version = sug'[s].version => line'[s].qty = sug'[s].qty
      BY DEF RowInv
    <2>1. CASE s \in S
      <3>1. line[s].version >= 1 /\ line[s].version <= sug[s].version
        BY <1>2, <2>1 DEF PurchasingInv, RowInv
      <3> QED BY <1>1, <1>2, <1>3, <2>1, <3>1
    <2>2. CASE s \notin S
      BY <1>1, <1>2, <2>2 DEF PurchasingInv, RowInv
    <2> QED BY <2>1, <2>2
  <1>5. OrderedInv'
    BY <1>1 DEF PurchasingInv, OrderedInv
  <1>6. SubmittedAgree'
    <2> SUFFICES ASSUME NEW s \in Suggestions
                 PROVE  LET under == line'[s] # None /\ pr'[line'[s].pr].status \in
                                                         {"submitted", "approved", "rejected"}
                        IN  /\ under <=> sug'[s].status = "submitted"
                            /\ under => sug'[s].qty = line'[s].qty
      BY DEF SubmittedAgree
    <2>1. CASE s \in S
      <3>1. sug[s].qty = line[s].qty
        BY <1>1, <1>2, <2>1 DEF PurchasingInv, RowInv, Current
      <3> QED BY <1>1, <1>2, <2>1, <3>1
    <2>2. CASE s \notin S
      BY <1>1, <1>2, <2>2 DEF PurchasingInv, SubmittedAgree
    <2> QED BY <2>1, <2>2
  <1>7. OneOpenPerSku'
    BY <1>1 DEF PurchasingInv, OneOpenPerSku
  <1>8. /\ req[c].op \in Unguarded
        /\ \A s \in Suggestions : sug'[s] = sug[s] \/ sug'[s].version > sug[s].version
    BY <1>1, <1>2 DEF Unguarded
  <1> QED BY <1>1, <1>4, <1>5, <1>6, <1>7, <1>8, CommitRely

(* approve and reject find the request submitted, whatever overlaps them.  *)
LEMMA JudgeIs ==
    ASSUME TypeInv, NEW c \in Clients, Approve(c) \/ Reject(c)
    PROVE  /\ req[c].pr \in Requests /\ pr[req[c].pr].status = "submitted"
           /\ pr'[req[c].pr].status = IF Approve(c) THEN "approved" ELSE "rejected"
           /\ \A p \in Requests : p # req[c].pr => pr'[p] = pr[p]
           /\ Finish(c) /\ UNCHANGED <<sug, line, inbound>>
  <1>1. CASE Approve(c)
    <2>1. Become(c, "approve", "approved") /\ sug' = sug /\ "approved" \in PrStatus
      BY <1>1 DEF Approve, PrStatus
    <2> QED BY <1>1, <2>1, BecomeWrites DEF Hit, AllowedFrom
  <1>2. CASE Reject(c) /\ ~Approve(c)
    <2>1. Become(c, "reject", "rejected") /\ sug' = sug /\ "rejected" \in PrStatus
      BY <1>2 DEF Reject, PrStatus
    <2> QED BY <1>2, <2>1, BecomeWrites DEF Hit, AllowedFrom
  <1> QED BY <1>1, <1>2

LEMMA JudgeKeeps ==
    ASSUME PurchasingInv, TypeInv', Unguarded \subseteq Apart, NEW c \in Clients,
           Approve(c) \/ Reject(c)
    PROVE  PurchasingInv'
  <1>1. /\ req[c].pr \in Requests /\ pr[req[c].pr].status = "submitted"
        /\ pr'[req[c].pr].status \in {"approved", "rejected"}
        /\ \A p \in Requests : p # req[c].pr => pr'[p] = pr[p]
        /\ Finish(c) /\ UNCHANGED <<sug, line, inbound>>
    BY JudgeIs DEF PurchasingInv
  <1>2. \A s \in Suggestions : line[s] # None => line[s].pr \in Requests
    BY DEF PurchasingInv, TypeInv, TypeOK, Line
  <1>3. RowInv' /\ OneOpenPerSku'
    BY <1>1, <1>2 DEF PurchasingInv, RowInv, OneOpenPerSku
  <1>4. OrderedInv'
    BY <1>1 DEF PurchasingInv, OrderedInv
  <1>5. SubmittedAgree'
    BY <1>1, <1>2 DEF PurchasingInv, SubmittedAgree
  <1>6. \A p \in Requests : pr'[p] = pr[p] \/ pr[p].status \in {"absent", "submitted"}
    BY <1>1
  <1> QED BY <1>1, <1>3, <1>4, <1>5, <1>6, CommitRely

LEMMA CancelIs ==
    ASSUME PurchasingInv, NEW c \in Clients, Cancel(c)
    PROVE  /\ req[c].op = "cancel" /\ req[c].pr \in Requests
           /\ pr[req[c].pr].status \in {"draft", "submitted", "approved"} /\ ~inbound[req[c].pr]
           /\ pr'[req[c].pr].status = "cancelled"
           /\ \A p \in Requests : p # req[c].pr => pr'[p] = pr[p]
           /\ \A s \in LinesOf(req[c].pr) :
                 /\ sug'[s].status = "modified" /\ ~sug'[s].open
                 /\ sug'[s].version = sug[s].version + 1 /\ sug'[s].version > sug[s].version
           /\ \A s \in Suggestions \ LinesOf(req[c].pr) : sug'[s] = sug[s]
           /\ Finish(c) /\ UNCHANGED <<line, inbound>>
  <1>1. Become(c, "cancel", "cancelled") /\ "cancelled" \in PrStatus
    BY DEF Cancel, PrStatus
  <1>2. /\ req[c].pr \in Requests /\ req[c].op = "cancel" /\ pc[c] = "commit" /\ Hit(c)
        /\ pr'[req[c].pr].status = "cancelled"
        /\ \A p \in Requests : p # req[c].pr => pr'[p] = pr[p]
        /\ Finish(c) /\ UNCHANGED <<line, inbound>>
    BY <1>1, BecomeWrites DEF PurchasingInv
  <1>3. ~inbound[req[c].pr] /\ pr[req[c].pr].status \in {"draft", "submitted", "approved"}
    BY <1>2 DEF PurchasingInv, ReliesInv, Relies, Hit, AllowedFrom
  <1>4. /\ \A s \in LinesOf(req[c].pr) : sug[s].version < MaxVersion /\ sug'[s] = GivenBack(sug[s])
        /\ \A s \in Suggestions \ LinesOf(req[c].pr) : sug'[s] = sug[s]
    BY CancelWrites DEF PurchasingInv
  <1>5. \A s \in LinesOf(req[c].pr) : sug[s] \in SugRow /\ sug[s].version \in Nat
    BY RowTypes DEF LinesOf, PurchasingInv, TypeInv, TypeOK, SugRow, Version
  <1>6. \A s \in LinesOf(req[c].pr) :
           /\ sug'[s].status = "modified" /\ ~sug'[s].open
           /\ sug'[s].version = sug[s].version + 1 /\ sug'[s].version > sug[s].version
    BY <1>4, <1>5, TakenTypes
  <1> QED BY <1>2, <1>3, <1>4, <1>6

LEMMA CancelKeeps ==
    ASSUME PurchasingInv, TypeInv', Unguarded \subseteq Apart, NEW c \in Clients, Cancel(c)
    PROVE  PurchasingInv'
  <1> DEFINE p == req[c].pr  S == LinesOf(req[c].pr)
  <1>1. /\ req[c].op = "cancel" /\ p \in Requests /\ ~inbound[p] /\ pr'[p].status = "cancelled"
        /\ \A q \in Requests : q # p => pr'[q] = pr[q]
        /\ \A s \in S : /\ sug'[s].status = "modified" /\ ~sug'[s].open
                        /\ sug'[s].version = sug[s].version + 1 /\ sug'[s].version > sug[s].version
        /\ \A s \in Suggestions \ S : sug'[s] = sug[s]
        /\ Finish(c) /\ UNCHANGED <<line, inbound>>
    BY CancelIs
  <1>2. /\ \A s \in S : s \in Suggestions /\ line[s] # None /\ line[s].pr = p
        /\ \A s \in Suggestions \ S : line[s] # None => line[s].pr \in Requests \ {p}
    BY DEF LinesOf, PurchasingInv, TypeInv, TypeOK, Line
  <1> HIDE DEF p, S
  <1>3. \A s \in Suggestions : /\ sug[s].version \in Nat
                               /\ line[s] # None => line[s].version \in Nat
    BY RowTypes DEF PurchasingInv, TypeInv, TypeOK, SugRow, Line, Version
  <1>4. RowInv'
    <2> SUFFICES ASSUME NEW s \in Suggestions
                 PROVE  /\ sug'[s].status = "absent" => sug'[s] = NoSug
                        /\ sug'[s].status # "absent" => sug'[s].version >= 1
                        /\ line'[s] # None =>
                              /\ pr'[line'[s].pr].status # "absent"
                              /\ line'[s].version >= 1 /\ line'[s].version <= sug'[s].version
                              /\ line'[s].version = sug'[s].version => line'[s].qty = sug'[s].qty
      BY DEF RowInv
    <2>1. CASE s \in S
      <3>1. line[s].version >= 1 /\ line[s].version <= sug[s].version
        BY <1>2, <2>1 DEF PurchasingInv, RowInv
      <3> QED BY <1>1, <1>2, <1>3, <2>1, <3>1
    <2>2. CASE s \notin S
      BY <1>1, <1>2, <2>2 DEF PurchasingInv, RowInv
    <2> QED BY <2>1, <2>2
  <1>5. OrderedInv'
    BY <1>1 DEF PurchasingInv, OrderedInv
  <1>6. SubmittedAgree'
    BY <1>1, <1>2 DEF PurchasingInv, SubmittedAgree
  <1>7. OneOpenPerSku'
    BY <1>1 DEF PurchasingInv, OneOpenPerSku
  <1>8. /\ req[c].op \in Unguarded
        /\ \A s \in Suggestions : sug'[s] = sug[s] \/ sug'[s].version > sug[s].version
    BY <1>1, <1>2 DEF Unguarded
  <1> QED BY <1>1, <1>4, <1>5, <1>6, <1>7, <1>8, CommitRely

LEMMA OrderKeeps ==
    ASSUME PurchasingInv, TypeInv', Unguarded \subseteq Apart, NEW c \in Clients, GenerateInbound(c)
    PROVE  PurchasingInv'
  <1>1. /\ req[c].pr \in Requests /\ req[c].op = "order"
        /\ \A p \in Requests : p # req[c].pr => inbound'[p] = inbound[p]
        /\ Finish(c) /\ UNCHANGED <<sug, pr, line>>
    BY OrderWrites DEF PurchasingInv
  <1>2. pr[req[c].pr].status = "approved" /\ req[c].op \in Unguarded
    BY <1>1 DEF PurchasingInv, ReliesInv, Relies, Unguarded
  <1>3. RowInv' /\ OrderedInv' /\ SubmittedAgree' /\ OneOpenPerSku'
    BY <1>1, <1>2 DEF PurchasingInv, RowInv, OrderedInv, SubmittedAgree, OneOpenPerSku
  <1> QED BY <1>1, <1>2, <1>3, CommitRely

LEMMA StartsInv ==
    ASSUME PurchasingInv, TypeInv', Unguarded \subseteq Apart, NEW c \in Clients,
           \/ StartGenerate(c) \/ StartDecide(c) \/ StartDraft(c) \/ StartDirect(c)
           \/ StartEdit(c) \/ StartSubmit(c) \/ StartDecision(c) \/ StartOrder(c)
    PROVE  PurchasingInv'
  <1>1. NoCall \in Call /\ None \notin Requests /\ MaxRequestVersion \in Nat /\ MaxQty \in Nat
    BY RowTypes, PurchasingAssumption DEF PurchasingAssumption
  <1>2. CASE StartGenerate(c)
    <2>1. PICK s \in Suggestions : Start(c, [NoCall EXCEPT !.op = "generate", !.sugs = {s}], "commit")
      BY <1>2 DEF StartGenerate
    <2> DEFINE call == [NoCall EXCEPT !.op = "generate", !.sugs = {s}]
    <2>2. call \in Call /\ call.op = "generate"
      BY <1>1 DEF Call, Kinds
    <2> HIDE DEF call
    <2> QED BY <2>1, <2>2, StartsRely DEF call
  <1>3. CASE StartDecide(c)
    <2>1. PICK s \in Suggestions, d \in Decisions :
             /\ sug[s].status \in {"suggested", "modified"}
             /\ Start(c, [NoCall EXCEPT !.op = "decide", !.sugs = {s}, !.to = d[1], !.qty = d[2]], "commit")
      BY <1>3 DEF StartDecide
    <2> DEFINE call == [NoCall EXCEPT !.op = "decide", !.sugs = {s}, !.to = d[1], !.qty = d[2]]
    <2>2. d[1] \in SugStatus /\ d[2] \in 0 .. MaxQty \cup {None}
      BY PurchasingAssumption DEF Decisions, SugStatus, PurchasingAssumption
    <2>3. call \in Call /\ call.op = "decide" /\ call.sugs = {s}
      BY <1>1, <2>2 DEF Call, Kinds
    <2> HIDE DEF call
    <2>4. \A t \in call.sugs : sug[t].status \in {"suggested", "modified"}
      BY <2>1, <2>3
    <2> QED BY <2>1, <2>3, <2>4, StartsRely DEF call
  <1>4. ASSUME NEW op \in {"draft", "direct"}, NEW at \in {"check", "commit"}, StartRequest(c, op, at)
        PROVE  PurchasingInv'
    <2>1. PICK p \in Requests, S \in SUBSET Suggestions :
             /\ S # {} /\ \A s \in S : Ready(sug[s])
             /\ Start(c, [NoCall EXCEPT !.op = op, !.pr = p, !.sugs = S], at)
      BY <1>4 DEF StartRequest
    <2> DEFINE call == [NoCall EXCEPT !.op = op, !.pr = p, !.sugs = S]
    <2>2. call \in Call /\ call.op = op /\ call.sugs = S
      BY <1>1 DEF Call, Kinds
    <2> HIDE DEF call
    <2>3. call.op \in {"draft", "direct"} /\ Start(c, call, at)
      BY <2>1, <2>2 DEF call
    <2>4. call.sugs # {} /\ \A s \in call.sugs : sug[s].status # "absent"
      BY <2>1, <2>2 DEF Ready
    <2> QED BY <2>2, <2>3, <2>4, StartsRely
  <1>5. ASSUME NEW op \in {"edit", "submit"}, NEW at \in {"check", "commit"}, StartOnDraft(c, op, at),
               op = "submit" => at = "check"
        PROVE  PurchasingInv'
    <2>1. PICK p \in Requests :
             pr[p].status = "draft" /\ Start(c, [NoCall EXCEPT !.op = op, !.pr = p], at)
      BY <1>5 DEF StartOnDraft
    <2> DEFINE call == [NoCall EXCEPT !.op = op, !.pr = p]
    <2>2. call \in Call /\ call.op = op /\ call.pr = p
      BY <1>1 DEF Call, Kinds
    <2> HIDE DEF call
    <2>3. call.op \in {"edit", "submit"} /\ Start(c, call, at)
      BY <2>1, <2>2 DEF call
    <2> QED BY <1>1, <1>5, <2>1, <2>2, <2>3, StartsRely
  <1>6. CASE StartDecision(c)
    <2>1. PICK p \in Requests, op \in {"approve", "reject", "cancel"}, v \in 1 .. (MaxRequestVersion - 1) :
             Start(c, [NoCall EXCEPT !.op = op, !.pr = p, !.expected = v],
                   IF op = "cancel" THEN "check" ELSE "commit")
      BY <1>6 DEF StartDecision
    <2> DEFINE call == [NoCall EXCEPT !.op = op, !.pr = p, !.expected = v]
    <2>2. call \in Call /\ call.op = op /\ call.pr = p
      <3>1. v \in RequestVersion
        BY <1>1 DEF RequestVersion
      <3> QED BY <1>1, <3>1 DEF Call, Kinds
    <2> HIDE DEF call
    <2> DEFINE at == IF op = "cancel" THEN "check" ELSE "commit"
    <2>3. Start(c, call, at) /\ at \in {"check", "commit"} /\ (op = "cancel" => at = "check")
      BY <2>1 DEF call
    <2> HIDE DEF at
    <2>4. call.op \in {"approve", "reject", "cancel"}
      BY <2>2
    <2> QED BY <2>2, <2>3, <2>4, StartsRely
  <1>7. CASE StartOrder(c)
    <2>1. PICK p \in Requests :
             pr[p].status = "approved" /\ Start(c, [NoCall EXCEPT !.op = "order", !.pr = p], "check")
      BY <1>7 DEF StartOrder
    <2> DEFINE call == [NoCall EXCEPT !.op = "order", !.pr = p]
    <2>2. call \in Call /\ call.op = "order" /\ call.pr = p
      BY <1>1 DEF Call, Kinds
    <2> HIDE DEF call
    <2> QED BY <2>1, <2>2, StartsRely DEF call
  <1> QED BY <1>2, <1>3, <1>4, <1>5, <1>6, <1>7 DEF StartDraft, StartDirect, StartEdit, StartSubmit

LEMMA InvStep ==
    ASSUME Unguarded \subseteq Apart
    PROVE  PurchasingInv /\ [Next]_vars => PurchasingInv'
  <1> SUFFICES ASSUME PurchasingInv, [Next]_vars PROVE PurchasingInv'
    OBVIOUS
  <1>1. TypeInv'
    BY TypeStep DEF PurchasingInv
  <1>2. CASE UNCHANGED vars
    BY <1>1, <1>2 DEF vars, callVars, PurchasingInv, OneApart, RowInv, OrderedInv, SubmittedAgree,
                      OneOpenPerSku, ReliesInv, Relies, LinesOf, Current
  <1>3. ASSUME NEW c \in Clients, Handle(c) PROVE PurchasingInv'
    <2>1. CASE \/ StartGenerate(c) \/ StartDecide(c) \/ StartDraft(c) \/ StartDirect(c)
               \/ StartEdit(c) \/ StartSubmit(c) \/ StartDecision(c) \/ StartOrder(c)
      BY <1>1, <2>1, StartsInv
    <2>2. CASE CheckLinked(c) \/ CheckCurrent(c) \/ CheckInbound(c) \/ CheckOrdered(c)
      BY <1>1, <2>2, ChecksRely
    <2>3. CASE Generate(c)
      BY <1>1, <2>3, GenerateKeeps
    <2>4. CASE DecideSuggestion(c)
      BY <1>1, <2>4, DecideKeeps
    <2>5. CASE CreateDraft(c)
      BY <1>1, <2>5, CreateDraftKeeps
    <2>6. CASE SubmitDirect(c)
      BY <1>1, <2>6, SubmitDirectKeeps
    <2>7. CASE EditDraft(c)
      BY <1>1, <2>7, EditKeeps
    <2>8. CASE SubmitDraft(c)
      BY <1>1, <2>8, SubmitDraftKeeps
    <2>9. CASE Approve(c) \/ Reject(c)
      BY <1>1, <2>9, JudgeKeeps
    <2>10. CASE Cancel(c)
      BY <1>1, <2>10, CancelKeeps
    <2>11. CASE GenerateInbound(c)
      BY <1>1, <2>11, OrderKeeps
    <2>12. CASE Refused(c)
      BY <1>1, <2>12, RefusedRely
    <2> QED BY <1>3, <2>1, <2>2, <2>3, <2>4, <2>5, <2>6, <2>7, <2>8, <2>9, <2>10, <2>11, <2>12
            DEF Handle
  <1> QED BY <1>2, <1>3 DEF Next

LEMMA InvHolds == Unguarded \subseteq Apart => (Spec => []PurchasingInv)
  <1> SUFFICES ASSUME Unguarded \subseteq Apart PROVE Spec => []PurchasingInv
    OBVIOUS
  <1> QED BY InvInit, InvStep, PTL DEF Spec

(* When the calls that write what they loaded are made one at a time, a    *)
(* request past its submission asks for what its suggestions were decided  *)
(* to be, whatever overlaps the others.                                    *)
THEOREM RequestsAgree == Unguarded \subseteq Apart => (Spec => []SubmittedAgree)
  <1> SUFFICES ASSUME Unguarded \subseteq Apart PROVE Spec => []SubmittedAgree
    OBVIOUS
  <1>1. PurchasingInv => SubmittedAgree
    BY DEF PurchasingInv
  <1> QED BY <1>1, InvHolds, PTL

(* Under the same condition a sku never has two open suggestions.          *)
THEOREM OneSlotIsOpen == Unguarded \subseteq Apart => (Spec => []OneOpenPerSku)
  <1> SUFFICES ASSUME Unguarded \subseteq Apart PROVE Spec => []OneOpenPerSku
    OBVIOUS
  <1>1. PurchasingInv => OneOpenPerSku
    BY DEF PurchasingInv
  <1> QED BY <1>1, InvHolds, PTL

-----------------------------------------------------------------------------
(* Purchasing implements the flow of requests *)

Statuses == [p \in Requests |-> pr[p].status]
Items == [p \in Requests |-> LinesOf(p)]
Committed == {s \in Suggestions : sug[s].status = "submitted"}

LEMMA FlowStarts == Init => Flow!FlowInit
  <1> SUFFICES ASSUME Init PROVE Flow!FlowInit
    OBVIOUS
  <1>1. Statuses = [p \in Requests |-> "absent"]
    BY DEF Init, Statuses, NoPr
  <1>2. Items = [p \in Requests |-> {}]
    BY DEF Init, Items, LinesOf
  <1>3. inbound = [p \in Requests |-> FALSE] /\ Committed = {}
    BY DEF Init, Committed, NoSug
  <1> QED BY <1>1, <1>2, <1>3 DEF Flow!FlowInit, Statuses, Items, Committed

(* A step that keeps every status, line, order and commitment is a stutter *)
(* of the flow.                                                            *)
LEMMA FlowStutter ==
    ASSUME \A p \in Requests : pr'[p].status = pr[p].status, UNCHANGED <<line, inbound>>,
           \A s \in Suggestions : sug'[s].status = "submitted" <=> sug[s].status = "submitted"
    PROVE  UNCHANGED Flow!flowVars
  <1>1. Statuses' = Statuses /\ Items' = Items /\ Committed' = Committed
    BY DEF Statuses, Items, Committed, LinesOf
  <1> QED BY <1>1 DEF Flow!flowVars, Statuses, Items, Committed

LEMMA FlowOpens ==
    ASSUME PurchasingInv, NEW c \in Clients, CreateDraft(c) \/ SubmitDirect(c)
    PROVE  Flow!FlowNext
  <1> DEFINE p == req[c].pr  S == req[c].sugs  to == IF CreateDraft(c) THEN "draft" ELSE "submitted"
  <1>1. /\ req[c].op \in {"draft", "direct"} /\ Create(c, to) /\ to \in {"draft", "submitted"}
        /\ to = "draft" => sug' = sug
        /\ to = "submitted" => /\ \A s \in S : sug'[s].status = "submitted"
                               /\ \A s \in Suggestions \ S : sug'[s] = sug[s]
    BY SubmitDirectIs DEF CreateDraft, At
  <1> HIDE DEF to
  <1>2. /\ p \in Requests /\ S \subseteq Suggestions /\ S # {}
        /\ pr[p].status = "absent" /\ pr'[p].status = to
        /\ \A q \in Requests : q # p => pr'[q] = pr[q]
        /\ \A s \in S : line[s] = None /\ line'[s] # None /\ line'[s].pr = p
        /\ \A s \in Suggestions \ S :
              line'[s] = line[s] /\ (line[s] # None => line[s].pr \in Requests \ {p})
        /\ UNCHANGED inbound
    BY <1>1, CreateIs
  <1> HIDE DEF p, S
  <1>3. Statuses[p] = "absent" /\ Statuses' = [Statuses EXCEPT ![p] = to]
    BY <1>2 DEF Statuses
  <1>4. S # {} /\ \A q \in Requests : S \cap Items[q] = {}
    BY <1>2 DEF Items, LinesOf
  <1>5. Items' = [Items EXCEPT ![p] = S]
    <2>1. \A s \in Suggestions, q \in Requests :
             (line'[s] # None /\ line'[s].pr = q) <=>
                IF q = p THEN s \in S ELSE line[s] # None /\ line[s].pr = q
      BY <1>2
    <2>2. \A q \in Requests : LinesOf(q)' = IF q = p THEN S ELSE LinesOf(q)
      BY <1>2, <2>1 DEF LinesOf
    <2> QED BY <1>2, <2>2 DEF Items
  <1>6. Committed' = IF to = "submitted" THEN Committed \cup S ELSE Committed
    BY <1>1, <1>2 DEF Committed, S
  <1>7. PICK q \in Requests, T \in SUBSET Suggestions, how \in {"draft", "submitted"} :
           q = p /\ T = S /\ how = to
    BY <1>1, <1>2
  <1>8. Flow!Open(q, T, how)
    BY <1>2, <1>3, <1>4, <1>5, <1>6, <1>7 DEF Flow!Open, Flow!Free, Statuses, Items, Committed
  <1> QED BY <1>8 DEF Flow!FlowNext

LEMMA FlowSubmits ==
    ASSUME PurchasingInv, NEW c \in Clients, SubmitDraft(c)
    PROVE  Flow!FlowNext
  <1> DEFINE p == req[c].pr
  <1>1. /\ p \in Requests /\ pr[p].status = "draft" /\ pr'[p].status = "submitted"
        /\ \A q \in Requests : q # p => pr'[q] = pr[q]
        /\ \A s \in LinesOf(p) : sug'[s].status = "submitted"
        /\ \A s \in Suggestions \ LinesOf(p) : sug'[s] = sug[s]
        /\ UNCHANGED <<line, inbound>>
    BY SubmitDraftIs
  <1> HIDE DEF p
  <1>2. Statuses[p] = "draft" /\ Statuses' = [Statuses EXCEPT ![p] = "submitted"]
    BY <1>1 DEF Statuses
  <1>3. Items' = Items /\ Items[p] = LinesOf(p) /\ LinesOf(p) \subseteq Suggestions
    BY <1>1 DEF Items, LinesOf
  <1>4. Committed' = Committed \cup Items[p]
    BY <1>1, <1>3 DEF Committed
  <1>5. Flow!Submit(p)
    BY <1>1, <1>2, <1>3, <1>4 DEF Flow!Submit, Statuses, Items, Committed
  <1> QED BY <1>1, <1>5 DEF Flow!FlowNext, Flow!Submit

LEMMA FlowDecides ==
    ASSUME PurchasingInv, NEW c \in Clients, Approve(c) \/ Reject(c)
    PROVE  Flow!FlowNext
  <1> DEFINE p == req[c].pr  to == IF Approve(c) THEN "approved" ELSE "rejected"
  <1>1. /\ p \in Requests /\ pr[p].status = "submitted" /\ pr'[p].status = to
        /\ to \in {"approved", "rejected"}
        /\ \A q \in Requests : q # p => pr'[q] = pr[q]
        /\ UNCHANGED <<sug, line, inbound>>
    BY JudgeIs DEF PurchasingInv
  <1> HIDE DEF p, to
  <1>2. Statuses[p] = "submitted" /\ Statuses' = [Statuses EXCEPT ![p] = to]
    BY <1>1 DEF Statuses
  <1>3. Items' = Items /\ Committed' = Committed
    BY <1>1 DEF Items, LinesOf, Committed
  <1>4. Flow!Decide(p, to)
    BY <1>1, <1>2, <1>3 DEF Flow!Decide, Statuses, Items, Committed
  <1> QED BY <1>1, <1>4 DEF Flow!FlowNext, Flow!Decide

LEMMA FlowWithdraws ==
    ASSUME PurchasingInv, NEW c \in Clients, Cancel(c)
    PROVE  Flow!FlowNext
  <1> DEFINE p == req[c].pr
  <1>1. /\ p \in Requests /\ pr[p].status \in {"draft", "submitted", "approved"} /\ ~inbound[p]
        /\ pr'[p].status = "cancelled" /\ \A q \in Requests : q # p => pr'[q] = pr[q]
        /\ \A s \in LinesOf(p) : sug'[s].status = "modified"
        /\ \A s \in Suggestions \ LinesOf(p) : sug'[s] = sug[s]
        /\ UNCHANGED <<line, inbound>>
    BY CancelIs
  <1> HIDE DEF p
  <1>2. /\ Statuses[p] \in {"draft", "submitted", "approved"}
        /\ Statuses' = [Statuses EXCEPT ![p] = "cancelled"]
    BY <1>1 DEF Statuses
  <1>3. Items' = Items /\ Items[p] = LinesOf(p) /\ LinesOf(p) \subseteq Suggestions
    BY <1>1 DEF Items, LinesOf
  <1>4. Committed' = Committed \ Items[p]
    BY <1>1, <1>3 DEF Committed
  <1>5. Flow!Withdraw(p)
    BY <1>1, <1>2, <1>3, <1>4 DEF Flow!Withdraw, Statuses, Items, Committed
  <1> QED BY <1>1, <1>5 DEF Flow!FlowNext, Flow!Withdraw

LEMMA FlowOrders ==
    ASSUME PurchasingInv, NEW c \in Clients, GenerateInbound(c)
    PROVE  Flow!FlowNext
  <1> DEFINE p == req[c].pr
  <1>1. p \in Requests /\ req[c].op = "order" /\ ~inbound[p] /\ UNCHANGED <<sug, pr, line>>
    BY OrderWrites DEF PurchasingInv
  <1>2. pr[p].status = "approved"
    BY <1>1 DEF PurchasingInv, ReliesInv, Relies
  <1>3. inbound' = [inbound EXCEPT ![p] = TRUE]
    BY DEF GenerateInbound
  <1> HIDE DEF p
  <1>4. Statuses[p] = "approved" /\ Statuses' = Statuses /\ Items' = Items /\ Committed' = Committed
    BY <1>1, <1>2 DEF Statuses, Items, LinesOf, Committed
  <1>5. Flow!Order(p)
    BY <1>1, <1>3, <1>4 DEF Flow!Order, Statuses, Items, Committed
  <1> QED BY <1>1, <1>5 DEF Flow!FlowNext

LEMMA FlowSteps == PurchasingInv /\ [Next]_vars => [Flow!FlowNext]_Flow!flowVars
  <1> SUFFICES ASSUME PurchasingInv, [Next]_vars PROVE Flow!FlowNext \/ UNCHANGED Flow!flowVars
    OBVIOUS
  <1>1. CASE UNCHANGED vars
    BY <1>1, FlowStutter DEF vars
  <1>2. ASSUME NEW c \in Clients, Handle(c) PROVE Flow!FlowNext \/ UNCHANGED Flow!flowVars
    <2>1. CASE \/ StartGenerate(c) \/ StartDecide(c) \/ StartDraft(c) \/ StartDirect(c)
               \/ StartEdit(c) \/ StartSubmit(c) \/ StartDecision(c) \/ StartOrder(c)
      <3>1. UNCHANGED <<sug, pr, line, inbound>>
        BY <2>1 DEF StartGenerate, StartDecide, StartDraft, StartDirect, StartRequest, StartEdit,
                    StartSubmit, StartOnDraft, StartDecision, StartOrder, Start
      <3> QED BY <3>1, FlowStutter
    <2>2. CASE \/ CheckLinked(c) \/ CheckCurrent(c) \/ CheckInbound(c) \/ CheckOrdered(c)
               \/ Refused(c)
      <3>1. UNCHANGED <<sug, pr, line, inbound>>
        BY <2>2 DEF CheckLinked, CheckCurrent, CheckInbound, CheckOrdered, Proceed, Refused
      <3> QED BY <3>1, FlowStutter
    <2>3. CASE Generate(c)
      <3>1. PICK s \in Suggestions :
               LET row == [status |-> "suggested", qty |-> None, open |-> TRUE, version |-> 1] IN
               CanInsert(s) /\ sug' = [sug EXCEPT ![s] = row] /\ UNCHANGED <<pr, line, inbound>>
        BY <2>3, GenerateWrites DEF PurchasingInv
      <3>2. \A t \in Suggestions : sug'[t].status = "submitted" <=> sug[t].status = "submitted"
        BY <3>1 DEF CanInsert, PurchasingInv, TypeInv, TypeOK
      <3> QED BY <3>1, <3>2, FlowStutter
    <2>4. CASE DecideSuggestion(c)
      <3>1. PICK s \in Suggestions :
               /\ sug[s].status \in {"suggested", "modified"}
               /\ sug'[s].status \in {"confirmed", "modified", "ignored"}
               /\ \A t \in Suggestions : t # s => sug'[t] = sug[t]
               /\ UNCHANGED <<pr, line, inbound>>
        BY <2>4, DecideIs
      <3>2. \A t \in Suggestions : sug'[t].status = "submitted" <=> sug[t].status = "submitted"
        BY <3>1
      <3> QED BY <3>1, <3>2, FlowStutter
    <2>5. CASE EditDraft(c)
      BY <2>5, EditIs, FlowStutter
    <2>6. CASE CreateDraft(c) \/ SubmitDirect(c)
      BY <2>6, FlowOpens
    <2>7. CASE SubmitDraft(c)
      BY <2>7, FlowSubmits
    <2>8. CASE Approve(c) \/ Reject(c)
      BY <2>8, FlowDecides
    <2>9. CASE Cancel(c)
      BY <2>9, FlowWithdraws
    <2>10. CASE GenerateInbound(c)
      BY <2>10, FlowOrders
    <2> QED BY <1>2, <2>1, <2>2, <2>3, <2>4, <2>5, <2>6, <2>7, <2>8, <2>9, <2>10 DEF Handle
  <1> QED BY <1>1, <1>2 DEF Next

(* Purchasing implements its flow: no suggestion is in two requests, a     *)
(* request is decided once and from submitted, and only an approved one is *)
(* ordered, once; approve, reject and draft creation may overlap anything. *)
THEOREM FlowImplemented == Unguarded \subseteq Apart => (Spec => ImplementsFlow)
  <1> SUFFICES ASSUME Unguarded \subseteq Apart PROVE Spec => ImplementsFlow
    OBVIOUS
  <1>1. Spec => Flow!FlowSpec
    BY InvHolds, FlowStarts, FlowSteps, PTL DEF Spec, Flow!FlowSpec
  <1> QED BY <1>1 DEF ImplementsFlow
=============================================================================
