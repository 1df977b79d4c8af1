------------------------ MODULE InboundLedgerProofs ------------------------
(* Proofs about inbound orders and their postings, for any sets of orders, *)
(* skus and concurrent requests.                                           *)
EXTENDS InboundLedger, SumTheorems, TLAPS

(* A request in progress has an order, and a count has a payload.          *)
RequestsRefer ==
    \A c \in Clients :
        /\ pc[c] # "idle" => req[c].o \in Orders
        /\ pc[c] = "write" => req[c].op = "receive"
        /\ pc[c] \in {"lines", "write"} /\ req[c].op = "receive" => req[c].payload \in Payloads

TypeInv == TypeOK /\ RequestsRefer

LEMMA NoLineType == NoLine \in Quantity
  BY DEF NoLine, Quantity

LEMMA ReportedType ==
    ASSUME NEW x \in Quantity, NEW y \in Quantity, NEW z \in Quantity
    PROVE  Reported(x, y, z) \in Quantity
  BY DEF Reported, Emit, Quantity

LEMMA PostingType ==
    ASSUME NEW x \in Quantity, NEW b \in Int \cup {None}
    PROVE  [delta |-> x.received - x.damaged, priced |-> x.priced, was |-> b] \in Posting
  BY DEF Quantity, Posting

LEMMA NewBalanceType ==
    ASSUME NEW b \in Int \cup {None}, NEW x \in Posting
    PROVE  NewBalance(b, x) \in Int \cup {None}
  BY InboundAssumption DEF NewBalance, Emit, Posting

(* The state of the requests after one of them has ended.                  *)
LEMMA FinishType ==
    ASSUME TypeInv, NEW c \in Clients, Finish(c),
           order' \in [Orders -> Status], line' \in [Orders -> [Skus -> Quantity]],
           ledger' \in [Orders -> [Skus -> Entry \cup {None}]],
           balance' \in [Skus -> Int \cup {None}], serial' = serial
    PROVE  TypeInv'
  <1>1. NothingSeen \in [order : Status, lines : [Skus -> Quantity]]
    BY NoLineType DEF NothingSeen, Status
  <1>2. NoPlan \in [Skus -> Posting \cup {None}]
    BY DEF NoPlan
  <1>3. /\ req' \in [Clients -> [op : {"none", "receive", "confirm"}, o : Orders \cup {None},
                                 payload : Payloads \cup {None}]]
        /\ req'[c] = NoRequest
    BY DEF Finish, NoRequest, TypeInv, TypeOK
  <1>4. /\ seen' \in [Clients -> [order : Status, lines : [Skus -> Quantity]]]
        /\ todo' \in [Clients -> SUBSET Skus]
        /\ plan' \in [Clients -> [Skus -> Posting \cup {None}]]
    BY <1>1, <1>2 DEF Finish, TypeInv, TypeOK
  <1>5. /\ pc' \in [Clients -> {"idle", "lines", "write", "post", "flush"}]
        /\ holder' \in Clients \cup {None} /\ holder' # c
    BY InboundAssumption DEF Finish, TypeInv, TypeOK
  <1>6. /\ pc'[c] = "idle" /\ todo'[c] = {} /\ plan'[c] = NoPlan
        /\ \A d \in Clients \ {c} :
              /\ req'[d] = req[d] /\ pc'[d] = pc[d] /\ todo'[d] = todo[d] /\ plan'[d] = plan[d]
              /\ holder' = d => holder = d
    BY InboundAssumption DEF Finish, TypeInv, TypeOK
  <1>7. TypeOK'
    BY <1>3, <1>4, <1>5, <1>6 DEF TypeInv, TypeOK
  <1>8. RequestsRefer'
    BY <1>3, <1>6 DEF TypeInv, RequestsRefer, NoRequest
  <1> QED
    BY <1>7, <1>8 DEF TypeInv

LEMMA TypeInit == Init => TypeInv
  BY InboundAssumption, NoLineType
  DEF Init, TypeInv, TypeOK, RequestsRefer, Status, NoRequest, NothingSeen, NoPlan

LEMMA ReadOrderType ==
    ASSUME TypeInv, NEW c \in Clients, NEW o \in Orders,
           NEW op \in {"receive", "confirm"}, NEW payload \in Payloads \cup {None},
           op = "receive" => payload \in Payloads, ReadOrder(c, op, o, payload)
    PROVE  TypeInv'
  <1>1. order[o] \in Status
    BY DEF TypeInv, TypeOK
  <1>2. /\ req' \in [Clients -> [op : {"none", "receive", "confirm"}, o : Orders \cup {None},
                                 payload : Payloads \cup {None}]]
        /\ req'[c].o = o /\ req'[c].op = op /\ req'[c].payload = payload
        /\ \A d \in Clients \ {c} : req'[d] = req[d]
    BY DEF ReadOrder, TypeInv, TypeOK
  <1>3. seen' \in [Clients -> [order : Status, lines : [Skus -> Quantity]]]
    BY <1>1 DEF ReadOrder, TypeInv, TypeOK
  <1>4. /\ pc' \in [Clients -> {"idle", "lines", "write", "post", "flush"}]
        /\ pc[c] = "idle" /\ pc'[c] = "lines"
        /\ \A d \in Clients \ {c} : pc'[d] = pc[d]
        /\ UNCHANGED <<order, line, ledger, balance, todo, plan, holder, serial>>
    BY DEF ReadOrder, Goto, TypeInv, TypeOK
  <1>5. \A d \in Clients :
          /\ pc'[d] = "idle" => req'[d] = NoRequest
          /\ pc'[d] \notin {"post", "flush"} => todo'[d] = {} /\ plan'[d] = NoPlan /\ holder' # d
          /\ pc'[d] \in {"post", "flush"} => req'[d].o # None
    <2>1. pc'[c] = "lines" /\ todo'[c] = {} /\ plan'[c] = NoPlan /\ holder' # c
      BY <1>4 DEF TypeInv, TypeOK
    <2>2. ASSUME NEW d \in Clients \ {c}
          PROVE  /\ pc'[d] = pc[d] /\ req'[d] = req[d] /\ todo'[d] = todo[d]
                 /\ plan'[d] = plan[d] /\ (holder' = d <=> holder = d)
      BY <1>2, <1>4
    <2>3. ASSUME NEW d \in Clients \ {c}
          PROVE  /\ pc[d] = "idle" => req[d] = NoRequest
                 /\ pc[d] \notin {"post", "flush"} => todo[d] = {} /\ plan[d] = NoPlan /\ holder # d
                 /\ pc[d] \in {"post", "flush"} => req[d].o # None
      BY DEF TypeInv, TypeOK
    <2> QED
      BY <2>1, <2>2, <2>3
  <1>6. TypeOK'
    BY <1>2, <1>3, <1>4, <1>5 DEF TypeInv, TypeOK
  <1>7. RequestsRefer'
    BY <1>2, <1>4 DEF TypeInv, RequestsRefer
  <1> QED
    BY <1>6, <1>7 DEF TypeInv

LEMMA ReadLinesType ==
    ASSUME TypeInv, NEW c \in Clients, ReadLines(c)
    PROVE  TypeInv'
  <1>1. line[req[c].o] \in [Skus -> Quantity] /\ LinesOf[req[c].o] \subseteq Skus
    BY InboundAssumption DEF ReadLines, TypeInv, TypeOK, RequestsRefer
  <1>2. seen' \in [Clients -> [order : Status, lines : [Skus -> Quantity]]]
    BY <1>1 DEF ReadLines, TypeInv, TypeOK
  <1>3. /\ pc' \in [Clients -> {"idle", "lines", "write", "post", "flush"}]
        /\ todo' \in [Clients -> SUBSET Skus]
        /\ pc[c] = "lines" /\ pc'[c] \in {"write", "post"}
        /\ pc'[c] = "write" => req[c].op = "receive" /\ todo'[c] = todo[c]
        /\ \A d \in Clients \ {c} : pc'[d] = pc[d] /\ todo'[d] = todo[d]
        /\ UNCHANGED <<order, line, ledger, balance, req, plan, holder, serial>>
    BY <1>1 DEF ReadLines, Goto, TypeInv, TypeOK
  <1>4. req[c].o # None
    BY <1>3, InboundAssumption DEF TypeInv, RequestsRefer
  <1>5. TypeOK'
    BY <1>2, <1>3, <1>4 DEF TypeInv, TypeOK
  <1>6. RequestsRefer'
    BY <1>3 DEF TypeInv, RequestsRefer
  <1> QED
    BY <1>5, <1>6 DEF TypeInv

LEMMA PlanLineType ==
    ASSUME TypeInv, NEW c \in Clients, PlanLine(c)
    PROVE  TypeInv'
  <1>1. PICK s \in todo[c] :
            /\ pc[c] = "post"
            /\ todo' = [todo EXCEPT ![c] = @ \ {s}]
            /\ \/ UNCHANGED <<plan, pc>>
               \/ /\ plan' = [plan EXCEPT ![c][s] =
                        [delta  |-> seen[c].lines[s].received - seen[c].lines[s].damaged,
                         priced |-> seen[c].lines[s].priced, was |-> balance[s]]]
                  /\ Goto(c, IF seen[c].lines[s].priced THEN "flush" ELSE "post")
            /\ UNCHANGED <<order, line, ledger, balance, req, seen, holder, serial>>
    BY DEF PlanLine
  <1>2. s \in Skus /\ seen[c].lines[s] \in Quantity /\ balance[s] \in Int \cup {None}
    BY DEF TypeInv, TypeOK
  <1> DEFINE x == seen[c].lines[s]
             posting == [delta |-> x.received - x.damaged, priced |-> x.priced,
                         was |-> balance[s]]
  <1>3. plan' \in [Clients -> [Skus -> Posting \cup {None}]]
    <2>1. posting \in Posting
      BY <1>2, PostingType
    <2>2. plan' = plan \/ plan' = [plan EXCEPT ![c][s] = posting]
      BY <1>1
    <2> HIDE DEF posting
    <2>3. plan \in [Clients -> [Skus -> Posting \cup {None}]]
      BY DEF TypeInv, TypeOK
    <2> QED
      BY <1>2, <2>1, <2>2, <2>3
  <1>4. /\ pc' \in [Clients -> {"idle", "lines", "write", "post", "flush"}]
        /\ pc'[c] \in {"post", "flush"} /\ pc[c] = "post"
        /\ todo' \in [Clients -> SUBSET Skus]
        /\ \A d \in Clients \ {c} : pc'[d] = pc[d] /\ todo'[d] = todo[d] /\ plan'[d] = plan[d]
    BY <1>1 DEF Goto, TypeInv, TypeOK
  <1>5. TypeOK'
    BY <1>1, <1>3, <1>4 DEF TypeInv, TypeOK
  <1>6. RequestsRefer'
    BY <1>1, <1>4 DEF TypeInv, RequestsRefer
  <1> QED
    BY <1>5, <1>6 DEF TypeInv

LEMMA CommitReceiveType ==
    ASSUME TypeInv, NEW c \in Clients, CommitReceive(c)
    PROVE  TypeInv'
  <1>1. /\ req[c].payload \in Payloads /\ req[c].o \in Orders
        /\ pc[c] = "write"
    BY DEF CommitReceive, TypeInv, RequestsRefer
  <1>2. \A s \in DOMAIN req[c].payload : req[c].payload[s] \in Quantity
    BY <1>1, InboundAssumption
  <1>3. line' \in [Orders -> [Skus -> Quantity]]
    BY <1>1, <1>2, ReportedType DEF CommitReceive, TypeInv, TypeOK
  <1>4. order' \in [Orders -> Status]
    BY <1>1 DEF CommitReceive, TypeInv, TypeOK, Status
  <1> QED
    BY <1>3, <1>4, FinishType DEF CommitReceive, TypeInv, TypeOK

LEMMA CommitConfirmType ==
    ASSUME TypeInv, NEW c \in Clients, CommitConfirm(c)
    PROVE  TypeInv'
  <1>1. \A s \in Planned(c) : s \in Skus /\ plan[c][s] \in Posting
    BY DEF Planned, TypeInv, TypeOK
  <1>2. \A s \in Planned(c) :
            [delta |-> plan[c][s].delta, priced |-> plan[c][s].priced] \in Entry
    BY <1>1 DEF Posting, Entry
  <1>3. ledger' \in [Orders -> [Skus -> Entry \cup {None}]]
    BY <1>2 DEF CommitConfirm, TypeInv, TypeOK
  <1>4. balance' \in [Skus -> Int \cup {None}]
    BY <1>1, NewBalanceType DEF CommitConfirm, TypeInv, TypeOK
  <1>5. order' \in [Orders -> Status]
    BY DEF CommitConfirm, TypeInv, TypeOK, Status
  <1> QED
    BY <1>3, <1>4, <1>5, FinishType DEF CommitConfirm, TypeInv, TypeOK

LEMMA TypeStep == TypeInv /\ [Next]_vars => TypeInv'
  <1> SUFFICES ASSUME TypeInv, [Next]_vars PROVE TypeInv'
    OBVIOUS
  <1>1. ASSUME NEW o \in Orders, CreateInbound(o) PROVE TypeInv'
    BY <1>1 DEF CreateInbound, clientVars, TypeInv, TypeOK, RequestsRefer, Status
  <1>2. ASSUME NEW c \in Clients, Handle(c) PROVE TypeInv'
    <2>1. CASE StartReceive(c)
      BY <2>1, ReadOrderType DEF StartReceive
    <2>2. CASE StartConfirm(c)
      BY <2>2, ReadOrderType DEF StartConfirm
    <2>3. CASE Abandon(c) \/ ReceiveRefused(c) \/ ConfirmRefused(c) \/ ConfirmFails(c)
      BY <2>3, FinishType DEF Abandon, ReceiveRefused, ConfirmRefused, ConfirmFails, TypeInv, TypeOK
    <2>4. CASE ReadLines(c)
      BY <2>4, ReadLinesType
    <2>5. CASE CommitReceive(c)
      BY <2>5, CommitReceiveType
    <2>6. CASE PlanLine(c)
      BY <2>6, PlanLineType
    <2>7. CASE FlushPlan(c)
      BY <2>7 DEF FlushPlan, Goto, TypeInv, TypeOK, RequestsRefer
    <2>8. CASE CommitConfirm(c)
      BY <2>8, CommitConfirmType
    <2> QED
      BY <1>2, <2>1, <2>2, <2>3, <2>4, <2>5, <2>6, <2>7, <2>8 DEF Handle
  <1>3. CASE UNCHANGED vars
    BY <1>3 DEF vars, clientVars, TypeInv, TypeOK, RequestsRefer
  <1> QED
    BY <1>1, <1>2, <1>3 DEF Next

(* The variables keep their types, and only a confirmation that posts      *)
(* holds the write lock or has a plan.                                     *)
THEOREM TypesHold == Spec => []TypeOK
  <1>1. TypeInv => TypeOK
    BY DEF TypeInv
  <1> QED
    BY <1>1, TypeInit, TypeStep, PTL DEF Spec

-----------------------------------------------------------------------------
(* A posting is final: the unique key of the transactions refuses a second *)
(* one for the same line, whoever planned it.                              *)
LEMMA AppendStep ==
    ASSUME [Next]_vars, TypeInv, NEW o \in Orders, NEW s \in Skus, ledger[o][s] # None
    PROVE  ledger'[o][s] = ledger[o][s]
  <1>1. CASE \E c \in Clients : CommitConfirm(c)
    <2>1. PICK c \in Clients : CommitConfirm(c)
      BY <1>1
    <2>2. o = req[c].o => s \notin Planned(c)
      BY <2>1 DEF CommitConfirm, Conflict
    <2> QED
      BY <2>1, <2>2 DEF CommitConfirm, TypeInv, TypeOK
  <1>2. CASE ~\E c \in Clients : CommitConfirm(c)
    <2>1. ledger' = ledger
      BY <1>2 DEF Next, vars, CreateInbound, Handle, StartReceive, StartConfirm, ReadOrder,
                  Abandon, ReadLines, ReceiveRefused, CommitReceive, ConfirmRefused, PlanLine,
                  FlushPlan, ConfirmFails
    <2> QED
      BY <2>1
  <1> QED
    BY <1>1, <1>2

THEOREM PostingsAreFinal == Spec => LedgerAppendOnly
  <1>1. TypeInv /\ [Next]_vars =>
          [\A o \in Orders, s \in Skus : ledger[o][s] # None => ledger'[o][s] = ledger[o][s]]_vars
    BY AppendStep
  <1> QED
    BY <1>1, TypeInit, TypeStep, PTL DEF Spec, LedgerAppendOnly
-----------------------------------------------------------------------------
(* What an order may take: a bound that travels from the payload to the    *)
(* lines, from the lines a request has loaded to its plan, and from the    *)
(* plan to the transactions.                                               *)
AtMost(o, s, q) == Requested[o] # None => q <= Requested[o][s]

StoredWithin ==
    \A o \in Orders, s \in Skus :
        /\ AtMost(o, s, line[o][s].received)
        /\ ledger[o][s] # None => AtMost(o, s, ledger[o][s].delta)

LoadedWithin ==
    \A c \in Clients, s \in Skus :
        pc[c] \in {"write", "post", "flush"} =>
            /\ AtMost(req[c].o, s, seen[c].lines[s].received)
            /\ plan[c][s] # None => AtMost(req[c].o, s, plan[c][s].delta)

PayloadWithin ==
    \A c \in Clients :
        pc[c] = "write" =>
            \A s \in DOMAIN req[c].payload : AtMost(req[c].o, s, req[c].payload[s].received)

WithinInv == StoredWithin /\ LoadedWithin /\ PayloadWithin

LEMMA WithinInit == Init => WithinInv
  BY InboundAssumption
  DEF Init, WithinInv, StoredWithin, LoadedWithin, PayloadWithin, AtMost, NoLine

(* A request that ends leaves the loaded bounds of the others alone.       *)
LEMMA WithinFinish ==
    ASSUME TypeInv, WithinInv, NEW c \in Clients, Finish(c)
    PROVE  LoadedWithin' /\ PayloadWithin'
  <1>1. pc'[c] = "idle"
    BY DEF Finish, TypeInv, TypeOK
  <1>2. \A d \in Clients \ {c} : /\ pc'[d] = pc[d] /\ req'[d] = req[d]
                                 /\ seen'[d] = seen[d] /\ plan'[d] = plan[d]
    BY DEF Finish, TypeInv, TypeOK
  <1>3. LoadedWithin'
    BY <1>1, <1>2 DEF WithinInv, LoadedWithin, AtMost
  <1>4. PayloadWithin'
    BY <1>1, <1>2 DEF WithinInv, PayloadWithin, AtMost
  <1> QED
    BY <1>3, <1>4

LEMMA WithinReadLines ==
    ASSUME TypeInv, WithinInv, NEW c \in Clients, ReadLines(c)
    PROVE  WithinInv'
  <1>1. /\ pc[c] = "lines" /\ req[c].o \in Orders /\ plan[c] = NoPlan
        /\ seen'[c].lines = line[req[c].o]
        /\ pc'[c] = "write" => Valid(req[c].o, req[c].payload)
        /\ UNCHANGED <<line, ledger, req, plan>>
        /\ \A d \in Clients \ {c} : pc'[d] = pc[d] /\ seen'[d] = seen[d]
    BY DEF ReadLines, Goto, TypeInv, TypeOK, RequestsRefer
  <1>2. StoredWithin'
    BY <1>1 DEF WithinInv, StoredWithin, AtMost
  <1>3. ASSUME NEW s \in Skus
        PROVE  AtMost(req[c].o, s, line[req[c].o][s].received) /\ plan[c][s] = None
    BY <1>1 DEF WithinInv, StoredWithin, NoPlan
  <1>4. LoadedWithin'
    BY <1>1, <1>3 DEF WithinInv, LoadedWithin, AtMost
  <1>5. PayloadWithin'
    BY <1>1 DEF WithinInv, PayloadWithin, AtMost, Valid
  <1> QED
    BY <1>2, <1>4, <1>5 DEF WithinInv

LEMMA WithinPlanLine ==
    ASSUME TypeInv, WithinInv, NEW c \in Clients, PlanLine(c)
    PROVE  WithinInv'
  <1>1. PICK s \in Skus :
            /\ pc[c] = "post" /\ pc'[c] \in {"post", "flush"}
            /\ UNCHANGED <<line, ledger, req, seen>>
            /\ \A d \in Clients \ {c} : pc'[d] = pc[d] /\ plan'[d] = plan[d]
            /\ \A t \in Skus \ {s} : plan'[c][t] = plan[c][t]
            /\ \/ plan'[c][s] = plan[c][s]
               \/ plan'[c][s].delta = seen[c].lines[s].received - seen[c].lines[s].damaged
    <2>1. PICK s \in todo[c] :
              /\ pc[c] = "post" /\ UNCHANGED <<line, ledger, req, seen>>
              /\ \/ UNCHANGED <<plan, pc>>
                 \/ /\ plan' = [plan EXCEPT ![c][s] =
                          [delta  |-> seen[c].lines[s].received - seen[c].lines[s].damaged,
                           priced |-> seen[c].lines[s].priced, was |-> balance[s]]]
                    /\ Goto(c, IF seen[c].lines[s].priced THEN "flush" ELSE "post")
      BY DEF PlanLine
    <2>2. s \in Skus /\ plan \in [Clients -> [Skus -> Posting \cup {None}]]
      BY DEF TypeInv, TypeOK
    <2>3. pc'[c] \in {"post", "flush"} /\ \A d \in Clients \ {c} : pc'[d] = pc[d]
      BY <2>1 DEF Goto, TypeInv, TypeOK
    <2> QED
      BY <2>1, <2>2, <2>3
  <1>2. \A t \in Skus : seen[c].lines[t] \in Quantity
    BY DEF TypeInv, TypeOK
  <1>3. req[c].o \in Orders
    BY <1>1 DEF TypeInv, RequestsRefer
  <1>4. Requested[req[c].o] # None => Requested[req[c].o][s] \in Nat
    BY <1>3, InboundAssumption
  <1>5. AtMost(req[c].o, s, seen[c].lines[s].received)
    BY <1>1 DEF WithinInv, LoadedWithin
  <1>6. AtMost(req[c].o, s, seen[c].lines[s].received - seen[c].lines[s].damaged)
    BY <1>2, <1>4, <1>5 DEF AtMost, Quantity
  <1>7. LoadedWithin'
    <2>1. ASSUME NEW d \in Clients, NEW t \in Skus, pc'[d] \in {"write", "post", "flush"}
          PROVE  /\ AtMost(req[d].o, t, seen[d].lines[t].received)
                 /\ plan'[d][t] # None => AtMost(req[d].o, t, plan'[d][t].delta)
      <3>1. CASE d = c /\ t = s
        BY <1>1, <1>5, <1>6, <3>1 DEF WithinInv, LoadedWithin
      <3>2. CASE d = c /\ t # s
        BY <1>1, <3>2 DEF WithinInv, LoadedWithin
      <3>3. CASE d # c
        BY <1>1, <2>1, <3>3 DEF WithinInv, LoadedWithin
      <3> QED
        BY <3>1, <3>2, <3>3
    <2> QED
      BY <1>1, <2>1 DEF LoadedWithin, AtMost
  <1>8. StoredWithin' /\ PayloadWithin'
    BY <1>1 DEF WithinInv, StoredWithin, PayloadWithin, AtMost
  <1> QED
    BY <1>7, <1>8 DEF WithinInv

LEMMA WithinCommitReceive ==
    ASSUME TypeInv, WithinInv, NEW c \in Clients, CommitReceive(c)
    PROVE  WithinInv'
  <1> DEFINE o == req[c].o
             p == req[c].payload
  <1>1. /\ pc[c] = "write" /\ Finish(c) /\ ledger' = ledger
        /\ o \in Orders /\ p \in Payloads
    BY DEF CommitReceive, TypeInv, RequestsRefer
  <1>2. ASSUME NEW q \in Orders, NEW s \in Skus
        PROVE  \/ line'[q][s].received = line[q][s].received
               \/ q = o /\ s \in DOMAIN p /\ line'[q][s].received = p[s].received
    BY <1>1 DEF CommitReceive, Reported, Emit, TypeInv, TypeOK
  <1>3. StoredWithin'
    BY <1>1, <1>2 DEF WithinInv, StoredWithin, PayloadWithin, AtMost
  <1> QED
    BY <1>1, <1>3, WithinFinish DEF WithinInv

LEMMA WithinCommitConfirm ==
    ASSUME TypeInv, WithinInv, NEW c \in Clients, CommitConfirm(c)
    PROVE  WithinInv'
  <1>1. /\ pc[c] = "post" /\ Finish(c) /\ line' = line
        /\ req[c].o \in Orders
    BY DEF CommitConfirm, TypeInv, RequestsRefer
  <1>2. ASSUME NEW o \in Orders, NEW s \in Skus
        PROVE  \/ ledger'[o][s] = ledger[o][s]
               \/ /\ o = req[c].o /\ plan[c][s] # None
                  /\ ledger'[o][s].delta = plan[c][s].delta
    BY <1>1 DEF CommitConfirm, Planned, TypeInv, TypeOK
  <1>3. StoredWithin'
    BY <1>1, <1>2 DEF WithinInv, StoredWithin, LoadedWithin, AtMost
  <1> QED
    BY <1>1, <1>3, WithinFinish DEF WithinInv

LEMMA WithinStep == TypeInv /\ WithinInv /\ [Next]_vars => WithinInv'
  <1> SUFFICES ASSUME TypeInv, WithinInv, [Next]_vars PROVE WithinInv'
    OBVIOUS
  <1>1. ASSUME NEW o \in Orders, CreateInbound(o) PROVE WithinInv'
    BY <1>1 DEF CreateInbound, clientVars, WithinInv, StoredWithin, LoadedWithin, PayloadWithin,
                AtMost
  <1>2. ASSUME NEW c \in Clients, Handle(c) PROVE WithinInv'
    <2>1. CASE StartReceive(c) \/ StartConfirm(c)
      <3>1. /\ pc'[c] = "lines" /\ UNCHANGED <<line, ledger, plan>>
            /\ \A d \in Clients \ {c} : /\ pc'[d] = pc[d] /\ req'[d] = req[d]
                                        /\ seen'[d] = seen[d]
        BY <2>1 DEF StartReceive, StartConfirm, ReadOrder, Goto, TypeInv, TypeOK
      <3> QED
        BY <3>1 DEF WithinInv, StoredWithin, LoadedWithin, PayloadWithin, AtMost
    <2>2. CASE Abandon(c) \/ ReceiveRefused(c) \/ ConfirmRefused(c) \/ ConfirmFails(c)
      <3>1. Finish(c) /\ UNCHANGED <<line, ledger>>
        BY <2>2 DEF Abandon, ReceiveRefused, ConfirmRefused, ConfirmFails
      <3> QED
        BY <3>1, WithinFinish DEF WithinInv, StoredWithin, AtMost
    <2>3. CASE ReadLines(c)
      BY <2>3, WithinReadLines
    <2>4. CASE CommitReceive(c)
      BY <2>4, WithinCommitReceive
    <2>5. CASE PlanLine(c)
      BY <2>5, WithinPlanLine
    <2>6. CASE FlushPlan(c)
      BY <2>6 DEF FlushPlan, Goto, TypeInv, TypeOK, WithinInv, StoredWithin, LoadedWithin,
                  PayloadWithin, AtMost
    <2>7. CASE CommitConfirm(c)
      BY <2>7, WithinCommitConfirm
    <2> QED
      BY <1>2, <2>1, <2>2, <2>3, <2>4, <2>5, <2>6, <2>7 DEF Handle
  <1>3. CASE UNCHANGED vars
    BY <1>3 DEF vars, clientVars, WithinInv, StoredWithin, LoadedWithin, PayloadWithin, AtMost
  <1> QED
    BY <1>1, <1>2, <1>3 DEF Next

(* Nothing beyond the purchase request is ever posted for an order, however*)
(* many counts and confirmations race for it.                              *)
THEOREM RequestsAreNotExceeded == Spec => []PostedWithinRequest
  <1>1. WithinInv => PostedWithinRequest
    BY DEF WithinInv, StoredWithin, PostedWithinRequest, Posted, AtMost
  <1> QED
    BY <1>1, TypeInit, TypeStep, WithinInit, WithinStep, PTL DEF Spec
-----------------------------------------------------------------------------
(* Why an order is posted whole: a confirmation has, for every line it does*)
(* not still have to look at, either a posting planned or one that exists, *)
(* and the unique key makes those it plans new when it commits.            *)
Counted == {"received", "confirmed"}

WholeLoaded ==
    \A c \in Clients :
        /\ pc[c] # "idle" /\ seen[c].order = "received" => order[req[c].o] \in Counted
        /\ pc[c] \in {"post", "flush"} =>
              /\ seen[c].order = "received"
              /\ todo[c] \subseteq LinesOf[req[c].o]
              /\ \A s \in Skus : plan[c][s] # None => s \in LinesOf[req[c].o]
              /\ \A s \in LinesOf[req[c].o] :
                    s \in todo[c] \/ plan[c][s] # None \/ ledger[req[c].o][s] # None

WholeInv == PostedWhole /\ WholeLoaded

LEMMA WholeInit == Init => WholeInv
  BY DEF Init, WholeInv, PostedWhole, WholeLoaded, Posted

LEMMA WholeFinish ==
    ASSUME TypeInv, WholeInv, NEW c \in Clients, Finish(c),
           \A o \in Orders : order[o] \in Counted => order'[o] \in Counted,
           \A o \in Orders, s \in Skus : ledger[o][s] # None => ledger'[o][s] # None
    PROVE  WholeLoaded'
  <1>1. pc'[c] = "idle"
    BY DEF Finish, TypeInv, TypeOK
  <1>2. \A d \in Clients \ {c} :
            /\ pc'[d] = pc[d] /\ req'[d] = req[d] /\ seen'[d] = seen[d]
            /\ todo'[d] = todo[d] /\ plan'[d] = plan[d]
    BY DEF Finish, TypeInv, TypeOK
  <1>3. \A d \in Clients : pc[d] # "idle" => req[d].o \in Orders
    BY DEF TypeInv, RequestsRefer
  <1>4. \A o \in Orders : LinesOf[o] \subseteq Skus
    BY InboundAssumption
  <1> QED
    BY <1>1, <1>2, <1>3, <1>4 DEF WholeInv, WholeLoaded

LEMMA WholeReadLines ==
    ASSUME TypeInv, WholeInv, NEW c \in Clients, ReadLines(c)
    PROVE  WholeInv'
  <1>1. /\ pc[c] = "lines" /\ plan[c] = NoPlan /\ UNCHANGED <<order, ledger, req, plan>>
        /\ seen'[c].order = seen[c].order
        /\ \/ pc'[c] = "write"
           \/ pc'[c] = "post" /\ seen[c].order = "received" /\ todo'[c] = LinesOf[req[c].o]
        /\ \A d \in Clients \ {c} : pc'[d] = pc[d] /\ seen'[d] = seen[d] /\ todo'[d] = todo[d]
    BY DEF ReadLines, Goto, TypeInv, TypeOK
  <1>2. PostedWhole'
    BY <1>1 DEF WholeInv, PostedWhole, Posted
  <1>3. WholeLoaded'
    BY <1>1 DEF WholeInv, WholeLoaded, NoPlan
  <1> QED
    BY <1>2, <1>3 DEF WholeInv

LEMMA WholePlanLine ==
    ASSUME TypeInv, WholeInv, NEW c \in Clients, PlanLine(c)
    PROVE  WholeInv'
  <1>1. PICK s \in todo[c] :
            /\ pc[c] = "post" /\ UNCHANGED <<order, ledger, req, seen>>
            /\ todo' = [todo EXCEPT ![c] = @ \ {s}]
            /\ \/ UNCHANGED <<plan, pc>> /\ ledger[req[c].o][s] # None
               \/ /\ plan' = [plan EXCEPT ![c][s] =
                        [delta  |-> seen[c].lines[s].received - seen[c].lines[s].damaged,
                         priced |-> seen[c].lines[s].priced, was |-> balance[s]]]
                  /\ Goto(c, IF seen[c].lines[s].priced THEN "flush" ELSE "post")
    BY DEF PlanLine
  <1>2. /\ s \in Skus /\ todo \in [Clients -> SUBSET Skus]
        /\ plan \in [Clients -> [Skus -> Posting \cup {None}]]
        /\ pc \in [Clients -> {"idle", "lines", "write", "post", "flush"}]
    BY DEF TypeInv, TypeOK
  <1>3. /\ pc'[c] \in {"post", "flush"} /\ todo'[c] = todo[c] \ {s}
        /\ \A d \in Clients \ {c} : pc'[d] = pc[d] /\ todo'[d] = todo[d]
    BY <1>1, <1>2 DEF Goto
  <1> DEFINE posting == [delta  |-> seen[c].lines[s].received - seen[c].lines[s].damaged,
                         priced |-> seen[c].lines[s].priced, was |-> balance[s]]
  <1>4. posting # None
    <2>1. seen[c].lines[s] \in Quantity /\ balance[s] \in Int \cup {None}
      BY <1>2 DEF TypeInv, TypeOK
    <2>2. posting \in Posting
      BY <2>1, PostingType
    <2> QED
      BY <2>2, InboundAssumption
  <1> HIDE DEF posting
  <1>5. /\ plan'[c][s] # None \/ ledger[req[c].o][s] # None
        /\ \A t \in Skus : t # s => plan'[c][t] = plan[c][t]
        /\ plan'[c][s] # None => plan[c][s] # None \/ plan'[c][s] = posting
        /\ \A d \in Clients \ {c} : plan'[d] = plan[d]
    <2>1. CASE UNCHANGED plan /\ ledger[req[c].o][s] # None
      BY <2>1
    <2>2. CASE plan' = [plan EXCEPT ![c][s] = posting]
      BY <2>2, <1>2, <1>4
    <2> QED
      BY <1>1, <2>1, <2>2 DEF posting
  <1>6. /\ seen[c].order = "received" /\ todo[c] \subseteq LinesOf[req[c].o]
        /\ \A t \in Skus : plan[c][t] # None => t \in LinesOf[req[c].o]
        /\ \A t \in LinesOf[req[c].o] :
              t \in todo[c] \/ plan[c][t] # None \/ ledger[req[c].o][t] # None
        /\ order[req[c].o] \in Counted
    BY <1>1 DEF WholeInv, WholeLoaded
  <1>7. LinesOf[req[c].o] \subseteq Skus
    BY <1>1, InboundAssumption DEF TypeInv, RequestsRefer
  <1>8. ASSUME NEW d \in Clients
        PROVE  /\ pc'[d] # "idle" /\ seen[d].order = "received" => order[req[d].o] \in Counted
               /\ pc'[d] \in {"post", "flush"} =>
                    /\ seen[d].order = "received"
                    /\ todo'[d] \subseteq LinesOf[req[d].o]
                    /\ \A t \in Skus : plan'[d][t] # None => t \in LinesOf[req[d].o]
                    /\ \A t \in LinesOf[req[d].o] :
                          t \in todo'[d] \/ plan'[d][t] # None \/ ledger[req[d].o][t] # None
    <2>1. CASE d = c
      <3>1. \A t \in Skus : plan'[c][t] # None => t \in LinesOf[req[c].o]
        BY <1>1, <1>5, <1>6
      <3>2. \A t \in LinesOf[req[c].o] :
                t \in todo'[c] \/ plan'[c][t] # None \/ ledger[req[c].o][t] # None
        BY <1>3, <1>5, <1>6, <1>7
      <3> QED
        BY <2>1, <3>1, <3>2, <1>3, <1>6
    <2>2. CASE d # c
      BY <2>2, <1>3, <1>5 DEF WholeInv, WholeLoaded
    <2> QED
      BY <2>1, <2>2
  <1>9. WholeLoaded'
    BY <1>1, <1>8 DEF WholeLoaded
  <1>10. PostedWhole'
    BY <1>1 DEF WholeInv, PostedWhole, Posted
  <1> QED
    BY <1>9, <1>10 DEF WholeInv

LEMMA WholeCommitReceive ==
    ASSUME TypeInv, WholeInv, NEW c \in Clients, CommitReceive(c)
    PROVE  WholeInv'
  <1>1. /\ Finish(c) /\ ledger' = ledger
        /\ order' = [order EXCEPT ![req[c].o] = "received"]
    BY DEF CommitReceive
  <1>2. \A o \in Orders : order'[o] = order[o] \/ order'[o] = "received"
    BY <1>1 DEF TypeInv, TypeOK
  <1>3. WholeLoaded'
    BY <1>1, <1>2, WholeFinish DEF Counted
  <1>4. PostedWhole'
    BY <1>1, <1>2 DEF WholeInv, PostedWhole, Posted
  <1> QED
    BY <1>3, <1>4 DEF WholeInv

LEMMA WholeCommitConfirm ==
    ASSUME TypeInv, WholeInv, NEW c \in Clients, CommitConfirm(c)
    PROVE  WholeInv'
  <1> DEFINE o == req[c].o
  <1>1. /\ pc[c] = "post" /\ todo[c] = {} /\ ~Conflict(c) /\ Finish(c) /\ o \in Orders
        /\ order' = [order EXCEPT ![o] = "confirmed"]
    BY DEF CommitConfirm, TypeInv, RequestsRefer
  <1>2. /\ \A q \in Orders, s \in Skus : ledger'[q][s] =
              IF q = o /\ plan[c][s] # None
              THEN [delta |-> plan[c][s].delta, priced |-> plan[c][s].priced]
              ELSE ledger[q][s]
    BY DEF CommitConfirm, Planned, TypeInv, TypeOK
  <1>3. \A s \in Skus : plan[c][s] # None =>
            [delta |-> plan[c][s].delta, priced |-> plan[c][s].priced] # None
    <2>1. ASSUME NEW s \in Skus, plan[c][s] # None
          PROVE  [delta |-> plan[c][s].delta, priced |-> plan[c][s].priced] \in Entry
      <3>1. plan[c][s] \in Posting
        BY <2>1 DEF TypeInv, TypeOK
      <3> QED
        BY <3>1 DEF Posting, Entry
    <2> QED
      BY <2>1, InboundAssumption
  <1>4. \A q \in Orders, s \in Skus :
            ledger'[q][s] # None <=> ledger[q][s] # None \/ (q = o /\ plan[c][s] # None)
    BY <1>2, <1>3
  <1>5. \A q \in Orders : /\ q # o => order'[q] = order[q]
                          /\ q = o => order'[q] = "confirmed"
    BY <1>1 DEF TypeInv, TypeOK
  <1>6. WholeLoaded'
    BY <1>1, <1>4, <1>5, WholeFinish DEF Counted
  <1>7. LinesOf[o] \subseteq Skus /\ Posted(o) \subseteq LinesOf[o]
    BY <1>1, InboundAssumption DEF WholeInv, PostedWhole
  <1>8. {s \in Skus : ledger'[o][s] # None} = LinesOf[o]
    BY <1>1, <1>4, <1>7 DEF WholeInv, WholeLoaded, Posted
  <1>9. ASSUME NEW q \in Orders, q # o
        PROVE  {s \in Skus : ledger'[q][s] # None} = Posted(q)
    BY <1>4, <1>9 DEF Posted
  <1>10. PostedWhole'
    BY <1>1, <1>5, <1>8, <1>9 DEF WholeInv, PostedWhole, Posted
  <1> QED
    BY <1>6, <1>10 DEF WholeInv

LEMMA WholeStep == TypeInv /\ WholeInv /\ [Next]_vars => WholeInv'
  <1> SUFFICES ASSUME TypeInv, WholeInv, [Next]_vars PROVE WholeInv'
    OBVIOUS
  <1>1. ASSUME NEW o \in Orders, CreateInbound(o) PROVE WholeInv'
    <2>1. /\ order[o] = "absent" /\ order' = [order EXCEPT ![o] = "expected"]
          /\ UNCHANGED <<ledger, pc, req, seen, todo, plan>>
      BY <1>1 DEF CreateInbound, clientVars
    <2> order \in [Orders -> Status]
      BY DEF TypeInv, TypeOK
    <2>2. \A q \in Orders : order'[q] = order[q] \/ (q = o /\ order'[q] = "expected")
      BY <2>1
    <2>3. PostedWhole'
      BY <2>1, <2>2 DEF WholeInv, PostedWhole, Posted
    <2>4. WholeLoaded'
      BY <2>1, <2>2 DEF WholeInv, WholeLoaded, Counted, TypeInv, RequestsRefer
    <2> QED
      BY <2>3, <2>4 DEF WholeInv
  <1>2. ASSUME NEW c \in Clients, Handle(c) PROVE WholeInv'
    <2>1. CASE StartReceive(c) \/ StartConfirm(c)
      <3>1. /\ pc'[c] = "lines" /\ UNCHANGED <<order, ledger, todo, plan>>
            /\ seen'[c].order = order[req'[c].o]
            /\ \A d \in Clients \ {c} : /\ pc'[d] = pc[d] /\ req'[d] = req[d]
                                        /\ seen'[d] = seen[d]
        BY <2>1 DEF StartReceive, StartConfirm, ReadOrder, Goto, TypeInv, TypeOK
      <3> QED
        BY <3>1 DEF WholeInv, PostedWhole, WholeLoaded, Posted, Counted
    <2>2. CASE Abandon(c) \/ ReceiveRefused(c) \/ ConfirmRefused(c) \/ ConfirmFails(c)
      <3>1. Finish(c) /\ UNCHANGED <<order, ledger>>
        BY <2>2 DEF Abandon, ReceiveRefused, ConfirmRefused, ConfirmFails
      <3> QED
        BY <3>1, WholeFinish DEF WholeInv, PostedWhole, Posted
    <2>3. CASE ReadLines(c)
      BY <2>3, WholeReadLines
    <2>4. CASE CommitReceive(c)
      BY <2>4, WholeCommitReceive
    <2>5. CASE PlanLine(c)
      BY <2>5, WholePlanLine
    <2>6. CASE FlushPlan(c)
      <3>1. /\ pc[c] = "flush" /\ pc'[c] = "post"
            /\ \A d \in Clients \ {c} : pc'[d] = pc[d]
            /\ UNCHANGED <<order, ledger, req, seen, todo, plan>>
        BY <2>6 DEF FlushPlan, Goto, TypeInv, TypeOK
      <3> QED
        BY <3>1 DEF WholeInv, PostedWhole, WholeLoaded, Posted
    <2>7. CASE CommitConfirm(c)
      BY <2>7, WholeCommitConfirm
    <2> QED
      BY <1>2, <2>1, <2>2, <2>3, <2>4, <2>5, <2>6, <2>7 DEF Handle
  <1>3. CASE UNCHANGED vars
    BY <1>3 DEF vars, clientVars, WholeInv, PostedWhole, WholeLoaded, Posted
  <1> QED
    BY <1>1, <1>2, <1>3 DEF Next

(* An order is posted whole or not at all, and a confirmed order is posted,*)
(* for any number of racing counts and confirmations.                      *)
THEOREM OrdersArePostedWhole == Spec => []PostedWhole
  <1>1. WholeInv => PostedWhole
    BY DEF WholeInv
  <1> QED
    BY <1>1, TypeInit, TypeStep, WholeInit, WholeStep, PTL DEF Spec

-----------------------------------------------------------------------------
(* Only a commit of a confirmation changes transactions and balances, and  *)
(* for each sku it adds the posting of one order at most.                  *)
LEMMA OthersPostNothing ==
    ASSUME [Next]_vars, ~\E c \in Clients : CommitConfirm(c)
    PROVE  ledger' = ledger /\ balance' = balance
  BY DEF Next, vars, CreateInbound, Handle, StartReceive, StartConfirm, ReadOrder,
         Abandon, ReadLines, ReceiveRefused, CommitReceive, ConfirmRefused, PlanLine,
         FlushPlan, ConfirmFails

LEMMA ConfirmPosts ==
    ASSUME TypeInv, NEW c \in Clients, CommitConfirm(c)
    PROVE  /\ req[c].o \in Orders /\ pc[c] = "post"
           /\ \A q \in Orders \ {req[c].o}, s \in Skus : ledger'[q][s] = ledger[q][s]
           /\ \A s \in Skus : plan[c][s] = None =>
                 ledger'[req[c].o][s] = ledger[req[c].o][s] /\ balance'[s] = balance[s]
           /\ \A s \in Skus : plan[c][s] # None =>
                 /\ plan[c][s] \in Posting
                 /\ ledger[req[c].o][s] = None /\ ledger'[req[c].o][s] # None
                 /\ ledger'[req[c].o][s].delta = plan[c][s].delta
                 /\ plan[c][s].was = None => balance[s] = None
                 /\ balance'[s] = NewBalance(balance[s], plan[c][s])
  <1> DEFINE o == req[c].o
             entry(s) == [delta |-> plan[c][s].delta, priced |-> plan[c][s].priced]
  <1>1. o \in Orders /\ pc[c] = "post" /\ ~Conflict(c)
    BY DEF CommitConfirm, TypeInv, RequestsRefer
  <1>2. \A q \in Orders, s \in Skus :
            ledger'[q][s] = IF q = o /\ plan[c][s] # None THEN entry(s) ELSE ledger[q][s]
    BY DEF CommitConfirm, Planned, TypeInv, TypeOK
  <1>3. \A s \in Skus :
            balance'[s] = IF plan[c][s] # None THEN NewBalance(balance[s], plan[c][s])
                                               ELSE balance[s]
    BY DEF CommitConfirm, Planned
  <1>4. ASSUME NEW s \in Skus, plan[c][s] # None
        PROVE  /\ plan[c][s] \in Posting /\ entry(s) # None /\ entry(s).delta = plan[c][s].delta
               /\ ledger[o][s] = None
               /\ plan[c][s].was = None => balance[s] = None
    <2>1. plan[c][s] \in Posting
      BY <1>4 DEF TypeInv, TypeOK
    <2>2. entry(s) \in Entry
      BY <2>1 DEF Posting, Entry
    <2>3. ledger[o][s] = None /\ (plan[c][s].was = None => balance[s] = None)
      BY <1>1, <1>4 DEF Conflict, Planned
    <2> QED
      BY <2>1, <2>2, <2>3, InboundAssumption
  <1> HIDE DEF entry, o
  <1>5. \A q \in Orders \ {o}, s \in Skus : ledger'[q][s] = ledger[q][s]
    BY <1>2
  <1>6. \A s \in Skus : plan[c][s] = None =>
            ledger'[o][s] = ledger[o][s] /\ balance'[s] = balance[s]
    BY <1>1, <1>2, <1>3
  <1>7. \A s \in Skus : plan[c][s] # None =>
            /\ ledger'[o][s] # None /\ ledger'[o][s].delta = plan[c][s].delta
            /\ balance'[s] = NewBalance(balance[s], plan[c][s])
    BY <1>1, <1>2, <1>3, <1>4
  <1> QED
    BY <1>1, <1>4, <1>5, <1>6, <1>7 DEF o

-----------------------------------------------------------------------------
(* The sum of what was posted for a sku.                                   *)
FewPosted == \A s \in Skus : IsFiniteSet({o \in Orders : ledger[o][s] # None})

NoneNegative(s) == \A o \in Orders : ledger[o][s] # None => ledger[o][s].delta >= 0

LEMMA PostedSumType ==
    ASSUME TypeInv, FewPosted, NEW s \in Skus
    PROVE  PostedSum(s) \in Int /\ (NoneNegative(s) => PostedSum(s) >= 0)
  <1> DEFINE H == {o \in Orders : ledger[o][s] # None}
             f == [o \in H |-> ledger[o][s].delta]
  <1>1. PostedSum(s) = SumFunctionOnSet(f, H) /\ IsFiniteSet(H)
    BY DEF PostedSum, SumFunction, FewPosted
  <1>2. \A o \in H : f[o] \in Int /\ (NoneNegative(s) => f[o] \in Nat)
    BY DEF TypeInv, TypeOK, Entry, NoneNegative
  <1> HIDE DEF H, f
  <1>3. SumFunctionOnSet(f, H) \in Int
    BY <1>1, <1>2, SumType
  <1>4. NoneNegative(s) => SumFunctionOnSet(f, H) \in Nat
    BY <1>1, <1>2, SumNonnegative
  <1> QED
    BY <1>1, <1>3, <1>4

(* One posting more counts with its quantity.                              *)
LEMMA OneMorePosted ==
    ASSUME TypeInv, TypeInv', FewPosted, NEW s \in Skus, NEW o \in Orders,
           ledger[o][s] = None, ledger'[o][s] # None,
           \A q \in Orders \ {o} : ledger'[q][s] = ledger[q][s]
    PROVE  /\ PostedSum(s)' = PostedSum(s) + ledger'[o][s].delta
           /\ IsFiniteSet({q \in Orders : ledger'[q][s] # None})
  <1> DEFINE H == {q \in Orders : ledger[q][s] # None}
             f == [q \in H |-> ledger[q][s].delta]
             K == {q \in Orders : ledger'[q][s] # None}
             g == [q \in K |-> ledger'[q][s].delta]
  <1>1. IsFiniteSet(H) /\ K = H \cup {o} /\ o \notin H
    BY DEF FewPosted
  <1>2. PostedSum(s) = SumFunctionOnSet(f, H) /\ PostedSum(s)' = SumFunctionOnSet(g, K)
    BY DEF PostedSum, SumFunction
  <1>3. \A q \in H : f[q] = g[q]
    BY <1>1
  <1>4. (\A q \in K : g[q] \in Int) /\ g[o] = ledger'[o][s].delta
    BY <1>1 DEF TypeInv, TypeOK, Entry
  <1> HIDE DEF H, f, K, g
  <1>5. SumFunctionOnSet(g, K) = g[o] + SumFunctionOnSet(g, H)
    BY <1>1, <1>4, SumInsert
  <1>6. SumFunctionOnSet(f, H) = SumFunctionOnSet(g, H)
    BY <1>1, <1>3, SumEqual
  <1>7. SumFunctionOnSet(g, H) \in Int /\ g[o] \in Int
    BY <1>1, <1>4, SumType
  <1>8. IsFiniteSet(K)
    BY <1>1, FS_AddElement
  <1> QED
    BY <1>2, <1>4, <1>5, <1>6, <1>7, <1>8 DEF K

LEMMA SamePosted ==
    ASSUME NEW s \in Skus, \A q \in Orders : ledger'[q][s] = ledger[q][s]
    PROVE  /\ PostedSum(s)' = PostedSum(s)
           /\ {q \in Orders : ledger'[q][s] # None} = {q \in Orders : ledger[q][s] # None}
           /\ NoneNegative(s)' <=> NoneNegative(s)
  <1>1. {q \in Orders : ledger'[q][s] # None} = {q \in Orders : ledger[q][s] # None}
    OBVIOUS
  <1>2. [q \in {x \in Orders : ledger'[x][s] # None} |-> ledger'[q][s].delta]
            = [q \in {x \in Orders : ledger[x][s] # None} |-> ledger[q][s].delta]
    BY <1>1
  <1> QED
    BY <1>1, <1>2 DEF PostedSum, NoneNegative

LEMMA FewInit == Init => FewPosted
  <1> SUFFICES ASSUME Init, NEW s \in Skus PROVE IsFiniteSet({o \in Orders : ledger[o][s] # None})
    BY DEF FewPosted
  <1>1. {o \in Orders : ledger[o][s] # None} = {}
    BY DEF Init
  <1> QED
    BY <1>1, FS_EmptySet

LEMMA FewStep == TypeInv /\ FewPosted /\ [Next]_vars => FewPosted'
  <1> SUFFICES ASSUME TypeInv, FewPosted, [Next]_vars, NEW s \in Skus
               PROVE  IsFiniteSet({o \in Orders : ledger'[o][s] # None})
    BY DEF FewPosted
  <1>0. TypeInv'
    BY TypeStep
  <1>1. CASE \E c \in Clients : CommitConfirm(c)
    <2>1. PICK c \in Clients : CommitConfirm(c)
      BY <1>1
    <2>2. CASE plan[c][s] = None
      <3>1. \A q \in Orders : ledger'[q][s] = ledger[q][s]
        BY <2>1, <2>2, ConfirmPosts
      <3> QED
        BY <3>1, SamePosted DEF FewPosted
    <2>3. CASE plan[c][s] # None
      <3>1. /\ req[c].o \in Orders
            /\ ledger[req[c].o][s] = None /\ ledger'[req[c].o][s] # None
            /\ \A q \in Orders \ {req[c].o} : ledger'[q][s] = ledger[q][s]
        BY <2>1, <2>3, ConfirmPosts
      <3> QED
        BY <1>0, <3>1, OneMorePosted
    <2> QED
      BY <2>2, <2>3
  <1>2. CASE ~\E c \in Clients : CommitConfirm(c)
    BY <1>2, OthersPostNothing DEF FewPosted
  <1> QED
    BY <1>1, <1>2

-----------------------------------------------------------------------------
(* Racing confirmations lose stock but invent none: what a confirmation has*)
(* read of a balance is at most what had been posted, and the sum of the   *)
(* postings only grows as long as none is negative.                        *)
OnHand(s) == IF balance[s] = None THEN 0 ELSE balance[s]

BalanceInv ==
    \A s \in Skus : NoneNegative(s) =>
        /\ OnHand(s) <= PostedSum(s)
        /\ \A c \in Clients : plan[c][s] # None /\ plan[c][s].was # None
                                => plan[c][s].was <= PostedSum(s)

LEMMA BalanceInit == Init => BalanceInv
  <1> SUFFICES ASSUME Init, NEW s \in Skus
               PROVE  /\ OnHand(s) <= PostedSum(s)
                      /\ \A c \in Clients : plan[c][s] = None
    BY DEF BalanceInv
  <1>1. OnHand(s) = 0 /\ \A c \in Clients : plan[c][s] = None
    BY DEF Init, OnHand, NoPlan
  <1>2. PostedSum(s) >= 0 /\ PostedSum(s) \in Int
    <2>1. NoneNegative(s)
      BY DEF Init, NoneNegative
    <2> QED
      BY <2>1, TypeInit, FewInit, PostedSumType
  <1> QED
    BY <1>1, <1>2

(* What a step other than a commit of a confirmation does to the plans.    *)
LEMMA PlansKept ==
    ASSUME TypeInv, [Next]_vars, ~\E c \in Clients : CommitConfirm(c),
           NEW c \in Clients, NEW s \in Skus, plan'[c][s] # None
    PROVE  \/ plan'[c][s] = plan[c][s]
           \/ plan'[c][s].was = balance[s]
  <1> plan \in [Clients -> [Skus -> Posting \cup {None}]]
    BY DEF TypeInv, TypeOK
  <1>1. CASE \E d \in Clients : PlanLine(d)
    <2>1. PICK d \in Clients : PlanLine(d)
      BY <1>1
    <2>2. PICK t \in todo[d] :
              \/ plan' = plan
              \/ plan' = [plan EXCEPT ![d][t] =
                    [delta  |-> seen[d].lines[t].received - seen[d].lines[t].damaged,
                     priced |-> seen[d].lines[t].priced, was |-> balance[t]]]
      BY <2>1 DEF PlanLine
    <2> QED
      BY <2>2
  <1>2. CASE \E d \in Clients : Finish(d)
    <2>1. PICK d \in Clients : plan' = [plan EXCEPT ![d] = NoPlan]
      BY <1>2 DEF Finish
    <2> QED
      BY <2>1 DEF NoPlan
  <1>3. CASE plan' = plan
    BY <1>3
  <1>4. \/ \E d \in Clients : PlanLine(d)
        \/ \E d \in Clients : Finish(d)
        \/ plan' = plan
    BY DEF Next, vars, clientVars, CreateInbound, Handle, StartReceive, StartConfirm, ReadOrder,
           Abandon, ReadLines, ReceiveRefused, CommitReceive, ConfirmRefused, FlushPlan,
           ConfirmFails
  <1> QED
    BY <1>1, <1>2, <1>3, <1>4

LEMMA BalanceStep == TypeInv /\ FewPosted /\ BalanceInv /\ [Next]_vars => BalanceInv'
  <1> SUFFICES ASSUME TypeInv, FewPosted, BalanceInv, [Next]_vars,
                      NEW s \in Skus, NoneNegative(s)'
               PROVE  /\ OnHand(s)' <= PostedSum(s)'
                      /\ \A c \in Clients : plan'[c][s] # None /\ plan'[c][s].was # None
                                              => plan'[c][s].was <= PostedSum(s)'
    BY DEF BalanceInv
  <1>0. TypeInv' /\ balance[s] \in Int \cup {None} /\ OnHand(s) \in Int
    BY TypeStep DEF TypeInv, TypeOK, OnHand
  <1>1. CASE \E c \in Clients : CommitConfirm(c)
    <2>1. PICK c \in Clients : CommitConfirm(c)
      BY <1>1
    <2> DEFINE o == req[c].o
    <2>2. NoneNegative(s)
      BY <2>1, ConfirmPosts DEF NoneNegative
    <2>3. PostedSum(s) \in Int /\ PostedSum(s) >= 0 /\ OnHand(s) <= PostedSum(s)
      BY <2>2, PostedSumType DEF BalanceInv
    <2>4. /\ plan'[c] = NoPlan
          /\ \A d \in Clients \ {c} : plan'[d] = plan[d]
      BY <2>1 DEF CommitConfirm, Finish, TypeInv, TypeOK
    <2>5. CASE plan[c][s] = None
      <3>1. (\A q \in Orders : ledger'[q][s] = ledger[q][s]) /\ balance'[s] = balance[s]
        BY <2>1, <2>5, ConfirmPosts
      <3>2. PostedSum(s)' = PostedSum(s)
        BY <3>1, SamePosted
      <3> QED
        BY <2>2, <2>3, <2>4, <3>1, <3>2 DEF BalanceInv, OnHand, NoPlan
    <2>6. CASE plan[c][s] # None
      <3> DEFINE x == plan[c][s]
      <3>1. /\ o \in Orders /\ x \in Posting
            /\ ledger[o][s] = None /\ ledger'[o][s] # None /\ ledger'[o][s].delta = x.delta
            /\ \A q \in Orders \ {o} : ledger'[q][s] = ledger[q][s]
            /\ x.was = None => balance[s] = None
            /\ balance'[s] = NewBalance(balance[s], x)
        BY <2>1, <2>6, ConfirmPosts
      <3>2. PostedSum(s)' = PostedSum(s) + x.delta
        BY <1>0, <3>1, OneMorePosted
      <3>3. x.delta \in Int /\ x.delta >= 0 /\ x.was \in Int \cup {None}
        BY <3>1 DEF NoneNegative, Posting
      <3>4. x.was # None => x.was <= PostedSum(s)
        BY <2>2, <2>6 DEF BalanceInv
      <3>5. OnHand(s)' <= PostedSum(s)'
        <4>1. CASE x.was = None
          BY <1>0, <2>3, <3>1, <3>2, <3>3, <4>1 DEF OnHand, NewBalance
        <4>2. CASE x.was # None /\ x.delta = 0
          <5>1. balance'[s] = balance[s]
            BY <3>1, <3>3, <4>2 DEF NewBalance, Emit
          <5> QED
            BY <2>3, <3>2, <4>2, <5>1 DEF OnHand
        <4>3. CASE x.was # None /\ x.delta # 0
          <5>1. balance'[s] = x.was + x.delta
            BY <3>1, <3>3, <4>3 DEF NewBalance, Emit
          <5>2. OnHand(s)' = x.was + x.delta
            BY <3>3, <4>3, <5>1, InboundAssumption DEF OnHand
          <5> QED
            BY <2>3, <3>2, <3>3, <3>4, <4>3, <5>2
        <4> QED
          BY <4>1, <4>2, <4>3
      <3>6. ASSUME NEW d \in Clients, plan'[d][s] # None, plan'[d][s].was # None
            PROVE  plan'[d][s].was <= PostedSum(s)'
        <4>1. d # c /\ plan'[d] = plan[d]
          BY <2>4, <3>6 DEF NoPlan
        <4>2. plan[d][s].was <= PostedSum(s) /\ plan[d][s].was \in Int
          BY <2>2, <3>6, <4>1 DEF BalanceInv, TypeInv, TypeOK, Posting
        <4> QED
          BY <2>3, <3>2, <3>3, <4>1, <4>2
      <3> QED
        BY <3>5, <3>6
    <2> QED
      BY <2>5, <2>6
  <1>2. CASE ~\E c \in Clients : CommitConfirm(c)
    <2>1. ledger' = ledger /\ balance' = balance
      BY <1>2, OthersPostNothing
    <2>2. PostedSum(s)' = PostedSum(s) /\ NoneNegative(s)
      BY <2>1, SamePosted
    <2>3. OnHand(s)' <= PostedSum(s)'
      BY <2>1, <2>2 DEF BalanceInv, OnHand
    <2>4. ASSUME NEW c \in Clients, plan'[c][s] # None, plan'[c][s].was # None
          PROVE  plan'[c][s].was <= PostedSum(s)
      <3>1. CASE plan'[c][s] = plan[c][s]
        BY <2>2, <2>4, <3>1 DEF BalanceInv
      <3>2. CASE plan'[c][s].was = balance[s]
        BY <2>2, <2>4, <3>2 DEF BalanceInv, OnHand
      <3> QED
        BY <1>2, <2>4, <3>1, <3>2, PlansKept
    <2> QED
      BY <2>2, <2>3, <2>4
  <1> QED
    BY <1>1, <1>2

-----------------------------------------------------------------------------
(* Requests served one at a time: what a request has loaded is still so,   *)
(* and what is posted is what was accepted.                                *)
Accepted(o, s) == line[o][s].received - line[o][s].damaged

OneAtATime == \A c, d \in Clients : pc[c] # "idle" /\ pc[d] # "idle" => c = d

SeenIsSo ==
    \A c \in Clients : pc[c] # "idle" =>
        /\ seen[c].order = order[req[c].o] /\ seen[c].order # "absent"
        /\ pc[c] = "write" => seen[c].order = "expected"
        /\ pc[c] # "lines" => seen[c].lines = line[req[c].o]
        /\ \A s \in Skus : plan[c][s] # None =>
              plan[c][s].was = balance[s] /\ plan[c][s].delta = Accepted(req[c].o, s)

PostedIsAccepted ==
    \A o \in Orders, s \in Skus : ledger[o][s] # None => ledger[o][s].delta = Accepted(o, s)

NoneLost == \A s \in Skus : OnHand(s) = PostedSum(s)

SerialInv == serial => OneAtATime /\ SeenIsSo /\ PostedIsAccepted /\ NoneLost

LEMMA SerialStays == [Next]_vars => serial' = serial
  BY DEF Next, vars, CreateInbound, Handle, StartReceive, StartConfirm, ReadOrder, Abandon,
         ReadLines, ReceiveRefused, CommitReceive, ConfirmRefused, PlanLine, FlushPlan,
         ConfirmFails, CommitConfirm

LEMMA SerialInit == Init => SerialInv
  <1> SUFFICES ASSUME Init PROVE SerialInv
    OBVIOUS
  <1>1. ASSUME NEW s \in Skus PROVE OnHand(s) = PostedSum(s)
    <2>1. {x \in Orders : ledger[x][s] # None} = {}
      BY DEF Init
    <2>2. PostedSum(s) = SumFunctionOnSet([o \in {} |-> ledger[o][s].delta], {})
      BY <2>1 DEF PostedSum, SumFunction
    <2>3. PostedSum(s) = 0
      BY <2>2, SumEmpty
    <2> QED
      BY <2>3 DEF Init, OnHand
  <1> QED
    BY <1>1 DEF Init, SerialInv, OneAtATime, SeenIsSo, PostedIsAccepted, NoneLost

(* The request that ends was the only one.                                 *)
LEMMA LastOneEnds ==
    ASSUME TypeInv, OneAtATime, NEW c \in Clients, pc[c] # "idle", Finish(c)
    PROVE  OneAtATime' /\ SeenIsSo'
  <1>1. \A d \in Clients : pc'[d] = "idle"
    BY DEF Finish, OneAtATime, TypeInv, TypeOK
  <1> QED
    BY <1>1 DEF OneAtATime, SeenIsSo

LEMMA SerialCommitReceive ==
    ASSUME TypeInv, WholeInv, OneAtATime, SeenIsSo, PostedIsAccepted,
           NEW c \in Clients, CommitReceive(c)
    PROVE  PostedIsAccepted'
  <1>1. pc[c] = "write" /\ req[c].o \in Orders /\ ledger' = ledger
    BY DEF CommitReceive, TypeInv, RequestsRefer
  <1>2. Posted(req[c].o) = {}
    BY <1>1 DEF SeenIsSo, WholeInv, PostedWhole
  <1>3. \A o \in Orders : o # req[c].o => line'[o] = line[o]
    BY <1>1 DEF CommitReceive, TypeInv, TypeOK
  <1> QED
    BY <1>1, <1>2, <1>3 DEF PostedIsAccepted, Accepted, Posted

LEMMA SerialPlanLine ==
    ASSUME TypeInv, OneAtATime, SeenIsSo, NEW c \in Clients, PlanLine(c)
    PROVE  OneAtATime' /\ SeenIsSo'
  <1> DEFINE o == req[c].o
             posting(s) == [delta  |-> seen[c].lines[s].received - seen[c].lines[s].damaged,
                            priced |-> seen[c].lines[s].priced, was |-> balance[s]]
  <1>1. PICK s \in todo[c] :
            /\ pc[c] = "post"
            /\ \/ UNCHANGED <<plan, pc>>
               \/ /\ plan' = [plan EXCEPT ![c][s] = posting(s)]
                  /\ Goto(c, IF seen[c].lines[s].priced THEN "flush" ELSE "post")
            /\ UNCHANGED <<order, line, balance, req, seen>>
    BY DEF PlanLine
  <1>2. /\ pc'[c] \in {"post", "flush"}
        /\ \A d \in Clients \ {c} : pc'[d] = pc[d] /\ plan'[d] = plan[d]
        /\ \A d \in Clients \ {c} : pc[d] = "idle"
    BY <1>1 DEF Goto, OneAtATime, TypeInv, TypeOK
  <1>3. seen[c].lines = line[o]
    BY <1>1 DEF SeenIsSo
  <1>4. posting(s).was = balance[s] /\ posting(s).delta = Accepted(o, s)
    BY <1>3 DEF Accepted
  <1>5. s \in Skus /\ plan \in [Clients -> [Skus -> Posting \cup {None}]]
    BY DEF TypeInv, TypeOK
  <1> HIDE DEF posting
  <1>6. \A t \in Skus : plan'[c][t] # None =>
            plan'[c][t].was = balance[t] /\ plan'[c][t].delta = Accepted(o, t)
    <2>1. \A t \in Skus : plan'[c][t] = plan[c][t] \/ (t = s /\ plan'[c][t] = posting(s))
      BY <1>1, <1>5
    <2> QED
      BY <1>1, <1>4, <2>1 DEF SeenIsSo
  <1> QED
    BY <1>1, <1>2, <1>3, <1>6 DEF OneAtATime, SeenIsSo, Accepted

(* A confirmation that commits raises the balances by what it posts.       *)
LEMMA SerialCommitConfirm ==
    ASSUME TypeInv, FewPosted, OneAtATime, SeenIsSo, PostedIsAccepted, NoneLost,
           NEW c \in Clients, CommitConfirm(c), TypeInv'
    PROVE  PostedIsAccepted' /\ NoneLost'
  <1> DEFINE o == req[c].o
  <1>1. line' = line /\ pc[c] = "post" /\ o \in Orders
    BY ConfirmPosts DEF CommitConfirm
  <1>2. \A s \in Skus : plan[c][s] # None =>
            plan[c][s].was = balance[s] /\ plan[c][s].delta = Accepted(o, s)
    BY <1>1 DEF SeenIsSo
  <1>3. PostedIsAccepted'
    BY <1>1, <1>2, ConfirmPosts DEF PostedIsAccepted, Accepted
  <1>4. ASSUME NEW s \in Skus PROVE OnHand(s)' = PostedSum(s)'
    <2>1. CASE plan[c][s] = None
      <3>1. (\A q \in Orders : ledger'[q][s] = ledger[q][s]) /\ balance'[s] = balance[s]
        BY <2>1, ConfirmPosts
      <3> QED
        BY <3>1, SamePosted DEF NoneLost, OnHand
    <2>2. CASE plan[c][s] # None
      <3> DEFINE x == plan[c][s]
      <3>1. /\ x \in Posting
            /\ ledger[o][s] = None /\ ledger'[o][s] # None /\ ledger'[o][s].delta = x.delta
            /\ \A q \in Orders \ {o} : ledger'[q][s] = ledger[q][s]
            /\ balance'[s] = NewBalance(balance[s], x)
        BY <2>2, ConfirmPosts
      <3>2. PostedSum(s)' = PostedSum(s) + x.delta
        BY <1>1, <3>1, OneMorePosted
      <3>3. x.delta \in Int /\ balance[s] \in Int \cup {None} /\ x.was = balance[s]
        BY <1>2, <2>2, <3>1 DEF Posting, TypeInv, TypeOK
      <3>4. OnHand(s)' = OnHand(s) + x.delta
        <4>1. CASE balance[s] = None
          BY <3>1, <3>3, <4>1, InboundAssumption DEF OnHand, NewBalance
        <4>2. CASE balance[s] # None
          <5>1. balance'[s] = balance[s] + x.delta
            BY <3>1, <3>3, <4>2 DEF NewBalance, Emit
          <5> QED
            BY <3>3, <4>2, <5>1, InboundAssumption DEF OnHand
        <4> QED
          BY <4>1, <4>2
      <3> QED
        BY <3>2, <3>4 DEF NoneLost
    <2> QED
      BY <2>1, <2>2
  <1> QED
    BY <1>3, <1>4 DEF NoneLost

LEMMA SerialStep ==
    TypeInv /\ FewPosted /\ WholeInv /\ SerialInv /\ [Next]_vars => SerialInv'
  <1> SUFFICES ASSUME TypeInv, FewPosted, WholeInv, [Next]_vars, serial,
                      OneAtATime, SeenIsSo, PostedIsAccepted, NoneLost
               PROVE  OneAtATime' /\ SeenIsSo' /\ PostedIsAccepted' /\ NoneLost'
    BY SerialStays DEF SerialInv
  <1>0. TypeInv'
    BY TypeStep
  <1>1. CASE \E c \in Clients : CommitConfirm(c)
    <2>1. PICK c \in Clients : CommitConfirm(c)
      BY <1>1
    <2>2. pc[c] # "idle" /\ Finish(c)
      BY <2>1 DEF CommitConfirm
    <2> QED
      BY <1>0, <2>1, <2>2, LastOneEnds, SerialCommitConfirm
  <1>2. CASE ~\E c \in Clients : CommitConfirm(c)
    <2>1. ledger' = ledger /\ balance' = balance
      BY <1>2, OthersPostNothing
    <2>2. NoneLost'
      BY <2>1, SamePosted DEF NoneLost, OnHand
    <2>3. ASSUME NEW o \in Orders, CreateInbound(o)
          PROVE  OneAtATime' /\ SeenIsSo' /\ PostedIsAccepted'
      <3>1. /\ order[o] = "absent" /\ UNCHANGED <<line, pc, req, seen, plan>>
            /\ \A q \in Orders \ {o} : order'[q] = order[q]
        BY <2>3 DEF CreateInbound, clientVars, TypeInv, TypeOK
      <3>2. \A c \in Clients : pc[c] # "idle" => req[c].o \in Orders \ {o}
        BY <3>1 DEF SeenIsSo, TypeInv, RequestsRefer
      <3> QED
        BY <2>1, <3>1, <3>2 DEF OneAtATime, SeenIsSo, PostedIsAccepted, Accepted
    <2>4. ASSUME NEW c \in Clients, Handle(c)
          PROVE  OneAtATime' /\ SeenIsSo' /\ PostedIsAccepted'
      <3>1. CASE StartReceive(c) \/ StartConfirm(c)
        <4>0. PICK op \in {"receive", "confirm"}, o \in Orders, p \in Payloads \cup {None} :
                  ReadOrder(c, op, o, p)
          BY <3>1 DEF StartReceive, StartConfirm
        <4> pc \in [Clients -> {"idle", "lines", "write", "post", "flush"}]
          BY DEF TypeInv, TypeOK
        <4>a. /\ \A d \in Clients : pc[d] = "idle"
              /\ pc'[c] = "lines" /\ \A d \in Clients \ {c} : pc'[d] = "idle"
              /\ UNCHANGED <<order, line, plan>>
          BY <4>0 DEF ReadOrder, Goto
        <4>b. plan[c] = NoPlan
          BY <4>a DEF TypeInv, TypeOK
        <4>c. req'[c].o = o /\ seen'[c].order = order[o] /\ order[o] # "absent"
          BY <4>0 DEF ReadOrder, TypeInv, TypeOK
        <4>1. /\ \A d \in Clients : pc[d] = "idle"
              /\ pc'[c] = "lines" /\ \A d \in Clients \ {c} : pc'[d] = "idle"
              /\ seen'[c].order = order[req'[c].o] /\ order[req'[c].o] # "absent"
              /\ plan[c] = NoPlan /\ UNCHANGED <<order, line, plan>>
          BY <4>a, <4>b, <4>c
        <4> QED
          BY <2>1, <4>1 DEF OneAtATime, SeenIsSo, PostedIsAccepted, Accepted, NoPlan
      <3>2. CASE Abandon(c) \/ ReceiveRefused(c) \/ ConfirmRefused(c) \/ ConfirmFails(c)
        <4>1. pc[c] # "idle" /\ Finish(c) /\ line' = line
          BY <3>2 DEF Abandon, ReceiveRefused, ConfirmRefused, ConfirmFails
        <4> QED
          BY <2>1, <4>1, LastOneEnds DEF PostedIsAccepted, Accepted
      <3>3. CASE ReadLines(c)
        <4>1. /\ pc[c] = "lines" /\ pc'[c] \in {"write", "post"}
              /\ pc'[c] = "write" => seen[c].order = "expected"
              /\ seen'[c].order = seen[c].order /\ seen'[c].lines = line[req[c].o]
              /\ \A d \in Clients \ {c} : pc'[d] = pc[d]
              /\ plan[c] = NoPlan /\ UNCHANGED <<order, line, req, plan>>
          BY <3>3 DEF ReadLines, Goto, TypeInv, TypeOK
        <4>2. \A d \in Clients \ {c} : pc[d] = "idle"
          BY <4>1 DEF OneAtATime
        <4> QED
          BY <2>1, <4>1, <4>2 DEF OneAtATime, SeenIsSo, PostedIsAccepted, Accepted, NoPlan
      <3>4. CASE CommitReceive(c)
        <4>1. pc[c] # "idle" /\ Finish(c)
          BY <3>4 DEF CommitReceive
        <4> QED
          BY <3>4, <4>1, LastOneEnds, SerialCommitReceive
      <3>5. CASE PlanLine(c)
        <4>1. line' = line
          BY <3>5 DEF PlanLine
        <4> QED
          BY <2>1, <3>5, <4>1, SerialPlanLine DEF PostedIsAccepted, Accepted
      <3>6. CASE FlushPlan(c)
        <4>1. /\ pc[c] = "flush" /\ pc'[c] = "post"
              /\ \A d \in Clients \ {c} : pc'[d] = pc[d]
              /\ UNCHANGED <<order, line, req, seen, plan>>
          BY <3>6 DEF FlushPlan, Goto, TypeInv, TypeOK
        <4> QED
          BY <2>1, <4>1 DEF OneAtATime, SeenIsSo, PostedIsAccepted, Accepted
      <3> QED
        BY <1>2, <2>4, <3>1, <3>2, <3>3, <3>4, <3>5, <3>6 DEF Handle
    <2>5. CASE UNCHANGED vars
      <3>1. UNCHANGED <<order, line, ledger, balance, req, pc, seen, plan>>
        BY <2>5 DEF vars, clientVars
      <3>2. OneAtATime' /\ PostedIsAccepted'
        BY <3>1 DEF OneAtATime, PostedIsAccepted, Accepted
      <3>3. SeenIsSo'
        BY <3>1 DEF SeenIsSo, Accepted
      <3> QED
        BY <2>2, <3>2, <3>3
    <2> QED
      BY <2>2, <2>3, <2>4, <2>5 DEF Next
  <1> QED
    BY <1>1, <1>2

-----------------------------------------------------------------------------
(* The progress of a request: no line has received more than was asked for,*)
(* so that the sums can only be equal when every line is.                  *)
LEMMA CompletedLeavesNothing ==
    ASSUME TypeInv, WithinInv, NEW o \in Orders, Requested[o] # None,
           ReceiptProgress(o).status = "completed"
    PROVE  ReceiptProgress(o).remaining = 0
  <1> DEFINE L == LinesOf[o]
             counted == order[o] \in {"received", "confirmed"}
             got == [s \in L |-> IF counted THEN line[o][s].received ELSE 0]
             missing == [s \in L |-> IF got[s] < Requested[o][s] THEN Requested[o][s] - got[s] ELSE 0]
  <1>1. L \subseteq Skus /\ IsFiniteSet(L) /\ Requested[o] \in [Skus -> Nat]
    BY InboundAssumption
  <1>2. \A s \in L : got[s] \in Int /\ Requested[o][s] \in Int /\ got[s] <= Requested[o][s]
    <2>1. \A s \in L : line[o][s].received \in Nat
      BY <1>1 DEF TypeInv, TypeOK, Quantity
    <2>2. \A s \in L : line[o][s].received <= Requested[o][s]
      BY <1>1 DEF WithinInv, StoredWithin, AtMost
    <2> QED
      BY <1>1, <2>1, <2>2
  <1>3. SumFunctionOnSet(Requested[o], L) <= SumFunctionOnSet(got, L)
    <2>1. SumFunctionOnSet(Requested[o], L) \in Int /\ SumFunctionOnSet(got, L) \in Int
      BY <1>1, <1>2, SumType
    <2>2. ~ (SumFunctionOnSet(got, L) < SumFunctionOnSet(Requested[o], L))
      BY DEF ReceiptProgress, SumFunction
    <2> QED
      BY <2>1, <2>2
  <1>4. ReceiptProgress(o).remaining = SumFunctionOnSet(missing, L)
    BY DEF ReceiptProgress, SumFunction
  <1>5. \A s \in L : missing[s] = IF got[s] < Requested[o][s] THEN Requested[o][s] - got[s] ELSE 0
    OBVIOUS
  <1> HIDE DEF L, got, missing
  <1>6. ASSUME NEW s \in L PROVE got[s] = Requested[o][s]
    BY <1>1, <1>2, <1>3, SumSqueeze
  <1>7. \A s \in L : missing[s] = 0
    BY <1>2, <1>5, <1>6
  <1> QED
    BY <1>1, <1>4, <1>7, SumZero

LEMMA ConfirmedAsPosted ==
    ASSUME TypeInv, WholeInv, PostedIsAccepted, NEW o \in Orders, order[o] = "confirmed"
    PROVE  ReceiptProgress(o).accepted = SumFunction([s \in Posted(o) |-> ledger[o][s].delta])
  <1>1. Posted(o) = LinesOf[o]
    BY DEF WholeInv, PostedWhole
  <1>2. [s \in Posted(o) |-> ledger[o][s].delta]
            = [s \in LinesOf[o] |-> IF order[o] \in {"received", "confirmed"}
                                    THEN line[o][s].received - line[o][s].damaged ELSE 0]
    BY <1>1 DEF Posted, PostedIsAccepted, Accepted
  <1> QED
    BY <1>2 DEF ReceiptProgress

StockInv == TypeInv /\ WithinInv /\ WholeInv /\ FewPosted /\ BalanceInv /\ SerialInv

LEMMA StockInit == Init => StockInv
  BY TypeInit, WithinInit, WholeInit, FewInit, BalanceInit, SerialInit DEF StockInv

LEMMA StockStep == StockInv /\ [Next]_vars => StockInv'
  BY TypeStep, WithinStep, WholeStep, FewStep, BalanceStep, SerialStep DEF StockInv

LEMMA StockAgrees == StockInv => StockIsPosted
  <1> SUFFICES ASSUME StockInv PROVE StockIsPosted
    OBVIOUS
  <1>1. ProgressIsTrue
    <2>1. ASSUME NEW o \in Orders, Requested[o] # None
          PROVE  /\ ReceiptProgress(o).status = "completed" => ReceiptProgress(o).remaining = 0
                 /\ serial /\ order[o] = "confirmed" =>
                       ReceiptProgress(o).accepted
                           = SumFunction([s \in Posted(o) |-> ledger[o][s].delta])
      BY <2>1, CompletedLeavesNothing, ConfirmedAsPosted DEF StockInv, SerialInv
    <2> QED
      BY <2>1 DEF ProgressIsTrue
  <1>2. ASSUME NEW s \in Skus
        PROVE  /\ NoneNegative(s) => OnHand(s) <= PostedSum(s)
               /\ serial => OnHand(s) = PostedSum(s)
    BY DEF StockInv, BalanceInv, SerialInv, NoneLost
  <1>3. ASSUME NEW s \in Skus, \A o \in Orders : s \in Posted(o) => ledger[o][s].delta >= 0
        PROVE  NoneNegative(s)
    BY <1>3 DEF Posted, NoneNegative
  <1> QED
    BY <1>1, <1>2, <1>3 DEF StockIsPosted, OnHand

(* Racing confirmations never invent stock, requests served one by one     *)
(* lose none, and the progress that is reported is that of the counts.     *)
THEOREM StockIsAsPosted == Spec => []StockIsPosted
  BY StockInit, StockStep, StockAgrees, PTL DEF Spec

-----------------------------------------------------------------------------
(* Served one at a time, requests implement the stock ledger: a count that *)
(* is written is valid and the first one of its order, and what is posted  *)
(* of an order that is confirmed is all of it at once.                     *)
WriteIsValid == \A c \in Clients : pc[c] = "write" => Valid(req[c].o, req[c].payload)

CountsMakeSense == \A o \in Orders, s \in Skus : line[o][s].damaged <= line[o][s].received

PostedIsConfirmed == \A o \in Orders : Posted(o) # {} => order[o] = "confirmed"

CountInv == WriteIsValid /\ (serial => CountsMakeSense /\ PostedIsConfirmed)

LEMMA CountInit == Init => CountInv
  BY DEF Init, CountInv, WriteIsValid, CountsMakeSense, PostedIsConfirmed, Posted, NoLine

(* What a count writes when nobody has come between.                       *)
LEMMA CountIsWritten ==
    ASSUME StockInv, CountInv, serial, NEW c \in Clients, CommitReceive(c)
    PROVE  /\ req[c].o \in Orders /\ order[req[c].o] = "expected"
           /\ order' = [order EXCEPT ![req[c].o] = "received"]
           /\ ledger' = ledger /\ balance' = balance
           /\ \A q \in Orders \ {req[c].o} : line'[q] = line[q]
           /\ \A s \in Skus : line'[req[c].o][s].damaged <= line'[req[c].o][s].received
  <1> DEFINE o == req[c].o
             p == req[c].payload
  <1> USE DEF StockInv
  <1>1. o \in Orders /\ p \in Payloads /\ pc[c] = "write"
    BY DEF CommitReceive, TypeInv, RequestsRefer
  <1>2. order[o] = "expected" /\ seen[c].lines = line[o]
    BY <1>1 DEF SerialInv, SeenIsSo
  <1>3. \A s \in DOMAIN p : p[s] \in Quantity /\ p[s].damaged <= p[s].received
    BY <1>1, InboundAssumption DEF CountInv, WriteIsValid, Valid
  <1>4. line' = [line EXCEPT ![o] = [s \in Skus |->
                   IF s \in DOMAIN p THEN Reported(@[s], line[o][s], p[s]) ELSE @[s]]]
    BY <1>2 DEF CommitReceive
  <1> HIDE DEF o, p
  <1>5. ASSUME NEW s \in Skus PROVE line'[o][s].damaged <= line'[o][s].received
    <2>1. line'[o][s] = IF s \in DOMAIN p THEN Reported(line[o][s], line[o][s], p[s]) ELSE line[o][s]
      BY <1>1, <1>4 DEF TypeInv, TypeOK
    <2>2. line[o][s].damaged <= line[o][s].received
      BY <1>1 DEF CountInv, CountsMakeSense
    <2>3. CASE s \in DOMAIN p
      <3>1. line'[o][s].received = p[s].received /\ line'[o][s].damaged = p[s].damaged
        BY <2>1, <2>3 DEF Reported, Emit
      <3> QED
        BY <1>3, <2>3, <3>1
    <2> QED
      BY <2>1, <2>2, <2>3
  <1>6. \A q \in Orders \ {o} : line'[q] = line[q]
    BY <1>4 DEF TypeInv, TypeOK
  <1>7. order' = [order EXCEPT ![o] = "received"] /\ ledger' = ledger /\ balance' = balance
    BY DEF CommitReceive, o
  <1> QED
    BY <1>1, <1>2, <1>5, <1>6, <1>7 DEF o

(* Only three kinds of steps touch orders, lines, transactions, balances.  *)
LEMMA OthersTouchNothing ==
    ASSUME [Next]_vars, ~\E o \in Orders : CreateInbound(o),
           ~\E c \in Clients : CommitReceive(c) \/ CommitConfirm(c)
    PROVE  UNCHANGED <<order, line, ledger, balance>>
  BY DEF Next, vars, Handle, StartReceive, StartConfirm, ReadOrder, Abandon, ReadLines,
         ReceiveRefused, ConfirmRefused, PlanLine, FlushPlan, ConfirmFails

LEMMA ValidStep == TypeInv /\ WriteIsValid /\ [Next]_vars => WriteIsValid'
  <1> SUFFICES ASSUME TypeInv, WriteIsValid, [Next]_vars, NEW c \in Clients, pc'[c] = "write"
               PROVE  Valid(req'[c].o, req'[c].payload)
    BY DEF WriteIsValid, Valid
  <1> USE DEF WriteIsValid, TypeInv, TypeOK
  <1>1. ASSUME NEW o \in Orders, CreateInbound(o) PROVE Valid(req'[c].o, req'[c].payload)
    BY <1>1 DEF CreateInbound, clientVars
  <1>2. ASSUME NEW d \in Clients, Handle(d) PROVE Valid(req'[c].o, req'[c].payload)
    <2>1. CASE ReadLines(d)
      BY <2>1 DEF ReadLines, Goto
    <2>2. CASE StartReceive(d) \/ StartConfirm(d)
      <3>1. pc' = [pc EXCEPT ![d] = "lines"] /\ \A e \in Clients \ {d} : req'[e] = req[e]
        BY <2>2 DEF StartReceive, StartConfirm, ReadOrder, Goto
      <3> QED
        BY <3>1
    <2>3. CASE Finish(d)
      <3>1. pc' = [pc EXCEPT ![d] = "idle"] /\ \A e \in Clients \ {d} : req'[e] = req[e]
        BY <2>3 DEF Finish
      <3> QED
        BY <3>1
    <2>4. CASE PlanLine(d) \/ FlushPlan(d)
      BY <2>4 DEF PlanLine, FlushPlan, Goto
    <2> QED
      BY <1>2, <2>1, <2>2, <2>3, <2>4 DEF Handle, Abandon, ReceiveRefused, CommitReceive,
         ConfirmRefused, ConfirmFails, CommitConfirm
  <1>3. CASE UNCHANGED vars
    BY <1>3 DEF vars, clientVars
  <1> QED
    BY <1>1, <1>2, <1>3 DEF Next

LEMMA CountStep == StockInv /\ CountInv /\ [Next]_vars => CountInv'
  <1> SUFFICES ASSUME StockInv, CountInv, [Next]_vars, serial
               PROVE  CountsMakeSense' /\ PostedIsConfirmed'
    BY ValidStep, SerialStays DEF CountInv, StockInv
  <1>0. CountsMakeSense /\ PostedIsConfirmed /\ order \in [Orders -> Status]
    BY DEF CountInv, StockInv, TypeInv, TypeOK
  <1>1. ASSUME NEW o \in Orders, CreateInbound(o) PROVE CountsMakeSense' /\ PostedIsConfirmed'
    BY <1>0, <1>1 DEF CreateInbound, CountsMakeSense, PostedIsConfirmed, Posted
  <1>2. ASSUME NEW c \in Clients, CommitReceive(c) PROVE CountsMakeSense' /\ PostedIsConfirmed'
    <2>1. CountsMakeSense'
      BY <1>0, <1>2, CountIsWritten DEF CountsMakeSense
    <2>2. PostedIsConfirmed'
      BY <1>0, <1>2, CountIsWritten DEF PostedIsConfirmed, Posted
    <2> QED
      BY <2>1, <2>2
  <1>3. ASSUME NEW c \in Clients, CommitConfirm(c) PROVE CountsMakeSense' /\ PostedIsConfirmed'
    <2>1. line' = line /\ order' = [order EXCEPT ![req[c].o] = "confirmed"]
      BY <1>3 DEF CommitConfirm
    <2>2. req[c].o \in Orders /\ \A q \in Orders \ {req[c].o}, s \in Skus : ledger'[q][s] = ledger[q][s]
      BY <1>3, ConfirmPosts DEF StockInv
    <2>3. \A q \in Orders \ {req[c].o} : order'[q] = order[q] /\ Posted(q)' = Posted(q)
      BY <1>0, <2>1, <2>2 DEF Posted
    <2> QED
      BY <1>0, <2>1, <2>3 DEF CountsMakeSense, PostedIsConfirmed
  <1>4. CASE UNCHANGED <<order, line, ledger, balance>>
    BY <1>0, <1>4 DEF CountsMakeSense, PostedIsConfirmed, Posted
  <1> QED
    BY <1>1, <1>2, <1>3, <1>4, OthersTouchNothing

(* A confirmation that commits posts every line of its order at once.      *)
LEMMA ConfirmedWhole ==
    ASSUME StockInv, CountInv, serial, NEW c \in Clients, CommitConfirm(c)
    PROVE  /\ req[c].o \in Orders /\ order[req[c].o] = "received" /\ line' = line
           /\ order' = [order EXCEPT ![req[c].o] = "confirmed"]
           /\ \A q \in Orders \ {req[c].o}, s \in Skus : ledger'[q][s] = ledger[q][s]
           /\ \A s \in Skus :
                 IF s \in LinesOf[req[c].o]
                 THEN /\ ledger'[req[c].o][s] # None
                      /\ ledger'[req[c].o][s].delta = Accepted(req[c].o, s)
                      /\ OnHand(s)' = OnHand(s) + Accepted(req[c].o, s)
                 ELSE ledger'[req[c].o][s] = None /\ OnHand(s)' = OnHand(s)
  <1> DEFINE o == req[c].o
  <1> USE DEF StockInv
  <1>1. /\ o \in Orders /\ pc[c] = "post" /\ todo[c] = {}
        /\ \A q \in Orders \ {o}, s \in Skus : ledger'[q][s] = ledger[q][s]
        /\ line' = line /\ order' = [order EXCEPT ![o] = "confirmed"]
    BY ConfirmPosts DEF CommitConfirm
  <1>2. order[o] = "received"
    BY <1>1 DEF SerialInv, SeenIsSo, WholeInv, WholeLoaded
  <1>3. \A s \in Skus : ledger[o][s] = None
    BY <1>1, <1>2 DEF CountInv, PostedIsConfirmed, Posted
  <1>4. \A s \in Skus : plan[c][s] # None <=> s \in LinesOf[o]
    BY <1>1, <1>3 DEF WholeInv, WholeLoaded
  <1>5. ASSUME NEW s \in Skus, s \notin LinesOf[o]
        PROVE  ledger'[o][s] = None /\ OnHand(s)' = OnHand(s)
    BY <1>1, <1>3, <1>4, <1>5, ConfirmPosts DEF OnHand
  <1>6. ASSUME NEW s \in Skus, s \in LinesOf[o]
        PROVE  /\ ledger'[o][s] # None /\ ledger'[o][s].delta = Accepted(o, s)
               /\ OnHand(s)' = OnHand(s) + Accepted(o, s)
    <2>1. /\ ledger[o][s] = None /\ ledger'[o][s] # None
          /\ ledger'[o][s].delta = plan[c][s].delta
      BY <1>4, <1>6, ConfirmPosts
    <2>2. plan[c][s].delta = Accepted(o, s)
      BY <1>1, <1>4, <1>6 DEF SerialInv, SeenIsSo
    <2>3. PostedSum(s)' = PostedSum(s) + ledger'[o][s].delta
      BY <1>1, <2>1, TypeStep, OneMorePosted DEF Next, Handle
    <2>4. NoneLost /\ NoneLost'
      BY SerialStep, SerialStays DEF Next, Handle, SerialInv
    <2> QED
      BY <2>1, <2>2, <2>3, <2>4 DEF NoneLost
  <1> QED
    BY <1>1, <1>2, <1>5, <1>6

LEMMA LedgerInitHolds == Init => Stock!LedgerInit
  BY DEF Init, Stock!LedgerInit, NoLine

LEMMA LedgerStep ==
    ASSUME StockInv, CountInv, [Next]_vars, serial
    PROVE  Stock!LedgerNext \/ UNCHANGED Stock!ledgerVars
  <1> DEFINE accepted == [o \in Orders |-> [s \in Skus |-> line[o][s].received - line[o][s].damaged]]
             posted == [o \in Orders |-> [s \in Skus |->
                          IF ledger[o][s] = None THEN None ELSE ledger[o][s].delta]]
             onHand == [s \in Skus |-> IF balance[s] = None THEN 0 ELSE balance[s]]
  <1>0. order \in [Orders -> Status]
    BY DEF StockInv, TypeInv, TypeOK
  <1>1. ASSUME NEW o \in Orders, CreateInbound(o) PROVE Stock!LedgerNext
    <2>1. /\ order[o] = "absent" /\ order' = [order EXCEPT ![o] = "expected"]
          /\ UNCHANGED <<line, ledger, balance>>
      BY <1>1 DEF CreateInbound
    <2>2. Stock!Create(o)
      BY <2>1 DEF Stock!Create
    <2> QED
      BY <2>2 DEF Stock!LedgerNext
  <1>2. ASSUME NEW c \in Clients, CommitReceive(c) PROVE Stock!LedgerNext
    <2>1. PICK o \in Orders :
              /\ order[o] = "expected" /\ order' = [order EXCEPT ![o] = "received"]
              /\ ledger' = ledger /\ balance' = balance
              /\ \A q \in Orders \ {o} : line'[q] = line[q]
              /\ \A s \in Skus : line'[o][s].damaged <= line'[o][s].received
      BY <1>2, CountIsWritten
    <2>2. \A q \in Orders \ {o} : accepted'[q] = accepted[q]
      BY <2>1
    <2>3. \A s \in Skus : accepted'[o][s] >= 0
      <3>1. \A s \in Skus : line'[o][s] \in Quantity
        BY TypeStep DEF StockInv, TypeInv, TypeOK
      <3> QED
        BY <2>1, <3>1 DEF Quantity
    <2>4. Stock!Receive(o)
      BY <2>1, <2>2, <2>3 DEF Stock!Receive
    <2> QED
      BY <2>4 DEF Stock!LedgerNext
  <1>3. ASSUME NEW c \in Clients, CommitConfirm(c) PROVE Stock!LedgerNext
    <2>1. PICK o \in Orders :
              /\ order[o] = "received" /\ order' = [order EXCEPT ![o] = "confirmed"]
              /\ line' = line
              /\ \A q \in Orders \ {o}, s \in Skus : ledger'[q][s] = ledger[q][s]
              /\ \A s \in Skus :
                    IF s \in LinesOf[o]
                    THEN /\ ledger'[o][s] # None /\ ledger'[o][s].delta = Accepted(o, s)
                         /\ OnHand(s)' = OnHand(s) + Accepted(o, s)
                    ELSE ledger'[o][s] = None /\ OnHand(s)' = OnHand(s)
      BY <1>3, ConfirmedWhole
    <2>2. posted' = [posted EXCEPT ![o] =
                       [s \in Skus |-> IF s \in LinesOf[o] THEN accepted[o][s] ELSE None]]
      <3>1. posted'[o] = [s \in Skus |-> IF s \in LinesOf[o] THEN accepted[o][s] ELSE None]
        BY <2>1 DEF Accepted
      <3>2. \A q \in Orders \ {o} : posted'[q] = posted[q]
        BY <2>1
      <3> QED
        BY <3>1, <3>2
    <2>3. onHand' = [s \in Skus |-> IF s \in LinesOf[o] THEN onHand[s] + accepted[o][s] ELSE onHand[s]]
      BY <2>1 DEF Accepted, OnHand
    <2>4. Stock!Confirm(o)
      BY <2>1, <2>2, <2>3 DEF Stock!Confirm
    <2> QED
      BY <2>4 DEF Stock!LedgerNext
  <1>4. CASE UNCHANGED <<order, line, ledger, balance>>
    BY <1>4 DEF Stock!ledgerVars
  <1> QED
    BY <1>1, <1>2, <1>3, <1>4, OthersTouchNothing

(* Requests that are served one at a time implement StockLedger.           *)
THEOREM LedgerImplemented == Spec => ImplementsLedger
  <1>1. StockInv /\ CountInv /\ [Next]_vars => [serial => Stock!LedgerNext]_(Stock!ledgerVars)
    BY LedgerStep
  <1>2. Init => StockInv /\ CountInv
    BY StockInit, CountInit
  <1>3. StockInv /\ CountInv /\ [Next]_vars => StockInv' /\ CountInv'
    BY StockStep, CountStep
  <1> QED
    BY <1>1, <1>2, <1>3, LedgerInitHolds, PTL DEF Spec, ImplementsLedger
=============================================================================
