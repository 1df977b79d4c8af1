---------------------------- MODULE LiveSyncProofs ----------------------------
(***************************************************************************)
(* Proofs about LiveSync, for any pages, limits, runs and requests.  Only  *)
(* the run that holds the gate changes, and it is the youngest: the        *)
(* cursors a resumed run began with stay what they were.  A letter has its *)
(* class from the end of its run, so a gate that was passed on a letter    *)
(* read long ago is still passed when the replay begins.                   *)
(***************************************************************************)
EXTENDS LiveSync, FiniteSetTheorems, TLAPS

Count == Cardinality(Used)

(* Runs are numbered as they come; the gate is held by the last one.       *)
UsedInv == Used = 1 .. Count /\ Count \in 0 .. MaxRuns /\ cur \in {0, Count}

(* A source is older than its run, and every run was asked for something.  *)
LineageInv ==
    \A i \in Used :
        /\ runs[i].source < i /\ runs[i].attempt <= i /\ Targets(runs[i]) # {}
        /\ runs[i].key # NoKey => runs[i].source # 0

Distinct(list) == \A m, n \in DOMAIN list : list[m] = list[n] => m = n

(* Where the run at work is: what it has still to visit has pages left.    *)
WalkInv ==
    /\ Distinct(todo)
    /\ step \in {"ingest", "stored"} => todo # <<>> /\ Run.cursor[x0] = Pages[x0]
    /\ cur # 0 => \A x \in Names(todo) :
          ~Skips(x) /\ (step = "visit" \/ x # x0) => Run.cursor[x] < Pages[x]

TypeInv == TypeOK /\ UsedInv /\ LineageInv /\ WalkInv

(* A fetched success is stored, and so are the pages before it is one.     *)
StoreInv ==
    /\ SucceededIsStored
    /\ step = "stored" => Start(Run, x0) + 1 .. Pages[x0] \subseteq stored[x0]

-----------------------------------------------------------------------------
(* Lists of resources *)

LEMMA ListParts ==
    ASSUME NEW q \in Seq(Resources), q # <<>>
    PROVE  /\ Head(q) \in Resources /\ Tail(q) \in Seq(Resources)
           /\ Names(q) = {Head(q)} \cup Names(Tail(q)) /\ Names(q) \subseteq Resources
           /\ Distinct(q) => Distinct(Tail(q)) /\ Head(q) \notin Names(Tail(q))
  <1>1. Len(q) \in Nat /\ Len(q) >= 1 /\ q \in [1 .. Len(q) -> Resources]
    OBVIOUS
  <1>2. /\ Head(q) = q[1] /\ Len(Tail(q)) = Len(q) - 1 /\ Tail(q) \in Seq(Resources)
        /\ \A n \in 1 .. Len(q) - 1 : Tail(q)[n] = q[n + 1]
    BY <1>1
  <1>3. DOMAIN q = 1 .. Len(q) /\ DOMAIN Tail(q) = 1 .. (Len(q) - 1)
    BY <1>1, <1>2
  <1>4. Names(q) \subseteq Resources /\ Head(q) \in Resources
    BY <1>1, <1>2, <1>3 DEF Names
  <1>5. ASSUME NEW n \in DOMAIN q PROVE q[n] = Head(q) \/ q[n] \in Names(Tail(q))
    <2>1. CASE n = 1
      BY <1>2, <2>1
    <2>2. CASE n # 1
      <3>1. n - 1 \in 1 .. Len(q) - 1 /\ Tail(q)[n - 1] = q[n]
        BY <1>1, <1>2, <1>3, <2>2
      <3> QED BY <1>3, <3>1 DEF Names
    <2> QED BY <2>1, <2>2
  <1>6. ASSUME NEW n \in DOMAIN Tail(q) PROVE n + 1 \in DOMAIN q /\ Tail(q)[n] = q[n + 1] /\ n + 1 # 1
    BY <1>1, <1>2, <1>3
  <1>7. Names(q) = {Head(q)} \cup Names(Tail(q))
    <2>1. Names(q) \subseteq {Head(q)} \cup Names(Tail(q))
      BY <1>5 DEF Names
    <2>2. Head(q) \in Names(q)
      BY <1>1, <1>2, <1>3 DEF Names
    <2>3. Names(Tail(q)) \subseteq Names(q)
      BY <1>6 DEF Names
    <2> QED BY <2>1, <2>2, <2>3
  <1>8. Distinct(q) => Distinct(Tail(q)) /\ Head(q) \notin Names(Tail(q))
    <2> SUFFICES ASSUME Distinct(q) PROVE Distinct(Tail(q)) /\ Head(q) \notin Names(Tail(q))
      OBVIOUS
    <2>1. Distinct(Tail(q))
      <3> SUFFICES ASSUME NEW m \in DOMAIN Tail(q), NEW n \in DOMAIN Tail(q), Tail(q)[m] = Tail(q)[n]
                   PROVE m = n
        BY DEF Distinct
      <3>1. m + 1 = n + 1 /\ m \in Int /\ n \in Int
        BY <1>3, <1>6 DEF Distinct
      <3> QED BY <3>1
    <2>2. ASSUME NEW n \in DOMAIN Tail(q), Tail(q)[n] = Head(q) PROVE FALSE
      BY <1>1, <1>2, <1>3, <1>6, <2>2 DEF Distinct
    <2> QED BY <2>1, <2>2 DEF Names
  <1> QED BY <1>2, <1>4, <1>7, <1>8

LEMMA SortedIsList ==
    ASSUME NEW set \in SUBSET Resources, set # {}
    PROVE  /\ Sorted(set) \in Seq(Resources) /\ Sorted(set) # <<>>
           /\ Names(Sorted(set)) = set /\ Distinct(Sorted(set)) /\ Head(Sorted(set)) \in set
  <1>1. CASE set = Resources
    <2>1. Sorted(set) = <<"inventory", "orders">>
      BY <1>1 DEF Sorted
    <2> DEFINE both == <<"inventory", "orders">>
    <2>2. DOMAIN both = {1, 2} /\ both[1] = "inventory" /\ both[2] = "orders"
      OBVIOUS
    <2>3. both \in Seq(Resources) /\ both # <<>> /\ Head(both) \in Resources
      BY DEF Resources
    <2> HIDE DEF both
    <2>4. Names(both) = Resources /\ Distinct(both)
      BY <2>2 DEF Names, Distinct, Resources
    <2> QED BY <1>1, <2>1, <2>3, <2>4 DEF both
  <1>2. CASE set # Resources
    <2> DEFINE only == CHOOSE x \in set : TRUE
    <2>1. Sorted(set) = <<only>> /\ only \in set
      BY <1>2 DEF Sorted
    <2>2. set = {only}
      BY <1>2, <2>1 DEF Resources
    <2>3. only \in Resources
      BY <2>1
    <2> HIDE DEF only
    <2>4. DOMAIN <<only>> = {1} /\ <<only>>[1] = only
      OBVIOUS
    <2> QED BY <2>1, <2>2, <2>3, <2>4 DEF Names, Distinct
  <1> QED BY <1>1, <1>2

-----------------------------------------------------------------------------
(* A step that writes the row of the run at work and no other's source,    *)
(* key or attempt.                                                         *)
RowFrame ==
    /\ cur' = cur
    /\ \A i \in RunIds : /\ runs'[i].source = runs[i].source /\ runs'[i].key = runs[i].key
                         /\ runs'[i].attempt = runs[i].attempt
                         /\ runs'[i].status = "absent" <=> runs[i].status = "absent"
                         /\ i # cur => runs'[i] = runs[i]
    /\ UNCHANGED <<killed, modes>>

LEMMA UsedStays ==
    ASSUME TypeInv, RowFrame
    PROVE  /\ Used' = Used /\ UsedInv' /\ (cur # 0 => cur \in Used)
           /\ \A i \in RunIds : Replays(i)' = Replays(i)
           /\ \A i \in Used, x \in Resources : Start(runs[i], x)' = Start(runs[i], x)
           /\ cur # 0 => \A x \in Resources : Skips(x)' = Skips(x) /\ Start(Run, x)' = Start(Run, x)
  <1>1. MaxRuns \in Nat
    BY LiveSyncAssumption DEF LiveSyncAssumption
  <1>2. Used' = Used
    BY DEF RowFrame, Used
  <1>3. UsedInv' /\ (cur # 0 => cur \in Used)
    BY <1>1, <1>2 DEF TypeInv, UsedInv, Count, RowFrame
  <1>4. \A i \in RunIds : Replays(i)' = Replays(i)
    BY <1>2 DEF Replays, RowFrame, Used
  <1>5. ASSUME NEW i \in Used
        PROVE  /\ runs'[i].source = runs[i].source
               /\ runs[i].source # 0 => runs'[runs[i].source] = runs[runs[i].source]
    <2>1. i \in RunIds /\ i \in 1 .. Count /\ runs[i].source \in 0 .. MaxRuns /\ runs[i].source < i
      <3>1. i \in RunIds /\ i \in 1 .. Count
        BY DEF TypeInv, UsedInv, Used
      <3>2. runs[i] \in RunRow
        BY <3>1 DEF TypeInv, TypeOK
      <3> QED BY <3>1, <3>2 DEF TypeInv, LineageInv, RunRow
    <2>2. cur = 0 \/ cur = Count
      BY DEF TypeInv, UsedInv
    <2>3. runs[i].source # 0 => runs[i].source \in RunIds /\ runs[i].source # cur
      BY <1>1, <2>1, <2>2 DEF RunIds, TypeInv, UsedInv
    <2> QED BY <2>1, <2>3 DEF RowFrame
  <1>6. \A i \in Used, x \in Resources : Start(runs[i], x)' = Start(runs[i], x)
    BY <1>5 DEF Start
  <1>7. cur # 0 => \A x \in Resources : Skips(x)' = Skips(x) /\ Start(Run, x)' = Start(Run, x)
    BY <1>3, <1>5 DEF Skips, Run, Complete, Start, RowFrame
  <1> QED BY <1>2, <1>3, <1>4, <1>6, <1>7

LEMMA RunAtWork ==
    ASSUME TypeInv, cur # 0
    PROVE  /\ cur \in RunIds /\ cur \in Used /\ Run \in RunRow /\ Run.status # "absent"
           /\ Targets(Run) # {} /\ Run.source \in 0 .. MaxRuns
           /\ \A x \in Resources : Run.cursor[x] \in Nat /\ Run.cursor[x] <= Pages[x]
           /\ \A x \in Resources : Pages[x] \in Nat \ {0} /\ Start(Run, x) \in Nat
  <1>1. MaxRuns \in Nat /\ \A x \in Resources : Pages[x] \in Nat \ {0}
    BY LiveSyncAssumption DEF LiveSyncAssumption
  <1>2. cur \in 1 .. Count /\ cur \in Used
    BY <1>1 DEF TypeInv, UsedInv
  <1>3. cur \in RunIds /\ Run.status # "absent"
    BY <1>2 DEF Used, Run
  <1>4. Run \in RunRow
    BY <1>3 DEF TypeInv, TypeOK, Run
  <1>5. Run.source \in 0 .. MaxRuns /\ \A x \in Resources : Run.cursor[x] \in Nat
    BY <1>4 DEF RunRow
  <1>6. \A x \in Resources : Run.cursor[x] <= Pages[x]
    BY <1>3 DEF TypeInv, TypeOK, Run
  <1>7. Targets(Run) # {}
    BY <1>2 DEF TypeInv, LineageInv, Run
  <1>8. ASSUME NEW x \in Resources PROVE Start(Run, x) \in Nat
    <2>1. CASE Run.source = 0
      BY <2>1 DEF Start
    <2>2. CASE Run.source # 0
      <3>1. Run.source \in RunIds
        BY <1>1, <1>5, <2>2 DEF RunIds
      <3>2. runs[Run.source] \in RunRow
        BY <3>1 DEF TypeInv, TypeOK
      <3> QED BY <2>2, <3>2 DEF Start, RunRow
    <2> QED BY <2>1, <2>2
  <1> QED BY <1>1, <1>2, <1>3, <1>4, <1>5, <1>6, <1>7, <1>8

(* What such a step makes of the row.                                      *)
Writes(row) ==
    /\ runs' = [runs EXCEPT ![cur] = row] /\ cur' = cur
    /\ row \in RunRow /\ row.source = Run.source /\ row.key = Run.key
    /\ row.attempt = Run.attempt /\ row.status # "absent"
    /\ \A x \in Resources : row.cursor[x] <= Pages[x]
    /\ Targets(row) # {}
    /\ UNCHANGED <<killed, modes>>

LEMMA RowStep ==
    ASSUME TypeInv, cur # 0, NEW row, Writes(row)
    PROVE  /\ RowFrame /\ runs' \in [RunIds -> RunRow] /\ runs'[cur] = row /\ Run' = row
           /\ \A i \in RunIds, x \in Resources : runs'[i].cursor[x] <= Pages[x]
           /\ LineageInv' /\ UsedInv'
  <1>1. cur \in RunIds /\ cur \in Used /\ Run.status # "absent"
    BY RunAtWork
  <1>2. /\ runs' \in [RunIds -> RunRow] /\ runs'[cur] = row /\ cur' = cur
        /\ \A i \in RunIds : i # cur => runs'[i] = runs[i]
    BY <1>1 DEF Writes, TypeInv, TypeOK
  <1>3. RowFrame
    BY <1>1, <1>2 DEF RowFrame, Writes, Run
  <1>4. \A i \in RunIds, x \in Resources : runs'[i].cursor[x] <= Pages[x]
    BY <1>2 DEF Writes, TypeInv, TypeOK
  <1>5. Used' = Used /\ UsedInv'
    BY <1>3, UsedStays
  <1>6. LineageInv'
    <2> SUFFICES ASSUME NEW i \in Used
                 PROVE  /\ runs'[i].source < i /\ runs'[i].attempt <= i /\ Targets(runs'[i]) # {}
                        /\ runs'[i].key # NoKey => runs'[i].source # 0
      BY <1>5 DEF LineageInv, Targets
    <2>1. CASE i = cur
      BY <1>1, <1>2, <2>1 DEF TypeInv, LineageInv, Writes, Run
    <2>2. CASE i # cur
      BY <1>2, <2>2 DEF TypeInv, LineageInv, Used
    <2> QED BY <2>1, <2>2
  <1> QED BY <1>2, <1>3, <1>4, <1>5, <1>6 DEF Run

-----------------------------------------------------------------------------
(* The actions of the run at work: what row each of them writes. *)

RestStays == UNCHANGED <<letters, loaded>>

LEMMA ContinueWrites ==
    ASSUME TypeInv, cur # 0, todo # <<>>, NEW status \in {"auto", "manual", "succeeded"},
           Continue(status)
    PROVE  LET row == [Run EXCEPT !.res[x0] = status] IN
           /\ Writes(row) /\ row.status = Run.status /\ row.skipped = Run.skipped
           /\ row.cursor = Run.cursor /\ RestStays
           /\ \A x \in Resources : row.res[x] = IF x = x0 THEN status ELSE Run.res[x]
  <1>1. x0 \in Resources
    BY ListParts DEF TypeInv, TypeOK, x0
  <1>2. Run \in RunRow
    BY RunAtWork
  <1> DEFINE row == [Run EXCEPT !.res[x0] = status]
  <1>3. runs' = [runs EXCEPT ![cur] = row]
    BY DEF Continue, Run
  <1>4. /\ row \in RunRow /\ row.source = Run.source /\ row.key = Run.key
        /\ row.attempt = Run.attempt /\ row.status = Run.status /\ row.skipped = Run.skipped
        /\ row.cursor = Run.cursor
        /\ \A x \in Resources : row.res[x] = IF x = x0 THEN status ELSE Run.res[x]
    BY <1>1, <1>2 DEF RunRow, Errors
  <1>5. Targets(row) # {}
    BY <1>1, <1>4 DEF Targets
  <1>6. cur' = cur /\ UNCHANGED <<killed, modes>> /\ RestStays
    BY DEF Continue, others, modes, RestStays
  <1> QED BY <1>3, <1>4, <1>5, <1>6, RunAtWork DEF Writes

LEMMA SkipWrites ==
    ASSUME TypeInv, SkipResource
    PROVE  /\ cur # 0
           /\ \E row : /\ Writes(row) /\ row.status = Run.status
                       /\ row.skipped = Run.skipped \cup {x0}
                       /\ row.cursor = Run.cursor /\ RestStays
                       /\ \A x \in Resources : x # x0 => row.res[x] = Run.res[x]
  <1>1. x0 \in Resources /\ cur # 0
    BY ListParts DEF SkipResource, TypeInv, TypeOK, x0
  <1>2. Run \in RunRow
    BY <1>1, RunAtWork
  <1> DEFINE row == [Run EXCEPT !.res[x0] = "succeeded", !.skipped = @ \cup {x0}]
  <1>3. runs' = [runs EXCEPT ![cur] = row]
    BY DEF SkipResource, Run
  <1>4. /\ row \in RunRow /\ row.source = Run.source /\ row.key = Run.key
        /\ row.attempt = Run.attempt /\ row.status = Run.status
        /\ row.skipped = Run.skipped \cup {x0} /\ row.cursor = Run.cursor
        /\ \A x \in Resources : row.res[x] = IF x = x0 THEN "succeeded" ELSE Run.res[x]
    BY <1>1, <1>2 DEF RunRow, Errors
  <1>5. Targets(row) # {}
    BY <1>1, <1>4 DEF Targets
  <1>6. cur' = cur /\ UNCHANGED <<killed, modes>> /\ RestStays
    BY DEF SkipResource, others, modes, RestStays
  <1> HIDE DEF row
  <1>7. Writes(row)
    BY <1>1, <1>3, <1>4, <1>5, <1>6, RunAtWork DEF Writes
  <1> QED BY <1>1, <1>4, <1>6, <1>7

LEMMA GuardrailWrites ==
    ASSUME TypeInv, GuardrailStops
    PROVE  /\ cur # 0
           /\ \E row : /\ Writes(row) /\ row.status = Run.status /\ row.skipped = Run.skipped
                       /\ row.cursor = Run.cursor /\ RestStays
                       /\ \A x \in Resources : row.res[x] = "guard" \/ row.res[x] = Run.res[x]
  <1>1. x0 \in Resources /\ cur # 0 /\ x0 \in Names(todo)
    BY ListParts DEF GuardrailStops, AtPage, TypeInv, TypeOK, x0
  <1>2. Run \in RunRow
    BY <1>1, RunAtWork
  <1> DEFINE row == [Run EXCEPT !.res =
                       [x \in Resources |-> IF x \in Names(todo) THEN "guard" ELSE @[x]]]
  <1>3. runs' = [runs EXCEPT ![cur] = row]
    BY DEF GuardrailStops, Run
  <1>4. /\ row \in RunRow /\ row.source = Run.source /\ row.key = Run.key
        /\ row.attempt = Run.attempt /\ row.status = Run.status
        /\ row.skipped = Run.skipped /\ row.cursor = Run.cursor
        /\ \A x \in Resources : row.res[x] = IF x \in Names(todo) THEN "guard" ELSE Run.res[x]
    BY <1>1, <1>2 DEF RunRow, Errors
  <1> HIDE DEF row
  <1>5. Targets(row) # {}
    <2>1. row.res[x0] = "guard"
      BY <1>1, <1>4
    <2> QED BY <1>1, <2>1 DEF Targets
  <1>6. cur' = cur /\ UNCHANGED <<killed, modes>> /\ RestStays
    BY DEF GuardrailStops, others, modes, RestStays
  <1>7. Writes(row)
    BY <1>1, <1>3, <1>4, <1>5, <1>6, RunAtWork DEF Writes
  <1> QED BY <1>1, <1>4, <1>6, <1>7

LEMMA FetchWrites ==
    ASSUME TypeInv, FetchPage
    PROVE  /\ cur # 0
           /\ \E row : /\ Writes(row) /\ row.status = Run.status /\ row.skipped = Run.skipped
                       /\ row.res = Run.res /\ RestStays
                       /\ \A x \in Resources : row.cursor[x] = IF x = x0 THEN Run.cursor[x0] + 1
                                                               ELSE Run.cursor[x]
                       /\ Run.cursor[x0] + 1 <= Pages[x0]
  <1>1. x0 \in Resources /\ cur # 0 /\ x0 \in Names(todo) /\ step = "visit" /\ ~Skips(x0)
    BY ListParts DEF FetchPage, AtPage, TypeInv, TypeOK, x0
  <1>2. Run \in RunRow /\ Run.cursor[x0] \in Nat /\ Pages[x0] \in Nat
    BY <1>1, RunAtWork
  <1>3. Run.cursor[x0] + 1 <= Pages[x0]
    BY <1>1, <1>2 DEF TypeInv, WalkInv
  <1> DEFINE row == [Run EXCEPT !.cursor[x0] = Run.cursor[x0] + 1]
  <1>4. runs' = [runs EXCEPT ![cur] = row]
    BY DEF FetchPage, Run
  <1>5. /\ row \in RunRow /\ row.source = Run.source /\ row.key = Run.key
        /\ row.attempt = Run.attempt /\ row.status = Run.status
        /\ row.skipped = Run.skipped /\ row.res = Run.res
        /\ \A x \in Resources : row.cursor[x] = IF x = x0 THEN Run.cursor[x0] + 1 ELSE Run.cursor[x]
    BY <1>1, <1>2 DEF RunRow
  <1>6. Targets(row) # {}
    BY <1>1, <1>5, RunAtWork DEF Targets
  <1>7. cur' = cur /\ UNCHANGED <<killed, modes>> /\ RestStays
    BY DEF FetchPage, others, modes, RestStays
  <1> HIDE DEF row
  <1>8. Writes(row)
    BY <1>1, <1>3, <1>4, <1>5, <1>6, <1>7, RunAtWork DEF Writes
  <1> QED BY <1>1, <1>3, <1>5, <1>7, <1>8

-----------------------------------------------------------------------------
(* The run at work keeps types, its walk and the store. *)

(* It goes on to the next resource, or to none.                            *)
LEMMA WalkOn ==
    ASSUME TypeInv, StoreInv, cur # 0, todo # <<>>, NEW row, Writes(row), RestStays,
           row.cursor = Run.cursor, todo' \in {Tail(todo), <<>>}, step' = "visit", stored' = stored,
           \A x \in Resources : row.res[x] = "succeeded" /\ x \notin row.skipped
              => \/ Run.res[x] = "succeeded" /\ x \notin Run.skipped
                 \/ x = x0 /\ step = "stored"
    PROVE  TypeInv' /\ StoreInv'
  <1>1. /\ RowFrame /\ runs' \in [RunIds -> RunRow] /\ runs'[cur] = row /\ Run' = row
        /\ \A i \in RunIds, x \in Resources : runs'[i].cursor[x] <= Pages[x]
        /\ LineageInv' /\ UsedInv'
    BY RowStep
  <1>2. /\ cur' = cur /\ cur \in Used /\ Used' = Used
        /\ \A i \in Used, x \in Resources : Start(runs[i], x)' = Start(runs[i], x)
        /\ \A x \in Resources : Skips(x)' = Skips(x)
    BY <1>1, UsedStays DEF RowFrame
  <1>3. /\ x0 \in Resources /\ Tail(todo) \in Seq(Resources) /\ Distinct(Tail(todo))
        /\ Names(Tail(todo)) \subseteq Names(todo) /\ Names(todo) \subseteq Resources
        /\ x0 \notin Names(Tail(todo))
    BY ListParts DEF TypeInv, TypeOK, WalkInv, x0
  <1>4. todo' \in Seq(Resources) /\ Distinct(todo') /\ Names(todo') \subseteq Names(todo) \ {x0}
    <2>1. CASE todo' = Tail(todo)
      BY <1>3, <2>1
    <2>2. CASE todo' = <<>>
      BY <2>2 DEF Distinct, Names
    <2> QED BY <2>1, <2>2
  <1>5. TypeOK'
    BY <1>1, <1>2, <1>4 DEF TypeInv, TypeOK, RestStays, Writes, modes
  <1>6. WalkInv'
    <2>1. ASSUME NEW x \in Names(todo'), ~Skips(x)' PROVE Run'.cursor[x] < Pages[x]
      BY <1>1, <1>2, <1>3, <1>4, <2>1 DEF TypeInv, WalkInv
    <2> QED BY <1>4, <2>1 DEF WalkInv
  <1>7. SucceededIsStored'
    <2> SUFFICES ASSUME NEW i \in Used, NEW x \in Resources,
                        runs'[i].res[x] = "succeeded", x \notin runs'[i].skipped
                 PROVE  Start(runs[i], x) + 1 .. Pages[x] \subseteq stored[x]
      BY <1>2 DEF SucceededIsStored
    <2>1. CASE i = cur
      <3>1. CASE Run.res[x] = "succeeded" /\ x \notin Run.skipped
        BY <1>2, <2>1, <3>1 DEF StoreInv, SucceededIsStored, Run
      <3>2. CASE x = x0 /\ step = "stored"
        BY <2>1, <3>2 DEF StoreInv, Run
      <3> QED BY <1>1, <2>1, <3>1, <3>2
    <2>2. CASE i # cur
      BY <1>1, <2>2 DEF StoreInv, SucceededIsStored, RowFrame, Used
    <2> QED BY <2>1, <2>2
  <1> QED BY <1>1, <1>5, <1>6, <1>7 DEF TypeInv, StoreInv

LEMMA FetchKeeps ==
    ASSUME TypeInv, StoreInv, FetchPage
    PROVE  TypeInv' /\ StoreInv'
  <1>1. /\ cur # 0 /\ step = "visit" /\ todo # <<>> /\ todo' = todo /\ stored' = stored
        /\ step' = IF Run.cursor[x0] + 1 = Pages[x0] THEN "ingest" ELSE "visit"
    BY DEF FetchPage, AtPage, TypeInv, TypeOK
  <1>2. PICK row : /\ Writes(row) /\ row.skipped = Run.skipped /\ row.res = Run.res /\ RestStays
                   /\ \A x \in Resources : row.cursor[x] = IF x = x0 THEN Run.cursor[x0] + 1
                                                           ELSE Run.cursor[x]
                   /\ Run.cursor[x0] + 1 <= Pages[x0]
    BY FetchWrites
  <1>3. /\ RowFrame /\ runs' \in [RunIds -> RunRow] /\ runs'[cur] = row /\ Run' = row
        /\ \A i \in RunIds, x \in Resources : runs'[i].cursor[x] <= Pages[x]
        /\ LineageInv' /\ UsedInv'
    BY <1>1, <1>2, RowStep
  <1>4. /\ cur' = cur /\ cur \in Used /\ Used' = Used
        /\ \A i \in Used, x \in Resources : Start(runs[i], x)' = Start(runs[i], x)
        /\ \A x \in Resources : Skips(x)' = Skips(x)
    BY <1>1, <1>3, UsedStays DEF RowFrame
  <1>5. x0 \in Resources /\ x0' = x0 /\ Names(todo) \subseteq Resources /\ x0 \in Names(todo)
    BY <1>1, ListParts DEF TypeInv, TypeOK, x0
  <1>6. TypeOK'
    BY <1>1, <1>2, <1>3, <1>4 DEF TypeInv, TypeOK, RestStays, Writes, modes
  <1>7. WalkInv'
    <2>1. Distinct(todo)'
      BY <1>1 DEF TypeInv, WalkInv, Distinct
    <2>2. step' \in {"ingest", "stored"} => Run'.cursor[x0] = Pages[x0]
      BY <1>1, <1>2, <1>3, <1>5
    <2>3. ASSUME NEW x \in Names(todo), ~Skips(x)', step' = "visit" \/ x # x0
          PROVE  Run'.cursor[x] < Pages[x]
      <3>1. CASE x = x0
        BY <1>1, <1>2, <1>3, <1>5, <2>3, <3>1, RunAtWork
      <3>2. CASE x # x0
        BY <1>1, <1>2, <1>3, <1>4, <1>5, <2>3, <3>2 DEF TypeInv, WalkInv
      <3> QED BY <3>1, <3>2
    <2> QED BY <1>1, <1>5, <2>1, <2>2, <2>3 DEF WalkInv
  <1>8. SucceededIsStored'
    <2> SUFFICES ASSUME NEW i \in Used, NEW x \in Resources,
                        runs'[i].res[x] = "succeeded", x \notin runs'[i].skipped
                 PROVE  Start(runs[i], x) + 1 .. Pages[x] \subseteq stored[x]
      BY <1>1, <1>4 DEF SucceededIsStored
    <2>1. runs'[i].res = runs[i].res /\ runs'[i].skipped = runs[i].skipped
      BY <1>2, <1>3 DEF RowFrame, Run, Used
    <2> QED BY <2>1 DEF StoreInv, SucceededIsStored
  <1> QED BY <1>1, <1>3, <1>6, <1>7, <1>8 DEF TypeInv, StoreInv

LEMMA IngestKeeps ==
    ASSUME TypeInv, StoreInv, Ingest
    PROVE  TypeInv' /\ StoreInv' /\ RowFrame /\ runs' = runs /\ RestStays
  <1>1. /\ cur # 0 /\ step = "ingest" /\ step' = "stored" /\ todo' = todo /\ runs' = runs
        /\ stored' = [stored EXCEPT ![x0] = @ \cup (Start(Run, x0) + 1 .. Run.cursor[x0])]
        /\ RestStays /\ RowFrame
    BY DEF Ingest, TypeInv, TypeOK, others, RestStays, RowFrame, modes
  <1>2. /\ Used' = Used /\ UsedInv' /\ cur \in Used /\ cur' = cur
        /\ \A i \in Used, x \in Resources : Start(runs[i], x)' = Start(runs[i], x)
        /\ \A x \in Resources : Skips(x)' = Skips(x) /\ Start(Run, x)' = Start(Run, x)
    BY <1>1, UsedStays DEF RowFrame
  <1>3. /\ todo # <<>> /\ Run.cursor[x0] = Pages[x0] /\ x0 \in Resources /\ x0' = x0
        /\ Run' = Run /\ Names(todo) \subseteq Resources
    BY <1>1, <1>2, ListParts DEF TypeInv, TypeOK, WalkInv, x0, Run
  <1>4. Start(Run, x0) \in Nat /\ Pages[x0] \in Nat
    BY <1>1, <1>3, RunAtWork
  <1>5. \A x \in Resources : stored'[x] = IF x = x0 THEN stored[x0] \cup (Start(Run, x0) + 1 .. Pages[x0])
                                        ELSE stored[x]
    BY <1>1, <1>3 DEF TypeInv, TypeOK
  <1>6. TypeOK'
    <2>1. stored' \in [Resources -> SUBSET Nat]
      BY <1>1, <1>3, <1>4 DEF TypeInv, TypeOK
    <2>2. \A x \in Resources : stored'[x] \subseteq 1 .. Pages[x]
      BY <1>4, <1>5 DEF TypeInv, TypeOK
    <2> QED BY <1>1, <1>2, <2>1, <2>2 DEF TypeInv, TypeOK, RestStays, RowFrame, modes
  <1>7. WalkInv'
    BY <1>1, <1>2, <1>3 DEF TypeInv, WalkInv, Distinct
  <1>8. StoreInv'
    <2>1. ASSUME NEW i \in Used, NEW x \in Resources, runs[i].res[x] = "succeeded",
                 x \notin runs[i].skipped
          PROVE  Start(runs[i], x) + 1 .. Pages[x] \subseteq stored'[x]
      <3>1. Start(runs[i], x) + 1 .. Pages[x] \subseteq stored[x]
        BY <2>1 DEF StoreInv, SucceededIsStored
      <3> QED BY <1>5, <3>1
    <2>2. SucceededIsStored'
      BY <1>1, <1>2, <2>1 DEF SucceededIsStored
    <2>3. Start(Run, x0) + 1 .. Pages[x0] \subseteq stored'[x0]
      BY <1>3, <1>5
    <2> QED BY <1>2, <1>3, <2>2, <2>3 DEF StoreInv
  <1>9. LineageInv'
    BY <1>1, <1>2 DEF TypeInv, LineageInv, Targets
  <1> QED BY <1>1, <1>2, <1>6, <1>7, <1>8, <1>9 DEF TypeInv

(* What a step at a resource leaves alone.                                 *)
AtWork ==
    /\ cur # 0 /\ step \in {"visit", "ingest", "stored"} /\ step' \in {"visit", "ingest", "stored"}
    /\ RowFrame /\ RestStays /\ \A i \in RunIds : runs'[i].status = runs[i].status

LEMMA WrittenKeepsStatus ==
    ASSUME TypeInv, cur # 0, NEW row, Writes(row), row.status = Run.status
    PROVE  RowFrame /\ \A i \in RunIds : runs'[i].status = runs[i].status
  BY RowStep DEF RowFrame, Run

LEMMA AtWorkKeeps ==
    ASSUME TypeInv, StoreInv,
           \/ SkipResource \/ GuardrailStops \/ FetchPage \/ UpstreamFails
           \/ PageLimit \/ Ingest \/ IngestFails \/ ResourceSucceeds
    PROVE  TypeInv' /\ StoreInv' /\ AtWork
  <1>1. ASSUME NEW status \in {"auto", "manual"}, Continue(status), cur # 0, todo # <<>>,
               step \in {"visit", "ingest", "stored"}, stored' = stored
        PROVE  TypeInv' /\ StoreInv' /\ AtWork
    <2> DEFINE row == [Run EXCEPT !.res[x0] = status]
    <2>1. /\ Writes(row) /\ row.status = Run.status /\ row.skipped = Run.skipped
          /\ row.cursor = Run.cursor /\ RestStays
          /\ \A x \in Resources : row.res[x] = IF x = x0 THEN status ELSE Run.res[x]
      BY <1>1, ContinueWrites
    <2>2. todo' = Tail(todo) /\ step' = "visit"
      BY <1>1 DEF Continue
    <2> HIDE DEF row
    <2>3. TypeInv' /\ StoreInv'
      BY <1>1, <2>1, <2>2, WalkOn
    <2> QED BY <1>1, <2>1, <2>2, <2>3, WrittenKeepsStatus DEF AtWork
  <1>2. CASE SkipResource
    <2>1. /\ cur # 0 /\ todo # <<>> /\ step = "visit" /\ step' = "visit" /\ todo' = Tail(todo)
          /\ stored' = stored
      BY <1>2, SkipWrites DEF SkipResource
    <2>2. PICK row : /\ Writes(row) /\ row.status = Run.status
                     /\ row.skipped = Run.skipped \cup {x0}
                     /\ row.cursor = Run.cursor /\ RestStays
                     /\ \A x \in Resources : x # x0 => row.res[x] = Run.res[x]
      BY <1>2, SkipWrites
    <2>3. TypeInv' /\ StoreInv'
      BY <2>1, <2>2, WalkOn
    <2> QED BY <2>1, <2>2, <2>3, WrittenKeepsStatus DEF AtWork
  <1>3. CASE GuardrailStops
    <2>1. /\ cur # 0 /\ todo # <<>> /\ step = "visit" /\ step' = "visit" /\ todo' = <<>>
          /\ stored' = stored
      BY <1>3, GuardrailWrites DEF GuardrailStops, AtPage
    <2>2. PICK row : /\ Writes(row) /\ row.status = Run.status /\ row.skipped = Run.skipped
                     /\ row.cursor = Run.cursor /\ RestStays
                     /\ \A x \in Resources : row.res[x] = "guard" \/ row.res[x] = Run.res[x]
      BY <1>3, GuardrailWrites
    <2>3. TypeInv' /\ StoreInv'
      BY <2>1, <2>2, WalkOn
    <2> QED BY <2>1, <2>2, <2>3, WrittenKeepsStatus DEF AtWork
  <1>4. CASE FetchPage
    <2>1. TypeInv' /\ StoreInv'
      BY <1>4, FetchKeeps
    <2>2. PICK row : Writes(row) /\ row.status = Run.status /\ RestStays
      BY <1>4, FetchWrites
    <2>3. cur # 0 /\ step = "visit" /\ step' \in {"visit", "ingest"}
      BY <1>4, FetchWrites DEF FetchPage, AtPage
    <2> QED BY <2>1, <2>2, <2>3, WrittenKeepsStatus DEF AtWork
  <1>5. CASE UpstreamFails
    <2>1. PICK error \in {"auto", "manual"} : Continue(error)
      BY <1>5 DEF UpstreamFails
    <2>2. cur # 0 /\ todo # <<>> /\ step = "visit" /\ stored' = stored
      BY <1>5 DEF UpstreamFails, AtPage, TypeInv, TypeOK
    <2> QED BY <1>1, <2>1, <2>2
  <1>6. CASE PageLimit
    <2>1. cur # 0 /\ todo # <<>> /\ step = "visit" /\ stored' = stored /\ Continue("manual")
      BY <1>6 DEF PageLimit, AtPage, TypeInv, TypeOK
    <2> QED BY <1>1, <2>1
  <1>7. CASE Ingest
    BY <1>7, IngestKeeps DEF AtWork, Ingest, TypeInv, TypeOK
  <1>8. CASE IngestFails
    <2>1. cur # 0 /\ todo # <<>> /\ step = "ingest" /\ stored' = stored /\ Continue("manual")
      BY <1>8 DEF IngestFails, TypeInv, TypeOK, WalkInv
    <2> QED BY <1>1, <2>1
  <1>9. CASE ResourceSucceeds
    <2>1. /\ cur # 0 /\ todo # <<>> /\ step = "stored" /\ stored' = stored /\ Continue("succeeded")
          /\ todo' = Tail(todo) /\ step' = "visit"
      BY <1>9 DEF ResourceSucceeds, TypeInv, TypeOK, WalkInv, Continue
    <2> DEFINE row == [Run EXCEPT !.res[x0] = "succeeded"]
    <2>2. /\ Writes(row) /\ row.status = Run.status /\ row.skipped = Run.skipped
          /\ row.cursor = Run.cursor /\ RestStays
          /\ \A x \in Resources : row.res[x] = IF x = x0 THEN "succeeded" ELSE Run.res[x]
      BY <2>1, ContinueWrites
    <2> HIDE DEF row
    <2>3. TypeInv' /\ StoreInv'
      BY <2>1, <2>2, WalkOn
    <2> QED BY <2>1, <2>2, <2>3, WrittenKeepsStatus DEF AtWork
  <1> QED BY <1>2, <1>3, <1>4, <1>5, <1>6, <1>7, <1>8, <1>9

(* Its end: the status is written, and nothing else of the row.            *)
Ends(status) ==
    /\ RowFrame /\ RestStays /\ runs'[cur].res = Run.res /\ runs'[cur].status = status
    /\ Run'.status = status /\ Failed(Run)' = Failed(Run) /\ Guarded(Run)' = Guarded(Run)

LEMMA StatusWrites ==
    ASSUME TypeInv, StoreInv, cur # 0, NEW status \in Terminal,
           runs' = [runs EXCEPT ![cur].status = status], cur' = cur, stored' = stored, todo' = todo,
           step \in {"visit", "force"}, step' \in {"register", "force", "end"}, UNCHANGED others
    PROVE  TypeInv' /\ StoreInv' /\ Ends(status)
  <1> DEFINE row == [Run EXCEPT !.status = status]
  <1>1. cur \in RunIds /\ Run \in RunRow
    BY RunAtWork
  <1>2. /\ row \in RunRow /\ row.source = Run.source /\ row.key = Run.key
        /\ row.attempt = Run.attempt /\ row.status = status /\ row.res = Run.res
        /\ row.cursor = Run.cursor /\ row.skipped = Run.skipped
    BY <1>1 DEF RunRow
  <1>3. runs' = [runs EXCEPT ![cur] = row]
    BY DEF Run
  <1> HIDE DEF row
  <1>4. UNCHANGED <<killed, modes>> /\ RestStays
    BY DEF others, modes, RestStays
  <1>5. Writes(row)
    BY <1>2, <1>3, <1>4, RunAtWork DEF Writes, Terminal, Targets
  <1>6. /\ RowFrame /\ runs' \in [RunIds -> RunRow] /\ runs'[cur] = row /\ Run' = row
        /\ \A i \in RunIds, x \in Resources : runs'[i].cursor[x] <= Pages[x]
        /\ LineageInv' /\ UsedInv'
    BY <1>5, RowStep
  <1>7. /\ cur \in Used /\ Used' = Used
        /\ \A i \in Used, x \in Resources : Start(runs[i], x)' = Start(runs[i], x)
        /\ \A x \in Resources : Skips(x)' = Skips(x)
    BY <1>6, UsedStays
  <1>8. TypeOK'
    BY <1>4, <1>6 DEF TypeInv, TypeOK, RestStays, modes
  <1>9. WalkInv'
    <2>1. x0' = x0 /\ Names(todo)' = Names(todo) /\ Names(todo) \subseteq Resources
      BY ListParts DEF x0, Names, TypeInv, TypeOK
    <2>2. ASSUME NEW x \in Names(todo), ~Skips(x)', step' = "visit" \/ x # x0
          PROVE  Run'.cursor[x] < Pages[x]
      BY <1>2, <1>6, <1>7, <2>1, <2>2 DEF TypeInv, WalkInv
    <2>3. Distinct(todo)' /\ step' \notin {"ingest", "stored"}
      BY DEF TypeInv, WalkInv, Distinct
    <2> QED BY <2>1, <2>2, <2>3 DEF WalkInv
  <1>10. StoreInv'
    <2>1. \A i \in Used : runs'[i].res = runs[i].res /\ runs'[i].skipped = runs[i].skipped
      BY <1>2, <1>6 DEF RowFrame, Run, Used
    <2> QED BY <1>7, <2>1 DEF StoreInv, SucceededIsStored
  <1> QED BY <1>2, <1>4, <1>6, <1>8, <1>9, <1>10 DEF TypeInv, Ends, Failed, Guarded

-----------------------------------------------------------------------------
(* Steps that write no run *)

LEMMA GateStays ==
    ASSUME TypeInv, StoreInv, runs' = runs, stored' = stored, UNCHANGED gateVars
    PROVE  UsedInv' /\ LineageInv' /\ WalkInv' /\ StoreInv' /\ Used' = Used
  <1>1. cur' = cur /\ step' = step /\ todo' = todo
    BY DEF gateVars
  <1>2. Used' = Used /\ UsedInv' /\ LineageInv'
    BY <1>1 DEF Used, Count, TypeInv, UsedInv, LineageInv
  <1>3. WalkInv'
    BY <1>1 DEF TypeInv, WalkInv, Run, x0, Names, Skips, Complete, Distinct
  <1>4. StoreInv'
    BY <1>1, <1>2 DEF StoreInv, SucceededIsStored, Start, Run, x0
  <1> QED BY <1>2, <1>3, <1>4

LEMMA GateMoves ==
    ASSUME TypeInv, StoreInv, runs' = runs, stored' = stored, todo' \in {todo, <<>>},
           step' \in {"idle", "force", "end"}, cur' = IF step' = "idle" THEN 0 ELSE cur
    PROVE  UsedInv' /\ LineageInv' /\ WalkInv' /\ StoreInv' /\ Used' = Used /\ todo' \in Seq(Resources)
  <1>1. Used' = Used /\ UsedInv' /\ LineageInv'
    BY DEF Used, Count, TypeInv, UsedInv, LineageInv
  <1>2. Distinct(todo')
    BY DEF TypeInv, WalkInv, Distinct
  <1>3. ASSUME cur' # 0, NEW x \in Names(todo'), ~Skips(x)', x # x0'
        PROVE  Run'.cursor[x] < Pages[x]
    <2>1. todo' = todo /\ cur' = cur
      BY <1>3 DEF Names
    <2> QED BY <1>3, <2>1 DEF TypeInv, WalkInv, Run, x0, Names, Skips, Complete
  <1>4. WalkInv'
    BY <1>2, <1>3 DEF WalkInv, Distinct
  <1>5. StoreInv'
    BY <1>1 DEF StoreInv, SucceededIsStored, Start
  <1>6. todo' \in Seq(Resources)
    <2>1. todo \in Seq(Resources) /\ <<>> \in Seq(Resources)
      BY DEF TypeInv, TypeOK
    <2> QED BY <2>1
  <1> QED BY <1>1, <1>4, <1>5, <1>6

-----------------------------------------------------------------------------
(* A new run *)

LEMMA BeginIs ==
    ASSUME TypeInv, NEW source \in Used \cup {0}, NEW key \in Keys \cup {NoKey},
           NEW targets \in Seq(Resources), targets # <<>>, Begin(source, key, targets)
    PROVE  LET new == Count + 1 IN
           /\ new \in RunIds /\ new \notin Used /\ Used' = Used \cup {new} /\ Count' = new
           /\ cur = 0 /\ cur' = new /\ step' = "visit" /\ todo' = targets
           /\ runs' \in [RunIds -> RunRow] /\ \A j \in RunIds : j # new => runs'[j] = runs[j]
           /\ runs'[new].status = "running" /\ runs'[new].source = source /\ runs'[new].key = key
           /\ runs'[new].attempt <= new /\ Targets(runs'[new]) # {}
           /\ \A x \in Resources : /\ runs'[new].res[x] \in {"absent", "pending"}
                                   /\ runs'[new].cursor[x] <= Pages[x]
           /\ source = 0 => \A x \in Resources : runs'[new].cursor[x] = 0
           /\ source # 0 => \A x \in Names(targets) : runs'[new].cursor[x] = runs[source].cursor[x]
           /\ UNCHANGED <<letters, stored, killed, modes>>
  <1> DEFINE new == Count + 1
  <1>1. /\ MaxRuns \in Nat /\ scope.runs \in 1 .. MaxRuns
        /\ \A x \in Resources : Pages[x] \in Nat \ {0}
    BY LiveSyncAssumption DEF LiveSyncAssumption, TypeInv, TypeOK
  <1>2. Used = 1 .. Count /\ Count \in 0 .. MaxRuns
    BY DEF TypeInv, UsedInv
  <1>3. /\ new \in RunIds /\ cur = 0 /\ cur' = new /\ step' = "visit" /\ todo' = targets
        /\ UNCHANGED <<letters, stored, killed, modes>>
    BY <1>1, <1>2 DEF Begin, Count, RunIds, TypeInv, TypeOK
  <1>4. new \notin Used /\ Used \cup {new} = 1 .. new
    BY <1>2
  <1> DEFINE count == IF source = 0 THEN 1 ELSE runs[source].attempt + 1
             asked == [x \in Resources |-> IF x \in Names(targets) THEN "pending" ELSE "absent"]
             seeded == [x \in Resources |-> IF source # 0 /\ x \in Names(targets)
                                            THEN runs[source].cursor[x] ELSE 0]
             row == [NoRun EXCEPT !.status = "running", !.source = source, !.key = key,
                       !.attempt = count, !.res = asked, !.cursor = seeded]
  <1>5. runs' = [runs EXCEPT ![new] = row]
    BY DEF Begin, Count
  <1>6. source # 0 => /\ source \in RunIds /\ source < new /\ runs[source] \in RunRow
                      /\ runs[source].attempt \in Nat /\ runs[source].attempt <= source
                      /\ \A x \in Resources : /\ runs[source].cursor[x] \in Nat
                                              /\ runs[source].cursor[x] <= Pages[x]
    <2> SUFFICES ASSUME source # 0
                 PROVE /\ source \in RunIds /\ source < new /\ runs[source] \in RunRow
                       /\ runs[source].attempt \in Nat /\ runs[source].attempt <= source
                       /\ \A x \in Resources : /\ runs[source].cursor[x] \in Nat
                                               /\ runs[source].cursor[x] <= Pages[x]
      OBVIOUS
    <2>1. source \in RunIds /\ source < new
      BY <1>2 DEF Used
    <2>2. runs[source] \in RunRow /\ \A x \in Resources : runs[source].cursor[x] <= Pages[x]
      BY <2>1 DEF TypeInv, TypeOK
    <2>3. runs[source].attempt <= source
      BY DEF TypeInv, LineageInv
    <2>4. runs[source].attempt \in 0 .. MaxRuns
      BY <2>2 DEF RunRow
    <2>5. \A x \in Resources : runs[source].cursor[x] \in Nat
      BY <2>2 DEF RunRow
    <2> QED BY <1>1, <2>1, <2>2, <2>3, <2>4, <2>5
  <1>7. count \in 0 .. MaxRuns /\ count <= new /\ source \in 0 .. MaxRuns
    BY <1>1, <1>2, <1>3, <1>6 DEF RunIds
  <1>8. /\ asked \in [Resources -> {"absent", "pending", "succeeded"} \cup Errors]
        /\ seeded \in [Resources -> Nat]
        /\ \A x \in Resources : asked[x] \in {"absent", "pending"} /\ seeded[x] <= Pages[x]
    BY <1>1, <1>6
  <1> HIDE DEF count, asked, seeded
  <1>9. NoRun \in RunRow
    BY <1>1 DEF NoRun, RunRow
  <1>10. /\ row.status = "running" /\ row.source = source /\ row.key = key
         /\ row.attempt = count /\ row.res = asked /\ row.cursor = seeded
    BY <1>9 DEF RunRow
  <1>11. row \in RunRow
    BY <1>7, <1>8, <1>9 DEF RunRow, Terminal
  <1> HIDE DEF row
  <1>12. Targets(row) # {}
    <2>1. Head(targets) \in Resources /\ Head(targets) \in Names(targets)
      BY ListParts
    <2>2. row.res[Head(targets)] = "pending"
      BY <1>10, <2>1 DEF asked
    <2> QED BY <2>1, <2>2 DEF Targets
  <1>13. /\ runs' \in [RunIds -> RunRow] /\ runs'[new] = row
         /\ \A j \in RunIds : j # new => runs'[j] = runs[j]
    BY <1>3, <1>5, <1>11 DEF TypeInv, TypeOK
  <1>14. Used' = Used \cup {new} /\ Count' = new
    <2>1. Used' = Used \cup {new}
      BY <1>3, <1>10, <1>13 DEF Used
    <2>2. Cardinality(1 .. new) = new
      BY <1>1, <1>2, FS_Interval
    <2> QED BY <1>4, <2>1, <2>2 DEF Count
  <1>15. /\ source = 0 => \A x \in Resources : row.cursor[x] = 0
         /\ source # 0 => \A x \in Names(targets) : row.cursor[x] = runs[source].cursor[x]
    BY <1>10, ListParts DEF seeded
  <1> QED BY <1>3, <1>4, <1>7, <1>8, <1>10, <1>12, <1>13, <1>14, <1>15

LEMMA BeginKeeps ==
    ASSUME TypeInv, StoreInv, NEW source \in Used \cup {0}, NEW key \in Keys \cup {NoKey},
           NEW targets \in Seq(Resources), targets # <<>>, Distinct(targets),
           key # NoKey => source # 0, Begin(source, key, targets),
           loaded' \in [Clients -> Request]
    PROVE  TypeInv' /\ StoreInv'
  <1> DEFINE new == Count + 1
  <1>1. /\ new \in RunIds /\ new \notin Used /\ Used' = Used \cup {new} /\ Count' = new
        /\ cur = 0 /\ cur' = new /\ step' = "visit" /\ todo' = targets
        /\ runs' \in [RunIds -> RunRow] /\ \A j \in RunIds : j # new => runs'[j] = runs[j]
        /\ runs'[new].status = "running" /\ runs'[new].source = source /\ runs'[new].key = key
        /\ runs'[new].attempt <= new /\ Targets(runs'[new]) # {}
        /\ \A x \in Resources : /\ runs'[new].res[x] \in {"absent", "pending"}
                                /\ runs'[new].cursor[x] <= Pages[x]
        /\ source = 0 => \A x \in Resources : runs'[new].cursor[x] = 0
        /\ source # 0 => \A x \in Names(targets) : runs'[new].cursor[x] = runs[source].cursor[x]
        /\ UNCHANGED <<letters, stored, killed, modes>>
    BY BeginIs
  <1>2. MaxRuns \in Nat /\ Used = 1 .. Count /\ Count \in 0 .. MaxRuns
    BY LiveSyncAssumption DEF LiveSyncAssumption, TypeInv, UsedInv
  <1>3. \A j \in Used : j \in RunIds /\ j < new /\ runs'[j] = runs[j]
    BY <1>1, <1>2 DEF Used
  <1> HIDE DEF new
  <1>4. UsedInv'
    <2>1. Used' = 1 .. new /\ new \in 0 .. MaxRuns
      BY <1>1, <1>2 DEF new, RunIds
    <2> QED BY <1>1, <2>1 DEF UsedInv
  <1>5. TypeOK'
    <2>1. \A i \in RunIds, x \in Resources : runs'[i].cursor[x] <= Pages[x]
      BY <1>1 DEF TypeInv, TypeOK
    <2>2. cur' \in 0 .. MaxRuns /\ cur' # 0
      BY <1>1, <1>2 DEF RunIds
    <2> QED BY <1>1, <2>1, <2>2 DEF TypeInv, TypeOK, modes
  <1>6. LineageInv'
    <2>1. source < new
      BY <1>2, <1>3 DEF new
    <2>2. ASSUME NEW j \in Used
          PROVE  /\ runs'[j].source < j /\ runs'[j].attempt <= j /\ Targets(runs'[j]) # {}
                 /\ runs'[j].key # NoKey => runs'[j].source # 0
      BY <1>3, <2>2 DEF TypeInv, LineageInv
    <2> QED BY <1>1, <2>1, <2>2 DEF LineageInv, Targets
  <1>7. WalkInv'
    <2>1. \A x \in Resources : Pages[x] \in Nat \ {0}
      BY LiveSyncAssumption DEF LiveSyncAssumption
    <2>2. ASSUME NEW x \in Names(targets), ~Skips(x)' PROVE runs'[new].cursor[x] < Pages[x]
      <3>1. x \in Resources
        BY ListParts
      <3>2. CASE source = 0
        BY <1>1, <2>1, <3>1, <3>2
      <3>3. CASE source # 0
        <4>1. source \in Used /\ runs'[source] = runs[source]
          BY <1>3, <3>3
        <4>2. runs[source].cursor[x] # Pages[x]
          BY <1>1, <2>2, <3>3, <4>1 DEF Skips, Complete, Run
        <4>3. runs[source].cursor[x] \in Nat
          BY <1>3, <3>1, <4>1 DEF TypeInv, TypeOK, RunRow
        <4> QED BY <1>1, <2>1, <2>2, <3>1, <3>3, <4>2, <4>3
      <3> QED BY <3>2, <3>3
    <2>3. Distinct(todo)'
      BY <1>1 DEF Distinct
    <2> QED BY <1>1, <2>2, <2>3 DEF WalkInv, Run, Names
  <1>8. SucceededIsStored'
    <2>1. ASSUME NEW j \in Used, NEW x \in Resources PROVE Start(runs[j], x)' = Start(runs[j], x)
      <3>1. runs[j].source < j /\ runs[j].source \in 0 .. MaxRuns /\ j \in 1 .. Count
        <4>1. runs[j] \in RunRow
          BY <1>3 DEF TypeInv, TypeOK
        <4> QED BY <1>2, <4>1 DEF TypeInv, LineageInv, RunRow
      <3>2. runs[j].source = 0 \/ runs[j].source \in Used
        BY <1>2, <3>1
      <3> QED BY <1>3, <3>2 DEF Start
    <2>2. ASSUME NEW j \in Used, NEW x \in Resources, runs'[j].res[x] = "succeeded",
                 x \notin runs'[j].skipped
          PROVE  Start(runs[j], x)' + 1 .. Pages[x] \subseteq stored'[x]
      BY <1>1, <1>3, <2>1, <2>2 DEF StoreInv, SucceededIsStored
    <2>3. \A x \in Resources : runs'[new].res[x] # "succeeded"
      BY <1>1
    <2> QED BY <1>1, <2>2, <2>3 DEF SucceededIsStored
  <1> QED BY <1>1, <1>4, <1>5, <1>6, <1>7, <1>8 DEF TypeInv, StoreInv

-----------------------------------------------------------------------------
(* Letters and gates *)

Passing(r) == /\ r.status = "failed" /\ ~Guarded(r)
              /\ \E x \in Resources : r.res[x] = "auto"

(* What a letter says of its run, whatever else goes on.                   *)
LetterInv ==
    \A i \in RunIds :
        /\ letters[i].status # "none" => i \in Used
        /\ letters[i].status = "none" => letters[i].class = "none"
        /\ letters[i].class = "auto" => Passing(runs[i])
        /\ letters[i].status = "replayed" => runs[i].status = "failed"

OverInv ==
    \A i \in Used \ (killed \cup {cur}) :
        /\ runs[i].status = "failed" => letters[i].status # "none"
        /\ letters[i].status = "open" => runs[i].status = "failed"

(* How far the run at work has got with its own letter.                    *)
EndInv ==
    cur # 0 =>
        /\ step \in {"visit", "ingest", "stored", "register"} =>
              letters[cur].status \in {"none", "ignored"} /\ letters[cur].class # "auto"
        /\ step = "register" => Failed(Run) # {} /\ (Run.status = "failed" \/ Guarded(Run))
        /\ step = "force" => letters[cur].status # "none"
        /\ step = "end" => /\ Run.status = "failed" => letters[cur].status # "none"
                           /\ letters[cur].status = "open" => Run.status = "failed"

(* A gate that was passed stays passed.                                    *)
Passed(i) == i \in Used /\ letters[i].class = "auto" /\ runs[i].attempt < MaxAttempts

GateInv ==
    /\ \A j \in Used : runs[j].key # NoKey => Passed(runs[j].source)
    /\ \A c \in Clients :
          /\ loaded[c].op = "replay" => Passed(loaded[c].letter)
          /\ loaded[c].op = "ignore" => /\ loaded[c].letter \in RunIds
                                        /\ letters[loaded[c].letter].status # "none"

FateInv == LetterInv /\ OverInv /\ EndInv /\ GateInv

(* A step that writes the row of the run at work and no letter.            *)
LEMMA FateFrame ==
    ASSUME FateInv, RowFrame, RestStays, Used' = Used, cur \in RunIds,
           letters[cur].class = "auto" => Passing(runs'[cur]),
           letters[cur].status = "replayed" => runs'[cur].status = "failed"
    PROVE  LetterInv' /\ OverInv' /\ GateInv'
  <1>1. letters' = letters /\ loaded' = loaded /\ killed' = killed /\ cur' = cur
    BY DEF RowFrame, RestStays
  <1>2. \A i \in RunIds : /\ runs'[i].source = runs[i].source /\ runs'[i].key = runs[i].key
                          /\ runs'[i].attempt = runs[i].attempt
                          /\ i # cur => runs'[i] = runs[i]
    BY DEF RowFrame
  <1>3. \A i \in Used : i \in RunIds
    BY DEF Used
  <1>4. LetterInv'
    <2> SUFFICES ASSUME NEW i \in RunIds
                 PROVE  /\ letters[i].status # "none" => i \in Used
                        /\ letters[i].status = "none" => letters[i].class = "none"
                        /\ letters[i].class = "auto" => Passing(runs'[i])
                        /\ letters[i].status = "replayed" => runs'[i].status = "failed"
      BY <1>1 DEF LetterInv, Passing, Guarded
    <2> QED BY <1>2 DEF FateInv, LetterInv
  <1>5. OverInv'
    <2> SUFFICES ASSUME NEW i \in Used \ (killed \cup {cur})
                 PROVE  /\ runs'[i].status = "failed" => letters[i].status # "none"
                        /\ letters[i].status = "open" => runs'[i].status = "failed"
      BY <1>1 DEF OverInv
    <2>1. i \in RunIds /\ i # cur
      BY <1>3
    <2>2. runs'[i] = runs[i]
      BY <1>2, <2>1
    <2>3. OverInv
      BY DEF FateInv
    <2> QED BY <2>2, <2>3 DEF OverInv
  <1>6. \A i : Passed(i) => Passed(i)'
    BY <1>1, <1>2, <1>3 DEF Passed
  <1>7. ASSUME NEW j \in Used, runs'[j].key # NoKey PROVE Passed(runs[j].source)' /\ runs'[j].source = runs[j].source
    BY <1>2, <1>3, <1>6, <1>7 DEF FateInv, GateInv, Passed
  <1>8. ASSUME NEW c \in Clients
        PROVE  /\ loaded[c].op = "replay" => Passed(loaded[c].letter)'
               /\ loaded[c].op = "ignore" => /\ loaded[c].letter \in RunIds
                                             /\ letters[loaded[c].letter].status # "none"
    BY <1>1, <1>6 DEF FateInv, GateInv, Passed
  <1>9. GateInv'
    BY <1>1, <1>7, <1>8 DEF GateInv, Passed
  <1> QED BY <1>4, <1>5, <1>9

LEMMA FateAtWork ==
    ASSUME TypeInv, FateInv, AtWork
    PROVE  FateInv'
  <1>1. /\ RowFrame /\ RestStays /\ Used' = Used /\ cur' = cur /\ cur \in RunIds
        /\ letters[cur].class # "auto" /\ letters[cur].status \in {"none", "ignored"}
        /\ step' \in {"visit", "ingest", "stored"} /\ letters' = letters
    BY UsedStays, RunAtWork DEF AtWork, RowFrame, RestStays, FateInv, EndInv
  <1>2. LetterInv' /\ OverInv' /\ GateInv'
    BY <1>1, FateFrame
  <1>3. EndInv'
    BY <1>1 DEF EndInv
  <1> QED BY <1>2, <1>3 DEF FateInv

LEMMA FinalizeKeeps ==
    ASSUME TypeInv, StoreInv, FateInv, Finalize
    PROVE  TypeInv' /\ StoreInv' /\ FateInv' /\ RowFrame /\ RestStays
  <1>1. /\ cur # 0 /\ step = "visit" /\ cur' = cur /\ stored' = stored /\ todo' = todo
        /\ runs' = [runs EXCEPT ![cur].status = Overall(Run)] /\ UNCHANGED others
        /\ step' = IF Overall(Run) = "failed" \/ Guarded(Run) THEN "register" ELSE "end"
    BY DEF Finalize, TypeInv, TypeOK
  <1>2. Overall(Run) \in Terminal
    BY DEF Overall, Terminal
  <1>3. TypeInv' /\ StoreInv' /\ Ends(Overall(Run))
    BY <1>1, <1>2, StatusWrites
  <1>4. /\ RowFrame /\ RestStays /\ Used' = Used /\ cur \in RunIds /\ letters' = letters
        /\ letters[cur].class # "auto" /\ letters[cur].status \in {"none", "ignored"}
    BY <1>1, <1>3, UsedStays, RunAtWork DEF Ends, RestStays, FateInv, EndInv
  <1>5. LetterInv' /\ OverInv' /\ GateInv'
    BY <1>4, FateFrame
  <1>6. EndInv'
    <2>1. Overall(Run) = "failed" \/ Guarded(Run) => Failed(Run) # {}
      BY DEF Overall, Guarded, Failed, Errors
    <2> QED BY <1>1, <1>3, <1>4, <2>1 DEF EndInv, Ends
  <1> QED BY <1>3, <1>4, <1>5, <1>6 DEF FateInv

LEMMA ForceKeeps ==
    ASSUME TypeInv, StoreInv, FateInv, ForceFailed
    PROVE  TypeInv' /\ StoreInv' /\ FateInv' /\ RowFrame /\ RestStays
  <1>1. /\ cur # 0 /\ step = "force" /\ cur' = cur /\ stored' = stored /\ todo' = todo
        /\ runs' = [runs EXCEPT ![cur].status = "failed"] /\ UNCHANGED others /\ step' = "end"
    BY DEF ForceFailed, TypeInv, TypeOK
  <1>2. TypeInv' /\ StoreInv' /\ Ends("failed")
    BY <1>1, StatusWrites DEF Terminal
  <1>3. /\ RowFrame /\ RestStays /\ Used' = Used /\ cur \in RunIds /\ letters' = letters
        /\ letters[cur].status # "none" /\ runs'[cur].status = "failed" /\ runs'[cur].res = runs[cur].res
    BY <1>1, <1>2, UsedStays, RunAtWork DEF Ends, RestStays, FateInv, EndInv, Run
  <1>4. letters[cur].class = "auto" => Passing(runs'[cur])
    BY <1>3 DEF FateInv, LetterInv, Passing, Guarded
  <1>5. LetterInv' /\ OverInv' /\ GateInv'
    BY <1>3, <1>4, FateFrame
  <1>6. EndInv'
    BY <1>1, <1>2, <1>3 DEF EndInv, Ends
  <1> QED BY <1>2, <1>3, <1>5, <1>6 DEF FateInv

LEMMA RegisterKeeps ==
    ASSUME TypeInv, StoreInv, FateInv, RegisterLetter
    PROVE  TypeInv' /\ StoreInv' /\ FateInv'
  <1>1. /\ cur # 0 /\ step = "register" /\ runs' = runs /\ cur' = cur /\ todo' = todo
        /\ stored' = stored /\ loaded' = loaded /\ killed' = killed /\ UNCHANGED modes
        /\ step' = (IF Run.status = "failed" THEN "end" ELSE "force")
        /\ letters' = IF letters[cur].status = "none"
                         THEN [letters EXCEPT ![cur] = Letter(Run)] ELSE letters
    BY DEF RegisterLetter, TypeInv, TypeOK
  <1>2. UsedInv' /\ LineageInv' /\ WalkInv' /\ StoreInv' /\ Used' = Used
    BY <1>1, GateMoves
  <1>3. cur \in RunIds /\ cur \in Used
    BY <1>1, RunAtWork
  <1>4. Letter(Run) \in LetterRow /\ Letter(Run).status = "open" /\ Letter(Run).class = RetryClass(Run)
    BY LiveSyncAssumption DEF Letter, LetterRow, RetryClass, LiveSyncAssumption
  <1>5. TypeOK'
    BY <1>1, <1>3, <1>4 DEF TypeInv, TypeOK, modes
  <1>6. /\ Failed(Run) # {} /\ (Run.status = "failed" \/ Guarded(Run))
        /\ letters[cur].status \in {"none", "ignored"} /\ letters[cur].class # "auto"
    BY <1>1 DEF FateInv, EndInv
  <1>7. RetryClass(Run) = "auto" => Passing(Run)
    <2>1. Head(Sorted(Failed(Run))) \in Resources
      BY <1>6, SortedIsList DEF Failed
    <2> QED BY <1>6, <2>1 DEF RetryClass, Passing
  <1>8. /\ \A i \in RunIds : i # cur => letters'[i] = letters[i]
        /\ \/ letters'[cur] = letters[cur] /\ letters[cur].status = "ignored"
           \/ letters'[cur].status = "open" /\ letters'[cur].class = RetryClass(Run)
    BY <1>1, <1>3, <1>4, <1>6 DEF TypeInv, TypeOK
  <1>9. LetterInv'
    <2> SUFFICES ASSUME NEW i \in RunIds
                 PROVE  /\ letters'[i].status # "none" => i \in Used
                        /\ letters'[i].status = "none" => letters'[i].class = "none"
                        /\ letters'[i].class = "auto" => Passing(runs[i])
                        /\ letters'[i].status = "replayed" => runs[i].status = "failed"
      BY <1>1, <1>2 DEF LetterInv, Passing, Guarded
    <2>1. CASE i = cur
      BY <1>3, <1>6, <1>7, <1>8, <2>1 DEF Run
    <2>2. CASE i # cur
      BY <1>8, <2>2 DEF FateInv, LetterInv
    <2> QED BY <2>1, <2>2
  <1>10. OverInv'
    BY <1>1, <1>2, <1>8 DEF FateInv, OverInv, Used
  <1>11. EndInv'
    BY <1>1, <1>8 DEF EndInv, Run
  <1>12. GateInv'
    <2>1. \A i \in RunIds : /\ letters[i].class = "auto" => letters'[i].class = "auto"
                            /\ letters[i].status # "none" => letters'[i].status # "none"
      BY <1>6, <1>8
    <2> QED BY <1>1, <1>2, <2>1 DEF FateInv, GateInv, Passed, Used
  <1> QED BY <1>2, <1>5, <1>9, <1>10, <1>11, <1>12 DEF TypeInv, FateInv

(* A step that writes letters and no run.                                  *)
LEMMA FateOfLetters ==
    ASSUME FateInv, runs' = runs, Used' = Used, killed \subseteq killed',
           \A c \in Clients : loaded'[c] = loaded[c] \/ loaded'[c] = Nothing,
           \A i \in RunIds : /\ letters'[i].status # "none" => i \in Used
                             /\ letters'[i].status = "none" => letters'[i] = letters[i]
                             /\ letters'[i].class = "auto" => letters[i].class = "auto"
                             /\ letters[i].class = "auto" => letters'[i].class = "auto"
                             /\ letters'[i].status = "open" => letters[i].status = "open"
                             /\ letters'[i].status = "replayed" => runs[i].status = "failed",
           \A i \in Used \ (killed' \cup {cur'}) : i \in Used \ (killed \cup {cur}) \/ i = cur,
           cur # 0 /\ cur' # cur /\ cur \notin killed' => step = "end"
    PROVE  LetterInv' /\ OverInv' /\ GateInv'
  <1>1. \A i \in Used : i \in RunIds
    BY DEF Used
  <1>2. \A i \in RunIds : letters[i].status # "none" => letters'[i].status # "none"
    BY DEF FateInv, LetterInv
  <1>3. LetterInv'
    <2> SUFFICES ASSUME NEW i \in RunIds
                 PROVE  /\ letters'[i].status # "none" => i \in Used
                        /\ letters'[i].status = "none" => letters'[i].class = "none"
                        /\ letters'[i].class = "auto" => Passing(runs[i])
                        /\ letters'[i].status = "replayed" => runs[i].status = "failed"
      BY DEF LetterInv, Passing, Guarded
    <2> QED BY DEF FateInv, LetterInv
  <1>4. OverInv'
    <2> SUFFICES ASSUME NEW i \in Used \ (killed' \cup {cur'})
                 PROVE  /\ runs[i].status = "failed" => letters'[i].status # "none"
                        /\ letters'[i].status = "open" => runs[i].status = "failed"
      BY DEF OverInv
    <2>1. i \in RunIds
      BY <1>1
    <2>2. CASE i \in Used \ (killed \cup {cur})
      BY <1>2, <2>1, <2>2 DEF FateInv, OverInv
    <2>3. CASE i = cur
      <3>1. cur # 0 /\ step = "end"
        BY <2>1, <2>3 DEF RunIds
      <3> QED BY <1>2, <2>1, <2>3, <3>1 DEF FateInv, EndInv, Run
    <2> QED BY <2>2, <2>3
  <1>5. \A i : Passed(i) => Passed(i)'
    BY <1>1 DEF Passed
  <1>6. GateInv'
    <2>1. ASSUME NEW j \in Used, runs[j].key # NoKey PROVE Passed(runs[j].source)'
      BY <1>5, <2>1 DEF FateInv, GateInv
    <2>2. ASSUME NEW c \in Clients
          PROVE  /\ loaded'[c].op = "replay" => Passed(loaded[c].letter)'
                 /\ loaded'[c].op = "ignore" => /\ loaded'[c].letter \in RunIds
                                                /\ letters'[loaded'[c].letter].status # "none"
      <3>1. CASE loaded'[c] = Nothing
        BY <3>1 DEF Nothing
      <3>2. CASE loaded'[c] = loaded[c]
        <4> DEFINE i == loaded[c].letter
        <4>1. loaded[c].op = "replay" => Passed(i)
          BY DEF FateInv, GateInv
        <4>2. loaded[c].op = "ignore" => i \in RunIds /\ letters[i].status # "none"
          BY DEF FateInv, GateInv
        <4>3. loaded[c].op = "replay" => Passed(i)'
          BY <1>5, <3>2, <4>1 DEF Passed
        <4> QED BY <1>2, <3>2, <4>2, <4>3
      <3> QED BY <3>1, <3>2
    <2> QED BY <2>1, <2>2 DEF GateInv, Passed
  <1> QED BY <1>3, <1>4, <1>6

LEMMA EndRunKeeps ==
    ASSUME TypeInv, StoreInv, FateInv, EndRun
    PROVE  TypeInv' /\ StoreInv' /\ FateInv'
  <1>1. /\ cur # 0 /\ step = "end" /\ step' = "idle" /\ cur' = 0 /\ runs' = runs /\ todo' = todo
        /\ stored' = stored /\ loaded' = loaded /\ killed' = killed /\ UNCHANGED modes
        /\ letters' = IF Run.key = NoKey THEN letters
                      ELSE [letters EXCEPT ![Run.source].status = "replayed", ![Run.source].by = cur]
    BY DEF EndRun, TypeInv, TypeOK
  <1>2. UsedInv' /\ LineageInv' /\ WalkInv' /\ StoreInv' /\ Used' = Used
    BY <1>1, GateMoves
  <1>3. cur \in RunIds /\ cur \in Used /\ cur \in 0 .. MaxRuns
    BY <1>1, RunAtWork DEF TypeInv, TypeOK
  <1>4. Run.key # NoKey => Passed(Run.source) /\ Run.source \in RunIds
    BY <1>3 DEF FateInv, GateInv, Run, Passed, Used
  <1> DEFINE source == Run.source
             settled == [letters[source] EXCEPT !.status = "replayed", !.by = cur]
  <1>5. Run.key # NoKey => /\ letters' = [letters EXCEPT ![source] = settled]
                           /\ settled \in LetterRow /\ settled.status = "replayed"
                           /\ settled.class = letters[source].class
    <2> SUFFICES ASSUME Run.key # NoKey
                 PROVE  /\ letters' = [letters EXCEPT ![source] = settled]
                        /\ settled \in LetterRow /\ settled.status = "replayed"
                        /\ settled.class = letters[source].class
      OBVIOUS
    <2>1. letters[source] \in LetterRow /\ source \in RunIds
      BY <1>4 DEF TypeInv, TypeOK
    <2>2. /\ settled \in LetterRow /\ settled.status = "replayed"
          /\ settled.class = letters[source].class
      BY <1>3, <2>1 DEF LetterRow, Closed
    <2>3. letters' = [letters EXCEPT ![source] = settled]
      BY <1>1, <2>1 DEF TypeInv, TypeOK
    <2> QED BY <2>2, <2>3
  <1> HIDE DEF source, settled
  <1>6. TypeOK'
    <2>1. letters \in [RunIds -> LetterRow]
      BY DEF TypeInv, TypeOK
    <2>2. letters' = letters \/ (letters' = [letters EXCEPT ![source] = settled] /\ settled \in LetterRow)
      BY <1>1, <1>5
    <2>3. letters' \in [RunIds -> LetterRow]
      BY <2>1, <2>2
    <2>4. cur' \in 0 .. MaxRuns
      BY <1>1, LiveSyncAssumption DEF LiveSyncAssumption
    <2> QED BY <1>1, <2>3, <2>4 DEF TypeInv, TypeOK, modes
  <1>7. ASSUME NEW i \in RunIds
        PROVE  /\ letters'[i].class = letters[i].class
               /\ \/ letters'[i] = letters[i]
                  \/ letters'[i].status = "replayed" /\ Passed(i)
    <2>1. CASE Run.key = NoKey \/ i # source
      BY <1>1, <1>5, <2>1 DEF TypeInv, TypeOK
    <2>2. CASE Run.key # NoKey /\ i = source
      <3>1. letters'[i] = settled
        BY <1>5, <2>2 DEF TypeInv, TypeOK
      <3> QED BY <1>4, <1>5, <2>2, <3>1 DEF source
    <2> QED BY <2>1, <2>2
  <1>8. LetterInv' /\ OverInv' /\ GateInv'
    <2>1. \A i \in RunIds : /\ letters'[i].status # "none" => i \in Used
                            /\ letters'[i].status = "none" => letters'[i] = letters[i]
                            /\ letters'[i].status = "open" => letters[i].status = "open"
                            /\ letters'[i].status = "replayed" => runs[i].status = "failed"
      BY <1>7 DEF FateInv, LetterInv, Passed, Passing
    <2> QED BY <1>1, <1>2, <1>7, <2>1, FateOfLetters
  <1>9. EndInv'
    BY <1>1 DEF EndInv
  <1> QED BY <1>2, <1>6, <1>8, <1>9 DEF TypeInv, FateInv

LEMMA RestartKeeps ==
    ASSUME TypeInv, StoreInv, FateInv, Restart
    PROVE  TypeInv' /\ StoreInv' /\ FateInv'
  <1>1. /\ cur # 0 /\ step' = "idle" /\ cur' = 0 /\ runs' = runs /\ todo' = <<>>
        /\ stored' = stored /\ letters' = letters /\ killed' = killed \cup {cur} /\ UNCHANGED modes
        /\ loaded' = [c \in Clients |-> Nothing]
    BY DEF Restart
  <1>2. UsedInv' /\ LineageInv' /\ WalkInv' /\ StoreInv' /\ Used' = Used /\ todo' \in Seq(Resources)
    BY <1>1, GateMoves
  <1>3. cur \in RunIds /\ MaxRuns \in Nat
    BY <1>1, RunAtWork, LiveSyncAssumption DEF LiveSyncAssumption
  <1>4. Nothing \in Request
    BY <1>3 DEF Nothing, Request
  <1>5. TypeOK'
    BY <1>1, <1>2, <1>3, <1>4 DEF TypeInv, TypeOK, modes
  <1>6. LetterInv' /\ OverInv' /\ GateInv'
    <2>1. \A i \in RunIds : /\ letters[i].status # "none" => i \in Used
                            /\ letters[i].status = "replayed" => runs[i].status = "failed"
      BY DEF FateInv, LetterInv
    <2> QED BY <1>1, <1>2, <2>1, FateOfLetters
  <1>7. EndInv'
    BY <1>1 DEF EndInv
  <1> QED BY <1>2, <1>5, <1>6, <1>7 DEF TypeInv, FateInv


-----------------------------------------------------------------------------
(* Requests about letters *)

LEMMA ReadKeeps ==
    ASSUME TypeInv, StoreInv, FateInv, NEW c \in Clients, NEW op \in {"replay", "ignore"},
           NEW i \in RunIds, NEW key \in Keys \cup {NoKey}, Read(c, op, i, key),
           op = "replay" => Passed(i), letters[i].status # "none"
    PROVE  TypeInv' /\ StoreInv' /\ FateInv'
  <1> DEFINE asked == [op |-> op, letter |-> i, key |-> key]
  <1>1. /\ loaded' = [loaded EXCEPT ![c] = asked] /\ runs' = runs /\ letters' = letters
        /\ stored' = stored /\ UNCHANGED gateVars /\ killed' = killed /\ UNCHANGED modes
    BY DEF Read
  <1>2. UsedInv' /\ LineageInv' /\ WalkInv' /\ StoreInv' /\ Used' = Used
    BY <1>1, GateStays
  <1>3. cur' = cur /\ step' = step /\ todo' = todo
    BY <1>1 DEF gateVars
  <1>4. asked \in Request
    BY LiveSyncAssumption DEF Request, RunIds, LiveSyncAssumption
  <1>5. asked.op = op /\ asked.letter = i
    OBVIOUS
  <1> HIDE DEF asked
  <1>6. /\ loaded' \in [Clients -> Request]
        /\ \A d \in Clients : loaded'[d] = IF d = c THEN asked ELSE loaded[d]
    BY <1>1, <1>4 DEF TypeInv, TypeOK
  <1>7. TypeOK'
    BY <1>1, <1>3, <1>6 DEF TypeInv, TypeOK, modes
  <1>8. LetterInv' /\ OverInv' /\ EndInv'
    BY <1>1, <1>2, <1>3 DEF FateInv, LetterInv, OverInv, EndInv, Run, Passing, Guarded
  <1>9. \A j : Passed(j)' <=> Passed(j)
    BY <1>1, <1>2 DEF Passed
  <1>10. GateInv'
    <2>1. ASSUME NEW d \in Clients
          PROVE  /\ loaded'[d].op = "replay" => Passed(loaded'[d].letter)
                 /\ loaded'[d].op = "ignore" => /\ loaded'[d].letter \in RunIds
                                                /\ letters[loaded'[d].letter].status # "none"
      <3>1. CASE d = c
        BY <1>5, <1>6, <3>1
      <3>2. CASE d # c
        BY <1>6, <3>2 DEF FateInv, GateInv
      <3> QED BY <3>1, <3>2
    <2>2. \A j \in Used : runs[j].key # NoKey => Passed(runs[j].source)
      BY DEF FateInv, GateInv
    <2> QED BY <1>1, <1>2, <2>1, <2>2 DEF GateInv, Passed
  <1> QED BY <1>2, <1>7, <1>8, <1>10 DEF TypeInv, FateInv

(* A step that only closes letters and drops requests.                     *)
LEMMA ClosingKeeps ==
    ASSUME TypeInv, StoreInv, FateInv, runs' = runs, stored' = stored, UNCHANGED gateVars,
           killed' = killed, UNCHANGED modes, letters' \in [RunIds -> LetterRow],
           \A c \in Clients : loaded'[c] = loaded[c] \/ loaded'[c] = Nothing,
           loaded' \in [Clients -> Request],
           \A i \in RunIds :
              \/ letters'[i] = letters[i]
              \/ /\ letters[i].status # "none" /\ letters'[i].status = "ignored"
                 /\ letters'[i].class = letters[i].class
              \/ /\ letters[i].status = "none" /\ i \in Used /\ letters'[i].status = "ignored"
                 /\ letters'[i].class = "manual"
    PROVE  TypeInv' /\ StoreInv' /\ FateInv'
  <1>1. UsedInv' /\ LineageInv' /\ WalkInv' /\ StoreInv' /\ Used' = Used
    BY GateStays
  <1>2. cur' = cur /\ step' = step /\ todo' = todo
    BY DEF gateVars
  <1>3. TypeOK'
    BY <1>2 DEF TypeInv, TypeOK, modes
  <1>4. \A i \in RunIds : /\ letters[i].status # "none" => i \in Used
                          /\ letters[i].status = "none" => letters[i].class = "none"
                          /\ letters[i].status = "replayed" => runs[i].status = "failed"
    BY DEF FateInv, LetterInv
  <1>5. \A i \in RunIds : /\ letters'[i].status # "none" => i \in Used
                          /\ letters'[i].status = "none" => letters'[i] = letters[i]
                          /\ letters'[i].class = "auto" => letters[i].class = "auto"
                          /\ letters[i].class = "auto" => letters'[i].class = "auto"
                          /\ letters'[i].status = "open" => letters[i].status = "open"
                          /\ letters'[i].status = "replayed" => runs[i].status = "failed"
    BY <1>4
  <1>6. LetterInv' /\ OverInv' /\ GateInv'
    BY <1>1, <1>2, <1>5, FateOfLetters
  <1>7. EndInv'
    <2>1. cur # 0 => cur \in RunIds
      BY RunAtWork
    <2> QED BY <1>2, <1>5, <2>1 DEF FateInv, EndInv, Run
  <1> QED BY <1>1, <1>3, <1>6, <1>7 DEF TypeInv, FateInv

LEMMA AskKeeps ==
    ASSUME TypeInv, StoreInv, FateInv, NEW c \in Clients,
           ReadForReplay(c) \/ ReplayRefused(c) \/ ReadForIgnore(c) \/ Ignore(c) \/ Archive(c)
    PROVE  TypeInv' /\ StoreInv' /\ FateInv'
  <1>1. /\ letters \in [RunIds -> LetterRow] /\ loaded \in [Clients -> Request]
        /\ Nothing \in Request
    BY LiveSyncAssumption DEF TypeInv, TypeOK, Nothing, Request, LiveSyncAssumption
  <1>2. \A i \in RunIds : letters[i].status = "open" => i \in Used
    BY DEF FateInv, LetterInv
  <1>3. CASE ReadForReplay(c)
    <2>1. PICK i \in RunIds, key \in Keys : Replayable(i) /\ Read(c, "replay", i, key)
      BY <1>3 DEF ReadForReplay
    <2>2. Passed(i) /\ letters[i].status # "none"
      BY <1>2, <2>1 DEF Replayable, Passed
    <2> QED BY <2>1, <2>2, ReadKeeps
  <1>4. CASE ReadForIgnore(c)
    <2>1. PICK i \in RunIds : letters[i].status = "open" /\ Read(c, "ignore", i, NoKey)
      BY <1>4 DEF ReadForIgnore
    <2> QED BY <2>1, ReadKeeps
  <1>5. CASE ReplayRefused(c)
    <2>1. /\ runs' = runs /\ letters' = letters /\ stored' = stored /\ UNCHANGED gateVars
          /\ killed' = killed /\ UNCHANGED modes /\ loaded' = [loaded EXCEPT ![c] = Nothing]
      BY <1>5 DEF ReplayRefused
    <2> QED BY <1>1, <2>1, ClosingKeeps
  <1>6. CASE Ignore(c)
    <2> DEFINE i == loaded[c].letter
               closed == [letters[i] EXCEPT !.status = "ignored"]
    <2>1. i \in RunIds /\ letters[i].status # "none"
      BY <1>6 DEF Ignore, FateInv, GateInv
    <2>2. /\ runs' = runs /\ stored' = stored /\ UNCHANGED gateVars /\ killed' = killed
          /\ UNCHANGED modes /\ loaded' = [loaded EXCEPT ![c] = Nothing]
          /\ letters' = [letters EXCEPT ![i] = closed]
      BY <1>6 DEF Ignore
    <2>3. closed \in LetterRow /\ closed.status = "ignored" /\ closed.class = letters[i].class
      BY <1>1, <2>1 DEF LetterRow, Closed
    <2> HIDE DEF i, closed
    <2> QED BY <1>1, <2>1, <2>2, <2>3, ClosingKeeps
  <1>7. CASE Archive(c)
    <2> DEFINE closed == [status |-> "ignored", class |-> "manual", by |-> 0]
    <2>1. PICK i \in Used :
             /\ letters[i].status = "none" /\ letters' = [letters EXCEPT ![i] = closed]
             /\ runs' = runs /\ stored' = stored /\ UNCHANGED gateVars /\ loaded' = loaded
             /\ killed' = killed /\ UNCHANGED modes
      BY <1>7 DEF Archive
    <2>2. closed \in LetterRow /\ closed.status = "ignored" /\ closed.class = "manual"
      BY LiveSyncAssumption DEF LetterRow, Closed, LiveSyncAssumption
    <2>3. i \in RunIds
      BY DEF Used
    <2> HIDE DEF closed
    <2> QED BY <1>1, <2>1, <2>2, <2>3, ClosingKeeps
  <1> QED BY <1>3, <1>4, <1>5, <1>6, <1>7


(* A new run has no letter yet, and its gate was passed before.            *)
LEMMA BeginFate ==
    ASSUME TypeInv, FateInv, NEW source \in Used \cup {0}, NEW key \in Keys \cup {NoKey},
           NEW targets \in Seq(Resources), targets # <<>>, Begin(source, key, targets),
           key # NoKey => Passed(source),
           \A c \in Clients : loaded'[c] = loaded[c] \/ loaded'[c] = Nothing
    PROVE  FateInv'
  <1> DEFINE new == Count + 1
  <1>1. /\ new \in RunIds /\ new \notin Used /\ Used' = Used \cup {new}
        /\ cur = 0 /\ cur' = new /\ step' = "visit"
        /\ \A j \in RunIds : j # new => runs'[j] = runs[j]
        /\ runs'[new].source = source /\ runs'[new].key = key
        /\ letters' = letters /\ killed' = killed
    BY BeginIs
  <1> HIDE DEF new
  <1>2. /\ letters[new].status = "none" /\ letters[new].class = "none"
    BY <1>1 DEF FateInv, LetterInv
  <1>3. \A j \in Used : j \in RunIds /\ j # new /\ runs'[j] = runs[j]
    BY <1>1 DEF Used
  <1>4. LetterInv'
    <2> SUFFICES ASSUME NEW i \in RunIds
                 PROVE  /\ letters[i].status # "none" => i \in Used
                        /\ letters[i].status = "none" => letters[i].class = "none"
                        /\ letters[i].class = "auto" => Passing(runs'[i])
                        /\ letters[i].status = "replayed" => runs'[i].status = "failed"
      BY <1>1 DEF LetterInv, Passing, Guarded
    <2>1. CASE i = new
      BY <1>2, <2>1
    <2>2. CASE i # new
      BY <1>1, <2>2 DEF FateInv, LetterInv
    <2> QED BY <2>1, <2>2
  <1>5. OverInv'
    <2> SUFFICES ASSUME NEW i \in Used' \ (killed \cup {new})
                 PROVE  /\ runs'[i].status = "failed" => letters[i].status # "none"
                        /\ letters[i].status = "open" => runs'[i].status = "failed"
      BY <1>1 DEF OverInv
    <2>1. i \in Used \ (killed \cup {cur}) /\ runs'[i] = runs[i]
      BY <1>1, <1>3 DEF RunIds
    <2> QED BY <2>1 DEF FateInv, OverInv
  <1>6. EndInv'
    BY <1>1, <1>2 DEF EndInv
  <1>7. \A j : Passed(j) => Passed(j)'
    BY <1>1, <1>3 DEF Passed
  <1>8. GateInv'
    <2>1. ASSUME NEW j \in Used', runs'[j].key # NoKey PROVE Passed(runs'[j].source)
      <3>1. CASE j = new
        BY <1>1, <2>1, <3>1
      <3>2. CASE j # new
        BY <1>1, <1>3, <2>1, <3>2 DEF FateInv, GateInv
      <3> QED BY <3>1, <3>2
    <2>2. ASSUME NEW c \in Clients
          PROVE  /\ loaded'[c].op = "replay" => Passed(loaded'[c].letter)
                 /\ loaded'[c].op = "ignore" => /\ loaded'[c].letter \in RunIds
                                                /\ letters[loaded'[c].letter].status # "none"
      BY DEF FateInv, GateInv, Nothing
    <2>3. \A j : Passed(j) => j \in Used' /\ letters'[j].class = "auto" /\ runs'[j].attempt < MaxAttempts
      BY <1>1, <1>3 DEF Passed
    <2> QED BY <1>1, <2>1, <2>2, <2>3 DEF GateInv, Passed
  <1> QED BY <1>4, <1>5, <1>6, <1>8 DEF FateInv

(* What callers ask for, and what a replay takes from its letter.          *)
LEMMA ScopesAreLists ==
    ASSUME TypeInv, NEW targets \in scope.requests
    PROVE  targets \in Seq(Resources) /\ targets # <<>> /\ Distinct(targets)
  <1>1. scope \in Scopes /\ scope \in [requests : SUBSET (Seq(Resources) \ {<<>>}), runs : 1 .. MaxRuns]
    BY LiveSyncAssumption DEF TypeInv, TypeOK, LiveSyncAssumption
  <1> QED BY <1>1, LiveSyncAssumption DEF LiveSyncAssumption, Distinct

LEMMA ReplayTargetsAreList ==
    ASSUME TypeInv, NEW i \in Used
    PROVE  /\ ReplayTargets(i) \in Seq(Resources) /\ ReplayTargets(i) # <<>>
           /\ Distinct(ReplayTargets(i))
  <1> DEFINE retryable == {x \in Resources : runs[i].res[x] = "auto"}
             set == IF retryable # {} THEN retryable ELSE Targets(runs[i])
  <1>1. set \in SUBSET Resources /\ set # {}
    BY DEF Targets, TypeInv, LineageInv
  <1>2. ReplayTargets(i) = Sorted(set)
    BY DEF ReplayTargets
  <1> HIDE DEF set
  <1> QED BY <1>1, <1>2, SortedIsList

LEMMA BeginningsKeep ==
    ASSUME TypeInv, StoreInv, FateInv, Sync \/ Resume \/ \E c \in Clients : Replay(c)
    PROVE  TypeInv' /\ StoreInv' /\ FateInv'
  <1>1. loaded \in [Clients -> Request] /\ NoKey \in Keys \cup {NoKey}
    BY DEF TypeInv, TypeOK
  <1>2. CASE Sync
    <2>1. PICK targets \in scope.requests : Begin(0, NoKey, targets) /\ loaded' = loaded
      BY <1>2 DEF Sync
    <2>2. targets \in Seq(Resources) /\ targets # <<>> /\ Distinct(targets)
      BY ScopesAreLists
    <2>3. TypeInv' /\ StoreInv'
      BY <1>1, <2>1, <2>2, BeginKeeps
    <2> QED BY <1>1, <2>1, <2>2, <2>3, BeginFate
  <1>3. CASE Resume
    <2>1. PICK i \in Used, targets \in scope.requests : Begin(i, NoKey, targets) /\ loaded' = loaded
      BY <1>3 DEF Resume
    <2>2. targets \in Seq(Resources) /\ targets # <<>> /\ Distinct(targets)
      BY ScopesAreLists
    <2>3. TypeInv' /\ StoreInv'
      BY <1>1, <2>1, <2>2, BeginKeeps
    <2> QED BY <1>1, <2>1, <2>2, <2>3, BeginFate
  <1>4. CASE \E c \in Clients : Replay(c)
    <2>1. PICK c \in Clients : Replay(c)
      BY <1>4
    <2> DEFINE i == loaded[c].letter
               key == loaded[c].key
    <2>2. /\ loaded[c].op = "replay" /\ Begin(i, key, ReplayTargets(i))
          /\ loaded' = [loaded EXCEPT ![c] = Nothing]
      BY <2>1 DEF Replay
    <2>3. Passed(i) /\ i \in Used /\ i # 0 /\ key \in Keys \cup {NoKey}
      <3>1. Passed(i)
        BY <2>2 DEF FateInv, GateInv
      <3>2. key \in Keys \cup {NoKey}
        BY <1>1 DEF Request
      <3> QED BY <3>1, <3>2 DEF Passed, Used, RunIds
    <2>4. /\ ReplayTargets(i) \in Seq(Resources) /\ ReplayTargets(i) # <<>>
          /\ Distinct(ReplayTargets(i))
      BY <2>3, ReplayTargetsAreList
    <2>5. Nothing \in Request
      BY LiveSyncAssumption DEF Nothing, Request, LiveSyncAssumption
    <2>6. /\ loaded' \in [Clients -> Request]
          /\ \A d \in Clients : loaded'[d] = loaded[d] \/ loaded'[d] = Nothing
      BY <1>1, <2>2, <2>5
    <2> HIDE DEF i, key
    <2>7. TypeInv' /\ StoreInv'
      BY <2>2, <2>3, <2>4, <2>6, BeginKeeps
    <2> QED BY <2>2, <2>3, <2>4, <2>6, <2>7, BeginFate
  <1> QED BY <1>2, <1>3, <1>4


-----------------------------------------------------------------------------
(* Requests that come one at a time *)

(* When requests about letters come one at a time: a request is about an   *)
(* open letter that no run replays, and no replay of a letter is alive but *)
(* the one at work and the one that closed it.                             *)
RequestsInv ==
    /\ \A c, d \in Clients : loaded[c] # Nothing /\ loaded[d] # Nothing => c = d
    /\ \A c \in Clients : loaded[c] # Nothing =>
          /\ cur = 0 \/ Run.key = NoKey
          /\ loaded[c].letter \in Used /\ letters[loaded[c].letter].status = "open"

AliveInv ==
    /\ cur # 0 /\ Run.key # NoKey => letters[Run.source].status = "open"
    /\ \A i \in Used :
          /\ letters[i].status = "open" => Replays(i) \subseteq killed \cup {cur}
          /\ letters[i].status = "ignored" => Replays(i) \subseteq killed
          /\ letters[i].status = "replayed" => /\ letters[i].by \in Replays(i)
                                               /\ Replays(i) \subseteq killed \cup {letters[i].by}

SettleInv == serial => RequestsInv /\ AliveInv

(* A letter that was replayed was open before.                             *)
LEMMA ReplaysAre ==
    ASSUME TypeInv, FateInv, NEW i
    PROVE  /\ Replays(i) \subseteq RunIds
           /\ i \in RunIds /\ letters[i].status = "none" => Replays(i) = {}
           /\ Replays(0) = {}
           /\ cur # 0 /\ Run.key # NoKey => /\ Run.source \in Used /\ Run.source < cur
                                            /\ cur \in Replays(Run.source)
           /\ cur # 0 /\ cur \in Replays(i) => i = Run.source /\ Run.key # NoKey
           /\ 0 \notin Replays(i)
  <1>1. Replays(i) \subseteq RunIds /\ 0 \notin Replays(i)
    BY DEF Replays, Used, RunIds
  <1>2. ASSUME NEW j \in Replays(i) PROVE i \in Used /\ letters[i].class = "auto"
    BY DEF Replays, FateInv, GateInv, Passed
  <1>3. i \in RunIds /\ letters[i].status = "none" => Replays(i) = {}
    BY <1>2 DEF FateInv, LetterInv
  <1>4. Replays(0) = {}
    BY DEF Replays, FateInv, GateInv, Passed, Used, RunIds
  <1>5. cur # 0 => cur \in Used
    BY RunAtWork
  <1>6. cur # 0 /\ Run.key # NoKey => /\ Run.source \in Used /\ Run.source < cur
                                      /\ cur \in Replays(Run.source)
    BY <1>5 DEF Replays, FateInv, GateInv, Passed, Run, TypeInv, LineageInv
  <1>7. cur # 0 /\ cur \in Replays(i) => i = Run.source /\ Run.key # NoKey
    BY DEF Replays, Run
  <1> QED BY <1>1, <1>3, <1>4, <1>6, <1>7

LEMMA IdleMeans ==
    ASSUME TypeInv, FateInv, serial, NEW c \in Clients, Idle(c)
    PROVE  /\ \A d \in Clients : loaded[d] = Nothing
           /\ cur = 0 \/ Run.key = NoKey
           /\ \A i : cur \notin Replays(i)
  <1>1. \A d \in Clients : loaded[d] = Nothing
    BY DEF Idle
  <1>2. cur = 0 \/ Run.key = NoKey
    BY ReplaysAre DEF Idle
  <1> QED BY <1>1, <1>2, ReplaysAre

(* The run at work writes its row.                                         *)
LEMMA SettleFrame ==
    ASSUME TypeInv, SettleInv, RowFrame, RestStays
    PROVE  SettleInv'
  <1> SUFFICES ASSUME serial PROVE RequestsInv' /\ AliveInv'
    BY DEF SettleInv, RowFrame, modes
  <1>1. /\ Used' = Used /\ \A i \in Used : i \in RunIds /\ Replays(i)' = Replays(i)
        /\ letters' = letters /\ loaded' = loaded /\ killed' = killed /\ cur' = cur
    BY UsedStays DEF RowFrame, RestStays, Used
  <1>2. cur # 0 => runs'[cur].key = Run.key /\ runs'[cur].source = Run.source
    BY RunAtWork DEF RowFrame, Run
  <1>3. RequestsInv'
    BY <1>1, <1>2 DEF SettleInv, RequestsInv, Run, Nothing
  <1>4. AliveInv'
    BY <1>1, <1>2 DEF SettleInv, AliveInv, Run
  <1> QED BY <1>3, <1>4


LEMMA RegisterSettles ==
    ASSUME TypeInv, FateInv, SettleInv, RegisterLetter
    PROVE  SettleInv'
  <1>1. /\ cur # 0 /\ runs' = runs /\ cur' = cur /\ loaded' = loaded /\ killed' = killed
        /\ serial' = serial
        /\ letters' = IF letters[cur].status = "none"
                         THEN [letters EXCEPT ![cur] = Letter(Run)] ELSE letters
    BY DEF RegisterLetter, TypeInv, TypeOK, modes
  <1>2. cur \in RunIds
    BY <1>1, RunAtWork
  <1>3. /\ Used' = Used /\ \A i : Replays(i)' = Replays(i)
        /\ \A i \in Used : i \in RunIds
    BY <1>1 DEF Used, Replays
  <1>4. \A i \in RunIds : \/ letters'[i] = letters[i]
                          \/ /\ i = cur /\ letters[i].status = "none" /\ letters'[i].status = "open"
                             /\ Replays(i) = {}
    BY <1>1, <1>2, ReplaysAre DEF TypeInv, TypeOK, Letter
  <1> SUFFICES ASSUME serial PROVE RequestsInv' /\ AliveInv'
    BY <1>1 DEF SettleInv
  <1>5. RequestsInv'
    BY <1>1, <1>3, <1>4 DEF SettleInv, RequestsInv, Run, Nothing
  <1>6. Run.key # NoKey => letters'[Run.source].status = "open"
    BY <1>1, <1>3, <1>4, ReplaysAre DEF SettleInv, AliveInv
  <1>7. AliveInv'
    <2>1. ASSUME NEW i \in Used
          PROVE  /\ letters'[i].status = "open" => Replays(i) \subseteq killed \cup {cur}
                 /\ letters'[i].status = "ignored" => Replays(i) \subseteq killed
                 /\ letters'[i].status = "replayed" =>
                       /\ letters'[i].by \in Replays(i)
                       /\ Replays(i) \subseteq killed \cup {letters'[i].by}
      BY <1>3, <1>4 DEF SettleInv, AliveInv
    <2> QED BY <1>1, <1>3, <1>6, <2>1 DEF AliveInv, Run
  <1> QED BY <1>5, <1>7

LEMMA EndRunSettles ==
    ASSUME TypeInv, FateInv, SettleInv, EndRun
    PROVE  SettleInv'
  <1>1. /\ cur # 0 /\ runs' = runs /\ cur' = 0 /\ loaded' = loaded /\ killed' = killed
        /\ serial' = serial
        /\ letters' = IF Run.key = NoKey THEN letters
                      ELSE [letters EXCEPT ![Run.source].status = "replayed", ![Run.source].by = cur]
    BY DEF EndRun, TypeInv, TypeOK, modes
  <1>2. /\ Used' = Used /\ \A i : Replays(i)' = Replays(i)
        /\ \A i \in Used : i \in RunIds
    BY <1>1 DEF Used, Replays
  <1>3. \A i \in Used : letters'[i] = letters[i] \/ (Run.key # NoKey /\ i = Run.source)
    BY <1>1, <1>2 DEF TypeInv, TypeOK
  <1>4. Run.key # NoKey => /\ letters'[Run.source].status = "replayed"
                           /\ letters'[Run.source].by = cur
    <2> SUFFICES ASSUME Run.key # NoKey
                 PROVE  letters'[Run.source].status = "replayed" /\ letters'[Run.source].by = cur
      OBVIOUS
    <2> DEFINE source == Run.source
               settled == [letters[source] EXCEPT !.status = "replayed", !.by = cur]
    <2>1. source \in RunIds
      BY <1>1, <1>2, ReplaysAre
    <2>2. letters[source] \in LetterRow
      BY <2>1 DEF TypeInv, TypeOK
    <2>3. settled.status = "replayed" /\ settled.by = cur
      BY <2>2 DEF LetterRow
    <2>4. letters'[source] = settled
      BY <1>1, <2>1 DEF TypeInv, TypeOK
    <2> QED BY <2>3, <2>4
  <1> SUFFICES ASSUME serial PROVE RequestsInv' /\ AliveInv'
    BY <1>1 DEF SettleInv
  <1>5. RequestsInv'
    <2>1. ASSUME NEW c \in Clients, loaded[c] # Nothing
          PROVE  letters'[loaded[c].letter].status = "open" /\ loaded[c].letter \in Used
      BY <1>1, <1>3, <2>1 DEF SettleInv, RequestsInv
    <2>2. \A c, d \in Clients : loaded[c] # Nothing /\ loaded[d] # Nothing => c = d
      BY DEF SettleInv, RequestsInv
    <2> QED BY <1>1, <1>2, <2>1, <2>2 DEF RequestsInv, Nothing
  <1>6. ASSUME NEW i \in Used
        PROVE  /\ letters'[i].status = "open" => Replays(i) \subseteq killed \cup {0}
               /\ letters'[i].status = "ignored" => Replays(i) \subseteq killed
               /\ letters'[i].status = "replayed" =>
                     /\ letters'[i].by \in Replays(i)
                     /\ Replays(i) \subseteq killed \cup {letters'[i].by}
    <2>1. CASE Run.key # NoKey /\ i = Run.source
      <3>1. letters[i].status = "open" /\ Replays(i) \subseteq killed \cup {cur}
        BY <1>1, <2>1 DEF SettleInv, AliveInv
      <3> QED BY <1>1, <1>4, <2>1, <3>1, ReplaysAre
    <2>2. CASE Run.key = NoKey \/ i # Run.source
      <3>1. letters'[i] = letters[i] /\ cur \notin Replays(i)
        BY <1>1, <1>3, <2>2, ReplaysAre
      <3> QED BY <3>1 DEF SettleInv, AliveInv
    <2> QED BY <2>1, <2>2
  <1>7. AliveInv'
    BY <1>1, <1>2, <1>6 DEF AliveInv
  <1> QED BY <1>5, <1>7

LEMMA RestartSettles ==
    ASSUME TypeInv, FateInv, SettleInv, Restart
    PROVE  SettleInv'
  <1>1. /\ cur # 0 /\ runs' = runs /\ cur' = 0 /\ killed' = killed \cup {cur}
        /\ letters' = letters /\ serial' = serial /\ loaded' = [c \in Clients |-> Nothing]
    BY DEF Restart, modes
  <1>2. Used' = Used /\ \A i : Replays(i)' = Replays(i)
    BY <1>1 DEF Used, Replays
  <1> SUFFICES ASSUME serial PROVE RequestsInv' /\ AliveInv'
    BY <1>1 DEF SettleInv
  <1>3. RequestsInv'
    BY <1>1 DEF RequestsInv, Nothing
  <1>4. AliveInv'
    BY <1>1, <1>2 DEF SettleInv, AliveInv
  <1> QED BY <1>3, <1>4


LEMMA AskSettles ==
    ASSUME TypeInv, FateInv, SettleInv, NEW c \in Clients,
           ReadForReplay(c) \/ ReplayRefused(c) \/ ReadForIgnore(c) \/ Ignore(c) \/ Archive(c)
    PROVE  SettleInv'
  <1>1. /\ runs' = runs /\ cur' = cur /\ killed' = killed /\ serial' = serial
        /\ letters \in [RunIds -> LetterRow] /\ loaded \in [Clients -> Request]
    BY DEF ReadForReplay, ReplayRefused, ReadForIgnore, Ignore, Archive, Read, gateVars, modes,
           TypeInv, TypeOK
  <1>2. /\ Used' = Used /\ \A i : Replays(i)' = Replays(i)
        /\ \A i \in Used : i \in RunIds
    BY <1>1 DEF Used, Replays
  <1> SUFFICES ASSUME serial PROVE RequestsInv' /\ AliveInv'
    BY <1>1 DEF SettleInv
  <1>3. \A i \in RunIds : letters[i].status = "open" => i \in Used
    BY DEF FateInv, LetterInv
  <1>4. ASSUME NEW op, NEW i \in RunIds, NEW key, letters[i].status = "open", Idle(c),
               Read(c, op, i, key)
        PROVE  RequestsInv' /\ AliveInv'
    <2>1. letters' = letters /\ loaded' = [loaded EXCEPT ![c] = [op |-> op, letter |-> i, key |-> key]]
      BY <1>4 DEF Read
    <2>2. /\ \A d \in Clients : d # c => loaded'[d] = Nothing
          /\ loaded'[c].letter = i /\ (cur = 0 \/ Run.key = NoKey)
      BY <1>1, <1>4, <2>1, IdleMeans
    <2>3. RequestsInv'
      BY <1>1, <1>2, <1>3, <1>4, <2>1, <2>2 DEF RequestsInv, Run, Nothing
    <2>4. AliveInv'
      BY <1>1, <1>2, <2>1 DEF SettleInv, AliveInv, Run
    <2> QED BY <2>3, <2>4
  <1>5. CASE ReadForReplay(c)
    BY <1>4, <1>5 DEF ReadForReplay, Replayable
  <1>6. CASE ReadForIgnore(c)
    BY <1>4, <1>6 DEF ReadForIgnore
  <1>7. CASE ReplayRefused(c)
    <2>1. letters' = letters /\ \A d \in Clients : loaded'[d] = loaded[d] \/ loaded'[d] = Nothing
      BY <1>1, <1>7 DEF ReplayRefused
    <2>2. RequestsInv'
      BY <1>1, <1>2, <2>1 DEF SettleInv, RequestsInv, Run, Nothing
    <2>3. AliveInv'
      BY <1>1, <1>2, <2>1 DEF SettleInv, AliveInv, Run
    <2> QED BY <2>2, <2>3
  <1>8. CASE Ignore(c)
    <2> DEFINE i == loaded[c].letter
    <2>1. /\ loaded[c] # Nothing /\ loaded' = [loaded EXCEPT ![c] = Nothing]
          /\ letters' = [letters EXCEPT ![i].status = "ignored"]
      BY <1>8 DEF Ignore, Nothing
    <2>2. /\ i \in Used /\ letters[i].status = "open" /\ (cur = 0 \/ Run.key = NoKey)
          /\ \A d \in Clients : loaded'[d] = Nothing
      BY <1>1, <2>1 DEF SettleInv, RequestsInv
    <2>3. \A j \in Used : letters'[j] = letters[j] \/ (j = i /\ letters'[j].status = "ignored")
      BY <1>1, <1>2, <2>1, <2>2 DEF LetterRow
    <2> HIDE DEF i
    <2>4. \A j : cur \notin Replays(j)
      BY <2>2, ReplaysAre
    <2>5. RequestsInv'
      BY <2>2 DEF RequestsInv, Nothing
    <2>6. ASSUME NEW j \in Used
          PROVE  /\ letters'[j].status = "open" => Replays(j) \subseteq killed \cup {cur}
                 /\ letters'[j].status = "ignored" => Replays(j) \subseteq killed
                 /\ letters'[j].status = "replayed" =>
                       /\ letters'[j].by \in Replays(j)
                       /\ Replays(j) \subseteq killed \cup {letters'[j].by}
      BY <2>2, <2>3, <2>4 DEF SettleInv, AliveInv
    <2>7. AliveInv'
      BY <1>1, <1>2, <2>2, <2>6 DEF AliveInv, Run
    <2> QED BY <2>5, <2>7
  <1>9. CASE Archive(c)
    <2>1. PICK i \in Used :
             /\ letters[i].status = "none" /\ Idle(c) /\ loaded' = loaded
             /\ letters' = [letters EXCEPT ![i] = [status |-> "ignored", class |-> "manual", by |-> 0]]
      BY <1>9 DEF Archive
    <2>2. /\ \A j \in Used : letters'[j] = letters[j] \/ (j = i /\ letters'[j].status = "ignored")
          /\ Replays(i) = {}
      BY <1>1, <1>2, <2>1, ReplaysAre
    <2>3. (cur = 0 \/ Run.key = NoKey) /\ \A d \in Clients : loaded'[d] = Nothing
      BY <2>1, IdleMeans
    <2>4. RequestsInv'
      BY <2>3 DEF RequestsInv, Nothing
    <2>5. ASSUME NEW j \in Used
          PROVE  /\ letters'[j].status = "open" => Replays(j) \subseteq killed \cup {cur}
                 /\ letters'[j].status = "ignored" => Replays(j) \subseteq killed
                 /\ letters'[j].status = "replayed" =>
                       /\ letters'[j].by \in Replays(j)
                       /\ Replays(j) \subseteq killed \cup {letters'[j].by}
      BY <2>2 DEF SettleInv, AliveInv
    <2>6. AliveInv'
      BY <1>1, <1>2, <2>3, <2>5 DEF AliveInv, Run
    <2> QED BY <2>4, <2>6
  <1> QED BY <1>5, <1>6, <1>7, <1>8, <1>9


LEMMA BeginSettles ==
    ASSUME TypeInv, FateInv, SettleInv, NEW source \in Used \cup {0}, NEW key \in Keys \cup {NoKey},
           NEW targets \in Seq(Resources), targets # <<>>, Begin(source, key, targets),
           \A c \in Clients : loaded'[c] = loaded[c] \/ loaded'[c] = Nothing,
           serial /\ key # NoKey => /\ source # 0 /\ letters[source].status = "open"
                                    /\ \A c \in Clients : loaded'[c] = Nothing
    PROVE  SettleInv'
  <1> DEFINE new == Count + 1
  <1>1. /\ new \in RunIds /\ new \notin Used /\ Used' = Used \cup {new}
        /\ cur = 0 /\ cur' = new
        /\ \A j \in RunIds : j # new => runs'[j] = runs[j]
        /\ runs'[new].source = source /\ runs'[new].key = key
        /\ letters' = letters /\ killed' = killed /\ serial' = serial
    BY BeginIs DEF modes
  <1> HIDE DEF new
  <1>2. letters[new].status = "none"
    BY <1>1 DEF FateInv, LetterInv
  <1>3. \A j \in Used : j \in RunIds /\ j # new /\ runs'[j] = runs[j]
    BY <1>1 DEF Used
  <1>4. ASSUME NEW i
        PROVE  \/ Replays(i)' = Replays(i)
               \/ key # NoKey /\ i = source /\ Replays(i)' = Replays(i) \cup {new}
    BY <1>1, <1>3 DEF Replays
  <1> SUFFICES ASSUME serial PROVE RequestsInv' /\ AliveInv'
    BY <1>1 DEF SettleInv
  <1>5. \A i : 0 \notin Replays(i)
    BY ReplaysAre
  <1>6. RequestsInv'
    <2>1. CASE key # NoKey
      BY <2>1 DEF RequestsInv, Nothing
    <2>2. CASE key = NoKey
      <3>1. runs'[cur'].key = NoKey
        BY <1>1, <2>2
      <3> QED BY <1>1, <3>1 DEF SettleInv, RequestsInv, Run, Nothing
    <2> QED BY <2>1, <2>2
  <1>7. ASSUME NEW i \in Used'
        PROVE  /\ letters[i].status = "open" => Replays(i)' \subseteq killed \cup {new}
               /\ letters[i].status = "ignored" => Replays(i)' \subseteq killed
               /\ letters[i].status = "replayed" => /\ letters[i].by \in Replays(i)'
                                                    /\ Replays(i)' \subseteq killed \cup {letters[i].by}
    <2>1. CASE i = new
      BY <1>2, <2>1
    <2>2. CASE i # new
      <3>1. /\ letters[i].status = "open" => Replays(i) \subseteq killed \cup {cur}
            /\ letters[i].status = "ignored" => Replays(i) \subseteq killed
            /\ letters[i].status = "replayed" => /\ letters[i].by \in Replays(i)
                                                 /\ Replays(i) \subseteq killed \cup {letters[i].by}
        BY <1>1, <2>2 DEF SettleInv, AliveInv
      <3>2. CASE Replays(i)' = Replays(i)
        BY <1>1, <1>5, <3>1, <3>2
      <3>3. CASE key # NoKey /\ i = source /\ Replays(i)' = Replays(i) \cup {new}
        BY <1>1, <1>5, <3>1, <3>3
      <3> QED BY <1>4, <3>2, <3>3
    <2> QED BY <2>1, <2>2
  <1>8. AliveInv'
    <2>1. runs'[cur'].key # NoKey => letters[runs'[cur'].source].status = "open"
      BY <1>1
    <2> QED BY <1>1, <1>7, <2>1 DEF AliveInv, Run
  <1> QED BY <1>6, <1>8

LEMMA BeginningsSettle ==
    ASSUME TypeInv, FateInv, SettleInv, Sync \/ Resume \/ \E c \in Clients : Replay(c)
    PROVE  SettleInv'
  <1>1. loaded \in [Clients -> Request]
    BY DEF TypeInv, TypeOK
  <1>2. CASE Sync
    <2>1. PICK targets \in scope.requests : Begin(0, NoKey, targets) /\ loaded' = loaded
      BY <1>2 DEF Sync
    <2> QED BY <2>1, ScopesAreLists, BeginSettles
  <1>3. CASE Resume
    <2>1. PICK i \in Used, targets \in scope.requests : Begin(i, NoKey, targets) /\ loaded' = loaded
      BY <1>3 DEF Resume
    <2> QED BY <2>1, ScopesAreLists, BeginSettles
  <1>4. CASE \E c \in Clients : Replay(c)
    <2>1. PICK c \in Clients : Replay(c)
      BY <1>4
    <2> DEFINE i == loaded[c].letter
               key == loaded[c].key
    <2>2. /\ loaded[c].op = "replay" /\ Begin(i, key, ReplayTargets(i))
          /\ loaded' = [loaded EXCEPT ![c] = Nothing] /\ loaded[c] # Nothing
      BY <2>1 DEF Replay, Nothing
    <2>3. i \in Used /\ i # 0 /\ key \in Keys \cup {NoKey}
      BY <1>1, <2>2 DEF FateInv, GateInv, Passed, Used, RunIds, Request
    <2>4. ReplayTargets(i) \in Seq(Resources) /\ ReplayTargets(i) # <<>>
      BY <2>3, ReplayTargetsAreList
    <2>5. \A d \in Clients : loaded'[d] = IF d = c THEN Nothing ELSE loaded[d]
      BY <1>1, <2>2
    <2>6. serial => letters[i].status = "open" /\ \A d \in Clients : loaded'[d] = Nothing
      BY <2>2, <2>5 DEF SettleInv, RequestsInv
    <2> HIDE DEF i, key
    <2> QED BY <2>2, <2>3, <2>4, <2>5, <2>6, BeginSettles
  <1> QED BY <1>2, <1>3, <1>4


-----------------------------------------------------------------------------
SyncInv == TypeInv /\ StoreInv /\ FateInv /\ SettleInv

LEMMA InvInit == Init => SyncInv
  <1> SUFFICES ASSUME Init PROVE SyncInv
    OBVIOUS
  <1>1. /\ runs = [i \in RunIds |-> NoRun] /\ letters = [i \in RunIds |-> NoLetter]
        /\ stored = [x \in Resources |-> {}] /\ cur = 0 /\ step = "idle" /\ todo = <<>>
        /\ loaded = [c \in Clients |-> Nothing] /\ killed = {}
        /\ serial \in BOOLEAN /\ scope \in Scopes
    BY DEF Init
  <1>2. MaxRuns \in Nat /\ \A x \in Resources : Pages[x] \in Nat \ {0}
    BY LiveSyncAssumption DEF LiveSyncAssumption
  <1>3. NoRun \in RunRow /\ NoLetter \in LetterRow /\ Nothing \in Request
    BY <1>2 DEF NoRun, RunRow, NoLetter, LetterRow, Nothing, Request
  <1>4. \A i \in RunIds : /\ runs[i].status = "absent" /\ \A x \in Resources : runs[i].cursor[x] = 0
                          /\ letters[i].status = "none" /\ letters[i].class = "none"
    BY <1>1 DEF NoRun, NoLetter
  <1>5. Used = {} /\ Count = 0
    BY <1>4, FS_EmptySet DEF Used, Count
  <1>6. TypeOK
    <2>1. todo \in Seq(Resources)
      BY <1>1
    <2>2. \A i \in RunIds, x \in Resources : runs[i].cursor[x] <= Pages[x]
      BY <1>2, <1>4
    <2>3. stored \in [Resources -> SUBSET Nat] /\ \A x \in Resources : stored[x] \subseteq 1 .. Pages[x]
      BY <1>1
    <2> QED BY <1>1, <1>2, <1>3, <2>1, <2>2, <2>3 DEF TypeOK
  <1>7. UsedInv /\ LineageInv /\ WalkInv
    <2>1. UsedInv
      BY <1>1, <1>2, <1>5 DEF UsedInv
    <2>2. DOMAIN todo = {}
      BY <1>1
    <2> QED BY <1>1, <1>5, <2>1, <2>2 DEF LineageInv, WalkInv, Distinct
  <1>8. StoreInv
    BY <1>1, <1>5 DEF StoreInv, SucceededIsStored
  <1>9. FateInv
    BY <1>1, <1>4, <1>5 DEF FateInv, LetterInv, OverInv, EndInv, GateInv, Nothing
  <1>10. SettleInv
    BY <1>1, <1>5 DEF SettleInv, RequestsInv, AliveInv
  <1> QED BY <1>6, <1>7, <1>8, <1>9, <1>10 DEF SyncInv, TypeInv

LEMMA InvNext == SyncInv /\ [Next]_vars => SyncInv'
  <1> SUFFICES ASSUME SyncInv, [Next]_vars PROVE SyncInv'
    OBVIOUS
  <1> USE DEF SyncInv
  <1>1. CASE Sync \/ Resume \/ \E c \in Clients : Replay(c)
    BY <1>1, BeginningsKeep, BeginningsSettle
  <1>2. CASE \/ SkipResource \/ GuardrailStops \/ FetchPage \/ UpstreamFails
             \/ PageLimit \/ Ingest \/ IngestFails \/ ResourceSucceeds
    BY <1>2, AtWorkKeeps, FateAtWork, SettleFrame DEF AtWork
  <1>3. CASE Finalize
    BY <1>3, FinalizeKeeps, SettleFrame
  <1>4. CASE RegisterLetter
    BY <1>4, RegisterKeeps, RegisterSettles
  <1>5. CASE ForceFailed
    BY <1>5, ForceKeeps, SettleFrame
  <1>6. CASE EndRun
    BY <1>6, EndRunKeeps, EndRunSettles
  <1>7. CASE Restart
    BY <1>7, RestartKeeps, RestartSettles
  <1>8. CASE \E c \in Clients : \/ ReadForReplay(c) \/ ReplayRefused(c) \/ ReadForIgnore(c)
                                \/ Ignore(c) \/ Archive(c)
    BY <1>8, AskKeeps, AskSettles
  <1>9. CASE UNCHANGED vars
    <2>1. /\ runs' = runs /\ letters' = letters /\ stored' = stored /\ UNCHANGED gateVars
          /\ loaded' = loaded /\ killed' = killed /\ UNCHANGED modes /\ serial' = serial
          /\ cur' = cur
      BY <1>9 DEF vars, gateVars, modes
    <2>2. TypeInv' /\ StoreInv' /\ FateInv'
      BY <2>1, ClosingKeeps DEF TypeInv, TypeOK
    <2>3. Used' = Used /\ \A i : Replays(i)' = Replays(i)
      BY <2>1 DEF Used, Replays
    <2>4. SettleInv'
      BY <2>1, <2>3 DEF SettleInv, RequestsInv, AliveInv, Run, Nothing
    <2> QED BY <2>2, <2>4
  <1> QED BY <1>1, <1>2, <1>3, <1>4, <1>5, <1>6, <1>7, <1>8, <1>9 DEF Next, Execute, Ask

LEMMA InvHolds == Spec => []SyncInv
  BY InvInit, InvNext, PTL DEF Spec

-----------------------------------------------------------------------------
(* The run, letter and gate have their types in every reachable state; a   *)
(* cursor never passes the last page.                                      *)
THEOREM SyncIsTyped == Spec => []TypeOK
  <1>1. SyncInv => TypeOK
    BY DEF SyncInv, TypeInv
  <1> QED BY <1>1, InvHolds, PTL

(* Whatever restarts, failed pages and resumed runs there are, a resource  *)
(* that a run fetched and reports succeeded is stored from the page the    *)
(* run began with: the order of commits in _shopify_sync_run and           *)
(* _shopify_resume_run.                                                    *)
THEOREM SuccessIsStored == Spec => []SucceededIsStored
  <1>1. SyncInv => SucceededIsStored
    BY DEF SyncInv, StoreInv
  <1> QED BY <1>1, InvHolds, PTL

(* A run that failed and was not cut short has a letter, and only a run    *)
(* that failed has one that is open or replayed: finalize_resource_run     *)
(* with register_dead_letter, for any run and any requests.                *)
THEOREM FailuresLeaveLetters == Spec => []FailuresAreLettered
  <1>1. SyncInv => FailuresAreLettered
    <2> SUFFICES ASSUME SyncInv, NEW i \in Used \ (killed \cup {cur})
                 PROVE  /\ runs[i].status = "failed" => letters[i].status # "none"
                        /\ letters[i].status \in {"open", "replayed"} => runs[i].status = "failed"
      BY DEF FailuresAreLettered
    <2>1. i \in RunIds
      BY DEF Used
    <2> QED BY <2>1 DEF SyncInv, FateInv, LetterInv, OverInv
  <1> QED BY <1>1, InvHolds, PTL

(* A replay was due when it began, however long ago its letter was read;   *)
(* and when requests do not overlap a letter is settled once:              *)
(* check_replay_preconditions before the gate in _dead_letter_replay_core. *)
THEOREM ReplaysAreDue == Spec => []ReplaysHold
  <1>1. SyncInv => ReplayRespectsGates
    <2> SUFFICES ASSUME SyncInv, NEW j \in Used, runs[j].key # NoKey
                 PROVE  LET i == runs[j].source IN
                        /\ letters[i].class = "auto" /\ runs[i].attempt < MaxAttempts
                        /\ runs[i].status = "failed" /\ ~Guarded(runs[i])
                        /\ \E x \in Resources : runs[i].res[x] = "auto"
      BY DEF ReplayRespectsGates
    <2>1. Passed(runs[j].source)
      BY DEF SyncInv, FateInv, GateInv
    <2>2. Passing(runs[runs[j].source])
      BY <2>1 DEF SyncInv, FateInv, LetterInv, Passed, Used
    <2> QED BY <2>1, <2>2 DEF Passed, Passing
  <1>2. SyncInv => SettledOnce
    <2> SUFFICES ASSUME SyncInv, serial, NEW i \in Used
                 PROVE  /\ Cardinality(Replays(i) \ killed) <= 1
                        /\ letters[i].status = "ignored" => Replays(i) \subseteq killed
                        /\ letters[i].status = "replayed" => letters[i].by \in Replays(i)
      BY DEF SettledOnce
    <2>1. AliveInv /\ i \in RunIds /\ letters[i] \in LetterRow
      BY DEF SyncInv, SettleInv, Used, TypeInv, TypeOK
    <2>2. letters[i].status = "none" => Replays(i) = {}
      BY <2>1, ReplaysAre DEF SyncInv
    <2>3. PICK x : Replays(i) \ killed \subseteq {x}
      <3>1. letters[i].status \in {"none", "open", "ignored", "replayed"}
        BY <2>1 DEF LetterRow, Closed
      <3> QED BY <2>1, <2>2, <3>1 DEF AliveInv
    <2>4. Replays(i) \ killed = {} \/ Replays(i) \ killed = {x}
      BY <2>3
    <2> DEFINE alive == Replays(i) \ killed
    <2>5. Cardinality(alive) <= 1
      <3> HIDE DEF alive
      <3>1. Cardinality({}) = 0 /\ Cardinality({x}) = 1
        BY FS_EmptySet, FS_Singleton
      <3>2. alive = {} \/ alive = {x}
        BY <2>4 DEF alive
      <3> QED BY <3>1, <3>2
    <2> QED BY <2>1, <2>5 DEF AliveInv
  <1>3. SyncInv => ReplaysHold
    BY <1>1, <1>2 DEF ReplaysHold
  <1> QED BY <1>3, InvHolds, PTL
=============================================================================
