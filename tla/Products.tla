------------------------------ MODULE Products ------------------------------
(***************************************************************************)
(* The product catalogue and the trail of its prices: upsert_product and   *)
(* the imports around it (app/repository.py), the fixture crawl of the API *)
(* and its background job.  An import looks up its records one by one; the *)
(* first product it inserts is flushed, which takes the write lock, so what*)
(* follows up to the commit is one step.  Updates are written at the       *)
(* commit, where they differ from what was loaded.                         *)
(***************************************************************************)
EXTENDS Integers, Sequences, FiniteSets, SequencesExt

CONSTANTS
    ProductIds,   \* (source, external_product_id)
    ListPrices,   \* what a crawl may see a product at
    Importers,    \* imports in progress
    MaxRecords,   \* bound on the records of an import
    MaxTrail      \* bound on the prices of a product before an import starts

ASSUME ProductsAssumption ==
    ListPrices \subseteq Nat /\ {MaxRecords, MaxTrail} \subseteq Nat

Records == [product : ProductIds, price : ListPrices]

VARIABLES
    alone,     \* whether imports come one at a time
    current,   \* products: id -> current_price, of those that exist
    trail,     \* product_price_history: id -> prices in the order of their ids
    phase,     \* where an import is: idle, read or write
    todo,      \* the records it has still to look up
    held,      \* the products its session holds, as loaded
    prices,    \* their prices as it has set them
    added      \* the history rows it has added: id -> prices

NothingAdded == [p \in ProductIds |-> << >>]

importVarsOf == <<phase, todo, held, prices, added>>
productVars == <<alone, current, trail, importVarsOf>>

ProductsInit ==
    /\ alone \in BOOLEAN
    /\ current = << >> /\ trail = NothingAdded
    /\ phase = [c \in Importers |-> "idle"]
    /\ todo = [c \in Importers |-> << >>]
    /\ held = [c \in Importers |-> << >>]
    /\ prices = [c \in Importers |-> << >>]
    /\ added = [c \in Importers |-> NothingAdded]

EndImport(c) ==
    /\ phase' = [phase EXCEPT ![c] = "idle"]
    /\ todo' = [todo EXCEPT ![c] = << >>]
    /\ held' = [held EXCEPT ![c] = << >>]
    /\ prices' = [prices EXCEPT ![c] = << >>]
    /\ added' = [added EXCEPT ![c] = NothingAdded]

StartImport(c) ==
    /\ phase[c] = "idle" /\ (alone => \A d \in Importers : phase[d] = "idle")
    /\ \A p \in ProductIds : Len(trail[p]) <= MaxTrail
    /\ \E batch \in BoundedSeq(Records, MaxRecords) :
          batch # << >> /\ todo' = [todo EXCEPT ![c] = batch]
    /\ phase' = [phase EXCEPT ![c] = "read"]
    /\ UNCHANGED <<alone, current, trail, held, prices, added>>

(* A session of an import: the prices it holds, the history rows to add.   *)
Sess(known, rows) == [prices |-> known, rows |-> rows]

(* What f says, and where it says nothing what g says.                     *)
Over(f, g) == [p \in DOMAIN f \cup DOMAIN g |-> IF p \in DOMAIN f THEN f[p] ELSE g[p]]
Only(p, price) == [q \in {p} |-> price]

(* Mutant of PriceChanged: each record of a price is a change.             *)
PriceChangedAlways(s, r) == s.prices[r.product] \in ListPrices

PriceChanged(s, r) == s.prices[r.product] # r.price

(* One record against what the session holds of its product.              *)
Upsert(s, r) ==
    IF r.product \in DOMAIN s.prices /\ ~PriceChanged(s, r) THEN s
    ELSE Sess(Over(Only(r.product, r.price), s.prices),
              [s.rows EXCEPT ![r.product] = Append(@, r.price)])

(* A product that exists is looked up and compared.                        *)
LookUp(c) ==
    LET r == Head(todo[c])
        found == Only(r.product, current[r.product])
        s == Upsert(Sess(Over(prices[c], found), added[c]), r)
    IN /\ phase[c] = "read" /\ todo[c] # << >> /\ r.product \in DOMAIN current
       /\ held' = [held EXCEPT ![c] = Over(@, found)]
       /\ prices' = [prices EXCEPT ![c] = s.prices]
       /\ added' = [added EXCEPT ![c] = s.rows]
       /\ todo' = [todo EXCEPT ![c] = Tail(@)]
       /\ UNCHANGED <<alone, current, trail, phase>>

(* It does not exist, or there is nothing left to look up.                 *)
ReadyToWrite(c) ==
    /\ phase[c] = "read" /\ (todo[c] # << >> => Head(todo[c]).product \notin DOMAIN current)
    /\ phase' = [phase EXCEPT ![c] = "write"]
    /\ UNCHANGED <<alone, current, trail, todo, held, prices, added>>

(* The session after the records that are left.                            *)
AfterAll(s, batch) ==
    LET after[i \in 0..Len(batch)] == IF i = 0 THEN s ELSE Upsert(after[i - 1], batch[i])
    IN after[Len(batch)]

(* The first flush and everything up to the commit.  The insert fails if   *)
(* another import has inserted the product in the meantime.                *)
Commit(c) ==
    LET end == AfterAll(Sess(Over(prices[c], current), added[c]), todo[c])
        kept(p) == p \in DOMAIN held[c] /\ end.prices[p] = held[c][p]
    IN /\ phase[c] = "write"
       /\ todo[c] # << >> => Head(todo[c]).product \notin DOMAIN current
       /\ current' = [p \in DOMAIN end.prices |-> IF kept(p) THEN current[p] ELSE end.prices[p]]
       /\ trail' = [p \in ProductIds |-> trail[p] \o end.rows[p]]
       /\ EndImport(c)
       /\ UNCHANGED alone

(* A collector that raises, a constraint or a crash: all is rolled back.   *)
RollBack(c) ==
    /\ phase[c] # "idle"
    /\ EndImport(c)
    /\ UNCHANGED <<alone, current, trail>>

ProductsNext ==
    \E c \in Importers :
        StartImport(c) \/ LookUp(c) \/ ReadyToWrite(c) \/ Commit(c) \/ RollBack(c)

ProductsSpec == ProductsInit /\ [][ProductsNext]_productVars

-----------------------------------------------------------------------------

(* Also when imports overlap and one lists a product twice, a product has  *)
(* a price exactly when it has a trail.  When they come one at a time its  *)
(* price is the last of the trail, and no price is recorded twice in a row:*)
(* an import that is repeated adds nothing.                                *)
TrailEndsAtPrice ==
    \A p \in ProductIds :
        /\ p \in DOMAIN current <=> trail[p] # << >>
        /\ alone /\ p \in DOMAIN current =>
              /\ Last(trail[p]) = current[p]
              /\ \A i \in 1..(Len(trail[p]) - 1) : trail[p][i] # trail[p][i + 1]
=============================================================================
