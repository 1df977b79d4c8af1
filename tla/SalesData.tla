------------------------------ MODULE SalesData ------------------------------
(***************************************************************************)
(* The way of sales data, from the file to the profit: the parts hand over *)
(* records and touch no row of each other, so that a behaviour is one of a *)
(* single part.                                                            *)
(***************************************************************************)
EXTENDS ExternalOrders, FileImport, OrderMerge, Profit, SourceQuality,
        EventInbox, Replenishment

VARIABLE part

ordersVars == <<part, vars, importVars, mergeVars, profitVars, qualityVars,
                eventVars, replVars>>

(* A part that is not at work rests in a first state.                      *)
ImportRests == /\ upload = [rows |-> << >>] /\ parsed = NothingParsed
               /\ importStep = "parse" /\ importRun = "none" /\ facts = {} /\ isolated = {}
MergeRests == sheet = [rows |-> << >>] /\ merged = << >> /\ mergeStep = "aggregate"
ProfitRests == line = << >> /\ onSale = {} /\ report = NoReport
QualityRests == /\ evidence = [pages |-> << >>, rows |-> {}, kept |-> << >>]
                /\ fetched = << >> /\ gated = "null" /\ replayed = "null"
ReplRests == sales = << >> /\ suggestion = NoSuggestion /\ evaluations = {} /\ judging = NotJudging

OrdersInit ==
    /\ part \in {"orders", "import", "merge", "profit", "quality", "events", "replenishment"}
    /\ part # "orders" => serial = TRUE
    /\ Init
    /\ IF part = "import" THEN ImportInit ELSE ImportRests
    /\ IF part = "merge" THEN MergeInit ELSE MergeRests
    /\ IF part = "profit" THEN ProfitInit ELSE ProfitRests
    /\ IF part = "quality" THEN QualityInit ELSE QualityRests
    /\ EventInit
    /\ IF part = "replenishment" THEN ReplInit ELSE ReplRests

OrdersNext ==
    /\ UNCHANGED part
    /\ \/ /\ part = "orders" /\ Next
          /\ UNCHANGED <<importVars, mergeVars, profitVars, qualityVars, eventVars, replVars>>
       \/ /\ part = "import" /\ ImportNext
          /\ UNCHANGED <<vars, mergeVars, profitVars, qualityVars, eventVars, replVars>>
       \/ /\ part = "merge" /\ MergeNext
          /\ UNCHANGED <<vars, importVars, profitVars, qualityVars, eventVars, replVars>>
       \/ /\ part = "profit" /\ ProfitNext
          /\ UNCHANGED <<vars, importVars, mergeVars, qualityVars, eventVars, replVars>>
       \/ /\ part = "quality" /\ QualityNext
          /\ UNCHANGED <<vars, importVars, mergeVars, profitVars, eventVars, replVars>>
       \/ /\ part = "events" /\ EventNext
          /\ UNCHANGED <<vars, importVars, mergeVars, profitVars, qualityVars, replVars>>
       \/ /\ part = "replenishment" /\ ReplNext
          /\ UNCHANGED <<vars, importVars, mergeVars, profitVars, qualityVars, eventVars>>

OrdersSpec == OrdersInit /\ [][OrdersNext]_ordersVars

(* The part at work keeps to its types.                                    *)
PartsTypeOK ==
    /\ part = "orders" => TypeOK
    /\ part = "import" => ImportTypeOK
    /\ part = "merge" => MergeTypeOK
    /\ part = "events" => EventTypeOK

(* Whatever arrives as a file or a batch is taken as a whole: each row of a*)
(* report is a fact or is isolated, the records of an accepted batch hold  *)
(* all its lines, and each event of a batch was judged.                    *)
ArrivalsAreTakenWhole == EveryRowAnswered /\ AcceptedOrdersAreWhole /\ EventsAreJudged
=============================================================================
