-------------------------------- MODULE Desks --------------------------------
(***************************************************************************)
(* The desks of the workbench: components that touch no row of each other, *)
(* so that a behaviour is one of a single desk.                            *)
(***************************************************************************)
EXTENDS Content, Accounts, Tickets, Alerts, FixtureSync, DocumentImport,
        CatalogCrawl, Products

VARIABLE desk

desksVars == <<desk, contentVars, accountsVars, ticketVars, alertVars,
               fixtureVars, docVars, crawlVars, productVars>>

(* The choices a desk makes at the start are made when it is at work.      *)
DesksInit ==
    /\ desk \in {"content", "accounts", "tickets", "alerts", "fixtures", "documents", "crawl",
                 "products"}
    /\ desk # "content" => oneReview = TRUE
    /\ desk # "accounts" => oneCall = TRUE
    /\ desk # "tickets" => oneClerk = TRUE
    /\ desk # "alerts" => oneRefresh = TRUE /\ about = "stock"
    /\ desk # "documents" => single = TRUE
    /\ desk # "crawl" => collector = "live" /\ listing = CHOOSE l \in Listings : TRUE
    /\ desk # "products" => alone = TRUE
    /\ ContentInit /\ AccountsInit /\ TicketsInit /\ AlertsInit /\ FixtureInit
    /\ DocumentsInit /\ CrawlInit /\ ProductsInit
    /\ about = "run" => oneRefresh         \* refreshes race over the other two

DesksNext ==
    /\ UNCHANGED desk
    /\ \/ /\ desk = "content" /\ ContentNext
          /\ UNCHANGED <<accountsVars, ticketVars, alertVars, fixtureVars, docVars, crawlVars, productVars>>
       \/ /\ desk = "accounts" /\ AccountsNext
          /\ UNCHANGED <<contentVars, ticketVars, alertVars, fixtureVars, docVars, crawlVars, productVars>>
       \/ /\ desk = "tickets" /\ TicketsNext
          /\ UNCHANGED <<contentVars, accountsVars, alertVars, fixtureVars, docVars, crawlVars, productVars>>
       \/ /\ desk = "alerts" /\ AlertsNext
          /\ UNCHANGED <<contentVars, accountsVars, ticketVars, fixtureVars, docVars, crawlVars, productVars>>
       \/ /\ desk = "fixtures" /\ FixtureNext
          /\ UNCHANGED <<contentVars, accountsVars, ticketVars, alertVars, docVars, crawlVars, productVars>>
       \/ /\ desk = "documents" /\ DocumentsNext
          /\ UNCHANGED <<contentVars, accountsVars, ticketVars, alertVars, fixtureVars, crawlVars, productVars>>
       \/ /\ desk = "crawl" /\ CrawlNext
          /\ UNCHANGED <<contentVars, accountsVars, ticketVars, alertVars, fixtureVars, docVars, productVars>>
       \/ /\ desk = "products" /\ ProductsNext
          /\ UNCHANGED <<contentVars, accountsVars, ticketVars, alertVars, fixtureVars, docVars, crawlVars>>

DesksSpec == DesksInit /\ [][DesksNext]_desksVars

(* The desk at work keeps to its types.                                    *)
DesksTypeOK ==
    /\ desk = "content" => ContentTypeOK
    /\ desk = "accounts" => AccountsTypeOK
    /\ desk = "tickets" => TicketsTypeOK
    /\ desk = "alerts" => AlertsTypeOK
    /\ desk = "fixtures" => FixtureTypeOK
    /\ desk = "crawl" => CrawlTypeOK
=============================================================================
