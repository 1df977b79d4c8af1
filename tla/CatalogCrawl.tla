---------------------------- MODULE CatalogCrawl ----------------------------
(***************************************************************************)
(* The collectors of products.  Two page through a listing: the public     *)
(* search pages (app/catalog_live.py) and recorded pages (app/catalog_     *)
(* replay.py).  Each visits pages one after the other, checks what it may  *)
(* read, merges the products by id, and ends with records or with an error;*)
(* either way it leaves a report, run.json.  A page may ask for resources  *)
(* that are not allowed at any time, which a callback of the browser notes;*)
(* so may the user cancel, and the total time run out.  The third reads the*)
(* cards of one page of its own (app/crawler.py), and is given no way to   *)
(* be cancelled.                                                           *)
(***************************************************************************)
EXTENDS Integers, FiniteSets

CONSTANTS
    PageNos,      \* pages of a listing; the first is 1
    Listings,     \* listings: page -> [items, next, gate]
    MaxPages,     \* limits.max_pages
    MaxProducts,  \* limits.max_products, of the live collector
    LastPage      \* next of the last page

(* open, or asking for a login, refused by status or address, or with rows *)
(* that do not parse.                                                      *)
Gates == {"open", "login", "refused", "unreadable"}

ASSUME CatalogAssumption ==
    /\ IsFiniteSet(PageNos) /\ 1 \in PageNos /\ LastPage \notin PageNos
    /\ \A s \in Listings : \A p \in PageNos :
          /\ IsFiniteSet(s[p].items) /\ s[p].gate \in Gates
          /\ s[p].next \in PageNos \cup {LastPage}
    /\ MaxPages \in Nat \ {0} /\ MaxProducts \in Nat

VARIABLES
    collector, \* live, replay or fixture
    listing,   \* the pages it is let loose on
    at,        \* the page it is on or goes to next
    seen,      \* pages_seen
    visited,   \* the recorded pages it has been on
    records,   \* the products so far
    crawl,     \* where it is: top, loaded, write, report or done
    cancelled, late, blocked,   \* cancel_check, the deadline, blocked resources
    failure,   \* the code of the error that ends it, or none
    file,      \* whether the products were written to their file
    report     \* the status in run.json, or none

siteVars == <<collector, listing>>
signalVars == <<cancelled, late, blocked>>
crawlVars == <<siteVars, at, seen, visited, records, crawl, signalVars, failure, file, report>>

CrawlInit ==
    /\ collector \in {"live", "replay", "fixture"} /\ listing \in Listings
    /\ at = 1 /\ seen = 0 /\ visited = {} /\ records = {}
    /\ crawl = "top" /\ cancelled = FALSE /\ late = FALSE /\ blocked = FALSE
    /\ failure = "none" /\ file = FALSE /\ report = "none"

Live == collector = "live"
Recorded == collector = "replay"
Fixture == collector = "fixture"

-----------------------------------------------------------------------------
(* What happens around it *)

(* Only the live collector has a total time.                               *)
Signal ==
    /\ crawl \in {"top", "loaded"} /\ ~Fixture
    /\ \/ ~cancelled /\ cancelled' = TRUE /\ UNCHANGED <<late, blocked>>
       \/ Live /\ ~late /\ late' = TRUE /\ UNCHANGED <<cancelled, blocked>>
       \/ seen > 0 /\ ~blocked /\ blocked' = TRUE /\ UNCHANGED <<cancelled, late>>
    /\ UNCHANGED <<siteVars, at, seen, visited, records, crawl, failure, file, report>>

-----------------------------------------------------------------------------
(* The loop *)

Stopped == cancelled \/ (Live /\ late)

AtLimit == seen >= MaxPages

(* The fixture's collector writes no report.                               *)
Fail(code) == crawl' = (IF Fixture THEN "done" ELSE "report") /\ failure' = code

(* A recorded listing that comes back to a page is an error; a live one    *)
(* runs into the limit.                                                    *)
Revisits == Recorded /\ at \in visited

StopAtTop ==
    /\ crawl = "top" /\ (Stopped \/ Revisits \/ AtLimit)
    /\ Fail(IF Stopped THEN "STOPPED" ELSE IF Revisits THEN "PAGINATION_LOOP"
            ELSE "PAGE_LIMIT_EXCEEDED")
    /\ UNCHANGED <<siteVars, at, seen, visited, records, signalVars, file, report>>

Goto ==
    /\ crawl = "top" /\ ~Stopped /\ ~Revisits /\ ~AtLimit
    /\ seen' = seen + 1 /\ visited' = visited \cup {at}
    /\ crawl' = "loaded"
    /\ UNCHANGED <<siteVars, at, records, signalVars, failure, file, report>>

(* The browser fails, or a page takes too long.                            *)
BrowserFails ==
    /\ crawl \in {"top", "loaded"}
    /\ Fail("PAGE_TIMEOUT")
    /\ UNCHANGED <<siteVars, at, seen, visited, records, signalVars, file, report>>

Here == listing[at]

(* A page is turned down; the live collector looks at the clock and at the *)
(* user again after loading it.  The fixture's knows no gates.             *)
TurnedDown ==
    IF Fixture THEN Here.gate = "unreadable"
    ELSE Here.gate # "open" \/ (Live /\ Stopped) \/ blocked

(* Products of the page that are known count once more against the limit.  *)
TooMany == Live /\ Cardinality(records) + Cardinality(Here.items) > MaxProducts

(* The cards of a fixture are in their file before they are normalised, so *)
(* that it may be there though one of them does not parse.                 *)
RefusePage ==
    /\ crawl = "loaded" /\ (TurnedDown \/ TooMany)
    /\ Fail(IF TurnedDown THEN "PAGE_REFUSED" ELSE "INVALID_PRODUCT")
    /\ file' \in (IF Fixture THEN BOOLEAN ELSE {file})
    /\ UNCHANGED <<siteVars, at, seen, visited, records, signalVars, report>>

(* Mutant of Ends: the limit ends the listing without an error.            *)
EndsAtLimit == Here.next = LastPage \/ Fixture \/ AtLimit

Ends == Here.next = LastPage \/ Fixture

(* The live collector looks at the limit before it waits for the next page,*)
(* the other one when it comes to it.                                      *)
ReadPage ==
    /\ crawl = "loaded" /\ ~TurnedDown /\ ~TooMany
    /\ records' = records \cup Here.items
    /\ IF Ends THEN crawl' = "write" /\ UNCHANGED <<at, failure>>
       ELSE IF Live /\ AtLimit THEN Fail("PAGE_LIMIT_EXCEEDED") /\ UNCHANGED at
       ELSE crawl' = "top" /\ at' = Here.next /\ UNCHANGED failure
    /\ UNCHANGED <<siteVars, seen, visited, signalVars, file, report>>

WriteProducts ==
    /\ crawl = "write"
    /\ crawl' = IF Fixture THEN "done" ELSE "report"
    /\ \/ records = {} /\ failure' = "NO_PRODUCTS" /\ UNCHANGED file
       \/ records # {} /\ file' = TRUE /\ UNCHANGED failure
       \/ records # {} /\ failure' = "FILE_ERROR" /\ UNCHANGED file
    /\ UNCHANGED <<siteVars, at, seen, visited, records, signalVars, report>>

(* run.json is written last; when that fails, so does the collection.      *)
WriteReport ==
    /\ crawl = "report"
    /\ crawl' = "done"
    /\ \/ /\ report' = IF failure = "none" THEN "succeeded"
                       ELSE IF Live /\ failure = "PAGE_LIMIT_EXCEEDED" THEN "partial" ELSE "failed"
          /\ UNCHANGED failure
       \/ /\ failure' = IF failure = "none" THEN "FILE_ERROR" ELSE failure
          /\ UNCHANGED report
    /\ UNCHANGED <<siteVars, at, seen, visited, records, signalVars, file>>

CrawlNext ==
    \/ Signal \/ StopAtTop \/ Goto \/ BrowserFails \/ RefusePage \/ ReadPage
    \/ WriteProducts \/ WriteReport

CrawlSpec == CrawlInit /\ [][CrawlNext]_crawlVars

-----------------------------------------------------------------------------
(* Properties *)

CrawlTypeOK ==
    /\ at \in PageNos /\ seen \in 0..MaxPages /\ visited \subseteq PageNos
    /\ records \subseteq UNION {listing[p].items : p \in PageNos}
    /\ crawl \in {"top", "loaded", "write", "report", "done"}
    /\ report \in {"none", "succeeded", "partial", "failed"}

(* The pages a reader of the listing comes to in n steps from the first.   *)
PagesWithin[n \in Nat] ==
    IF n = 0 THEN {1}
    ELSE PagesWithin[n - 1] \cup ({listing[p].next : p \in PagesWithin[n - 1]} \ {LastPage})

Whole == IF Fixture THEN {1} ELSE PagesWithin[Cardinality(PageNos)]

(* A collection that returns records has read the whole listing: every     *)
(* page there is was open, within the limits, and each product on it was   *)
(* recorded; the file holds them and the report says so; of a fixture, its *)
(* one page, without a report.  One that says it is partial read as many   *)
(* pages as it may, there are more or they repeat, and what it has is part *)
(* of the listing.                                                         *)
CollectedIsWhole ==
    /\ crawl = "done" /\ failure = "none" =>
          /\ records = UNION {listing[p].items : p \in Whole}
          /\ \A p \in Whole : listing[p].gate = "open" \/ Fixture
          /\ \A p \in Whole : listing[p].gate # "unreadable"
          /\ seen = Cardinality(Whole) /\ seen <= MaxPages
          /\ file /\ (report = "succeeded" \/ Fixture)
    /\ report = "succeeded" => failure = "none" /\ ~Fixture
    /\ report = "partial" =>
          /\ seen = MaxPages /\ ~file
          /\ Cardinality(Whole) > MaxPages \/ \A p \in Whole : listing[p].next # LastPage
          /\ records \subseteq UNION {listing[p].items : p \in Whole}
=============================================================================
