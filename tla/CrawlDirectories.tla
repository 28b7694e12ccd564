--------------------------- MODULE CrawlDirectories ---------------------------
(***************************************************************************)
(* Where crawls and link extractions leave their files, and what the tools *)
(* that search and read them find.  A crawl's directory is named for the   *)
(* second and the host; a crawl writes page after page into it, then the   *)
(* sqlite index, pages.jsonl, the manifest and the summary, and may fail   *)
(* at each of these.  SiteCrawl has the crawl itself.                      *)
(***************************************************************************)
EXTENDS NetworkToolCalls

CONSTANTS
  Host,     \* the slug of each call's host, as its place in name order
  MaxPages  \* most pages of a crawl (bound)

ASSUME DirectoryAssumption ==
  /\ Host \in [Calls -> Nat] /\ MaxPages \in Nat
  /\ None \notin [by : Calls, n : 0 .. MaxPages]

VARIABLES
  crawlId,   \* of each call; None if it has no directory
  fetched,   \* pages it has written
  pages,     \* of each directory: the writer of each page file
  index,     \* writer of site_index.sqlite
  listing,   \* pages.jsonl: its writer and number of pages, or None
  manifest,  \* writer of crawl_manifest.json
  summary,   \* writer of crawl_summary.md
  linkDir,   \* whether _link_extract exists
  links      \* writer of links.json in each directory of _link_extract

contents  == <<pages, index, listing, manifest, summary, linkDir, links>>
crawlVars == <<crawlId, fetched, contents>>

Ids == (0 .. TimeBound \div PerSecond) \X {Host[c] : c \in Calls}

CrawlInit ==
  /\ crawlId = [c \in Calls |-> None] /\ fetched = [c \in Calls |-> 0]
  /\ pages = [i \in Ids |-> [k \in 1 .. MaxPages |-> NoCall]]
  /\ index = [i \in Ids |-> NoCall] /\ listing = [i \in Ids |-> None]
  /\ manifest = [i \in Ids |-> NoCall] /\ summary = [i \in Ids |-> NoCall]
  /\ linkDir = FALSE /\ links = [i \in Ids |-> NoCall]

(* make_crawl_id *)
CrawlId(c) == <<Second, Host[c]>>

(* The URL or the domains are refused; or, for links, the fetch fails.       *)
RefuseUrl(c) ==
  Returns(c, "idle", "error") /\ UNCHANGED <<now, before, crawlVars>>

StartCrawl(c) ==
  /\ Goes(c, "idle", "crawling") /\ crawlId' = [crawlId EXCEPT ![c] = CrawlId(c)]
  /\ before' = [before EXCEPT ![c] = Answered]
  /\ UNCHANGED <<now, answer, fetched, contents>>

(* A call puts files into its directory.                                     *)
Written(dirs, c, what) == [dirs EXCEPT ![crawlId[c]] = what]

\* Mutant: a page file that is there already is kept.
PagesOnce(c, k) ==
  IF pages[crawlId[c]][k] # NoCall THEN pages
  ELSE Written(pages, c, [pages[crawlId[c]] EXCEPT ![k] = c])

(* write_page_markdown names the file for the page's number in its crawl.    *)
PageWritten(c, k) == Written(pages, c, [pages[crawlId[c]] EXCEPT ![k] = c])

SavePage(c) ==
  /\ pc[c] = "crawling" /\ fetched[c] < MaxPages
  /\ fetched' = [fetched EXCEPT ![c] = @ + 1]
  /\ pages' = PageWritten(c, fetched[c] + 1)
  /\ UNCHANGED <<now, pc, answer, before, crawlId, index, listing, manifest, summary, linkDir,
                 links>>

(* build_sqlite_index replaces all rows in one transaction.                  *)
SaveIndex(c) ==
  /\ Goes(c, "crawling", "indexed") /\ index' = Written(index, c, c)
  /\ UNCHANGED <<now, answer, before, crawlId, fetched, pages, listing, manifest, summary,
                 linkDir, links>>

SaveListing(c) ==
  /\ Goes(c, "indexed", "listed")
  /\ listing' = Written(listing, c, [by |-> c, n |-> fetched[c]])
  /\ UNCHANGED <<now, answer, before, crawlId, fetched, pages, index, manifest, summary, linkDir,
                 links>>

SaveManifest(c) ==
  /\ Goes(c, "listed", "described") /\ manifest' = Written(manifest, c, c)
  /\ UNCHANGED <<now, answer, before, crawlId, fetched, pages, index, listing, summary, linkDir,
                 links>>

SaveCrawlSummary(c) ==
  /\ Returns(c, "described", "ok") /\ summary' = Written(summary, c, c)
  /\ UNCHANGED <<now, before, crawlId, fetched, pages, index, listing, manifest, linkDir, links>>

(* Whatever raises leaves the directory as it is.                            *)
CrawlFails(c) ==
  /\ \E at \in {"crawling", "indexed", "listed", "described"} : Returns(c, at, "error")
  /\ UNCHANGED <<now, before, crawlVars>>

(* extract_links_from_listing fetches first; at the end it makes a directory *)
(* and writes one file.  It may fail after either: the directory stays, and  *)
(* a file that was opened for writing is nobody's.                           *)
ExtractLinks(c) ==
  /\ \/ /\ Returns(c, "idle", "ok") /\ linkDir' = TRUE
        /\ links' = [links EXCEPT ![CrawlId(c)] = c]
     \/ /\ Returns(c, "idle", "error") /\ linkDir' = TRUE
        /\ links' \in {links, [links EXCEPT ![CrawlId(c)] = NoCall]}
  /\ UNCHANGED <<now, before, crawlId, fetched, pages, index, listing, manifest, summary>>

CrawlStep(c) ==
  \/ RefuseUrl(c) \/ StartCrawl(c) \/ SavePage(c) \/ SaveIndex(c) \/ SaveListing(c)
  \/ SaveManifest(c) \/ SaveCrawlSummary(c) \/ CrawlFails(c) \/ ExtractLinks(c)

CrawlNext == (\E c \in Calls : CrawlStep(c)) \/ (Tick /\ UNCHANGED crawlVars)

CrawlSpec == CallsInit /\ CrawlInit /\ [][CrawlNext]_<<callVars, crawlVars>>

-----------------------------------------------------------------------------
(* The tools that read *)

Created == {crawlId[c] : c \in Calls} \ {None}

(* Directories sort by name: the second first, then the host.                *)
Sorted(i, j) == i[1] < j[1] \/ (i[1] = j[1] /\ i[2] <= j[2])

LinkExtract == <<"_link_extract">>

\* Mutant: the first directory by name.
LatestFirst(ids) == CHOOSE i \in ids : \A j \in ids : Sorted(i, j)

Last(ids) == CHOOSE i \in ids : \A j \in ids : Sorted(j, i)

(* find_crawl_dir without an id; "_" sorts after the digit of every stamp.   *)
Latest == IF linkDir THEN LinkExtract ELSE Last(Created)

(* load_crawl_records: who listed the records, and how many there are.       *)
Records(i) == IF i = LinkExtract \/ listing[i] = None THEN {}
              ELSE {[by |-> listing[i].by, page |-> k] : k \in 1 .. listing[i].n}

(* search_crawl and read_crawled_page take the text from the page's file.    *)
Hits(i) == {[record |-> r, text |-> pages[i][r.page]] : r \in Records(i)}

(* list_crawls reads a manifest where there is one.                          *)
Listed == {[id |-> i, manifest |-> IF i = LinkExtract THEN NoCall ELSE manifest[i]] :
             i \in Created \cup (IF linkDir THEN {LinkExtract} ELSE {})}

-----------------------------------------------------------------------------
(* Properties *)

Sharers(c) == {d \in Calls \ {c} : crawlId[d] = crawlId[c]}

(* If the other calls of its second and host were over when a crawl started, *)
(* what a search finds under its id is that crawl, each record with the text *)
(* of its own page, and the listed manifest is its own, whatever the others  *)
(* left there.  This does not hold for a crawl that another one of its       *)
(* second and host ran beside, nor for one that such a call follows: that    *)
(* call takes over the directory page by page, and may fail on the way.      *)
StartedLast(c) == crawlId[c] # None /\ Sharers(c) \subseteq before[c]
SearchFindsOneCrawl ==
  \A c \in Calls : answer[c] = "ok" /\ StartedLast(c) =>
    /\ Hits(crawlId[c]) =
         {[record |-> [by |-> c, page |-> k], text |-> c] : k \in 1 .. fetched[c]}
    /\ [id |-> crawlId[c], manifest |-> c] \in Listed

(* As long as no link extraction has come to make its directory, whether it  *)
(* wrote links or failed, a search without an id goes to the last crawl that *)
(* was started, unless others were started in that second.                   *)
Started(c) == crawlId[c] # None
LatestIsNewest ==
  ~ linkDir => \A c \in Calls :
    Started(c) /\ (\A d \in Calls \ {c} : Started(d) => crawlId[d][1] < crawlId[c][1])
    => Latest = crawlId[c]
===============================================================================
