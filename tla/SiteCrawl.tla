------------------------------- MODULE SiteCrawl -------------------------------
(***************************************************************************)
(* A crawl of the network tools: run_site_crawl walks the links of a site  *)
(* breadth first from one URL, run_url_crawl goes through a list of URLs   *)
(* without following links.  Fetches and robots.txt may fail at any time,  *)
(* pages may redirect to others, of which only the domain is checked.      *)
(***************************************************************************)
EXTENDS Integers, Sequences, Subsequences

CONSTANTS
  Urls, Hosts,
  HostOf,       \* the scheme and host of each URL
  InDomain,     \* the URLs whose host is in the allowed domains (domain_matches)
  Allowed,      \* those of them the whole policy admits (is_allowed_url)
  Disallowed,   \* the URLs robots.txt of their host forbids
  Redirects,    \* pairs <<from, to>>: a request for the one may end at the other
  LinkLists,    \* the lists of links a page may have
  UrlLists,     \* the lists run_url_crawl may be given
  Asked,        \* values of max_pages and max_depth a tool call may ask for
  HardMaxPages, HardMaxDepth

ASSUME CrawlAssumption ==
  /\ HostOf \in [Urls -> Hosts] /\ Disallowed \subseteq Urls
  /\ InDomain \subseteq Urls /\ Allowed \subseteq InDomain
  /\ Redirects \subseteq Urls \X Urls
  /\ LinkLists \subseteq Seq(Urls) /\ UrlLists \subseteq Seq(Urls) \ {<<>>}
  /\ Asked \subseteq Int
  /\ HardMaxPages \in Nat \ {0} /\ HardMaxDepth \in Nat

VARIABLES
  web,       \* the links of each page of the allowed domains
  pc,        \* "idle", "crawling", "done" or "failed"
  roots,     \* what the crawl was started with
  respect,   \* respect_robots_txt
  maxPages, maxDepth,
  queue,     \* URLs to visit with their depth
  seen,
  parsers,   \* hosts whose robots.txt has been read
  records,   \* fetched pages, in order
  skipped    \* URLs skipped, with the reason

policy == <<web, roots, respect, maxPages, maxDepth>>
vars   == <<web, pc, roots, respect, maxPages, maxDepth, queue, seen, parsers, records,
            skipped>>

Visit(url, depth) == [url |-> url, depth |-> depth]
Skipped(reason)   == {s.url : s \in {x \in skipped : x.reason = reason}}
Recorded          == {records[i].url : i \in DOMAIN records}

Least(a, b) == IF a < b THEN a ELSE b
Most(a, b)  == IF a > b THEN a ELSE b

PagesFor(n) == Most(1, Least(n, HardMaxPages))
DepthFor(n) == Most(0, Least(n, HardMaxDepth))

Init ==
  /\ web \in [InDomain -> LinkLists] /\ pc = "idle" /\ roots = <<>> /\ respect \in BOOLEAN
  /\ maxPages = 1 /\ maxDepth = 0 /\ queue = <<>> /\ seen = {} /\ parsers = {}
  /\ records = <<>> /\ skipped = {}

Begin(list, pages, depth) ==
  /\ pc = "idle" /\ pc' = "crawling" /\ roots' = list
  /\ maxPages' = pages /\ maxDepth' = depth
  /\ queue' = [i \in DOMAIN list |-> Visit(list[i], 0)]
  /\ UNCHANGED <<web, respect, seen, parsers, records, skipped>>

(* A start URL outside of the policy raises before anything else happens.    *)
StartSiteCrawl ==
  \E start \in Allowed, pages, depth \in Asked :
    Begin(<<start>>, PagesFor(pages), DepthFor(depth))

(* The list is without repetitions (dict.fromkeys) and cut off.              *)
StartUrlCrawl ==
  \E list \in UrlLists, pages \in Asked :
    LET urls == SubSeq(list, 1, Least(Len(list), HardMaxPages))
        most == IF pages = 0 THEN Len(urls) ELSE pages
    IN  Begin(urls, PagesFor(Least(most, Len(urls))), 0)

\* Mutant: one page too many.
RoomForOneMore == Len(records) <= maxPages

Room == Len(records) < maxPages

AtUrl == pc = "crawling" /\ queue # <<>> /\ Room
Url   == Head(queue).url

DropSeen ==
  /\ AtUrl /\ Url \in seen /\ queue' = Tail(queue)
  /\ UNCHANGED <<policy, pc, seen, parsers, records, skipped>>

Skip(reason) ==
  /\ queue' = Tail(queue) /\ seen' = seen \cup {Url}
  /\ skipped' = skipped \cup {[url |-> Url, reason |-> reason]}
  /\ UNCHANGED <<policy, pc, records>>

SkipNotAllowed ==
  /\ AtUrl /\ Url \notin seen /\ Url \notin Allowed
  /\ Skip("not_allowed") /\ UNCHANGED parsers

(* can_fetch: a robots.txt that cannot be read allows the URL and is tried   *)
(* again next time; one that was read is kept for its host.                  *)
Consulted(read) == respect /\ (HostOf[Url] \in parsers \/ read)

\* Mutant: the parser is not kept.
KeptNowhere(read) == parsers

Kept(read) == IF Consulted(read) THEN parsers \cup {HostOf[Url]} ELSE parsers

SkipRobots ==
  /\ AtUrl /\ Url \in Allowed \ seen
  /\ \E read \in BOOLEAN :
       /\ Consulted(read) /\ Url \in Disallowed
       /\ Skip("robots_txt") /\ parsers' = Kept(read)

\* Mutant: the newest come first.
FollowFirst(links, depth) ==
  queue' = [i \in DOMAIN links |-> Visit(links[i], depth + 1)] \o Tail(queue)

Follow(links, depth) ==
  queue' = Tail(queue) \o [i \in DOMAIN links |-> Visit(links[i], depth + 1)]

\* Mutant: the pages at the depth limit are not visited.
DeepEnoughShort(depth) == depth + 1 < maxDepth

Below(depth) == depth < maxDepth

(* fetch_limited: a redirect out of the allowed domains is an error.  Paths, *)
(* patterns and robots.txt are not asked about the URL it leads to.          *)
FinalUrls == {Url} \cup {u \in InDomain : <<Url, u>> \in Redirects}

(* fetch_and_extract_page: a page may be of a type nobody reads, and every   *)
(* error, of the fetch or of the extraction, ends in the record.             *)
Outcomes == [final : FinalUrls, status : {"ok", "skipped", "error"}]

(* The links of a page that are allowed and not seen yet, the page itself    *)
(* included among the seen.                                                  *)
NewLinks(final) ==
  EntriesAt(web[final], {k \in DOMAIN web[final] : web[final][k] \in Allowed \ (seen \cup {Url})})

(* The page is fetched, written and recorded, whatever became of it; the     *)
(* links of a good page are queued.                                          *)
FetchPage(status, final) ==
  LET depth == Head(queue).depth IN
  /\ AtUrl /\ Url \in Allowed \ seen
  /\ [final |-> final, status |-> status] \in Outcomes
  /\ \E read \in BOOLEAN :
       /\ Consulted(read) => Url \notin Disallowed
       /\ parsers' = Kept(read)
  /\ seen' = seen \cup {Url}
  /\ records' = Append(records,
       [url |-> Url, final |-> final, depth |-> depth, status |-> status])
  /\ IF status = "ok" /\ Below(depth)
     THEN \E links \in NewLinks(final) : Follow(links, depth)
     ELSE queue' = Tail(queue)
  /\ UNCHANGED <<policy, pc, skipped>>

(* finalize_crawl *)
Finish ==
  /\ pc = "crawling" /\ (queue = <<>> \/ ~Room) /\ pc' = "done"
  /\ UNCHANGED <<policy, queue, seen, parsers, records, skipped>>

(* A page or an index cannot be written: the tool call fails.                *)
Fail ==
  /\ pc = "crawling" /\ pc' = "failed"
  /\ UNCHANGED <<policy, queue, seen, parsers, records, skipped>>

Over == pc \in {"done", "failed"} /\ UNCHANGED vars

Next ==
  \/ StartSiteCrawl \/ StartUrlCrawl
  \/ DropSeen \/ SkipNotAllowed \/ SkipRobots
  \/ \E status \in {"ok", "skipped", "error"}, final \in Urls : FetchPage(status, final)
  \/ Finish \/ Fail \/ Over

Spec == Init /\ [][Next]_vars

-----------------------------------------------------------------------------
(* Properties *)

Parents(i) == {j \in DOMAIN records :
  /\ records[j].status = "ok"
  /\ \E k \in DOMAIN web[records[j].final] : web[records[j].final][k] = records[i].url}

(* A crawl stays within its limits: no more pages than asked for, none       *)
(* deeper, no URL requested twice or outside of the policy.  The page a      *)
(* redirect leads to is within the allowed domains; that is all the code     *)
(* asks of it, so it may break the other rules or be on record already.      *)
WithinLimits ==
  /\ Len(records) <= maxPages /\ maxPages <= HardMaxPages
  /\ \A i \in DOMAIN records :
       /\ records[i].url \in Allowed /\ records[i].final \in InDomain
       /\ records[i].depth <= maxDepth
  /\ \A i, j \in DOMAIN records : records[i].url = records[j].url => i = j

(* The depth on record is the length of the shortest way to the page over    *)
(* the good pages of the crawl, although it is only learnt on the way.       *)
ShortestDepth ==
  \A i \in DOMAIN records :
    /\ \/ records[i].depth = 0 /\ \E k \in DOMAIN roots : roots[k] = records[i].url
       \/ \E j \in Parents(i) : records[i].depth = records[j].depth + 1
    /\ \A j \in Parents(i) : records[i].depth <= records[j].depth + 1

(* A crawl that ends with room for more pages has missed none: whatever it   *)
(* was started with or a good page above the depth limit links to is         *)
(* recorded or accounted for as skipped.                                     *)
NothingMissed ==
  pc = "done" /\ Len(records) < maxPages =>
    /\ \A k \in DOMAIN roots : roots[k] \in Recorded \cup {s.url : s \in skipped}
    /\ \A i \in DOMAIN records : records[i].status = "ok" /\ records[i].depth < maxDepth =>
         \A k \in DOMAIN web[records[i].final] :
           LET l == web[records[i].final][k] IN
           l \in Allowed => l \in Recorded \cup Skipped("robots_txt")

(* Once a URL was skipped for robots.txt, no other forbidden URL of that     *)
(* host is requested, even if the file can no longer be read.  What a        *)
(* permitted URL redirects to is not requested by the crawl and not asked    *)
(* about: a forbidden page may be recorded that way.                         *)
RobotsRemembered ==
  [][\A u \in Skipped("robots_txt") :
       records' # records /\ HostOf[u] = HostOf[Url] => Url \notin Disallowed]_vars
===============================================================================
