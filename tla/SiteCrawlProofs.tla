---------------------------- MODULE SiteCrawlProofs ----------------------------
(***************************************************************************)
(* Theorems about SiteCrawl for any web, any limits and any pattern of     *)
(* failing fetches: a crawl stays within its limits, records the shortest  *)
(* way to each page, misses none below the limits and remembers robots.txt.*)
(***************************************************************************)
EXTENDS SiteCrawl, FiniteSetTheorems, SequenceTheorems, TLAPS

Visits   == [url : Urls, depth : Nat]
Statuses == {"ok", "skipped", "error"}
Pages    == [url : Urls, final : InDomain, depth : Nat, status : Statuses]
Reasons  == {"not_allowed", "robots_txt"}

TypeOK ==
  /\ web \in [InDomain -> Seq(Urls)] /\ pc \in {"idle", "crawling", "done", "failed"}
  /\ roots \in Seq(Urls) /\ respect \in BOOLEAN
  /\ maxPages \in 1 .. HardMaxPages /\ maxDepth \in 0 .. HardMaxDepth
  /\ queue \in Seq(Visits) /\ seen \subseteq Urls /\ parsers \subseteq Hosts
  /\ records \in Seq(Pages) /\ skipped \subseteq [url : Urls, reason : Reasons]

(* Nothing has happened before a crawl starts.                               *)
Fresh ==
  pc = "idle" =>
    roots = <<>> /\ queue = <<>> /\ seen = {} /\ records = <<>> /\ skipped = {}

(* The queue is in the order of depths, which differ by one at most, and no  *)
(* page on record is deeper than what is still to be visited.                *)
BreadthFirst ==
  /\ \A a \in DOMAIN queue : queue[a].depth <= maxDepth
  /\ \A a, b \in DOMAIN queue : a < b => queue[a].depth <= queue[b].depth
  /\ \A a, b \in DOMAIN queue : queue[b].depth <= queue[a].depth + 1
  /\ \A i \in DOMAIN records, a \in DOMAIN queue : records[i].depth <= queue[a].depth

(* What the crawl was started with, or a page on record links to.            *)
IsRoot(url)     == \E k \in DOMAIN roots : roots[k] = url
Links(page, url) ==
  page.status = "ok" /\ \E k \in DOMAIN web[page.final] : web[page.final][k] = url
Reached(url, depth) ==
  \/ depth = 0 /\ IsRoot(url)
  \/ \E j \in DOMAIN records : Links(records[j], url) /\ depth = records[j].depth + 1

(* A URL that is seen, or waits in the queue no deeper than that.            *)
Waiting(url, depth) == \E a \in DOMAIN queue : queue[a].url = url /\ queue[a].depth <= depth
Noticed(url, depth) == url \in seen \/ Waiting(url, depth)

(* Everything in the queue was reached, and everything that was reached is   *)
(* noticed.                                                                  *)
Complete ==
  /\ \A a \in DOMAIN queue : Reached(queue[a].url, queue[a].depth)
  /\ \A url \in Urls : IsRoot(url) => Noticed(url, 0)
  /\ \A j \in DOMAIN records, url \in Allowed :
       records[j].depth < maxDepth /\ Links(records[j], url) =>
         Noticed(url, records[j].depth + 1)

(* What is seen is accounted for.                                            *)
Accounted ==
  /\ Recorded \subseteq seen
  /\ seen \subseteq Recorded \cup {s.url : s \in skipped}
  /\ \A s \in skipped : /\ s.reason = "not_allowed" => s.url \notin Allowed
                        /\ s.reason = "robots_txt" => respect /\ HostOf[s.url] \in parsers

Exhausted == pc = "done" => queue = <<>> \/ ~ Room

(* What each record says of its page.                                        *)
Shortest ==
  \A i \in DOMAIN records :
    /\ Reached(records[i].url, records[i].depth)
    /\ \A j \in DOMAIN records :
         Links(records[j], records[i].url) => records[i].depth <= records[j].depth + 1

CrawlInv ==
  /\ TypeOK /\ Fresh /\ BreadthFirst /\ Complete /\ Accounted /\ Exhausted /\ Shortest
  /\ WithinLimits
-----------------------------------------------------------------------------
(* Lemmas about lists *)

LEMMA TailEntries ==
  ASSUME NEW S, NEW q \in Seq(S), q # <<>>
  PROVE  /\ Head(q) = q[1] /\ Head(q) \in S /\ Len(q) \in Nat \ {0}
         /\ Tail(q) \in Seq(S) /\ Len(Tail(q)) = Len(q) - 1
         /\ \A a \in 1 .. Len(q) - 1 : Tail(q)[a] = q[a + 1] /\ a + 1 \in DOMAIN q
<1>1. Len(q) \in Nat \ {0} /\ DOMAIN q = 1 .. Len(q)
  BY EmptySeq, LenProperties
<1> QED
  BY <1>1, HeadTailProperties

LEMMA AppendEntries ==
  ASSUME NEW S, NEW q \in Seq(S), NEW e \in S
  PROVE  /\ Append(q, e) \in Seq(S) /\ Len(Append(q, e)) = Len(q) + 1 /\ Len(q) \in Nat
         /\ DOMAIN Append(q, e) = DOMAIN q \cup {Len(q) + 1} /\ DOMAIN q = 1 .. Len(q)
         /\ \A i \in DOMAIN q : Append(q, e)[i] = q[i]
         /\ Append(q, e)[Len(q) + 1] = e
BY AppendProperties, LenProperties

(* The entries at some positions are the entries at these positions.         *)
LEMMA EntriesAre ==
  ASSUME NEW list \in Seq(Urls), NEW P \in SUBSET DOMAIN list, NEW links \in EntriesAt(list, P)
  PROVE  /\ links \in Seq(Urls)
         /\ \A n \in DOMAIN links : \E k \in P : links[n] = list[k]
         /\ \A k \in P : \E n \in DOMAIN links : links[n] = list[k]
<1>1. DOMAIN list = 1 .. Len(list) /\ Len(list) \in Nat
  BY LenProperties
<1>2. IsFiniteSet(P)
  <2>1. IsFiniteSet(1 .. Len(list))
    BY <1>1, FS_Interval
  <2> QED
    BY <1>1, <2>1, FS_Subset
<1>3. Cardinality(P) \in Nat
  BY <1>2, FS_CardinalityType
<1>4. PICK pick \in [1 .. Cardinality(P) -> P] :
        /\ links = [n \in DOMAIN pick |-> list[pick[n]]]
        /\ \A k \in P : \E n \in DOMAIN pick : pick[n] = k
  BY DEF EntriesAt
<1>5. \A k \in P : list[k] \in Urls
  BY <1>1, ElementOfSeq
<1>6. DOMAIN links = 1 .. Cardinality(P) /\ \A n \in DOMAIN links : links[n] = list[pick[n]]
  BY <1>4
<1>7. links \in Seq(Urls)
  <2>1. links \in [1 .. Cardinality(P) -> Urls]
    BY <1>4, <1>5
  <2> QED
    BY <1>3, <2>1
<1> QED
  BY <1>4, <1>6, <1>7

(* New entries come behind what is left of the queue.                        *)
Extended(r, q, links, d) ==
  /\ r \in Seq(Visits) /\ Len(r) = Len(q) + Len(links)
  /\ Len(q) \in Nat /\ Len(links) \in Nat
  /\ DOMAIN q = 1 .. Len(q) /\ DOMAIN links = 1 .. Len(links) /\ DOMAIN r = 1 .. Len(r)
  /\ \A a \in 1 .. Len(q) : r[a] = q[a]
  /\ \A n \in 1 .. Len(links) : r[Len(q) + n] = Visit(links[n], d)
  /\ \A a \in DOMAIN r : a \in 1 .. Len(q) \/ \E n \in 1 .. Len(links) : a = Len(q) + n

LEMMA FollowedEntries ==
  ASSUME NEW q \in Seq(Visits), NEW links \in Seq(Urls), NEW d \in Nat,
         NEW r, r = q \o [n \in DOMAIN links |-> Visit(links[n], d)]
  PROVE  Extended(r, q, links, d)
<1> DEFINE v == [n \in DOMAIN links |-> Visit(links[n], d)]
<1>1. Len(q) \in Nat /\ Len(links) \in Nat /\ DOMAIN q = 1 .. Len(q)
      /\ DOMAIN links = 1 .. Len(links)
  BY LenProperties
<1>2. \A n \in DOMAIN links : Visit(links[n], d) \in Visits
  BY ElementOfSeq, <1>1 DEF Visit, Visits
<1>3. v \in Seq(Visits) /\ Len(v) = Len(links)
      /\ \A n \in 1 .. Len(links) : v[n] = Visit(links[n], d)
  <2>1. v \in [1 .. Len(links) -> Visits]
    BY <1>1, <1>2
  <2>2. v \in Seq(Visits)
    BY <1>1, <2>1
  <2>3. DOMAIN v = 1 .. Len(v) /\ Len(v) \in Nat
    BY <2>2, LenProperties
  <2>4. Len(v) = Len(links)
    BY <1>1, <2>1, <2>3
  <2> QED
    BY <1>1, <2>2, <2>4
<1> HIDE DEF v
<1>4. /\ r \in Seq(Visits) /\ Len(r) = Len(q) + Len(v)
      /\ \A i \in 1 .. Len(q) + Len(v) : r[i] = IF i <= Len(q) THEN q[i] ELSE v[i - Len(q)]
  BY <1>3, ConcatProperties DEF v
<1>5. DOMAIN r = 1 .. Len(r)
  BY <1>4, LenProperties
<1>6. \A a \in 1 .. Len(q) : r[a] = q[a]
  BY <1>1, <1>3, <1>4
<1>7. ASSUME NEW n \in 1 .. Len(links) PROVE r[Len(q) + n] = Visit(links[n], d)
  <2>1. Len(q) + n \in 1 .. Len(q) + Len(v) /\ ~ (Len(q) + n <= Len(q))
        /\ (Len(q) + n) - Len(q) = n
    BY <1>1, <1>3
  <2> QED
    BY <1>3, <1>4, <2>1
<1>8. ASSUME NEW a \in DOMAIN r, a \notin 1 .. Len(q)
      PROVE  \E n \in 1 .. Len(links) : a = Len(q) + n
  <2>1. a - Len(q) \in 1 .. Len(links) /\ a = Len(q) + (a - Len(q))
    BY <1>1, <1>3, <1>4, <1>5, <1>8
  <2> QED
    BY <2>1
<1> QED
  BY <1>1, <1>3, <1>4, <1>5, <1>6, <1>7, <1>8 DEF Extended

-----------------------------------------------------------------------------
(* The invariant *)

LEMMA LimitsFor ==
  ASSUME NEW n \in Int
  PROVE  PagesFor(n) \in 1 .. HardMaxPages /\ DepthFor(n) \in 0 .. HardMaxDepth
BY CrawlAssumption DEF PagesFor, DepthFor, Most, Least

LEMMA CrawlInvInit == Init => CrawlInv
<1> SUFFICES ASSUME Init PROVE CrawlInv
  OBVIOUS
<1>1. TypeOK
  BY CrawlAssumption DEF Init, TypeOK
<1> QED
  BY <1>1, CrawlAssumption
  DEF Init, CrawlInv, Fresh, BreadthFirst, Complete, Accounted, Exhausted, Shortest, WithinLimits,
      Recorded, IsRoot
(* A crawl starts with its list in the queue.                                *)
LEMMA BeginStep ==
  ASSUME CrawlInv, NEW list \in Seq(Urls), NEW most \in 1 .. HardMaxPages,
         NEW deepest \in 0 .. HardMaxDepth, Begin(list, most, deepest)
  PROVE  CrawlInv'
<1>1. /\ queue' = [i \in DOMAIN list |-> Visit(list[i], 0)] /\ roots' = list
      /\ UNCHANGED <<web, respect, seen, parsers, records, skipped>>
      /\ records = <<>> /\ seen = {} /\ skipped = {} /\ pc' = "crawling"
      /\ maxPages' = most /\ maxDepth' = deepest /\ TypeOK
  BY DEF Begin, CrawlInv, Fresh
<1>2. DOMAIN list = 1 .. Len(list) /\ Len(list) \in Nat /\ \A i \in DOMAIN list : list[i] \in Urls
  BY LenProperties, ElementOfSeq
<1>3. queue' \in Seq(Visits)
  <2>1. queue' \in [1 .. Len(list) -> Visits]
    BY <1>1, <1>2 DEF Visit, Visits
  <2> QED
    BY <1>2, <2>1
<1>4. DOMAIN queue' = DOMAIN list
      /\ \A a \in DOMAIN list : queue'[a].url = list[a] /\ queue'[a].depth = 0
  BY <1>1 DEF Visit
<1>5. TypeOK'
  BY <1>1, <1>3 DEF TypeOK
<1>6. HardMaxPages \in Nat /\ HardMaxDepth \in Nat
  BY CrawlAssumption
<1>7. BreadthFirst' /\ WithinLimits'
  BY <1>1, <1>4, <1>6 DEF BreadthFirst, WithinLimits
<1>8. Complete'
  <2>1. \A a \in DOMAIN queue' : Reached(queue[a].url, queue[a].depth)'
    BY <1>1, <1>4 DEF Reached, IsRoot
  <2>2. \A url \in Urls : IsRoot(url)' => Noticed(url, 0)'
    BY <1>1, <1>4 DEF IsRoot, Noticed, Waiting
  <2> QED
    BY <1>1, <2>1, <2>2 DEF Complete
<1> QED
  BY <1>1, <1>5, <1>7, <1>8 DEF CrawlInv, Fresh, Accounted, Exhausted, Shortest, Recorded

(* What the URL at the head of the queue is.                                 *)
LEMMA AtHead ==
  ASSUME TypeOK, AtUrl
  PROVE  /\ Head(queue) = queue[1] /\ Url = queue[1].url /\ Url \in Urls
         /\ queue[1].depth \in Nat /\ 1 \in DOMAIN queue /\ DOMAIN queue = 1 .. Len(queue)
         /\ Len(queue) \in Nat \ {0} /\ Tail(queue) \in Seq(Visits)
         /\ DOMAIN Tail(queue) = 1 .. Len(queue) - 1
         /\ \A a \in 1 .. Len(queue) - 1 : Tail(queue)[a] = queue[a + 1] /\ a + 1 \in DOMAIN queue
         /\ pc = "crawling" /\ Len(records) < maxPages
<1>1. queue \in Seq(Visits) /\ queue # <<>> /\ pc = "crawling" /\ Len(records) < maxPages
  BY DEF TypeOK, AtUrl, Room
<1>2. /\ Head(queue) = queue[1] /\ Head(queue) \in Visits /\ Len(queue) \in Nat \ {0}
      /\ Tail(queue) \in Seq(Visits) /\ Len(Tail(queue)) = Len(queue) - 1
      /\ \A a \in 1 .. Len(queue) - 1 : Tail(queue)[a] = queue[a + 1] /\ a + 1 \in DOMAIN queue
  BY <1>1, TailEntries
<1>3. DOMAIN queue = 1 .. Len(queue) /\ DOMAIN Tail(queue) = 1 .. Len(queue) - 1
  BY <1>1, <1>2, LenProperties
<1> QED
  BY <1>1, <1>2, <1>3 DEF Url, Visits

(* What was noticed stays noticed when the head of the queue becomes seen.   *)
LEMMA NoticedStays ==
  ASSUME TypeOK, AtUrl, seen' = seen \cup {Url},
         \A a \in DOMAIN Tail(queue) : a \in DOMAIN queue' /\ queue'[a] = Tail(queue)[a],
         NEW url, NEW depth, Noticed(url, depth)
  PROVE  Noticed(url, depth)'
<1>1. CASE url \in seen'
  BY <1>1 DEF Noticed
<1>2. CASE url \notin seen'
  <2>1. PICK a \in DOMAIN queue : queue[a].url = url /\ queue[a].depth <= depth
    BY <1>2 DEF Noticed, Waiting
  <2>2. a # 1 /\ a \in 1 .. Len(queue) /\ Len(queue) \in Nat
    BY <1>2, <2>1, AtHead
  <2>3. a - 1 \in 1 .. Len(queue) - 1 /\ (a - 1) + 1 = a
    BY <2>2
  <2>4. a - 1 \in DOMAIN queue' /\ queue'[a - 1] = queue[a]
    BY <2>3, AtHead
  <2> QED
    BY <2>1, <2>4 DEF Noticed, Waiting
<1> QED
  BY <1>1, <1>2

LEMMA ReachedStays ==
  ASSUME TypeOK, UNCHANGED policy, NEW url, NEW depth, Reached(url, depth),
         \A j \in DOMAIN records : j \in DOMAIN records' /\ records'[j] = records[j]
  PROVE  Reached(url, depth)'
BY DEF Reached, IsRoot, Links, policy

(* A URL leaves the queue without a record.                                  *)
LEMMA DropStep ==
  ASSUME CrawlInv, AtUrl, queue' = Tail(queue), seen' = seen \cup {Url},
         UNCHANGED <<policy, pc, records>>
  PROVE  /\ queue' \in Seq(Visits) /\ Fresh' /\ BreadthFirst' /\ Complete' /\ Exhausted'
         /\ Shortest' /\ WithinLimits'
<1>1. /\ TypeOK /\ BreadthFirst /\ Complete /\ Shortest /\ WithinLimits
      /\ pc = "crawling" /\ DOMAIN queue' = 1 .. Len(queue) - 1 /\ Len(queue) \in Nat
      /\ \A a \in DOMAIN queue' : queue'[a] = queue[a + 1] /\ a + 1 \in DOMAIN queue
  BY AtHead DEF CrawlInv
<1>2. BreadthFirst'
  <2>1. \A a, b \in DOMAIN queue' : a < b => a + 1 < b + 1
    BY <1>1
  <2> QED
    BY <1>1, <2>1 DEF BreadthFirst, policy
<1>3. \A url, depth : Reached(url, depth) => Reached(url, depth)'
  BY <1>1, ReachedStays
<1>4. \A url, depth : Noticed(url, depth) => Noticed(url, depth)'
  BY <1>1, NoticedStays
<1>5. Complete'
  BY <1>1, <1>3, <1>4 DEF Complete, IsRoot, Links, policy
<1>6. Shortest'
  <2>1. records' = records /\ web' = web
    BY DEF policy
  <2>2. \A i \in DOMAIN records : Reached(records[i].url, records[i].depth)'
    BY <1>1, <1>3, <2>1 DEF Shortest
  <2>3. \A i, j \in DOMAIN records :
          Links(records[j], records[i].url) => records[i].depth <= records[j].depth + 1
    BY <1>1 DEF Shortest
  <2> QED
    BY <2>1, <2>2, <2>3 DEF Shortest, Links
<1> QED
  BY <1>1, <1>2, <1>5, <1>6, AtHead DEF Fresh, Exhausted, WithinLimits, policy

LEMMA SkipStep ==
  ASSUME CrawlInv, DropSeen \/ SkipNotAllowed \/ SkipRobots PROVE CrawlInv'
<1>1. /\ AtUrl /\ queue' = Tail(queue) /\ seen' = seen \cup {Url}
      /\ UNCHANGED <<policy, pc, records>>
  BY DEF DropSeen, SkipNotAllowed, SkipRobots, Skip
<1>2. TypeOK /\ Accounted /\ Url \in Urls /\ HostOf[Url] \in Hosts
  BY <1>1, AtHead, CrawlAssumption DEF CrawlInv
<1>3. \/ UNCHANGED <<skipped, parsers>> /\ Url \in seen
      \/ /\ UNCHANGED parsers /\ Url \notin Allowed
         /\ skipped' = skipped \cup {[url |-> Url, reason |-> "not_allowed"]}
      \/ /\ parsers' = parsers \cup {HostOf[Url]} /\ respect
         /\ skipped' = skipped \cup {[url |-> Url, reason |-> "robots_txt"]}
  BY DEF DropSeen, SkipNotAllowed, SkipRobots, Skip, Kept, Consulted
<1>4. /\ parsers \subseteq parsers' /\ parsers' \subseteq Hosts
      /\ skipped \subseteq skipped' /\ skipped' \subseteq [url : Urls, reason : Reasons]
  BY <1>2, <1>3 DEF TypeOK, Reasons
<1>5. TypeOK'
  BY <1>1, <1>2, <1>4, DropStep DEF TypeOK, policy
<1>6. Accounted'
  <2>1. Url \in seen \/ \E s \in skipped' : s.url = Url
    <3>1. \A reason : [url |-> Url, reason |-> reason].url = Url
      OBVIOUS
    <3> QED
      BY <1>3, <3>1
  <2>2. \A s \in skipped' : /\ s.reason = "not_allowed" => s.url \notin Allowed
                            /\ s.reason = "robots_txt" => respect /\ HostOf[s.url] \in parsers'
    BY <1>2, <1>3, <1>4 DEF Accounted
  <2> QED
    BY <1>1, <1>2, <1>4, <2>1, <2>2 DEF Accounted, Recorded, policy
<1> QED
  BY <1>1, <1>5, <1>6, DropStep DEF CrawlInv
(* What a fetched page adds to the queue: all its links that are new, if it  *)
(* is a good page above the depth limit.                                     *)
Fetched(status, final) ==
  [url |-> Url, final |-> final, depth |-> queue[1].depth, status |-> status]

(* A request that ends outside of the allowed domains is an error.           *)
LEMMA FinalWithin ==
  ASSUME NEW status \in Statuses, NEW final \in Urls, FetchPage(status, final)
  PROVE  final \in InDomain
<1>1. Url \in InDomain /\ [final |-> final, status |-> status] \in Outcomes
  BY CrawlAssumption DEF FetchPage
<1>2. final \in FinalUrls
  BY <1>1 DEF Outcomes
<1> QED
  BY <1>1, <1>2 DEF FinalUrls

(* The queue goes on with the new links of a good page, and all of them.     *)
LEMMA LinksFollowed ==
  ASSUME TypeOK, NEW status \in Statuses, NEW final \in Urls, FetchPage(status, final)
  PROVE  \E links \in Seq(Urls) :
           /\ queue' = Tail(queue) \o
                         [n \in DOMAIN links |-> Visit(links[n], queue[1].depth + 1)]
           /\ \A n \in DOMAIN links :
                /\ links[n] \in Allowed /\ Links(Fetched(status, final), links[n])
                /\ queue[1].depth < maxDepth
           /\ \A url \in Allowed :
                queue[1].depth < maxDepth /\ Links(Fetched(status, final), url) =>
                  url \in seen' \/ \E n \in DOMAIN links : links[n] = url
<1> DEFINE d == queue[1].depth  r == Fetched(status, final)
<1>1. AtUrl /\ seen' = seen \cup {Url} /\ Head(queue).depth = d
  BY AtHead DEF FetchPage
<1>2. r.status = status /\ r.final = final
  BY DEF Fetched
<1>final. final \in InDomain
  BY FinalWithin
<1>3. CASE status = "ok" /\ d < maxDepth
  <2> DEFINE P == {k \in DOMAIN web[final] : web[final][k] \in Allowed \ (seen \cup {Url})}
  <2>1. PICK links \in EntriesAt(web[final], P) :
          queue' = Tail(queue) \o [n \in DOMAIN links |-> Visit(links[n], d + 1)]
    BY <1>1, <1>3 DEF FetchPage, Below, Follow, NewLinks
  <2>2. web[final] \in Seq(Urls) /\ P \in SUBSET DOMAIN web[final]
    BY <1>final DEF TypeOK
  <2>3. /\ links \in Seq(Urls)
        /\ \A n \in DOMAIN links : \E k \in P : links[n] = web[final][k]
        /\ \A k \in P : \E n \in DOMAIN links : links[n] = web[final][k]
    BY <2>1, <2>2, EntriesAre
  <2>4. \A n \in DOMAIN links : links[n] \in Allowed /\ Links(r, links[n])
    BY <1>2, <1>3, <2>3 DEF Links
  <2>5. ASSUME NEW url \in Allowed, Links(r, url), url \notin seen'
        PROVE  \E n \in DOMAIN links : links[n] = url
    <3>1. PICK k \in DOMAIN web[final] : web[final][k] = url
      BY <1>2, <2>5 DEF Links
    <3>2. k \in P
      BY <1>1, <2>5, <3>1
    <3> QED
      BY <2>3, <3>1, <3>2
  <2> QED
    BY <1>3, <2>1, <2>3, <2>4, <2>5
<1>4. CASE ~ (status = "ok" /\ d < maxDepth)
  <2> DEFINE none == <<>>
  <2>1. queue' = Tail(queue) /\ Tail(queue) \in Seq(Visits)
    BY <1>1, <1>4, AtHead DEF FetchPage, Below
  <2>2. none \in Seq(Urls) /\ [n \in DOMAIN none |-> Visit(none[n], d + 1)] = <<>>
    OBVIOUS
  <2>3. Tail(queue) \o <<>> = Tail(queue)
    BY <2>1, ConcatEmptySeq
  <2>4. ~ \E url : d < maxDepth /\ Links(r, url)
    BY <1>2, <1>4 DEF Links
  <2>5. DOMAIN none = {}
    OBVIOUS
  <2> HIDE DEF none
  <2> QED
    BY <2>1, <2>2, <2>3, <2>4, <2>5
<1> QED
  BY <1>3, <1>4

(* The page comes last among the records, its new links last in the queue.   *)
LEMMA FetchStep ==
  ASSUME CrawlInv, NEW status \in Statuses, NEW final \in Urls, FetchPage(status, final)
  PROVE  CrawlInv'
<1> DEFINE d == queue[1].depth  r == Fetched(status, final)  last == Len(records) + 1
<1>1. /\ TypeOK /\ BreadthFirst /\ Complete /\ Accounted /\ Shortest /\ WithinLimits
      /\ AtUrl /\ Url \in Allowed \ seen /\ Url \in Urls /\ Len(records) < maxPages
      /\ seen' = seen \cup {Url} /\ UNCHANGED <<policy, pc, skipped>> /\ pc = "crawling"
      /\ parsers \subseteq parsers' /\ parsers' \subseteq Hosts
  <2>1. CrawlInv /\ AtUrl /\ TypeOK
    BY DEF CrawlInv, FetchPage
  <2>2. Url \in Urls /\ pc = "crawling" /\ Len(records) < maxPages
    BY <2>1, AtHead
  <2>3. HostOf[Url] \in Hosts
    BY <2>2, CrawlAssumption
  <2> QED
    BY <2>1, <2>2, <2>3 DEF CrawlInv, FetchPage, Kept, TypeOK
<1>2. /\ queue[1] = Head(queue) /\ Url = queue[1].url /\ d \in Nat /\ 1 \in DOMAIN queue
      /\ DOMAIN queue = 1 .. Len(queue) /\ Len(queue) \in Nat \ {0} /\ Tail(queue) \in Seq(Visits)
      /\ DOMAIN Tail(queue) = 1 .. Len(queue) - 1
      /\ \A a \in 1 .. Len(queue) - 1 : Tail(queue)[a] = queue[a + 1] /\ a + 1 \in DOMAIN queue
  BY <1>1, AtHead
<1>final. final \in InDomain
  BY FinalWithin
<1>3. r \in Pages /\ records' = Append(records, r) /\ r.url = Url /\ r.depth = d
  BY <1>1, <1>2, <1>final DEF FetchPage, Fetched, Pages, Statuses
<1> HIDE DEF r
<1>4. /\ records' \in Seq(Pages) /\ DOMAIN records' = DOMAIN records \cup {last}
      /\ DOMAIN records = 1 .. Len(records) /\ Len(records) \in Nat
      /\ Len(records') = last /\ records'[last] = r
      /\ \A i \in DOMAIN records : i # last /\ records'[i] = records[i]
  <2>1. records \in Seq(Pages)
    BY <1>1 DEF TypeOK
  <2>2. \A i \in 1 .. Len(records) : i # last
    BY <2>1, LenProperties
  <2> QED
    BY <1>3, <2>1, <2>2, AppendEntries
<1>5. PICK links \in Seq(Urls) :
        /\ queue' = Tail(queue) \o [n \in DOMAIN links |-> Visit(links[n], d + 1)]
        /\ \A n \in DOMAIN links : links[n] \in Allowed /\ Links(r, links[n]) /\ d < maxDepth
        /\ \A url \in Allowed : d < maxDepth /\ Links(r, url) =>
             url \in seen' \/ \E n \in DOMAIN links : links[n] = url
  BY <1>1, LinksFollowed DEF r
<1> DEFINE rest == Len(queue) - 1  more == Len(links)
<1>6. /\ queue' \in Seq(Visits) /\ Len(Tail(queue)) = rest /\ more \in Nat /\ rest \in Nat
      /\ DOMAIN links = 1 .. more /\ DOMAIN queue' = 1 .. rest + more
      /\ \A a \in 1 .. rest : queue'[a] = queue[a + 1] /\ a + 1 \in DOMAIN queue
      /\ \A n \in 1 .. more : queue'[rest + n] = Visit(links[n], d + 1)
      /\ \A a \in DOMAIN queue' : a \in 1 .. rest \/ \E n \in 1 .. more : a = rest + n
  <2>1. Len(Tail(queue)) = rest /\ d + 1 \in Nat
    BY <1>2, LenProperties
  <2> DEFINE t == Tail(queue)  q == queue'  e == d + 1
  <2>2. t \in Seq(Visits) /\ q = t \o [n \in DOMAIN links |-> Visit(links[n], e)] /\ e \in Nat
    BY <1>2, <1>5, <2>1
  <2> HIDE DEF t, q, e
  <2>3. Extended(q, t, links, e)
    BY <2>2, FollowedEntries
  <2>4. Len(t) = rest /\ Len(links) = more
    BY <2>1 DEF t
  <2> HIDE DEF rest, more
  <2> QED
    BY <1>2, <2>3, <2>4 DEF t, q, e, rest, Extended
<1>7. TypeOK'
  BY <1>1, <1>4, <1>6 DEF TypeOK, policy
<1>8. \A url, depth : Reached(url, depth) => Reached(url, depth)'
  BY <1>1, <1>4, ReachedStays
<1>9. \A url, depth : Noticed(url, depth) => Noticed(url, depth)'
  <2>1. ASSUME NEW a \in DOMAIN Tail(queue)
        PROVE  a \in DOMAIN queue' /\ queue'[a] = Tail(queue)[a]
    BY <1>2, <1>6
  <2> QED
    BY <1>1, <2>1, NoticedStays
<1>10. ASSUME NEW a \in DOMAIN queue'
       PROVE  \/ \E b \in DOMAIN queue : a \in 1 .. rest /\ b = a + 1 /\ queue'[a] = queue[b]
              \/ \E n \in DOMAIN links :
                   /\ a = rest + n /\ queue'[a].depth = d + 1 /\ queue'[a].url = links[n]
  <2> HIDE DEF rest, more
  <2>1. CASE a \in 1 .. rest
    <3>1. a + 1 \in DOMAIN queue /\ queue'[a] = queue[a + 1]
      BY <1>6, <2>1
    <3> QED
      BY <2>1, <3>1
  <2>2. CASE \E n \in 1 .. more : a = rest + n
    <3>1. PICK n \in 1 .. more : a = rest + n
      BY <2>2
    <3>2. queue'[a] = Visit(links[n], d + 1) /\ n \in DOMAIN links
      BY <1>6, <3>1
    <3> QED
      BY <3>1, <3>2 DEF Visit
  <2> QED
    BY <1>6, <2>1, <2>2
<1> HIDE DEF rest, more, last
<1>11. BreadthFirst'
  <2>1. \A b \in DOMAIN queue : /\ queue[b].depth \in Nat /\ queue[b].depth <= maxDepth
                                /\ d <= queue[b].depth /\ queue[b].depth <= d + 1
    <3>1. ASSUME NEW b \in DOMAIN queue PROVE queue[b].depth \in Nat /\ d <= queue[b].depth
      <4>1. queue[b] \in Visits
        BY <1>1, ElementOfSeq, <1>2 DEF TypeOK
      <4>2. b = 1 \/ 1 < b
        BY <1>2
      <4> QED
        BY <1>1, <1>2, <4>1, <4>2 DEF BreadthFirst, Visits
    <3> QED
      BY <1>1, <1>2, <3>1 DEF BreadthFirst
  <2>2. \A a \in DOMAIN queue' : /\ queue'[a].depth \in Nat /\ queue'[a].depth <= maxDepth
                                 /\ d <= queue'[a].depth /\ queue'[a].depth <= d + 1
    <3> TAKE a \in DOMAIN queue'
    <3>1. CASE \E b \in DOMAIN queue : a \in 1 .. rest /\ b = a + 1 /\ queue'[a] = queue[b]
      BY <2>1, <3>1
    <3>2. CASE \E n \in DOMAIN links :
                 /\ a = rest + n /\ queue'[a].depth = d + 1 /\ queue'[a].url = links[n]
      <4>1. d < maxDepth /\ maxDepth \in Nat
        BY <1>1, <1>5, <3>2, CrawlAssumption DEF TypeOK
      <4> QED
        BY <1>2, <3>2, <4>1
    <3> QED
      BY <1>10, <3>1, <3>2
  <2>3. ASSUME NEW a \in DOMAIN queue', NEW b \in DOMAIN queue', a < b
        PROVE  queue'[a].depth <= queue'[b].depth
    <3>1. CASE b \in 1 .. rest
      <4>1. /\ a \in 1 .. rest /\ a + 1 \in DOMAIN queue /\ b + 1 \in DOMAIN queue
            /\ queue'[a] = queue[a + 1] /\ queue'[b] = queue[b + 1] /\ a + 1 < b + 1
        BY <1>6, <2>3, <3>1
      <4> QED
        BY <1>1, <4>1 DEF BreadthFirst
    <3>2. CASE b \notin 1 .. rest
      <4>1. queue'[b].depth = d + 1
        BY <1>10, <3>2
      <4> QED
        BY <1>2, <2>2, <4>1
    <3> QED
      BY <3>1, <3>2
  <2>4. ASSUME NEW i \in DOMAIN records', NEW a \in DOMAIN queue'
        PROVE  records'[i].depth <= queue'[a].depth
    <3>1. CASE i = last
      BY <1>3, <1>4, <2>2, <3>1
    <3>2. CASE i \in DOMAIN records
      <4>1. records'[i] = records[i] /\ records[i].depth <= d
        BY <1>1, <1>2, <1>4, <3>2 DEF BreadthFirst
      <4>2. records[i].depth \in Nat
        <5>1. records[i] \in Pages
          BY <1>1, <1>4, <3>2, ElementOfSeq DEF TypeOK
        <5> QED
          BY <5>1 DEF Pages
      <4> QED
        BY <1>2, <2>2, <4>1, <4>2
    <3> QED
      BY <1>4, <3>1, <3>2
  <2>5. \A a, b \in DOMAIN queue' : queue'[b].depth <= queue'[a].depth + 1
    BY <1>2, <2>2
  <2> QED
    BY <1>1, <2>2, <2>3, <2>4, <2>5 DEF BreadthFirst, policy
<1>12. Complete'
  <2>1. ASSUME NEW a \in DOMAIN queue' PROVE Reached(queue[a].url, queue[a].depth)'
    <3>1. CASE \E b \in DOMAIN queue : a \in 1 .. rest /\ b = a + 1 /\ queue'[a] = queue[b]
      BY <1>1, <1>8, <3>1 DEF Complete
    <3>2. CASE \E n \in DOMAIN links :
                 /\ a = rest + n /\ queue'[a].depth = d + 1 /\ queue'[a].url = links[n]
      <4>1. Links(r, queue'[a].url) /\ queue'[a].depth = r.depth + 1
        BY <1>3, <1>5, <3>2
      <4>2. last \in DOMAIN records' /\ records'[last] = r /\ web' = web
        BY <1>1, <1>4 DEF policy
      <4> QED
        BY <4>1, <4>2 DEF Reached, Links
    <3> QED
      BY <1>10, <3>1, <3>2
  <2>2. \A url \in Urls : IsRoot(url)' => Noticed(url, 0)'
    BY <1>1, <1>9 DEF Complete, IsRoot, policy
  <2>3. ASSUME NEW j \in DOMAIN records', NEW url \in Allowed,
               records'[j].depth < maxDepth, Links(records'[j], url)
        PROVE  url \in seen' \/ Waiting(url, records[j].depth + 1)'
    <3>1. CASE j \in DOMAIN records
      BY <1>1, <1>4, <1>9, <2>3, <3>1 DEF Complete, Noticed
    <3>2. CASE j = last /\ url \notin seen'
      <4>1. PICK n \in DOMAIN links : links[n] = url
        BY <1>3, <1>4, <1>5, <2>3, <3>2
      <4>2. /\ rest + n \in DOMAIN queue' /\ queue'[rest + n].url = url
            /\ queue'[rest + n].depth = d + 1
        <5>1. n \in 1 .. more /\ rest + n \in 1 .. rest + more
          BY <1>6, <4>1
        <5>2. queue'[rest + n] = Visit(links[n], d + 1)
          BY <1>6, <5>1
        <5> QED
          BY <1>6, <4>1, <5>1, <5>2 DEF Visit
      <4>3. records'[j].depth + 1 = d + 1
        BY <1>3, <1>4, <3>2
      <4> QED
        BY <1>2, <4>2, <4>3 DEF Waiting
    <3> QED
      BY <1>4, <3>1, <3>2
  <2>4. maxDepth' = maxDepth /\ web' = web
    BY <1>1 DEF policy
  <2> QED
    BY <2>1, <2>2, <2>3, <2>4 DEF Complete, Links, Noticed
<1>13. Accounted' /\ WithinLimits'
  <2>1. Recorded' = Recorded \cup {Url}
    BY <1>3, <1>4 DEF Recorded
  <2>2. Accounted'
    BY <1>1, <2>1 DEF Accounted, policy
  <2>3. \A i \in DOMAIN records : records[i].url # Url
    BY <1>1 DEF Accounted, Recorded
  <2>4. maxPages \in Nat /\ last <= maxPages
    BY <1>1, <1>4, CrawlAssumption DEF TypeOK, last
  <2>5. \A i, j \in DOMAIN records' : records'[i].url = records'[j].url => i = j
    BY <1>1, <1>3, <1>4, <2>3 DEF WithinLimits
  <2>6. d <= maxDepth
    BY <1>1, <1>2 DEF BreadthFirst
  <2>7. \A i \in DOMAIN records' :
          /\ records'[i].url \in Allowed /\ records'[i].final \in InDomain
          /\ records'[i].depth <= maxDepth
    BY <1>1, <1>3, <1>4, <2>6 DEF WithinLimits, Pages
  <2>8. maxPages' = maxPages /\ maxDepth' = maxDepth /\ Len(records') <= maxPages
    BY <1>1, <1>4, <2>4 DEF policy
  <2> QED
    BY <1>1, <2>2, <2>5, <2>7, <2>8 DEF WithinLimits
<1>14. Shortest'
  <2>1. web' = web /\ \A i \in DOMAIN records : records[i].depth \in Nat /\ records[i].depth <= d
    <3>1. \A i \in DOMAIN records : records[i] \in Pages
      BY <1>1, <1>4, ElementOfSeq DEF TypeOK
    <3> QED
      BY <1>1, <1>2, <3>1 DEF BreadthFirst, Pages, policy
  <2>2. ASSUME NEW i \in DOMAIN records' PROVE Reached(records[i].url, records[i].depth)'
    <3>1. CASE i \in DOMAIN records
      BY <1>1, <1>4, <1>8, <3>1 DEF Shortest
    <3>2. CASE i = last
      <4>1. Reached(Url, d)
        BY <1>1, <1>2 DEF Complete
      <4> QED
        BY <1>3, <1>4, <1>8, <3>2, <4>1
    <3> QED
      BY <1>4, <3>1, <3>2
  <2>3. ASSUME NEW j \in DOMAIN records, Links(records[j], Url) PROVE d <= records[j].depth + 1
    <3>1. CASE records[j].depth < maxDepth
      <4>1. Noticed(Url, records[j].depth + 1)
        BY <1>1, <2>3, <3>1 DEF Complete
      <4>2. PICK a \in DOMAIN queue : queue[a].depth <= records[j].depth + 1
        BY <1>1, <4>1 DEF Noticed, Waiting
      <4>3. queue[a].depth \in Nat /\ d <= queue[a].depth
        <5>1. queue[a] \in Visits /\ (a = 1 \/ 1 < a)
          BY <1>1, <1>2, ElementOfSeq DEF TypeOK
        <5> QED
          BY <1>1, <1>2, <5>1 DEF BreadthFirst, Visits
      <4> QED
        BY <1>2, <2>1, <4>2, <4>3
    <3>2. CASE ~ records[j].depth < maxDepth
      <4>1. d <= maxDepth /\ maxDepth \in Nat
        <5>1. d <= maxDepth
          BY <1>1, <1>2 DEF BreadthFirst
        <5>2. maxDepth \in Nat
          BY <1>1, CrawlAssumption DEF TypeOK
        <5> QED
          BY <5>1, <5>2
      <4> QED
        BY <1>2, <2>1, <3>2, <4>1
    <3> QED
      BY <3>1, <3>2
  <2>4. ASSUME NEW i \in DOMAIN records', NEW j \in DOMAIN records',
               Links(records'[j], records'[i].url)
        PROVE  records'[i].depth <= records'[j].depth + 1
    <3>1. CASE i \in DOMAIN records /\ j \in DOMAIN records
      BY <1>1, <1>4, <2>4, <3>1 DEF Shortest
    <3>2. CASE i = last /\ j \in DOMAIN records
      BY <1>3, <1>4, <2>3, <2>4, <3>2
    <3>3. CASE i \in DOMAIN records /\ j = last
      BY <1>2, <1>3, <1>4, <2>1, <3>3
    <3>4. CASE i = last /\ j = last
      BY <1>2, <1>3, <1>4, <3>4
    <3> QED
      BY <1>4, <3>1, <3>2, <3>3, <3>4
  <2> QED
    BY <2>1, <2>2, <2>4 DEF Shortest, Links
<1> QED
  BY <1>1, <1>7, <1>11, <1>12, <1>13, <1>14 DEF CrawlInv, Fresh, Exhausted
LEMMA CrawlInvStep == ASSUME CrawlInv, [Next]_vars PROVE CrawlInv'
<1>1. CASE StartSiteCrawl
  <2>1. PICK start \in Allowed, most \in Asked, deepest \in Asked :
          Begin(<<start>>, PagesFor(most), DepthFor(deepest))
    BY <1>1 DEF StartSiteCrawl
  <2>2. /\ <<start>> \in Seq(Urls) /\ PagesFor(most) \in 1 .. HardMaxPages
        /\ DepthFor(deepest) \in 0 .. HardMaxDepth
    BY LimitsFor, CrawlAssumption
  <2> QED
    BY <2>1, <2>2, BeginStep
<1>2. CASE StartUrlCrawl
  <2>1. PICK list \in UrlLists, pages \in Asked :
          LET urls == SubSeq(list, 1, Least(Len(list), HardMaxPages))
              most == IF pages = 0 THEN Len(urls) ELSE pages
          IN  Begin(urls, PagesFor(Least(most, Len(urls))), 0)
    BY <1>2 DEF StartUrlCrawl
  <2>2. list \in Seq(Urls) /\ Len(list) \in Nat
        /\ Least(Len(list), HardMaxPages) \in 0 .. Len(list)
    BY CrawlAssumption, LenProperties DEF Least
  <2> DEFINE urls == SubSeq(list, 1, Least(Len(list), HardMaxPages))
             most == IF pages = 0 THEN Len(urls) ELSE pages
  <2>3. urls \in Seq(Urls) /\ Len(urls) \in Nat
    <3>1. \A i \in 1 .. Len(list) : list[i] \in Urls
      BY <2>2, ElementOfSeq
    <3>2. urls \in Seq(Urls)
      BY <2>2, <3>1, SubSeqProperties
    <3> QED
      BY <3>2, LenProperties
  <2> HIDE DEF urls
  <2>4. Least(most, Len(urls)) \in Int
    BY <2>3, CrawlAssumption DEF Least
  <2>5. PagesFor(Least(most, Len(urls))) \in 1 .. HardMaxPages /\ 0 \in 0 .. HardMaxDepth
    BY <2>4, LimitsFor, CrawlAssumption
  <2> QED
    BY <2>1, <2>3, <2>5, BeginStep DEF urls
<1>3. CASE DropSeen \/ SkipNotAllowed \/ SkipRobots
  BY <1>3, SkipStep
<1>4. CASE \E status \in Statuses, final \in Urls : FetchPage(status, final)
  BY <1>4, FetchStep
<1>5. CASE Finish \/ Fail \/ Over \/ UNCHANGED vars
  <2>1. /\ UNCHANGED policy /\ queue' = queue /\ seen' = seen /\ parsers' = parsers
        /\ records' = records /\ skipped' = skipped
        /\ \/ pc' = pc
           \/ pc' = "done" /\ (queue = <<>> \/ ~ Room)
           \/ pc' = "failed"
    <3>1. CASE Finish
      BY <3>1 DEF Finish
    <3>2. CASE Fail
      BY <3>2 DEF Fail
    <3>3. CASE Over \/ UNCHANGED vars
      BY <3>3 DEF Over, vars, policy
    <3> QED
      BY <1>5, <3>1, <3>2, <3>3
  <2>2. TypeOK' /\ Fresh' /\ Exhausted'
    BY <2>1 DEF policy, CrawlInv, TypeOK, Fresh, Exhausted, Room
  <2>3. BreadthFirst' /\ Accounted' /\ WithinLimits'
    BY <2>1 DEF policy, CrawlInv, BreadthFirst, Accounted, WithinLimits, Recorded
  <2>4. Complete'
    BY <2>1 DEF policy, CrawlInv, Complete, Reached, IsRoot, Links, Noticed, Waiting
  <2>5. Shortest'
    <3>1. records' = records /\ web' = web /\ roots' = roots
      BY <2>1 DEF policy
    <3>2. \A url, depth : Reached(url, depth) => Reached(url, depth)'
      BY <3>1 DEF Reached, IsRoot, Links
    <3> QED
      BY <3>1, <3>2 DEF CrawlInv, Shortest, Links
  <2> QED
    BY <2>2, <2>3, <2>4, <2>5 DEF CrawlInv
<1> QED
  BY <1>1, <1>2, <1>3, <1>4, <1>5 DEF Next, Statuses
-----------------------------------------------------------------------------
(* Theorems *)

LEMMA ShortestFollows == CrawlInv => ShortestDepth
<1>1. \A i, j \in DOMAIN records : j \in Parents(i) <=> Links(records[j], records[i].url)
  BY DEF Parents, Links
<1> QED
  BY <1>1 DEF CrawlInv, Shortest, ShortestDepth, Reached, IsRoot, Parents

LEMMA NothingMissedFollows == CrawlInv => NothingMissed
<1> SUFFICES ASSUME CrawlInv, pc = "done", Len(records) < maxPages
             PROVE  /\ \A k \in DOMAIN roots : roots[k] \in Recorded \cup {s.url : s \in skipped}
                    /\ \A i \in DOMAIN records :
                         records[i].status = "ok" /\ records[i].depth < maxDepth =>
                           \A k \in DOMAIN web[records[i].final] :
                             web[records[i].final][k] \in Allowed =>
                               web[records[i].final][k] \in Recorded \cup Skipped("robots_txt")
  BY DEF NothingMissed
<1>1. TypeOK /\ Complete /\ Accounted /\ queue = <<>>
  BY DEF CrawlInv, Exhausted, Room
<1>2. \A url, depth : Noticed(url, depth) => url \in Recorded \cup {s.url : s \in skipped}
  BY <1>1 DEF Noticed, Waiting, Accounted
<1>3. \A k \in DOMAIN roots : roots[k] \in Urls /\ IsRoot(roots[k])
  BY <1>1, LenProperties, ElementOfSeq DEF TypeOK, IsRoot
<1>4. ASSUME NEW url \in Allowed, url \in {s.url : s \in skipped}
      PROVE  url \in Skipped("robots_txt")
  <2>1. PICK s \in skipped : s.url = url
    BY <1>4
  <2>2. s.reason = "robots_txt"
    BY <1>1, <1>4, <2>1 DEF Accounted, TypeOK, Reasons
  <2> QED
    BY <2>1, <2>2 DEF Skipped
<1>5. ASSUME NEW i \in DOMAIN records, records[i].status = "ok", records[i].depth < maxDepth,
             NEW k \in DOMAIN web[records[i].final], web[records[i].final][k] \in Allowed
      PROVE  web[records[i].final][k] \in Recorded \cup Skipped("robots_txt")
  <2>1. Links(records[i], web[records[i].final][k])
    BY <1>5 DEF Links
  <2>2. Noticed(web[records[i].final][k], records[i].depth + 1)
    BY <1>1, <1>5, <2>1 DEF Complete
  <2> QED
    BY <1>2, <1>4, <1>5, <2>2
<1>6. \A k \in DOMAIN roots : roots[k] \in Recorded \cup {s.url : s \in skipped}
  BY <1>1, <1>2, <1>3 DEF Complete
<1> QED
  BY <1>5, <1>6

LEMMA StepRemembers ==
  ASSUME CrawlInv, [Next]_vars
  PROVE  [\A u \in Skipped("robots_txt") :
            records' # records /\ HostOf[u] = HostOf[Url] => Url \notin Disallowed]_vars
<1> SUFFICES ASSUME Next, NEW u \in Skipped("robots_txt"), records' # records,
                    HostOf[u] = HostOf[Url]
             PROVE  Url \notin Disallowed
  OBVIOUS
<1>1. PICK status \in Statuses, final \in Urls : FetchPage(status, final)
  BY DEF Next, StartSiteCrawl, StartUrlCrawl, Begin, DropSeen, SkipNotAllowed, SkipRobots, Skip,
         Finish, Fail, Over, vars, Statuses
<1>2. PICK s \in skipped : s.reason = "robots_txt" /\ s.url = u
  BY DEF Skipped
<1>3. respect /\ HostOf[Url] \in parsers
  BY <1>2 DEF CrawlInv, Accounted
<1> QED
  BY <1>1, <1>3 DEF FetchPage, Consulted

(* For any web, limits and failures, a crawl records no more pages than it   *)
(* may and none too deep, requests no URL twice and none outside of the      *)
(* policy, and records no page from outside of the allowed domains.          *)
THEOREM CrawlIsWithinLimits == Spec => []WithinLimits
<1>1. CrawlInv /\ [Next]_vars => CrawlInv'
  BY CrawlInvStep
<1>2. CrawlInv => WithinLimits
  BY DEF CrawlInv
<1> QED
  BY <1>1, <1>2, CrawlInvInit, PTL DEF Spec

(* The depth on record is the length of the shortest way over the good pages *)
(* of the crawl, because the queue is ordered by depth.                      *)
THEOREM DepthIsShortest == Spec => []ShortestDepth
<1>1. CrawlInv /\ [Next]_vars => CrawlInv'
  BY CrawlInvStep
<1> QED
  BY <1>1, CrawlInvInit, ShortestFollows, PTL DEF Spec

(* A crawl that ends with room for more pages has recorded or accounted for  *)
(* everything it was started with or a good page above the limit links to.   *)
THEOREM CrawlMissesNothing == Spec => []NothingMissed
<1>1. CrawlInv /\ [Next]_vars => CrawlInv'
  BY CrawlInvStep
<1> QED
  BY <1>1, CrawlInvInit, NothingMissedFollows, PTL DEF Spec

(* After one URL was skipped for robots.txt, whatever the later reads of the *)
(* file give, no forbidden URL of that host is requested.  The targets of    *)
(* redirects are not requested by the crawl and not part of this.            *)
THEOREM RobotsAreRemembered == Spec => RobotsRemembered
<1>1. CrawlInv /\ [Next]_vars => CrawlInv' /\
        [\A u \in Skipped("robots_txt") :
           records' # records /\ HostOf[u] = HostOf[Url] => Url \notin Disallowed]_vars
  BY CrawlInvStep, StepRemembers
<1> QED
  BY <1>1, CrawlInvInit, PTL DEF Spec, RobotsRemembered

-----------------------------------------------------------------------------
(* However many links the pages have, and wherever they redirect to, the     *)
(* crawl comes to its end: a step that keeps it going takes a page off those *)
(* still allowed or, without touching that number, a URL off the queue.  No  *)
(* step changes what the crawl was started with.                             *)
PagesLeft == maxPages - Len(records)

CrawlGoesOn ==
  [][pc = "crawling" =>
       /\ UNCHANGED policy
       /\ pc' = "crawling" =>
            \/ PagesLeft' < PagesLeft
            \/ PagesLeft' = PagesLeft /\ Len(queue') < Len(queue)]_vars

LEMMA CrawlStepGoesOn ==
  ASSUME CrawlInv, Next, pc = "crawling"
  PROVE  /\ UNCHANGED policy
         /\ pc' = "crawling" =>
              \/ PagesLeft' < PagesLeft
              \/ PagesLeft' = PagesLeft /\ Len(queue') < Len(queue)
<1>1. TypeOK /\ maxPages \in Nat /\ Len(records) \in Nat
  BY CrawlAssumption DEF CrawlInv, TypeOK
<1>2. CASE DropSeen \/ SkipNotAllowed \/ SkipRobots
  <2>1. AtUrl /\ queue' = Tail(queue) /\ UNCHANGED <<policy, records>>
    BY <1>2 DEF DropSeen, SkipNotAllowed, SkipRobots, Skip
  <2>2. Len(queue') < Len(queue)
    <3>1. queue \in Seq(Visits) /\ queue # <<>>
      BY <1>1, <2>1 DEF TypeOK, AtUrl
    <3> QED
      BY <2>1, <3>1, TailEntries
  <2> QED
    BY <2>1, <2>2 DEF PagesLeft, policy
<1>3. ASSUME NEW status \in Statuses, NEW final \in Urls, FetchPage(status, final)
      PROVE  UNCHANGED policy /\ PagesLeft' < PagesLeft
  <2>1. Len(records') = Len(records) + 1
    <3>1. PICK page : records' = Append(records, page)
      BY <1>3 DEF FetchPage
    <3> QED
      BY <1>1, <3>1 DEF TypeOK
  <2>2. UNCHANGED policy
    BY <1>3 DEF FetchPage
  <2> QED
    BY <1>1, <2>1, <2>2 DEF PagesLeft, policy
<1>4. CASE Finish \/ Fail
  BY <1>4 DEF Finish, Fail
<1>5. ~ (StartSiteCrawl \/ StartUrlCrawl \/ Over)
  BY DEF StartSiteCrawl, StartUrlCrawl, Begin, Over
<1> QED
  BY <1>2, <1>3, <1>4, <1>5 DEF Next, Statuses

(* A crawl ends on any web, also on one whose pages link to each other: each *)
(* step leaves fewer pages to fetch, or as many and a shorter queue.         *)
THEOREM CrawlsGoOn == Spec => CrawlGoesOn /\ [](PagesLeft \in Nat)
<1>1. CrawlInv /\ [Next]_vars => CrawlInv'
  BY CrawlInvStep
<1>2. CrawlInv => PagesLeft \in Nat
  BY CrawlAssumption DEF CrawlInv, TypeOK, WithinLimits, PagesLeft
<1>3. CrawlInv /\ [Next]_vars =>
        [pc = "crawling" =>
           /\ UNCHANGED policy
           /\ pc' = "crawling" =>
                \/ PagesLeft' < PagesLeft
                \/ PagesLeft' = PagesLeft /\ Len(queue') < Len(queue)]_vars
  BY CrawlStepGoesOn
<1> QED
  BY <1>1, <1>2, <1>3, CrawlInvInit, PTL DEF Spec, CrawlGoesOn
=============================================================================
