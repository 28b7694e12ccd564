---------------------------- MODULE MCNetworkTools ----------------------------
(* Model-checking instance of the network tools: a message with browser      *)
(* calls, one with crawls and link extractions, or one with searches, each   *)
(* with bounds of its own: two browser calls or searches, crawls within two seconds. *)
EXTENDS BrowserTool, CrawlDirectories, CorporateSearch, TLC

CONSTANTS c1, c2, c3

VARIABLE part  \* which tool the calls are for

mcVars == <<now, pc, answer, before, browserVars, crawlVars, searchVars, part>>

(* The first two calls are for the same task, site or company.               *)
Pairing  == [c \in Calls |-> IF c = c3 THEN 2 ELSE 1]
SameTask == [c \in Calls |-> 1]
Names    == [c \in Calls |-> 3]
Twins    == Permutations({c1, c2})

MCInit ==
  /\ CallsInit /\ BrowserInit /\ CrawlInit /\ SearchInit
  /\ part \in {"browser", "crawl", "search"}

Used == IF part = "crawl" THEN Calls ELSE Calls \ {c3}
LastTick == IF part = "browser" THEN TimeBound ELSE PerSecond

(* The worker goes on without calls, or the clock has run out.               *)
Rest == (Used \subseteq Answered \/ now = LastTick) /\ UNCHANGED mcVars

MCNext ==
  \/ /\ \/ part = "browser" /\ BrowserNext /\ UNCHANGED <<crawlVars, searchVars>>
        \/ part = "crawl" /\ CrawlNext /\ UNCHANGED <<browserVars, searchVars>>
        \/ part = "search" /\ SearchNext /\ UNCHANGED <<browserVars, crawlVars>>
     /\ now' <= LastTick /\ (\A c \in Calls \ Used : pc'[c] = "idle")
     /\ UNCHANGED part
  \/ Rest

MCSpec == MCInit /\ [][MCNext]_mcVars
=============================================================================
