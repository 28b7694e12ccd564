------------------------------ MODULE MCSiteCrawl ------------------------------
(* A model-checking instance of SiteCrawl: every small web over a start page, *)
(* a news page, two articles that robots.txt forbids and a page of the domain *)
(* that the policy excludes.  Redirects lead to an earlier page, a forbidden  *)
(* one, an excluded one and, from an article, out of the domain.              *)
EXTENDS SiteCrawl

CONSTANTS home, news, art1, art2, out, away, site

MCHostOf    == [u \in Urls |-> site]
MCRedirects == {<<news, home>>, <<news, out>>, <<home, art1>>, <<art2, away>>}
MCLinkLists == {<<news, art1>>, <<art1, art2, home>>, <<art2, out>>}
MCUrlLists  == {<<out, news, art1>>, <<art2, art1, home>>}
MCAsked     == {0, 2, 5}
================================================================================
