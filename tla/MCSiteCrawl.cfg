CONSTANTS
  home = home
  news = news
  art1 = art1
  art2 = art2
  out = out
  away = away
  site = site
  Urls = {home, news, art1, art2, out, away}
  Hosts = {site}
  HostOf <- MCHostOf
  InDomain = {home, news, art1, art2, out}
  Allowed = {home, news, art1, art2}
  Disallowed = {art1, art2}
  Redirects <- MCRedirects
  LinkLists <- MCLinkLists
  UrlLists <- MCUrlLists
  Asked <- MCAsked
  HardMaxPages = 4
  HardMaxDepth = 3
SPECIFICATION Spec
INVARIANTS WithinLimits ShortestDepth NothingMissed
PROPERTIES RobotsRemembered
