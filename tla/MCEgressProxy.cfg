CONSTANTS
  site = site
  www = www
  public = public
  private = private
  k1 = k1
  t1 = t1
  Hosts = {site, www}
  Ports = {22, 443}
  Addresses = {public, private}
  SubdomainOf <- MCSubdomainOf
  Default <- MCDefault
  Grants <- MCGrants
  Tokens = {t1}
  Conns = {k1}
  AllowedPorts = {80, 443}
  Global = {public}
  Ttl = 1
  MaxTtl = 3
  TimeBound = 2
  DnsBound = 1
  RequestBound = 2
  None = None
  Forged = Forged
SPECIFICATION FairSpec
INVARIANTS UpstreamIsAllowed
PROPERTIES ToolRequestsPass GoneClientsReleased
