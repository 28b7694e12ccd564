------------------------------ MODULE EgressProxy ------------------------------
(***************************************************************************)
(* The egress proxy and the tokens the runner's network tools give their   *)
(* clients.  One handler thread serves a client connection, request after  *)
(* request: it checks port, credentials and allowlist, resolves the host,  *)
(* resolves it again to open the upstream connection, and relays.  Time    *)
(* passes and name resolution may change between any two of these steps.   *)
(***************************************************************************)
EXTENDS Integers

CONSTANTS
  Hosts, Ports, Addresses,
  SubdomainOf,  \* pairs <<host, domain>> of a host below a domain
  Default,      \* the patterns of the proxy's default allowlist
  Grants,       \* sets of patterns a tool may ask a token for
  Tokens, Conns,
  AllowedPorts, Global,
  Ttl, MaxTtl,  \* the runner's ttl_seconds; the most create_egress_token gives
  TimeBound, DnsBound, RequestBound,  \* bounds of a run
  None, Forged

(* "example.com" or "*.example.com" *)
Pattern == [name : Hosts, wild : BOOLEAN]

ASSUME ProxyAssumption ==
  /\ Default \subseteq Pattern /\ Grants \subseteq SUBSET Pattern
  /\ SubdomainOf \subseteq Hosts \X Hosts
  /\ Ttl \in Nat \ {0} /\ MaxTtl \in Nat /\ Ttl <= MaxTtl
  /\ {TimeBound, DnsBound, RequestBound} \subseteq Nat
  /\ None \notin Addresses /\ None \notin Tokens /\ Forged \notin Tokens
  /\ None # Forged
  /\ None \notin [patterns : SUBSET Pattern, born : Nat, exp : Nat]

VARIABLES
  now,       \* the clock, in seconds
  dns,       \* what each host resolves to
  changes,   \* number of changes of dns so far
  tokens,    \* what each token says, or None before it is issued
  client,    \* the client's end of each connection: "open" or "gone"
  stage,     \* where the handler of each connection is
  req,       \* the request it is at
  served,    \* number of requests of the connection so far
  checked,   \* when the request passed the allowlist
  addrs,     \* addresses left to try
  upstream,  \* the address it is connected to, or None
  stalled,   \* connections whose origin does not read, send or end as awaited
  answer     \* the last status it sent: "200", "403", "407", "origin", or None

env  == <<now, dns, changes, tokens>>
vars == <<now, dns, changes, tokens, client, stage, req, served, checked, addrs,
          upstream, stalled, answer>>

Token   == [patterns : SUBSET Pattern, born : Nat, exp : Nat]
Request == [method : {"CONNECT", "other"}, host : Hosts, port : Ports,
            token : Tokens \cup {None, Forged}, keep : BOOLEAN]
Stages  == {"idle", "validating", "resolving", "opening", "connecting", "body",
            "relay", "tunnel", "closed"}
Talking == {"body", "relay", "tunnel"}

-----------------------------------------------------------------------------
(* Allowlists and tokens *)

(* domain_matches: subdomains match with and without the wildcard.           *)
Matches(host, p) == host = p.name \/ <<host, p.name>> \in SubdomainOf

(* allowed_domain_matches of the runner's tools is stricter.                 *)
RunnerMatches(host, p) ==
  \/ host = p.name
  \/ p.wild /\ <<host, p.name>> \in SubdomainOf

Clamped(ttl) == LET most == IF ttl < MaxTtl THEN ttl ELSE MaxTtl
                IN  IF most > 1 THEN most ELSE 1

\* Mutant: a token is good for one second less than its life.
ExpiredEarly(t) == tokens[t].exp <= now

Expired(t) == tokens[t].exp < now

(* The patterns that credentials of a request stand for. *)
Granted(token) == IF token = None THEN Default ELSE tokens[token].patterns

(* validate_destination up to the resolution of the host.                    *)
Verdict(r) ==
  IF r.port \notin AllowedPorts THEN "403"
  ELSE IF r.token = None
  THEN IF \E p \in Default : Matches(r.host, p) THEN "ok" ELSE "407"
  ELSE IF r.token = Forged \/ Expired(r.token) THEN "403"
  ELSE IF \E p \in Granted(r.token) : Matches(r.host, p) THEN "ok" ELSE "403"

(* resolve_global_addresses raises unless all of the addresses are global.   *)
Resolves(host) == dns[host] # {} /\ dns[host] \subseteq Global

-----------------------------------------------------------------------------
Init ==
  /\ now = 0 /\ changes = 0 /\ dns \in [Hosts -> SUBSET Addresses]
  /\ tokens = [t \in Tokens |-> None]
  /\ client = [c \in Conns |-> "open"] /\ stage = [c \in Conns |-> "idle"]
  /\ req = [c \in Conns |-> None] /\ served = [c \in Conns |-> 0]
  /\ checked = [c \in Conns |-> 0] /\ addrs = [c \in Conns |-> {}]
  /\ upstream = [c \in Conns |-> None] /\ stalled = {} /\ answer = [c \in Conns |-> None]

Tick ==
  /\ now < TimeBound /\ now' = now + 1
  /\ UNCHANGED <<dns, changes, tokens, client, stage, req, served, checked, addrs,
                 upstream, stalled, answer>>

DnsChanges(h, found) ==
  /\ changes < DnsBound /\ changes' = changes + 1
  /\ dns' = [dns EXCEPT ![h] = found]
  /\ UNCHANGED <<now, tokens, client, stage, req, served, checked, addrs, upstream,
                 stalled, answer>>

(* A tool call gets a token for its domains: network_tool_proxy_url.         *)
Issue(t, patterns) ==
  /\ tokens[t] = None /\ patterns # {}
  /\ tokens' = [tokens EXCEPT ![t] =
       [patterns |-> patterns, born |-> now, exp |-> now + Clamped(Ttl)]]
  /\ UNCHANGED <<now, dns, changes, client, stage, req, served, checked, addrs,
                 upstream, stalled, answer>>

(* A client sends a request; parse errors of its target are rejected.        *)
NewRequest(c, r) ==
  /\ stage[c] = "idle" /\ client[c] = "open" /\ served[c] < RequestBound
  /\ r.token \in Tokens => tokens[r.token] # None
  /\ req' = [req EXCEPT ![c] = r] /\ served' = [served EXCEPT ![c] = @ + 1]
  /\ \/ stage' = [stage EXCEPT ![c] = "validating"]
        /\ answer' = [answer EXCEPT ![c] = None]
     \/ stage' = [stage EXCEPT ![c] = "closed"]
        /\ answer' = [answer EXCEPT ![c] = "403"]
  /\ UNCHANGED <<env, client, checked, addrs, upstream, stalled>>

(* The client has what it wants, gives up, or ends. *)
ClientLeaves(c) ==
  /\ client[c] = "open" /\ client' = [client EXCEPT ![c] = "gone"]
  /\ UNCHANGED <<env, stage, req, served, checked, addrs, upstream, stalled, answer>>

(* The origin stops to do what the handler waits for, for a time or for ever. *)
OriginStalls(c) ==
  /\ stage[c] \in Talking /\ c \notin stalled /\ stalled' = stalled \cup {c}
  /\ UNCHANGED <<env, client, stage, req, served, checked, addrs, upstream, answer>>

-----------------------------------------------------------------------------
(* The handler *)

\* Mutant: the upstream socket is not closed.
ReleasedKept(c) == upstream

(* finally: upstream.close() *)
Released(c) == [upstream EXCEPT ![c] = None]

(* The answer says Connection: close, which also ends the handler.           *)
Reject(c, status) ==
  /\ stage' = [stage EXCEPT ![c] = "closed"]
  /\ answer' = [answer EXCEPT ![c] = status]
  /\ upstream' = Released(c) /\ stalled' = stalled \ {c}
  /\ UNCHANGED <<env, client, req, served, checked, addrs>>

Proceed(c, next) ==
  /\ stage' = [stage EXCEPT ![c] = next]
  /\ UNCHANGED <<env, client, req, served, upstream, stalled, answer>>

Validate(c) ==
  /\ stage[c] = "validating"
  /\ IF Verdict(req[c]) = "ok"
     THEN /\ Proceed(c, "resolving") /\ UNCHANGED addrs
          /\ checked' = [checked EXCEPT ![c] = now]
     ELSE Reject(c, Verdict(req[c]))

(* The resolution at the end of validate_destination.                        *)
Resolve(c) ==
  /\ stage[c] = "resolving"
  /\ IF Resolves(req[c].host)
     THEN Proceed(c, "opening") /\ UNCHANGED <<checked, addrs>>
     ELSE Reject(c, "403")

\* Mutant: the addresses are taken from a second lookup that is not checked.
UsableUnchecked(host) == dns[host] # {}

Usable(host) == Resolves(host)

(* open_upstream resolves again and uses what it has checked.                *)
OpenUpstream(c) ==
  /\ stage[c] = "opening"
  /\ IF Usable(req[c].host)
     THEN /\ Proceed(c, "connecting") /\ UNCHANGED checked
          /\ addrs' = [addrs EXCEPT ![c] = dns[req[c].host]]
     ELSE Reject(c, "403")

Connect(c, a) ==
  /\ stage[c] = "connecting" /\ a \in addrs[c]
  /\ upstream' = [upstream EXCEPT ![c] = a] /\ addrs' = [addrs EXCEPT ![c] = {}]
  /\ IF req[c].method = "CONNECT"
     THEN /\ stage' = [stage EXCEPT ![c] = "tunnel"]
          /\ answer' = [answer EXCEPT ![c] = "200"]
     ELSE stage' = [stage EXCEPT ![c] = "body"] /\ UNCHANGED answer
  /\ UNCHANGED <<env, client, req, served, checked, stalled>>

ConnectFails(c, a) ==
  /\ stage[c] = "connecting" /\ a \in addrs[c]
  /\ IF addrs[c] = {a} THEN Reject(c, "403")
     ELSE /\ addrs' = [addrs EXCEPT ![c] = @ \ {a}]
          /\ UNCHANGED <<env, client, stage, req, served, checked, upstream, stalled, answer>>

(* forward_http_request: the body is read and the request sent on.           *)
SendRequest(c) ==
  /\ stage[c] = "body"
  /\ \/ Proceed(c, "relay") /\ UNCHANGED <<checked, addrs>>
     \/ Reject(c, "403")

(* The relay is over: the origin or the client has ended or failed, or a     *)
(* tunnel had nothing to read for 120 seconds.  The handler looks for another request *)
(* unless the client has asked it to close.                                  *)
RelayEnds(c) ==
  /\ stage[c] \in {"relay", "tunnel"}
  /\ upstream' = Released(c) /\ stalled' = stalled \ {c}
  /\ stage' = [stage EXCEPT ![c] = IF req[c].keep THEN "idle" ELSE "closed"]
  /\ answer' = [answer EXCEPT ![c] = IF stage[c] = "relay" THEN "origin" ELSE @]
  /\ UNCHANGED <<env, client, req, served, checked, addrs>>

(* The client ends, or sends what is not a request (the rest of a tunnel).   *)
Hangup(c) ==
  /\ stage[c] = "idle" /\ (client[c] = "gone" \/ served[c] > 0)
  /\ stage' = [stage EXCEPT ![c] = "closed"]
  /\ UNCHANGED <<env, client, req, served, checked, addrs, upstream, stalled, answer>>

Done == (\A c \in Conns : stage[c] = "closed") /\ UNCHANGED vars

HandlerStep(c) ==
  \/ Validate(c) \/ Resolve(c) \/ OpenUpstream(c)
  \/ \E a \in Addresses : Connect(c, a) \/ ConnectFails(c, a)
  \/ SendRequest(c) \/ RelayEnds(c) \/ Hangup(c)

Next ==
  \/ Tick
  \/ \E h \in Hosts, found \in SUBSET Addresses : DnsChanges(h, found)
  \/ \E t \in Tokens, patterns \in Grants : Issue(t, patterns)
  \/ \E c \in Conns, r \in Request : NewRequest(c, r)
  \/ \E c \in Conns : ClientLeaves(c) \/ OriginStalls(c) \/ HandlerStep(c)
  \/ Done

Spec == Init /\ [][Next]_vars

(* What the handler waits for without a timeout: a client that stays, which  *)
(* may keep its connection, its body or its tunnel as long as it likes, and  *)
(* the origin while it reads and relays, since the socket has lost its       *)
(* timeout (also in a tunnel, whose select does not bound sendall).          *)
Waits(c) ==
  \/ client[c] = "open" /\ stage[c] \in Talking \cup {"idle"}
  \/ c \in stalled

(* A handler goes on otherwise: lookups and connects have timeouts, and what *)
(* is read from or sent to a client that is gone ends or fails.              *)
FairSpec == Spec /\ \A c \in Conns : WF_vars(~Waits(c) /\ HandlerStep(c))

-----------------------------------------------------------------------------
(* Properties *)

TypeOK ==
  /\ now \in Nat /\ changes \in Nat /\ dns \in [Hosts -> SUBSET Addresses]
  /\ tokens \in [Tokens -> Token \cup {None}]
  /\ client \in [Conns -> {"open", "gone"}] /\ stage \in [Conns -> Stages]
  /\ req \in [Conns -> Request \cup {None}] /\ served \in [Conns -> Nat]
  /\ checked \in [Conns -> Nat] /\ addrs \in [Conns -> SUBSET Addresses]
  /\ upstream \in [Conns -> Addresses \cup {None}] /\ stalled \in SUBSET Conns
  /\ answer \in [Conns -> {None, "200", "403", "407", "origin"}]

(* The request's credentials, as of when they were checked, cover its host.   *)
Entitled(c) ==
  LET r == req[c] IN
  /\ r.port \in AllowedPorts
  /\ r.token # None => /\ r.token \in Tokens /\ tokens[r.token] # None
                       /\ checked[c] <= tokens[r.token].exp
  /\ \E p \in Granted(r.token) : Matches(r.host, p)

(* Whatever happens to time, tokens and name resolution between its steps,    *)
(* the proxy is connected only for the request it has checked, to a global    *)
(* address, and only while it talks.                                          *)
UpstreamIsAllowed ==
  \A c \in Conns : upstream[c] # None =>
    stage[c] \in Talking /\ upstream[c] \in Global /\ Entitled(c)

(* The step refuses the request for its port, host or credentials.            *)
Refuses(c) == stage[c] = "validating" /\ stage'[c] = "closed"

(* The runner and the proxy agree: within the life of its token no request    *)
(* that the tool's own check lets through is refused by the proxy's checks.   *)
ToolRequestsPass ==
  [][\A c \in Conns : Refuses(c) /\ req[c].token \in Tokens =>
       LET token == tokens[req[c].token] IN
       \/ req[c].port \notin AllowedPorts
       \/ now > token.born + Ttl
       \/ \A p \in token.patterns : ~RunnerMatches(req[c].host, p)]_vars

(* When a client is gone the connection on its behalf is closed as well, at   *)
(* whatever stage the request is, unless the origin stalls: then the handler  *)
(* does not notice.                                                           *)
GoneClientsReleased ==
  \A c \in Conns : client[c] = "gone" ~> upstream[c] = None \/ c \in stalled
===============================================================================
