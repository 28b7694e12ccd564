--------------------------- MODULE EgressProxyProofs ---------------------------
(***************************************************************************)
(* Theorems about EgressProxy for any hosts, patterns, tokens, connections *)
(* and times: type correctness, UpstreamIsAllowed and ToolRequestsPass.    *)
(***************************************************************************)
EXTENDS EgressProxy, TLAPS

LEMMA LifeOfAToken == Clamped(Ttl) = Ttl
BY ProxyAssumption DEF Clamped

LEMMA NewTokenType ==
  ASSUME TypeOK, NEW patterns \in Grants
  PROVE  [patterns |-> patterns, born |-> now, exp |-> now + Clamped(Ttl)] \in Token
BY LifeOfAToken, ProxyAssumption DEF TypeOK, Token

(* A handler that is at work has a request, with a token that was issued.    *)
HasRequest ==
  \A c \in Conns : stage[c] \notin {"idle", "closed"} =>
    req[c] \in Request /\ (req[c].token \in Tokens => tokens[req[c].token] # None)

(* Type correctness: one step per action. *)
LEMMA TypeStep == ASSUME TypeOK, HasRequest, [Next]_vars PROVE TypeOK'
<1> USE ProxyAssumption DEF TypeOK, Stages
<1>1. CASE Tick
  BY <1>1 DEF Tick
<1>2. ASSUME NEW h \in Hosts, NEW found \in SUBSET Addresses, DnsChanges(h, found)
      PROVE TypeOK'
  BY <1>2 DEF DnsChanges
<1>3. ASSUME NEW t \in Tokens, NEW patterns \in Grants, Issue(t, patterns) PROVE TypeOK'
  <2>1. tokens' \in [Tokens -> Token \cup {None}]
    BY <1>3, NewTokenType DEF Issue
  <2> QED
    BY <1>3, <2>1 DEF Issue
<1>4. ASSUME NEW c \in Conns, NEW r \in Request, NewRequest(c, r) PROVE TypeOK'
  BY <1>4 DEF NewRequest, env
<1>5. ASSUME NEW c \in Conns, ClientLeaves(c) \/ OriginStalls(c) PROVE TypeOK'
  BY <1>5 DEF ClientLeaves, OriginStalls, env
<1>6. ASSUME NEW c \in Conns, HandlerStep(c) PROVE TypeOK'
  <2>a. ASSUME NEW status \in {"403", "407"}, Reject(c, status), checked' = checked,
               addrs' = addrs
        PROVE TypeOK'
    BY <2>a DEF Reject, Released, env
  <2>1. CASE Validate(c)
    <3>1. Verdict(req[c]) \in {"ok", "403", "407"}
      BY DEF Verdict
    <3>2. CASE Verdict(req[c]) = "ok"
      BY <2>1, <3>2 DEF Validate, Proceed, env
    <3>3. CASE Verdict(req[c]) # "ok"
      BY <2>1, <3>1, <3>3, <2>a DEF Validate, Reject
    <3> QED
      BY <3>2, <3>3
  <2>2. CASE Resolve(c)
    BY <2>2 DEF Resolve, Proceed, Reject, Released, env
  <2>3. CASE OpenUpstream(c)
    <3>1. dns[req[c].host] \in SUBSET Addresses
      BY <2>3 DEF OpenUpstream, HasRequest, Request
    <3> QED
      BY <2>3, <3>1 DEF OpenUpstream, Proceed, Reject, Released, env
  <2>4. ASSUME NEW a \in Addresses, Connect(c, a) PROVE TypeOK'
    BY <2>4 DEF Connect, env
  <2>5. ASSUME NEW a \in Addresses, ConnectFails(c, a) PROVE TypeOK'
    BY <2>5 DEF ConnectFails, Reject, Released, env
  <2>6. CASE SendRequest(c)
    BY <2>6 DEF SendRequest, Proceed, Reject, Released, env
  <2>7. CASE RelayEnds(c)
    BY <2>7 DEF RelayEnds, Released, env
  <2>8. CASE Hangup(c)
    BY <2>8 DEF Hangup, env
  <2> QED
    BY <1>6, <2>1, <2>2, <2>3, <2>4, <2>5, <2>6, <2>7, <2>8 DEF HandlerStep
<1>7. CASE UNCHANGED vars
  BY <1>7 DEF vars
<1> QED
  BY <1>1, <1>2, <1>3, <1>4, <1>5, <1>6, <1>7 DEF Next, Done

(* What a step does to one handler, as far as the next invariants look.      *)
LEMMA RequestStep == ASSUME TypeOK, HasRequest, [Next]_vars PROVE HasRequest'
<1> USE ProxyAssumption DEF TypeOK, HasRequest, Stages
<1>1. CASE Tick
  BY <1>1 DEF Tick
<1>2. ASSUME NEW h \in Hosts, NEW found \in SUBSET Addresses, DnsChanges(h, found)
      PROVE HasRequest'
  BY <1>2 DEF DnsChanges
<1>3. ASSUME NEW t \in Tokens, NEW patterns \in Grants, Issue(t, patterns) PROVE HasRequest'
  <2>1. tokens'[t] # None
    BY <1>3, NewTokenType DEF Issue, Token
  <2> QED
    BY <1>3, <2>1 DEF Issue
<1>4. ASSUME NEW c \in Conns, NEW r \in Request, NewRequest(c, r) PROVE HasRequest'
  BY <1>4 DEF NewRequest, env
<1>5. ASSUME NEW c \in Conns, ClientLeaves(c) \/ OriginStalls(c) PROVE HasRequest'
  BY <1>5 DEF ClientLeaves, OriginStalls, env
<1>6. ASSUME NEW c \in Conns, HandlerStep(c) PROVE HasRequest'
  BY <1>6 DEF HandlerStep, Validate, Resolve, OpenUpstream, Connect, ConnectFails,
     SendRequest, RelayEnds, Hangup, Proceed, Reject, env
<1>7. CASE UNCHANGED vars
  BY <1>7 DEF vars
<1> QED
  BY <1>1, <1>2, <1>3, <1>4, <1>5, <1>6, <1>7 DEF Next, Done

LEMMA TypeInvariant == Spec => [](TypeOK /\ HasRequest)
<1>1. Init => TypeOK /\ HasRequest
  BY ProxyAssumption DEF Init, TypeOK, HasRequest, Stages
<1> QED
  BY <1>1, TypeStep, RequestStep, PTL DEF Spec

THEOREM TypeCorrect == Spec => []TypeOK
BY TypeInvariant, PTL

-----------------------------------------------------------------------------
(* Only checked addresses are left to try, and only a request that has been  *)
(* found entitled gets so far.                                               *)
Vetted(c) ==
  /\ addrs[c] \subseteq Global
  /\ stage[c] \notin {"idle", "validating", "closed"} => Entitled(c)
  /\ upstream[c] # None => stage[c] \in Talking /\ upstream[c] \in Global

IInv == TypeOK /\ HasRequest /\ \A c \in Conns : Vetted(c)

(* Entitlement is a matter of the request and its token, which last.         *)
LEMMA EntitledLasts ==
  ASSUME TypeOK, HasRequest, NEW c \in Conns, Entitled(c),
         req'[c] = req[c], checked'[c] = checked[c],
         \A t \in Tokens : tokens[t] # None => tokens'[t] = tokens[t]
  PROVE  Entitled(c)'
BY ProxyAssumption DEF Entitled, Granted, TypeOK

(* The checks of validate_destination establish it.                          *)
LEMMA OkIsEntitled ==
  ASSUME TypeOK, HasRequest, NEW c \in Conns, stage[c] = "validating",
         Verdict(req[c]) = "ok"
  PROVE  /\ req[c].port \in AllowedPorts
         /\ req[c].token # None => /\ req[c].token \in Tokens
                                   /\ tokens[req[c].token] # None
                                   /\ now <= tokens[req[c].token].exp
         /\ \E p \in Granted(req[c].token) : Matches(req[c].host, p)
<1>1. req[c] \in Request /\ (req[c].token \in Tokens => tokens[req[c].token] # None)
  BY DEF HasRequest
<1>2. req[c].token \in Tokens \cup {None, Forged}
  BY <1>1 DEF Request
<1>3. req[c].token \in Tokens => tokens[req[c].token] \in Token
  BY <1>1 DEF TypeOK
<1>4. req[c].port \in AllowedPorts
  BY DEF Verdict
<1>5. CASE req[c].token = None
  BY <1>4, <1>5 DEF Verdict, Granted
<1>6. CASE req[c].token # None
  <2>1. req[c].token # Forged /\ ~Expired(req[c].token)
    BY <1>4, <1>6 DEF Verdict
  <2>2. now <= tokens[req[c].token].exp
    BY <1>2, <1>3, <1>6, <2>1 DEF Expired, Token, TypeOK
  <2> QED
    BY <1>1, <1>2, <1>4, <1>6, <2>1, <2>2 DEF Verdict
<1> QED
  BY <1>5, <1>6

LEMMA VettedStep ==
  ASSUME IInv, [Next]_vars, NEW d \in Conns PROVE Vetted(d)'
<1> USE ProxyAssumption DEF IInv, Vetted, TypeOK, Stages, Talking
<1>a. ASSUME req'[d] = req[d], checked'[d] = checked[d], stage'[d] = stage[d],
             addrs'[d] = addrs[d], upstream'[d] = upstream[d],
             \A t \in Tokens : tokens[t] # None => tokens'[t] = tokens[t]
      PROVE Vetted(d)'
  BY <1>a, EntitledLasts
<1>1. CASE Tick
  BY <1>1, <1>a DEF Tick
<1>2. ASSUME NEW h \in Hosts, NEW found \in SUBSET Addresses, DnsChanges(h, found)
      PROVE Vetted(d)'
  BY <1>2, <1>a DEF DnsChanges
<1>3. ASSUME NEW t \in Tokens, NEW patterns \in Grants, Issue(t, patterns) PROVE Vetted(d)'
  BY <1>3, <1>a DEF Issue
<1>4. ASSUME NEW c \in Conns, NEW r \in Request, NewRequest(c, r) PROVE Vetted(d)'
  <2>1. CASE c = d
    BY <1>4, <2>1 DEF NewRequest, env
  <2>2. CASE c # d
    BY <1>4, <1>a, <2>2 DEF NewRequest, env
  <2> QED
    BY <2>1, <2>2
<1>5. ASSUME NEW c \in Conns, ClientLeaves(c) \/ OriginStalls(c) PROVE Vetted(d)'
  BY <1>5, <1>a DEF ClientLeaves, OriginStalls, env
<1>6. ASSUME NEW c \in Conns, HandlerStep(c), c # d PROVE Vetted(d)'
  BY <1>6, <1>a DEF HandlerStep, Validate, Resolve, OpenUpstream, Connect, ConnectFails,
     SendRequest, RelayEnds, Hangup, Proceed, Reject, Released, env
<1>7. ASSUME HandlerStep(d) PROVE Vetted(d)'
  <2>a. ASSUME NEW status, Reject(d, status), addrs' = addrs PROVE Vetted(d)'
    BY <2>a DEF Reject, Released
  <2>b. ASSUME NEW next \in Stages, stage[d] \notin {"idle", "validating", "closed"},
               stage'[d] = next, UNCHANGED <<env, req, checked>>
        PROVE Entitled(d)'
    BY <2>b, EntitledLasts DEF env
  <2>1. CASE Validate(d)
    <3>1. CASE Verdict(req[d]) = "ok"
      <4>1. Entitled(d)'
        BY <2>1, <3>1, OkIsEntitled DEF Validate, Proceed, env, Entitled, Granted
      <4> QED
        BY <2>1, <3>1, <4>1 DEF Validate, Proceed, env
    <3>2. CASE Verdict(req[d]) # "ok"
      BY <2>1, <3>2 DEF Validate, Reject, Released
    <3> QED
      BY <3>1, <3>2
  <2>2. CASE Resolve(d)
    <3>1. CASE stage'[d] = "opening"
      BY <2>2, <3>1, <2>b DEF Resolve, Proceed, Reject
    <3>2. CASE stage'[d] # "opening"
      BY <2>2, <3>2 DEF Resolve, Proceed, Reject, Released
    <3> QED
      BY <3>1, <3>2
  <2>3. CASE OpenUpstream(d)
    <3>1. CASE stage'[d] = "connecting"
      BY <2>3, <3>1, <2>b DEF OpenUpstream, Usable, Resolves, Proceed, Reject
    <3>2. CASE stage'[d] # "connecting"
      BY <2>3, <3>2 DEF OpenUpstream, Proceed, Reject, Released
    <3> QED
      BY <3>1, <3>2
  <2>4. ASSUME NEW a \in Addresses, Connect(d, a) PROVE Vetted(d)'
    BY <2>4, <2>b DEF Connect
  <2>5. ASSUME NEW a \in Addresses, ConnectFails(d, a) PROVE Vetted(d)'
    <3>1. CASE addrs[d] = {a}
      BY <2>5, <3>1 DEF ConnectFails, Reject, Released
    <3>2. CASE addrs[d] # {a}
      BY <2>5, <3>2, <2>b DEF ConnectFails
    <3> QED
      BY <3>1, <3>2
  <2>6. CASE SendRequest(d)
    <3>1. CASE stage'[d] = "relay"
      BY <2>6, <3>1, <2>b DEF SendRequest, Proceed, Reject
    <3>2. CASE stage'[d] # "relay"
      BY <2>6, <3>2 DEF SendRequest, Proceed, Reject, Released
    <3> QED
      BY <3>1, <3>2
  <2>7. CASE RelayEnds(d)
    BY <2>7 DEF RelayEnds, Released
  <2>8. CASE Hangup(d)
    BY <2>8 DEF Hangup
  <2> QED
    BY <1>7, <2>1, <2>2, <2>3, <2>4, <2>5, <2>6, <2>7, <2>8 DEF HandlerStep
<1>8. CASE UNCHANGED vars
  BY <1>8, <1>a DEF vars
<1> QED
  BY <1>1, <1>2, <1>3, <1>4, <1>5, <1>6, <1>7, <1>8 DEF Next, Done

LEMMA InductiveInvariant == Spec => []IInv
<1>1. Init => IInv
  BY ProxyAssumption DEF Init, IInv, TypeOK, HasRequest, Vetted, Stages
<1>2. IInv /\ [Next]_vars => IInv'
  BY TypeStep, RequestStep, VettedStep DEF IInv
<1> QED
  BY <1>1, <1>2, PTL DEF Spec

(* For any hosts, patterns, tokens, clients and changes of name resolution,  *)
(* the proxy is connected only for an entitled request to a global address.  *)
THEOREM UpstreamsAreAllowed == Spec => []UpstreamIsAllowed
<1>1. IInv => UpstreamIsAllowed
  BY DEF IInv, Vetted, UpstreamIsAllowed, Talking
<1> QED
  BY <1>1, InductiveInvariant, PTL

-----------------------------------------------------------------------------
(* Every token lives as long as the runner has asked for.                    *)
TokensLive == \A t \in Tokens : tokens[t] # None => tokens[t].exp = tokens[t].born + Ttl

LEMMA TokensLiveStep == ASSUME TypeOK, TokensLive, [Next]_vars PROVE TokensLive'
<1>1. ASSUME NEW t \in Tokens, NEW patterns \in Grants, Issue(t, patterns) PROVE TokensLive'
  BY <1>1, LifeOfAToken DEF Issue, TypeOK, TokensLive
<1>2. CASE tokens' = tokens
  BY <1>2 DEF TokensLive
<1> QED
  BY <1>1, <1>2 DEF Next, Tick, DnsChanges, NewRequest, ClientLeaves, OriginStalls,
     HandlerStep, Validate,
     Resolve, OpenUpstream, Connect, ConnectFails, SendRequest, RelayEnds, Hangup, Proceed,
     Reject, Done, env, vars

LEMMA TokenInvariant == Spec => []TokensLive
<1>1. Init => TokensLive
  BY DEF Init, TokensLive
<1> QED
  BY <1>1, TypeCorrect, TokensLiveStep, PTL DEF Spec

(* What the runner's check lets through is in the allowlist of the proxy.    *)
LEMMA RunnerIsStricter ==
  \A host \in Hosts, p \in Pattern : RunnerMatches(host, p) => Matches(host, p)
BY DEF RunnerMatches, Matches

(* A refusal of a request whose token is alive means that the tool would not *)
(* have made it.                                                             *)
THEOREM ToolRequestsArePassed == Spec => ToolRequestsPass
<1>1. ASSUME TypeOK, HasRequest, TokensLive, [Next]_vars, NEW c \in Conns,
             Refuses(c), req[c].token \in Tokens
      PROVE  \/ req[c].port \notin AllowedPorts
             \/ now > tokens[req[c].token].born + Ttl
             \/ \A p \in tokens[req[c].token].patterns : ~RunnerMatches(req[c].host, p)
  <2> DEFINE token == tokens[req[c].token]
  <2>1. Verdict(req[c]) # "ok"
    BY <1>1 DEF Refuses, Next, Tick, DnsChanges, Issue, NewRequest, ClientLeaves,
     OriginStalls, HandlerStep,
       Validate, Resolve, OpenUpstream, Connect, ConnectFails, SendRequest, RelayEnds,
       Hangup, Proceed, Reject, Done, vars, TypeOK, Stages
  <2>2. req[c] \in Request /\ token \in Token /\ token.exp = token.born + Ttl
    BY <1>1 DEF Refuses, HasRequest, TokensLive, TypeOK
  <2>3. req[c].token # None /\ req[c].token # Forged
    BY <1>1, ProxyAssumption
  <2>4. \/ req[c].port \notin AllowedPorts
        \/ Expired(req[c].token)
        \/ \A p \in token.patterns : ~Matches(req[c].host, p)
    BY <2>1, <2>3 DEF Verdict, Granted
  <2>5. Expired(req[c].token) => now > token.born + Ttl
    BY <1>1, <2>2, ProxyAssumption DEF Expired, TypeOK, Token
  <2>6. \A p \in token.patterns : RunnerMatches(req[c].host, p) => Matches(req[c].host, p)
    BY <2>2, RunnerIsStricter DEF Request, Token
  <2> QED
    BY <2>4, <2>5, <2>6
<1>2. TypeOK /\ HasRequest /\ TokensLive /\ [Next]_vars =>
        \A c \in Conns : Refuses(c) /\ req[c].token \in Tokens =>
          \/ req[c].port \notin AllowedPorts
          \/ now > tokens[req[c].token].born + Ttl
          \/ \A p \in tokens[req[c].token].patterns : ~RunnerMatches(req[c].host, p)
  BY <1>1
<1> QED
  BY <1>2, TypeInvariant, TokenInvariant, PTL DEF Spec, ToolRequestsPass

-----------------------------------------------------------------------------
(* The way of a request through its handler.                                 *)
Distance == [validating |-> 7, resolving |-> 6, opening |-> 5, connecting |-> 4, body |-> 3,
             relay |-> 2, tunnel |-> 2, idle |-> 1, closed |-> 0]

(* A step of a handler brings its request closer to the end, or gives up one *)
(* of the addresses it has found; no step but a new request of its own       *)
(* client moves a handler the other way.                                     *)
HandlersGoOn ==
  [][\A c \in Conns :
       /\ HandlerStep(c) =>
            \/ Distance[stage'[c]] < Distance[stage[c]]
            \/ /\ stage'[c] = stage[c]
               /\ addrs'[c] \subseteq addrs[c] /\ addrs'[c] # addrs[c]
       /\ stage[c] # "idle" => Distance[stage'[c]] <= Distance[stage[c]]]_vars

(* A handler that connects has an address left to try.                       *)
AddressLeft == \A c \in Conns : stage[c] = "connecting" => addrs[c] # {}

LEMMA Distances ==
  /\ Distance["validating"] = 7 /\ Distance["resolving"] = 6 /\ Distance["opening"] = 5
  /\ Distance["connecting"] = 4 /\ Distance["body"] = 3 /\ Distance["relay"] = 2
  /\ Distance["tunnel"] = 2 /\ Distance["idle"] = 1 /\ Distance["closed"] = 0
BY DEF Distance

LEMMA HandlerCloser ==
  ASSUME TypeOK, NEW c \in Conns, HandlerStep(c)
  PROVE  /\ \/ Distance[stage'[c]] < Distance[stage[c]]
            \/ /\ stage'[c] = stage[c] /\ addrs'[c] # {}
               /\ addrs'[c] \subseteq addrs[c] /\ addrs'[c] # addrs[c]
         /\ stage'[c] = "connecting" => addrs'[c] # {}
         /\ \A d \in Conns \ {c} : stage'[d] = stage[d] /\ addrs'[d] = addrs[d]
<1> USE DEF TypeOK, Reject, Proceed
<1>1. CASE Validate(c)
  <2>1. stage[c] = "validating" /\ stage'[c] \in {"resolving", "closed"}
    BY <1>1 DEF Validate
  <2>2. \A d \in Conns \ {c} : stage'[d] = stage[d] /\ addrs'[d] = addrs[d]
    BY <1>1 DEF Validate
  <2> QED
    BY <2>1, <2>2, Distances
<1>2. CASE Resolve(c)
  <2>1. stage[c] = "resolving" /\ stage'[c] \in {"opening", "closed"}
    BY <1>2 DEF Resolve
  <2>2. \A d \in Conns \ {c} : stage'[d] = stage[d] /\ addrs'[d] = addrs[d]
    BY <1>2 DEF Resolve
  <2> QED
    BY <2>1, <2>2, Distances
<1>3. CASE OpenUpstream(c)
  <2>1. \/ stage[c] = "opening" /\ stage'[c] = "closed"
        \/ stage[c] = "opening" /\ stage'[c] = "connecting" /\ addrs'[c] # {}
    BY <1>3 DEF OpenUpstream, Usable, Resolves
  <2>2. \A d \in Conns \ {c} : stage'[d] = stage[d] /\ addrs'[d] = addrs[d]
    BY <1>3 DEF OpenUpstream
  <2> QED
    BY <2>1, <2>2, Distances
<1>4. ASSUME NEW a \in Addresses, Connect(c, a)
      PROVE  /\ Distance[stage'[c]] < Distance[stage[c]] /\ stage'[c] # "connecting"
             /\ \A d \in Conns \ {c} : stage'[d] = stage[d] /\ addrs'[d] = addrs[d]
  <2>1. stage[c] = "connecting" /\ stage'[c] \in {"tunnel", "body"}
    BY <1>4 DEF Connect
  <2>2. \A d \in Conns \ {c} : stage'[d] = stage[d] /\ addrs'[d] = addrs[d]
    BY <1>4 DEF Connect
  <2> QED
    BY <2>1, <2>2, Distances
<1>5. ASSUME NEW a \in Addresses, ConnectFails(c, a)
      PROVE  /\ \/ Distance[stage'[c]] < Distance[stage[c]] /\ stage'[c] # "connecting"
                \/ /\ stage'[c] = stage[c] /\ addrs'[c] # {}
                   /\ addrs'[c] \subseteq addrs[c] /\ addrs'[c] # addrs[c]
             /\ \A d \in Conns \ {c} : stage'[d] = stage[d] /\ addrs'[d] = addrs[d]
  <2>1. CASE addrs[c] = {a}
    <3>1. stage[c] = "connecting" /\ stage'[c] = "closed"
      BY <1>5, <2>1 DEF ConnectFails
    <3>2. \A d \in Conns \ {c} : stage'[d] = stage[d] /\ addrs'[d] = addrs[d]
      BY <1>5, <2>1 DEF ConnectFails
    <3> QED
      BY <3>1, <3>2, Distances
  <2>2. CASE addrs[c] # {a}
    <3>1. /\ stage' = stage /\ a \in addrs[c]
          /\ addrs' = [addrs EXCEPT ![c] = @ \ {a}]
      BY <1>5, <2>2 DEF ConnectFails
    <3> QED
      BY <2>2, <3>1
  <2> QED
    BY <2>1, <2>2
<1>6. CASE SendRequest(c)
  <2>1. stage[c] = "body" /\ stage'[c] \in {"relay", "closed"}
    BY <1>6 DEF SendRequest
  <2>2. \A d \in Conns \ {c} : stage'[d] = stage[d] /\ addrs'[d] = addrs[d]
    BY <1>6 DEF SendRequest
  <2> QED
    BY <2>1, <2>2, Distances
<1>7. CASE RelayEnds(c)
  <2>1. stage[c] \in {"relay", "tunnel"} /\ stage'[c] \in {"idle", "closed"}
    BY <1>7 DEF RelayEnds
  <2>2. \A d \in Conns \ {c} : stage'[d] = stage[d] /\ addrs'[d] = addrs[d]
    BY <1>7 DEF RelayEnds
  <2> QED
    BY <2>1, <2>2, Distances
<1>8. CASE Hangup(c)
  <2>1. stage[c] = "idle" /\ stage'[c] = "closed"
    BY <1>8 DEF Hangup
  <2>2. \A d \in Conns \ {c} : stage'[d] = stage[d] /\ addrs'[d] = addrs[d]
    BY <1>8 DEF Hangup
  <2> QED
    BY <2>1, <2>2, Distances
<1> QED
  BY <1>1, <1>2, <1>3, <1>4, <1>5, <1>6, <1>7, <1>8 DEF HandlerStep

LEMMA OtherStepsWait ==
  ASSUME TypeOK, [Next]_vars, NEW c \in Conns, \A d \in Conns : ~ HandlerStep(d)
  PROVE  /\ addrs' = addrs
         /\ stage'[c] = stage[c] \/ (stage[c] = "idle" /\ stage'[c] \in {"validating", "closed"})
<1>1. ASSUME NEW d \in Conns, NEW r \in Request, NewRequest(d, r)
      PROVE  /\ addrs' = addrs
             /\ \/ stage'[c] = stage[c]
                \/ stage[c] = "idle" /\ stage'[c] \in {"validating", "closed"}
  BY <1>1 DEF NewRequest, TypeOK
<1>2. CASE UNCHANGED <<stage, addrs>>
  BY <1>2
<1> QED
  BY <1>1, <1>2 DEF Next, Tick, DnsChanges, Issue, ClientLeaves, OriginStalls, Done, vars

LEMMA HandlerGoesOn ==
  ASSUME TypeOK, [Next]_vars, NEW c \in Conns
  PROVE  /\ HandlerStep(c) =>
              \/ Distance[stage'[c]] < Distance[stage[c]]
              \/ /\ stage'[c] = stage[c]
                 /\ addrs'[c] \subseteq addrs[c] /\ addrs'[c] # addrs[c]
         /\ stage[c] # "idle" => Distance[stage'[c]] <= Distance[stage[c]]
<1>0. Distance[stage[c]] \in Nat
  <2>1. stage[c] \in {"idle", "validating", "resolving", "opening", "connecting", "body",
                      "relay", "tunnel", "closed"}
    BY DEF TypeOK, Stages
  <2> QED
    BY <2>1, Distances
<1>1. ASSUME HandlerStep(c)
      PROVE  \/ Distance[stage'[c]] < Distance[stage[c]]
             \/ stage'[c] = stage[c] /\ addrs'[c] \subseteq addrs[c] /\ addrs'[c] # addrs[c]
  BY <1>1, HandlerCloser
<1>2. ASSUME HandlerStep(c) PROVE Distance[stage'[c]] \in Nat
  <2>1. stage'[c] \in {"idle", "validating", "resolving", "opening", "connecting", "body",
                       "relay", "tunnel", "closed"}
    BY <1>2 DEF HandlerStep, Validate, Resolve, OpenUpstream, Connect, ConnectFails,
       SendRequest, RelayEnds, Hangup, Reject, Proceed, TypeOK, Stages
  <2> QED
    BY <2>1, Distances
<1>3. ASSUME stage[c] # "idle" PROVE Distance[stage'[c]] <= Distance[stage[c]]
  <2>1. CASE HandlerStep(c)
    BY <1>0, <1>1, <1>2, <2>1
  <2>2. ASSUME NEW d \in Conns \ {c}, HandlerStep(d)
        PROVE  Distance[stage'[c]] <= Distance[stage[c]]
    <3>1. stage'[c] = stage[c]
      BY <2>2, HandlerCloser
    <3> QED
      BY <1>0, <3>1
  <2>3. CASE \A d \in Conns : ~ HandlerStep(d)
    <3>1. stage'[c] = stage[c]
      BY <1>3, <2>3, OtherStepsWait
    <3> QED
      BY <1>0, <3>1
  <2> QED
    BY <2>1, <2>2, <2>3
<1> QED
  BY <1>1, <1>3

LEMMA AddressLeftStep == TypeOK /\ AddressLeft /\ [Next]_vars => AddressLeft'
<1> SUFFICES ASSUME TypeOK, AddressLeft, [Next]_vars, NEW c \in Conns
             PROVE  stage'[c] = "connecting" => addrs'[c] # {}
  BY DEF AddressLeft
<1>1. CASE HandlerStep(c)
  <2>1. \/ stage'[c] # "connecting" \/ addrs'[c] # {}
    BY <1>1, HandlerCloser
  <2> QED
    BY <2>1
<1>2. ASSUME NEW d \in Conns \ {c}, HandlerStep(d)
      PROVE  stage'[c] = stage[c] /\ addrs'[c] = addrs[c]
  BY <1>2, HandlerCloser
<1>3. CASE \A d \in Conns : ~ HandlerStep(d)
  BY <1>3, OtherStepsWait DEF AddressLeft
<1> QED
  BY <1>1, <1>2, <1>3 DEF AddressLeft

(* Between two requests a handler goes forward or uses up an address, and    *)
(* one that connects has an address left: the safety half of                 *)
(* GoneClientsReleased.                                                      *)
THEOREM EveryHandlerGoesOn == Spec => HandlersGoOn /\ []AddressLeft
<1>1. Init => AddressLeft
  BY DEF Init, AddressLeft
<1>2. TypeOK /\ [Next]_vars =>
        [\A c \in Conns :
           /\ HandlerStep(c) =>
                \/ Distance[stage'[c]] < Distance[stage[c]]
                \/ /\ stage'[c] = stage[c]
                   /\ addrs'[c] \subseteq addrs[c] /\ addrs'[c] # addrs[c]
           /\ stage[c] # "idle" => Distance[stage'[c]] <= Distance[stage[c]]]_vars
  BY HandlerGoesOn
<1> QED
  BY <1>1, <1>2, AddressLeftStep, TypeCorrect, PTL DEF Spec, HandlersGoOn
=============================================================================
