--------------------------- MODULE NetworkToolProofs ---------------------------
(***************************************************************************)
(* Theorems about the network tools, each for any number of calls and any  *)
(* times: BrowserTool keeps its waits and its results, a search under the  *)
(* id of a crawl finds that crawl (CrawlDirectories), and the verdict of a *)
(* company search sums up its attempts (CorporateSearch).                  *)
(***************************************************************************)
EXTENDS BrowserTool, CrawlDirectories, CorporateSearch, TLAPS

-----------------------------------------------------------------------------
(* The stamps of directories *)

(* What TLA+ says of a quotient, and that it grows with what is divided.     *)
LEMMA Quotient ==
  ASSUME NEW x \in Nat, NEW p \in Nat \ {0}
  PROVE  x \div p \in Nat /\ p * (x \div p) <= x /\ x < p * (x \div p) + p
<1>1. x \div p \in Int /\ x \div p >= 0
  OBVIOUS
<1>2. x = p * (x \div p) + (x % p)
  OBVIOUS
<1>3. x % p \in 0 .. p - 1
  OBVIOUS
<1> QED
  BY <1>1, <1>2, <1>3

LEMMA NextMultiple ==
  ASSUME NEW q \in Nat, NEW s \in Nat, NEW p \in Nat \ {0}, s < q
  PROVE  p * s + p <= p * q
<1>1. p * (q - s - 1) \in Nat
  OBVIOUS
<1>2. p * q = p * s + p + p * (q - s - 1)
  OBVIOUS
<1> QED
  BY <1>1, <1>2

LEMMA QuotientGrows ==
  ASSUME NEW u \in Nat, NEW t \in Nat, NEW p \in Nat \ {0}, u <= t
  PROVE  u \div p \in 0 .. t \div p
<1> DEFINE q == u \div p  s == t \div p
<1>1. q \in Nat /\ p * q <= u
  BY Quotient
<1>2. s \in Nat /\ t < p * s + p
  BY Quotient
<1> HIDE DEF q, s
<1>3. p * q \in Nat /\ p * s \in Nat
  BY <1>1, <1>2
<1>4. ~ s < q
  BY <1>1, <1>2, <1>3, NextMultiple
<1>5. q \in 0 .. s
  BY <1>1, <1>2, <1>4
<1> QED
  BY <1>5 DEF q, s

LEMMA SecondInRange ==
  ASSUME now \in 0 .. TimeBound PROVE Second \in 0 .. TimeBound \div PerSecond
<1>1. now \in Nat /\ TimeBound \in Nat /\ PerSecond \in Nat \ {0} /\ now <= TimeBound
  BY ClockAssumption
<1> QED
  BY <1>1, QuotientGrows DEF Second

-----------------------------------------------------------------------------
(* BrowserTool *)

browserAll == <<callVars, browserVars>>

BrowserPhases == {"idle", "resting", "opened", "browsing", "saving", "summing", "failing", "over"}
Times  == Nat \cup {None}

BrowserTypes ==
  /\ now \in Nat /\ pc \in [Calls -> BrowserPhases]
  /\ answer \in [Calls -> {None, "ok", "error", "raised"}]
  /\ before \in [Calls -> SUBSET Calls]
  /\ delay \in [Calls -> Nat] /\ left \in [Calls -> Nat] /\ until \in [Calls -> Nat]
  /\ lastFinish \in [Keys -> Times]
  /\ limited \in [Calls -> Times] /\ ended \in [Calls -> Times]

(* The end of a call is in the past, and noted for its domains as that of    *)
(* this call or of a later one.                                              *)
Noted(c) ==
  ended[c] # None =>
    /\ ended[c] <= now
    /\ lastFinish[Domains[c]] # None /\ ended[c] <= lastFinish[Domains[c]]

(* A call comes to its end once, sees rate limits only before that, and its  *)
(* answer comes after it.                                                    *)
Phased(c) ==
  /\ pc[c] \in {"idle", "resting", "opened", "browsing"} => ended[c] = None /\ answer[c] = None
  /\ pc[c] \in {"idle", "resting", "opened"} => limited[c] = None
  /\ answer[c] # None => pc[c] = "over"

(* After a rate limit a call cannot come to a good end before the backoff.   *)
BacksOff(c) ==
  WasLimited(c) =>
    /\ pc[c] = "browsing" => until[c] >= limited[c] + Backoff
    /\ EndedWell(c) => ended[c] # None /\ ended[c] >= limited[c] + Backoff

(* A call that waits, or has just waited, rests its delay after each earlier *)
(* call with its domains.                                                    *)
Rests(c) ==
  /\ \A d \in before[c] : ended[d] # None
  /\ pc[c] \in {"resting", "opened"} =>
       \A d \in before[c] : Domains[d] = Domains[c] => until[c] >= ended[d] + delay[c]

BrowserInv ==
  BrowserTypes /\ \A c \in Calls : Noted(c) /\ Phased(c) /\ BacksOff(c) /\ Rests(c)

LEMMA BrowserInvInit == CallsInit /\ BrowserInit => BrowserInv
BY ClockAssumption, BrowserAssumption
DEF CallsInit, BrowserInit, BrowserInv, BrowserTypes, Noted, Phased, BacksOff, Rests,
    BrowserPhases, Times, WasLimited, Keys

LEMMA ClampedDelay == ASSUME NEW asked \in AskedDelays PROVE ClampDelay(asked) \in Nat
BY BrowserAssumption DEF ClampDelay, Greater, Lesser

(* What a step may change of the times: a call's own end, set once to the    *)
(* present, and with it the last finish of its domains.                      *)
LEMMA BrowserTypesStep ==
  ASSUME BrowserTypes, NEW e \in Calls, BrowserStep(e) PROVE BrowserTypes'
<1> USE BrowserAssumption DEF BrowserTypes, BrowserPhases, Times, Returns, Goes, browserVars
<1>1. CASE RefuseTask(e)
  BY <1>1 DEF RefuseTask
<1>2. ASSUME NEW asked \in AskedDelays, NEW steps \in AskedSteps, CheckDelay(e, asked, steps)
      PROVE  BrowserTypes'
  <2>1. ClampDelay(asked) \in Nat /\ 1 + Lesser(steps, StepLimit) \in Nat
    BY ClampedDelay DEF Lesser
  <2>2. Domains[e] \in Keys
    BY DEF Keys
  <2>3. RestUntil(e, ClampDelay(asked)) \in Nat
    BY <2>1, <2>2 DEF RestUntil, Greater
  <2> QED
    BY <1>2, <2>1, <2>3 DEF CheckDelay
<1>3. CASE OpenRun(e)
  BY <1>3 DEF OpenRun
<1>4. ASSUME NEW busy \in BOOLEAN, Visit(e, busy) \/ WaitStep(e, busy) PROVE BrowserTypes'
  BY <1>4 DEF Visit, WaitStep, Pause
<1>5. ASSUME NEW failed \in BOOLEAN, CloseBrowser(e, failed) PROVE BrowserTypes'
  BY <1>5 DEF CloseBrowser, FinishNoted
<1>6. CASE SaveResult(e) \/ SaveSummary(e) \/ SaveError(e)
  BY <1>6 DEF SaveResult, SaveSummary, SaveError
<1> QED
  BY <1>1, <1>2, <1>3, <1>4, <1>5, <1>6 DEF BrowserStep

LEMMA TimesStep ==
  ASSUME BrowserInv, NEW e \in Calls, BrowserStep(e)
  PROVE  /\ now' = now
         /\ \A c \in Calls : ended[c] # None => ended'[c] = ended[c]
         /\ \A c \in Calls : Noted(c)'
<1> USE BrowserAssumption, ClockAssumption
    DEF BrowserInv, BrowserTypes, Times, Returns, Goes, browserVars, Noted, Phased
<1>1. CASE \E failed \in BOOLEAN : CloseBrowser(e, failed)
  <2>1. now' = now /\ ended' = [ended EXCEPT ![e] = now]
        /\ lastFinish' = [lastFinish EXCEPT ![Domains[e]] = now] /\ ended[e] = None
    BY <1>1 DEF CloseBrowser, FinishNoted
  <2>2. \A c \in Calls : Domains[c] \in Keys
    BY DEF Keys
  <2> QED
    BY <2>1, <2>2
<1>2. CASE ~ \E failed \in BOOLEAN : CloseBrowser(e, failed)
  <2>1. UNCHANGED <<now, ended, lastFinish>>
    BY <1>2 DEF BrowserStep, RefuseTask, CheckDelay, OpenRun, Visit, WaitStep, SaveResult,
                SaveSummary, SaveError
  <2> QED
    BY <2>1
<1> QED
  BY <1>1, <1>2

(* A step of another call disturbs nothing.                                  *)
LEMMA OtherTaskStep ==
  ASSUME BrowserInv, NEW c \in Calls, NEW e \in Calls \ {c}, BrowserStep(e)
  PROVE  Phased(c)' /\ BacksOff(c)' /\ Rests(c)'
<1>1. /\ pc'[c] = pc[c] /\ answer'[c] = answer[c] /\ before'[c] = before[c]
      /\ delay'[c] = delay[c] /\ until'[c] = until[c] /\ limited'[c] = limited[c]
      /\ ended'[c] = ended[c]
  BY DEF BrowserInv, BrowserTypes, Returns, Goes, browserVars, BrowserStep, RefuseTask,
     CheckDelay, OpenRun, Visit, WaitStep, CloseBrowser, SaveResult, SaveSummary, SaveError
<1>2. \A d \in before[c] : d \in Calls /\ ended'[d] = ended[d] /\ ended[d] # None
  BY TimesStep DEF BrowserInv, BrowserTypes, Rests
<1> QED
  BY <1>1, <1>2 DEF BrowserInv, Phased, BacksOff, Rests, WasLimited, EndedWell

(* CheckDelay waits for every call with the same domains that was over.      *)
LEMMA RestIsEnough ==
  ASSUME BrowserInv, NEW c \in Calls, NEW asked \in AskedDelays, NEW steps \in AskedSteps,
         CheckDelay(c, asked, steps)
  PROVE  Rests(c)'
<1> DEFINE wait == ClampDelay(asked)
<1>1. /\ wait \in Nat /\ now \in Nat /\ Domains[c] \in Keys
      /\ \A d \in Calls : ended[d] \in Times /\ lastFinish[Domains[d]] \in Times
  BY ClampedDelay DEF BrowserInv, BrowserTypes, Keys
<1>2. /\ ended' = ended /\ before'[c] = {d \in Calls : ended[d] # None}
      /\ delay'[c] = wait /\ until'[c] = RestUntil(c, wait)
  BY DEF CheckDelay, BrowserInv, BrowserTypes
<1>3. ASSUME NEW d \in Calls, ended[d] # None, Domains[d] = Domains[c]
      PROVE  RestUntil(c, wait) >= ended[d] + wait
  <2>1. /\ ended[d] \in Nat /\ ended[d] <= now /\ lastFinish[Domains[c]] \in Nat
        /\ ended[d] <= lastFinish[Domains[c]] /\ lastFinish[Domains[c]] # None
    BY <1>1, <1>3 DEF BrowserInv, Noted, Times
  <2> QED
    BY <1>1, <2>1 DEF RestUntil, Greater
<1> QED
  BY <1>2, <1>3 DEF Rests

LEMMA OwnTaskStep ==
  ASSUME BrowserInv, NEW c \in Calls, BrowserStep(c)
  PROVE  Phased(c)' /\ BacksOff(c)' /\ Rests(c)'
<1>1. BrowserTypes /\ Noted(c) /\ Phased(c) /\ BacksOff(c) /\ Rests(c)
  BY DEF BrowserInv
<1>2. \A d \in before[c] : d \in Calls /\ ended'[d] = ended[d] /\ ended[d] # None
  BY <1>1, TimesStep DEF BrowserTypes, Rests
<1> USE BrowserAssumption, ClockAssumption
    DEF BrowserTypes, BrowserPhases, Times, Returns, Goes, browserVars, WasLimited, EndedWell
<1>3. CASE RefuseTask(c)
  BY <1>1, <1>2, <1>3 DEF RefuseTask, Phased, BacksOff, Rests
<1>4. ASSUME NEW asked \in AskedDelays, NEW steps \in AskedSteps, CheckDelay(c, asked, steps)
      PROVE  Phased(c)' /\ BacksOff(c)' /\ Rests(c)'
  <2>1. Phased(c)' /\ BacksOff(c)'
    BY <1>1, <1>4 DEF CheckDelay, Phased, BacksOff
  <2> QED
    BY <1>4, <2>1, RestIsEnough
<1>5. CASE OpenRun(c)
  BY <1>1, <1>2, <1>5 DEF OpenRun, Phased, BacksOff, Rests
<1>6. ASSUME NEW busy \in BOOLEAN, Visit(c, busy) \/ WaitStep(c, busy)
      PROVE  Phased(c)' /\ BacksOff(c)' /\ Rests(c)'
  <2>1. /\ pc'[c] = "browsing" /\ ended' = ended /\ answer' = answer /\ before' = before
        /\ pc[c] \in {"opened", "browsing"}
    BY <1>1, <1>6 DEF Visit, WaitStep
  <2>2. Phased(c)' /\ Rests(c)'
    BY <1>1, <1>2, <2>1 DEF Phased, Rests
  <2>3. /\ until[c] <= now /\ until'[c] >= now + IF busy THEN Backoff ELSE 0
        /\ limited'[c] = IF busy THEN now ELSE limited[c]
    BY <1>1, <1>6 DEF Visit, WaitStep, Pause
  <2>4. limited[c] # None => until[c] >= limited[c] + Backoff
    BY <1>1, <2>1 DEF Phased, BacksOff
  <2>5. limited'[c] # None => until'[c] >= limited'[c] + Backoff
    <3>1. until[c] \in Nat /\ until'[c] \in Nat /\ now \in Nat /\ limited[c] \in Times
      BY <1>1, <1>6 DEF Visit, WaitStep, Pause
    <3> QED
      BY <2>3, <2>4, <3>1
  <2>6. BacksOff(c)'
    BY <1>1, <2>1, <2>5 DEF BacksOff, Phased
  <2> QED
    BY <2>2, <2>6
<1>7. ASSUME NEW failed \in BOOLEAN, CloseBrowser(c, failed)
      PROVE  Phased(c)' /\ BacksOff(c)' /\ Rests(c)'
  <2>1. /\ pc[c] \in {"opened", "browsing"} /\ pc'[c] \in {"failing", "saving"}
        /\ pc'[c] = "saving" => pc[c] = "browsing" /\ until[c] <= now
        /\ ended'[c] = now /\ UNCHANGED <<answer, before, limited, until, delay>>
    BY <1>1, <1>7 DEF CloseBrowser
  <2>2. Phased(c)' /\ Rests(c)'
    BY <1>1, <1>2, <2>1 DEF Phased, Rests
  <2>3. BacksOff(c)'
    BY <1>1, <2>1 DEF BacksOff, Phased
  <2> QED
    BY <2>2, <2>3
<1>8. CASE SaveResult(c) \/ SaveSummary(c) \/ SaveError(c)
  <2>1. /\ UNCHANGED <<before, limited, until, delay, ended>>
        /\ pc'[c] \in {"summing", "failing", "over"} /\ pc[c] \in {"saving", "summing", "failing"}
        /\ pc'[c] = "summing" \/ answer'[c] = "ok" => EndedWell(c)
        /\ answer'[c] # None => pc'[c] = "over"
    BY <1>1, <1>8 DEF SaveResult, SaveSummary, SaveError, Phased
  <2> QED
    BY <1>1, <2>1 DEF Phased, BacksOff, Rests
<1> QED
  BY <1>3, <1>4, <1>5, <1>6, <1>7, <1>8 DEF BrowserStep

LEMMA BrowserInvStep == ASSUME BrowserInv, [BrowserNext]_browserAll PROVE BrowserInv'
<1>1. CASE UNCHANGED browserAll
  BY <1>1 DEF browserAll, callVars, browserVars, BrowserInv, BrowserTypes, Noted, Phased,
     BacksOff, Rests, WasLimited, EndedWell
<1>2. CASE Tick /\ UNCHANGED browserVars
  BY <1>2 DEF Tick, browserVars, BrowserInv, BrowserTypes, Noted, Phased, BacksOff, Rests,
              WasLimited, EndedWell, Times
<1>3. ASSUME NEW e \in Calls, BrowserStep(e) PROVE BrowserInv'
  <2>1. BrowserTypes' /\ \A c \in Calls : Noted(c)'
    BY <1>3, BrowserTypesStep, TimesStep DEF BrowserInv
  <2>2. \A c \in Calls : Phased(c)' /\ BacksOff(c)' /\ Rests(c)'
    BY <1>3, OwnTaskStep, OtherTaskStep
  <2> QED
    BY <2>1, <2>2 DEF BrowserInv
<1> QED
  BY <1>1, <1>2, <1>3 DEF BrowserNext

LEMMA StepIsSpaced == ASSUME BrowserInv, [BrowserNext]_browserAll
  PROVE [SpacesRequests]_browserAll
<1> SUFFICES ASSUME BrowserNext, NEW c \in Calls, Starts(c), NEW d \in before[c],
                    Domains[d] = Domains[c]
             PROVE  /\ now >= ended[d] + delay[c]
                    /\ EndedWell(d) /\ WasLimited(d) => now >= limited[d] + Backoff + delay[c]
  BY DEF SpacesRequests
<1>1. until[c] <= now
  BY DEF BrowserNext, BrowserStep, RefuseTask, CheckDelay, OpenRun, Visit, WaitStep, CloseBrowser,
         SaveResult, SaveSummary, SaveError, Returns, Goes, Tick, Starts, BrowserInv, BrowserTypes
<1>2. d \in Calls /\ ended[d] # None /\ until[c] >= ended[d] + delay[c]
  BY DEF BrowserInv, BrowserTypes, Rests, Starts
<1>3. /\ now \in Nat /\ until[c] \in Nat /\ delay[c] \in Nat /\ ended[d] \in Nat
      /\ WasLimited(d) => limited[d] \in Nat
  BY <1>2 DEF BrowserInv, BrowserTypes, Times, WasLimited
<1>4. EndedWell(d) /\ WasLimited(d) => ended[d] >= limited[d] + Backoff
  BY <1>2 DEF BrowserInv, BacksOff
<1> QED
  BY <1>1, <1>2, <1>3, <1>4, BrowserAssumption

(* For any number of calls, domains, delays and steps, however calls end and *)
(* in whatever order they look and finish, a call makes its first request    *)
(* only when its domains have rested since every call that was over.         *)
THEOREM WaitsAreKept == BrowserSpec => RequestsSpaced
<1>1. BrowserInv /\ [BrowserNext]_browserAll => BrowserInv' /\ [SpacesRequests]_browserAll
  BY BrowserInvStep, StepIsSpaced
<1> QED
  BY <1>1, BrowserInvInit, PTL DEF BrowserSpec, RequestsSpaced, browserAll

(* Where a call leaves its files: a call has a directory once it has opened  *)
(* one, named for a second that was over by its end.                         *)
HasRun(c) == runId[c] # None
Stamp(c)  == runId[c][1]

RunTypes ==
  /\ now \in 0 .. TimeBound
  /\ runId \in [Calls -> RunIds \cup {None}]
  /\ saved \in [RunIds -> [result : Calls \cup {NoCall}, summary : Calls \cup {NoCall},
                           error : Calls \cup {NoCall}]]

StampedInTime(c) ==
  /\ pc[c] \in {"idle", "resting"} => ~ HasRun(c)
  /\ HasRun(c) => /\ runId[c] = <<Stamp(c), Task[c], Domains[c]>> /\ Stamp(c) \in Nat
                  /\ PerSecond * Stamp(c) <= now
                  /\ ended[c] # None => PerSecond * Stamp(c) <= ended[c]

(* A call that rested a second after another one has a later directory.      *)
Spaced(c, d) == c \in before[d] /\ delay[d] >= PerSecond
StampedApart(c, d) ==
  HasRun(c) /\ HasRun(d) /\ Domains[c] = Domains[d] /\ Spaced(c, d) => Stamp(c) < Stamp(d)

(* The files of a call that has its directory to itself are its own.         *)
NoSharer(c) == \A d \in Calls \ {c} : runId[d] # runId[c]
Filed(c) ==
  HasRun(c) /\ NoSharer(c) =>
    /\ pc[c] = "summing" \/ answer[c] = "ok" => saved[runId[c]].result = c
    /\ answer[c] = "ok" => saved[runId[c]].summary = c

RunInv ==
  /\ BrowserInv /\ RunTypes
  /\ \A c \in Calls : StampedInTime(c) /\ Filed(c) /\ \A d \in Calls \ {c} : StampedApart(c, d)

LEMMA RunInvInit == CallsInit /\ BrowserInit => RunInv
BY BrowserInvInit, ClockAssumption
DEF CallsInit, BrowserInit, RunInv, RunTypes, StampedInTime, Filed, StampedApart, HasRun, NoFiles

(* Only OpenRun gives a directory, and only to the call itself.              *)
LEMMA RunIdStep ==
  ASSUME RunTypes, BrowserTypes, NEW e \in Calls, BrowserStep(e)
  PROVE  /\ now' = now
         /\ OpenRun(e) \/ runId' = runId
         /\ \A c \in Calls \ {e} : /\ runId'[c] = runId[c] /\ before'[c] = before[c]
                                   /\ delay'[c] = delay[c] /\ pc'[c] = pc[c]
                                   /\ ended'[c] = ended[c] /\ answer'[c] = answer[c]
BY DEF BrowserTypes, RunTypes, Returns, Goes, browserVars, BrowserStep, RefuseTask, CheckDelay,
       OpenRun, Visit, WaitStep, CloseBrowser, SaveResult, SaveSummary, SaveError

LEMMA RunTypesStep ==
  ASSUME RunTypes, BrowserTypes, NEW e \in Calls, BrowserStep(e) PROVE RunTypes'
<1>1. now' \in 0 .. TimeBound
  BY RunIdStep DEF RunTypes
<1>2. CASE OpenRun(e)
  <2>1. RunId(e) \in RunIds
    BY SecondInRange DEF RunTypes, RunId, RunIds, Keys
  <2> QED
    BY <1>1, <1>2, <2>1 DEF OpenRun, RunTypes
<1>3. CASE runId' = runId
  <2>1. \/ saved' = saved
        \/ saved' = [saved EXCEPT ![runId[e]].result = e]
        \/ saved' = [saved EXCEPT ![runId[e]].summary = e]
        \/ saved' = [saved EXCEPT ![runId[e]].error = e]
    BY DEF BrowserStep, RefuseTask, CheckDelay, OpenRun, Visit, WaitStep, CloseBrowser,
           SaveResult, SaveSummary, SaveError, browserVars
  <2> QED
    BY <1>1, <1>3, <2>1 DEF RunTypes
<1> QED
  BY <1>2, <1>3, RunIdStep

(* The directory of a call that opens one now is of this second.             *)
LEMMA OpensNow ==
  ASSUME RunTypes, NEW e \in Calls, OpenRun(e)
  PROVE  /\ runId'[e] = <<Second, Task[e], Domains[e]>> /\ Second \in Nat
         /\ PerSecond * Second <= now /\ now < PerSecond * Second + PerSecond
<1>1. now \in Nat /\ PerSecond \in Nat \ {0}
  BY ClockAssumption DEF RunTypes
<1>2. Second \in Nat /\ PerSecond * Second <= now /\ now < PerSecond * Second + PerSecond
  BY <1>1, Quotient DEF Second
<1> QED
  BY <1>2 DEF OpenRun, RunId, RunTypes

LEMMA StampedInTimeStep ==
  ASSUME RunInv, NEW e \in Calls, BrowserStep(e), NEW c \in Calls PROVE StampedInTime(c)'
<1>1. RunTypes /\ BrowserTypes /\ StampedInTime(c) /\ Phased(c) /\ now' = now
  BY RunIdStep DEF RunInv, BrowserInv
<1>2. CASE c # e
  <2>1. runId'[c] = runId[c] /\ pc'[c] = pc[c] /\ ended'[c] = ended[c]
    BY <1>1, <1>2, RunIdStep
  <2> QED
    BY <1>1, <2>1 DEF StampedInTime, HasRun, Stamp
<1>3. CASE c = e /\ OpenRun(e)
  <2>1. /\ ended'[c] = None /\ pc'[c] \notin {"idle", "resting"}
    BY <1>1, <1>3 DEF OpenRun, Goes, Phased, BrowserTypes
  <2>2. runId'[c][1] = Second
    BY <1>1, <1>3, OpensNow
  <2> QED
    BY <1>1, <1>3, <2>1, <2>2, OpensNow DEF StampedInTime, HasRun, Stamp
<1>4. CASE c = e /\ ~ OpenRun(e)
  <2>1. runId' = runId
    BY <1>1, <1>4, RunIdStep
  <2>2. /\ ended'[c] = ended[c] \/ ended'[c] = now
        /\ pc'[c] \in {"idle", "resting"} => pc[c] \in {"idle", "resting"}
    BY <1>1, <1>4 DEF BrowserTypes, Returns, Goes, browserVars, BrowserStep, RefuseTask,
      CheckDelay, Visit, WaitStep, CloseBrowser, SaveResult, SaveSummary, SaveError
  <2> QED
    BY <1>1, <2>1, <2>2 DEF StampedInTime, HasRun, Stamp
<1> QED
  BY <1>2, <1>3, <1>4

LEMMA StampedApartStep ==
  ASSUME RunInv, NEW e \in Calls, BrowserStep(e), NEW c \in Calls, NEW d \in Calls \ {c}
  PROVE  StampedApart(c, d)'
<1>1. /\ RunTypes /\ BrowserTypes /\ StampedInTime(c) /\ StampedInTime(d) /\ StampedApart(c, d)
      /\ Phased(c) /\ Rests(d) /\ Rests(c)
  BY DEF RunInv, BrowserInv
<1> SUFFICES ASSUME HasRun(c)', HasRun(d)', Domains[c] = Domains[d], Spaced(c, d)'
             PROVE  Stamp(c)' < Stamp(d)'
  BY DEF StampedApart
<1>2. CASE runId' = runId
  <2>1. before'[d] = before[d] /\ delay'[d] = delay[d]
    <3>1. CASE d # e
      BY <3>1, <1>1, RunIdStep
    <3>2. CASE d = e
      <4>1. pc[d] \notin {"idle", "resting"}
        BY <1>1, <1>2 DEF StampedInTime, HasRun
      <4> QED
        BY <3>2, <4>1 DEF BrowserStep, RefuseTask, CheckDelay, OpenRun, Visit, WaitStep,
          CloseBrowser, SaveResult, SaveSummary, SaveError, Returns, Goes, browserVars
    <3> QED
      BY <3>1, <3>2
  <2> QED
    BY <1>1, <1>2, <2>1 DEF StampedApart, HasRun, Stamp, Spaced
<1>3. CASE OpenRun(e) /\ e = d
  <2>1. /\ runId'[c] = runId[c] /\ before' = before /\ delay' = delay /\ until[d] <= now
        /\ pc[d] = "resting"
    BY <1>1, <1>3, RunIdStep DEF OpenRun, Goes
  <2>2. ended[c] # None /\ until[d] >= ended[c] + delay[d] /\ delay[d] >= PerSecond
    BY <1>1, <2>1 DEF Rests, Spaced
  <2>3. Stamp(c) \in Nat /\ PerSecond * Stamp(c) <= ended[c] /\ Stamp(c)' = Stamp(c)
    BY <1>1, <2>1, <2>2 DEF StampedInTime, HasRun, Stamp
  <2>4. /\ runId'[d][1] = Second /\ Second \in Nat /\ now < PerSecond * Second + PerSecond
    BY <1>1, <1>3, OpensNow
  <2>5. /\ now \in Nat /\ until[d] \in Nat /\ ended[c] \in Nat /\ delay[d] \in Nat
        /\ PerSecond \in Nat \ {0}
    BY <1>1, <2>2, ClockAssumption DEF BrowserTypes, Times
  <2> DEFINE s == Stamp(c)  q == Second  ps == PerSecond * s  pq == PerSecond * q
  <2>6. ps \in Nat /\ pq \in Nat /\ s \in Nat /\ q \in Nat
    BY <2>3, <2>4, <2>5
  <2>7. ps + PerSecond <= now /\ now < pq + PerSecond
    <3> HIDE DEF ps, pq
    <3>1. ps <= ended[c]
      BY <2>3 DEF ps
    <3>2. now < pq + PerSecond
      BY <2>4 DEF pq
    <3> QED
      BY <2>1, <2>2, <2>5, <2>6, <3>1, <3>2
  <2>8. ~ q <= s
    <3>1. SUFFICES ASSUME q <= s PROVE FALSE
      OBVIOUS
    <3>2. pq <= ps
      <4>1. CASE q = s
        BY <4>1, <2>6
      <4>2. CASE q < s
        <5>1. pq + PerSecond <= ps
          BY <4>2, <2>5, <2>6, NextMultiple
        <5> HIDE DEF pq, ps
        <5> QED
          BY <5>1, <2>5, <2>6
      <4> QED
        BY <3>1, <4>1, <4>2, <2>6
    <3> HIDE DEF pq, ps
    <3> QED
      BY <2>5, <2>6, <2>7, <3>2
  <2>9. Stamp(d)' = q
    BY <2>4 DEF Stamp
  <2> HIDE DEF s, q, ps, pq
  <2>10. s < q
    BY <2>6, <2>8
  <2> QED
    BY <2>3, <2>9, <2>10 DEF s
<1>4. CASE OpenRun(e) /\ e = c
  <2>1. before' = before /\ pc[c] = "resting"
    BY <1>4 DEF OpenRun, Goes
  <2>2. ended[c] = None
    BY <1>1, <2>1 DEF Phased
  <2> QED
    BY <1>1, <2>1, <2>2 DEF Rests, Spaced
<1>5. CASE OpenRun(e) /\ e \notin {c, d}
  <2>1. runId'[c] = runId[c] /\ runId'[d] = runId[d] /\ before' = before /\ delay' = delay
    BY <1>1, <1>5, RunIdStep DEF OpenRun
  <2> QED
    BY <1>1, <2>1 DEF StampedApart, HasRun, Stamp, Spaced
<1>6. OpenRun(e) \/ runId' = runId
  BY <1>1, RunIdStep
<1> QED
  BY <1>2, <1>3, <1>4, <1>5, <1>6

LEMMA FiledStep ==
  ASSUME RunInv, NEW e \in Calls, BrowserStep(e), NEW c \in Calls PROVE Filed(c)'
<1>1. RunTypes /\ BrowserTypes /\ StampedInTime(c) /\ StampedInTime(e) /\ Filed(c) /\ Phased(c)
  BY DEF RunInv, BrowserInv
<1> SUFFICES ASSUME HasRun(c)', NoSharer(c)'
             PROVE  /\ pc'[c] = "summing" \/ answer'[c] = "ok" => saved'[runId'[c]].result = c
                    /\ answer'[c] = "ok" => saved'[runId'[c]].summary = c
  BY DEF Filed
<1>2. CASE OpenRun(e)
  <2>1. saved' = saved /\ answer' = answer /\ pc[e] = "resting" /\ ~ HasRun(e)
    BY <1>1, <1>2 DEF OpenRun, Goes, StampedInTime
  <2>2. CASE c = e
    <3>1. pc'[c] # "summing" /\ answer[c] = None
      BY <1>1, <1>2, <2>1, <2>2 DEF OpenRun, Goes, BrowserTypes, Phased
    <3> QED
      BY <2>1, <3>1, ClockAssumption
  <2>3. CASE c # e
    <3>1. runId'[c] = runId[c] /\ pc'[c] = pc[c]
          /\ \A d \in Calls \ {c, e} : runId'[d] = runId[d]
      BY <1>1, <1>2, <2>3, RunIdStep
    <3>2. HasRun(c) /\ NoSharer(c)
      BY <2>1, <3>1 DEF HasRun, NoSharer
    <3> QED
      BY <1>1, <2>1, <3>1, <3>2 DEF Filed
  <2> QED
    BY <2>2, <2>3
<1>3. CASE runId' = runId /\ c # e
  <2>1. pc'[c] = pc[c] /\ answer'[c] = answer[c] /\ HasRun(c) /\ NoSharer(c)
    BY <1>1, <1>3, RunIdStep DEF HasRun, NoSharer
  <2>2. runId[c] \in RunIds /\ runId[e] # runId[c]
    BY <1>1, <1>3, <2>1 DEF RunTypes, HasRun, NoSharer
  <2>3. saved'[runId[c]] = saved[runId[c]]
    BY <1>1, <2>2 DEF BrowserStep, RefuseTask, CheckDelay, OpenRun, Visit, WaitStep, CloseBrowser,
      SaveResult, SaveSummary, SaveError, browserVars, RunTypes
  <2> QED
    BY <1>1, <1>3, <2>1, <2>3 DEF Filed
<1>4. CASE runId' = runId /\ c = e
  <2>1. runId[c] \in RunIds /\ HasRun(c) /\ NoSharer(c)
    BY <1>1, <1>4 DEF RunTypes, HasRun, NoSharer
  <2>2. answer'[c] # "ok" \/ SaveSummary(c)
    BY <1>1, <1>4, ClockAssumption DEF BrowserStep, RefuseTask, CheckDelay, OpenRun, Visit,
      WaitStep, CloseBrowser, SaveResult, SaveSummary, SaveError, Returns, Goes, browserVars,
      Phased, BrowserTypes
  <2>3. pc'[c] # "summing" \/ SaveResult(c)
    BY <1>1, <1>4 DEF BrowserStep, RefuseTask, CheckDelay, OpenRun, Visit, WaitStep,
      CloseBrowser, SaveResult, SaveSummary, SaveError, Returns, Goes, browserVars,
      BrowserTypes
  <2>4. CASE SaveResult(c)
    <3>1. answer' = answer /\ pc[c] = "saving"
      BY <2>4 DEF SaveResult, Goes
    <3>2. answer'[c] # "ok"
      BY <1>1, <3>1, ClockAssumption DEF Phased
    <3>3. pc'[c] = "summing" => saved'[runId[c]].result = c
      BY <1>1, <2>1, <2>4 DEF SaveResult, Goes, RunTypes, BrowserTypes
    <3> QED
      BY <1>4, <3>2, <3>3
  <2>5. CASE SaveSummary(c)
    <3>1. /\ pc[c] = "summing" /\ pc'[c] # "summing"
          /\ \/ saved' = [saved EXCEPT ![runId[c]].summary = c]
             \/ saved' = saved /\ answer' = answer
      BY <1>1, <2>5 DEF SaveSummary, Returns, Goes, BrowserTypes
    <3>2. saved[runId[c]].result = c
      BY <1>1, <2>1, <3>1 DEF Filed
    <3>3. answer[c] # "ok"
      BY <1>1, <3>1, ClockAssumption DEF Phased
    <3> QED
      BY <1>1, <1>4, <2>1, <3>1, <3>2, <3>3 DEF RunTypes
  <2> QED
    BY <1>4, <2>2, <2>3, <2>4, <2>5
<1>5. OpenRun(e) \/ runId' = runId
  BY <1>1, RunIdStep
<1> QED
  BY <1>2, <1>3, <1>4, <1>5

LEMMA RunInvStep == ASSUME RunInv, [BrowserNext]_browserAll PROVE RunInv'
<1>1. BrowserInv'
  BY BrowserInvStep DEF RunInv
<1>2. CASE UNCHANGED browserAll
  BY <1>1, <1>2 DEF browserAll, callVars, browserVars, RunInv, RunTypes, StampedInTime, Filed,
    StampedApart, HasRun, Stamp, NoSharer, Spaced
<1>3. CASE Tick /\ UNCHANGED browserVars
  <2>1. /\ UNCHANGED <<pc, answer, before, delay, runId, saved, ended>>
        /\ now \in 0 .. TimeBound /\ now' = now + 1 /\ now' \in 0 .. TimeBound
    BY <1>3, ClockAssumption DEF Tick, browserVars, RunInv, RunTypes
  <2>2. RunTypes'
    BY <2>1 DEF RunInv, RunTypes
  <2>3. \A c \in Calls : StampedInTime(c)'
    <3> TAKE c \in Calls
    <3>1. StampedInTime(c)
      BY DEF RunInv
    <3>2. CASE ~ HasRun(c)
      BY <2>1, <3>1, <3>2 DEF StampedInTime, HasRun
    <3>3. CASE HasRun(c)
      <4>1. PerSecond * Stamp(c) <= now /\ Stamp(c) \in Nat
        BY <3>1, <3>3 DEF StampedInTime
      <4>2. PerSecond * Stamp(c) \in Nat
        BY <4>1, ClockAssumption
      <4>3. PerSecond * Stamp(c) <= now'
        BY <2>1, <4>1, <4>2
      <4> QED
        BY <2>1, <3>1, <3>3, <4>3 DEF StampedInTime, HasRun, Stamp
    <3> QED
      BY <3>2, <3>3
  <2>4. \A c \in Calls : Filed(c)' /\ \A d \in Calls \ {c} : StampedApart(c, d)'
    BY <2>1 DEF RunInv, Filed, StampedApart, HasRun, Stamp, NoSharer, Spaced
  <2> QED
    BY <1>1, <2>2, <2>3, <2>4 DEF RunInv
<1>4. ASSUME NEW e \in Calls, BrowserStep(e) PROVE RunInv'
  BY <1>1, <1>4, RunTypesStep, StampedInTimeStep, StampedApartStep, FiledStep
  DEF RunInv, BrowserInv
<1> QED
  BY <1>2, <1>3, <1>4 DEF BrowserNext

LEMMA KeptByRunInv == RunInv => ResultsKept
<1>1. RunInv => \A d \in Calls : delay[d] \in Nat /\ PerSecond \in Nat
  BY ClockAssumption DEF RunInv, BrowserInv, BrowserTypes
<1> SUFFICES ASSUME RunInv, NEW c \in Calls, answer[c] = "ok", runId[c] # None,
                    \A d \in Calls \ {c} : runId[d] = runId[c] => Spaced(c, d)
             PROVE  saved[runId[c]].result = c /\ saved[runId[c]].summary = c
  BY <1>1 DEF ResultsKept, Spaced
<1>2. ASSUME NEW d \in Calls \ {c}, runId[d] = runId[c] PROVE FALSE
  <2>1. /\ HasRun(c) /\ HasRun(d) /\ StampedInTime(c) /\ StampedInTime(d)
        /\ StampedApart(c, d)
    BY <1>2 DEF RunInv, HasRun
  <2>2. <<Stamp(c), Task[c], Domains[c]>> = <<Stamp(d), Task[d], Domains[d]>> /\ Stamp(c) \in Nat
    BY <1>2, <2>1 DEF StampedInTime
  <2> QED
    BY <1>2, <2>1, <2>2 DEF StampedApart
<1> QED
  BY <1>2 DEF RunInv, Filed, HasRun, NoSharer

(* For any number of calls, tasks, delays and times, a call that answered ok *)
(* has its result and its summary where it said, unless a call with the same *)
(* task and domains did not rest for a second after it.                      *)
THEOREM ResultsAreKept == BrowserSpec => []ResultsKept
<1>1. RunInv /\ [BrowserNext]_browserAll => RunInv'
  BY RunInvStep
<1> QED
  BY <1>1, RunInvInit, KeptByRunInv, PTL DEF BrowserSpec, browserAll

-----------------------------------------------------------------------------
(* CrawlDirectories *)

crawlAll == <<callVars, crawlVars>>

CrawlPhases   == {"idle", "crawling", "indexed", "listed", "described", "over"}
Listings == [by : Calls, n : 0 .. MaxPages]

CrawlTypes ==
  /\ now \in 0 .. TimeBound /\ pc \in [Calls -> CrawlPhases]
  /\ answer \in [Calls -> {None, "ok", "error"}] /\ before \in [Calls -> SUBSET Calls]
  /\ crawlId \in [Calls -> Ids \cup {None}] /\ fetched \in [Calls -> 0 .. MaxPages]
  /\ pages \in [Ids -> [1 .. MaxPages -> Calls \cup {NoCall}]]
  /\ listing \in [Ids -> Listings \cup {None}]
  /\ manifest \in [Ids -> Calls \cup {NoCall}] /\ linkDir \in BOOLEAN

(* Calls begin without a directory, answer once, and what a call found over  *)
(* stays over.                                                               *)
Ordered(c) ==
  /\ pc[c] = "idle" => crawlId[c] = None /\ fetched[c] = 0
  /\ answer[c] # None => pc[c] = "over"
  /\ \A d \in before[c] : pc[d] = "over"

(* A crawl that the others of its directory were over before finds its own   *)
(* files, as far as it has come.                                             *)
Stored(c) ==
  /\ \A k \in 1 .. fetched[c] : pages[crawlId[c]][k] = c
  /\ pc[c] \in {"listed", "described"} \/ answer[c] = "ok" =>
       listing[crawlId[c]] = [by |-> c, n |-> fetched[c]]
  /\ pc[c] = "described" \/ answer[c] = "ok" => manifest[crawlId[c]] = c

CrawlInv ==
  CrawlTypes /\ \A c \in Calls : Ordered(c) /\ (StartedLast(c) => Stored(c))

LEMMA NewId == ASSUME CrawlTypes, NEW c \in Calls PROVE CrawlId(c) \in Ids
BY SecondInRange DEF CrawlTypes, CrawlId, Ids

LEMMA CrawlInvInit == CallsInit /\ CrawlInit => CrawlInv
<1> SUFFICES ASSUME CallsInit, CrawlInit PROVE CrawlInv
  OBVIOUS
<1>1. now \in 0 .. TimeBound
  BY ClockAssumption DEF CallsInit
<1>2. linkDir \in BOOLEAN
  BY DEF CrawlInit
<1>3. pages \in [Ids -> [1 .. MaxPages -> Calls \cup {NoCall}]]
  BY DEF CrawlInit
<1>4. CrawlTypes
  BY <1>1, <1>2, <1>3, DirectoryAssumption DEF CallsInit, CrawlInit, CrawlTypes, CrawlPhases
<1> QED
  BY <1>4 DEF CallsInit, CrawlInit, CrawlInv, Ordered, StartedLast

LEMMA CrawlTypesStep ==
  ASSUME CrawlTypes, NEW d \in Calls, CrawlStep(d) PROVE CrawlTypes'
<1> USE DirectoryAssumption DEF CrawlTypes, CrawlPhases, Returns, Goes, contents, crawlVars,
     Written
<1>1. CASE RefuseUrl(d)
  BY <1>1 DEF RefuseUrl
<1>2. CASE StartCrawl(d)
  BY <1>2, NewId DEF StartCrawl, Answered
<1>3. CASE SavePage(d)
  <2>1. fetched' \in [Calls -> 0 .. MaxPages] /\ fetched[d] + 1 \in 1 .. MaxPages
    BY <1>3 DEF SavePage
  <2> DEFINE i == crawlId[d]  files == [pages[i] EXCEPT ![fetched[d] + 1] = d]
  <2>2. pages' = [pages EXCEPT ![i] = files]
    BY <1>3 DEF SavePage, PageWritten
  <2>3. i \in Ids => files \in [1 .. MaxPages -> Calls \cup {NoCall}]
    BY <2>1
  <2>4. pages' \in [Ids -> [1 .. MaxPages -> Calls \cup {NoCall}]]
    BY <2>2, <2>3
  <2> QED
    BY <1>3, <2>1, <2>4 DEF SavePage
<1>4. CASE SaveIndex(d)
  BY <1>4 DEF SaveIndex
<1>5. CASE SaveListing(d)
  <2>1. [by |-> d, n |-> fetched[d]] \in Listings
    BY DEF Listings
  <2> QED
    BY <1>5, <2>1 DEF SaveListing
<1>6. CASE SaveManifest(d)
  BY <1>6 DEF SaveManifest
<1>7. CASE SaveCrawlSummary(d)
  BY <1>7 DEF SaveCrawlSummary
<1>8. CASE CrawlFails(d)
  BY <1>8 DEF CrawlFails
<1>9. CASE ExtractLinks(d)
  <2>1. linkDir' \in BOOLEAN
    BY <1>9 DEF ExtractLinks
  <2>2. /\ pc' = [pc EXCEPT ![d] = "over"]
        /\ \E result \in {"ok", "error"} : answer' = [answer EXCEPT ![d] = result]
        /\ UNCHANGED <<now, before, crawlId, fetched, pages, index, listing, manifest, summary>>
    BY <1>9 DEF ExtractLinks
  <2> QED
    BY <2>1, <2>2
<1> QED
  BY <1>1, <1>2, <1>3, <1>4, <1>5, <1>6, <1>7, <1>8, <1>9 DEF CrawlStep

LEMMA OrderedStep ==
  ASSUME CrawlTypes, \A c \in Calls : Ordered(c), NEW d \in Calls, CrawlStep(d), NEW c \in Calls
  PROVE  Ordered(c)'
<1> USE ClockAssumption DEF CrawlTypes, CrawlPhases, Returns, Goes, contents, crawlVars, Ordered
<1>1. CASE RefuseUrl(d) \/ CrawlFails(d) \/ ExtractLinks(d) \/ SaveCrawlSummary(d)
  BY <1>1 DEF RefuseUrl, CrawlFails, ExtractLinks, SaveCrawlSummary
<1>2. CASE StartCrawl(d)
  BY <1>2 DEF StartCrawl, Answered
<1>3. CASE SavePage(d)
  BY <1>3 DEF SavePage
<1>4. CASE SaveIndex(d) \/ SaveListing(d) \/ SaveManifest(d)
  BY <1>4 DEF SaveIndex, SaveListing, SaveManifest
<1> QED
  BY <1>1, <1>2, <1>3, <1>4 DEF CrawlStep

(* A call that runs beside a crawl that started last has another directory.  *)
LEMMA OtherDirectory ==
  ASSUME CrawlTypes, NEW c \in Calls, NEW d \in Calls \ {c}, Ordered(c), StartedLast(c),
         pc[d] # "over"
  PROVE  crawlId[d] # crawlId[c]
BY DEF StartedLast, Sharers, Ordered

(* A crawl that still started last after a step of another call did so       *)
(* before it, and its files are not touched.                                 *)
LEMMA OthersLeaveFiles ==
  ASSUME CrawlTypes, NEW c \in Calls, NEW d \in Calls \ {c}, Ordered(c), Ordered(d), CrawlStep(d),
         StartedLast(c)', StartedLast(c) => Stored(c)
  PROVE  Stored(c)'
<1> USE DEF CrawlTypes, Returns, Goes, contents, crawlVars
<1>1. /\ crawlId'[c] = crawlId[c] /\ fetched'[c] = fetched[c] /\ before'[c] = before[c]
      /\ pc'[c] = pc[c] /\ answer'[c] = answer[c] /\ pc[d] # "over"
  BY DEF CrawlStep, RefuseUrl, StartCrawl, SavePage, SaveIndex, SaveListing, SaveManifest,
         SaveCrawlSummary, CrawlFails, ExtractLinks
<1>2. \A e \in Calls : crawlId[e] = crawlId[c] => crawlId'[e] = crawlId[c]
  <2>1. crawlId[c] # None
    BY <1>1 DEF StartedLast
  <2> QED
    BY <2>1 DEF CrawlStep, RefuseUrl, StartCrawl, SavePage, SaveIndex, SaveListing, SaveManifest,
         SaveCrawlSummary, CrawlFails, ExtractLinks, Ordered
<1>3. StartedLast(c)
  BY <1>1, <1>2 DEF StartedLast, Sharers
<1>4. crawlId[d] # crawlId[c] /\ crawlId[c] \in Ids
  BY <1>1, <1>3, OtherDirectory DEF StartedLast
<1>5. /\ pages'[crawlId[c]] = pages[crawlId[c]] /\ listing'[crawlId[c]] = listing[crawlId[c]]
      /\ manifest'[crawlId[c]] = manifest[crawlId[c]]
  BY <1>4 DEF CrawlStep, RefuseUrl, StartCrawl, SavePage, SaveIndex, SaveListing, SaveManifest,
         SaveCrawlSummary, CrawlFails, ExtractLinks, Written, PageWritten
<1> QED
  BY <1>1, <1>3, <1>5 DEF Stored

(* A step of the crawl itself.                                               *)
LEMMA OwnCrawlStep ==
  ASSUME CrawlTypes, NEW c \in Calls, Ordered(c), CrawlStep(c), StartedLast(c)',
         StartedLast(c) => Stored(c)
  PROVE  Stored(c)'
<1> USE DirectoryAssumption, ClockAssumption
    DEF CrawlTypes, Returns, Goes, contents, crawlVars, Ordered
<1>1. CASE RefuseUrl(c) \/ ExtractLinks(c)
  BY <1>1 DEF RefuseUrl, ExtractLinks, StartedLast
<1>2. CASE StartCrawl(c)
  BY <1>2 DEF StartCrawl, Stored
<1> USE DEF StartedLast, Sharers, Stored, Written
<1>3. CASE SavePage(c)
  <2>1. crawlId' = crawlId /\ before' = before /\ fetched'[c] = fetched[c] + 1
        /\ fetched[c] + 1 \in 1 .. MaxPages /\ crawlId[c] \in Ids
    BY <1>3 DEF SavePage
  <2>2. pages'[crawlId[c]] = [pages[crawlId[c]] EXCEPT ![fetched[c] + 1] = c]
    BY <1>3, <2>1 DEF SavePage, PageWritten
  <2>3. \A k \in 1 .. fetched[c] + 1 : pages'[crawlId[c]][k] = c
    BY <2>1, <2>2
  <2> QED
    BY <1>3, <2>1, <2>3 DEF SavePage
<1>4. CASE SaveIndex(c)
  BY <1>4 DEF SaveIndex
<1>5. CASE SaveListing(c)
  BY <1>5 DEF SaveListing
<1>6. CASE SaveManifest(c)
  BY <1>6 DEF SaveManifest
<1>7. CASE SaveCrawlSummary(c)
  BY <1>7 DEF SaveCrawlSummary
<1>8. CASE CrawlFails(c)
  BY <1>8 DEF CrawlFails
<1> QED
  BY <1>1, <1>2, <1>3, <1>4, <1>5, <1>6, <1>7, <1>8 DEF CrawlStep

LEMMA CrawlInvStep == ASSUME CrawlInv, [CrawlNext]_crawlAll PROVE CrawlInv'
<1>1. CASE UNCHANGED crawlAll
  BY <1>1 DEF crawlAll, callVars, crawlVars, contents, CrawlInv, CrawlTypes, Ordered, StartedLast,
              Sharers, Stored
<1>2. CASE Tick /\ UNCHANGED crawlVars
  BY <1>2, ClockAssumption DEF Tick, crawlVars, contents, CrawlInv, CrawlTypes, Ordered,
              StartedLast, Sharers, Stored
<1>3. ASSUME NEW d \in Calls, CrawlStep(d) PROVE CrawlInv'
  <2>1. CrawlTypes /\ CrawlTypes' /\ \A c \in Calls : Ordered(c) /\ (StartedLast(c) => Stored(c))
    BY <1>3, CrawlTypesStep DEF CrawlInv
  <2>2. \A c \in Calls : Ordered(c)'
    BY <1>3, <2>1, OrderedStep
  <2>3. ASSUME NEW c \in Calls, StartedLast(c)' PROVE Stored(c)'
    BY <1>3, <2>1, <2>3, OwnCrawlStep, OthersLeaveFiles
  <2> QED
    BY <2>1, <2>2, <2>3 DEF CrawlInv
<1> QED
  BY <1>1, <1>2, <1>3 DEF CrawlNext

LEMMA FindsOneCrawl == CrawlInv => SearchFindsOneCrawl
<1> SUFFICES ASSUME CrawlInv, NEW c \in Calls, answer[c] = "ok", StartedLast(c)
             PROVE  /\ Hits(crawlId[c]) =
                         {[record |-> [by |-> c, page |-> k], text |-> c] : k \in 1 .. fetched[c]}
                    /\ [id |-> crawlId[c], manifest |-> c] \in Listed
  BY DEF SearchFindsOneCrawl
<1> DEFINE i == crawlId[c]  entry == [by |-> c, n |-> fetched[c]]
<1>1. CrawlTypes /\ Stored(c) /\ i \in Ids
  BY DEF CrawlInv, StartedLast, CrawlTypes
<1>2. listing[i] = entry /\ manifest[i] = c /\ \A k \in 1 .. fetched[c] : pages[i][k] = c
  BY <1>1 DEF Stored
<1>3. entry # None
  <2>1. entry \in [by : Calls, n : 0 .. MaxPages]
    BY <1>1 DEF CrawlTypes
  <2> QED
    BY <2>1, DirectoryAssumption
<1>4. i # LinkExtract
  BY <1>1 DEF Ids, LinkExtract
<1>5. Records(i) = {[by |-> c, page |-> k] : k \in 1 .. fetched[c]}
  BY <1>2, <1>3, <1>4 DEF Records
<1>6. Hits(i) = {[record |-> [by |-> c, page |-> k], text |-> c] : k \in 1 .. fetched[c]}
  BY <1>2, <1>5 DEF Hits
<1>7. i \in Created
  BY DEF Created, StartedLast
<1>8. [id |-> i, manifest |-> c] \in Listed
  BY <1>2, <1>4, <1>7 DEF Listed
<1> QED
  BY <1>6, <1>8

LEMMA LatestFound == CrawlInv => LatestIsNewest
<1> SUFFICES ASSUME CrawlInv, ~ linkDir, NEW c \in Calls, Started(c),
                    \A d \in Calls \ {c} : Started(d) => crawlId[d][1] < crawlId[c][1]
             PROVE  Latest = crawlId[c]
  BY DEF LatestIsNewest
<1> DEFINE i == crawlId[c]  Newest(j) == j \in Created /\ \A k \in Created : Sorted(k, j)
<1>1. \A j \in Ids : j[1] \in Int /\ j[2] \in Int
  <2>1. \A d \in Calls : Host[d] \in Nat
    BY DirectoryAssumption
  <2>2. 0 .. TimeBound \div PerSecond \subseteq Int
    OBVIOUS
  <2> QED
    BY <2>1, <2>2 DEF Ids
<1>2. Created \subseteq Ids /\ i \in Created
  BY DEF CrawlInv, CrawlTypes, Created, Started
<1>3. \A k \in Created \ {i} : k[1] < i[1]
  BY DEF Created, Started
<1>4. Newest(i)
  BY <1>1, <1>2, <1>3 DEF Sorted
<1>5. ASSUME NEW j, Newest(j) PROVE j = i
  BY <1>1, <1>2, <1>3, <1>5 DEF Sorted
<1>6. Last(Created) = i
  BY <1>4, <1>5 DEF Last
<1> QED
  BY <1>6 DEF Latest

(* For any number of calls, hosts, pages and seconds, a search under the id  *)
(* of a crawl, all others of whose second and host were over when it         *)
(* started, finds the pages and the manifest of that crawl.                  *)
THEOREM SearchesFindOneCrawl == CrawlSpec => []SearchFindsOneCrawl
<1>1. CrawlInv /\ [CrawlNext]_crawlAll => CrawlInv'
  BY CrawlInvStep
<1> QED
  BY <1>1, CrawlInvInit, FindsOneCrawl, PTL DEF CrawlSpec, crawlAll

(* A search without an id goes to the crawl that was started last, as long   *)
(* as no link extraction has made its directory and no other crawl was       *)
(* started in its second.                                                    *)
THEOREM LatestCrawlIsNewest == CrawlSpec => []LatestIsNewest
<1>1. CrawlInv /\ [CrawlNext]_crawlAll => CrawlInv'
  BY CrawlInvStep
<1> QED
  BY <1>1, CrawlInvInit, LatestFound, PTL DEF CrawlSpec, crawlAll

-----------------------------------------------------------------------------
(* CorporateSearch *)

searchAll == <<callVars, searchVars>>

(* What is known of a call's responses: the name itself can only be found by *)
(* the last one, and a response without rows, or without the name itself, is *)
(* kept only while there is none that has them.                              *)
Found(c, kind) == \E k \in DOMAIN attempts[c] : attempts[c][k] = kind
FoundRows(c) == \E k \in DOMAIN attempts[c] : HasRows(attempts[c][k])
Kept(c) == attempts[c][selected[c]]

TypedCall(c) ==
  /\ attempts[c] \in Seq(Responses) /\ Len(attempts[c]) <= Variants[c]
  /\ selected[c] \in 0 .. Len(attempts[c])
  /\ selected[c] = 0 => attempts[c] = <<>>

KeptIsBest(c) ==
  attempts[c] # <<>> =>
    /\ Found(c, "exact") => Kept(c) = "exact"
    /\ FoundRows(c) => HasRows(Kept(c))

Judged(c) ==
  verdict[c] # None =>
    /\ pc[c] \in {"storing", "over"} /\ attempts[c] # <<>> /\ ~ More(c)
    /\ verdict[c] = Interpretation(Kept(c))

SearchTypes ==
  /\ pc \in [Calls -> {"idle", "asking", "storing", "over"}]
  /\ attempts = [c \in Calls |-> attempts[c]] /\ selected = [c \in Calls |-> selected[c]]
  /\ verdict = [c \in Calls |-> verdict[c]]

SearchInv ==
  SearchTypes /\ \A c \in Calls : TypedCall(c) /\ KeptIsBest(c) /\ Judged(c)

LEMMA SearchInvInit == CallsInit /\ SearchInit => SearchInv
BY SearchAssumption
DEF CallsInit, SearchInit, SearchInv, SearchTypes, TypedCall, KeptIsBest, Judged, Found,
    FoundRows, Responses

(* A step that leaves the responses and the verdict of a call alone.         *)
LEMMA SameCall ==
  ASSUME NEW c \in Calls, TypedCall(c), KeptIsBest(c), Judged(c),
         attempts'[c] = attempts[c], selected'[c] = selected[c], verdict'[c] = verdict[c],
         pc'[c] = pc[c] \/ pc'[c] \in {"storing", "over"}
  PROVE  TypedCall(c)' /\ KeptIsBest(c)' /\ Judged(c)'
BY DEF TypedCall, KeptIsBest, Judged, Found, FoundRows, Kept, More

(* The next response takes the place of the selected one, or does not.       *)
LEMMA NextResponse ==
  ASSUME NEW c \in Calls, NEW response \in Responses, TryVariant(c, response),
         SearchTypes, TypedCall(c), KeptIsBest(c), Judged(c)
  PROVE  TypedCall(c)' /\ KeptIsBest(c)' /\ Judged(c)'
<1> DEFINE a == attempts[c]  b == attempts'[c]
<1>1. /\ a \in Seq(Responses) /\ b = Append(a, response) /\ b \in Seq(Responses)
      /\ Len(b) = Len(a) + 1 /\ Len(a) \in Nat
      /\ \A k \in 1 .. Len(a) : b[k] = a[k]
      /\ b[Len(b)] = response
  BY DEF TryVariant, TypedCall, SearchTypes
<1>2. selected'[c] = IF Keeps(c, response) THEN Len(b) ELSE selected[c]
  BY <1>1 DEF TryVariant, SearchTypes
<1>3. /\ Len(a) < Variants[c] /\ \A k \in DOMAIN a : a[k] # "exact"
      /\ Variants[c] \in Nat /\ verdict'[c] = verdict[c] /\ pc[c] = "asking"
  BY SearchAssumption DEF TryVariant, More
<1>4. TypedCall(c)'
  BY <1>1, <1>2, <1>3 DEF TypedCall, Keeps
<1>5. KeptIsBest(c)'
  <2>1. DOMAIN a = 1 .. Len(a) /\ DOMAIN b = 1 .. Len(a) + 1
    BY <1>1
  <2>2. CASE Keeps(c, response)
    <3>1. b[selected'[c]] = response
      BY <1>1, <1>2, <2>2
    <3>2. ASSUME NEW k \in 1 .. Len(a), HasRows(a[k]) PROVE HasRows(response)
      <4>1. FoundRows(c) /\ a # <<>> /\ selected[c] # 0
        BY <3>2, <2>1, <1>1 DEF FoundRows, TypedCall
      <4> QED
        BY <4>1, <2>2 DEF KeptIsBest, Kept, Keeps, HasRows
    <3> QED
      BY <3>1, <3>2, <1>1, <1>3, <2>1 DEF KeptIsBest, Found, FoundRows, Kept, HasRows
  <2>3. CASE ~ Keeps(c, response)
    <3>1. selected[c] \in 1 .. Len(a) /\ response # "exact" /\ selected'[c] = selected[c]
      BY <2>3, <1>1, <1>2 DEF Keeps, TypedCall
    <3>2. b[selected'[c]] = Kept(c) /\ (HasRows(response) => HasRows(Kept(c)))
      BY <3>1, <2>3, <1>1 DEF Keeps, Kept
    <3> QED
      BY <3>1, <3>2, <1>1, <1>3, <2>1 DEF KeptIsBest, Found, FoundRows, Kept, HasRows
  <2> QED
    BY <2>2, <2>3
<1>6. Judged(c)'
  BY <1>3 DEF Judged
<1> QED
  BY <1>4, <1>5, <1>6

LEMMA SearchInvStep == ASSUME SearchInv, [SearchNext]_searchAll PROVE SearchInv'
<1>1. CASE UNCHANGED searchAll
  BY <1>1 DEF searchAll, callVars, searchVars, SearchInv, SearchTypes, TypedCall, KeptIsBest,
              Judged, Found, FoundRows, Kept, More
<1>2. CASE Tick /\ UNCHANGED searchVars
  BY <1>2 DEF Tick, searchVars, SearchInv, SearchTypes, TypedCall, KeptIsBest, Judged, Found,
              FoundRows, Kept, More
<1>3. ASSUME NEW d \in Calls, SearchStep(d) PROVE SearchInv'
  <2>1. SearchTypes'
    BY <1>3 DEF SearchStep, RefuseQuery, EnterSite, SiteFails, LeaveSite, StoreSearch, TryVariant,
      Returns, Goes, searchVars, SearchInv, SearchTypes
  <2>2. ASSUME NEW c \in Calls PROVE TypedCall(c)' /\ KeptIsBest(c)' /\ Judged(c)'
    <3>1. TypedCall(c) /\ KeptIsBest(c) /\ Judged(c) /\ SearchTypes
      BY DEF SearchInv
    <3>2. CASE c # d
      <4>1. /\ attempts'[c] = attempts[c] /\ selected'[c] = selected[c]
            /\ verdict'[c] = verdict[c] /\ pc'[c] = pc[c]
        BY <1>3, <3>1, <3>2 DEF SearchStep, RefuseQuery, EnterSite, SiteFails, LeaveSite,
          StoreSearch, TryVariant, Returns, Goes, searchVars, SearchTypes
      <4> QED
        BY <4>1, <3>1, SameCall
    <3>3. CASE c = d /\ (RefuseQuery(d) \/ SiteFails(d) \/ StoreSearch(d))
      <4>1. /\ attempts'[c] = attempts[c] /\ selected'[c] = selected[c]
            /\ verdict'[c] = verdict[c] /\ pc'[c] = "over"
        BY <3>1, <3>3 DEF RefuseQuery, SiteFails, StoreSearch, Returns, Goes, searchVars,
           SearchTypes
      <4> QED
        BY <4>1, <3>1, SameCall
    <3>4. CASE c = d /\ EnterSite(d)
      <4>1. verdict[c] = None
        BY <3>1, <3>4 DEF EnterSite, Goes, Judged
      <4> QED
        BY <4>1, <3>1, <3>4 DEF EnterSite, Goes, TypedCall, KeptIsBest, Judged, Found, FoundRows,
          Kept
    <3>5. CASE c = d /\ LeaveSite(d)
      <4>1. attempts' = attempts /\ selected' = selected /\ ~ More(c) /\ pc'[c] = "storing"
            /\ verdict'[c] = Interpretation(Kept(c))
        BY <3>1, <3>5 DEF LeaveSite, Goes, SearchTypes, Kept
      <4>2. attempts[c] # <<>>
        BY <4>1, <3>1, SearchAssumption DEF More, TypedCall
      <4> QED
        BY <4>1, <4>2, <3>1 DEF TypedCall, KeptIsBest, Judged, Found, FoundRows, Kept, More
    <3>6. CASE c = d /\ \E response \in Responses : TryVariant(d, response)
      BY <3>1, <3>6, NextResponse
    <3> QED
      BY <1>3, <3>2, <3>3, <3>4, <3>5, <3>6 DEF SearchStep
  <2> QED
    BY <2>1, <2>2 DEF SearchInv
<1> QED
  BY <1>1, <1>2, <1>3 DEF SearchNext

LEMMA VerdictFollows == SearchInv => VerdictSumsUp
<1> SUFFICES ASSUME SearchInv, NEW c \in Calls, verdict[c] # None
             PROVE  /\ verdict[c] = "exact_match_found" <=> "exact" \in Seen(c)
                    /\ verdict[c] # "exact_match_found" => Len(attempts[c]) = Variants[c]
                    /\ verdict[c] = "unparsed_response" =>
                         \A response \in Seen(c) : ~ HasRows(response)
                    /\ verdict[c] = "no_result" =>
                         "denied" \in Seen(c) \/ \A response \in Seen(c) : ~ HasRows(response)
  BY DEF VerdictSumsUp
<1>1. TypedCall(c) /\ KeptIsBest(c) /\ Judged(c) /\ attempts[c] # <<>> /\ ~ More(c)
      /\ verdict[c] = Interpretation(Kept(c))
  BY DEF SearchInv, Judged
<1>2. Kept(c) \in Responses /\ selected[c] \in DOMAIN attempts[c]
  BY <1>1 DEF TypedCall, Kept
<1>3. \A kind : kind \in Seen(c) <=> Found(c, kind)
  BY DEF Seen, Found
<1>4. verdict[c] = "exact_match_found" <=> Kept(c) = "exact"
  BY <1>1, <1>2 DEF Interpretation, Responses
<1>5. Kept(c) = "exact" <=> Found(c, "exact")
  BY <1>1, <1>2 DEF KeptIsBest, Found, Kept
<1>6. "exact" \notin Seen(c) => Len(attempts[c]) = Variants[c]
  BY <1>1, SearchAssumption DEF More, TypedCall, Seen
<1>7. (\E response \in Seen(c) : HasRows(response)) => HasRows(Kept(c))
  BY <1>1 DEF KeptIsBest, FoundRows, Seen
<1>8. verdict[c] = "unparsed_response" => ~ HasRows(Kept(c))
  BY <1>1, <1>2 DEF Interpretation, Responses, HasRows
<1>9. verdict[c] = "no_result" => Kept(c) = "denied" \/ ~ HasRows(Kept(c))
  BY <1>1, <1>2 DEF Interpretation, Responses, HasRows
<1>10. Kept(c) \in Seen(c)
  BY <1>2 DEF Seen, Kept
<1> QED
  BY <1>3, <1>4, <1>5, <1>6, <1>7, <1>8, <1>9, <1>10

(* For any number of calls, names and variants of a name, the verdict on the *)
(* one response that is kept sums up all attempts of the search.             *)
THEOREM VerdictsSumUp == SearchSpec => []VerdictSumsUp
<1>1. SearchInv /\ [SearchNext]_searchAll => SearchInv'
  BY SearchInvStep
<1> QED
  BY <1>1, SearchInvInit, VerdictFollows, PTL DEF SearchSpec, searchAll
================================================================================
