------------------------------ MODULE BrowserTool ------------------------------
(***************************************************************************)
(* run_playwright_task: a call waits until its allowed domains have rested *)
(* since the last browser call that was finished with them, visits pages   *)
(* with a delay after each action and a backoff after a rate limit, and    *)
(* writes result.json and summary.md, or error.json, into a directory of   *)
(* its own.  What pages do is nondeterministic.                            *)
(***************************************************************************)
EXTENDS NetworkToolCalls

CONSTANTS
  Domains,               \* playwright_domain_delay_key of each call
  Task,                  \* what its task and start URL are
  AskedDelays,           \* min_action_delay_ms a call may ask for, in ticks
  AskedSteps,            \* how many steps it may ask for
  DefaultDelay, MostDelay, Backoff, StepLimit

ASSUME BrowserAssumption ==
  /\ AskedDelays \subseteq Int \cup {None} /\ AskedSteps \subseteq Nat
  /\ DefaultDelay \in Nat /\ MostDelay \in Nat /\ Backoff \in Nat /\ StepLimit \in Nat

VARIABLES
  delay,       \* safe_min_action_delay_ms
  left,        \* page actions still to do, the first goto included
  until,       \* end of the wait the call is in
  lastFinish,  \* PLAYWRIGHT_DOMAIN_LAST_FINISH
  runId,       \* None before the first wait is over
  saved,       \* the writers of the files in each directory
  limited,     \* history: when it last saw a rate limit
  ended        \* history: when its browser was closed

browserVars == <<delay, left, until, lastFinish, runId, saved, limited, ended>>

Keys   == {Domains[c] : c \in Calls}
RunIds == (0 .. TimeBound \div PerSecond) \X {Task[c] : c \in Calls} \X Keys
NoFiles == [result |-> NoCall, summary |-> NoCall, error |-> NoCall]

BrowserInit ==
  /\ delay = [c \in Calls |-> 0] /\ left = [c \in Calls |-> 0]
  /\ until = [c \in Calls |-> 0]
  /\ lastFinish = [k \in Keys |-> None] /\ runId = [c \in Calls |-> None]
  /\ saved = [i \in RunIds |-> NoFiles]
  /\ limited = [c \in Calls |-> None]
  /\ ended = [c \in Calls |-> None]

Greater(a, b) == IF a > b THEN a ELSE b
Lesser(a, b)  == IF a < b THEN a ELSE b

(* clamp_playwright_delay_ms *)
ClampDelay(asked) ==
  IF asked = None THEN DefaultDelay ELSE Greater(0, Lesser(asked, MostDelay))

(* Domains, start URL, steps or proxy settings are refused: no directory.    *)
RefuseTask(c) ==
  Returns(c, "idle", "error") /\ UNCHANGED <<now, before, browserVars>>

\* Mutant: the directory is named for the task alone.
RunIdUnstamped(c) == <<0, Task[c], Domains[c]>>

(* browser_tool_run_id *)
RunId(c) == <<Second, Task[c], Domains[c]>>

(* apply_playwright_domain_delay: the last finish is read once, before the   *)
(* sleep.                                                                    *)
RestUntil(c, wait) ==
  IF wait = 0 \/ lastFinish[Domains[c]] = None THEN now
  ELSE Greater(now, lastFinish[Domains[c]] + wait)

CheckDelay(c, asked, steps) ==
  /\ Goes(c, "idle", "resting")
  /\ delay' = [delay EXCEPT ![c] = ClampDelay(asked)]
  /\ left' = [left EXCEPT ![c] = 1 + Lesser(steps, StepLimit)]
  /\ until' = [until EXCEPT ![c] = RestUntil(c, ClampDelay(asked))]
  /\ before' = [before EXCEPT ![c] = {d \in Calls : ended[d] # None}]
  /\ UNCHANGED <<now, answer, lastFinish, runId, saved, limited, ended>>

(* The directory is made, or cannot be made.                                 *)
OpenRun(c) ==
  /\ until[c] <= now /\ runId' = [runId EXCEPT ![c] = RunId(c)]
  /\ Goes(c, "resting", "opened") \/ Goes(c, "resting", "failing")
  /\ UNCHANGED <<now, answer, before, delay, left, until, lastFinish, saved, limited, ended>>

(* apply_rate_limit_backoff and apply_action_delay                           *)
Pause(c, busy) == delay[c] + IF busy THEN Backoff ELSE 0

(* The visit of the start URL, then the steps; a page that shows a rate      *)
(* limit is noticed.                                                         *)
Visit(c, busy) ==
  /\ Goes(c, "opened", "browsing") \/ Goes(c, "browsing", "browsing")
  /\ left[c] > 0 /\ until[c] <= now
  /\ left' = [left EXCEPT ![c] = @ - 1]
  /\ until' = [until EXCEPT ![c] = now + Pause(c, busy)]
  /\ limited' = [limited EXCEPT ![c] = IF busy THEN now ELSE @]
  /\ UNCHANGED <<now, answer, before, delay, lastFinish, runId, saved, ended>>

(* A wait step asks the site for nothing and is not followed by a delay.     *)
WaitStep(c, busy) ==
  /\ pc[c] = "browsing" /\ left[c] > 0 /\ until[c] <= now
  /\ left' = [left EXCEPT ![c] = @ - 1]
  /\ until' = [until EXCEPT ![c] = now + IF busy THEN Backoff ELSE 0]
  /\ limited' = [limited EXCEPT ![c] = IF busy THEN now ELSE @]
  /\ UNCHANGED <<now, pc, answer, before, delay, lastFinish, runId, saved, ended>>

\* Mutant: only a call that succeeds is noted.
FinishNotedOnSuccess(c, failed) ==
  IF failed THEN lastFinish ELSE [lastFinish EXCEPT ![Domains[c]] = now]

(* record_playwright_domain_finish in the finally block                      *)
FinishNoted(c, failed) == [lastFinish EXCEPT ![Domains[c]] = now]

(* The last wait is over and the page is read, or an action raises.          *)
CloseBrowser(c, failed) ==
  /\ failed \/ (left[c] = 0 /\ until[c] <= now)
  /\ \/ Goes(c, "browsing", IF failed THEN "failing" ELSE "saving")
     \/ Goes(c, "opened", "failing")
  /\ lastFinish' = FinishNoted(c, failed) /\ ended' = [ended EXCEPT ![c] = now]
  /\ UNCHANGED <<now, answer, before, delay, left, until, runId, saved, limited>>

SaveResult(c) ==
  /\ \/ /\ Goes(c, "saving", "summing")
        /\ saved' = [saved EXCEPT ![runId[c]].result = c]
     \/ Goes(c, "saving", "failing") /\ UNCHANGED saved
  /\ UNCHANGED <<now, answer, before, delay, left, until, lastFinish, runId, limited, ended>>

SaveSummary(c) ==
  /\ \/ /\ Returns(c, "summing", "ok")
        /\ saved' = [saved EXCEPT ![runId[c]].summary = c]
     \/ Goes(c, "summing", "failing") /\ UNCHANGED <<answer, saved>>
  /\ UNCHANGED <<now, before, delay, left, until, lastFinish, runId, limited, ended>>

(* error.json, beside the files the call has already written; when it cannot *)
(* be written either, the tool raises.                                       *)
SaveError(c) ==
  /\ \/ /\ Returns(c, "failing", "error")
        /\ saved' = [saved EXCEPT ![runId[c]].error = c]
     \/ Returns(c, "failing", "raised") /\ UNCHANGED saved
  /\ UNCHANGED <<now, before, delay, left, until, lastFinish, runId, limited, ended>>

BrowserStep(c) ==
  \/ RefuseTask(c)
  \/ \E asked \in AskedDelays, steps \in AskedSteps : CheckDelay(c, asked, steps)
  \/ OpenRun(c)
  \/ \E busy \in BOOLEAN : Visit(c, busy) \/ WaitStep(c, busy)
  \/ \E failed \in BOOLEAN : CloseBrowser(c, failed)
  \/ SaveResult(c) \/ SaveSummary(c) \/ SaveError(c)

BrowserNext == (\E c \in Calls : BrowserStep(c)) \/ (Tick /\ UNCHANGED browserVars)

BrowserSpec == CallsInit /\ BrowserInit /\ [][BrowserNext]_<<callVars, browserVars>>

-----------------------------------------------------------------------------
(* Properties *)

Starts(c)      == pc[c] = "opened" /\ pc'[c] = "browsing"
EndedWell(c)   == pc[c] \in {"saving", "summing"} \/ answer[c] = "ok"
WasLimited(c)  == limited[c] # None

(* The first request of a call comes a delay after the end of every call     *)
(* with the same domains that was over when it looked, however that call     *)
(* ended, and a backoff more after the last rate limit that call saw, if it  *)
(* went through all of its steps.                                            *)
SpacesRequests ==
  \A c \in Calls : Starts(c) =>
    \A d \in before[c] : Domains[d] = Domains[c] =>
      /\ now >= ended[d] + delay[c]
      /\ EndedWell(d) /\ WasLimited(d) => now >= limited[d] + Backoff + delay[c]

(* SpacesRequests as a property of every step.                               *)
RequestsSpaced == [][SpacesRequests]_<<callVars, browserVars>>

(* A call that answered ok has its result and summary in its directory,      *)
(* unless a call with the same task ran beside it or asked for less delay    *)
(* than a second: calls that are spaced never share a directory.             *)
ResultsKept ==
  \A c \in Calls : answer[c] = "ok" /\ runId[c] # None =>
    \/ saved[runId[c]].result = c /\ saved[runId[c]].summary = c
    \/ \E d \in Calls \ {c} : runId[d] = runId[c] /\
         (c \notin before[d] \/ delay[d] < PerSecond)
===============================================================================
