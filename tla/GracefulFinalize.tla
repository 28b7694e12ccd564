--------------------------- MODULE GracefulFinalize ---------------------------
(***************************************************************************)
(* One Deep Agent attempt under the graceful-finalize middleware.          *)
(*                                                                         *)
(* The agent loop alternates a model turn (before_model, then              *)
(* wrap_model_call) with a tool turn in which the calls of the model's     *)
(* last message run in parallel, each through wrap_tool_call.  The hooks   *)
(* of all middleware are nodes of the graph, and every node that runs is   *)
(* a superstep of its own towards the graph's recursion limit.  The        *)
(* middleware counts model calls, tool calls and messages; past the        *)
(* finalize thresholds it offers and admits only the tools that let the    *)
(* worker complete its artifacts and call request_parent_review.  After    *)
(* StrictAfter finalize turns it offers either the review call alone       *)
(* (review_artifacts_look_ready) or the repair tools alone.                *)
(*                                                                         *)
(* A review file is abstracted to what the two checks of its content tell  *)
(* apart (readiness and the preflight of request_parent_review).           *)
(***************************************************************************)
EXTENDS Integers, FiniteSets

CONSTANTS
  Slots,          \* the calls a model message may carry (bound: parallel calls)
  Contracts,      \* the contracts an attempt may have, see ContractAssumption
  WarnModel, FinModel, WarnTool, FinTool, WarnMsg, FinMsg,
  StrictAfter,    \* strict_finalize_after_model_calls
  RecursionLimit, \* supersteps the graph may take before GraphRecursionError
  StartNodes,     \* middleware nodes of the graph that run once, at its start,
  BeforeNodes,    \* before every model node, this middleware's own among them,
  AfterNodes      \* and after every model node

ASSUME BudgetAssumption ==
  /\ IsFiniteSet(Slots)
  /\ {WarnModel, FinModel, WarnTool, FinTool, WarnMsg, FinMsg, StrictAfter,
      RecursionLimit} \subseteq Nat \ {0}
  /\ WarnModel < FinModel /\ WarnTool < FinTool /\ WarnMsg < FinMsg
  /\ BeforeNodes \in Nat \ {0} /\ {StartNodes, AfterNodes} \subseteq Nat

(* Result mode, self_check_policy, the expected artifacts, and those of them *)
(* that are .md files; an inline profile has no artifacts.                   *)
ASSUME ContractAssumption ==
  \A c \in Contracts :
    /\ c.mode \in {"artifact", "inline"}
    /\ c.policy \in {"script", "checklist", "none"}
    /\ c.md \subseteq c.expected
    /\ c.mode = "inline" => c.expected = {}

VARIABLES
  contract,    \* the contract of the attempt; it stays
  pc,          \* "model", "tools", "done" or "recursion_error"
  steps,       \* supersteps taken
  modelCalls,  \* graceful_finalize_model_calls in the graph state
  toolCalls,   \* self.tool_calls
  seen,        \* self.finalize_model_calls_seen
  messages,    \* length of the message list of the graph state
  files,       \* content of the review files under /outputs
  call,        \* the tool each slot of the current message calls
  stage,       \* of each slot: "idle", "called", "admitted"
  answered,    \* tool messages collected in the current tool turn
  lastReview,  \* artifact list of the last recorded review request
  turn,        \* history: mode, tools offered and readiness of the model turn
  explored,    \* history: exploration calls the middleware has let through
  warned,      \* history: a warning instruction has been given
  widest       \* history: most calls a message has carried

agent == <<files, lastReview>>
vars  == <<contract, pc, steps, modelCalls, toolCalls, seen, messages, files, call,
           stage, answered, lastReview, turn, explored, warned, widest>>

ResultMode == contract.mode
Policy     == contract.policy
Expected   == contract.expected
MdExpected == contract.md

SelfCheckFiles == IF Policy = "none" THEN {} ELSE {"plan", "report"}

(* The files the contract of the attempt names, and the list                *)
(* finalize_instruction tells the worker to submit.                        *)
Files   == Expected \cup SelfCheckFiles
MdFiles == MdExpected \cup SelfCheckFiles
InstructedList == Files

(* What a file's content is to the two checks: "active" holds a literal    *)
(* script-like tag; a "pending" report holds a pending marker and          *)
(* "pendingpass" the word pass as well; "noverdict" holds neither, as a    *)
(* report of a failed self-check does.                                     *)
ReportShapes == {"active", "pending", "pendingpass", "noverdict", "pass"}
PlainShapes  == {"active", "clean"}
Contents(f)  == {"empty"} \cup (IF f = "report" THEN ReportShapes ELSE PlainShapes)
Shapes(f)    == {"absent"} \cup Contents(f)

Blocked(x)    == x = "active"
IsPending(x)  == x \in {"pending", "pendingpass"}
HasVerdict(x) == x \in {"pass", "pendingpass"}

Review  == "request_parent_review"
Repair  == {"write_file", "edit_file", "execute"}
Explore == "explore"     \* every exploration tool: crawl, browser, read, ...
NoCall  == "none"
NoReview == {NoCall}     \* the review list before any request

(* request_parent_review is not given to an inline profile. *)
Registered == Repair \cup {Explore} \cup (IF ResultMode = "inline" THEN {} ELSE {Review})

-----------------------------------------------------------------------------
(* graceful_finalize_thresholds: the defaults derived from a recursion limit. *)
Least(a, b)    == IF a <= b THEN a ELSE b
Greatest(a, b) == IF a >= b THEN a ELSE b
Clamp(low, high, n) == Greatest(low, Least(high, n))

Thresholds(limit) ==
  LET safe == Greatest(10, limit)
      model == Clamp(6, 30, (safe * 16) \div 100)
      tool  == Clamp(6, 16, (safe * 12) \div 100)
      msg   == Clamp(20, 60, (safe * 38) \div 100)
  IN [finModel |-> model, warnModel |-> Greatest(4, (model * 70) \div 100),
      finTool  |-> tool,  warnTool  |-> Greatest(4, (tool * 70) \div 100),
      finMsg   |-> msg,   warnMsg   |-> Greatest(12, (msg * 70) \div 100)]

(* The middleware's decisions *)

\* Mutants of ModeFor: the finalize threshold compared with >; the warning
\* thresholds tested first; the warning threshold compared with >.
ModeForLate(m, msgs, t) ==
  IF m > FinModel \/ t >= FinTool \/ msgs >= FinMsg THEN "finalize"
  ELSE IF m >= WarnModel \/ t >= WarnTool \/ msgs >= WarnMsg THEN "warning"
  ELSE "normal"
ModeForWarningFirst(m, msgs, t) ==
  IF m >= WarnModel \/ t >= WarnTool \/ msgs >= WarnMsg THEN "warning"
  ELSE IF m >= FinModel \/ t >= FinTool \/ msgs >= FinMsg THEN "finalize"
  ELSE "normal"
ModeForWarningLate(m, msgs, t) ==
  IF m >= FinModel \/ t >= FinTool \/ msgs >= FinMsg THEN "finalize"
  ELSE IF m > WarnModel \/ t >= WarnTool \/ msgs >= WarnMsg THEN "warning"
  ELSE "normal"

(* _mode_for_state *)
ModeFor(m, msgs, t) ==
  IF m >= FinModel \/ t >= FinTool \/ msgs >= FinMsg THEN "finalize"
  ELSE IF m >= WarnModel \/ t >= WarnTool \/ msgs >= WarnMsg THEN "warning"
  ELSE "normal"

\* Mutant: a pending report that mentions a pass counts as done.
SelfCheckReadyPending ==
  /\ files["plan"] # "absent" /\ ~ Blocked(files["plan"])
  /\ files["report"] # "absent" /\ ~ Blocked(files["report"])
  /\ Policy = "script" => HasVerdict(files["report"])

SelfCheckReady ==
  /\ files["plan"] # "absent" /\ ~ Blocked(files["plan"])
  /\ files["report"] # "absent" /\ ~ Blocked(files["report"])
  /\ Policy = "script" => ~ IsPending(files["report"]) /\ HasVerdict(files["report"])

(* review_artifacts_look_ready *)
Ready ==
  /\ ResultMode = "artifact"
  /\ \A f \in Expected : files[f] \notin {"absent", "empty"}
  /\ Policy \in {"script", "checklist"} => SelfCheckReady

\* Mutant: the review call stays available while repairs are due.
AllowlistLoose(n) ==
  IF n < StrictAfter THEN Repair \cup {Review}
  ELSE IF Ready THEN {Review}
  ELSE Repair \cup {Review}

(* current_finalize_tool_allowlist after n finalize turns *)
Allowlist(n) ==
  IF n < StrictAfter THEN Repair \cup {Review}
  ELSE IF Ready THEN {Review}
  ELSE Repair

\* Mutant: the offer computed before the turn is counted.
OfferedUncounted(mode, n) ==
  IF mode = "finalize" THEN Registered \cap Allowlist(n - 1) ELSE Registered

(* filter_finalize_tools: what the model is offered *)
Offered(mode, n) ==
  IF mode = "finalize" THEN Registered \cap Allowlist(n) ELSE Registered

(* validate_review_artifact_preflight finds nothing to report. *)
PreflightOK(list) ==
  \A f \in list :
    /\ files[f] \notin {"absent", "empty"}
    /\ f \in MdFiles => ~ Blocked(files[f])
    /\ f = "report" => ~ IsPending(files[f])

-----------------------------------------------------------------------------
Init ==
  /\ contract \in Contracts
  /\ pc = "model" /\ steps = StartNodes
  /\ modelCalls = 0 /\ toolCalls = 0 /\ seen = 0 /\ messages = 1
  /\ files = [f \in Files |-> "absent"]
  /\ call = [s \in Slots |-> NoCall] /\ stage = [s \in Slots |-> "idle"]
  /\ answered = 0 /\ lastReview = NoReview
  /\ turn = [mode |-> "normal", offered |-> Registered, ready |-> FALSE]
  /\ explored = 0 /\ warned = FALSE /\ widest = 0

(* Supersteps left for the node and those that run before it.                *)
RoomForModel == steps + BeforeNodes < RecursionLimit
RoomForTools == steps + AfterNodes < RecursionLimit

Width(calls) == Cardinality({s \in Slots : calls[s] # NoCall})

(* before_model counts the call; wrap_model_call counts a finalize turn    *)
(* before it computes the tools it offers.  The model answers with any     *)
(* calls to registered tools, offered or not, or with none and stops, if   *)
(* the nodes after it may still run.                                       *)
ModelTurn(calls) ==
  LET mode == ModeFor(modelCalls + 1, messages, toolCalls)
      n    == IF mode = "finalize" THEN seen + 1 ELSE seen
  IN
  /\ pc = "model" /\ RoomForModel
  /\ steps' = steps + BeforeNodes + 1 /\ modelCalls' = modelCalls + 1 /\ seen' = n
  /\ turn' = [mode |-> mode, offered |-> Offered(mode, n), ready |-> Ready]
  /\ warned' = (warned \/ mode = "warning")
  /\ call' = calls
  /\ stage' = [s \in Slots |-> IF calls[s] = NoCall THEN "idle" ELSE "called"]
  /\ pc' = IF Width(calls) > 0 THEN "tools"
           ELSE IF steps' + AfterNodes <= RecursionLimit THEN "done" ELSE "recursion_error"
  /\ widest' = Greatest(widest, Width(calls))
  /\ messages' = messages + 1 /\ answered' = 0
  /\ UNCHANGED <<toolCalls, explored, agent>>

\* Mutant: the call is counted after the decision.
ToolAdmittedUncounted(t, n) ==
  \/ ModeFor(modelCalls, messages, n - 1) # "finalize"
  \/ t \in Allowlist(seen)

(* wrap_tool_call up to its decision: the call is counted first, and the   *)
(* allowlist is computed afresh.                                           *)
ToolAdmitted(t, n) ==
  \/ ModeFor(modelCalls, messages, n) # "finalize"
  \/ t \in Allowlist(seen)

WrapToolCall(s) ==
  /\ pc = "tools" /\ stage[s] = "called" /\ RoomForTools
  /\ toolCalls' = toolCalls + 1
  /\ LET ok == ToolAdmitted(call[s], toolCalls + 1)
     IN /\ stage'    = [stage EXCEPT ![s] = IF ok THEN "admitted" ELSE "idle"]
        /\ answered' = IF ok THEN answered ELSE answered + 1
        /\ explored' = IF ok /\ call[s] = Explore THEN explored + 1 ELSE explored
  /\ UNCHANGED <<pc, steps, modelCalls, seen, messages, call, turn, warned, widest, agent>>

Answer(s) ==
  /\ pc = "tools" /\ stage[s] = "admitted"
  /\ stage' = [stage EXCEPT ![s] = "idle"] /\ answered' = answered + 1
  /\ UNCHANGED <<pc, steps, modelCalls, toolCalls, seen, messages, call, turn,
                 explored, warned, widest>>

RunExplore(s) == call[s] = Explore /\ Answer(s) /\ UNCHANGED agent

(* The repair tools write one review file, or fail and write none; execute  *)
(* may also delete one.                                                    *)
RunRepair(s) ==
  /\ call[s] \in Repair /\ Answer(s)
  /\ \/ UNCHANGED files
     \/ \E f \in Files : \E x \in Shapes(f) :
          /\ x = "absent" => call[s] = "execute"
          /\ call[s] = "edit_file" => files[f] # "absent"
          /\ files' = [files EXCEPT ![f] = x]
  /\ UNCHANGED lastReview

(* request_parent_review with the list the worker chose. *)
RunReview(s, list) ==
  /\ call[s] = Review /\ Answer(s)
  /\ lastReview' = IF PreflightOK(list) THEN list ELSE lastReview
  /\ UNCHANGED files

EndToolTurn ==
  /\ pc = "tools" /\ \A s \in Slots : stage[s] = "idle"
  /\ RoomForTools
  /\ pc' = "model" /\ steps' = steps + AfterNodes + 1
  /\ messages' = messages + answered
  /\ call' = [s \in Slots |-> NoCall] /\ answered' = 0
  /\ UNCHANGED <<modelCalls, toolCalls, seen, stage, turn, explored, warned, widest, agent>>

(* The summarization node of the agent graph may shorten the history. *)
Summarize ==
  /\ pc = "model" /\ messages > 2
  /\ messages' = 2
  /\ UNCHANGED <<pc, steps, modelCalls, toolCalls, seen, call, stage, answered,
                 turn, explored, warned, widest, agent>>

(* The limit may fall on a node of middleware; nothing reads what that node  *)
(* has counted.                                                              *)
RecursionError ==
  /\ \/ pc = "model" /\ ~ RoomForModel
     \/ pc = "tools" /\ ~ RoomForTools
  /\ pc' = "recursion_error"
  /\ UNCHANGED <<steps, modelCalls, toolCalls, seen, messages, call, stage, answered,
                 turn, explored, warned, widest, agent>>

Stopped == pc \in {"done", "recursion_error"} /\ UNCHANGED vars

Next ==
  /\ \/ \E calls \in [Slots -> Registered \cup {NoCall}] : ModelTurn(calls)
     \/ \E s \in Slots : WrapToolCall(s)
     \/ \E s \in Slots : RunExplore(s)
     \/ \E s \in Slots : RunRepair(s)
     \/ \E s \in Slots : \E list \in SUBSET Files : RunReview(s, list)
     \/ EndToolTurn
     \/ Summarize
     \/ RecursionError
     \/ Stopped
  /\ UNCHANGED contract

Spec == Init /\ [][Next]_vars

-----------------------------------------------------------------------------
(* Properties *)

TypeOK ==
  /\ contract \in Contracts
  /\ pc \in {"model", "tools", "done", "recursion_error"}
  /\ {steps, modelCalls, toolCalls, seen, messages, answered, explored} \subseteq Nat
  /\ files \in [Files -> {"absent", "empty"} \cup ReportShapes \cup PlainShapes]
  /\ call \in [Slots -> Registered \cup {NoCall}]
  /\ stage \in [Slots -> {"idle", "called", "admitted"}]
  /\ lastReview \in SUBSET (Files \cup NoReview)
  /\ turn \in [mode : {"normal", "warning", "finalize"},
               offered : SUBSET Registered, ready : BOOLEAN]
  /\ warned \in BOOLEAN /\ widest \in Nat

(* However many calls one message carries and however the history shrinks,   *)
(* fewer exploration calls than FinTool are ever let through, because every  *)
(* call is counted before wrap_tool_call decides about it.                   *)
ExplorationBudget == explored < FinTool

(* Once the graph has made FinModel model calls, no exploration call is let  *)
(* through any more, although the finalize mode itself is not latched.       *)
NoLateExploration ==
  [][modelCalls >= FinModel => explored' = explored]_vars

(* In a finalize turn the middleware never blocks a call to a tool it had    *)
(* just offered, unless the worker's own calls changed the readiness of its  *)
(* artifacts since: offer and admission agree on the number of turns seen.   *)
HonoursOffer ==
  \A s \in Slots :
    /\ stage[s] = "called" /\ stage'[s] = "idle"
    /\ turn.mode = "finalize" /\ turn.ready = Ready
    => call[s] \notin turn.offered
OfferIsHonoured == [][HonoursOffer]_vars

(* A worker that makes one call at a time and is past StrictAfter finalize   *)
(* turns records a review request only while its artifacts look ready; only  *)
(* the other calls of its message could change them after the admission.     *)
SingleCall == Cardinality({s \in Slots : call[s] # NoCall}) = 1
StrictReviewIsReady ==
  [][/\ lastReview' # lastReview /\ SingleCall
     /\ seen >= StrictAfter /\ turn.mode = "finalize"
     => Ready]_vars

(* The middleware does not narrow the offered tools or block a call before a *)
(* turn in which the worker was warned, unless one message had more calls    *)
(* than lie between two thresholds: nothing limits the calls of a message,   *)
(* and such a message takes a count past the warning in one turn.            *)
Restricts == \/ seen' > seen
             \/ \E s \in Slots : stage[s] = "called" /\ stage'[s] = "idle"
NoLeap == widest <= FinTool - WarnTool /\ widest < FinMsg - WarnMsg
WarnedBeforeRestricted == [][Restricts /\ NoLeap' => warned]_vars

(* Readiness, which locks the worker into the review call, implies that the  *)
(* preflight of that call accepts the instructed list, for the profiles      *)
(* whose checks see the same things: a script self-check with a non-empty    *)
(* plan and no active content in an expected .md artifact.                   *)
ReadyMeansReviewable ==
  Ready /\ Policy = "script"
        /\ files["plan"] # "empty" /\ (\A f \in MdExpected : ~ Blocked(files[f]))
  => PreflightOK(InstructedList)

InFinalize == ModeFor(modelCalls, messages, toolCalls) = "finalize"

(* As the preflight's answer puts it (fix the findings, update the report,   *)
(* call request_parent_review again), a worker whose instructed list is      *)
(* rejected can still repair it.                                             *)
RejectionIsRepairable ==
  InFinalize /\ ResultMode = "artifact" /\ ~ PreflightOK(InstructedList)
  => Allowlist(seen) \cap Repair # {}

(* If the graph has room for the nodes of the first turns, of which the one  *)
(* numbered FirstFinalize is a finalize turn at the latest (every turn that  *)
(* goes on has called a tool), the middleware has removed the exploration    *)
(* tools before the hard recursion limit is reached.                         *)
TurnNodes     == BeforeNodes + AfterNodes + 2
FirstFinalize == Least(FinModel, FinTool + 1)
Room(turns, limit) == StartNodes + TurnNodes * (turns - 1) + BeforeNodes < limit
FinalizeBeforeHardLimit ==
  pc = "recursion_error" /\ Room(FirstFinalize, RecursionLimit) => seen > 0
-----------------------------------------------------------------------------
(* Strengthenings the proofs use, checked with the properties they carry.    *)

(* Each tool call let through was counted, and none exceeded the threshold.  *)
BudgetInv == explored <= toolCalls /\ ExplorationBudget

(* What the turns so far have cost, and that the one numbered FirstFinalize  *)
(* was a finalize turn.                                                      *)
SuperstepInv ==
  LET before == StartNodes + TurnNodes * modelCalls
      within == before - AfterNodes - 1
  IN /\ pc = "model" => (steps = before) /\ modelCalls <= toolCalls
     /\ pc = "tools" =>
          /\ steps = within
          /\ modelCalls <= toolCalls + Cardinality({s \in Slots : stage[s] = "called"})
     /\ pc = "done" => steps = within
     /\ pc = "recursion_error" => \/ steps = before /\ ~ RoomForModel
                                  \/ steps = within /\ ~ RoomForTools
     /\ modelCalls >= FirstFinalize => seen > 0
=============================================================================
