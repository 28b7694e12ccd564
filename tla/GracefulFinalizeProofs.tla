------------------------ MODULE GracefulFinalizeProofs ------------------------
(* Proofs about GracefulFinalize for all values of its constants.            *)
EXTENDS GracefulFinalize, FiniteSetTheorems, TLAPS

ToolStep == 
  \/ \E s \in Slots : RunExplore(s)
  \/ \E s \in Slots : RunRepair(s)
  \/ \E s \in Slots : \E list \in SUBSET Files : RunReview(s, list)

K == Cardinality(Slots)

LEMMA Counted ==
  /\ K \in Nat
  /\ \A S \in SUBSET Slots : IsFiniteSet(S) /\ Cardinality(S) \in Nat /\ Cardinality(S) <= K
  /\ \A S \in SUBSET Slots : \A s \in S : Cardinality(S \ {s}) = Cardinality(S) - 1
<1>1. IsFiniteSet(Slots) /\ K \in Nat
  BY BudgetAssumption, FS_CardinalityType DEF K
<1>2. ASSUME NEW S \in SUBSET Slots
      PROVE  IsFiniteSet(S) /\ Cardinality(S) \in Nat /\ Cardinality(S) <= K
  BY <1>1, FS_Subset, FS_CardinalityType DEF K
<1>3. ASSUME NEW S \in SUBSET Slots, NEW s \in S
      PROVE  Cardinality(S \ {s}) = Cardinality(S) - 1
  BY <1>2, FS_RemoveElement
<1> QED
  BY <1>1, <1>2, <1>3

LEMMA Widths ==
  ASSUME NEW calls
  PROVE  /\ Width(calls) \in Nat /\ Width(calls) <= K
         /\ Width(calls) = 0 <=> \A s \in Slots : calls[s] = NoCall
<1> DEFINE made == {s \in Slots : calls[s] # NoCall}
<1>1. /\ IsFiniteSet(made) /\ Cardinality(made) \in Nat /\ Cardinality(made) <= K
      /\ made \in SUBSET Slots
  BY Counted
<1>2. Cardinality(made) = 0 <=> made = {}
  BY <1>1, FS_EmptySet
<1> QED
  BY <1>1, <1>2 DEF Width

(* What an attempt's contract determines stays.                              *)
LEMMA ContractStays ==
  ASSUME [Next]_vars
  PROVE  /\ UNCHANGED contract
         /\ UNCHANGED <<ResultMode, Policy, Expected, Files, Registered>>
<1>1. UNCHANGED contract
  BY DEF Next, vars
<1> QED
  BY <1>1 DEF ResultMode, Policy, Expected, Files, SelfCheckFiles, Registered

(* Readiness depends on the contract and the files alone.                    *)
LEMMA ReadyStays == ASSUME [Next]_vars, UNCHANGED files PROVE Ready' <=> Ready
BY ContractStays DEF Ready, SelfCheckReady

(* Every state of every attempt has its type (types of the counters, files,  *)
(* pending calls and of the tools offered).                                  *)
THEOREM TypeCorrect == Spec => []TypeOK
<1>1. Init => TypeOK
  <2> SUFFICES ASSUME Init PROVE TypeOK
    OBVIOUS
  <2> USE DEF Init
  <2>1. files \in [Files -> {"absent", "empty"} \cup ReportShapes \cup PlainShapes]
    OBVIOUS
  <2>2. turn \in [mode : {"normal", "warning", "finalize"},
                  offered : SUBSET Registered, ready : BOOLEAN]
    OBVIOUS
  <2>3. /\ call \in [Slots -> Registered \cup {NoCall}]
        /\ stage \in [Slots -> {"idle", "called", "admitted"}]
    OBVIOUS
  <2>4. {steps, modelCalls, toolCalls, seen, messages, answered, explored} \subseteq Nat
    BY BudgetAssumption
  <2>5. /\ lastReview \in SUBSET (Files \cup NoReview)
        /\ pc \in {"model", "tools", "done", "recursion_error"}
    OBVIOUS
  <2>6. warned \in BOOLEAN /\ widest \in Nat
    OBVIOUS
  <2> QED
    BY <2>1, <2>2, <2>3, <2>4, <2>5, <2>6 DEF TypeOK
<1>2. TypeOK /\ [Next]_vars => TypeOK'
  <2> SUFFICES ASSUME TypeOK, [Next]_vars PROVE TypeOK'
    OBVIOUS
  <2> USE ContractStays DEF TypeOK
  <2>1. ASSUME NEW calls \in [Slots -> Registered \cup {NoCall}], ModelTurn(calls)
        PROVE TypeOK'
    <3>1. ModeFor(modelCalls + 1, messages, toolCalls) \in {"normal", "warning", "finalize"}
      BY DEF ModeFor
    <3>2. turn' \in [mode : {"normal", "warning", "finalize"},
                     offered : SUBSET Registered, ready : BOOLEAN]
      <4>1. \A m, n : Offered(m, n) \in SUBSET Registered
        BY DEF Offered
      <4>2. Ready \in BOOLEAN
        BY DEF Ready
      <4> QED
        BY <2>1, <3>1, <4>1, <4>2 DEF ModelTurn
    <3>3. stage' \in [Slots -> {"idle", "called", "admitted"}]
      BY <2>1 DEF ModelTurn
    <3>4. {steps', modelCalls', toolCalls', seen', messages', answered', explored'} \subseteq Nat
      BY <2>1, BudgetAssumption DEF ModelTurn
    <3>5. widest' \in Nat
      BY <2>1, Widths DEF ModelTurn, Greatest
    <3>6. /\ call' \in [Slots -> Registered' \cup {NoCall}]
          /\ warned' \in BOOLEAN /\ UNCHANGED <<files, lastReview>>
      BY <2>1 DEF ModelTurn, agent
    <3>7. pc' \in {"model", "tools", "done", "recursion_error"}
      BY <2>1 DEF ModelTurn
    <3> QED
      BY <3>2, <3>3, <3>4, <3>5, <3>6, <3>7
  <2>2. ASSUME NEW s \in Slots, WrapToolCall(s) PROVE TypeOK'
    BY <2>2 DEF WrapToolCall, agent
  <2>3. ASSUME NEW s \in Slots, RunExplore(s) PROVE TypeOK'
    BY <2>3 DEF RunExplore, Answer, agent
  <2>4. ASSUME NEW s \in Slots, RunRepair(s) PROVE TypeOK'
    <3>1. files' \in [Files -> {"absent", "empty"} \cup ReportShapes \cup PlainShapes]
      BY <2>4 DEF RunRepair, Shapes, Contents
    <3> QED
      BY <2>4, <3>1 DEF RunRepair, Answer
  <2>5. ASSUME NEW s \in Slots, NEW list \in SUBSET Files, RunReview(s, list)
        PROVE TypeOK'
    BY <2>5 DEF RunReview, Answer
  <2>6. CASE EndToolTurn
    BY <2>6, BudgetAssumption DEF EndToolTurn, agent
  <2>7. CASE Summarize
    BY <2>7 DEF Summarize, agent
  <2>8. CASE RecursionError
    BY <2>8 DEF RecursionError, agent
  <2>9. CASE Stopped \/ UNCHANGED vars
    BY <2>9 DEF Stopped, vars
  <2> QED
    BY <2>1, <2>2, <2>3, <2>4, <2>5, <2>6, <2>7, <2>8, <2>9 DEF Next
<1> QED
  BY <1>1, <1>2, PTL DEF Spec

(* What the steps other than a model turn and a tool decision leave alone.   *)
LEMMA OtherSteps ==
  ASSUME [Next]_vars,
         ~ (\E calls \in [Slots -> Registered \cup {NoCall}] : ModelTurn(calls)),
         ~ (\E s \in Slots : WrapToolCall(s))
  PROVE  UNCHANGED <<modelCalls, toolCalls, seen, explored>>
BY DEF Next, RunExplore, RunRepair, RunReview, Answer, EndToolTurn, Summarize,
       RecursionError, Stopped, vars

(* Fewer exploration calls than FinTool are ever let through, whatever the   *)
(* worker calls, in whatever order its parallel calls are decided.           *)
THEOREM ExplorationBounded == Spec => []ExplorationBudget
<1>1. Init => BudgetInv
  BY BudgetAssumption DEF Init, BudgetInv, ExplorationBudget
<1>2. TypeOK /\ BudgetInv /\ [Next]_vars => BudgetInv'
  <2> SUFFICES ASSUME TypeOK, BudgetInv, [Next]_vars PROVE BudgetInv'
    OBVIOUS
  <2> USE BudgetAssumption DEF TypeOK, BudgetInv, ExplorationBudget
  <2>1. ASSUME NEW calls \in [Slots -> Registered \cup {NoCall}], ModelTurn(calls)
        PROVE BudgetInv'
    BY <2>1 DEF ModelTurn
  <2>2. ASSUME NEW s \in Slots, WrapToolCall(s) PROVE BudgetInv'
    <3>1. CASE ToolAdmitted(call[s], toolCalls + 1) /\ call[s] = Explore
      <4>1. Explore \notin Allowlist(seen)
        BY DEF Allowlist, Explore, Repair, Review
      <4>2. toolCalls + 1 < FinTool
        BY <3>1, <4>1 DEF ToolAdmitted, ModeFor
      <4> QED
        BY <2>2, <3>1, <4>2 DEF WrapToolCall
    <3>2. CASE ~ (ToolAdmitted(call[s], toolCalls + 1) /\ call[s] = Explore)
      BY <2>2, <3>2 DEF WrapToolCall
    <3> QED
      BY <3>1, <3>2
  <2> QED
    BY <2>1, <2>2, OtherSteps
<1>3. BudgetInv => ExplorationBudget
  BY DEF BudgetInv
<1> QED
  BY <1>1, <1>2, <1>3, TypeCorrect, PTL DEF Spec

(* After FinModel model calls no exploration call is let through.            *)
THEOREM ExplorationEnds == Spec => NoLateExploration
<1>1. TypeOK /\ [Next]_vars => [modelCalls >= FinModel => explored' = explored]_vars
  <2> SUFFICES ASSUME TypeOK, [Next]_vars, modelCalls >= FinModel
               PROVE explored' = explored
    BY DEF vars
  <2>1. ASSUME NEW calls \in [Slots -> Registered \cup {NoCall}], ModelTurn(calls)
        PROVE explored' = explored
    BY <2>1 DEF ModelTurn
  <2>2. ASSUME NEW s \in Slots, WrapToolCall(s) PROVE explored' = explored
    <3>1. Explore \notin Allowlist(seen)
      BY DEF Allowlist, Explore, Repair, Review
    <3>2. ~ (ToolAdmitted(call[s], toolCalls + 1) /\ call[s] = Explore)
      BY <3>1 DEF ToolAdmitted, ModeFor
    <3> QED
      BY <2>2, <3>2 DEF WrapToolCall
  <2> QED
    BY <2>1, <2>2, OtherSteps
<1> QED
  BY <1>1, TypeCorrect, PTL DEF Spec, NoLateExploration

(* Whatever the constants, a script profile locked into the review call by   *)
(* its readiness check passes the preflight of that call, apart from an      *)
(* empty plan and active content in an expected .md artifact.                *)
THEOREM ReadyIsReviewable == Spec => []ReadyMeansReviewable
<1>1. TypeOK => ReadyMeansReviewable
  <2> SUFFICES ASSUME TypeOK, Ready, Policy = "script", files["plan"] # "empty",
                      \A f \in MdExpected : ~ Blocked(files[f]),
                      NEW f \in InstructedList
               PROVE /\ files[f] \notin {"absent", "empty"}
                     /\ f \in MdFiles => ~ Blocked(files[f])
                     /\ f = "report" => ~ IsPending(files[f])
    BY DEF ReadyMeansReviewable, PreflightOK
  <2> USE DEF Ready, SelfCheckReady, IsPending, HasVerdict, Blocked
  <2>1. CASE f \in Expected
    BY <2>1 DEF MdFiles, SelfCheckFiles
  <2>2. CASE f \in {"plan", "report"}
    BY <2>2 DEF MdFiles, SelfCheckFiles
  <2> QED
    BY <2>1, <2>2 DEF InstructedList, Files, SelfCheckFiles
<1> QED
  BY <1>1, TypeCorrect, PTL

-----------------------------------------------------------------------------
(* The stages of the calls of a message: none is left when the model is next *)
(* to speak, and only a slot that carries a call has one.                    *)
StageInv ==
  /\ pc = "model" => \A s \in Slots : stage[s] = "idle"
  /\ \A s \in Slots : stage[s] # "idle" => call[s] # NoCall

LEMMA StageStep == TypeOK /\ StageInv /\ [Next]_vars => StageInv'
<1> SUFFICES ASSUME TypeOK, StageInv, [Next]_vars PROVE StageInv'
  OBVIOUS
<1> USE DEF TypeOK, StageInv
<1>1. ASSUME NEW calls \in [Slots -> Registered \cup {NoCall}], ModelTurn(calls)
      PROVE StageInv'
  BY <1>1 DEF ModelTurn
<1>2. ASSUME NEW s \in Slots, WrapToolCall(s) PROVE StageInv'
  BY <1>2 DEF WrapToolCall
<1>3. CASE ToolStep
  BY <1>3 DEF ToolStep, RunExplore, RunRepair, RunReview, Answer
<1>4. CASE EndToolTurn \/ Summarize \/ RecursionError \/ Stopped \/ UNCHANGED vars
  BY <1>4 DEF EndToolTurn, Summarize, RecursionError, Stopped, vars
<1> QED
  BY <1>1, <1>2, <1>3, <1>4 DEF Next, ToolStep

LEMMA StageInvariant == Spec => []StageInv
<1>1. Init => StageInv
  BY DEF Init, StageInv
<1> QED
  BY <1>1, StageStep, TypeCorrect, PTL DEF Spec

(* A call that is answered without having been let through was refused.      *)
LEMMA BlockedCall ==
  ASSUME TypeOK, StageInv, [Next]_vars, NEW s \in Slots, stage[s] = "called", stage'[s] = "idle"
  PROVE  WrapToolCall(s) /\ ~ ToolAdmitted(call[s], toolCalls + 1)
<1> USE DEF TypeOK
<1>1. PICK t \in Slots : WrapToolCall(t)
  <2>1. ASSUME NEW calls \in [Slots -> Registered \cup {NoCall}], ModelTurn(calls) PROVE FALSE
    BY <2>1 DEF ModelTurn, StageInv
  <2>2. ~ ToolStep
    BY DEF ToolStep, RunExplore, RunRepair, RunReview, Answer
  <2> QED
    BY <2>1, <2>2 DEF Next, ToolStep, EndToolTurn, Summarize, RecursionError, Stopped, vars
<1>2. t = s
  BY <1>1 DEF WrapToolCall
<1> QED
  BY <1>1, <1>2 DEF WrapToolCall

-----------------------------------------------------------------------------
(* What the turns have cost when their nodes have run, and that the turn     *)
(* numbered FirstFinalize is a finalize turn.                                *)
Called == {s \in Slots : stage[s] = "called"}

LEMMA CalledType ==
  /\ Called \in SUBSET Slots /\ Cardinality(Called) \in Nat
  /\ \A s \in Called : Cardinality(Called \ {s}) = Cardinality(Called) - 1
BY Counted DEF Called

LEMMA NodesType ==
  /\ TurnNodes \in Nat \ {0} /\ FirstFinalize \in Nat \ {0}
  /\ TurnNodes = BeforeNodes + AfterNodes + 2
  /\ \A n \in Nat : /\ TurnNodes * n \in Nat
                     /\ TurnNodes * (n + 1) = TurnNodes * n + TurnNodes
<1>1. TurnNodes \in Nat \ {0} /\ TurnNodes = BeforeNodes + AfterNodes + 2
  BY BudgetAssumption DEF TurnNodes
<1>2. FirstFinalize \in Nat \ {0}
  BY BudgetAssumption DEF FirstFinalize, Least
<1>3. ASSUME NEW t \in Nat, NEW n \in Nat
      PROVE  t * n \in Nat /\ t * (n + 1) = t * n + t
  OBVIOUS
<1> QED
  BY <1>1, <1>2, <1>3

LEMMA SuperstepStep == TypeOK /\ StageInv /\ SuperstepInv /\ [Next]_vars => SuperstepInv'
<1> SUFFICES ASSUME TypeOK, StageInv, SuperstepInv, [Next]_vars PROVE SuperstepInv'
  OBVIOUS
<1> DEFINE Before(m) == StartNodes + TurnNodes * m
           Within(m) == Before(m) - AfterNodes - 1
           Counts == /\ pc = "model" => (steps = Before(modelCalls)) /\ modelCalls <= toolCalls
                     /\ pc = "tools" => /\ steps = Within(modelCalls)
                                        /\ modelCalls <= toolCalls + Cardinality(Called)
                     /\ pc = "done" => steps = Within(modelCalls)
                     /\ pc = "recursion_error" =>
                          \/ steps = Before(modelCalls) /\ ~ RoomForModel
                          \/ steps = Within(modelCalls) /\ ~ RoomForTools
                     /\ modelCalls >= FirstFinalize => seen > 0
<1>0. SuperstepInv = Counts
  BY DEF SuperstepInv, Called
<1>00. SuperstepInv' = Counts'
  BY DEF SuperstepInv, Called
<1> SUFFICES Counts'
  BY <1>00
<1>a. Counts
  BY <1>0
<1>b. /\ modelCalls \in Nat /\ toolCalls \in Nat /\ steps \in Nat /\ seen \in Nat
      /\ Before(modelCalls) \in Nat
      /\ Before(modelCalls + 1) = Before(modelCalls) + TurnNodes
  <2>1. /\ modelCalls \in Nat /\ toolCalls \in Nat /\ steps \in Nat /\ seen \in Nat
        /\ StartNodes \in Nat
    BY BudgetAssumption DEF TypeOK
  <2>2. /\ TurnNodes * modelCalls \in Nat /\ TurnNodes \in Nat
        /\ TurnNodes * (modelCalls + 1) = TurnNodes * modelCalls + TurnNodes
    BY <2>1, NodesType
  <2> QED
    BY <2>1, <2>2
<1>c. Cardinality(Called) \in Nat /\ Cardinality(Called') \in Nat
  <2>1. Called' \in SUBSET Slots
    BY DEF Called
  <2> QED
    BY <2>1, CalledType, Counted
<1>1. ASSUME NEW calls \in [Slots -> Registered \cup {NoCall}], ModelTurn(calls)
      PROVE Counts'
  <2> DEFINE mode == ModeFor(modelCalls + 1, messages, toolCalls)
  <2>1. /\ pc = "model" /\ RoomForModel /\ modelCalls' = modelCalls + 1
        /\ steps' = steps + BeforeNodes + 1 /\ toolCalls' = toolCalls
        /\ seen' = (IF mode = "finalize" THEN seen + 1 ELSE seen)
        /\ pc' = IF Width(calls) > 0 THEN "tools"
                 ELSE IF steps' + AfterNodes <= RecursionLimit THEN "done"
                 ELSE "recursion_error"
    BY <1>1 DEF ModelTurn
  <2>2. steps' = Within(modelCalls')
    <3>1. steps = Before(modelCalls)
      BY <1>a, <2>1
    <3>2. /\ TurnNodes = BeforeNodes + AfterNodes + 2
          /\ BeforeNodes \in Nat /\ AfterNodes \in Nat
      BY BudgetAssumption DEF TurnNodes
    <3>3. Within(modelCalls') = Before(modelCalls + 1) - AfterNodes - 1
      BY <2>1
    <3> HIDE DEF Before, Within
    <3> QED
      BY <1>b, <2>1, <3>1, <3>2, <3>3
  <2>3. modelCalls <= toolCalls
    BY <1>a, <2>1
  <2>4. pc' = "tools" => modelCalls' <= toolCalls' + Cardinality(Called')
    <3>1. Width(calls) > 0 => Called' # {}
      BY <1>1, Widths DEF ModelTurn, Called
    <3>2. IsFiniteSet(Called')
      BY Counted DEF Called
    <3>3. Called' # {} => Cardinality(Called') # 0
      BY <3>2, FS_EmptySet
    <3> QED
      BY <1>b, <1>c, <2>1, <2>3, <3>1, <3>3
  <2>5. modelCalls' >= FirstFinalize => seen' > 0
    <3>1. ASSUME modelCalls + 1 >= FirstFinalize
          PROVE  modelCalls + 1 >= FinModel \/ toolCalls >= FinTool
      BY <1>b, <2>3, <3>1, BudgetAssumption DEF FirstFinalize, Least
    <3>2. ASSUME modelCalls + 1 >= FinModel \/ toolCalls >= FinTool PROVE seen' > 0
      <4>1. mode = "finalize"
        BY <3>2 DEF ModeFor
      <4> QED
        BY <1>b, <2>1, <4>1
    <3> QED
      BY <2>1, <3>1, <3>2
  <2>6. pc' = "recursion_error" => ~ RoomForTools'
    <3>1. pc' = "recursion_error" => ~ (steps' + AfterNodes <= RecursionLimit)
      BY <2>1
    <3> QED
      BY <1>b, <2>1, <3>1, BudgetAssumption DEF RoomForTools
  <2>7. pc' # "model"
    BY <2>1
  <2> HIDE DEF Before, Within
  <2> QED
    BY <2>2, <2>4, <2>5, <2>6, <2>7
<1>2. ASSUME NEW s \in Slots, WrapToolCall(s) PROVE Counts'
  <2>1. /\ pc = "tools" /\ toolCalls' = toolCalls + 1 /\ s \in Called
        /\ UNCHANGED <<pc, steps, modelCalls, seen>> /\ Called' = Called \ {s}
    BY <1>2 DEF WrapToolCall, Called, TypeOK
  <2>2. Cardinality(Called') = Cardinality(Called) - 1
    BY <2>1, CalledType
  <2> HIDE DEF Before, Within
  <2> QED
    BY <1>a, <1>b, <1>c, <2>1, <2>2
<1>3. CASE ToolStep
  <2>1. UNCHANGED <<pc, steps, modelCalls, toolCalls, seen>> /\ Called' = Called
    BY <1>3 DEF ToolStep, RunExplore, RunRepair, RunReview, Answer, Called, TypeOK
  <2> HIDE DEF Before, Within
  <2> QED
    BY <1>a, <2>1 DEF RoomForModel, RoomForTools
<1>4. CASE EndToolTurn
  <2>1. /\ pc = "tools" /\ pc' = "model" /\ steps' = steps + AfterNodes + 1
        /\ UNCHANGED <<modelCalls, toolCalls, seen>> /\ Called = {}
    BY <1>4 DEF EndToolTurn, Called
  <2>2. Cardinality(Called) = 0
    BY <2>1, FS_EmptySet
  <2>3. steps' = Before(modelCalls)
    BY <1>a, <1>b, <2>1, BudgetAssumption
  <2> HIDE DEF Before, Within
  <2> QED
    BY <1>a, <1>b, <2>1, <2>2, <2>3
<1>5. CASE Summarize
  <2>1. pc = "model" /\ UNCHANGED <<pc, steps, modelCalls, toolCalls, seen>>
    BY <1>5 DEF Summarize
  <2> HIDE DEF Before, Within
  <2> QED
    BY <1>a, <2>1
<1>6. CASE RecursionError
  <2>1. /\ \/ pc = "model" /\ ~ RoomForModel /\ ~ RoomForModel'
           \/ pc = "tools" /\ ~ RoomForTools /\ ~ RoomForTools'
        /\ pc' = "recursion_error" /\ UNCHANGED <<steps, modelCalls, toolCalls, seen>>
    BY <1>6 DEF RecursionError, RoomForModel, RoomForTools
  <2> HIDE DEF Before, Within
  <2> QED
    BY <1>a, <2>1
<1>7. CASE Stopped \/ UNCHANGED vars
  <2>1. UNCHANGED <<pc, steps, modelCalls, toolCalls, seen, stage>>
    BY <1>7 DEF Stopped, vars
  <2> HIDE DEF Before, Within
  <2> QED
    BY <1>a, <2>1 DEF RoomForModel, RoomForTools, Called
<1> QED
  BY <1>1, <1>2, <1>3, <1>4, <1>5, <1>6, <1>7 DEF Next, ToolStep

(* What has been spent when the limit is hit, and in any state.              *)
LEMMA SpentSteps ==
  ASSUME SuperstepInv
  PROVE  LET before == StartNodes + TurnNodes * modelCalls
             within == before - AfterNodes - 1
         IN /\ pc = "recursion_error" => \/ steps = before /\ ~ RoomForModel
                                         \/ steps = within /\ ~ RoomForTools
            /\ pc \in {"model", "tools", "done", "recursion_error"} =>
                 steps = before \/ steps = within
BY DEF SuperstepInv

LEMMA SuperstepInvariant == Spec => []SuperstepInv
<1>1. Init => SuperstepInv
  <2>1. \A n \in Nat : TurnNodes * n \in Nat
    BY NodesType
  <2>2. TurnNodes * 0 = 0
    BY NodesType
  <2> QED
    BY <2>2, NodesType, BudgetAssumption DEF Init, SuperstepInv
<1> QED
  BY <1>1, SuperstepStep, StageInvariant, TypeCorrect, PTL DEF Spec

(* Whatever the graph spends on a turn, an attempt that hits the hard        *)
(* recursion limit has had a finalize turn before, if the limit has room for *)
(* as many turns as it takes to the first threshold.                         *)
THEOREM FinalizeComesFirst == Spec => []FinalizeBeforeHardLimit
<1>1. TypeOK /\ SuperstepInv => FinalizeBeforeHardLimit
  <2> SUFFICES ASSUME TypeOK, SuperstepInv, pc = "recursion_error",
                      Room(FirstFinalize, RecursionLimit), ~ (modelCalls >= FirstFinalize)
               PROVE  FALSE
    BY DEF SuperstepInv, FinalizeBeforeHardLimit
  <2> DEFINE turns == FirstFinalize - 1
             before == TurnNodes * modelCalls
             spent == TurnNodes * turns
  <2>1. modelCalls \in Nat /\ turns \in Nat /\ modelCalls <= turns /\ steps \in Nat
    BY NodesType DEF TypeOK
  <2>2. before \in Nat /\ spent \in Nat /\ before <= spent
    <3>1. ASSUME NEW t \in Nat, NEW a \in Nat, NEW b \in Nat, a <= b
          PROVE  t * a \in Nat /\ t * b \in Nat /\ t * a <= t * b
      <4>1. t * b = t * a + t * (b - a) /\ t * (b - a) \in Nat /\ t * a \in Nat
        BY <3>1
      <4> QED
        BY <4>1
    <3> QED
      BY <2>1, <3>1, NodesType
  <2>3. StartNodes + spent + BeforeNodes < RecursionLimit
    BY DEF Room
  <2>4. \/ steps = StartNodes + before /\ ~ (steps + BeforeNodes < RecursionLimit)
        \/ /\ steps = (StartNodes + before) - AfterNodes - 1
           /\ ~ (steps + AfterNodes < RecursionLimit)
    BY SpentSteps DEF RoomForModel, RoomForTools
  <2> HIDE DEF before, spent
  <2> QED
    BY <2>1, <2>2, <2>3, <2>4, BudgetAssumption
<1> QED
  BY <1>1, SuperstepInvariant, TypeCorrect, PTL

-----------------------------------------------------------------------------
(* What a finalize turn offered is the allowlist of the count of turns it    *)
(* saw and of the readiness it saw.                                          *)
OfferInv ==
  turn.mode = "finalize" =>
    turn.offered = Registered \cap
      (IF seen < StrictAfter THEN Repair \cup {Review}
       ELSE IF turn.ready THEN {Review} ELSE Repair)

LEMMA OfferStep == TypeOK /\ OfferInv /\ [Next]_vars => OfferInv'
<1> SUFFICES ASSUME TypeOK, OfferInv, [Next]_vars PROVE OfferInv'
  OBVIOUS
<1>1. ASSUME NEW calls \in [Slots -> Registered \cup {NoCall}], ModelTurn(calls)
      PROVE OfferInv'
  BY <1>1, ContractStays DEF ModelTurn, Offered, Allowlist, OfferInv
<1>2. CASE UNCHANGED <<turn, seen>>
  BY <1>2, ContractStays DEF OfferInv
<1> QED
  BY <1>1, <1>2 DEF Next, WrapToolCall, RunExplore, RunRepair, RunReview, Answer, EndToolTurn,
     Summarize, RecursionError, Stopped, vars

(* For any thresholds, any number of parallel calls and any order of their   *)
(* decisions, a finalize turn's offer is honoured unless the readiness of    *)
(* the artifacts has changed since.                                          *)
THEOREM OffersAreHonoured == Spec => OfferIsHonoured
<1>1. Init => OfferInv
  BY DEF Init, OfferInv
<1>2. TypeOK /\ StageInv /\ OfferInv /\ [Next]_vars => [HonoursOffer]_vars
  <2> SUFFICES ASSUME TypeOK, StageInv, OfferInv, [Next]_vars, NEW s \in Slots,
                      stage[s] = "called", stage'[s] = "idle",
                      turn.mode = "finalize", turn.ready = Ready
               PROVE  call[s] \notin turn.offered
    BY DEF HonoursOffer
  <2>1. call[s] \notin Allowlist(seen)
    BY BlockedCall DEF ToolAdmitted
  <2>2. turn.offered = Registered \cap Allowlist(seen)
    BY DEF OfferInv, Allowlist
  <2> QED
    BY <2>1, <2>2
<1> QED
  BY <1>1, <1>2, OfferStep, StageInvariant, TypeCorrect, PTL DEF Spec, OfferIsHonoured

-----------------------------------------------------------------------------
(* The counters that put a turn into finalize keep it there to its end, and  *)
(* a lone review call that was let through saw its artifacts ready.          *)
LateInv ==
  pc = "tools" /\ turn.mode = "finalize" =>
    modelCalls >= FinModel \/ toolCalls >= FinTool \/ messages >= FinMsg

ReviewInv ==
  SingleCall /\ seen >= StrictAfter /\ turn.mode = "finalize" =>
    \A s \in Slots : stage[s] = "admitted" /\ call[s] = Review => Ready

LEMMA LateStep == TypeOK /\ LateInv /\ [Next]_vars => LateInv'
<1> SUFFICES ASSUME TypeOK, LateInv, [Next]_vars PROVE LateInv'
  OBVIOUS
<1> USE BudgetAssumption DEF TypeOK, LateInv
<1>1. ASSUME NEW calls \in [Slots -> Registered \cup {NoCall}], ModelTurn(calls)
      PROVE LateInv'
  BY <1>1 DEF ModelTurn, ModeFor
<1>2. ASSUME NEW s \in Slots, WrapToolCall(s) PROVE LateInv'
  BY <1>2 DEF WrapToolCall
<1>3. CASE ToolStep
  BY <1>3 DEF ToolStep, RunExplore, RunRepair, RunReview, Answer
<1>4. CASE EndToolTurn \/ Summarize \/ RecursionError \/ Stopped \/ UNCHANGED vars
  BY <1>4 DEF EndToolTurn, Summarize, RecursionError, Stopped, vars
<1> QED
  BY <1>1, <1>2, <1>3, <1>4 DEF Next, ToolStep

LEMMA LoneCall ==
  ASSUME SingleCall, NEW s \in Slots, NEW t \in Slots, call[s] # NoCall, call[t] # NoCall
  PROVE  s = t
<1> DEFINE made == {u \in Slots : call[u] # NoCall}
<1>1. IsFiniteSet(made)
  BY BudgetAssumption, FS_Subset
<1>2. PICK x : made = {x}
  BY <1>1, FS_Singleton DEF SingleCall
<1> QED
  BY <1>2

LEMMA ReviewStep ==
  TypeOK /\ StageInv /\ LateInv /\ ReviewInv /\ [Next]_vars => ReviewInv'
<1> SUFFICES ASSUME TypeOK, StageInv, LateInv, ReviewInv, [Next]_vars PROVE ReviewInv'
  OBVIOUS
<1> USE BudgetAssumption DEF TypeOK
<1>1. ASSUME NEW calls \in [Slots -> Registered \cup {NoCall}], ModelTurn(calls)
      PROVE ReviewInv'
  BY <1>1 DEF ModelTurn, ReviewInv
<1>2. ASSUME NEW s \in Slots, WrapToolCall(s) PROVE ReviewInv'
  <2> SUFFICES ASSUME SingleCall, seen >= StrictAfter, turn.mode = "finalize",
                      NEW t \in Slots, stage'[t] = "admitted", call[t] = Review
               PROVE  Ready'
    BY <1>2 DEF WrapToolCall, ReviewInv, SingleCall
  <2>1. files' = files /\ (Ready' <=> Ready)
    BY <1>2, ReadyStays DEF WrapToolCall, agent
  <2>2. CASE t = s
    <3>1. ToolAdmitted(Review, toolCalls + 1)
      BY <1>2, <2>2 DEF WrapToolCall
    <3>2. ModeFor(modelCalls, messages, toolCalls + 1) = "finalize"
      BY <1>2 DEF WrapToolCall, LateInv, ModeFor
    <3>3. Review \in Allowlist(seen)
      BY <3>1, <3>2 DEF ToolAdmitted
    <3> QED
      BY <2>1, <3>3 DEF Allowlist, Review, Repair
  <2>3. CASE t # s
    BY <1>2, <2>1, <2>3 DEF WrapToolCall, ReviewInv
  <2> QED
    BY <2>2, <2>3
<1>3. ASSUME NEW s \in Slots, Answer(s), UNCHANGED files PROVE ReviewInv'
  BY <1>3, ReadyStays DEF Answer, ReviewInv, SingleCall
<1>4. ASSUME NEW s \in Slots, RunRepair(s) PROVE ReviewInv'
  <2>1. /\ Answer(s) /\ call[s] \in Repair /\ call[s] # NoCall
        /\ UNCHANGED <<call, seen, turn>>
    BY <1>4 DEF RunRepair, Answer, Repair, NoCall
  <2>2. ASSUME SingleCall, NEW t \in Slots, stage'[t] = "admitted", call[t] = Review
        PROVE  FALSE
    <3>1. call[t] # NoCall
      BY <2>2 DEF Review, NoCall
    <3>2. t = s
      BY <2>1, <2>2, <3>1, LoneCall
    <3> QED
      BY <2>1, <2>2, <3>2 DEF Review, Repair
  <2> QED
    BY <2>1, <2>2 DEF ReviewInv, SingleCall
<1>5. CASE EndToolTurn
  BY <1>5 DEF EndToolTurn, ReviewInv
<1>6. CASE Summarize \/ RecursionError \/ Stopped \/ UNCHANGED vars
  <2>1. UNCHANGED <<files, call, seen, stage, turn>>
    BY <1>6 DEF Summarize, RecursionError, Stopped, vars, agent
  <2> QED
    BY <2>1, ReadyStays DEF ReviewInv, SingleCall
<1> QED
  BY <1>1, <1>2, <1>3, <1>4, <1>5, <1>6 DEF Next, RunExplore, RunReview, agent

(* Whatever the thresholds and the contract, a worker that makes one call at *)
(* a time and is past StrictAfter finalize turns records a review request    *)
(* only while its artifacts look ready.                                      *)
THEOREM StrictReviewsAreReady == Spec => StrictReviewIsReady
<1>1. Init => LateInv /\ ReviewInv
  BY DEF Init, LateInv, ReviewInv
<1>2. TypeOK /\ ReviewInv /\ [Next]_vars =>
        [/\ lastReview' # lastReview /\ SingleCall
         /\ seen >= StrictAfter /\ turn.mode = "finalize"
         => Ready]_vars
  <2> SUFFICES ASSUME TypeOK, ReviewInv, [Next]_vars, lastReview' # lastReview, SingleCall,
                      seen >= StrictAfter, turn.mode = "finalize"
               PROVE  Ready
    OBVIOUS
  <2>1. PICK s \in Slots, l \in SUBSET Files : RunReview(s, l)
    BY DEF Next, ModelTurn, WrapToolCall, RunExplore, RunRepair, Answer, EndToolTurn, Summarize,
       RecursionError, Stopped, vars, agent
  <2> QED
    BY <2>1 DEF RunReview, Answer, ReviewInv
<1> QED
  BY <1>1, <1>2, LateStep, ReviewStep, StageInvariant, TypeCorrect, PTL
  DEF Spec, StrictReviewIsReady

-----------------------------------------------------------------------------
(* How far the counters can get before the worker is warned.  A normal turn  *)
(* starts below the warning thresholds, and its message adds at most one     *)
(* tool call and one tool message for each of its calls.                     *)
Open   == {s \in Slots : stage[s] # "idle"}

Unwarned ==
  /\ modelCalls < WarnModel
  /\ toolCalls + Cardinality(Called) < WarnTool + widest
  /\ pc = "tools" => messages <= WarnMsg /\ answered + Cardinality(Open) <= widest
  /\ pc = "model" => messages <= WarnMsg + widest

WarnInv == warned \/ ~ NoLeap \/ Unwarned

LEMMA WidestGrows ==
  ASSUME TypeOK, [Next]_vars
  PROVE  widest' \in Nat /\ widest <= widest' /\ (NoLeap' => NoLeap)
<1>1. widest' \in Nat /\ widest \in Nat /\ widest <= widest'
  <2>1. ASSUME NEW calls \in [Slots -> Registered \cup {NoCall}], ModelTurn(calls)
        PROVE  widest' \in Nat /\ widest <= widest'
    BY <2>1, Widths DEF ModelTurn, Greatest, TypeOK
  <2>2. ASSUME ~ (\E calls \in [Slots -> Registered \cup {NoCall}] : ModelTurn(calls))
        PROVE  UNCHANGED widest
    BY <2>2 DEF Next, WrapToolCall, RunExplore, RunRepair, RunReview, Answer, EndToolTurn,
       Summarize, RecursionError, Stopped, vars
  <2> QED
    BY <2>1, <2>2 DEF TypeOK
<1> QED
  BY <1>1, BudgetAssumption DEF NoLeap

LEMMA WarnedIsKept == [Next]_vars => (warned => warned')
<1>1. ASSUME NEW calls \in [Slots -> Registered \cup {NoCall}], ModelTurn(calls), warned
      PROVE warned'
  <2>1. warned' = (warned \/ ModeFor(modelCalls + 1, messages, toolCalls) = "warning")
    BY <1>1 DEF ModelTurn
  <2> QED
    BY <1>1, <2>1, Zenon
<1>2. ASSUME NEW s \in Slots, WrapToolCall(s) \/ Answer(s)
      PROVE UNCHANGED warned
  BY <1>2 DEF WrapToolCall, Answer
<1>3. CASE EndToolTurn \/ Summarize \/ RecursionError
  BY <1>3 DEF EndToolTurn, Summarize, RecursionError
<1>4. CASE Stopped \/ UNCHANGED vars
  BY <1>4 DEF Stopped, vars
<1> QED
  BY <1>1, <1>2, <1>3, <1>4 DEF Next, RunExplore, RunRepair, RunReview

LEMMA WarnStep == TypeOK /\ StageInv /\ WarnInv /\ [Next]_vars => WarnInv'
<1> SUFFICES ASSUME TypeOK, StageInv, WarnInv, [Next]_vars, ~ warned', NoLeap'
             PROVE  Unwarned'
  BY DEF WarnInv
<1>n. Unwarned /\ ~ warned /\ NoLeap
  BY WarnedIsKept, WidestGrows DEF WarnInv
<1>w. widest' \in Nat /\ widest \in Nat /\ widest <= widest'
  BY WidestGrows DEF TypeOK
<1> USE BudgetAssumption, Counted DEF TypeOK
<1>0. Called \in SUBSET Slots /\ Open \in SUBSET Slots
  BY DEF Called, Open
<1>1. ASSUME NEW calls \in [Slots -> Registered \cup {NoCall}], ModelTurn(calls)
      PROVE Unwarned'
  <2>1. Called' \in SUBSET Slots /\ Open' \in SUBSET Slots
    BY DEF Called, Open
  <2>2. ModeFor(modelCalls + 1, messages, toolCalls) # "warning"
    BY <1>1 DEF ModelTurn
  <2>5. /\ Cardinality(Called') <= widest' /\ Cardinality(Open') <= widest'
        /\ Cardinality(Called') \in Nat /\ Cardinality(Open') \in Nat
    <3>1. widest' = Greatest(widest, Width(calls))
      BY <1>1 DEF ModelTurn
    <3>2. Width(calls) <= widest'
      BY <1>w, <3>1, Widths DEF Greatest
    <3>3. /\ Called' = {s \in Slots : calls[s] # NoCall}
          /\ Open' = {s \in Slots : calls[s] # NoCall}
      BY <1>1 DEF ModelTurn, Called, Open
    <3> QED
      BY <2>1, <3>2, <3>3 DEF Width
  <2>3. modelCalls + 1 < WarnModel /\ messages < WarnMsg /\ toolCalls < WarnTool
    <3>1. modelCalls + 1 < FinModel /\ toolCalls < FinTool /\ messages < FinMsg
      BY <1>0, <1>1, <1>n, <1>w DEF ModelTurn, Unwarned, NoLeap
    <3> QED
      BY <2>2, <3>1 DEF ModeFor
  <2>4. /\ modelCalls' = modelCalls + 1 /\ toolCalls' = toolCalls /\ messages' = messages + 1
        /\ answered' = 0 /\ pc' \in {"tools", "done", "recursion_error"}
    BY <1>1 DEF ModelTurn
  <2> QED
    BY <1>w, <2>3, <2>4, <2>5 DEF Unwarned
<1>2. ASSUME NEW s \in Slots, WrapToolCall(s) PROVE Unwarned'
  <2>1. /\ modelCalls' = modelCalls /\ toolCalls' = toolCalls + 1 /\ messages' = messages
        /\ pc = "tools" /\ pc' = "tools" /\ stage[s] = "called"
        /\ \/ stage' = [stage EXCEPT ![s] = "admitted"] /\ answered' = answered
           \/ stage' = [stage EXCEPT ![s] = "idle"] /\ answered' = answered + 1
    BY <1>2 DEF WrapToolCall
  <2>2. s \in Called /\ Called' = Called \ {s}
    BY <2>1 DEF Called
  <2>3. s \in Open
    BY <2>1 DEF Open
  <2>4. answered' + Cardinality(Open') <= widest
    <3>1. Cardinality(Open \ {s}) = Cardinality(Open) - 1 /\ Cardinality(Open) \in Nat
      BY <1>0, <2>3
    <3>2. answered + Cardinality(Open) <= widest /\ answered \in Nat
      BY <1>n, <2>1 DEF Unwarned
    <3>3. CASE stage' = [stage EXCEPT ![s] = "admitted"] /\ answered' = answered
      <4>1. Open' = Open
        BY <2>1, <3>3 DEF Open
      <4> QED
        BY <3>2, <3>3, <4>1
    <3>4. CASE stage' = [stage EXCEPT ![s] = "idle"] /\ answered' = answered + 1
      <4>1. Open' = Open \ {s}
        BY <2>1, <3>4 DEF Open
      <4>2. Cardinality(Open') = Cardinality(Open) - 1
        BY <3>1, <4>1
      <4> QED
        BY <3>1, <3>2, <3>4, <4>2
    <3> QED
      BY <2>1, <3>3, <3>4
  <2>5. toolCalls' + Cardinality(Called') < WarnTool + widest
    <3>1. Cardinality(Called \ {s}) = Cardinality(Called) - 1 /\ Cardinality(Called) \in Nat
      BY <1>0, <2>2
    <3> QED
      BY <1>n, <2>1, <2>2, <3>1 DEF Unwarned
  <2>6. widest' = widest
    BY <1>2 DEF WrapToolCall
  <2> QED
    BY <1>n, <2>1, <2>4, <2>5, <2>6 DEF Unwarned
<1>3. ASSUME NEW s \in Slots, Answer(s) PROVE Unwarned'
  <2>1. /\ UNCHANGED <<modelCalls, toolCalls, messages, pc, widest>> /\ pc = "tools"
        /\ stage[s] = "admitted" /\ stage' = [stage EXCEPT ![s] = "idle"]
        /\ answered' = answered + 1
    BY <1>3 DEF Answer
  <2>2. Called' = Called
    BY <2>1 DEF Called
  <2>3. s \in Open /\ Open' = Open \ {s}
    BY <2>1 DEF Open
  <2>4. Cardinality(Open \ {s}) = Cardinality(Open) - 1 /\ Cardinality(Open) \in Nat
    BY <1>0, <2>3
  <2> QED
    BY <1>n, <1>w, <2>1, <2>2, <2>3, <2>4 DEF Unwarned
<1>4. CASE EndToolTurn
  <2>1. /\ UNCHANGED <<modelCalls, toolCalls, stage, widest>>
        /\ pc = "tools" /\ pc' = "model"
        /\ messages' = messages + answered
    BY <1>4 DEF EndToolTurn
  <2>2. Called' = Called /\ Cardinality(Open) \in Nat
    BY <1>0, <2>1 DEF Called
  <2> QED
    BY <1>n, <1>w, <2>1, <2>2 DEF Unwarned
<1>5. CASE Summarize \/ RecursionError
  <2>1. /\ UNCHANGED <<modelCalls, toolCalls, stage, widest>>
        /\ \/ pc = "model" /\ pc' = "model" /\ messages' <= messages
           \/ pc' = "recursion_error"
    BY <1>5 DEF Summarize, RecursionError
  <2>2. Called' = Called
    BY <2>1 DEF Called
  <2>3. messages' \in Nat
    BY <1>5 DEF Summarize, RecursionError
  <2> QED
    BY <1>n, <1>w, <2>1, <2>2, <2>3 DEF Unwarned
<1>6. CASE Stopped \/ UNCHANGED vars
  <2>1. UNCHANGED <<modelCalls, toolCalls, messages, stage, answered, widest, pc>>
    BY <1>6 DEF Stopped, vars
  <2>2. Called' = Called /\ Open' = Open
    BY <2>1 DEF Called, Open
  <2> QED
    BY <1>n, <2>1, <2>2 DEF Unwarned
<1> QED
  BY <1>1, <1>2, <1>3, <1>4, <1>5, <1>6 DEF Next, RunExplore, RunRepair, RunReview

(* However many calls the messages carry, no turn is narrowed and no call is *)
(* blocked before a turn in which the worker was warned, unless some message *)
(* so far had more calls than lie between two thresholds.                    *)
THEOREM WarningsComeFirst == Spec => WarnedBeforeRestricted
<1>1. Init => WarnInv
  <2> SUFFICES ASSUME Init PROVE Unwarned
    BY DEF WarnInv
  <2>1. Called = {} /\ Cardinality(Called) = 0
    BY FS_EmptySet DEF Init, Called
  <2> QED
    BY <2>1, BudgetAssumption DEF Init, Unwarned
<1>2. TypeOK /\ StageInv /\ WarnInv /\ [Next]_vars => WarnInv'
  BY WarnStep
<1>3. TypeOK /\ StageInv /\ WarnInv /\ [Next]_vars =>
        [Restricts /\ NoLeap' => warned]_vars
  <2> SUFFICES ASSUME TypeOK, StageInv, WarnInv, [Next]_vars, NoLeap', ~ warned
               PROVE  /\ ~ (seen' > seen)
                      /\ \A s \in Slots : stage[s] = "called" => stage'[s] # "idle"
    BY DEF Restricts
  <2>n. Unwarned /\ NoLeap /\ widest \in Nat
    BY WidestGrows DEF WarnInv, TypeOK
  <2> USE BudgetAssumption DEF TypeOK
  <2>0. Cardinality(Called) \in Nat
    BY CalledType
  <2>1. ASSUME NEW calls \in [Slots -> Registered \cup {NoCall}], ModelTurn(calls)
        PROVE  seen' = seen
    <3>1. modelCalls + 1 < FinModel /\ toolCalls < FinTool /\ messages < FinMsg
      BY <2>0, <2>1, <2>n DEF ModelTurn, Unwarned, NoLeap
    <3> QED
      BY <2>1, <3>1 DEF ModelTurn, ModeFor
  <2>2. ~ (seen' > seen)
    <3>1. seen' = seen
      BY <2>1 DEF Next, WrapToolCall, RunExplore, RunRepair, RunReview, Answer, EndToolTurn,
         Summarize, RecursionError, Stopped, vars
    <3> QED
      BY <3>1
  <2>3. ASSUME NEW s \in Slots, stage[s] = "called", stage'[s] = "idle" PROVE FALSE
    <3>1. WrapToolCall(s) /\ ModeFor(modelCalls, messages, toolCalls + 1) = "finalize"
      BY <2>3, BlockedCall DEF ToolAdmitted
    <3>2. s \in Called
      BY <2>3 DEF Called
    <3>3. Cardinality(Called) - 1 \in Nat
      <4>1. Cardinality(Called \ {s}) = Cardinality(Called) - 1 /\ Called \ {s} \in SUBSET Slots
        BY <3>2, CalledType
      <4> QED
        BY <4>1, Counted
    <3>4. toolCalls + 1 < FinTool
      BY <2>0, <2>n, <3>3 DEF Unwarned, NoLeap
    <3>5. modelCalls < FinModel /\ messages < FinMsg
      BY <2>n, <3>1 DEF WrapToolCall, Unwarned, NoLeap
    <3> QED
      BY <3>1, <3>4, <3>5 DEF ModeFor
  <2> QED
    BY <2>2, <2>3
<1> QED
  BY <1>1, <1>2, <1>3, StageInvariant, TypeCorrect, PTL DEF Spec, WarnedBeforeRestricted

-----------------------------------------------------------------------------
(* The thresholds the runner derives when a profile sets none.               *)

LEMMA SevenTenths ==
  ASSUME NEW n \in Nat
  PROVE  (n * 70) \div 100 \in Nat /\ 100 * ((n * 70) \div 100) <= 70 * n
BY SMT

(* Whatever the recursion limit, each warning comes before its finalize      *)
(* threshold, with room for a message of two calls between them; and a limit *)
(* that has room for the nodes of six turns, of six nodes at most, has room  *)
(* for the turns up to the first finalize threshold.                         *)
THEOREM DerivedThresholdsFit ==
  ASSUME NEW limit \in Nat
  PROVE  LET t == Thresholds(limit) IN
         /\ 0 < t.warnModel /\ t.warnModel < t.finModel
         /\ 0 < t.warnTool /\ t.warnTool + 2 <= t.finTool
         /\ 0 < t.warnMsg /\ t.warnMsg + 2 < t.finMsg
         /\ /\ TurnNodes <= 6 /\ StartNodes <= 3
            /\ limit >= StartNodes + 6 * TurnNodes
            => Room(Least(t.finModel, t.finTool + 1), limit)
<1> DEFINE safe == Greatest(10, limit)
           m == (safe * 16) \div 100
           model == Clamp(6, 30, m)
           tool == Clamp(6, 16, (safe * 12) \div 100)
           msg == Clamp(20, 60, (safe * 38) \div 100)
<1>1. safe \in Nat /\ safe >= 10 /\ (limit >= 10 => safe = limit)
  BY DEF Greatest
<1>2. /\ m \in Nat /\ 100 * m <= 16 * safe
      /\ (safe * 12) \div 100 \in Nat /\ (safe * 38) \div 100 \in Nat
  <2> HIDE DEF safe
  <2> QED
    BY <1>1, SMT
<1>3. /\ model \in 6 .. 30 /\ (m >= 6 => model <= m)
      /\ tool \in 6 .. 16 /\ msg \in 20 .. 60
  <2>1. ASSUME NEW n \in Nat
        PROVE  /\ Clamp(6, 30, n) \in 6 .. 30 /\ (n >= 6 => Clamp(6, 30, n) <= n)
               /\ Clamp(6, 16, n) \in 6 .. 16
               /\ Clamp(20, 60, n) \in 20 .. 60
    BY DEF Clamp, Greatest, Least
  <2> DEFINE p == (safe * 12) \div 100
             q == (safe * 38) \div 100
  <2>2. m \in Nat /\ p \in Nat /\ q \in Nat
    BY <1>2
  <2>3. /\ Clamp(6, 30, m) \in 6 .. 30 /\ (m >= 6 => Clamp(6, 30, m) <= m)
        /\ Clamp(6, 16, p) \in 6 .. 16
        /\ Clamp(20, 60, q) \in 20 .. 60
    <3> HIDE DEF safe, m, p, q
    <3> QED
      BY <2>1, <2>2
  <2> QED
    BY <2>3
<1>4. ASSUME NEW first \in Nat \ {0}, first <= model, TurnNodes <= 6, StartNodes <= 3,
             limit >= StartNodes + 6 * TurnNodes
      PROVE  Room(first, limit)
  <2> HIDE DEF safe, m, model
  <2>1. /\ TurnNodes \in Nat /\ BeforeNodes \in Nat /\ StartNodes \in Nat
        /\ BeforeNodes <= TurnNodes - 2 /\ TurnNodes >= 3 /\ model \in Nat
    BY <1>3, BudgetAssumption DEF TurnNodes
  <2>2. safe = limit
    BY <1>1, <1>4, <2>1
  <2>3. model <= 6 \/ (6 < model /\ model <= m)
    <3>1. CASE m >= 6
      BY <1>2, <1>3, <3>1
    <3>2. CASE m < 6
      BY <1>2, <3>2 DEF model, Clamp, Greatest, Least
    <3> QED
      BY <1>2, <3>1, <3>2
  <2>4. ASSUME NEW t \in 3 .. 6
        PROVE  t * (first - 1) <= t * model - t /\ t * (first - 1) \in Nat
    <3>1. t = 3 \/ t = 4 \/ t = 5 \/ t = 6
      OBVIOUS
    <3> QED
      BY <1>4, <2>1, <3>1
  <2>5. ASSUME NEW t \in 3 .. 6, model <= 6 PROVE t * model <= 6 * t
    <3>1. t = 3 \/ t = 4 \/ t = 5 \/ t = 6
      OBVIOUS
    <3> QED
      BY <2>1, <2>5, <3>1
  <2>6. ASSUME NEW t \in 3 .. 6 PROVE t * model <= 6 * model /\ t * model \in Nat
    <3>1. t = 3 \/ t = 4 \/ t = 5 \/ t = 6
      OBVIOUS
    <3> QED
      BY <2>1, <3>1
  <2> DEFINE spent == TurnNodes * (first - 1)
             all == TurnNodes * model
  <2>7. /\ spent \in Nat /\ all \in Nat /\ spent <= all - TurnNodes
        /\ all <= 6 * model /\ (model <= 6 => all <= 6 * TurnNodes)
    BY <1>4, <2>1, <2>4, <2>5, <2>6
  <2> SUFFICES StartNodes + spent + BeforeNodes < limit
    BY DEF Room
  <2> HIDE DEF spent, all
  <2>8. CASE model <= 6
    BY <1>4, <2>1, <2>7, <2>8
  <2>9. CASE 6 < model /\ model <= m
    BY <1>2, <1>4, <2>1, <2>2, <2>7, <2>9
  <2> QED
    BY <2>3, <2>8, <2>9
<1> HIDE DEF safe, m, model, tool, msg
<1>5. ASSUME NEW n \in 6 .. 60
      PROVE  /\ Greatest(4, (n * 70) \div 100) >= 4
             /\ Greatest(4, (n * 70) \div 100) + 2 <= n
             /\ n >= 20 => Greatest(12, (n * 70) \div 100) + 2 < n
                            /\ Greatest(12, (n * 70) \div 100) >= 12
  BY SevenTenths DEF Greatest
<1>6. Thresholds(limit) =
        [finModel |-> model, warnModel |-> Greatest(4, (model * 70) \div 100),
         finTool  |-> tool,  warnTool  |-> Greatest(4, (tool * 70) \div 100),
         finMsg   |-> msg,   warnMsg   |-> Greatest(12, (msg * 70) \div 100)]
  BY DEF Thresholds, safe, m, model, tool, msg
<1>7. /\ model \in 6 .. 60 /\ tool \in 6 .. 60 /\ msg \in 6 .. 60 /\ msg >= 20
  BY <1>3
<1> DEFINE t == Thresholds(limit)
<1>8. /\ t.finModel = model /\ t.warnModel = Greatest(4, (model * 70) \div 100)
      /\ t.finTool = tool /\ t.warnTool = Greatest(4, (tool * 70) \div 100)
      /\ t.finMsg = msg /\ t.warnMsg = Greatest(12, (msg * 70) \div 100)
  BY <1>6
<1>9. /\ \A n \in {model, tool, msg} : (n * 70) \div 100 \in Nat
      /\ Greatest(4, (model * 70) \div 100) \in Nat
      /\ Greatest(4, (tool * 70) \div 100) \in Nat
      /\ Greatest(12, (msg * 70) \div 100) \in Nat
  BY <1>7, SevenTenths DEF Greatest
<1> HIDE DEF t
<1>10. 0 < t.warnModel /\ t.warnModel < t.finModel
  BY <1>5, <1>7, <1>8, <1>9
<1>11. 0 < t.warnTool /\ t.warnTool + 2 <= t.finTool
  BY <1>5, <1>7, <1>8, <1>9
<1>12. 0 < t.warnMsg /\ t.warnMsg + 2 < t.finMsg
  BY <1>5, <1>7, <1>8, <1>9
<1>13. /\ TurnNodes <= 6 /\ StartNodes <= 3
       /\ limit >= StartNodes + 6 * TurnNodes
       => Room(Least(t.finModel, t.finTool + 1), limit)
  <2>1. /\ Least(t.finModel, t.finTool + 1) \in Nat \ {0}
        /\ Least(t.finModel, t.finTool + 1) <= model
    BY <1>7, <1>8 DEF Least
  <2> QED
    BY <1>4, <2>1
<1> QED
  BY <1>10, <1>11, <1>12, <1>13 DEF t

(* With the thresholds derived from its own recursion limit, an attempt is   *)
(* warned before it is restricted as long as no message had more than two    *)
(* calls; and if the limit has room for six turns of at most six nodes, it   *)
(* is restricted before it hits the limit.                                   *)
THEOREM DerivedThresholdsSuffice ==
  ASSUME TurnNodes <= 6, StartNodes <= 3, RecursionLimit >= StartNodes + 6 * TurnNodes,
         Thresholds(RecursionLimit) =
           [finModel |-> FinModel, warnModel |-> WarnModel, finTool |-> FinTool,
            warnTool |-> WarnTool, finMsg |-> FinMsg, warnMsg |-> WarnMsg]
  PROVE  Spec => /\ [](pc = "recursion_error" => seen > 0)
                 /\ [][Restricts /\ widest' <= 2 => warned]_vars
<1> DEFINE t == Thresholds(RecursionLimit)
<1>1. /\ t.finModel = FinModel
      /\ t.finTool = FinTool /\ t.warnTool = WarnTool
      /\ t.finMsg = FinMsg /\ t.warnMsg = WarnMsg
  OBVIOUS
<1>2. /\ t.warnTool + 2 <= t.finTool
      /\ t.warnMsg + 2 < t.finMsg
      /\ Room(Least(t.finModel, t.finTool + 1), RecursionLimit)
  BY DerivedThresholdsFit, BudgetAssumption
<1> HIDE DEF t
<1>3. Room(FirstFinalize, RecursionLimit)
  BY <1>1, <1>2 DEF FirstFinalize
<1>4. FinalizeBeforeHardLimit => (pc = "recursion_error" => seen > 0)
  BY <1>3 DEF FinalizeBeforeHardLimit
<1>5. TypeOK' /\ [Restricts /\ NoLeap' => warned]_vars =>
        [Restricts /\ widest' <= 2 => warned]_vars
  <2>1. TypeOK' /\ widest' <= 2 => NoLeap'
    BY <1>1, <1>2, BudgetAssumption DEF NoLeap, TypeOK
  <2> QED
    BY <2>1
<1> QED
  BY <1>4, <1>5, TypeCorrect, FinalizeComesFirst, WarningsComeFirst, PTL
  DEF WarnedBeforeRestricted

-----------------------------------------------------------------------------
(* An attempt is bounded: every turn costs its nodes, and every call of a    *)
(* message is decided, and counted, at most once.                            *)
DecidedOnce == toolCalls + Cardinality(Called) <= K * modelCalls

LEMMA DecidedOnceStep == TypeOK /\ StageInv /\ DecidedOnce /\ [Next]_vars => DecidedOnce'
<1> SUFFICES ASSUME TypeOK, StageInv, DecidedOnce, [Next]_vars PROVE DecidedOnce'
  OBVIOUS
<1> USE DEF TypeOK
<1>1. /\ Called \in SUBSET Slots /\ Cardinality(Called) \in Nat
      /\ Called' \in SUBSET Slots /\ Cardinality(Called') \in Nat
      /\ Cardinality(Called') <= K /\ K \in Nat
  BY Counted DEF Called
<1>2. ASSUME NEW calls \in [Slots -> Registered \cup {NoCall}], ModelTurn(calls)
      PROVE DecidedOnce'
  <2>1. modelCalls' = modelCalls + 1 /\ toolCalls' = toolCalls
    BY <1>2 DEF ModelTurn
  <2>2. K * (modelCalls + 1) = K * modelCalls + K
    BY <1>1
  <2>3. K * modelCalls \in Nat
    BY <1>1
  <2>4. toolCalls <= K * modelCalls
    BY <1>1, <2>3 DEF DecidedOnce
  <2> QED
    BY <1>1, <2>1, <2>2, <2>3, <2>4 DEF DecidedOnce
<1>3. ASSUME NEW s \in Slots, WrapToolCall(s) PROVE DecidedOnce'
  <2>1. /\ modelCalls' = modelCalls /\ toolCalls' = toolCalls + 1
        /\ Called' = Called \ {s} /\ s \in Called
    BY <1>3 DEF WrapToolCall, Called
  <2>2. Cardinality(Called') = Cardinality(Called) - 1
    BY <1>1, <2>1, Counted
  <2> QED
    BY <1>1, <2>1, <2>2 DEF DecidedOnce
<1>4. CASE \/ ToolStep \/ EndToolTurn \/ Summarize \/ RecursionError
           \/ Stopped \/ UNCHANGED vars
  <2>1. UNCHANGED <<modelCalls, toolCalls>> /\ Called' = Called
    BY <1>4 DEF ToolStep, RunExplore, RunRepair, RunReview, Answer, EndToolTurn,
                Summarize, RecursionError, Stopped, vars, Called
  <2> QED
    BY <2>1 DEF DecidedOnce
<1> QED
  BY <1>2, <1>3, <1>4 DEF Next, ToolStep

(* However the worker fills its messages, the turns of an attempt fit into   *)
(* the graph's limit with all their nodes, up to those of the turn that ends *)
(* it, and the middleware decides about no more tool calls than the messages *)
(* carried.                                                                  *)
AttemptBound ==
  /\ modelCalls > 0 =>
       StartNodes + TurnNodes * modelCalls <= RecursionLimit + AfterNodes + 1
  /\ toolCalls <= K * modelCalls

(* Both bounds, from the nodes every turn costs and from each call of a      *)
(* message being decided about once.                                         *)
THEOREM AttemptIsBounded == Spec => []AttemptBound
<1> DEFINE Ledger == modelCalls > 0 => steps <= RecursionLimit
           IInv == Ledger /\ DecidedOnce
<1>1. Init => IInv
  <2> SUFFICES ASSUME Init PROVE IInv
    OBVIOUS
  <2>1. Called = {} /\ modelCalls = 0 /\ toolCalls = 0
    BY DEF Init, Called
  <2>2. DecidedOnce
    BY <2>1, Counted, FS_EmptySet DEF DecidedOnce
  <2> QED
    BY <2>1, <2>2
<1>2. TypeOK /\ StageInv /\ IInv /\ [Next]_vars => IInv'
  <2> SUFFICES ASSUME TypeOK, Ledger, [Next]_vars PROVE Ledger'
    BY DecidedOnceStep
  <2> USE BudgetAssumption DEF TypeOK
  <2>1. ASSUME NEW calls \in [Slots -> Registered \cup {NoCall}], ModelTurn(calls)
        PROVE  Ledger'
    BY <2>1 DEF ModelTurn, RoomForModel
  <2>2. CASE EndToolTurn
    BY <2>2 DEF EndToolTurn, RoomForTools
  <2>3. CASE UNCHANGED <<modelCalls, steps>>
    BY <2>3
  <2> QED
    BY <2>1, <2>2, <2>3 DEF Next, WrapToolCall, RunExplore, RunRepair, RunReview,
       Answer, Summarize, RecursionError, Stopped, vars
<1>3. TypeOK /\ SuperstepInv /\ IInv => AttemptBound
  <2> SUFFICES ASSUME TypeOK, SuperstepInv, IInv PROVE AttemptBound
    OBVIOUS
  <2> DEFINE spent == TurnNodes * modelCalls
  <2>1. spent \in Nat /\ modelCalls \in Nat /\ steps \in Nat
    BY NodesType DEF TypeOK
  <2>2. steps = StartNodes + spent \/ steps = (StartNodes + spent) - AfterNodes - 1
    BY SpentSteps DEF TypeOK
  <2>3. modelCalls > 0 => StartNodes + spent <= RecursionLimit + AfterNodes + 1
    <3> HIDE DEF spent
    <3> QED
      BY <2>1, <2>2, BudgetAssumption
  <2>4. Cardinality(Called) \in Nat /\ K * modelCalls \in Nat
    BY <2>1, Counted DEF Called
  <2>5. toolCalls <= K * modelCalls
    BY <2>4 DEF DecidedOnce, TypeOK
  <2> QED
    BY <2>3, <2>5 DEF AttemptBound
<1> QED
  BY <1>1, <1>2, <1>3, SuperstepInvariant, TypeCorrect, StageInvariant, PTL DEF Spec
=============================================================================
