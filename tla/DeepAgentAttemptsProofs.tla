----------------------- MODULE DeepAgentAttemptsProofs -----------------------
(* Proofs about DeepAgentAttempts, SubtaskRunner and Runners for all calls,  *)
(* limits and profiles.  The multi-subtask runner takes the steps of the     *)
(* attempts, so what is proved of Spec holds of both specifications.         *)
EXTENDS Runners, FiniteSetTheorems, TLAPS

LEMMA NoCallIsNoCall == NoCall \notin Calls
BY CallAssumption

LEMMA SubtaskStepIsStep == ASSUME [MultiNext]_multiVars PROVE [Next]_vars
<1>1. ASSUME NEW c \in Calls, SubtaskStep(c) PROVE CallStep(c) \/ UNCHANGED vars
  BY <1>1 DEF SubtaskStep, Opens, Raises, Reports, Archives, Lists, Returns,
     AgentWritesChecks, CallStep
<1> QED
  BY <1>1 DEF MultiNext, Next, multiVars

LEMMA MultiRunsAttempts == MultiSpec => Spec
<1>1. [MultiNext]_multiVars => [Next]_vars
  BY SubtaskStepIsStep
<1>2. MultiInit => Init
  BY DEF MultiInit
<1> QED
  BY <1>1, <1>2, PTL DEF Spec, MultiSpec

LEMMA TypeStep == TypeOK /\ [Next]_vars => TypeOK'
<1> SUFFICES ASSUME TypeOK, [Next]_vars PROVE TypeOK'
  OBVIOUS
<1> USE DEF TypeOK, lists, shared, parent, Working, Finished, Release, Leave, Enter, Ended
<1>1. ASSUME NEW batch \in SUBSET Calls, ParentCalls(batch) PROVE TypeOK'
  BY <1>1 DEF ParentCalls
<1>2. CASE ParentGates
  <2>1. reviews[Len(reviews)] \in RequestRecord
    BY <1>2 DEF ParentGates
  <2> QED
    BY <1>2, <2>1 DEF ParentGates, RequestRecord
<1>3. ASSUME NEW c \in Calls, CallStep(c) PROVE TypeOK'
  <2>1. CASE Begin(c)
    BY <2>1 DEF Begin, NextAttempt
  <2>2. CASE RefuseArtifacts(c)
    BY <2>2 DEF RefuseArtifacts
  <2>3. CASE ImageMissing(c)
    <3> DEFINE e == Evaluation(c, {}, FALSE)
    <3>1. e \in EvaluationRecord
      BY DEF Evaluation, EvaluationRecord
    <3>2. evaluations' \in Seq(EvaluationRecord)
      <4>1. evaluations' = Append(evaluations, e) /\ evaluations \in Seq(EvaluationRecord)
        BY <2>3 DEF ImageMissing
      <4> HIDE DEF e
      <4> QED
        BY <3>1, <4>1
    <3>3. /\ lock' \in Calls \cup {NoCall}
          /\ pc' \in [Calls -> {"idle", "called", "answered"} \cup Working \cup Finished]
      BY <2>3 DEF ImageMissing
    <3> QED
      BY <2>3, <3>2, <3>3 DEF ImageMissing
  <2>4. CASE Raise(c)
    BY <2>4 DEF Raise
  <2>5. CASE StartAgent(c)
    BY <2>5 DEF StartAgent
  <2>6. ASSUME NEW a \in Artifacts, AgentWrites(c, a) PROVE TypeOK'
    BY <2>6 DEF AgentWrites
  <2>7. ASSUME NEW list \in ReviewLists, AgentRequestsReview(c, list) PROVE TypeOK'
    <3>1. [call |-> c, attempt |-> NextAttempt, list |-> list] \in RequestRecord
      BY DEF RequestRecord, NextAttempt
    <3> QED
      BY <2>7, <3>1 DEF AgentRequestsReview
  <2>8. CASE EndAgent(c)
    BY <2>8 DEF EndAgent
  <2>9. ASSUME NEW ok \in BOOLEAN, Collect(c, ok) PROVE TypeOK'
    <3>1. got' \in [Calls -> SUBSET Nat]
      BY <2>9 DEF Collect, Collected
    <3>2. fine' \in [Calls -> BOOLEAN]
      BY <2>9, Zenon DEF Collect
    <3> QED
      BY <2>9, <3>1, <3>2 DEF Collect
  <2>10. CASE Record(c)
    <3>1. Evaluation(c, got[c], fine[c] /\ (c \in Inline \/ got[c] # {})) \in EvaluationRecord
      BY DEF Evaluation, EvaluationRecord
    <3> QED
      BY <2>10, <3>1 DEF Record
  <2>11. CASE Return(c)
    BY <2>11 DEF Return
  <2> QED
    BY <1>3, <2>1, <2>2, <2>3, <2>4, <2>5, <2>6, <2>7, <2>8, <2>9, <2>10, <2>11 DEF CallStep
<1>4. CASE ParentCloses \/ UNCHANGED vars
  BY <1>4 DEF ParentCloses, vars
<1> QED
  BY <1>1, <1>2, <1>3, <1>4 DEF Next

LEMMA RunsAreTyped == Spec => []TypeOK
<1>1. Init => TypeOK
  BY DEF Init, TypeOK
<1> QED
  BY <1>1, TypeStep, PTL DEF Spec

(* Every reachable state has its type, with and without the lock.            *)
THEOREM TypeCorrect == Spec \/ MultiSpec => []TypeOK
BY MultiRunsAttempts, RunsAreTyped, PTL

-----------------------------------------------------------------------------
(* Only calls of the parent's current message are under way.  With the lock  *)
(* the one at work, or with its answer in the subtask tool, is its holder;   *)
(* without it, a message of one call leaves only one that could be.          *)

OneByOne == Locked \/ Parallel = 1

Inside == Working \cup {"answered"}

InTurn == \A c \in Calls : pc[c] \in {"called"} \cup Inside => c \in turn

HolderWorks == Locked => \A c \in Calls : pc[c] \in Inside <=> lock = c

SingleTurn == Parallel = 1 => \A c \in turn : \A d \in turn : c = d

SerialInv == InTurn /\ HolderWorks /\ SingleTurn

LEMMA SmallBatch ==
  ASSUME NEW batch \in SUBSET Calls, Cardinality(batch) <= 1
  PROVE  \A c \in batch : \A d \in batch : c = d
<1>1. IsFiniteSet(batch) /\ IsFiniteSet(Calls)
  BY FS_Subset, CallAssumption
<1>2. Cardinality(batch) \in Nat
  BY <1>1, FS_CardinalityType
<1>3. CASE Cardinality(batch) = 0
  BY <1>1, <1>3, FS_EmptySet
<1>4. CASE Cardinality(batch) = 1
  <2>1. PICK x : batch = {x}
    BY <1>1, <1>4, FS_Singleton
  <2> QED
    BY <2>1
<1> QED
  BY <1>2, <1>3, <1>4

LEMMA SerialStep == TypeOK /\ SerialInv /\ [Next]_vars => SerialInv'
<1> SUFFICES ASSUME TypeOK, SerialInv, [Next]_vars PROVE SerialInv'
  OBVIOUS
<1> USE NoCallIsNoCall DEF TypeOK, lists, shared, parent, Ended, Enter, Leave, Release
<1>1. ASSUME NEW batch \in SUBSET Calls, ParentCalls(batch) PROVE SerialInv'
  <2>1. InTurn' /\ HolderWorks'
    BY <1>1 DEF ParentCalls, SerialInv, InTurn, HolderWorks, Inside, Working, Finished, Idle
  <2>2. SingleTurn'
    <3>1. ASSUME Parallel = 1 PROVE \A c \in batch : \A d \in batch : c = d
      <4>1. Cardinality(batch) <= 1
        BY <1>1, <3>1 DEF ParentCalls
      <4> QED
        BY <4>1, SmallBatch
    <3>2. turn' = batch
      BY <1>1 DEF ParentCalls
    <3> QED
      BY <3>1, <3>2, Zenon DEF SingleTurn
  <2> QED
    BY <2>1, <2>2 DEF SerialInv
<1>2. CASE ParentGates
  BY <1>2 DEF ParentGates, SerialInv, InTurn, HolderWorks, SingleTurn
<1>3. ASSUME NEW c \in Calls, CallStep(c) PROVE SerialInv'
  <2> USE DEF SerialInv, InTurn, SingleTurn, HolderWorks, Inside, Working
  <2>0. turn' = turn
    BY <1>3 DEF CallStep, Begin, RefuseArtifacts, ImageMissing, Raise, StartAgent, AgentWrites,
       AgentRequestsReview, EndAgent, Collect, Record, Return
  <2>1. CASE Begin(c)
    BY <2>1 DEF Begin, MayEnter
  <2>2. CASE RefuseArtifacts(c)
    BY <2>2 DEF RefuseArtifacts, MayEnter
  <2>3. CASE Return(c) \/ Raise(c)
    <3>1. /\ pc[c] \in {"called"} \cup Inside /\ lock' = IF lock = c THEN NoCall ELSE lock
          /\ pc' = [pc EXCEPT ![c] = "returned"] \/ pc' = [pc EXCEPT ![c] = "raised"]
      BY <2>3 DEF Return, Raise
    <3>2. pc'[c] \notin {"called"} \cup Inside /\ \A d \in Calls \ {c} : pc'[d] = pc[d]
      BY <3>1
    <3> QED
      BY <2>0, <3>1, <3>2
  <2>4. CASE StartAgent(c) \/ EndAgent(c)
    BY <2>4 DEF StartAgent, EndAgent
  <2>5. ASSUME NEW a \in Artifacts, AgentWrites(c, a) PROVE SerialInv'
    BY <2>5 DEF AgentWrites
  <2>6. ASSUME NEW list \in ReviewLists, AgentRequestsReview(c, list) PROVE SerialInv'
    BY <2>6 DEF AgentRequestsReview
  <2>7. ASSUME NEW ok \in BOOLEAN, Collect(c, ok) PROVE SerialInv'
    BY <2>7 DEF Collect
  <2>8. CASE ImageMissing(c)
    BY <2>8 DEF ImageMissing
  <2>9. CASE Record(c)
    BY <2>9 DEF Record
  <2> QED
    BY <1>3, <2>1, <2>2, <2>3, <2>4, <2>5, <2>6, <2>7, <2>8, <2>9 DEF CallStep
<1>5. CASE ParentCloses \/ UNCHANGED vars
  BY <1>5 DEF ParentCloses, vars, SerialInv, InTurn, SingleTurn, HolderWorks
<1> QED
  BY <1>1, <1>2, <1>3, <1>5 DEF Next

LEMMA RunsAreSerial == Spec => []SerialInv
<1>1. Init => SerialInv
  BY NoCallIsNoCall DEF Init, SerialInv, InTurn, SingleTurn, HolderWorks, Inside, Working
<1> QED
  BY <1>1, SerialStep, RunsAreTyped, PTL DEF Spec

(* No call is at work beside one that is, or that is about to begin.         *)
LEMMA Alone ==
  ASSUME OneByOne, SerialInv, NEW c \in Calls,
         pc[c] \in Inside \/ (pc[c] = "called" /\ MayEnter)
  PROVE  \A d \in Calls \ {c} : pc[d] \notin Inside /\ pc[d] \notin Working
BY NoCallIsNoCall DEF OneByOne, SerialInv, InTurn, SingleTurn, HolderWorks, MayEnter, Inside,
   Working

-----------------------------------------------------------------------------
(* The inductive invariant of attempts made one by one.  The attempt at work *)
(* has the number its record will have, and the review requests after its    *)
(* start stay its own until it records its evaluation.                       *)

AttemptOK(c) ==
    /\ attempt[c] = Len(evaluations) + 1
    /\ Len(evaluations) < MaxRounds[c]
    /\ start[c] <= Len(reviews)
    /\ \A r \in start[c] + 1 .. Len(reviews) :
         reviews[r].call = c /\ reviews[r].attempt = attempt[c]
    /\ pc[c] = "numbered" => start[c] = Len(reviews)
    /\ pc[c] = "collected" => got[c] = start[c] + 1 .. Len(reviews)

WorkOK == \A c \in Calls : pc[c] \in Working => AttemptOK(c)

RecordsOK == RoundsRespected /\ NumbersMatch /\ ReviewsAreOwn

OwnInv == WorkOK /\ RecordsOK /\ ActiveIsOwn

(* Appending the evaluation of the attempt at work keeps the records.        *)
LEMMA RecordAppended ==
  ASSUME TypeOK, OwnInv, NEW c \in Calls, pc[c] \in Working,
         NEW R \in SUBSET (start[c] + 1 .. Len(reviews)), NEW ok \in BOOLEAN,
         evaluations' = Append(evaluations, Evaluation(c, R, ok)),
         UNCHANGED reviews
  PROVE  RecordsOK'
<1> DEFINE e == Evaluation(c, R, ok)
<1> USE DEF TypeOK, OwnInv
<1>0. AttemptOK(c)
  BY DEF WorkOK
<1>1. e \in EvaluationRecord /\ e.call = c /\ e.reviews = R /\ e.attempt = attempt[c]
  BY DEF Evaluation, EvaluationRecord
<1>2. DOMAIN evaluations' = 1 .. Len(evaluations) + 1
  BY <1>1
<1>3. \A i \in 1 .. Len(evaluations) : evaluations'[i] = evaluations[i]
  BY <1>1
<1>4. evaluations'[Len(evaluations) + 1] = e
  BY <1>1
<1>5. DOMAIN evaluations = 1 .. Len(evaluations) /\ Len(evaluations) \in Nat
  OBVIOUS
<1>6. RoundsRespected'
  <2> SUFFICES ASSUME NEW i \in 1 .. Len(evaluations) + 1
               PROVE  i <= MaxRounds[evaluations'[i].call]
    BY <1>2 DEF RoundsRespected
  <2>1. CASE i \in 1 .. Len(evaluations)
    BY <1>3, <1>5, <2>1 DEF RecordsOK, RoundsRespected
  <2>2. CASE i = Len(evaluations) + 1
    BY <1>0, <1>1, <1>4, <1>5, <2>2, CallAssumption DEF AttemptOK
  <2> QED
    BY <2>1, <2>2, <1>5
<1>7. NumbersMatch'
  <2> SUFFICES ASSUME NEW i \in 1 .. Len(evaluations) + 1
               PROVE  evaluations'[i].attempt = i
    BY <1>2 DEF NumbersMatch
  <2>1. CASE i \in 1 .. Len(evaluations)
    BY <1>3, <1>5, <2>1 DEF RecordsOK, NumbersMatch
  <2>2. CASE i = Len(evaluations) + 1
    BY <1>0, <1>1, <1>4, <2>2 DEF AttemptOK
  <2> QED
    BY <2>1, <2>2, <1>5
<1>8. ReviewsAreOwn'
  <2> SUFFICES ASSUME NEW i \in 1 .. Len(evaluations) + 1,
                      NEW r \in evaluations'[i].reviews
               PROVE  /\ r \in DOMAIN reviews
                      /\ reviews[r].call = evaluations'[i].call
                      /\ reviews[r].attempt = evaluations'[i].attempt
    BY <1>2 DEF ReviewsAreOwn
  <2>1. CASE i \in 1 .. Len(evaluations)
    BY <1>3, <1>5, <2>1 DEF RecordsOK, ReviewsAreOwn
  <2>2. CASE i = Len(evaluations) + 1
    <3>1. evaluations'[i] = e
      BY <1>4, <2>2
    <3>2. r \in start[c] + 1 .. Len(reviews)
      BY <1>1, <3>1
    <3>3. r \in DOMAIN reviews
      BY <3>2
    <3> QED
      BY <1>0, <1>1, <3>1, <3>2, <3>3 DEF AttemptOK
  <2> QED
    BY <2>1, <2>2, <1>5
<1> QED
  BY <1>6, <1>7, <1>8 DEF RecordsOK

LEMMA OwnStep ==
  ASSUME OneByOne PROVE TypeOK /\ SerialInv /\ OwnInv /\ [Next]_vars => OwnInv'
<1> SUFFICES ASSUME TypeOK, SerialInv, OwnInv, [Next]_vars PROVE OwnInv'
  OBVIOUS
<1> USE DEF TypeOK, lists, shared, parent, Ended, Enter, Leave, Release
<1> USE DEF OwnInv
<1>0. ASSUME UNCHANGED <<evaluations, reviews>> PROVE RecordsOK'
  BY <1>0 DEF RecordsOK, RoundsRespected, NumbersMatch, ReviewsAreOwn
<1>1. ASSUME NEW batch \in SUBSET Calls, ParentCalls(batch) PROVE OwnInv'
  BY <1>0, <1>1 DEF ParentCalls, WorkOK, AttemptOK, Working, ActiveIsOwn
<1>2. CASE ParentGates
  BY <1>0, <1>2 DEF ParentGates, WorkOK, AttemptOK, ActiveIsOwn
<1>3. ASSUME NEW c \in Calls, CallStep(c) PROVE OwnInv'
  <2>1. CASE Begin(c)
    <3>1. \A d \in Calls \ {c} : pc[d] \notin Working
      BY <2>1, Alone DEF Begin
    <3>2. WorkOK'
      <4> SUFFICES ASSUME Admitted(c) PROVE AttemptOK(c)'
        BY <2>1, <3>1 DEF Begin, WorkOK, Working
      <4> QED
        BY <2>1 DEF Begin, Admitted, NextAttempt, AttemptOK
    <3>3. ActiveIsOwn'
      BY <2>1 DEF Begin, ActiveIsOwn
    <3> QED
      BY <1>0, <2>1, <3>2, <3>3 DEF Begin
  <2>2. CASE RefuseArtifacts(c)
    BY <1>0, <2>2 DEF RefuseArtifacts, WorkOK, AttemptOK, ActiveIsOwn, Working
  <2>3. CASE ImageMissing(c)
    <3>0. pc[c] \in Working /\ \A d \in Calls \ {c} : pc[d] \notin Working
      BY <2>3, Alone DEF ImageMissing, Working, Inside
    <3>1. WorkOK'
      BY <2>3, <3>0 DEF ImageMissing, WorkOK, Working
    <3>2. RecordsOK'
      BY <2>3, <3>0, RecordAppended DEF ImageMissing
    <3>3. ActiveIsOwn'
      BY <2>3 DEF ImageMissing, ActiveIsOwn
    <3> QED
      BY <3>1, <3>2, <3>3
  <2>4. CASE Raise(c)
    BY <1>0, <2>4 DEF Raise, WorkOK, AttemptOK, ActiveIsOwn, Working
  <2>5. CASE StartAgent(c)
    <3>1. \A d \in Calls \ {c} : pc[d] \notin Working
      BY <2>5, Alone DEF StartAgent, Working, Inside
    <3>2. WorkOK'
      BY <2>5 DEF StartAgent, WorkOK, AttemptOK, Working
    <3>3. ActiveIsOwn'
      BY <2>5, <3>1 DEF StartAgent, ActiveIsOwn, Working
    <3> QED
      BY <1>0, <2>5, <3>2, <3>3 DEF StartAgent
  <2>6. ASSUME NEW a \in Artifacts, AgentWrites(c, a) PROVE OwnInv'
    BY <1>0, <2>6 DEF AgentWrites, WorkOK, AttemptOK, ActiveIsOwn
  <2>7. ASSUME NEW list \in ReviewLists, AgentRequestsReview(c, list) PROVE OwnInv'
    <3>0. /\ pc[c] = "running" /\ AttemptOK(c)
          /\ \A d \in Calls \ {c} : pc[d] \notin Working
      BY <2>7, Alone DEF AgentRequestsReview, WorkOK, Working, Inside
    <3> DEFINE q == [call |-> c, attempt |-> NextAttempt, list |-> list]
    <3>1. q \in RequestRecord
      BY DEF RequestRecord, NextAttempt
    <3>2. /\ Len(reviews') = Len(reviews) + 1
          /\ DOMAIN reviews' = 1 .. Len(reviews) + 1
          /\ DOMAIN reviews = 1 .. Len(reviews)
          /\ reviews'[Len(reviews) + 1] = q
          /\ \A r \in 1 .. Len(reviews) : reviews'[r] = reviews[r]
      BY <2>7, <3>1 DEF AgentRequestsReview
    <3>3. ActiveIsOwn'
      BY <2>7 DEF AgentRequestsReview, ActiveIsOwn
    <3>4. WorkOK'
      <4> SUFFICES AttemptOK(c)'
        BY <2>7, <3>0 DEF AgentRequestsReview, WorkOK
      <4>1. ASSUME NEW r \in start[c] + 1 .. Len(reviews) + 1
            PROVE reviews'[r].call = c /\ reviews'[r].attempt = attempt[c]
        <5>1. CASE r = Len(reviews) + 1
          BY <3>0, <3>2, <5>1 DEF AttemptOK, NextAttempt
        <5>2. CASE r \in start[c] + 1 .. Len(reviews)
          BY <3>0, <3>2, <5>2 DEF AttemptOK
        <5> QED
          BY <5>1, <5>2
      <4> QED
        BY <2>7, <3>0, <3>2, <4>1 DEF AgentRequestsReview, AttemptOK
    <3>5. RecordsOK'
      BY <2>7, <3>2 DEF AgentRequestsReview, RecordsOK, RoundsRespected, NumbersMatch,
         ReviewsAreOwn
    <3> QED
      BY <3>3, <3>4, <3>5
  <2>8. CASE EndAgent(c)
    <3>1. \A d \in Calls \ {c} : pc[d] \notin Working
      BY <2>8, Alone DEF EndAgent, Working, Inside
    <3>2. WorkOK'
      BY <2>8 DEF EndAgent, WorkOK, AttemptOK, Working
    <3>3. ActiveIsOwn'
      BY <2>8, <3>1 DEF EndAgent, ActiveIsOwn, Working
    <3> QED
      BY <1>0, <2>8, <3>2, <3>3 DEF EndAgent
  <2>9. ASSUME NEW ok \in BOOLEAN, Collect(c, ok) PROVE OwnInv'
    <3>1. WorkOK'
      BY <2>9 DEF Collect, Collected, WorkOK, AttemptOK, Working
    <3>2. ActiveIsOwn'
      BY <2>9 DEF Collect, ActiveIsOwn
    <3> QED
      BY <1>0, <2>9, <3>1, <3>2 DEF Collect
  <2>10. CASE Record(c)
    <3>0. pc[c] \in Working /\ \A d \in Calls \ {c} : pc[d] \notin Working
      BY <2>10, Alone DEF Record, Working, Inside
    <3>1. WorkOK'
      BY <2>10, <3>0 DEF Record, WorkOK, Working
    <3>2. RecordsOK'
      <4>1. (fine[c] /\ (c \in Inline \/ got[c] # {})) \in BOOLEAN
        OBVIOUS
      <4>2. got[c] \in SUBSET (start[c] + 1 .. Len(reviews))
        BY <2>10, <3>0 DEF Record, WorkOK, AttemptOK
      <4> QED
        BY <2>10, <3>0, <4>1, <4>2, RecordAppended DEF Record
    <3>3. ActiveIsOwn'
      BY <2>10 DEF Record, ActiveIsOwn
    <3> QED
      BY <3>1, <3>2, <3>3
  <2>11. CASE Return(c)
    BY <1>0, <2>11 DEF Return, WorkOK, AttemptOK, ActiveIsOwn, Working
  <2> QED
    BY <1>3, <2>1, <2>2, <2>3, <2>4, <2>5, <2>6, <2>7, <2>8, <2>9, <2>10, <2>11 DEF CallStep
<1>5. CASE ParentCloses \/ UNCHANGED vars
  BY <1>0, <1>5 DEF ParentCloses, vars, WorkOK, AttemptOK, ActiveIsOwn
<1> QED
  BY <1>1, <1>2, <1>3, <1>5 DEF Next

LEMMA RunsAreOwn == ASSUME OneByOne PROVE Spec => []OwnInv
<1>1. Init => OwnInv
  BY DEF Init, OwnInv, WorkOK, Working, RecordsOK, RoundsRespected, NumbersMatch,
     ReviewsAreOwn, ActiveIsOwn
<1>2. TypeOK /\ SerialInv /\ OwnInv /\ [Next]_vars => OwnInv'
  BY OwnStep
<1> QED
  BY <1>1, <1>2, RunsAreTyped, RunsAreSerial, PTL DEF Spec

(* One by one, no profile records more attempts than its limit, round        *)
(* numbers are places in the list, and evaluations report their own reviews. *)
THEOREM RecordsAreOrdered ==
  ASSUME OneByOne
  PROVE  Spec \/ MultiSpec => [](RoundsRespected /\ NumbersMatch /\ ReviewsAreOwn)
<1>1. OwnInv => RoundsRespected /\ NumbersMatch /\ ReviewsAreOwn
  BY DEF OwnInv, RecordsOK
<1>2. Spec => []OwnInv
  BY RunsAreOwn
<1> QED
  BY <1>1, <1>2, MultiRunsAttempts, PTL

(* One by one, a running agent's globals are those of its own profile.       *)
THEOREM GlobalsAreOwn == ASSUME OneByOne PROVE Spec \/ MultiSpec => []ActiveIsOwn
<1>1. OwnInv => ActiveIsOwn
  BY DEF OwnInv
<1>2. Spec => []OwnInv
  BY RunsAreOwn
<1> QED
  BY <1>1, <1>2, MultiRunsAttempts, PTL

-----------------------------------------------------------------------------
(* The strengthening of NoReviewLost, which needs no lock: a call's requests *)
(* come after its start, and only a returned call has an evaluation.         *)

Requested(c) == {r \in DOMAIN reviews : reviews[r].call = c}

ReviewsOf(c) ==
  /\ pc[c] \in {"idle", "called", "numbered"} => Requested(c) = {}
  /\ pc[c] \in {"numbered", "running", "closing"} =>
       start[c] <= Len(reviews) /\ \A r \in Requested(c) : r > start[c]
  /\ pc[c] = "collected" => Requested(c) \subseteq got[c]

Answered == {"answered"} \cup Finished

LostInv ==
  /\ \A c \in Calls : ReviewsOf(c)
  /\ \A i \in DOMAIN evaluations : pc[evaluations[i].call] \in Answered
  /\ NoReviewLost

(* The record of a call that now has its answer, if it reports all of its    *)
(* requests.                                                                 *)
LEMMA ReviewsKept ==
  ASSUME TypeOK, LostInv, NEW c \in Calls, NEW R \in SUBSET Nat, NEW ok \in BOOLEAN,
         Requested(c) \subseteq R,
         pc[c] \in Working, NEW w \in {"answered", "returned"},
         evaluations' = Append(evaluations, Evaluation(c, R, ok)),
         pc' = [pc EXCEPT ![c] = w],
         UNCHANGED <<reviews, start, got>>
  PROVE  LostInv'
<1> DEFINE e == Evaluation(c, R, ok)
<1> USE DEF TypeOK
<1>1. e \in EvaluationRecord /\ e.call = c /\ e.reviews = R
  BY DEF Evaluation, EvaluationRecord
<1>2. /\ DOMAIN evaluations' = 1 .. Len(evaluations) + 1
      /\ DOMAIN evaluations = 1 .. Len(evaluations)
      /\ evaluations'[Len(evaluations) + 1] = e
      /\ \A i \in 1 .. Len(evaluations) : evaluations'[i] = evaluations[i]
  BY <1>1
<1>3. \A d \in Calls : ReviewsOf(d)'
  BY DEF LostInv, ReviewsOf, Requested, Working
<1> HIDE DEF e
<1>4. \A i \in DOMAIN evaluations' : pc'[evaluations'[i].call] \in Answered
  <2> USE DEF Answered, Finished
  <2> SUFFICES ASSUME NEW i \in 1 .. Len(evaluations) + 1
               PROVE pc'[evaluations'[i].call] \in Answered
    BY <1>2
  <2>1. CASE i = Len(evaluations) + 1
    BY <1>1, <1>2, <2>1
  <2>2. CASE i \in 1 .. Len(evaluations)
    <3>1. evaluations[i] \in EvaluationRecord
      BY <1>2, <2>2
    <3>2. evaluations[i].call \in Calls
      BY <3>1 DEF EvaluationRecord
    <3>3. pc[evaluations[i].call] \in Answered
      BY <1>2, <2>2 DEF LostInv
    <3> QED
      BY <1>2, <2>2, <3>2, <3>3
  <2> QED
    BY <2>1, <2>2
<1>5. NoReviewLost'
  BY <1>1, <1>2 DEF LostInv, NoReviewLost, Requested
<1> QED
  BY <1>3, <1>4, <1>5 DEF LostInv

LEMMA LostStep == TypeOK /\ LostInv /\ [Next]_vars => LostInv'
<1> SUFFICES ASSUME TypeOK, LostInv, [Next]_vars PROVE LostInv'
  OBVIOUS
<1> USE DEF TypeOK, lists, shared, parent, Ended, Enter, Leave, Release, Answered, Finished
<1>1. ASSUME UNCHANGED <<evaluations, reviews>>,
             \A d \in Calls : pc[d] \in Answered => pc'[d] \in Answered,
             \A d \in Calls : ReviewsOf(d)'
      PROVE  LostInv'
  <2>1. \A i \in DOMAIN evaluations : evaluations[i].call \in Calls
    <3>1. \A i \in DOMAIN evaluations : evaluations[i] \in EvaluationRecord
      OBVIOUS
    <3> QED
      BY <3>1 DEF EvaluationRecord
  <2> QED
    BY <1>1, <2>1 DEF LostInv, NoReviewLost
<1>2. ASSUME NEW batch \in SUBSET Calls, ParentCalls(batch) PROVE LostInv'
  BY <1>1, <1>2 DEF ParentCalls, LostInv, ReviewsOf, Requested
<1>3. CASE ParentGates
  BY <1>1, <1>3 DEF ParentGates, LostInv, ReviewsOf, Requested
<1>4. ASSUME NEW c \in Calls, CallStep(c) PROVE LostInv'
  <2>1. CASE Begin(c)
    BY <1>1, <2>1 DEF Begin, LostInv, ReviewsOf, Requested
  <2>2. CASE RefuseArtifacts(c)
    BY <1>1, <2>2 DEF RefuseArtifacts, LostInv, ReviewsOf, Requested
  <2>3. CASE ImageMissing(c)
    BY <2>3, ReviewsKept DEF ImageMissing, LostInv, ReviewsOf, Working
  <2>4. CASE Raise(c)
    BY <1>1, <2>4 DEF Raise, LostInv, ReviewsOf, Requested
  <2>5. CASE StartAgent(c)
    BY <1>1, <2>5 DEF StartAgent, LostInv, ReviewsOf, Requested
  <2>6. ASSUME NEW a \in Artifacts, AgentWrites(c, a) PROVE LostInv'
    BY <1>1, <2>6 DEF AgentWrites, LostInv, ReviewsOf, Requested
  <2>7. ASSUME NEW list \in ReviewLists, AgentRequestsReview(c, list) PROVE LostInv'
    <3> DEFINE q == [call |-> c, attempt |-> NextAttempt, list |-> list]
    <3>1. q \in RequestRecord
      BY DEF RequestRecord, NextAttempt
    <3>2. /\ Len(reviews') = Len(reviews) + 1
          /\ DOMAIN reviews' = 1 .. Len(reviews) + 1
          /\ DOMAIN reviews = 1 .. Len(reviews)
          /\ reviews'[Len(reviews) + 1] = q /\ q.call = c
          /\ \A r \in 1 .. Len(reviews) : reviews'[r] = reviews[r]
      BY <2>7, <3>1 DEF AgentRequestsReview
    <3> HIDE DEF q
    <3>3. ASSUME NEW d \in Calls PROVE ReviewsOf(d)'
      <4>1. Requested(d)' = IF d = c THEN Requested(d) \cup {Len(reviews) + 1} ELSE Requested(d)
        BY <3>2 DEF Requested
      <4>2. pc' = pc /\ start' = start /\ got' = got /\ pc[c] = "running" /\ ReviewsOf(d)
        BY <2>7 DEF AgentRequestsReview, LostInv
      <4>3. CASE d = c
        <5>1. start[c] <= Len(reviews) /\ \A r \in Requested(c) : r > start[c]
          BY <4>2, <4>3 DEF ReviewsOf
        <5>2. \A r \in Requested(c) \cup {Len(reviews) + 1} : r > start[c]
          BY <5>1
        <5> QED
          BY <3>2, <4>1, <4>2, <4>3, <5>1, <5>2 DEF ReviewsOf
      <4>4. CASE d # c
        BY <3>2, <4>1, <4>2, <4>4 DEF ReviewsOf
      <4> QED
        BY <4>3, <4>4
    <3>4. \A i \in DOMAIN evaluations : evaluations[i].call # c
      BY <2>7 DEF AgentRequestsReview, LostInv
    <3>5. NoReviewLost'
      BY <2>7, <3>2, <3>4 DEF AgentRequestsReview, LostInv, NoReviewLost
    <3> QED
      BY <2>7, <3>3, <3>5 DEF AgentRequestsReview, LostInv
  <2>8. CASE EndAgent(c)
    BY <1>1, <2>8 DEF EndAgent, LostInv, ReviewsOf, Requested
  <2>9. ASSUME NEW ok \in BOOLEAN, Collect(c, ok) PROVE LostInv'
    BY <1>1, <2>9 DEF Collect, Collected, LostInv, ReviewsOf, Requested
  <2>10. CASE Record(c)
    <3>1. (fine[c] /\ (c \in Inline \/ got[c] # {})) \in BOOLEAN
      OBVIOUS
    <3>2. Requested(c) \subseteq got[c] /\ got[c] \in SUBSET Nat
      BY <2>10 DEF Record, LostInv, ReviewsOf
    <3>3. evaluations' = Append(evaluations,
            Evaluation(c, got[c], fine[c] /\ (c \in Inline \/ got[c] # {})))
      BY <2>10 DEF Record
    <3>4. PICK w \in {"answered", "returned"} :
            pc[c] \in Working /\ pc' = [pc EXCEPT ![c] = w]
      BY <2>10 DEF Record, Working
    <3>5. UNCHANGED <<reviews, start, got>>
      BY <2>10 DEF Record
    <3> DEFINE R == got[c]
    <3> DEFINE ok == fine[c] /\ (c \in Inline \/ R # {})
    <3>6. /\ ok \in BOOLEAN /\ R \in SUBSET Nat /\ Requested(c) \subseteq R
          /\ evaluations' = Append(evaluations, Evaluation(c, R, ok))
      BY <3>1, <3>2, <3>3
    <3> HIDE DEF R, ok, TypeOK
    <3> QED
      BY <3>4, <3>5, <3>6, ReviewsKept
  <2>11. CASE Return(c)
    BY <1>1, <2>11 DEF Return, LostInv, ReviewsOf, Requested, Answered, Finished
  <2> QED
    BY <1>4, <2>1, <2>2, <2>3, <2>4, <2>5, <2>6, <2>7, <2>8, <2>9, <2>10, <2>11 DEF CallStep
<1>5. CASE ParentCloses \/ UNCHANGED vars
  BY <1>1, <1>5 DEF ParentCloses, vars, LostInv, ReviewsOf, Requested
<1> QED
  BY <1>2, <1>3, <1>4, <1>5 DEF Next

LEMMA RunsLoseNothing == Spec => []LostInv
<1>1. Init => LostInv
  BY DEF Init, LostInv, ReviewsOf, Requested, NoReviewLost
<1> QED
  BY <1>1, LostStep, RunsAreTyped, PTL DEF Spec

(* With or without the lock, an evaluation reports every review request its  *)
(* call made.                                                                *)
THEOREM ReviewsReported == Spec \/ MultiSpec => []NoReviewLost
<1>1. LostInv => NoReviewLost
  BY DEF LostInv
<1> QED
  BY <1>1, RunsLoseNothing, MultiRunsAttempts, PTL

-----------------------------------------------------------------------------
(* The list the parent gates.  While the call that makes up the whole        *)
(* message works, and once it has returned, the last review request is its   *)
(* own if it made one, and nobody else has written since.                    *)

LatestOwn(c) ==
  reviews # <<>> /\ reviews[Len(reviews)].call = c /\ touched \subseteq {c}

LatestInv ==
  \A c \in Calls : turn = {c} =>
    /\ pc[c] \in {"running", "closing", "collected"} /\ Len(reviews) > start[c] => LatestOwn(c)
    /\ pc[c] \in {"answered", "returned"} /\ ReviewRequested(c) => LatestOwn(c)

LEMMA OnlyAnsweredReport ==
  ASSUME LostInv, NEW c \in Calls, ReviewRequested(c) PROVE pc[c] \in Answered
BY DEF LostInv, ReviewRequested

LEMMA LatestStep ==
  ASSUME OneByOne
  PROVE  TypeOK /\ SerialInv /\ OwnInv /\ LostInv /\ LatestInv /\ [Next]_vars => LatestInv'
<1> SUFFICES ASSUME TypeOK, SerialInv, OwnInv, LostInv, LatestInv, [Next]_vars,
                    NEW c \in Calls, turn' = {c}
             PROVE  /\ /\ pc'[c] \in {"running", "closing", "collected"}
                       /\ Len(reviews') > start'[c]
                       => LatestOwn(c)'
                    /\ pc'[c] \in {"answered", "returned"} /\ ReviewRequested(c)'
                       => LatestOwn(c)'
  BY DEF LatestInv
<1> DEFINE Goal == /\ /\ pc'[c] \in {"running", "closing", "collected"}
                      /\ Len(reviews') > start'[c]
                      => LatestOwn(c)'
                   /\ pc'[c] \in {"answered", "returned"} /\ ReviewRequested(c)'
                      => LatestOwn(c)'
<1> USE DEF TypeOK, lists, shared, parent, Ended, Enter, Leave, Release
<1>0. ASSUME UNCHANGED <<pc, start, reviews, touched, evaluations, turn>> PROVE Goal
  BY <1>0 DEF LatestInv, LatestOwn, ReviewRequested
<1>1. ASSUME NEW batch \in SUBSET Calls, ParentCalls(batch) PROVE Goal
  BY <1>1 DEF ParentCalls
<1>2. CASE ParentGates
  BY <1>0, <1>2 DEF ParentGates
<1>3. ASSUME NEW d \in Calls, CallStep(d) PROVE Goal
  <2>0. turn = {c} /\ d = c
    <3>1. turn' = turn /\ pc[d] \in {"called"} \cup Inside
      BY <1>3 DEF CallStep, Begin, RefuseArtifacts, ImageMissing, Raise, StartAgent, AgentWrites,
         AgentRequestsReview, EndAgent, Collect, Record, Return, Working, Inside
    <3> QED
      BY <3>1 DEF SerialInv, InTurn
  <2>1. CASE Begin(c) \/ RefuseArtifacts(c)
    <3>1. pc[c] = "called" /\ evaluations' = evaluations
      BY <2>1 DEF Begin, RefuseArtifacts
    <3>2. ~ ReviewRequested(c)'
      <4>1. ~ ReviewRequested(c)
        BY <3>1, OnlyAnsweredReport DEF Answered, Finished
      <4> QED
        BY <3>1, <4>1 DEF ReviewRequested
    <3> QED
      BY <2>1, <3>2 DEF Begin, RefuseArtifacts
  <2>2. CASE StartAgent(c)
    <3>1. start[c] = Len(reviews)
      BY <2>2 DEF StartAgent, OwnInv, WorkOK, AttemptOK, Working
    <3> QED
      BY <2>2, <3>1 DEF StartAgent
  <2>3. ASSUME NEW a \in Artifacts, AgentWrites(c, a) PROVE Goal
    BY <2>0, <2>3 DEF AgentWrites, LatestInv, LatestOwn
  <2>4. ASSUME NEW list \in ReviewLists, AgentRequestsReview(c, list) PROVE Goal
    <3> DEFINE q == [call |-> c, attempt |-> NextAttempt, list |-> list]
    <3>1. q \in RequestRecord /\ q.call = c
      BY DEF RequestRecord, NextAttempt
    <3>2. reviews' = Append(reviews, q) /\ reviews \in Seq(RequestRecord)
      BY <2>4 DEF AgentRequestsReview
    <3> HIDE DEF q
    <3>3. reviews' # <<>> /\ reviews'[Len(reviews')] = q
      BY <3>1, <3>2
    <3> QED
      BY <2>4, <3>1, <3>3 DEF AgentRequestsReview, LatestOwn
  <2>5. CASE EndAgent(c)
    BY <2>0, <2>5 DEF EndAgent, LatestInv, LatestOwn
  <2>6. ASSUME NEW ok \in BOOLEAN, Collect(c, ok) PROVE Goal
    BY <2>0, <2>6 DEF Collect, LatestInv, LatestOwn
  <2>7. ASSUME NEW R \in SUBSET Nat, NEW ok \in BOOLEAN, pc[c] \in Working,
               evaluations' = Append(evaluations, Evaluation(c, R, ok)),
               ReviewRequested(c)'
        PROVE  R # {}
    <3> DEFINE e == Evaluation(c, R, ok)
    <3>1. ~ ReviewRequested(c)
      BY <2>7, OnlyAnsweredReport DEF Working, Answered, Finished
    <3>2. e \in EvaluationRecord /\ e.reviews = R
      BY DEF Evaluation, EvaluationRecord
    <3>3. evaluations' = Append(evaluations, e) /\ evaluations \in Seq(EvaluationRecord)
      BY <2>7
    <3> HIDE DEF e
    <3>4. /\ \A i \in DOMAIN evaluations' : i \in DOMAIN evaluations \/ evaluations'[i] = e
          /\ \A i \in DOMAIN evaluations : evaluations'[i] = evaluations[i]
      BY <3>2, <3>3
    <3> QED
      BY <2>7, <3>1, <3>2, <3>4 DEF ReviewRequested
  <2>8. CASE ImageMissing(c)
    <3>1. ~ ReviewRequested(c)'
      BY <2>7, <2>8 DEF ImageMissing, Working
    <3> QED
      BY <2>8, <3>1 DEF ImageMissing
  <2>9. CASE Record(c)
    <3> DEFINE ok == fine[c] /\ (c \in Inline \/ got[c] # {})
    <3>1. pc[c] = "collected" /\ got[c] = start[c] + 1 .. Len(reviews)
      BY <2>9 DEF Record, OwnInv, WorkOK, AttemptOK, Working
    <3>2. got[c] # {} => LatestOwn(c)
      BY <2>0, <3>1 DEF LatestInv
    <3>3. ok \in BOOLEAN /\ evaluations' = Append(evaluations, Evaluation(c, got[c], ok))
      BY <2>9 DEF Record
    <3> HIDE DEF ok
    <3>4. ReviewRequested(c)' => LatestOwn(c)
      BY <2>7, <3>1, <3>2, <3>3 DEF Working
    <3> QED
      BY <2>9, <3>4 DEF Record, LatestOwn
  <2>10. CASE Raise(c)
    BY <2>10 DEF Raise
  <2>11. CASE Return(c)
    BY <2>0, <2>11 DEF Return, LatestInv, LatestOwn, ReviewRequested
  <2> QED
    BY <1>3, <2>0, <2>1, <2>2, <2>3, <2>4, <2>5, <2>6, <2>8, <2>9, <2>10, <2>11 DEF CallStep
<1>5. CASE ParentCloses \/ UNCHANGED vars
  BY <1>0, <1>5 DEF ParentCloses, vars
<1> QED
  BY <1>1, <1>2, <1>3, <1>5 DEF Next

(* One by one, the list the parent gates after a message of one call was     *)
(* requested by a call whose evaluation says so, and only that call has      *)
(* written artifacts since.                                                  *)
THEOREM GatesWhatWasReviewed ==
  ASSUME OneByOne PROVE Spec \/ MultiSpec => GatedAsReviewed
<1> DEFINE Inv == TypeOK /\ SerialInv /\ OwnInv /\ LostInv /\ LatestInv
<1> DEFINE A == gated' # gated /\ Cardinality(turn) = 1 =>
                  ReviewRequested(gated') /\ touched \subseteq {gated'}
<1>1. Init => LatestInv
  BY DEF Init, LatestInv
<1>2. TypeOK /\ SerialInv /\ OwnInv /\ LostInv /\ LatestInv /\ [Next]_vars => LatestInv'
  BY LatestStep
<1>3. Inv /\ [Next]_vars => [A]_vars
  <2> SUFFICES ASSUME Inv, [Next]_vars, gated' # gated, Cardinality(turn) = 1
               PROVE  ReviewRequested(gated') /\ touched \subseteq {gated'}
    OBVIOUS
  <2>1. ParentGates
    BY DEF Next, ParentCalls, CallStep, Begin, RefuseArtifacts, ImageMissing, Raise,
       StartAgent, AgentWrites, AgentRequestsReview, EndAgent, Collect, Record, Return,
       ParentCloses, vars, parent
  <2>2. PICK c \in Calls : turn = {c}
    <3>1. turn \in SUBSET Calls /\ IsFiniteSet(turn)
      BY FS_Subset, CallAssumption DEF TypeOK
    <3> QED
      BY <3>1, FS_Singleton
  <2>3. ReviewRequested(c) /\ pc[c] = "returned"
    BY <2>1, <2>2 DEF ParentGates
  <2>4. LatestOwn(c)
    BY <2>2, <2>3 DEF LatestInv
  <2>5. gated' = c
    BY <2>1, <2>4 DEF ParentGates, LatestOwn
  <2> QED
    BY <2>3, <2>4, <2>5 DEF LatestOwn
<1>4. Spec => []OwnInv
  BY RunsAreOwn
<1> QED
  BY <1>1, <1>2, <1>3, <1>4, RunsAreTyped, RunsAreSerial, RunsLoseNothing, MultiRunsAttempts, PTL
  DEF Spec, GatedAsReviewed

-----------------------------------------------------------------------------
(* The subtask history.  The self-check files in /outputs are never those of *)
(* another call while one is inside; a call that has its answer has at most  *)
(* one evaluation, with the number it holds; what is archived and listed     *)
(* carries the number of its own call's evaluation, so that no later call    *)
(* can use its name again.                                                   *)

HistoryRecord ==
  [call : Calls, attempt : Nat, reviewed : BOOLEAN, found : Calls \cup {NoCall},
   archived : BOOLEAN]

LocalRecord ==
  [attempt : Nat, found : Calls \cup {NoCall}, step : {"attempt", "archived", "listed"}]

FilesOK ==
  /\ history \in Seq(HistoryRecord)
  /\ check \in [{"root", "subtasks"} -> Calls \cup {NoCall}]
  /\ local \in [Calls -> LocalRecord]

ChecksOwn == \A c \in Calls : pc[c] \in Inside => check["root"] \in {NoCall, c}

Numbered(c, n) == n \in DOMAIN evaluations /\ evaluations[n].call = c

Listed(c, n) == \E i \in DOMAIN history : history[i].call = c /\ history[i].attempt = n

InArchive(c, n) ==
  ArchiveName(c, n) \in DOMAIN archive /\ archive[ArchiveName(c, n)] = c

AnswerOK(c) ==
  /\ \A n \in DOMAIN evaluations : evaluations[n].call = c => n = local[c].attempt
  /\ check["root"] # NoCall => Numbered(c, local[c].attempt)
  /\ local[c].step # "attempt" /\ check["root"] # NoCall => InArchive(c, local[c].attempt)
  /\ local[c].step = "listed" => Listed(c, local[c].attempt)

LocalOK ==
  \A c \in Calls :
    /\ pc[c] # "answered" => local[c].step = "attempt"
    /\ pc[c] \in Working => local[c].attempt = Len(evaluations) + 1
    /\ pc[c] = "answered" => AnswerOK(c)

Kept(h) == h.archived => Numbered(h.call, h.attempt) /\ InArchive(h.call, h.attempt)

AllKept == \A i \in DOMAIN history : Kept(history[i])

Matches(h) ==
  h.reviewed => Numbered(h.call, h.attempt) /\ evaluations[h.attempt].reviews # {}

AllMatch == \A i \in DOMAIN history : Matches(history[i])

AllListed ==
  \A n \in DOMAIN evaluations :
    pc[evaluations[n].call] = "returned" => Listed(evaluations[n].call, n)

HistoryInv == FilesOK /\ ChecksOwn /\ LocalOK /\ AllKept /\ AllMatch /\ AllListed

LEMMA EvaluationsGrow ==
  ASSUME TypeOK, NEW c \in Calls, NEW R \in SUBSET Nat, NEW ok \in BOOLEAN,
         evaluations' = Append(evaluations, Evaluation(c, R, ok))
  PROVE  /\ Len(evaluations) \in Nat /\ Len(evaluations') = Len(evaluations) + 1
         /\ DOMAIN evaluations' = DOMAIN evaluations \cup {Len(evaluations) + 1}
         /\ DOMAIN evaluations = 1 .. Len(evaluations)
         /\ \A n \in DOMAIN evaluations : evaluations'[n] = evaluations[n]
         /\ evaluations'[Len(evaluations) + 1].call = c
         /\ evaluations'[Len(evaluations) + 1].reviews = R
<1> DEFINE e == Evaluation(c, R, ok)
<1>1. e \in EvaluationRecord /\ e.call = c /\ e.reviews = R
  BY DEF Evaluation, EvaluationRecord, TypeOK
<1>2. evaluations \in Seq(EvaluationRecord) /\ evaluations' = Append(evaluations, e)
  BY DEF TypeOK
<1> HIDE DEF e
<1> QED
  BY <1>1, <1>2

LEMMA EvaluationsTyped ==
  ASSUME TypeOK PROVE \A n \in DOMAIN evaluations : evaluations[n].call \in Calls
<1>1. \A n \in DOMAIN evaluations : evaluations[n] \in EvaluationRecord
  BY DEF TypeOK
<1> QED
  BY <1>1 DEF EvaluationRecord

(* Where the evaluations stay, the history and the archive do too, and no    *)
(* call returns, only the files in hand and the locals are left to look at.  *)
LEMMA ListsStay ==
  ASSUME TypeOK, HistoryInv, UNCHANGED <<archive, history, evaluations>>,
         \A c \in Calls : pc'[c] = "returned" => pc[c] = "returned",
         FilesOK', ChecksOwn', LocalOK'
  PROVE  HistoryInv'
<1>1. AllKept' /\ AllMatch'
  BY DEF HistoryInv, AllKept, Kept, AllMatch, Matches, Numbered, InArchive, ArchiveName
<1>2. AllListed'
  BY EvaluationsTyped DEF HistoryInv, AllListed, Listed
<1> QED
  BY <1>1, <1>2 DEF HistoryInv

(* Steps that change neither the files nor the evaluations.                  *)
LEMMA FilesStay ==
  ASSUME TypeOK, HistoryInv, UNCHANGED <<files, evaluations>>,
         \A c \in Calls : /\ pc'[c] \in Working <=> pc[c] \in Working
                          /\ pc'[c] = "answered" <=> pc[c] = "answered"
                          /\ pc'[c] = "returned" => pc[c] = "returned"
  PROVE  HistoryInv'
<1>1. UNCHANGED <<check, archive, history, local>>
  BY DEF files
<1>2. FilesOK' /\ ChecksOwn'
  BY <1>1 DEF HistoryInv, FilesOK, ChecksOwn, Inside
<1>3. LocalOK'
  <2> SUFFICES ASSUME NEW c \in Calls
               PROVE  /\ pc'[c] # "answered" => local'[c].step = "attempt"
                      /\ pc'[c] \in Working => local'[c].attempt = Len(evaluations') + 1
                      /\ pc'[c] = "answered" => AnswerOK(c)'
    BY DEF LocalOK
  <2>1. AnswerOK(c) => AnswerOK(c)'
    BY <1>1 DEF AnswerOK, Numbered, InArchive, Listed, ArchiveName
  <2> QED
    BY <1>1, <2>1 DEF HistoryInv, LocalOK
<1> QED
  BY <1>1, <1>2, <1>3, ListsStay

(* A call gets its answer with an evaluation.                                *)
LEMMA AnswerRecorded ==
  ASSUME Locked, TypeOK, SerialInv, LostInv, HistoryInv, NEW c \in Calls,
         pc[c] \in Working, pc' = [pc EXCEPT ![c] = "answered"],
         NEW R \in SUBSET Nat, NEW ok \in BOOLEAN,
         evaluations' = Append(evaluations, Evaluation(c, R, ok)),
         UNCHANGED <<check, archive, history>>,
         NEW w \in Calls \cup {NoCall},
         local' = local \/ local' = [local EXCEPT ![c].found = w]
  PROVE  HistoryInv'
<1> USE DEF HistoryInv
<1>0. PICK n \in Nat : n = Len(evaluations) + 1
  BY DEF TypeOK
<1>1. /\ DOMAIN evaluations = 1 .. n - 1 /\ n \notin DOMAIN evaluations
      /\ DOMAIN evaluations' = DOMAIN evaluations \cup {n}
      /\ \A m \in DOMAIN evaluations : evaluations'[m] = evaluations[m]
      /\ evaluations'[n].call = c /\ evaluations'[n].reviews = R
  BY <1>0, EvaluationsGrow
<1>2. \A d \in Calls \ {c} : pc[d] \notin Inside /\ pc[d] \notin Working /\ pc'[d] = pc[d]
  BY Alone DEF OneByOne, TypeOK, Inside
<1>3. pc'[c] = "answered" /\ pc[c] # "answered"
  BY DEF TypeOK, Working
<1>4. local \in [Calls -> LocalRecord] /\ local[c] \in LocalRecord
  BY DEF FilesOK
<1>5. /\ local' \in [Calls -> LocalRecord]
      /\ \A d \in Calls : local'[d].step = local[d].step /\ local'[d].attempt = local[d].attempt
  <2>1. CASE local' = local
    BY <1>4, <2>1
  <2>2. CASE local' = [local EXCEPT ![c].found = w]
    <3>1. \A d \in Calls \ {c} : local'[d] = local[d]
      BY <1>4, <2>2
    <3>2. local'[c] = [local[c] EXCEPT !.found = w]
      BY <1>4, <2>2
    <3>3. /\ local'[c] \in LocalRecord
          /\ local'[c].step = local[c].step /\ local'[c].attempt = local[c].attempt
      BY <1>4, <3>2 DEF LocalRecord
    <3>4. local' = [d \in Calls |-> local'[d]]
      BY <1>4, <2>2
    <3> QED
      BY <1>4, <3>1, <3>3, <3>4
  <2> QED
    BY <2>1, <2>2
<1>6. FilesOK'
  BY <1>5 DEF FilesOK
<1>7. ChecksOwn'
  BY <1>2 DEF ChecksOwn, Inside
<1>8. local[c].attempt = n /\ local[c].step = "attempt"
  BY <1>0, <1>3 DEF LocalOK
<1>9. AnswerOK(c)'
  <2>1. \A m \in DOMAIN evaluations : evaluations[m].call # c
    BY DEF LostInv, Answered, Working, Finished
  <2>2. \A m \in DOMAIN evaluations' : evaluations'[m].call = c => m = n
    BY <1>1, <2>1
  <2>3. Numbered(c, n)'
    BY <1>1 DEF Numbered
  <2> QED
    BY <1>5, <1>8, <2>2, <2>3 DEF AnswerOK, Numbered
<1>10. LocalOK'
  BY <1>2, <1>3, <1>5, <1>9 DEF LocalOK, Inside, Working
<1>11. AllKept' /\ AllMatch'
  <2>1. ASSUME NEW h, Kept(h) PROVE Kept(h)'
    BY <1>1, <2>1 DEF Kept, Numbered, InArchive, ArchiveName
  <2>2. ASSUME NEW h, Matches(h) PROVE Matches(h)'
    BY <1>1, <2>2 DEF Matches, Numbered
  <2> QED
    BY <2>1, <2>2 DEF AllKept, AllMatch
<1>12. AllListed'
  <2> SUFFICES ASSUME NEW m \in DOMAIN evaluations', pc'[evaluations'[m].call] = "returned"
               PROVE  Listed(evaluations'[m].call, m)
    BY DEF AllListed, Listed
  <2>1. m \in DOMAIN evaluations /\ evaluations'[m] = evaluations[m]
    BY <1>1, <1>3
  <2>2. evaluations[m].call \in Calls \ {c}
    BY <1>3, <2>1, EvaluationsTyped
  <2>3. Listed(evaluations[m].call, m)
    BY <1>2, <2>1, <2>2 DEF AllListed
  <2> QED
    BY <2>1, <2>3
<1> QED
  BY <1>6, <1>7, <1>10, <1>11, <1>12

LEMMA HistoryStep ==
  ASSUME Locked
  PROVE  TypeOK /\ SerialInv /\ LostInv /\ HistoryInv /\ [MultiNext]_multiVars => HistoryInv'
<1> SUFFICES ASSUME TypeOK, SerialInv, LostInv, HistoryInv, [MultiNext]_multiVars
             PROVE  HistoryInv'
  OBVIOUS
<1>1. ASSUME NEW c \in Calls, SubtaskStep(c) PROVE HistoryInv'
  <2>0. /\ local \in [Calls -> LocalRecord]
        /\ check \in [{"root", "subtasks"} -> Calls \cup {NoCall}]
    BY DEF HistoryInv, FilesOK
  <2>1. CASE Opens(c)
    <3>1. /\ pc[c] = "called" /\ MayEnter /\ pc' = [pc EXCEPT ![c] = pc'[c]]
          /\ pc'[c] \in {"numbered", "answered"}
      BY <2>1 DEF Opens, Begin, RefuseArtifacts, Ended, TypeOK
    <3>2. /\ UNCHANGED <<archive, history, evaluations>>
          /\ check' = [check EXCEPT !["root"] = NoCall]
          /\ local' = [local EXCEPT ![c].attempt = NextAttempt]
      BY <2>1 DEF Opens, Begin, RefuseArtifacts, lists, ClearChecks
    <3>3. \A d \in Calls \ {c} : pc[d] \notin Inside /\ pc[d] \notin Working /\ pc'[d] = pc[d]
      BY <3>1, Alone DEF OneByOne, TypeOK
    <3>4. check'["root"] = NoCall /\ local'[c].attempt = NextAttempt /\ NextAttempt \in Nat
      <4>1. local[c] \in LocalRecord
        BY <2>0
      <4> QED
        BY <2>0, <3>2, <4>1 DEF LocalRecord, NextAttempt, TypeOK
    <3>5. \A d \in Calls : local'[d].step = local[d].step /\ (d # c => local'[d] = local[d])
      BY <2>0, <3>2 DEF LocalRecord
    <3>6. FilesOK'
      BY <2>0, <3>2, <3>4 DEF HistoryInv, FilesOK, LocalRecord
    <3>7. ChecksOwn'
      BY <3>4 DEF ChecksOwn
    <3>8. AnswerOK(c)'
      <4>1. \A m \in DOMAIN evaluations : evaluations[m].call # c
        BY <3>1 DEF LostInv, Answered, Finished
      <4>2. local'[c].step = "attempt"
        BY <3>1, <3>5 DEF HistoryInv, LocalOK
      <4> QED
        BY <3>2, <3>4, <4>1, <4>2 DEF AnswerOK
    <3>9. LocalOK'
      BY <3>1, <3>2, <3>3, <3>4, <3>5, <3>8 DEF HistoryInv, LocalOK, Inside, NextAttempt
    <3> QED
      BY <3>1, <3>2, <3>3, <3>6, <3>7, <3>9, ListsStay
  <2>2. CASE Raises(c)
    <3>1. /\ pc[c] \in {"called"} \cup Inside /\ pc' = [pc EXCEPT ![c] = "raised"]
          /\ UNCHANGED <<archive, history, evaluations>>
          /\ local' = [local EXCEPT ![c] = NoLocals]
      BY <2>2 DEF Raises, Raise, lists, Inside, Working
    <3>2. pc'[c] = "raised" /\ \A d \in Calls \ {c} : pc'[d] = pc[d] /\ local'[d] = local[d]
      BY <2>0, <3>1 DEF TypeOK
    <3>3. \/ UNCHANGED check
          \/ /\ pc[c] = "called" /\ MayEnter
             /\ check' = [check EXCEPT !["root"] = NoCall]
      BY <2>2 DEF Raises, ClearChecks
    <3>4. NoLocals \in LocalRecord /\ local'[c] = NoLocals /\ NoLocals.step = "attempt"
      BY <2>0, <3>1 DEF NoLocals, LocalRecord
    <3>5. FilesOK'
      BY <2>0, <3>1, <3>3, <3>4 DEF HistoryInv, FilesOK
    <3>6. \A d \in Calls : pc'[d] \in Inside => d # c /\ pc[d] \in Inside /\ check' = check
      <4>1. UNCHANGED check \/ \A d \in Calls \ {c} : pc[d] \notin Inside
        BY <3>3, Alone DEF OneByOne
      <4> QED
        BY <3>2, <4>1 DEF Inside, Working
    <3>7. ChecksOwn'
      BY <3>6 DEF HistoryInv, ChecksOwn
    <3>8. LocalOK'
      <4> SUFFICES ASSUME NEW d \in Calls
                   PROVE  /\ pc'[d] # "answered" => local'[d].step = "attempt"
                          /\ pc'[d] \in Working =>
                               local'[d].attempt = Len(evaluations') + 1
                          /\ pc'[d] = "answered" => AnswerOK(d)'
        BY DEF LocalOK
      <4>1. CASE d = c
        BY <3>2, <3>4, <4>1 DEF Working
      <4>2. CASE d # c
        <5>1. pc'[d] = pc[d] /\ local'[d] = local[d]
          BY <3>2, <4>2
        <5>2. pc[d] = "answered" /\ AnswerOK(d) => AnswerOK(d)'
          BY <3>1, <3>6, <5>1 DEF AnswerOK, Numbered, InArchive, Listed, ArchiveName, Inside
        <5> QED
          BY <3>1, <5>1, <5>2 DEF HistoryInv, LocalOK
      <4> QED
        BY <4>1, <4>2
    <3> QED
      BY <3>1, <3>2, <3>5, <3>7, <3>8, ListsStay
  <2>3. CASE Reports(c)
    <3>1. pc[c] = "collected" /\ pc' = [pc EXCEPT ![c] = "answered"]
      BY <2>3 DEF Reports, Record, Ended
    <3>2. PICK R \in SUBSET Nat : R = got[c]
      BY DEF TypeOK
    <3>3. PICK ok \in BOOLEAN : ok = (fine[c] /\ (c \in Inline \/ got[c] # {}))
      OBVIOUS
    <3>4. evaluations' = Append(evaluations, Evaluation(c, R, ok))
      BY <2>3, <3>2, <3>3 DEF Reports, Record
    <3>5. /\ UNCHANGED <<check, archive, history>>
          /\ check["subtasks"] \in Calls \cup {NoCall}
          /\ local' = [local EXCEPT ![c].found = check["subtasks"]]
      BY <2>0, <2>3 DEF Reports
    <3> QED
      BY <3>1, <3>4, <3>5, AnswerRecorded DEF Working
  <2>4. CASE ImageMissing(c) /\ UNCHANGED files
    <3>1. /\ pc[c] = "numbered" /\ pc' = [pc EXCEPT ![c] = "answered"]
          /\ evaluations' = Append(evaluations, Evaluation(c, {}, FALSE))
      BY <2>4 DEF ImageMissing
    <3>2. UNCHANGED <<check, archive, history>> /\ local' = local
      BY <2>4 DEF files
    <3>3. {} \in SUBSET Nat /\ FALSE \in BOOLEAN /\ NoCall \in Calls \cup {NoCall}
      OBVIOUS
    <3> QED
      BY <3>1, <3>2, <3>3, AnswerRecorded DEF Working
  <2>5. CASE Archives(c)
    <3>1. PICK n \in Nat : n = local[c].attempt
      BY <2>0 DEF LocalRecord
    <3>2. /\ pc[c] = "answered" /\ UNCHANGED <<check, history, evaluations, pc>>
          /\ local' = [local EXCEPT ![c].step = "archived"]
          /\ archive' = IF check["root"] = NoCall THEN archive
                        ELSE [x \in DOMAIN archive \cup {ArchiveName(c, n)} |->
                                IF x = ArchiveName(c, n) THEN check["root"] ELSE archive[x]]
      BY <2>5, <3>1 DEF Archives, SubtaskNumber, vars, lists
    <3>3. AnswerOK(c) /\ check["root"] \in {NoCall, c}
      BY <3>2 DEF HistoryInv, LocalOK, ChecksOwn, Inside
    <3>4. check["root"] # NoCall => Numbered(c, n) /\ check["root"] = c
      BY <3>1, <3>3 DEF AnswerOK
    <3>5. \A d \in Calls : pc[d] = "answered" => d = c
      BY <3>2, Alone DEF OneByOne, Inside
    <3>6. /\ local'[c].step = "archived" /\ local'[c].attempt = n
          /\ \A d \in Calls \ {c} : local'[d] = local[d]
          /\ \A d \in Calls : local'[d].attempt = local[d].attempt
          /\ local' \in [Calls -> LocalRecord]
      BY <2>0, <3>1, <3>2 DEF LocalRecord
    <3>7. FilesOK' /\ ChecksOwn'
      BY <3>2, <3>6 DEF HistoryInv, FilesOK, ChecksOwn
    <3>8. AnswerOK(c)'
      <4>1. check["root"] # NoCall => InArchive(c, n)'
        BY <3>2, <3>4 DEF InArchive, ArchiveName
      <4>2. (check["root"] # NoCall => Numbered(c, n))'
        BY <3>2, <3>4 DEF Numbered
      <4> QED
        BY <3>1, <3>2, <3>3, <3>6, <4>1, <4>2 DEF AnswerOK, InArchive, Numbered
    <3>9. LocalOK'
      BY <3>2, <3>5, <3>6, <3>8 DEF HistoryInv, LocalOK, Working
    <3>10. AllKept'
      <4> SUFFICES ASSUME NEW i \in DOMAIN history, history[i].archived
                   PROVE  /\ Numbered(history[i].call, history[i].attempt)'
                          /\ InArchive(history[i].call, history[i].attempt)'
        BY <3>2 DEF AllKept, Kept, Numbered, InArchive
      <4>1. /\ Numbered(history[i].call, history[i].attempt)
            /\ InArchive(history[i].call, history[i].attempt)
        BY DEF HistoryInv, AllKept, Kept
      <4>2. Numbered(history[i].call, history[i].attempt)'
        BY <3>2, <4>1 DEF Numbered
      <4>3. PICK h, m : h = history[i].call /\ m = history[i].attempt
        OBVIOUS
      <4>4. ArchiveName(h, m) = ArchiveName(c, n) /\ Numbered(c, n) => h = c
        BY <4>1, <4>3 DEF ArchiveName, Numbered
      <4>5. InArchive(h, m)'
        BY <3>2, <3>4, <4>1, <4>3, <4>4 DEF InArchive, ArchiveName
      <4> QED
        BY <3>2, <4>2, <4>3, <4>5 DEF InArchive
    <3>11. AllMatch' /\ AllListed'
      BY <3>2 DEF HistoryInv, AllMatch, Matches, Numbered, AllListed, Listed
    <3> QED
      BY <3>7, <3>9, <3>10, <3>11 DEF HistoryInv
  <2>6. CASE Lists(c)
    <3>1. PICK n \in Nat : n = local[c].attempt
      BY <2>0 DEF LocalRecord
    <3>2. PICK e \in HistoryRecord :
            e = [call |-> c, attempt |-> n, reviewed |-> ReviewRequested(c),
                 found |-> local[c].found, archived |-> check["root"] # NoCall]
      <4>1. local[c].found \in Calls \cup {NoCall} /\ ReviewRequested(c) \in BOOLEAN
        BY <2>0 DEF LocalRecord, ReviewRequested
      <4>2. [call |-> c, attempt |-> n, reviewed |-> ReviewRequested(c),
             found |-> local[c].found, archived |-> check["root"] # NoCall] \in HistoryRecord
        BY <4>1 DEF HistoryRecord
      <4> QED
        BY <4>2, Zenon
    <3>3. /\ e.call = c /\ e.attempt = n /\ (e.reviewed <=> ReviewRequested(c))
          /\ (e.archived <=> check["root"] # NoCall)
      BY <3>2
    <3>4. /\ pc[c] = "answered" /\ UNCHANGED <<check, archive, evaluations, pc>>
          /\ local[c].step = "archived" /\ local' = [local EXCEPT ![c].step = "listed"]
          /\ history' = Append(history, e)
      BY <2>6, <3>1, <3>2 DEF Lists, SubtaskNumber, vars, lists
    <3>5. /\ history' \in Seq(HistoryRecord)
          /\ \A i \in DOMAIN history' : i \in DOMAIN history \/ history'[i] = e
          /\ \A i \in DOMAIN history : i \in DOMAIN history' /\ history'[i] = history[i]
          /\ \E i \in DOMAIN history' : history'[i] = e
      <4>1. history \in Seq(HistoryRecord) /\ Len(history) \in Nat
        BY DEF HistoryInv, FilesOK
      <4>2. /\ history' \in Seq(HistoryRecord) /\ DOMAIN history' = 1 .. Len(history) + 1
            /\ DOMAIN history = 1 .. Len(history) /\ history'[Len(history) + 1] = e
            /\ \A i \in 1 .. Len(history) : history'[i] = history[i]
        BY <3>4, <4>1
      <4> QED
        BY <4>1, <4>2
    <3>6. AnswerOK(c)
      BY <3>4 DEF HistoryInv, LocalOK
    <3>7. \A d \in Calls : pc[d] = "answered" => d = c
      BY <3>4, Alone DEF OneByOne, Inside
    <3>8. /\ local'[c].step = "listed" /\ local'[c].attempt = n
          /\ \A d \in Calls \ {c} : local'[d] = local[d]
          /\ \A d \in Calls : local'[d].attempt = local[d].attempt
          /\ local' \in [Calls -> LocalRecord]
      BY <2>0, <3>1, <3>4 DEF LocalRecord
    <3>9. FilesOK' /\ ChecksOwn'
      BY <3>4, <3>5, <3>8 DEF HistoryInv, FilesOK, ChecksOwn
    <3>10. ASSUME NEW d, NEW m, Listed(d, m) PROVE Listed(d, m)'
      BY <3>5, <3>10 DEF Listed
    <3>11. Listed(c, n)'
      BY <3>3, <3>5 DEF Listed
    <3>12. AnswerOK(c)'
      BY <3>1, <3>4, <3>6, <3>8, <3>11 DEF AnswerOK, InArchive, ArchiveName, Numbered, Listed
    <3>13. LocalOK'
      BY <3>4, <3>7, <3>8, <3>12 DEF HistoryInv, LocalOK, Working
    <3>14. AllKept'
      <4>1. Kept(e)
        BY <3>1, <3>3, <3>4, <3>6 DEF AnswerOK, Kept
      <4>2. ASSUME NEW h, Kept(h) PROVE Kept(h)'
        BY <3>4, <4>2 DEF Kept, Numbered, InArchive, ArchiveName
      <4> QED
        BY <3>5, <4>1, <4>2 DEF HistoryInv, AllKept
    <3>15. AllMatch'
      <4>1. Matches(e)
        <5> SUFFICES ASSUME ReviewRequested(c)
                     PROVE  Numbered(c, n) /\ evaluations[n].reviews # {}
          BY <3>3 DEF Matches
        <5>1. PICK i \in DOMAIN evaluations :
                evaluations[i].call = c /\ evaluations[i].reviews # {}
          BY DEF ReviewRequested
        <5>2. i = n
          BY <3>1, <3>6, <5>1 DEF AnswerOK
        <5> QED
          BY <5>1, <5>2 DEF Numbered
      <4>2. ASSUME NEW h, Matches(h) PROVE Matches(h)'
        BY <3>4, <4>2 DEF Matches, Numbered
      <4> QED
        BY <3>5, <4>1, <4>2 DEF HistoryInv, AllMatch
    <3>16. AllListed'
      BY <3>4, <3>10 DEF HistoryInv, AllListed
    <3> QED
      BY <3>9, <3>13, <3>14, <3>15, <3>16 DEF HistoryInv
  <2>7. CASE Returns(c)
    <3>1. /\ local[c].step = "listed" /\ pc[c] = "answered"
          /\ pc' = [pc EXCEPT ![c] = "returned"]
          /\ UNCHANGED <<check, archive, history, evaluations>>
          /\ local' = [local EXCEPT ![c] = NoLocals]
      BY <2>7 DEF Returns, Return, lists
    <3>2. NoLocals \in LocalRecord /\ local'[c] = NoLocals /\ NoLocals.step = "attempt"
      BY <2>0, <3>1 DEF NoLocals, LocalRecord
    <3>3. \A d \in Calls \ {c} : /\ pc[d] \notin Inside /\ pc[d] \notin Working
                                 /\ pc'[d] = pc[d] /\ local'[d] = local[d]
      BY <2>0, <3>1, Alone DEF OneByOne, TypeOK, Inside
    <3>4. pc'[c] = "returned"
      BY <3>1 DEF TypeOK
    <3>5. FilesOK' /\ ChecksOwn'
      BY <2>0, <3>1, <3>2, <3>3, <3>4 DEF HistoryInv, FilesOK, ChecksOwn, Inside, Working
    <3>6. LocalOK'
      BY <3>2, <3>3, <3>4 DEF HistoryInv, LocalOK, Inside, Working
    <3>7. AllKept' /\ AllMatch'
      BY <3>1 DEF HistoryInv, AllKept, Kept, AllMatch, Matches, Numbered, InArchive, ArchiveName
    <3>8. AllListed'
      <4> SUFFICES ASSUME NEW m \in DOMAIN evaluations, pc'[evaluations[m].call] = "returned"
                   PROVE  Listed(evaluations[m].call, m)
        BY <3>1 DEF AllListed, Listed
      <4>1. CASE evaluations[m].call = c
        <5>1. AnswerOK(c)
          BY <3>1 DEF HistoryInv, LocalOK
        <5> QED
          BY <3>1, <4>1, <5>1 DEF AnswerOK
      <4>2. CASE evaluations[m].call # c
        BY <3>3, <4>2, EvaluationsTyped DEF HistoryInv, AllListed
      <4> QED
        BY <4>1, <4>2
    <3> QED
      BY <3>5, <3>6, <3>7, <3>8 DEF HistoryInv
  <2>8. ASSUME NEW p \in Places, AgentWritesChecks(c, p) PROVE HistoryInv'
    <3>1. p \in {"root", "subtasks"}
      BY SubtaskAssumption
    <3>2. /\ UNCHANGED <<archive, history, local, evaluations, pc>> /\ pc[c] = "running"
          /\ check' = [check EXCEPT ![p] = c]
      BY <2>8 DEF AgentWritesChecks, vars, lists
    <3>3. \A d \in Calls \ {c} : pc[d] \notin Inside
      BY <3>2, Alone DEF OneByOne, Inside, Working
    <3>4. FilesOK' /\ ChecksOwn'
      BY <2>0, <3>1, <3>2, <3>3 DEF HistoryInv, FilesOK, ChecksOwn
    <3>5. LocalOK'
      BY <3>2, <3>3 DEF HistoryInv, LocalOK, Inside
    <3> QED
      BY <3>2, <3>4, <3>5, ListsStay
  <2>9. ASSUME UNCHANGED files,
               \/ StartAgent(c) \/ EndAgent(c) \/ \E a \in Artifacts : AgentWrites(c, a)
               \/ \E list \in ReviewLists : AgentRequestsReview(c, list)
               \/ \E ok \in BOOLEAN : Collect(c, ok)
        PROVE  HistoryInv'
    <3>1. /\ UNCHANGED evaluations /\ pc[c] \in Working
          /\ pc' = pc \/ pc' = [pc EXCEPT ![c] = "running"]
             \/ pc' = [pc EXCEPT ![c] = "closing"] \/ pc' = [pc EXCEPT ![c] = "collected"]
      BY <2>9 DEF StartAgent, EndAgent, AgentWrites, AgentRequestsReview, Collect, lists, Working
    <3>2. \A d \in Calls : /\ pc'[d] \in Working <=> pc[d] \in Working
                           /\ pc'[d] = "answered" <=> pc[d] = "answered"
                           /\ pc'[d] = "returned" => pc[d] = "returned"
      BY <3>1 DEF TypeOK, Working
    <3> QED
      BY <2>9, <3>1, <3>2, FilesStay
  <2> QED
    BY <1>1, <2>1, <2>2, <2>3, <2>4, <2>5, <2>6, <2>7, <2>8, <2>9 DEF SubtaskStep
<1>2. ASSUME NEW batch \in SUBSET Calls, ParentCalls(batch), UNCHANGED files PROVE HistoryInv'
  <2>1. UNCHANGED evaluations
    BY <1>2 DEF ParentCalls, lists
  <2>2. \A d \in Calls : /\ pc'[d] \in Working <=> pc[d] \in Working
                         /\ pc'[d] = "answered" <=> pc[d] = "answered"
                         /\ pc'[d] = "returned" => pc[d] = "returned"
    BY <1>2 DEF ParentCalls, TypeOK, Working
  <2> QED
    BY <1>2, <2>1, <2>2, FilesStay
<1>3. CASE UNCHANGED files /\ (ParentGates \/ ParentCloses)
  <2>1. UNCHANGED <<evaluations, pc>>
    BY <1>3 DEF ParentGates, ParentCloses, vars, lists
  <2> QED
    BY <1>3, <2>1, FilesStay
<1>4. CASE UNCHANGED multiVars
  <2>1. UNCHANGED <<files, evaluations, pc>>
    BY <1>4 DEF multiVars, vars
  <2> QED
    BY <2>1, FilesStay
<1> QED
  BY <1>1, <1>2, <1>3, <1>4 DEF MultiNext

LEMMA HistoryInvariant == ASSUME Locked PROVE MultiSpec => []HistoryInv
<1>1. MultiInit => HistoryInv
  <2> SUFFICES ASSUME MultiInit PROVE HistoryInv
    OBVIOUS
  <2>1. history = <<>> /\ evaluations = <<>> /\ \A c \in Calls : pc[c] = "idle"
    BY DEF MultiInit, Init
  <2>2. NoLocals \in LocalRecord /\ \A c \in Calls : local[c] = NoLocals
    BY DEF MultiInit, NoLocals, LocalRecord
  <2>3. FilesOK
    BY <2>1, <2>2 DEF MultiInit, FilesOK
  <2>4. ChecksOwn /\ LocalOK
    BY <2>1, <2>2 DEF ChecksOwn, LocalOK, NoLocals, Inside, Working
  <2> QED
    BY <2>1, <2>3, <2>4 DEF HistoryInv, AllKept, AllMatch, AllListed
<1>2. TypeOK /\ SerialInv /\ LostInv /\ HistoryInv /\ [MultiNext]_multiVars => HistoryInv'
  BY HistoryStep
<1> QED
  BY <1>1, <1>2, MultiRunsAttempts, RunsAreTyped, RunsAreSerial, RunsLoseNothing, PTL
  DEF MultiSpec

(* The subtask history and the evaluations agree on which attempt was whose, *)
(* wherever calls raise, and every call that returned is in the history.     *)
THEOREM HistoryAgrees == ASSUME Locked PROVE MultiSpec => []HistoryMatches
<1>1. HistoryInv => HistoryMatches
  BY DEF HistoryInv, AllMatch, Matches, Numbered, AllListed, Listed, HistoryMatches
<1>2. MultiSpec => []HistoryInv
  BY HistoryInvariant
<1> QED
  BY <1>1, <1>2, PTL

(* Of the two programs, the one that keeps a history keeps it in agreement   *)
(* with the evaluations, under its lock.                                     *)
THEOREM HistoryIsKept == ASSUME Locked PROVE RunnersSpec => []HistoryKept
<1> DEFINE Multi == runner = "multi"
<1>1. Multi /\ [RunnersNext]_runnerVars => Multi' /\ [MultiNext]_multiVars
  BY DEF RunnersNext, runnerVars
<1>2. ~ Multi /\ [RunnersNext]_runnerVars => ~ Multi'
  BY DEF RunnersNext, runnerVars
<1>3. (Multi => HistoryMatches) <=> HistoryKept
  BY DEF HistoryKept
<1>4. RunnersInit => MultiInit
  BY DEF RunnersInit
<1>5. MultiSpec => []HistoryMatches
  BY HistoryAgrees
<1> HIDE DEF Multi
<1> QED
  BY <1>1, <1>2, <1>3, <1>4, <1>5, PTL DEF RunnersSpec, MultiSpec

(* An archived self-check is that of the call whose record lists it.         *)
THEOREM ArchivesStayOwn == ASSUME Locked PROVE MultiSpec => []ArchivesAreOwn
<1>1. HistoryInv => ArchivesAreOwn
  BY DEF HistoryInv, AllKept, Kept, InArchive, ArchiveName, ArchivesAreOwn
<1>2. MultiSpec => []HistoryInv
  BY HistoryInvariant
<1> QED
  BY <1>1, <1>2, PTL

-----------------------------------------------------------------------------
(* The request log is in the order of the attempts, with or without the      *)
(* lock: a request is numbered after the evaluations there are, whose list   *)
(* only grows.                                                               *)
LogInv ==
  /\ \A r \in DOMAIN reviews : reviews[r].attempt <= Len(evaluations) + 1
  /\ \A r, s \in DOMAIN reviews : r < s => reviews[r].attempt <= reviews[s].attempt

LEMMA LogStep == TypeOK /\ LogInv /\ [Next]_vars => LogInv'
<1> SUFFICES ASSUME TypeOK, LogInv, [Next]_vars PROVE LogInv'
  OBVIOUS
<1> DEFINE n == Len(evaluations)  m == Len(reviews)
<1>0. /\ n \in Nat /\ m \in Nat /\ DOMAIN reviews = 1 .. m
      /\ \A r \in DOMAIN reviews : reviews[r].attempt \in Nat
  <2>1. n \in Nat /\ m \in Nat /\ DOMAIN reviews = 1 .. m
    BY DEF TypeOK
  <2>2. \A r \in DOMAIN reviews : reviews[r] \in RequestRecord
    BY DEF TypeOK
  <2> QED
    BY <2>1, <2>2 DEF RequestRecord
<1>1. ASSUME NEW e, evaluations' = Append(evaluations, e), UNCHANGED reviews PROVE LogInv'
  <2>1. Len(evaluations') = n + 1
    BY <1>1 DEF TypeOK
  <2> HIDE DEF n, m
  <2>2. \A r \in DOMAIN reviews : reviews[r].attempt <= n + 1
    BY DEF LogInv, n
  <2> QED
    BY <1>0, <1>1, <2>1, <2>2 DEF LogInv
<1>2. ASSUME NEW q, q.attempt = n + 1, reviews' = Append(reviews, q), UNCHANGED evaluations
      PROVE  LogInv'
  <2>1. /\ DOMAIN reviews' = 1 .. m + 1 /\ reviews'[m + 1] = q
        /\ \A r \in 1 .. m : reviews'[r] = reviews[r]
    BY <1>0, <1>2 DEF TypeOK
  <2> HIDE DEF m
  <2>2. \A r \in 1 .. m : reviews'[r].attempt \in Nat /\ reviews'[r].attempt <= n + 1
    BY <1>0, <2>1 DEF LogInv
  <2>3. \A r \in 1 .. m + 1 : reviews'[r].attempt <= n + 1
    BY <1>0, <1>2, <2>1, <2>2
  <2>4. ASSUME NEW r \in 1 .. m + 1, NEW s \in 1 .. m + 1, r < s
        PROVE  reviews'[r].attempt <= reviews'[s].attempt
    <3>1. r \in 1 .. m
      BY <1>0, <2>4
    <3>2. CASE s = m + 1
      BY <1>2, <2>1, <2>2, <3>1, <3>2
    <3>3. CASE s \in 1 .. m
      BY <1>0, <2>1, <2>4, <3>1, <3>3 DEF LogInv
    <3> QED
      BY <1>0, <3>2, <3>3
  <2> QED
    BY <1>2, <2>1, <2>3, <2>4 DEF LogInv
<1>3. CASE UNCHANGED <<evaluations, reviews>>
  BY <1>3 DEF LogInv
<1>4. ASSUME NEW c \in Calls, CallStep(c) PROVE LogInv'
  <2>1. CASE ImageMissing(c) \/ Record(c)
    <3>1. \E e : evaluations' = Append(evaluations, e) /\ UNCHANGED reviews
      BY <2>1 DEF ImageMissing, Record
    <3> QED
      BY <1>1, <3>1
  <2>2. CASE \E list \in ReviewLists : AgentRequestsReview(c, list)
    <3>1. PICK list \in ReviewLists : AgentRequestsReview(c, list)
      BY <2>2
    <3> DEFINE q == [call |-> c, attempt |-> n + 1, list |-> list]
    <3>2. reviews' = Append(reviews, q) /\ UNCHANGED evaluations /\ q.attempt = n + 1
      BY <3>1 DEF AgentRequestsReview, NextAttempt
    <3> HIDE DEF q
    <3> QED
      BY <1>2, <3>2
  <2>3. CASE UNCHANGED <<evaluations, reviews>>
    BY <1>3, <2>3
  <2> QED
    BY <1>4, <2>1, <2>2, <2>3 DEF CallStep, Begin, RefuseArtifacts, Raise, StartAgent,
       AgentWrites, EndAgent, Collect, Return, lists
<1> QED
  BY <1>3, <1>4 DEF Next, ParentCalls, ParentGates, ParentCloses, lists, vars

(* One by one, the evaluations report disjoint parts of the request log, in  *)
(* the order of the log: no request is reported by two of them.              *)
ReportsInOrder ==
  \A i, j \in DOMAIN evaluations : i < j =>
    \A r \in evaluations[i].reviews, s \in evaluations[j].reviews : r < s

(* It holds when attempts are made one by one, as the lists are only in step *)
(* with each other then.                                                     *)
THEOREM ReportsAreInOrder ==
  ASSUME OneByOne PROVE Spec \/ MultiSpec => []ReportsInOrder
<1>1. Init => LogInv
  BY DEF Init, LogInv
<1>2. TypeOK /\ LogInv /\ RoundsRespected /\ NumbersMatch /\ ReviewsAreOwn => ReportsInOrder
  <2> SUFFICES ASSUME TypeOK, LogInv, NumbersMatch, ReviewsAreOwn,
                      NEW i \in DOMAIN evaluations, NEW j \in DOMAIN evaluations, i < j,
                      NEW r \in evaluations[i].reviews, NEW s \in evaluations[j].reviews
               PROVE  r < s
    BY DEF ReportsInOrder
  <2>1. i \in Nat /\ j \in Nat
    BY DEF TypeOK
  <2>2. /\ r \in DOMAIN reviews /\ reviews[r].attempt = i
        /\ s \in DOMAIN reviews /\ reviews[s].attempt = j
    BY DEF NumbersMatch, ReviewsAreOwn
  <2>3. r \in Nat /\ s \in Nat
    BY <2>2 DEF TypeOK
  <2>4. r # s /\ ~ (s < r)
    BY <2>1, <2>2 DEF LogInv
  <2> QED
    BY <2>3, <2>4
<1>3. Spec \/ MultiSpec => [](RoundsRespected /\ NumbersMatch /\ ReviewsAreOwn)
  BY RecordsAreOrdered
<1> QED
  BY <1>1, <1>2, <1>3, LogStep, RunsAreTyped, MultiRunsAttempts, PTL DEF Spec

-----------------------------------------------------------------------------
(* What a step of a call does: its agent writes or asks for a review, or the *)
(* call itself comes closer to its end; nobody else takes it back.           *)
AgentActs(c) ==
  \/ \E a \in Artifacts : AgentWrites(c, a)
  \/ \E list \in ReviewLists : AgentRequestsReview(c, list)

CallRank == [idle |-> 7, called |-> 6, numbered |-> 5, running |-> 4, closing |-> 3,
             collected |-> 2, answered |-> 1, returned |-> 0, raised |-> 0]

CallsGoOn ==
  [][\A c \in Calls : /\ CallStep(c) /\ ~ AgentActs(c) => CallRank[pc'[c]] < CallRank[pc[c]]
                      /\ CallRank[pc'[c]] <= CallRank[pc[c]]]_vars

(* While every call of the message is over, nobody holds the lock: no path   *)
(* out of a call, by an answer, a refusal or an exception, keeps it.         *)
LockComesBack ==
  /\ Idle => lock = NoCall
  /\ lock # NoCall => pc[lock] \in Working \cup {"answered"}

LEMMA Ranks ==
  /\ CallRank["idle"] = 7 /\ CallRank["called"] = 6 /\ CallRank["numbered"] = 5
  /\ CallRank["running"] = 4 /\ CallRank["closing"] = 3 /\ CallRank["collected"] = 2
  /\ CallRank["answered"] = 1 /\ CallRank["returned"] = 0 /\ CallRank["raised"] = 0
BY DEF CallRank

LEMMA RankStep ==
  ASSUME TypeOK, TypeOK', [Next]_vars, NEW c \in Calls
  PROVE  /\ CallStep(c) /\ ~ AgentActs(c) => CallRank[pc'[c]] < CallRank[pc[c]]
         /\ CallRank[pc'[c]] <= CallRank[pc[c]]
<1>1. /\ pc[c] \in {"idle", "called", "numbered", "running", "closing", "collected",
                    "answered", "returned", "raised"}
      /\ pc'[c] \in {"idle", "called", "numbered", "running", "closing", "collected",
                     "answered", "returned", "raised"}
  BY DEF TypeOK, Working, Finished
<1>a. CallRank[pc[c]] \in Nat /\ CallRank[pc'[c]] \in Nat
  BY <1>1, Ranks
<1>2. ASSUME CallStep(c), ~ AgentActs(c) PROVE CallRank[pc'[c]] < CallRank[pc[c]]
  <2>1. \/ pc[c] = "called" /\ pc'[c] \in {"numbered", "answered", "returned", "raised"}
        \/ pc[c] = "numbered" /\ pc'[c] \in {"running", "answered", "raised"}
        \/ pc[c] = "running" /\ pc'[c] = "closing"
        \/ pc[c] = "closing" /\ pc'[c] \in {"collected", "raised"}
        \/ pc[c] = "collected" /\ pc'[c] \in {"answered", "returned", "raised"}
        \/ pc[c] = "answered" /\ pc'[c] \in {"returned", "raised"}
    BY <1>2 DEF CallStep, AgentActs, Begin, RefuseArtifacts, ImageMissing, Raise, StartAgent,
       EndAgent, Collect, Record, Return, Ended, TypeOK
  <2> QED
    BY <2>1, Ranks
<1>3. ASSUME NEW d \in Calls, CallStep(d), pc'[c] # pc[c]
      PROVE  CallRank[pc'[c]] < CallRank[pc[c]]
  <2>1. d = c
    BY <1>3 DEF CallStep, Begin, RefuseArtifacts, ImageMissing, Raise, StartAgent, AgentWrites,
       AgentRequestsReview, EndAgent, Collect, Record, Return, TypeOK
  <2>2. ~ AgentActs(c)
    BY <1>3 DEF AgentActs, AgentWrites, AgentRequestsReview
  <2> QED
    BY <1>2, <1>3, <2>1, <2>2
<1>4. ASSUME NEW batch \in SUBSET Calls, ParentCalls(batch), pc'[c] # pc[c]
      PROVE  CallRank[pc'[c]] < CallRank[pc[c]]
  <2>1. pc[c] = "idle" /\ pc'[c] = "called"
    BY <1>4 DEF ParentCalls, TypeOK
  <2> QED
    BY <2>1, Ranks
<1>5. CallRank[pc'[c]] <= CallRank[pc[c]]
  <2>2. CASE pc'[c] = pc[c]
    BY <1>a, <2>2
  <2>3. CASE pc'[c] # pc[c]
    <3>1. CallRank[pc'[c]] < CallRank[pc[c]]
      BY <1>3, <1>4, <2>3 DEF Next, ParentGates, ParentCloses, vars
    <3> QED
      BY <1>a, <3>1
  <2> QED
    BY <2>2, <2>3
<1> QED
  BY <1>2, <1>5

(* A call goes forward with every step that is not its agent's, and gives    *)
(* the lock back when it ends: the safety half of CallsFinish.               *)
THEOREM EveryCallGoesOn == Spec \/ MultiSpec => CallsGoOn /\ []LockComesBack
<1>1. TypeOK /\ TypeOK' /\ [Next]_vars =>
        [\A c \in Calls :
           /\ CallStep(c) /\ ~ AgentActs(c) => CallRank[pc'[c]] < CallRank[pc[c]]
           /\ CallRank[pc'[c]] <= CallRank[pc[c]]]_vars
  BY RankStep
<1>2. Init => (~ Locked => lock = NoCall)
  BY DEF Init
<1>3. (~ Locked => lock = NoCall) /\ [Next]_vars => (~ Locked => lock = NoCall)'
  BY DEF Next, CallStep, ParentCalls, ParentGates, ParentCloses, Begin,
     RefuseArtifacts, ImageMissing, Raise, StartAgent, AgentWrites, AgentRequestsReview,
     EndAgent, Collect, Record, Return, Ended, Enter, Leave, Release, vars
<1>4. TypeOK /\ SerialInv /\ (~ Locked => lock = NoCall) => LockComesBack
  <2> SUFFICES ASSUME TypeOK, SerialInv, ~ Locked => lock = NoCall, lock # NoCall
               PROVE  ~ Idle /\ pc[lock] \in Working \cup {"answered"}
    BY DEF LockComesBack
  <2>1. lock \in Calls /\ pc[lock] \in Inside /\ lock \in turn
    BY DEF TypeOK, SerialInv, HolderWorks, InTurn
  <2> QED
    BY <2>1 DEF Idle, Inside, Working, Finished
<1> QED
  BY <1>1, <1>2, <1>3, <1>4, RunsAreTyped, RunsAreSerial, MultiRunsAttempts, PTL
  DEF Spec, CallsGoOn

-----------------------------------------------------------------------------
(* The refinement of ReviewLedger.                                           *)

LEMMA OnlyChoice == ASSUME NEW x PROVE (CHOOSE y \in {x} : TRUE) = x
OBVIOUS

LEMMA OpenedIs ==
  ASSUME OneByOne, SerialInv, NEW c \in Calls, pc[c] \in Working
  PROVE  AtWork = {c} /\ Opened = c /\ OpenedAt = start[c] /\ c # NoCall
<1>1. AtWork = {c}
  BY Alone DEF AtWork, Inside
<1>2. Opened = c
  BY <1>1, OnlyChoice DEF Opened
<1> QED
  BY <1>1, <1>2, NoCallIsNoCall DEF OpenedAt

LEMMA RequestLogGrows ==
  ASSUME TypeOK
  PROVE  /\ Len(RequestLog) = Len(reviews)
         /\ \A q \in RequestRecord : reviews' = Append(reviews, q) =>
              RequestLog' = Append(RequestLog, [attempt |-> q.attempt, list |-> q.list])
<1> DEFINE T == [attempt : Nat, list : ReviewLists]
<1>1. /\ Len(reviews) \in Nat /\ DOMAIN reviews = 1 .. Len(reviews)
      /\ \A r \in 1 .. Len(reviews) : reviews[r] \in RequestRecord
  BY DEF TypeOK
<1>2. RequestLog \in Seq(T) /\ Len(RequestLog) = Len(reviews)
  BY <1>1 DEF RequestLog, RequestRecord
<1>3. ASSUME NEW q \in RequestRecord, reviews' = Append(reviews, q)
      PROVE  RequestLog' = Append(RequestLog, [attempt |-> q.attempt, list |-> q.list])
  <2> DEFINE x == [attempt |-> q.attempt, list |-> q.list]
  <2>1. x \in T
    BY DEF RequestRecord
  <2>2. /\ DOMAIN reviews' = 1 .. Len(reviews) + 1
        /\ reviews'[Len(reviews) + 1] = q
        /\ \A r \in 1 .. Len(reviews) : reviews'[r] = reviews[r]
    BY <1>3 DEF TypeOK
  <2>3. RequestLog' = [r \in 1 .. Len(reviews) + 1 |->
                         IF r = Len(reviews) + 1 THEN x ELSE RequestLog[r]]
    BY <1>1, <2>2 DEF RequestLog
  <2> HIDE DEF x, T
  <2>4. /\ Append(RequestLog, x) \in Seq(T) /\ Len(Append(RequestLog, x)) = Len(reviews) + 1
        /\ Append(RequestLog, x)[Len(reviews) + 1] = x
        /\ \A r \in 1 .. Len(reviews) : Append(RequestLog, x)[r] = RequestLog[r]
    BY <1>1, <1>2, <2>1
  <2>5. RequestLog' = Append(RequestLog, x)
    <3> DEFINE n == Len(reviews) + 1
    <3>1. n \in Nat /\ \A r \in 1 .. n : r = n \/ r \in 1 .. Len(reviews)
      BY <1>1
    <3> DEFINE s == Append(RequestLog, x)
    <3>2. s \in Seq(T) /\ Len(s) = n
      BY <2>4
    <3> HIDE DEF s
    <3>3. s = [r \in 1 .. n |-> s[r]]
      BY <3>1, <3>2
    <3> QED
      BY <2>3, <2>4, <3>1, <3>3 DEF s
  <2> QED
    BY <2>5 DEF x
<1> QED
  BY <1>2, <1>3

LEMMA ClosedAttemptsGrow ==
  ASSUME TypeOK
  PROVE  /\ Len(ClosedAttempts) = Len(evaluations)
         /\ \A e \in EvaluationRecord : evaluations' = Append(evaluations, e) =>
              ClosedAttempts' = Append(ClosedAttempts,
                [call |-> e.call, reviews |-> e.reviews, ok |-> e.ok])
<1> DEFINE T == [call : Calls, reviews : SUBSET Nat, ok : BOOLEAN]
<1>1. /\ Len(evaluations) \in Nat /\ DOMAIN evaluations = 1 .. Len(evaluations)
      /\ \A i \in 1 .. Len(evaluations) : evaluations[i] \in EvaluationRecord
  BY DEF TypeOK
<1>2. ClosedAttempts \in Seq(T) /\ Len(ClosedAttempts) = Len(evaluations)
  BY <1>1 DEF ClosedAttempts, EvaluationRecord
<1>3. ASSUME NEW e \in EvaluationRecord, evaluations' = Append(evaluations, e)
      PROVE  ClosedAttempts' = Append(ClosedAttempts,
               [call |-> e.call, reviews |-> e.reviews, ok |-> e.ok])
  <2> DEFINE x == [call |-> e.call, reviews |-> e.reviews, ok |-> e.ok]
  <2>1. x \in T
    BY DEF EvaluationRecord
  <2>2. /\ DOMAIN evaluations' = 1 .. Len(evaluations) + 1
        /\ evaluations'[Len(evaluations) + 1] = e
        /\ \A i \in 1 .. Len(evaluations) : evaluations'[i] = evaluations[i]
    BY <1>3 DEF TypeOK
  <2>3. ClosedAttempts' = [i \in 1 .. Len(evaluations) + 1 |->
                             IF i = Len(evaluations) + 1 THEN x ELSE ClosedAttempts[i]]
    BY <1>1, <2>2 DEF ClosedAttempts
  <2> HIDE DEF x, T
  <2>4. /\ Append(ClosedAttempts, x) \in Seq(T)
        /\ Len(Append(ClosedAttempts, x)) = Len(evaluations) + 1
        /\ Append(ClosedAttempts, x)[Len(evaluations) + 1] = x
        /\ \A i \in 1 .. Len(evaluations) : Append(ClosedAttempts, x)[i] = ClosedAttempts[i]
    BY <1>1, <1>2, <2>1
  <2>5. ClosedAttempts' = Append(ClosedAttempts, x)
    <3> DEFINE n == Len(evaluations) + 1
    <3>1. n \in Nat /\ \A i \in 1 .. n : i = n \/ i \in 1 .. Len(evaluations)
      BY <1>1
    <3> DEFINE s == Append(ClosedAttempts, x)
    <3>2. s \in Seq(T) /\ Len(s) = n
      BY <2>4
    <3> HIDE DEF s
    <3>3. s = [i \in 1 .. n |-> s[i]]
      BY <3>1, <3>2
    <3> QED
      BY <2>3, <2>4, <3>1, <3>3 DEF s
  <2> QED
    BY <2>5 DEF x
<1> QED
  BY <1>2, <1>3

LEMMA LedgerStarts == Init => Ledger!LedgerInit
<1> SUFFICES ASSUME Init PROVE Ledger!LedgerInit
  OBVIOUS
<1>1. Opened = NoCall
  BY DEF Init, Opened, AtWork, Working
<1>2. RequestLog = <<>> /\ ClosedAttempts = <<>>
  BY DEF Init, RequestLog, ClosedAttempts
<1> QED
  BY <1>1, <1>2 DEF Ledger!LedgerInit, OpenedAt

(* An attempt that is recorded closes the open entry.                        *)
LEMMA LedgerCloses ==
  ASSUME OneByOne, TypeOK, SerialInv, OwnInv, NEW c \in Calls,
         pc[c] \in Working, NEW w \in {"answered", "returned"}, pc' = [pc EXCEPT ![c] = w],
         NEW ok \in BOOLEAN, ok /\ c \notin Inline => start[c] + 1 .. Len(reviews) # {},
         evaluations' =
           Append(evaluations, Evaluation(c, start[c] + 1 .. Len(reviews), ok)),
         UNCHANGED reviews
  PROVE  Ledger!LedgerNext
<1> DEFINE R == start[c] + 1 .. Len(reviews)
<1>1. AtWork = {c} /\ Opened = c /\ OpenedAt = start[c] /\ c # NoCall
  BY OpenedIs
<1>2. Opened' = NoCall /\ OpenedAt' = 0
  BY Alone DEF TypeOK, Opened, OpenedAt, AtWork, Working, Inside
<1>3. RequestLog' = RequestLog /\ Len(RequestLog) = Len(reviews)
  BY RequestLogGrows DEF RequestLog
<1>4. ClosedAttempts' = Append(ClosedAttempts, [call |-> c, reviews |-> R, ok |-> ok])
  <2>1. R \in SUBSET Nat
    BY DEF TypeOK
  <2> HIDE DEF R
  <2> DEFINE e == Evaluation(c, R, ok)
  <2>2. /\ e \in EvaluationRecord /\ e.call = c /\ e.reviews = R /\ e.ok = ok
        /\ evaluations' = Append(evaluations, e)
    BY <2>1 DEF Evaluation, EvaluationRecord, TypeOK, R
  <2> HIDE DEF e
  <2> QED
    BY <2>2, ClosedAttemptsGrow
<1>5. Ledger!OpenReviews = R
  BY <1>1, <1>3 DEF Ledger!OpenReviews
<1>6. Ledger!Close(ok)
  BY <1>1, <1>2, <1>3, <1>4, <1>5 DEF Ledger!Close
<1> QED
  BY <1>6 DEF Ledger!LedgerNext

LEMMA LedgerStep ==
  ASSUME OneByOne
  PROVE  TypeOK /\ SerialInv /\ OwnInv /\ [Next]_vars
         => [Ledger!LedgerNext]_(Ledger!ledgerVars)
<1> SUFFICES ASSUME TypeOK, SerialInv, OwnInv, [Next]_vars
             PROVE  Ledger!LedgerNext \/ UNCHANGED Ledger!ledgerVars
  OBVIOUS
<1> USE DEF TypeOK, lists, shared, parent, Ended, Enter, Leave, Release
<1>0. ASSUME UNCHANGED <<evaluations, reviews>>,
             \A d \in Calls : pc[d] \in Working => start'[d] = start[d],
             \A d \in Calls : pc'[d] \in Working <=> pc[d] \in Working
      PROVE  UNCHANGED Ledger!ledgerVars
  <2>1. AtWork' = AtWork
    BY <1>0 DEF AtWork
  <2>2. Opened' = Opened
    BY <2>1 DEF Opened
  <2>3. OpenedAt' = OpenedAt
    <3>1. Opened # NoCall => Opened \in AtWork
      <4>1. CASE AtWork = {}
        BY <4>1 DEF Opened
      <4>2. CASE AtWork # {}
        BY <4>2 DEF Opened
      <4> QED
        BY <4>1, <4>2
    <3> QED
      BY <1>0, <2>2, <3>1 DEF OpenedAt, AtWork
  <2>4. RequestLog' = RequestLog /\ ClosedAttempts' = ClosedAttempts
    BY <1>0 DEF RequestLog, ClosedAttempts
  <2> QED
    BY <2>2, <2>3, <2>4 DEF Ledger!ledgerVars
<1>1. ASSUME NEW batch \in SUBSET Calls, ParentCalls(batch) PROVE UNCHANGED Ledger!ledgerVars
  BY <1>0, <1>1 DEF ParentCalls, Working
<1>2. CASE ParentGates
  BY <1>0, <1>2 DEF ParentGates
<1>3. ASSUME NEW c \in Calls, CallStep(c)
      PROVE  Ledger!LedgerNext \/ UNCHANGED Ledger!ledgerVars
  <2>1. CASE Begin(c)
    <3>1. AtWork = {}
      BY <2>1, Alone DEF Begin, AtWork, Working
    <3>2. Opened = NoCall /\ OpenedAt = 0
      BY <3>1 DEF Opened, OpenedAt
    <3>3. RequestLog' = RequestLog /\ ClosedAttempts' = ClosedAttempts
      BY <2>1 DEF Begin, RequestLog, ClosedAttempts
    <3>4. /\ Len(RequestLog) = Len(reviews)
          /\ Len(ClosedAttempts) = Len(evaluations)
      BY RequestLogGrows, ClosedAttemptsGrow
    <3>5. CASE Admitted(c)
      <4>1. AtWork' = {c}
        BY <2>1, <3>1, <3>5 DEF Begin, AtWork, Working
      <4>2. Opened' = c
        BY <4>1, OnlyChoice DEF Opened
      <4>3. OpenedAt' = Len(reviews)
        BY <2>1, <4>2, NoCallIsNoCall DEF Begin, OpenedAt
      <4>4. Ledger!Open(c)
        BY <3>2, <3>3, <3>4, <3>5, <4>2, <4>3 DEF Ledger!Open, Admitted
      <4> QED
        BY <4>4 DEF Ledger!LedgerNext
    <3>6. CASE ~ Admitted(c)
      <4>1. AtWork' = {}
        BY <2>1, <3>1, <3>6 DEF Begin, AtWork, Working
      <4>2. Opened' = NoCall /\ OpenedAt' = 0
        BY <4>1 DEF Opened, OpenedAt
      <4> QED
        BY <3>2, <3>3, <4>2 DEF Ledger!ledgerVars
    <3> QED
      BY <3>5, <3>6
  <2>2. CASE RefuseArtifacts(c)
    BY <1>0, <2>2 DEF RefuseArtifacts, Working
  <2>3. CASE ImageMissing(c)
    <3>1. pc[c] \in Working /\ start[c] + 1 .. Len(reviews) = {}
      BY <2>3 DEF ImageMissing, OwnInv, WorkOK, AttemptOK, Working
    <3> QED
      BY <2>3, <3>1, LedgerCloses DEF ImageMissing
  <2>4. CASE Raise(c) /\ pc[c] \in Working
    <3>1. AtWork = {c} /\ Opened = c /\ c # NoCall
      BY <2>4, OpenedIs DEF Raise
    <3>2. Opened' = NoCall /\ OpenedAt' = 0
      BY <2>4, <3>1 DEF Raise, Opened, OpenedAt, AtWork, Working
    <3>3. RequestLog' = RequestLog /\ ClosedAttempts' = ClosedAttempts
      BY <2>4 DEF Raise, RequestLog, ClosedAttempts
    <3>4. Ledger!Abandon
      BY <3>1, <3>2, <3>3 DEF Ledger!Abandon
    <3> QED
      BY <3>4 DEF Ledger!LedgerNext
  <2>10. CASE (Raise(c) \/ Return(c)) /\ pc[c] \notin Working
    BY <1>0, <2>10 DEF Raise, Return, Working
  <2>5. CASE StartAgent(c) \/ EndAgent(c)
    BY <1>0, <2>5 DEF StartAgent, EndAgent, Working
  <2>6. ASSUME NEW a \in Artifacts, AgentWrites(c, a) PROVE UNCHANGED Ledger!ledgerVars
    BY <1>0, <2>6 DEF AgentWrites
  <2>7. ASSUME NEW list \in ReviewLists, AgentRequestsReview(c, list)
        PROVE  Ledger!LedgerNext
    <3>1. pc[c] \in Working /\ c \notin Inline
      BY <2>7 DEF AgentRequestsReview, Working
    <3>2. Opened = c /\ c # NoCall
      BY <3>1, OpenedIs
    <3>3. Opened' = Opened /\ OpenedAt' = OpenedAt /\ ClosedAttempts' = ClosedAttempts
      BY <2>7 DEF AgentRequestsReview, Opened, OpenedAt, AtWork, ClosedAttempts
    <3>4. RequestLog' =
            Append(RequestLog, [attempt |-> Len(ClosedAttempts) + 1, list |-> list])
      <4> DEFINE q == [call |-> c, attempt |-> NextAttempt, list |-> list]
      <4>1. /\ q \in RequestRecord /\ q.attempt = Len(evaluations) + 1 /\ q.list = list
            /\ reviews' = Append(reviews, q)
        BY <2>7 DEF AgentRequestsReview, RequestRecord, NextAttempt
      <4> HIDE DEF q, TypeOK
      <4> QED
        BY <4>1, RequestLogGrows, ClosedAttemptsGrow
    <3>5. Ledger!Request(list)
      BY <3>1, <3>2, <3>3, <3>4 DEF Ledger!Request
    <3> QED
      BY <3>5 DEF Ledger!LedgerNext
  <2>8. ASSUME NEW ok \in BOOLEAN, Collect(c, ok) PROVE UNCHANGED Ledger!ledgerVars
    BY <1>0, <2>8 DEF Collect, Working
  <2>9. CASE Record(c)
    <3> DEFINE ok == fine[c] /\ (c \in Inline \/ got[c] # {})
    <3>1. pc[c] \in Working /\ got[c] = start[c] + 1 .. Len(reviews)
      BY <2>9 DEF Record, OwnInv, WorkOK, AttemptOK, Working
    <3>2. /\ ok \in BOOLEAN /\ (ok /\ c \notin Inline => start[c] + 1 .. Len(reviews) # {})
          /\ evaluations' =
               Append(evaluations, Evaluation(c, start[c] + 1 .. Len(reviews), ok))
      BY <2>9, <3>1 DEF Record
    <3>3. PICK w \in {"answered", "returned"} :
            pc' = [pc EXCEPT ![c] = w] /\ UNCHANGED reviews
      BY <2>9 DEF Record
    <3> HIDE DEF ok, TypeOK
    <3> QED
      BY <3>1, <3>2, <3>3, LedgerCloses
  <2> QED
    BY <1>3, <2>1, <2>2, <2>3, <2>4, <2>5, <2>6, <2>7, <2>8, <2>9, <2>10
    DEF CallStep, Return, Working
<1>5. CASE ParentCloses \/ UNCHANGED vars
  BY <1>0, <1>5 DEF ParentCloses, vars
<1> QED
  BY <1>1, <1>2, <1>3, <1>5 DEF Next

(* One by one, the attempts implement the review ledger.                     *)
THEOREM AttemptsKeepLedger == ASSUME OneByOne PROVE Spec \/ MultiSpec => LedgerSpec
<1>1. TypeOK /\ SerialInv /\ OwnInv /\ [Next]_vars => [Ledger!LedgerNext]_(Ledger!ledgerVars)
  BY LedgerStep
<1>2. Spec => []OwnInv
  BY RunsAreOwn
<1> QED
  BY <1>1, <1>2, LedgerStarts, RunsAreTyped, RunsAreSerial, MultiRunsAttempts, PTL
  DEF Spec, LedgerSpec, Ledger!LedgerSpec

=============================================================================
