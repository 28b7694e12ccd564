--------------------------- MODULE DeepAgentAttempts ---------------------------
(***************************************************************************)
(* Deep Agent attempts as the parent agent makes them.  The calls of one   *)
(* parent message run in parallel threads and share the global lists       *)
(* DEEP_AGENT_EVALUATIONS and DEEP_REVIEW_REQUESTS, the active-profile     *)
(* globals and the /outputs directory.  Locked is TRUE for the             *)
(* multi-subtask runner, which makes each call under DEEP_CALL_LOCK, and   *)
(* FALSE for the profile tools of the generic runner, which take no lock.  *)
(***************************************************************************)
EXTENDS Integers, Sequences, FiniteSets

CONSTANTS
  Calls,       \* the Deep Agent calls a run may make (bound)
  Artifacts,   \* reviewable files under /outputs
  Expected,    \* expected artifacts of every artifact-mode call
  MaxRounds,   \* max_review_rounds of the profile each call uses
  Inline,      \* the calls whose profile returns an inline result
  Locked,      \* are calls made under DEEP_CALL_LOCK
  Parallel,    \* most calls in one parent message (bound)
  ReviewBound, \* most review requests in a run (bound)
  Raising,     \* the calls that may raise (bound)
  NoCall

ASSUME CallAssumption ==
  /\ IsFiniteSet(Calls)
  /\ MaxRounds \in [Calls -> Nat \ {0}]
  /\ Inline \subseteq Calls /\ Expected \subseteq Artifacts
  /\ NoCall \notin Calls /\ Locked \in BOOLEAN
  /\ Parallel \in Nat \ {0} /\ ReviewBound \in Nat

VARIABLES
  pc,          \* where each call is in execute_deep_agent_task
  lock,        \* holder of DEEP_CALL_LOCK, or NoCall
  attempt,     \* each call's attempt
  start,       \* each call's review_start
  got,         \* positions of each call's attempt_review_requests
  fine,        \* no error, clean workspace, artifacts present
  evaluations, \* DEEP_AGENT_EVALUATIONS
  reviews,     \* DEEP_REVIEW_REQUESTS
  writer,      \* the call that last wrote each artifact, or NoCall
  active,      \* whose profile the ACTIVE_DEEP_AGENT_* globals hold
  turn,        \* the calls of the parent's current message
  gated,       \* owner of the list the parent last gated, or NoCall
  touched      \* history: calls that wrote artifacts since the last request

parent  == <<turn, gated>>
lists   == <<evaluations, reviews>>
shared  == <<writer, touched>>
vars    == <<pc, lock, attempt, start, got, fine, evaluations, reviews, writer,
             active, turn, gated, touched>>

Working  == {"numbered", "running", "closing", "collected"}
Finished == {"returned", "raised"}
ReviewLists == SUBSET Artifacts

Idle == \A c \in turn : pc[c] \in Finished

-----------------------------------------------------------------------------
Init ==
  /\ pc = [c \in Calls |-> "idle"] /\ lock = NoCall
  /\ attempt = [c \in Calls |-> 0] /\ start = [c \in Calls |-> 0]
  /\ got = [c \in Calls |-> {}] /\ fine = [c \in Calls |-> FALSE]
  /\ evaluations = <<>> /\ reviews = <<>>
  /\ writer = [a \in Artifacts |-> NoCall] /\ touched = {}
  /\ active = NoCall /\ turn = {} /\ gated = NoCall

(* The parent's next message carries a batch of Deep Agent calls. *)
ParentCalls(batch) ==
  /\ Idle /\ batch # {} /\ Cardinality(batch) <= Parallel
  /\ \A c \in batch : pc[c] = "idle"
  /\ turn' = batch
  /\ pc' = [c \in Calls |-> IF c \in batch THEN "called" ELSE pc[c]]
  /\ UNCHANGED <<lock, attempt, start, got, fine, lists, shared, active, gated>>

(* A call's evaluation reports review_requested. *)
ReviewRequested(c) ==
  \E i \in DOMAIN evaluations :
    evaluations[i].call = c /\ evaluations[i].reviews # {}

(* The parent follows its workflow: it runs the output gate, without an     *)
(* explicit list, once a result of its last message says review_requested. *)
ParentGates ==
  /\ Idle /\ \E c \in turn : pc[c] = "returned" /\ ReviewRequested(c)
  /\ reviews # <<>> /\ gated' = reviews[Len(reviews)].call
  /\ UNCHANGED <<pc, lock, attempt, start, got, fine, lists, shared, active, turn>>

\* Mutants: a call admitted one round too often; the lock not taken, or not
\* given back by an exception.
AdmittedOnceMore(c) == Len(evaluations) <= MaxRounds[c]
MayEnterUnlocked == TRUE
ReleaseOnReturn(c) ==
  lock' = IF lock = c /\ pc[c] # "closing" THEN NoCall ELSE lock

NextAttempt == Len(evaluations) + 1

(* attempt > effective_max_review_rounds refuses the call. *)
Admitted(c) == Len(evaluations) < MaxRounds[c]

MayEnter == Locked => lock = NoCall
Release(c) == lock' = IF lock = c THEN NoCall ELSE lock

Enter(c) == lock' = IF Locked THEN c ELSE lock

(* With the lock, a call that has its answer keeps it until the rest of the  *)
(* subtask tool is done; a profile tool returns the answer at once.          *)
Ended == IF Locked THEN "answered" ELSE "returned"

(* The call takes the lock if there is one and takes its attempt number. *)
Begin(c) ==
  /\ pc[c] = "called" /\ MayEnter
  /\ attempt' = [attempt EXCEPT ![c] = NextAttempt]
  /\ start' = [start EXCEPT ![c] = Len(reviews)]
  /\ pc' = [pc EXCEPT ![c] = IF Admitted(c) THEN "numbered" ELSE Ended]
  /\ Enter(c)
  /\ UNCHANGED <<got, fine, lists, shared, active, parent>>

(* Invalid expected artifacts are reported before a number is taken. *)
RefuseArtifacts(c) ==
  /\ pc[c] = "called" /\ MayEnter
  /\ pc' = [pc EXCEPT ![c] = Ended] /\ Enter(c)
  /\ UNCHANGED <<attempt, start, got, fine, lists, shared, active, parent>>

Evaluation(c, requests, ok) ==
  [call |-> c, attempt |-> attempt[c], reviews |-> requests, ok |-> ok]

(* The call's frame is left: its locals are gone and the lock is given back. *)
Leave(c) ==
  /\ attempt' = [attempt EXCEPT ![c] = 0] /\ start' = [start EXCEPT ![c] = 0]
  /\ got' = [got EXCEPT ![c] = {}] /\ fine' = [fine EXCEPT ![c] = FALSE]
  /\ Release(c)

(* The evaluation of a missing image is appended before its round files are  *)
(* written, and the call returns after them.                                 *)
ImageMissing(c) ==
  /\ pc[c] = "numbered"
  /\ evaluations' = Append(evaluations, Evaluation(c, {}, FALSE))
  /\ pc' = [pc EXCEPT ![c] = "answered"]
  /\ UNCHANGED <<lock, attempt, start, got, fine, reviews, shared, active, parent>>

(* The call raises: before it has a number (a path outside /outputs, the     *)
(* profile's input directory, the clearing of files), creating the backend,  *)
(* in the cleanup, writing the round files, or after the evaluation is       *)
(* appended, in what is left of the attempt or of the subtask tool.          *)
Raise(c) ==
  /\ c \in Raising
  /\ pc[c] \in {"called", "numbered", "closing", "collected", "answered"}
  /\ pc' = [pc EXCEPT ![c] = "raised"] /\ Leave(c)
  /\ UNCHANGED <<lists, shared, active, parent>>

StartAgent(c) ==
  /\ pc[c] = "numbered"
  /\ pc' = [pc EXCEPT ![c] = "running"] /\ active' = c
  /\ UNCHANGED <<lock, attempt, start, got, fine, lists, shared, parent>>

AgentWrites(c, a) ==
  /\ pc[c] = "running"
  /\ writer' = [writer EXCEPT ![a] = c] /\ touched' = touched \cup {c}
  /\ UNCHANGED <<pc, lock, attempt, start, got, fine, lists, active, parent>>

(* request_parent_review: the files must exist; the request is numbered     *)
(* after the evaluations that are recorded now.                            *)
AgentRequestsReview(c, list) ==
  /\ pc[c] = "running" /\ c \notin Inline /\ Len(reviews) < ReviewBound
  /\ \A a \in list : writer[a] # NoCall
  /\ reviews' = Append(reviews,
       [call |-> c, attempt |-> NextAttempt, list |-> list])
  /\ touched' = {}
  /\ UNCHANGED <<pc, lock, attempt, start, got, fine, evaluations, writer, active, parent>>

(* The stream ends or fails; the finally block resets the globals first. *)
EndAgent(c) ==
  /\ pc[c] = "running"
  /\ pc' = [pc EXCEPT ![c] = "closing"] /\ active' = NoCall
  /\ UNCHANGED <<lock, attempt, start, got, fine, lists, shared, parent>>

\* Mutants: only the requests that carry the call's own number are collected;
\* all requests of the run are; the first request is missed.
CollectedNumbered(c) == {i \in DOMAIN reviews : reviews[i].attempt = attempt[c]}
CollectedAll(c) == DOMAIN reviews
CollectedLate(c) == start[c] + 2 .. Len(reviews)

(* DEEP_REVIEW_REQUESTS[review_start:] *)
Collected(c) == start[c] + 1 .. Len(reviews)

(* After cleanup: artifact check and review slice.  ok stands for no agent  *)
(* error, a removed workspace and, inline, a non-blank result.             *)
Collect(c, ok) ==
  /\ pc[c] = "closing"
  /\ got' = [got EXCEPT ![c] = Collected(c)]
  /\ fine' = [fine EXCEPT ![c] =
       ok /\ (c \in Inline \/ \A a \in Expected : writer[a] # NoCall)]
  /\ pc' = [pc EXCEPT ![c] = "collected"]
  /\ UNCHANGED <<lock, attempt, start, lists, shared, active, parent>>

Record(c) ==
  /\ pc[c] = "collected"
  /\ evaluations' = Append(evaluations,
       Evaluation(c, got[c], fine[c] /\ (c \in Inline \/ got[c] # {})))
  /\ pc' = [pc EXCEPT ![c] = Ended]
  /\ UNCHANGED <<lock, attempt, start, got, fine, reviews, shared, active, parent>>

Return(c) ==
  /\ pc[c] = "answered"
  /\ pc' = [pc EXCEPT ![c] = "returned"] /\ Leave(c)
  /\ UNCHANGED <<lists, shared, active, parent>>

(* The parent closes the run when it has no calls left to make. *)
ParentCloses == Idle /\ (\A c \in Calls : pc[c] # "idle") /\ UNCHANGED vars

CallStep(c) ==
  \/ Begin(c) \/ RefuseArtifacts(c) \/ ImageMissing(c) \/ Raise(c)
  \/ StartAgent(c)
  \/ \E a \in Artifacts : AgentWrites(c, a)
  \/ \E list \in ReviewLists : AgentRequestsReview(c, list)
  \/ EndAgent(c)
  \/ \E ok \in BOOLEAN : Collect(c, ok)
  \/ Record(c) \/ Return(c)

Next ==
  \/ \E batch \in SUBSET Calls : ParentCalls(batch)
  \/ ParentGates
  \/ \E c \in Calls : CallStep(c)
  \/ ParentCloses

Spec == Init /\ [][Next]_vars

(* Some thread that is not waiting for the lock makes progress, and the      *)
(* agent loop it runs is cut off by its recursion limit.                     *)
Progress(c) ==
  \/ Begin(c) \/ StartAgent(c) \/ EndAgent(c) \/ Record(c) \/ Return(c)
  \/ \E ok \in BOOLEAN : Collect(c, ok)

-----------------------------------------------------------------------------
(* Properties *)

RequestRecord == [call : Calls, attempt : Nat, list : ReviewLists]
EvaluationRecord == [call : Calls, attempt : Nat, reviews : SUBSET Nat, ok : BOOLEAN]

TypeOK ==
  /\ pc \in [Calls -> {"idle", "called", "answered"} \cup Working \cup Finished]
  /\ lock \in Calls \cup {NoCall} /\ active \in Calls \cup {NoCall}
  /\ gated \in Calls \cup {NoCall}
  /\ attempt \in [Calls -> Nat] /\ start \in [Calls -> Nat]
  /\ got \in [Calls -> SUBSET Nat] /\ fine \in [Calls -> BOOLEAN]
  /\ evaluations \in Seq(EvaluationRecord) /\ reviews \in Seq(RequestRecord)
  /\ writer \in [Artifacts -> Calls \cup {NoCall}]
  /\ turn \in SUBSET Calls /\ touched \in SUBSET Calls

(* No profile records more attempts than its max_review_rounds: an          *)
(* evaluation's place in the list is within the limit of the call's profile. *)
RoundsRespected ==
  \A i \in DOMAIN evaluations : i <= MaxRounds[evaluations[i].call]

(* The round number an evaluation and its round files carry is its place in  *)
(* the list, so no two calls share round files.                              *)
NumbersMatch == \A i \in DOMAIN evaluations : evaluations[i].attempt = i

(* The review requests an evaluation reports were made by its own call and   *)
(* carry its own attempt number.                                             *)
ReviewsAreOwn ==
  \A i \in DOMAIN evaluations : \A r \in evaluations[i].reviews :
    /\ r \in DOMAIN reviews
    /\ reviews[r].call = evaluations[i].call
    /\ reviews[r].attempt = evaluations[i].attempt

(* A call whose evaluation is recorded reports every review request it made, *)
(* whatever ran beside it.                                                   *)
NoReviewLost ==
  \A i \in DOMAIN evaluations : \A r \in DOMAIN reviews :
    reviews[r].call = evaluations[i].call => r \in evaluations[i].reviews

(* While an agent runs, the globals its image tools read are its profile's.  *)
ActiveIsOwn == \A c \in Calls : pc[c] = "running" => active = c

(* When the last message made one call, the list the parent gates was        *)
(* requested by a call whose evaluation says so, and no other call has       *)
(* written artifacts since: the gated files are the ones that call asked to  *)
(* have reviewed.                                                            *)
GatedAsReviewed ==
  [][gated' # gated /\ Cardinality(turn) = 1 =>
       ReviewRequested(gated') /\ touched \subseteq {gated'}]_vars

(* Every parent message comes to an end: each of its calls returns or raises,*)
(* since the lock is given back on every path.                               *)
CallsFinish == ~ Idle ~> Idle

(* While calls come one at a time, because of the lock or because the parent *)
(* makes them so, the attempts implement the ledger: the open attempt is the *)
(* one at work and the log is the list of review requests.                   *)
AtWork == {c \in Calls : pc[c] \in Working}
Opened == IF AtWork = {} THEN NoCall ELSE CHOOSE c \in AtWork : TRUE
OpenedAt == IF Opened = NoCall THEN 0 ELSE start[Opened]
RequestLog ==
  [r \in DOMAIN reviews |-> [attempt |-> reviews[r].attempt, list |-> reviews[r].list]]
ClosedAttempts ==
  [i \in DOMAIN evaluations |->
     [call |-> evaluations[i].call, reviews |-> evaluations[i].reviews,
      ok |-> evaluations[i].ok]]
Ledger == INSTANCE ReviewLedger WITH
  Lists <- ReviewLists, open <- Opened, since <- OpenedAt,
  requests <- RequestLog, ledger <- ClosedAttempts
LedgerSpec == Ledger!LedgerSpec
=============================================================================
