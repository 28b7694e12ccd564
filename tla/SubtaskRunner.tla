----------------------------- MODULE SubtaskRunner -----------------------------
(***************************************************************************)
(* The subtask tool of multi_deep_parent_runner.py around the attempts of  *)
(* DeepAgentAttempts: what run_deep_agent_subtask does under               *)
(* DEEP_CALL_LOCK before and after an attempt.  It clears the self-check   *)
(* files in /outputs, runs the attempt, copies the self-check files of     *)
(* /outputs to names made of the subtask and the attempt number, and adds  *)
(* a record to SUBTASK_CALLS.  A worker writes its self-check files in     *)
(* /outputs/subtasks, where its prompt and the readiness check look for    *)
(* them, or in /outputs.                                                   *)
(***************************************************************************)
EXTENDS DeepAgentAttempts

CONSTANTS
  Slug,   \* safe_slug of the subtask id each call is made for
  Places  \* where workers write self-check files (bound)

ASSUME SubtaskAssumption == Places \subseteq {"root", "subtasks"}

VARIABLES
  check,    \* of each place: the call that wrote its self-check files, or NoCall
  archive,  \* archived self-check files: from <<slug, attempt>> to their writer
  history,  \* SUBTASK_CALLS
  local     \* each call's locals: attempt_number, what its result found, its step

files    == <<check, archive, history, local>>
multiVars == <<vars, files>>

NoLocals == [attempt |-> 0, found |-> NoCall, step |-> "attempt"]

MultiInit ==
  /\ Init
  /\ check = [p \in {"root", "subtasks"} |-> NoCall]
  /\ archive = <<>> /\ history = <<>>
  /\ local = [c \in Calls |-> NoLocals]

-----------------------------------------------------------------------------
\* Mutants: nothing is cleared; the number is read after the attempt.
KeepChecks == check
SubtaskNumberAfter(c) == Len(evaluations) + 1

(* clear_standard_self_check_artifacts looks in /outputs alone. *)
ClearChecks == [check EXCEPT !["root"] = NoCall]

(* attempt_number, read under the lock just before the attempt takes its    *)
(* own number, from the same list.                                          *)
SubtaskNumber(c) == local[c].attempt

\* Mutant: a copy is named for its subtask only.
ArchiveNameShort(c, n) == <<Slug[c], 1>>

ArchiveName(c, n) == <<Slug[c], n>>

(* The files are cleared and the attempt begins or refuses the call. *)
Opens(c) ==
  /\ Begin(c) \/ RefuseArtifacts(c)
  /\ check' = ClearChecks
  /\ local' = [local EXCEPT ![c].attempt = NextAttempt]
  /\ UNCHANGED <<archive, history>>

(* An exception leaves the files and lists as they are at that point, with   *)
(* or without an archive and a record; one before the attempt has begun      *)
(* leaves the files cleared or not.                                          *)
Raises(c) ==
  /\ Raise(c) /\ local' = [local EXCEPT ![c] = NoLocals]
  /\ \/ UNCHANGED check
     \/ pc[c] = "called" /\ MayEnter /\ check' = ClearChecks
  /\ UNCHANGED <<archive, history>>

AgentWritesChecks(c, p) ==
  /\ pc[c] = "running" /\ check' = [check EXCEPT ![p] = c]
  /\ UNCHANGED <<vars, archive, history, local>>

(* The self-check files the result reports are those in /outputs/subtasks.  *)
Reports(c) ==
  /\ Record(c) /\ local' = [local EXCEPT ![c].found = check["subtasks"]]
  /\ UNCHANGED <<check, archive, history>>

(* archive_self_check_artifacts copies what it finds in /outputs. *)
Archives(c) ==
  /\ pc[c] = "answered" /\ local[c].step = "attempt"
  /\ LET name == ArchiveName(c, SubtaskNumber(c))
     IN  archive' = IF check["root"] = NoCall THEN archive
                    ELSE [n \in DOMAIN archive \cup {name} |->
                            IF n = name THEN check["root"] ELSE archive[n]]
  /\ local' = [local EXCEPT ![c].step = "archived"]
  /\ UNCHANGED <<vars, check, history>>

(* The call is recorded, with whether its result reports review requests.   *)
Lists(c) ==
  /\ pc[c] = "answered" /\ local[c].step = "archived"
  /\ history' = Append(history,
       [call |-> c, attempt |-> SubtaskNumber(c), reviewed |-> ReviewRequested(c),
        found |-> local[c].found, archived |-> check["root"] # NoCall])
  /\ local' = [local EXCEPT ![c].step = "listed"]
  /\ UNCHANGED <<vars, check, archive>>

Returns(c) ==
  /\ local[c].step = "listed" /\ Return(c)
  /\ local' = [local EXCEPT ![c] = NoLocals] /\ UNCHANGED <<check, archive, history>>

(* run_deep_agent_subtask *)
SubtaskStep(c) ==
  \/ Opens(c) \/ Raises(c) \/ Reports(c)
  \/ Archives(c) \/ Lists(c) \/ Returns(c)
  \/ \E p \in Places : AgentWritesChecks(c, p)
  \/ /\ \/ StartAgent(c) \/ EndAgent(c) \/ ImageMissing(c)
        \/ \E a \in Artifacts : AgentWrites(c, a)
        \/ \E list \in ReviewLists : AgentRequestsReview(c, list)
        \/ \E ok \in BOOLEAN : Collect(c, ok)
     /\ UNCHANGED files

MultiNext ==
  \/ \E c \in Calls : SubtaskStep(c)
  \/ /\ (\E batch \in SUBSET Calls : ParentCalls(batch)) \/ ParentGates \/ ParentCloses
     /\ UNCHANGED files

MultiSpec == MultiInit /\ [][MultiNext]_multiVars

SubtaskProgress(c) == Archives(c) \/ Lists(c) \/ (SubtaskStep(c) /\ Progress(c))

-----------------------------------------------------------------------------
(* Properties *)

(* The history the parent reads and the evaluations agree on which attempt   *)
(* was whose, across refused calls and calls that raise at any point: a      *)
(* record that reports a review request carries the number of that call's    *)
(* evaluation, and the evaluation of a call that returned has its record.    *)
(* (One that raised after its evaluation was appended may have none.)        *)
HistoryMatches ==
  /\ \A i \in DOMAIN history : history[i].reviewed =>
       /\ history[i].attempt \in DOMAIN evaluations
       /\ evaluations[history[i].attempt].call = history[i].call
       /\ evaluations[history[i].attempt].reviews # {}
  /\ \A n \in DOMAIN evaluations : pc[evaluations[n].call] = "returned" =>
       \E i \in DOMAIN history :
         history[i].call = evaluations[n].call /\ history[i].attempt = n

(* An archived self-check belongs to the call whose record lists it, and no  *)
(* later call overwrites it, although calls for one subtask share its slug   *)
(* and refused calls repeat a number.                                        *)
ArchivesAreOwn ==
  \A i \in DOMAIN history : history[i].archived =>
    archive[<<Slug[history[i].call], history[i].attempt>>] = history[i].call

(* The self-check files a result reports were written in its own attempt:    *)
(* the lock is there to keep self-checks attributable to their subtask.      *)
SelfChecksAreOwn ==
  \A i \in DOMAIN history : history[i].found \in {NoCall, history[i].call}
=============================================================================
