-------------------------------- MODULE Runners --------------------------------
(* The two programs that make Deep Agent attempts: the multi-subtask runner  *)
(* with its lock and several calls in a message, and the generic runner      *)
(* without a lock, whose parent makes one call in a message and which keeps  *)
(* no history of subtasks.                                                   *)
EXTENDS SubtaskRunner

VARIABLE runner  \* the program that runs, "multi" or "generic"

Generic == INSTANCE DeepAgentAttempts WITH Locked <- FALSE, Parallel <- 1

runnerVars == <<multiVars, runner>>

RunnersInit == MultiInit /\ runner \in {"multi", "generic"}

RunnersNext ==
  /\ IF runner = "multi" THEN MultiNext ELSE (Generic!Next /\ UNCHANGED files)
  /\ UNCHANGED runner

RunnersProgress(c) ==
  /\ IF runner = "multi" THEN SubtaskProgress(c)
                         ELSE (Generic!Progress(c) /\ UNCHANGED files)
  /\ UNCHANGED runner

RunnersSpec == RunnersInit /\ [][RunnersNext]_runnerVars

(* Weaker than fairness to every call: some call that can go on does.        *)
FairRunnersSpec == RunnersSpec /\ WF_runnerVars(\E c \in Calls : RunnersProgress(c))

(* The history of the multi-subtask runner, the only one that keeps one,     *)
(* agrees with the evaluations on which attempt was whose.                   *)
HistoryKept == runner = "multi" => HistoryMatches
=============================================================================
