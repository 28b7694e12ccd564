------------------------- MODULE MCDeepAgentAttempts -------------------------
(* Model-checking instances of Runners: three calls of two subtasks.         *)
EXTENDS Runners

CONSTANTS c1, c2, c3, page

(* The limits of two profiles (a single limit is the case of the other two). *)
MixedRounds == [c \in Calls |-> IF c = c1 THEN 1 ELSE 2]

(* The last two calls are made for one subtask.                              *)
Slugs == [c \in Calls |-> IF c = c1 THEN "a" ELSE "b"]

(* Profile tools of the generic runner with several calls in a message.      *)
ProfileToolsSpec ==
  RunnersInit /\ runner = "generic" /\ [][Next /\ UNCHANGED <<files, runner>>]_runnerVars
=============================================================================
