-------------------------- MODULE EphemeralExecution --------------------------
(***************************************************************************)
(* What a sandbox backend promises the agent that executes commands in it: *)
(* each command has a container of its own that appears at most once, and  *)
(* a command whose outcome is known ("over") has no container left and     *)
(* gets none.  Only a command the caller has lost sight of ("lost") may    *)
(* still be at work.                                                       *)
(***************************************************************************)
CONSTANT Commands

VARIABLES
  state,  \* of each command: "new", "open", "over" or "lost"
  boxes,  \* the commands that have a container
  used    \* the commands that have had one

ephemeralVars == <<state, boxes, used>>

EphemeralInit == state = [c \in Commands |-> "new"] /\ boxes = {} /\ used = {}

Open(c) ==
  /\ state[c] = "new" /\ state' = [state EXCEPT ![c] = "open"]
  /\ UNCHANGED <<boxes, used>>

Appear(c) ==
  /\ state[c] \in {"open", "lost"} /\ c \notin used
  /\ boxes' = boxes \cup {c} /\ used' = used \cup {c} /\ UNCHANGED state

Vanish(c) == c \in boxes /\ boxes' = boxes \ {c} /\ UNCHANGED <<state, used>>

(* The outcome is known; the last step may be the one that removes the box.  *)
Finish(c) ==
  /\ state[c] \in {"new", "open"} /\ state' = [state EXCEPT ![c] = "over"]
  /\ boxes' = boxes \ {c} /\ UNCHANGED used

(* The callers lose sight of some of the open commands at once.              *)
Lose(some) ==
  /\ some # {} /\ \A c \in some : state[c] = "open"
  /\ state' = [c \in Commands |-> IF c \in some THEN "lost" ELSE state[c]]
  /\ UNCHANGED <<boxes, used>>

EphemeralNext ==
  \/ \E c \in Commands : Open(c) \/ Appear(c) \/ Vanish(c) \/ Finish(c)
  \/ \E some \in SUBSET Commands : Lose(some)

EphemeralSpec == EphemeralInit /\ [][EphemeralNext]_ephemeralVars
===============================================================================
