------------------------ MODULE SandboxExecutionProofs ------------------------
(***************************************************************************)
(* Theorems about SandboxExecution for any number of commands and faults:  *)
(* type correctness, ReturnedIsOver and the promise of EphemeralExecution. *)
(***************************************************************************)
EXTENDS SandboxExecution, TLAPS

(* What relates execute(), the driver and the container of one command.      *)
Before(c) ==
  /\ pc[c] = "idle" => driver[c] = "none" /\ c \notin excused
  /\ c \in orphans => driver[c] \in {"replying", "done"} /\ box[c] \in {"absent", "created"}
  /\ pc[c] \in {"idle", "waiting"} => result[c] = None
  /\ driver[c] \in {"none", "creating"} => box[c] = "absent"
  /\ driver[c] = "created" => box[c] \in {"created", "gone"}
  /\ c \in names => pc[c] \in {"waiting", "removing", "raised"}
  /\ pc[c] = "raised" => driver[c] = "none"

(* The podman backends: after the wait, only a prefix killed at a timeout    *)
(* leaves a podman at work.                                                  *)
PodmanSide(c) ==
  Podman =>
    /\ c \notin orphans
    /\ driver[c] \in AtWork \cup {"none", "done"}
    /\ pc[c] = "removing" /\ (backend = "podman" \/ result[c] # "timeout") =>
         driver[c] \notin AtWork
    /\ pc[c] = "removing" /\ result[c] = None => driver[c] = "none"

(* The controller: the container is removed before the answer.               *)
ControllerSide(c) ==
  ~Podman =>
    /\ pc[c] \in {"idle", "waiting", "returned"} /\ c \notin names
    /\ pc[c] = "waiting" => driver[c] \in AtWork \cup {"removing", "replying"}
    /\ pc[c] = "returned" /\ result[c] # "timeout" => driver[c] \in {"none", "done"}
    /\ driver[c] \in {"replying", "done"} /\ c \notin orphans \cup excused =>
         box[c] \notin Present
    /\ driver[c] \in {"replying", "removing"} => outcome[c] # None

Over1(c) ==
  pc[c] = "returned" /\ c \notin excused /\ (backend = "podman" \/ result[c] # "timeout") =>
    /\ driver[c] \notin AtWork
    /\ box[c] \in Present => c \in orphans /\ box[c] = "created"

CommandInv(c) == Before(c) /\ PodmanSide(c) /\ ControllerSide(c) /\ Over1(c)

IInv == TypeOK /\ \A c \in Commands : CommandInv(c)

-----------------------------------------------------------------------------
(* Type correctness of execute(), the containers and the engine's state.     *)
LEMMA TypeStep == ASSUME TypeOK, [Next]_vars PROVE TypeOK'
<1> USE SandboxAssumption DEF TypeOK, AtWork, Settled, Present
<1>1. ASSUME NEW c \in Commands, CommandStep(c) PROVE TypeOK'
  <2>1. CASE CreateBox(c)
    BY <2>1 DEF CreateBox
  <2>2. CASE StartBox(c)
    BY <2>2 DEF StartBox
  <2>3. CASE BoxEnds(c)
    BY <2>3 DEF BoxEnds
  <2>4. CASE AutoRemove(c)
    BY <2>4 DEF AutoRemove
  <2>5. CASE PodmanExecute(c)
    BY <2>5 DEF PodmanExecute
  <2>6. CASE RunEnds(c)
    BY <2>6 DEF RunEnds
  <2>7. CASE PodmanTimeout(c)
    BY <2>7 DEF PodmanTimeout
  <2>8. CASE PodmanFinally(c)
    BY <2>8 DEF PodmanFinally, Remove, RemovalDue
  <2>9. CASE ControllerExecute(c)
    BY <2>9 DEF ControllerExecute
  <2>10. CASE CreateFails(c)
    BY <2>10 DEF CreateFails
  <2>11. CASE WaitEnds(c)
    BY <2>11 DEF WaitEnds
  <2>12. CASE WaitRaises(c)
    BY <2>12 DEF WaitRaises, AfterException
  <2>13. CASE RemoveBox(c)
    BY <2>13 DEF RemoveBox, Remove
  <2>14. CASE Reply(c)
    BY <2>14 DEF Reply
  <2>15. CASE ClientTimeout(c)
    BY <2>15 DEF ClientTimeout
  <2>16. CASE LateBox(c)
    BY <2>16 DEF LateBox
  <2> QED
    BY <1>1, <2>1, <2>2, <2>3, <2>4, <2>5, <2>6, <2>7, <2>8, <2>9, <2>10, <2>11, <2>12, <2>13,
       <2>14, <2>15, <2>16 DEF CommandStep
<1>2. CASE ControllerCrash
  BY <1>2 DEF ControllerCrash
<1>3. CASE Cleanup
  BY <1>3 DEF Cleanup, Podman
<1>4. CASE UNCHANGED vars
  BY <1>4 DEF vars
<1> QED
  BY <1>1, <1>2, <1>3, <1>4 DEF Next, Over

THEOREM TypeCorrect == Spec => []TypeOK
<1>1. Init => TypeOK
  BY SandboxAssumption DEF Init, TypeOK, AtWork, Settled, Present
<1> QED
  BY <1>1, TypeStep, PTL DEF Spec

-----------------------------------------------------------------------------
(* The step lemma of the inductive invariant: one step per action.           *)
LEMMA CommandStepInv ==
  ASSUME IInv, NEW c \in Commands, CommandStep(c), NEW d \in Commands
  PROVE  CommandInv(d)'
<1> USE SandboxAssumption DEF IInv, TypeOK, CommandInv, Before, PodmanSide, ControllerSide,
    Over1, AtWork, Settled, Present, Podman
<1>1. CASE CreateBox(c)
  BY <1>1 DEF CreateBox
<1>2. CASE StartBox(c)
  BY <1>2 DEF StartBox
<1>3. CASE BoxEnds(c)
  BY <1>3 DEF BoxEnds
<1>4. CASE AutoRemove(c)
  BY <1>4 DEF AutoRemove
<1>5. CASE PodmanExecute(c)
  BY <1>5 DEF PodmanExecute
<1>6. CASE RunEnds(c)
  BY <1>6 DEF RunEnds
<1>7. CASE PodmanTimeout(c)
  BY <1>7 DEF PodmanTimeout
<1>8. CASE PodmanFinally(c)
  BY <1>8 DEF PodmanFinally, Remove, RemovalDue
<1>9. CASE ControllerExecute(c)
  BY <1>9 DEF ControllerExecute
<1>10. CASE CreateFails(c)
  BY <1>10 DEF CreateFails
<1>11. CASE WaitEnds(c)
  BY <1>11 DEF WaitEnds
<1>12. CASE WaitRaises(c)
  BY <1>12 DEF WaitRaises, AfterException
<1>13. CASE RemoveBox(c)
  BY <1>13 DEF RemoveBox, Remove
<1>14. CASE Reply(c)
  BY <1>14 DEF Reply
<1>15. CASE ClientTimeout(c)
  BY <1>15 DEF ClientTimeout
<1>16. CASE LateBox(c)
  BY <1>16 DEF LateBox
<1> QED
  BY <1>1, <1>2, <1>3, <1>4, <1>5, <1>6, <1>7, <1>8, <1>9, <1>10, <1>11, <1>12, <1>13, <1>14,
     <1>15, <1>16 DEF CommandStep

LEMMA StepInv == ASSUME IInv, [Next]_vars PROVE IInv'
<1>1. TypeOK'
  BY TypeStep DEF IInv
<1>2. ASSUME NEW c \in Commands, CommandStep(c) PROVE \A d \in Commands : CommandInv(d)'
  BY <1>2, CommandStepInv
<1>3. ASSUME ControllerCrash, NEW d \in Commands PROVE CommandInv(d)'
  BY <1>3, SandboxAssumption DEF ControllerCrash, IInv, TypeOK, CommandInv, Before,
     PodmanSide, ControllerSide, Over1, AtWork, Settled, Present, Podman
<1>4. ASSUME Cleanup, NEW d \in Commands PROVE CommandInv(d)'
  BY <1>4, SandboxAssumption DEF Cleanup, IInv, TypeOK, CommandInv, Before,
     PodmanSide, ControllerSide, Over1, AtWork, Settled, Present, Podman
<1>5. ASSUME UNCHANGED vars, NEW d \in Commands PROVE CommandInv(d)'
  BY <1>5 DEF vars, IInv, CommandInv, Before, PodmanSide, ControllerSide, Over1, Podman
<1> QED
  BY <1>1, <1>2, <1>3, <1>4, <1>5 DEF IInv, Next, Over

LEMMA InitInv == Init => IInv
  BY SandboxAssumption DEF Init, IInv, TypeOK, CommandInv, Before, PodmanSide,
     ControllerSide, Over1, AtWork, Settled, Present, Podman

LEMMA InductiveInvariant == Spec => []IInv
  BY InitInv, StepInv, PTL DEF Spec

(* With any number of commands, a command whose outcome the agent has been   *)
(* told has no container left and nothing that could still create one.       *)
THEOREM ReturnedCommandsAreOver == Spec => []ReturnedIsOver
<1>1. IInv => ReturnedIsOver
  BY DEF IInv, CommandInv, Over1, ReturnedIsOver
<1> QED
  BY <1>1, InductiveInvariant, PTL

-----------------------------------------------------------------------------
(* The refinement.                                                           *)

(* The abstract state of a command under the mapping. *)
State(c) ==
  IF pc[c] = "idle" THEN "new" ELSE IF OutOfSight(c) THEN "lost"
  ELSE IF pc[c] \in {"returned", "raised"} THEN "over" ELSE "open"

LEMMA OneStateChanges ==
  ASSUME NEW c \in Commands, NEW v, State(c)' = v,
         \A d \in Commands \ {c} : State(d)' = State(d)
  PROVE  [d \in Commands |-> State(d)]' = [[d \in Commands |-> State(d)] EXCEPT ![c] = v]
<1>1. [d \in Commands |-> State(d)]' = [d \in Commands |-> IF d = c THEN v ELSE State(d)]
  BY DEF State
<1> QED
  BY <1>1

LEMMA CommandStepMaps ==
  ASSUME IInv, IInv', NEW c \in Commands, CommandStep(c)
  PROVE  Ephemeral!EphemeralNext \/ UNCHANGED Ephemeral!ephemeralVars
<1> DEFINE Stutters == UNCHANGED Ephemeral!ephemeralVars
<1>a. SUFFICES \/ Ephemeral!Open(c) \/ Ephemeral!Appear(c) \/ Ephemeral!Vanish(c)
               \/ Ephemeral!Finish(c) \/ Ephemeral!Lose({c}) \/ Stutters
  <2>1. {c} \in SUBSET Commands
    OBVIOUS
  <2> QED
    BY <2>1, Zenon DEF Ephemeral!EphemeralNext
<1> USE SandboxAssumption DEF IInv, TypeOK, CommandInv, Before, PodmanSide, ControllerSide,
    Over1, AtWork, Settled, Present, Podman, OutOfSight
<1>b. CommandInv(c) /\ CommandInv(c)'
  OBVIOUS
<1>1. CASE CreateBox(c)
  <2>1. Ephemeral!Appear(c)
    BY <1>1 DEF CreateBox, Ephemeral!Appear
  <2> QED
    BY <2>1
<1>2. CASE StartBox(c)
  BY <1>2 DEF StartBox, Ephemeral!ephemeralVars
<1>3. CASE BoxEnds(c)
  BY <1>3 DEF BoxEnds, Ephemeral!ephemeralVars
<1>4. CASE AutoRemove(c)
  <2>1. Ephemeral!Vanish(c)
    BY <1>4 DEF AutoRemove, Ephemeral!Vanish
  <2> QED
    BY <2>1
<1>5. CASE PodmanExecute(c)
  <2>1. CASE pc'[c] = "raised"
    <3>1. Ephemeral!Finish(c)
      <4>1. State(c) \in {"new", "open"} /\ State(c)' = "over"
        BY <1>5, <2>1, <1>b DEF PodmanExecute, State
      <4>2. \A d \in Commands \ {c} : State(d)' = State(d)
        BY <1>5, <2>1 DEF PodmanExecute, State
      <4>3. box'[c] \notin Present /\ \A d \in Commands \ {c} : box'[d] = box[d]
        BY <1>5, <2>1, <1>b DEF PodmanExecute
      <4>4. \A d \in Commands : box'[d] = "absent" <=> box[d] = "absent"
        BY <1>5, <2>1, <1>b DEF PodmanExecute
      <4>5. [d \in Commands |-> State(d)]' = [[d \in Commands |-> State(d)] EXCEPT ![c] = "over"]
        BY <4>1, <4>2, OneStateChanges
      <4>6. {d \in Commands : box[d] \in Present}'
             = {d \in Commands : box[d] \in Present} \ {c}
        BY <4>3
      <4>7. {d \in Commands : box[d] # "absent"}' = {d \in Commands : box[d] # "absent"}
        BY <4>4
      <4> QED
        BY <4>1, <4>5, <4>6, <4>7 DEF State, Ephemeral!Finish
    <3> QED
      BY <3>1
  <2>2. CASE pc'[c] # "raised"
    <3>1. Ephemeral!Open(c)
      <4>1. State(c) = "new" /\ State(c)' = "open"
        BY <1>5, <2>2, <1>b DEF PodmanExecute, State
      <4>2. \A d \in Commands \ {c} : State(d)' = State(d)
        BY <1>5, <2>2 DEF PodmanExecute, State
      <4>3. box' = box
        BY <1>5, <2>2, <1>b DEF PodmanExecute
      <4>4. \A d \in Commands : box'[d] = "absent" <=> box[d] = "absent"
        BY <1>5, <2>2, <1>b DEF PodmanExecute
      <4>5. [d \in Commands |-> State(d)]' = [[d \in Commands |-> State(d)] EXCEPT ![c] = "open"]
        BY <4>1, <4>2, OneStateChanges
      <4>6. {d \in Commands : box[d] \in Present}'
             = {d \in Commands : box[d] \in Present}
        BY <4>3
      <4>7. {d \in Commands : box[d] # "absent"}' = {d \in Commands : box[d] # "absent"}
        BY <4>4
      <4> QED
        BY <4>1, <4>5, <4>6, <4>7 DEF State, Ephemeral!Open
    <3> QED
      BY <3>1
  <2> QED
    BY <2>1, <2>2
<1>6. CASE RunEnds(c)
  <2>1. CASE box[c] = "created"
    <3>1. Ephemeral!Vanish(c)
      BY <1>6, <2>1 DEF RunEnds, Ephemeral!Vanish
    <3> QED
      BY <3>1
  <2>2. CASE box[c] # "created"
    BY <1>6, <2>2 DEF RunEnds, Ephemeral!ephemeralVars
  <2> QED
    BY <2>1, <2>2
<1>7. CASE PodmanTimeout(c)
  <2>1. CASE OutOfSight(c) \/ backend = "podman"
    BY <1>7, <2>1 DEF PodmanTimeout, Ephemeral!ephemeralVars
  <2>2. CASE ~OutOfSight(c) /\ backend # "podman"
    <3>1. Ephemeral!Lose({c})
      BY <1>7, <2>2 DEF PodmanTimeout, Ephemeral!Lose
    <3> QED
      BY <3>1
  <2> QED
    BY <2>1, <2>2
<1>8. CASE PodmanFinally(c)
  <2>1. CASE OutOfSight(c) /\ box' # box
    <3>1. Ephemeral!Vanish(c)
      BY <1>8, <2>1 DEF PodmanFinally, Remove, RemovalDue, Ephemeral!Vanish
    <3> QED
      BY <3>1
  <2>2. CASE OutOfSight(c) /\ box' = box
    BY <1>8, <2>2 DEF PodmanFinally, Remove, RemovalDue, Ephemeral!ephemeralVars
  <2>3. CASE ~OutOfSight(c) /\ excused' = excused
    <3>1. Ephemeral!Finish(c)
      <4>1. State(c) \in {"new", "open"} /\ State(c)' = "over"
        BY <1>8, <2>3, <1>b DEF PodmanFinally, Remove, RemovalDue, State
      <4>2. \A d \in Commands \ {c} : State(d)' = State(d)
        BY <1>8, <2>3 DEF PodmanFinally, Remove, RemovalDue, State
      <4>3. box'[c] \notin Present /\ \A d \in Commands \ {c} : box'[d] = box[d]
        BY <1>8, <2>3, <1>b DEF PodmanFinally, Remove, RemovalDue
      <4>4. \A d \in Commands : box'[d] = "absent" <=> box[d] = "absent"
        BY <1>8, <2>3, <1>b DEF PodmanFinally, Remove, RemovalDue
      <4>5. [d \in Commands |-> State(d)]' = [[d \in Commands |-> State(d)] EXCEPT ![c] = "over"]
        BY <4>1, <4>2, OneStateChanges
      <4>6. {d \in Commands : box[d] \in Present}'
             = {d \in Commands : box[d] \in Present} \ {c}
        BY <4>3
      <4>7. {d \in Commands : box[d] # "absent"}' = {d \in Commands : box[d] # "absent"}
        BY <4>4
      <4> QED
        BY <4>1, <4>5, <4>6, <4>7 DEF State, Ephemeral!Finish
    <3> QED
      BY <3>1
  <2>4. CASE ~OutOfSight(c) /\ excused' # excused
    <3>1. Ephemeral!Lose({c})
      BY <1>8, <2>4 DEF PodmanFinally, Remove, RemovalDue, Ephemeral!Lose
    <3> QED
      BY <3>1
  <2> QED
    BY <2>1, <2>2, <2>3, <2>4
<1>9. CASE ControllerExecute(c)
  <2>1. CASE pc'[c] = "returned"
    <3>1. Ephemeral!Finish(c)
      <4>1. State(c) \in {"new", "open"} /\ State(c)' = "over"
        BY <1>9, <2>1, <1>b DEF ControllerExecute, State
      <4>2. \A d \in Commands \ {c} : State(d)' = State(d)
        BY <1>9, <2>1 DEF ControllerExecute, State
      <4>3. box'[c] \notin Present /\ \A d \in Commands \ {c} : box'[d] = box[d]
        BY <1>9, <2>1, <1>b DEF ControllerExecute
      <4>4. \A d \in Commands : box'[d] = "absent" <=> box[d] = "absent"
        BY <1>9, <2>1, <1>b DEF ControllerExecute
      <4>5. [d \in Commands |-> State(d)]' = [[d \in Commands |-> State(d)] EXCEPT ![c] = "over"]
        BY <4>1, <4>2, OneStateChanges
      <4>6. {d \in Commands : box[d] \in Present}'
             = {d \in Commands : box[d] \in Present} \ {c}
        BY <4>3
      <4>7. {d \in Commands : box[d] # "absent"}' = {d \in Commands : box[d] # "absent"}
        BY <4>4
      <4> QED
        BY <4>1, <4>5, <4>6, <4>7 DEF State, Ephemeral!Finish
    <3> QED
      BY <3>1
  <2>2. CASE pc'[c] # "returned"
    <3>1. Ephemeral!Open(c)
      <4>1. State(c) = "new" /\ State(c)' = "open"
        BY <1>9, <2>2, <1>b DEF ControllerExecute, State
      <4>2. \A d \in Commands \ {c} : State(d)' = State(d)
        BY <1>9, <2>2 DEF ControllerExecute, State
      <4>3. box' = box
        BY <1>9, <2>2, <1>b DEF ControllerExecute
      <4>4. \A d \in Commands : box'[d] = "absent" <=> box[d] = "absent"
        BY <1>9, <2>2, <1>b DEF ControllerExecute
      <4>5. [d \in Commands |-> State(d)]' = [[d \in Commands |-> State(d)] EXCEPT ![c] = "open"]
        BY <4>1, <4>2, OneStateChanges
      <4>6. {d \in Commands : box[d] \in Present}'
             = {d \in Commands : box[d] \in Present}
        BY <4>3
      <4>7. {d \in Commands : box[d] # "absent"}' = {d \in Commands : box[d] # "absent"}
        BY <4>4
      <4> QED
        BY <4>1, <4>5, <4>6, <4>7 DEF State, Ephemeral!Open
    <3> QED
      BY <3>1
  <2> QED
    BY <2>1, <2>2
<1>10. CASE CreateFails(c)
  <2>1. CASE orphans' = orphans \/ OutOfSight(c)
    BY <1>10, <2>1 DEF CreateFails, Ephemeral!ephemeralVars
  <2>2. CASE orphans' # orphans /\ ~OutOfSight(c)
    <3>1. Ephemeral!Lose({c})
      BY <1>10, <2>2 DEF CreateFails, Ephemeral!Lose
    <3> QED
      BY <3>1
  <2> QED
    BY <2>1, <2>2
<1>11. CASE WaitEnds(c)
  BY <1>11 DEF WaitEnds, Ephemeral!ephemeralVars
<1>12. CASE WaitRaises(c)
  BY <1>12 DEF WaitRaises, AfterException, Ephemeral!ephemeralVars
<1>13. CASE RemoveBox(c)
  <2>1. CASE box' # box
    <3>1. Ephemeral!Vanish(c)
      BY <1>13, <2>1 DEF RemoveBox, Remove, Ephemeral!Vanish
    <3> QED
      BY <3>1
  <2>2. CASE box' = box /\ (excused' = excused \/ OutOfSight(c))
    BY <1>13, <2>2 DEF RemoveBox, Remove, Ephemeral!ephemeralVars
  <2>3. CASE excused' # excused /\ ~OutOfSight(c)
    <3>1. Ephemeral!Lose({c})
      BY <1>13, <2>3 DEF RemoveBox, Remove, Ephemeral!Lose
    <3> QED
      BY <3>1
  <2> QED
    BY <2>1, <2>2, <2>3
<1>14. CASE Reply(c)
  <2>1. CASE pc[c] = "waiting" /\ c \notin orphans \cup excused
    <3>1. Ephemeral!Finish(c)
      <4>1. State(c) \in {"new", "open"} /\ State(c)' = "over"
        BY <1>14, <2>1, <1>b DEF Reply, State
      <4>2. \A d \in Commands \ {c} : State(d)' = State(d)
        BY <1>14, <2>1 DEF Reply, State
      <4>3. box'[c] \notin Present /\ \A d \in Commands \ {c} : box'[d] = box[d]
        BY <1>14, <2>1, <1>b DEF Reply
      <4>4. \A d \in Commands : box'[d] = "absent" <=> box[d] = "absent"
        BY <1>14, <2>1, <1>b DEF Reply
      <4>5. [d \in Commands |-> State(d)]' = [[d \in Commands |-> State(d)] EXCEPT ![c] = "over"]
        BY <4>1, <4>2, OneStateChanges
      <4>6. {d \in Commands : box[d] \in Present}'
             = {d \in Commands : box[d] \in Present} \ {c}
        BY <4>3
      <4>7. {d \in Commands : box[d] # "absent"}' = {d \in Commands : box[d] # "absent"}
        BY <4>4
      <4> QED
        BY <4>1, <4>5, <4>6, <4>7 DEF State, Ephemeral!Finish
    <3> QED
      BY <3>1
  <2>2. CASE pc[c] # "waiting" \/ c \in orphans \cup excused
    BY <1>14, <2>2 DEF Reply, Ephemeral!ephemeralVars
  <2> QED
    BY <2>1, <2>2
<1>15. CASE ClientTimeout(c)
  <2>1. CASE c \in orphans \cup excused
    BY <1>15, <2>1 DEF ClientTimeout, Ephemeral!ephemeralVars
  <2>2. CASE c \notin orphans \cup excused
    <3>1. Ephemeral!Lose({c})
      BY <1>15, <2>2 DEF ClientTimeout, Ephemeral!Lose
    <3> QED
      BY <3>1
  <2> QED
    BY <2>1, <2>2
<1>16. CASE LateBox(c)
  <2>1. Ephemeral!Appear(c)
    BY <1>16 DEF LateBox, Ephemeral!Appear
  <2> QED
    BY <2>1
<1> QED
  BY <1>1, <1>2, <1>3, <1>4, <1>5, <1>6, <1>7, <1>8, <1>9, <1>10, <1>11, <1>12, <1>13,
     <1>14, <1>15, <1>16 DEF CommandStep

LEMMA LoseIsAStep ==
  ASSUME NEW S \in SUBSET Commands, Ephemeral!Lose(S) PROVE Ephemeral!EphemeralNext
BY DEF Ephemeral!EphemeralNext

LEMMA CrashMaps ==
  ASSUME IInv, IInv', ControllerCrash
  PROVE  Ephemeral!EphemeralNext \/ UNCHANGED Ephemeral!ephemeralVars
<1> DEFINE hit == {c \in Commands : pc[c] = "waiting" /\ c \notin orphans \cup excused}
<1> USE SandboxAssumption DEF IInv, TypeOK, CommandInv, Before, ControllerSide,
    AtWork, Settled, Present, Podman, OutOfSight
<1>1. CASE hit = {}
  BY <1>1 DEF ControllerCrash, Ephemeral!ephemeralVars
<1>2. CASE hit # {}
  <2>1. PICK S \in SUBSET Commands : S = hit
    OBVIOUS
  <2>2. Ephemeral!Lose(S)
    BY <1>2, <2>1 DEF ControllerCrash, Ephemeral!Lose
  <2> QED
    BY <2>2, LoseIsAStep
<1> QED
  BY <1>1, <1>2

(* Every backend keeps the promise of EphemeralExecution: a container of its *)
(* own per command, at most once, and none for a command whose outcome is    *)
(* known.                                                                    *)
THEOREM KeepsThePromise == Spec => EphemeralSpec
<1>1. Init => Ephemeral!EphemeralInit
  BY SandboxAssumption DEF Init, Ephemeral!EphemeralInit, OutOfSight, Present
<1>2. ASSUME IInv, IInv', [Next]_vars
      PROVE  Ephemeral!EphemeralNext \/ UNCHANGED Ephemeral!ephemeralVars
  <2>1. ASSUME NEW c \in Commands, CommandStep(c)
        PROVE  Ephemeral!EphemeralNext \/ UNCHANGED Ephemeral!ephemeralVars
    BY <1>2, <2>1, CommandStepMaps
  <2>2. CASE Cleanup
    BY <1>2, <2>2 DEF Cleanup, IInv, TypeOK, CommandInv, Before, OutOfSight, Present,
       Settled, Ephemeral!ephemeralVars
  <2>3. CASE UNCHANGED vars
    BY <2>3 DEF vars, OutOfSight, Ephemeral!ephemeralVars
  <2> QED
    BY <1>2, <2>1, <2>2, <2>3, CrashMaps DEF Next, Over
<1> QED
  BY <1>1, <1>2, InductiveInvariant, PTL DEF Spec, EphemeralSpec, Ephemeral!EphemeralSpec

-----------------------------------------------------------------------------
(* A command and its container take at most twenty steps together: whatever  *)
(* fails or times out, in whatever order the caller, the driver and the      *)
(* container go on, each of their steps leaves less to do, and no other      *)
(* command, crash or cleanup gives them more.                                *)
CallWork   == [idle |-> 20, waiting |-> 3, removing |-> 2, returned |-> 0, raised |-> 0]
DriverWork == [none |-> 0, creating |-> 8, created |-> 4, waiting |-> 3, removing |-> 2,
               replying |-> 1, done |-> 0]
BoxWork    == [absent |-> 0, created |-> 3, running |-> 2, exited |-> 1, gone |-> 0]
LateWork(c) == IF c \in orphans /\ box[c] = "absent" THEN 4 ELSE 0
Work(c)    == CallWork[pc[c]] + DriverWork[driver[c]] + BoxWork[box[c]] + LateWork(c)

CommandsGoOn ==
  [][\A c \in Commands : /\ CommandStep(c) => Work(c)' < Work(c)
                         /\ Work(c)' <= Work(c)]_vars

LEMMA Weights ==
  /\ CallWork["idle"] = 20 /\ CallWork["waiting"] = 3 /\ CallWork["removing"] = 2
  /\ CallWork["returned"] = 0 /\ CallWork["raised"] = 0
  /\ DriverWork["none"] = 0 /\ DriverWork["creating"] = 8 /\ DriverWork["created"] = 4
  /\ DriverWork["waiting"] = 3 /\ DriverWork["removing"] = 2
  /\ DriverWork["replying"] = 1 /\ DriverWork["done"] = 0
  /\ BoxWork["absent"] = 0 /\ BoxWork["created"] = 3 /\ BoxWork["running"] = 2
  /\ BoxWork["exited"] = 1 /\ BoxWork["gone"] = 0
BY DEF CallWork, DriverWork, BoxWork

LEMMA WorkIsNatural == ASSUME TypeOK, NEW c \in Commands PROVE Work(c) \in Nat
<1>1. /\ pc[c] \in {"idle", "waiting", "removing", "returned", "raised"}
      /\ driver[c] \in {"none", "creating", "created", "waiting", "removing", "replying", "done"}
      /\ box[c] \in {"absent", "created", "running", "exited", "gone"}
  BY DEF TypeOK, Settled, AtWork, Present
<1>2. /\ CallWork[pc[c]] \in Nat /\ DriverWork[driver[c]] \in Nat /\ BoxWork[box[c]] \in Nat
  BY <1>1, Weights
<1> QED
  BY <1>2 DEF Work, LateWork

(* What is left of the next state is compared part by part.                  *)
LEMMA LessWork ==
  ASSUME TypeOK, TypeOK', NEW c \in Commands, NEW d \in Commands,
         \/ CommandStep(c)
         \/ ControllerCrash \/ Cleanup
  PROVE  /\ CommandStep(c) /\ c = d => Work(d)' < Work(d)
         /\ Work(d)' <= Work(d)
<1> DEFINE p == CallWork[pc[d]]  p1 == CallWork[pc'[d]]
           m == DriverWork[driver[d]]  m1 == DriverWork[driver'[d]]
           b == BoxWork[box[d]]  b1 == BoxWork[box'[d]]
           l == LateWork(d)  l1 == LateWork(d)'
<1>1. Work(d) = p + m + b + l /\ Work(d)' = p1 + m1 + b1 + l1
  BY DEF Work, CallWork, DriverWork, BoxWork
<1>2. /\ pc[d] \in {"idle", "waiting", "removing", "returned", "raised"}
      /\ driver[d] \in {"none", "creating", "created", "waiting", "removing", "replying", "done"}
      /\ box[d] \in {"absent", "created", "running", "exited", "gone"}
      /\ pc'[d] \in {"idle", "waiting", "removing", "returned", "raised"}
      /\ driver'[d] \in {"none", "creating", "created", "waiting", "removing", "replying", "done"}
      /\ box'[d] \in {"absent", "created", "running", "exited", "gone"}
  BY DEF TypeOK, Settled, AtWork, Present
<1>3. {p, m, b, p1, m1, b1} \subseteq Nat
  BY <1>2, Weights
<1>l. l \in {0, 4} /\ l1 \in {0, 4}
  BY DEF LateWork
<1>4. ASSUME CommandStep(c), c # d PROVE p1 = p /\ m1 = m /\ b1 = b /\ l1 = l
  BY <1>4 DEF CommandStep, CreateBox, StartBox, BoxEnds, AutoRemove, PodmanExecute,
     RunEnds, PodmanTimeout, PodmanFinally, Remove, ControllerExecute, CreateFails,
     LateBox, WaitEnds, WaitRaises, RemoveBox, Reply, ClientTimeout, LateWork, TypeOK
<1>c. ASSUME CreateFails(c), c = d PROVE p1 + m1 + b1 + l1 < p + m + b + l
  <2>1. pc' = pc /\ box' = box /\ driver[c] = "creating" /\ driver'[c] = "replying"
    BY <1>c DEF CreateFails, TypeOK
  <2>2. p1 = p /\ b1 = b /\ m = 8 /\ m1 = 1
    BY <1>c, <2>1, Weights
  <2> HIDE DEF p, m, b, p1, m1, b1, l, l1
  <2> QED
    BY <1>3, <1>l, <2>2
<1>b. ASSUME LateBox(c), c = d PROVE p1 + m1 + b1 + l1 < p + m + b + l
  <2>1. pc' = pc /\ driver' = driver /\ box[c] = "absent" /\ box'[c] = "created"
    BY <1>b DEF LateBox, TypeOK
  <2>2. p1 = p /\ m1 = m /\ b = 0 /\ b1 = 3
    BY <1>b, <2>1, Weights
  <2>3. l = 4 /\ l1 = 0
    BY <1>b, <2>1 DEF LateBox, LateWork
  <2> HIDE DEF p, m, b, p1, m1, b1, l, l1
  <2> QED
    BY <1>3, <2>2, <2>3
<1>e. ASSUME CommandStep(c), ~CreateFails(c), ~LateBox(c), c = d PROVE l1 <= l
  <2>1. orphans' = orphans /\ (box'[c] = "absent" => box[c] = "absent")
    BY <1>e DEF CommandStep, CreateBox, StartBox, BoxEnds, AutoRemove, PodmanExecute,
     RunEnds, PodmanTimeout, PodmanFinally, Remove, ControllerExecute, WaitEnds, WaitRaises,
     RemoveBox, Reply, ClientTimeout, TypeOK
  <2> QED
    BY <1>e, <2>1 DEF LateWork
<1>5. ASSUME CommandStep(c), ~CreateFails(c), ~LateBox(c), c = d
      PROVE  p1 + m1 + b1 < p + m + b
  <2> USE DEF TypeOK
  <2>1. CASE CreateBox(c)
    <3>1. pc' = pc /\ driver[c] = "creating" /\ driver'[c] = "created" /\ box'[c] = "created"
      BY <2>1 DEF CreateBox
    <3> QED
      BY <1>3, <1>5, <3>1, Weights
  <2>2. CASE StartBox(c)
    <3>1. pc' = pc /\ driver[c] = "created" /\ driver'[c] = "waiting" /\ box[c] = "created"
          /\ box'[c] = "running"
      BY <2>2 DEF StartBox
    <3> QED
      BY <1>3, <1>5, <3>1, Weights
  <2>3. CASE BoxEnds(c)
    <3>1. pc' = pc /\ driver' = driver /\ box[c] = "running" /\ box'[c] = "exited"
      BY <2>3 DEF BoxEnds
    <3> QED
      BY <1>3, <1>5, <3>1, Weights
  <2>4. CASE AutoRemove(c)
    <3>1. pc' = pc /\ driver' = driver /\ box[c] = "exited" /\ box'[c] = "gone"
      BY <2>4 DEF AutoRemove
    <3> QED
      BY <1>3, <1>5, <3>1, Weights
  <2>5. CASE PodmanExecute(c) \/ ControllerExecute(c)
    <3>1. /\ pc[c] = "idle" /\ box' = box
          /\ \/ pc'[c] \in {"raised", "removing", "returned"} /\ driver' = driver
             \/ pc'[c] = "waiting" /\ driver'[c] = "creating"
      BY <2>5 DEF PodmanExecute, ControllerExecute
    <3> QED
      BY <1>3, <1>5, <3>1, Weights
  <2>6. CASE RunEnds(c)
    <3>1. /\ driver[c] \in {"waiting", "creating", "created"} /\ driver'[c] = "done"
          /\ box'[c] \in {box[c], "gone"}
          /\ pc' = pc \/ (pc[c] = "waiting" /\ pc'[c] = "removing")
      BY <2>6 DEF RunEnds
    <3> QED
      BY <1>3, <1>5, <3>1, Weights
  <2>7. CASE PodmanTimeout(c)
    <3>1. /\ pc[c] = "waiting" /\ pc'[c] = "removing" /\ box' = box
          /\ driver'[c] \in {driver[c], "done"}
      BY <2>7 DEF PodmanTimeout
    <3> QED
      BY <1>3, <1>5, <3>1, Weights
  <2>8. CASE PodmanFinally(c)
    <3>1. /\ pc[c] = "removing" /\ pc'[c] \in {"raised", "returned"} /\ driver' = driver
          /\ box'[c] \in {box[c], "gone"}
      BY <2>8 DEF PodmanFinally, Remove
    <3> QED
      BY <1>3, <1>5, <3>1, Weights
  <2>9. CASE WaitEnds(c)
    <3>1. pc' = pc /\ box' = box /\ driver[c] = "waiting" /\ driver'[c] = "removing"
      BY <2>9 DEF WaitEnds
    <3> QED
      BY <1>3, <1>5, <3>1, Weights
  <2>10. CASE WaitRaises(c)
    <3>1. /\ pc' = pc /\ driver[c] \in {"created", "waiting"} /\ driver'[c] = "removing"
          /\ box'[c] = box[c] \/ (box[c] = "running" /\ box'[c] = "exited")
      BY <2>10 DEF WaitRaises, AfterException
    <3> QED
      BY <1>3, <1>5, <3>1, Weights
  <2>11. CASE RemoveBox(c)
    <3>1. /\ pc' = pc /\ driver[c] = "removing" /\ driver'[c] = "replying"
          /\ box'[c] \in {box[c], "gone"}
      BY <2>11 DEF RemoveBox, Remove
    <3> QED
      BY <1>3, <1>5, <3>1, Weights
  <2>12. CASE Reply(c)
    <3>1. /\ box' = box /\ driver[c] = "replying" /\ driver'[c] = "done"
          /\ pc' = pc \/ (pc[c] = "waiting" /\ pc'[c] = "returned")
      BY <2>12 DEF Reply
    <3> QED
      BY <1>3, <1>5, <3>1, Weights
  <2>13. CASE ClientTimeout(c)
    <3>1. box' = box /\ driver' = driver /\ pc[c] = "waiting" /\ pc'[c] = "returned"
      BY <2>13 DEF ClientTimeout
    <3> QED
      BY <1>3, <1>5, <3>1, Weights
  <2> QED
    BY <1>5, <2>1, <2>2, <2>3, <2>4, <2>5, <2>6, <2>7, <2>8, <2>9, <2>10, <2>11,
       <2>12, <2>13 DEF CommandStep
<1>6. ASSUME ControllerCrash \/ Cleanup PROVE p1 <= p /\ b1 <= b /\ m1 + l1 <= m + l
  <2>1. /\ pc'[d] \in {pc[d], "returned"} /\ driver'[d] \in {driver[d], "none", "done"}
        /\ box'[d] \in {box[d], "gone"}
    <3>1. CASE ControllerCrash
      <4>1. /\ pc' = [c1 \in Commands |-> IF pc[c1] = "waiting" THEN "returned" ELSE pc[c1]]
            /\ driver' = [c1 \in Commands |-> IF driver[c1] = "none" THEN "none" ELSE "done"]
            /\ box' = box
        BY <3>1 DEF ControllerCrash
      <4> QED
        BY <4>1
    <3>2. CASE Cleanup
      BY <3>2 DEF Cleanup
    <3> QED
      BY <1>6, <3>1, <3>2
  <2>2. p1 <= p /\ b1 <= b /\ m1 <= m
    BY <1>3, <2>1, Weights
  <2>3. l1 <= l \/ (driver[d] = "creating" /\ driver'[d] \in {"none", "done"})
    <3>1. CASE ControllerCrash /\ driver[d] # "creating"
      BY <3>1 DEF ControllerCrash, LateWork
    <3>2. CASE ControllerCrash /\ driver[d] = "creating"
      BY <3>2 DEF ControllerCrash
    <3>3. CASE Cleanup
      <4>1. orphans' = orphans /\ (box'[d] = "absent" => box[d] = "absent")
        BY <3>3 DEF Cleanup
      <4> QED
        BY <4>1 DEF LateWork
    <3> QED
      BY <1>6, <3>1, <3>2, <3>3
  <2>4. driver[d] = "creating" /\ driver'[d] \in {"none", "done"} => m = 8 /\ m1 = 0
    BY Weights
  <2> HIDE DEF p, m, b, p1, m1, b1, l, l1
  <2> QED
    BY <1>3, <1>l, <2>2, <2>3, <2>4
<1> HIDE DEF p, m, b, p1, m1, b1, l, l1
<1> QED
  BY <1>1, <1>3, <1>l, <1>4, <1>b, <1>c, <1>e, <1>5, <1>6

(* Nothing a command, its container or the engine does can be done for ever: *)
(* the safety half of ExecuteReturns and ContainersGo.                       *)
THEOREM EveryCommandGoesOn == Spec => CommandsGoOn /\ [](\A c \in Commands : Work(c) \in Nat)
<1>1. TypeOK => \A c \in Commands : Work(c) \in Nat
  BY WorkIsNatural
<1>2. TypeOK /\ TypeOK' /\ [Next]_vars =>
        [\A c \in Commands : /\ CommandStep(c) => Work(c)' < Work(c)
                             /\ Work(c)' <= Work(c)]_vars
  <2> SUFFICES ASSUME TypeOK, TypeOK', Next, ~ UNCHANGED vars, NEW c \in Commands
               PROVE  /\ CommandStep(c) => Work(c)' < Work(c)
                      /\ Work(c)' <= Work(c)
    OBVIOUS
  <2>1. CommandStep(c) => Work(c)' < Work(c)
    BY LessWork
  <2>2. Work(c)' <= Work(c)
    BY LessWork DEF Next, Over
  <2> QED
    BY <2>1, <2>2
<1> QED
  BY <1>1, <1>2, TypeCorrect, PTL DEF Spec, CommandsGoOn
=============================================================================
