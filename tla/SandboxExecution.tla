--------------------------- MODULE SandboxExecution ---------------------------
(***************************************************************************)
(* Commands a Deep Agent executes in its sandbox, and the containers they  *)
(* run in.  The podman backend drives a `podman run` process itself and    *)
(* removes the container again in `finally`; in the WSL setup a prefix     *)
(* (wsl, sudo) stands between it and podman, which survives when the       *)
(* prefix is killed.  The controller backend sends a request to the        *)
(* sandbox controller, whose thread creates, waits for and removes the     *)
(* container.  After the agent has ended, its backend is cleaned up.       *)
(***************************************************************************)
EXTENDS Naturals

CONSTANTS
  Commands,   \* execute() calls of one attempt (bound)
  FaultBound, \* most refused removals and controller crashes in a run (bound)
  None

ASSUME SandboxAssumption == FaultBound \in Nat /\ None \notin {"exit", "error", "timeout"}

VARIABLES
  backend,   \* sandbox_backend: "podman", "wsl" (podman behind a prefix), "controller"
  pc,        \* execute(): "idle", "waiting", "removing", "returned", "raised"
  result,    \* what it returned: "exit", "error", "timeout"
  driver,    \* who drives the container: podman run, or the controller's thread
  outcome,   \* what the controller's thread will answer
  box,       \* the container: "absent", "created", "running", "exited", "gone"
  names,     \* _last_container_names
  cleaned,   \* cleanup_ok as the runner records it, or None before cleanup
  faults,    \* refused removals and crashes so far
  orphans,   \* creations the controller has asked for and got no answer to
  excused    \* history: a removal was refused, or the controller died at work on it

vars == <<backend, pc, result, driver, outcome, box, names, cleaned, faults, orphans,
          excused>>

Podman   == backend \in {"podman", "wsl"}
Present  == {"created", "running", "exited"}
AtWork   == {"creating", "created", "waiting"}
Settled  == {"idle", "returned", "raised"}

Init ==
  /\ backend \in {"podman", "wsl", "controller"}
  /\ pc = [c \in Commands |-> "idle"] /\ result = [c \in Commands |-> None]
  /\ driver = [c \in Commands |-> "none"] /\ outcome = [c \in Commands |-> None]
  /\ box = [c \in Commands |-> "absent"] /\ names = {}
  /\ cleaned = None /\ faults = 0 /\ orphans = {} /\ excused = {}

(* A forced removal of container c.  The engine may refuse it; the backends  *)
(* and the controller do not look at the answer.                             *)
Remove(c) ==
  \/ /\ box' = IF box[c] \in Present THEN [box EXCEPT ![c] = "gone"] ELSE box
     /\ UNCHANGED <<faults, excused>>
  \/ /\ box[c] \in Present /\ faults < FaultBound
     /\ faults' = faults + 1 /\ excused' = excused \cup {c} /\ UNCHANGED box

-----------------------------------------------------------------------------
(* The engine *)

CreateBox(c) ==
  /\ driver[c] = "creating" /\ driver' = [driver EXCEPT ![c] = "created"]
  /\ box' = [box EXCEPT ![c] = "created"]
  /\ UNCHANGED <<backend, pc, result, outcome, names, cleaned, faults, excused, orphans>>

StartBox(c) ==
  /\ driver[c] = "created" /\ box[c] = "created"
  /\ driver' = [driver EXCEPT ![c] = "waiting"]
  /\ box' = [box EXCEPT ![c] = "running"]
  /\ UNCHANGED <<backend, pc, result, outcome, names, cleaned, faults, excused, orphans>>

(* The command ends, or the container's own deadline (podman --timeout).     *)
BoxEnds(c) ==
  /\ box[c] = "running" /\ box' = [box EXCEPT ![c] = "exited"]
  /\ UNCHANGED <<backend, pc, result, driver, outcome, names, cleaned, faults, excused, orphans>>

(* podman run --rm *)
AutoRemove(c) ==
  /\ Podman /\ box[c] = "exited" /\ box' = [box EXCEPT ![c] = "gone"]
  /\ UNCHANGED <<backend, pc, result, driver, outcome, names, cleaned, faults, excused, orphans>>

-----------------------------------------------------------------------------
(* PodmanSandboxBackend.execute *)

(* argv cannot be built; the process cannot be started, which is an answer   *)
(* when the executable is missing; or it starts.                             *)
PodmanExecute(c) ==
  /\ Podman /\ pc[c] = "idle" /\ cleaned = None
  /\ names' = names \cup {c}
  /\ \/ pc' = [pc EXCEPT ![c] = "raised"] /\ UNCHANGED <<driver, result>>
     \/ /\ pc' = [pc EXCEPT ![c] = "removing"] /\ UNCHANGED driver
        /\ \E r \in {"error", None} : result' = [result EXCEPT ![c] = r]
     \/ /\ pc' = [pc EXCEPT ![c] = "waiting"]
        /\ driver' = [driver EXCEPT ![c] = "creating"] /\ UNCHANGED result
  /\ UNCHANGED <<backend, outcome, box, cleaned, faults, excused, orphans>>

(* podman run ends with the container, or because it could not create or     *)
(* start one.                                                                *)
RunEnds(c) ==
  /\ Podman /\ \/ driver[c] = "waiting" /\ box[c] \in {"exited", "gone"}
               \/ driver[c] \in {"creating", "created"}
  /\ driver' = [driver EXCEPT ![c] = "done"]
  /\ box' = IF box[c] = "created" THEN [box EXCEPT ![c] = "gone"] ELSE box
  /\ IF pc[c] = "waiting"
     THEN /\ pc' = [pc EXCEPT ![c] = "removing"]
          /\ result' = [result EXCEPT ![c] = "exit"]
     ELSE UNCHANGED <<pc, result>>
  /\ UNCHANGED <<backend, outcome, names, cleaned, faults, excused, orphans>>

(* subprocess.TimeoutExpired: the process is killed.                         *)
PodmanTimeout(c) ==
  /\ Podman /\ pc[c] = "waiting"
  /\ pc' = [pc EXCEPT ![c] = "removing"] /\ result' = [result EXCEPT ![c] = "timeout"]
  /\ driver' = IF backend = "wsl" THEN driver ELSE [driver EXCEPT ![c] = "done"]
  /\ UNCHANGED <<backend, outcome, box, names, cleaned, faults, excused, orphans>>

\* Mutant: the container is removed only after an exit.
RemovalDueOnExit(c) == result[c] = "exit"

RemovalDue(c) == TRUE

(* finally: podman rm -f and forget the name.                                *)
PodmanFinally(c) ==
  /\ pc[c] = "removing"
  /\ IF RemovalDue(c) THEN Remove(c) ELSE UNCHANGED <<box, faults, excused>>
  /\ names' = names \ {c}
  /\ pc' = [pc EXCEPT ![c] = IF result[c] = None THEN "raised" ELSE "returned"]
  /\ UNCHANGED <<backend, result, driver, outcome, cleaned, orphans>>

-----------------------------------------------------------------------------
(* ControllerSandboxBackend.execute and run_hardened_container *)

(* The controller refuses an image that is not allowlisted.                  *)
ControllerExecute(c) ==
  /\ backend = "controller" /\ pc[c] = "idle" /\ cleaned = None
  /\ \/ /\ pc' = [pc EXCEPT ![c] = "returned"]
        /\ result' = [result EXCEPT ![c] = "error"] /\ UNCHANGED driver
     \/ /\ pc' = [pc EXCEPT ![c] = "waiting"]
        /\ driver' = [driver EXCEPT ![c] = "creating"] /\ UNCHANGED result
  /\ UNCHANGED <<backend, outcome, box, names, cleaned, faults, excused, orphans>>

(* containers.create, which asks for the container and then inspects it,     *)
(* raises outside of the try: the engine has made no container, or it has    *)
(* made one or still will, and nobody is going to remove that.               *)
CreateFails(c) ==
  /\ backend = "controller" /\ driver[c] = "creating"
  /\ driver' = [driver EXCEPT ![c] = "replying"]
  /\ outcome' = [outcome EXCEPT ![c] = "error"]
  /\ orphans' \in {orphans, orphans \cup {c}}
  /\ UNCHANGED <<backend, pc, result, box, names, cleaned, faults, excused>>

(* The engine carries out a creation whose answer nobody got.                *)
LateBox(c) ==
  /\ c \in orphans /\ box[c] = "absent" /\ box' = [box EXCEPT ![c] = "created"]
  /\ UNCHANGED <<backend, pc, result, driver, outcome, names, cleaned, faults, excused, orphans>>

WaitEnds(c) ==
  /\ backend = "controller" /\ driver[c] = "waiting" /\ box[c] = "exited"
  /\ driver' = [driver EXCEPT ![c] = "removing"]
  /\ outcome' = [outcome EXCEPT ![c] = "exit"]
  /\ UNCHANGED <<backend, pc, result, box, names, cleaned, faults, excused, orphans>>

\* Mutants: the exception path skips the finally block; it has no next step.
AfterExceptionReply == "replying"
AfterExceptionStop  == None

AfterException == "removing"

(* start, wait (after its timeout) or logs raises; kill may fail as well.    *)
WaitRaises(c) ==
  /\ backend = "controller" /\ driver[c] \in {"created", "waiting"}
  /\ driver' = [driver EXCEPT ![c] = AfterException]
  /\ outcome' = [outcome EXCEPT ![c] = "error"]
  /\ \/ box' = IF box[c] = "running" THEN [box EXCEPT ![c] = "exited"] ELSE box
     \/ UNCHANGED box
  /\ UNCHANGED <<backend, pc, result, names, cleaned, faults, excused, orphans>>

RemoveBox(c) ==
  /\ backend = "controller" /\ driver[c] = "removing" /\ Remove(c)
  /\ driver' = [driver EXCEPT ![c] = "replying"]
  /\ UNCHANGED <<backend, pc, result, outcome, names, cleaned, orphans>>

Reply(c) ==
  /\ backend = "controller" /\ driver[c] = "replying"
  /\ driver' = [driver EXCEPT ![c] = "done"]
  /\ IF pc[c] = "waiting"
     THEN /\ pc' = [pc EXCEPT ![c] = "returned"]
          /\ result' = [result EXCEPT ![c] = outcome[c]]
     ELSE UNCHANGED <<pc, result>>
  /\ UNCHANGED <<backend, outcome, box, names, cleaned, faults, excused, orphans>>

(* The client's timeout is the controller's plus 30 seconds; creating,       *)
(* removing and answering can take longer.                                   *)
ClientTimeout(c) ==
  /\ backend = "controller" /\ pc[c] = "waiting"
  /\ pc' = [pc EXCEPT ![c] = "returned"] /\ result' = [result EXCEPT ![c] = "timeout"]
  /\ UNCHANGED <<backend, driver, outcome, box, names, cleaned, faults, excused, orphans>>

(* The controller's process dies: its threads and connections are gone.      *)
ControllerCrash ==
  LET hit == {c \in Commands : pc[c] = "waiting"} IN
  /\ backend = "controller" /\ faults < FaultBound /\ faults' = faults + 1
  /\ \E c \in Commands : driver[c] \notin {"none", "done"}
  /\ excused' = excused \cup {c \in Commands : driver[c] \notin {"none", "done"}}
  /\ orphans' = orphans \cup {c \in Commands : driver[c] = "creating"}
  /\ driver' = [c \in Commands |-> IF driver[c] = "none" THEN "none" ELSE "done"]
  /\ pc' = [c \in Commands |-> IF c \in hit THEN "returned" ELSE pc[c]]
  /\ result' = [c \in Commands |-> IF c \in hit THEN "timeout" ELSE result[c]]
  /\ UNCHANGED <<backend, outcome, box, names, cleaned>>

-----------------------------------------------------------------------------
(* cleanup of both backends, when the agent has ended.  podman: the known    *)
(* containers, then the scratch directory, whose removal may fail unnoticed  *)
(* but for the runner's look at it.  controller: the request has no effect.  *)
Cleanup ==
  /\ cleaned = None /\ \A c \in Commands : pc[c] \in Settled
  /\ box' = [c \in Commands |->
       IF Podman /\ c \in names /\ box[c] \in Present THEN "gone" ELSE box[c]]
  /\ names' = {}
  /\ cleaned' \in IF Podman THEN BOOLEAN ELSE {TRUE}
  /\ UNCHANGED <<backend, pc, result, driver, outcome, faults, excused, orphans>>

Over == cleaned # None /\ UNCHANGED vars

CommandStep(c) ==
  \/ CreateBox(c) \/ StartBox(c) \/ BoxEnds(c) \/ AutoRemove(c)
  \/ PodmanExecute(c) \/ RunEnds(c) \/ PodmanTimeout(c) \/ PodmanFinally(c)
  \/ ControllerExecute(c) \/ CreateFails(c) \/ LateBox(c) \/ WaitEnds(c) \/ WaitRaises(c)
  \/ RemoveBox(c) \/ Reply(c) \/ ClientTimeout(c)

Next ==
  \/ \E c \in Commands : CommandStep(c)
  \/ ControllerCrash
  \/ Cleanup
  \/ Over

Spec == Init /\ [][Next]_vars

\* Mutant: the container is started without --timeout.
DeadlineNever == FALSE

(* podman stops the container by itself after the command's timeout.         *)
Deadline == Podman

(* Threads and processes go on; a wait ends at the latest with its timeout.  *)
(* A command need not end by itself.                                         *)
FairSpec == Spec /\ \A c \in Commands :
  /\ WF_vars(PodmanFinally(c)) /\ WF_vars(PodmanTimeout(c)) /\ WF_vars(RunEnds(c))
  /\ WF_vars(AutoRemove(c)) /\ WF_vars(Deadline /\ BoxEnds(c))
  /\ WF_vars(WaitEnds(c) \/ WaitRaises(c) \/ CreateFails(c) \/ RemoveBox(c) \/ Reply(c))

-----------------------------------------------------------------------------
(* Properties *)

TypeOK ==
  /\ backend \in {"podman", "wsl", "controller"}
  /\ pc \in [Commands -> Settled \cup {"waiting", "removing"}]
  /\ result \in [Commands -> {None, "exit", "error", "timeout"}]
  /\ driver \in [Commands -> AtWork \cup {"none", "removing", "replying", "done"}]
  /\ outcome \in [Commands -> {None, "exit", "error"}]
  /\ box \in [Commands -> Present \cup {"absent", "gone"}]
  /\ names \in SUBSET Commands
  /\ cleaned \in BOOLEAN \cup {None}
  /\ faults \in 0 .. FaultBound
  /\ orphans \in SUBSET Commands /\ excused \in SUBSET Commands

(* A command whose outcome the agent has been told has no container left and *)
(* nothing that could still create one: with podman after any return, behind *)
(* a prefix or the controller unless the agent was told of a timeout.  There *)
(* are three exceptions: a refused removal and a dead controller, of which   *)
(* nothing is said, and a creation that failed for the controller but not    *)
(* for the engine, whose container may stay but never runs the command.      *)
ReturnedIsOver ==
  \A c \in Commands \ excused :
    pc[c] = "returned" /\ (backend = "podman" \/ result[c] # "timeout") =>
      /\ driver[c] \notin AtWork
      /\ box[c] \in Present => c \in orphans /\ box[c] = "created"

(* No container stays for ever, not even one that a surviving podman creates *)
(* after the removal in `finally`, but for the three exceptions.             *)
ContainersGo ==
  \A c \in Commands :
    box[c] \in Present ~> box[c] \notin Present \/ c \in orphans \cup excused

(* Every execute() comes back, also when the controller has died, and        *)
(* without the client's own timeout.                                         *)
ExecuteReturns == \A c \in Commands : pc[c] = "waiting" ~> pc[c] \in Settled

(* Nobody can tell what became of the container: the command timed out where *)
(* its driver may survive, or one of the three exceptions was met.           *)
OutOfSight(c) ==
  \/ c \in orphans \cup excused
  \/ result[c] = "timeout" /\ backend # "podman"

Ephemeral == INSTANCE EphemeralExecution WITH
  state <- [c \in Commands |->
    IF pc[c] = "idle" THEN "new" ELSE IF OutOfSight(c) THEN "lost"
    ELSE IF pc[c] \in {"returned", "raised"} THEN "over" ELSE "open"],
  boxes <- {c \in Commands : box[c] \in Present},
  used  <- {c \in Commands : box[c] # "absent"}

(* Every backend keeps the promise of EphemeralExecution, and loses sight of *)
(* a container in no other way.                                              *)
EphemeralSpec == Ephemeral!EphemeralSpec
=============================================================================
