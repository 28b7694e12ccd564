-------------------------- MODULE MCSandboxExecution --------------------------
(* A model-checking instance of SandboxExecution: the commands of one agent. *)
EXTENDS SandboxExecution

CONSTANTS c1, c2
===============================================================================
