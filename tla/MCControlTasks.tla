----------------------------- MODULE MCControlTasks -----------------------------
(* A small instance of ControlTasks for TLC: the constants are in its cfg. *)
EXTENDS ControlTasks
=================================================================================
