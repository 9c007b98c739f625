------------------------------ MODULE MCAppCommands ------------------------------
(* A small instance of AppCommands for TLC: the constants are in its cfg. *)
EXTENDS AppCommands
==================================================================================
