---------------------------- MODULE MCMuxDaemon ----------------------------
(* The instance of MuxDaemon that TLC checks: its bounds are in the .cfg. *)
EXTENDS MuxDaemon
============================================================================
