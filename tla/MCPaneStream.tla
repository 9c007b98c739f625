---------------------------- MODULE MCPaneStream ----------------------------
(* The instance of PaneStream that TLC checks: its bounds are in the .cfg. *)
EXTENDS PaneStream
=============================================================================
