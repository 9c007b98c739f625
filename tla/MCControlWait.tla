----------------------------- MODULE MCControlWait -----------------------------
(* Small instances of ControlWait for TLC. *)
EXTENDS ControlWait

\* The condition holds for a while, and again at the end.
Transient == {1, MaxChanges}
================================================================================
