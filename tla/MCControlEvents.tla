---------------------------- MODULE MCControlEvents ----------------------------
(* Small instances of ControlEvents for TLC. *)
EXTENDS ControlEvents

\* An event two of which fill a batch, and one too large for any.
FitsAndTooLarge == {1, BatchBytes + 1}

\* Sequence numbers run out before the last event.
OneTooFew == MaxEvents - 1
================================================================================
