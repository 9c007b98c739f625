--------------------------- MODULE TopologyCommands ----------------------------
(***************************************************************************)
(* MuxCommands as the transaction protocol sees them                       *)
(* (crates/bootty-mux/src/command.rs, native/state.rs): split names its    *)
(* source pane, close and ditch (DitchSession) the panes they remove, n    *)
(* identities are minted, and miss is a NewWindow whose session has gone,  *)
(* which mints an identity and adds no pane.                               *)
(***************************************************************************)
EXTENDS Naturals

CommandType == [op : {"split", "create", "close", "ditch", "miss"},
                n  : Nat, ids : SUBSET Nat]

\* The panes a command adds, identities from the counter next_pane = n on.
NewIds(n, c) == IF c.op = "miss" THEN {} ELSE n .. (n + c.n - 1)

\* The identities of ids that a command leaves.
KeptIds(ids, c) == IF c.op \in {"close", "ditch"} THEN ids \ c.ids ELSE ids

\* NativeMuxState::execute, when it fails.
Rejects(ids, c) == c.op \in {"split", "close"} /\ ~(c.ids \subseteq ids)
================================================================================
