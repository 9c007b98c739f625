------------------------------ MODULE MCMuxServer ------------------------------
(* Small instances of MuxServer for TLC. *)
EXTENDS MuxServer, TLC

Split(i) == [op |-> "split", n |-> 1, ids |-> {i}]
Create(k) == [op |-> "create", n |-> k, ids |-> {}]
Close(i) == [op |-> "close", n |-> 0, ids |-> {i}]
Ditch(s) == [op |-> "ditch", n |-> 0, ids |-> s]
Miss == [op |-> "miss", n |-> 1, ids |-> {}]

\* A split of the first pane, its removal, and a tab for a session that has gone.
CoreCommands == {Split(1), Close(1), Miss}

\* Splits only.
SplitOnly == {Split(1)}

\* Splits, and several panes at once: a restored session, a killed one.
BulkCommands == {Split(1), Create(2), Ditch({1})}

ClientSymmetry == Permutations(Clients)
================================================================================
