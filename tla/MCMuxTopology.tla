----------------------------- MODULE MCMuxTopology -----------------------------
(* Small instances of MuxTopology for TLC. *)
EXTENDS MuxTopology

\* Checkpoints of one tab with two panes, and of two tabs with one and two.
Shapes == {<<2>>, <<1, 3>>}

SessionSymmetry == Permutations(SessionIds)

\* To the neighbour, and further than the tabs of the instance reach.
NearAndFar == {-3, -1, 1, 3}
================================================================================
