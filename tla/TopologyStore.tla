----------------------------- MODULE TopologyStore -----------------------------
(***************************************************************************)
(* What the mux server's transactions promise: pane sets and layouts       *)
(* change one whole command, one layout or one closed pane at a time, each *)
(* applied to the state its predecessor left.                              *)
(***************************************************************************)
EXTENDS TopologyCommands

CONSTANTS Commands, Layouts, Started

VARIABLES ids, minted, layout

Init ==
  /\ ids = 1 .. Started
  /\ minted = Started + 1
  /\ layout \in Layouts

\* A committed command.
Apply(c) ==
  /\ ~Rejects(ids, c)
  /\ ids' = KeptIds(ids, c) \cup NewIds(minted, c)
  /\ minted' = minted + c.n
  /\ UNCHANGED layout

\* A pane whose process ended.
Close(i) ==
  /\ ids' = ids \ {i}
  /\ UNCHANGED <<minted, layout>>

SetLayout(l) ==
  /\ layout' = l
  /\ UNCHANGED <<ids, minted>>

Next ==
  \/ \E c \in Commands : Apply(c)
  \/ \E i \in ids : Close(i)
  \/ \E l \in Layouts : SetLayout(l)

Spec == Init /\ [][Next]_<<ids, minted, layout>>
================================================================================
