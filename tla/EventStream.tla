------------------------------ MODULE EventStream ------------------------------
(***************************************************************************)
(* What an event subscription promises its client: the published events of *)
(* its topics, each once and in order, until the stream ends.  It ends     *)
(* with an error the client sees (a rebase, an unsubscription), never with *)
(* a hole.                                                                 *)
(***************************************************************************)
EXTENDS Naturals, Sequences

CONSTANTS Subs, Events

VARIABLES log,   \* the events published to each subscription since it was made
          got,   \* the events each client has been given
          ended  \* the subscriptions whose client was told to start over

Init == /\ log = [s \in Subs |-> <<>>]
        /\ got = [s \in Subs |-> <<>>]
        /\ ended = {}

\* One publication reaches some of the subscriptions.
Append1 == /\ \E e \in Events, reach \in SUBSET Subs :
                log' = [s \in Subs |-> IF s \in reach THEN Append(log[s], e) ELSE log[s]]
           /\ UNCHANGED <<got, ended>>

\* A client still in the stream is given the events that follow those it has.
Give(s) == /\ s \notin ended
           /\ \E n \in 0 .. Len(log[s]) :
                got' = [got EXCEPT ![s] = SubSeq(log[s], 1, n)]
           /\ Len(got'[s]) >= Len(got[s])
           /\ UNCHANGED <<log, ended>>

End(s) == /\ ended' = ended \cup {s}
          /\ UNCHANGED <<log, got>>

Next == Append1 \/ \E s \in Subs : Give(s) \/ End(s)

Spec == Init /\ [][Next]_<<log, got, ended>>
================================================================================
