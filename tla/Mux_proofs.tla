-------------------------------- MODULE Mux_proofs -----------------------------
(***************************************************************************)
(* Proofs about the mux server.  First MuxServer, for every set of clients, *)
(* commands, layouts and directories and every number of processes and      *)
(* titles; then MuxTopology, for every set of sessions, every bound on      *)
(* panes and tabs and every set of saved layouts.  The two halves share no  *)
(* state: what joins them is TopologyStore, which both implement.           *)
(***************************************************************************)
EXTENDS MuxServer, MuxTopology, SequenceTheorems, WellFoundedInduction, TLAPS

USE DEF vars, workspaceVars, procVars, connVars, jobVars, eventVars

--------------------------------------------------------------------------------
(* Types *)

\* The placeholders have the types of what they stand for.
LEMMA Defaults ==
  /\ DefaultDir \in Dirs
  /\ DefaultLayout \in Layouts
  /\ \A n \in Nat : IsTopology(FreshTopology(n))
  /\ IsTopology(NoTopology)
  /\ IsPaneMap(NoPanes)
<1>1. DefaultDir \in Dirs /\ DefaultLayout \in Layouts
  BY ServerAssumption DEF DefaultDir, DefaultLayout
<1>2. \A n \in Nat : IsTopology(FreshTopology(n))
  BY <1>1 DEF IsTopology, FreshTopology
<1> QED
  BY <1>1, <1>2 DEF NoTopology, NoPanes, IsPaneMap

\* Replacing one client's respawn target.
LEMMA TargetUpdate ==
  ASSUME NEW c \in Clients, NEW x, IsTarget(x), ConnectionsOK,
         target' = [target EXCEPT ![c] = x]
  PROVE  DOMAIN target' = Clients /\ \A d \in Clients : IsTarget(target'[d])
BY DEF ConnectionsOK

\* change_notifier and the events a worker sends keep the channel's type.
LEMMA ChannelAppend ==
  ASSUME EventsOK
  PROVE  /\ \A e \in Event : Append(events, e) \in Seq(Event) /\ Append(events, e) # << >>
         /\ NotifyChanged => /\ pending' \in BOOLEAN
                             /\ events' \in Seq(Event)
                             /\ events # << >> => events' # << >>
<1>1. \A e \in Event : Append(events, e) \in Seq(Event) /\ Append(events, e) # << >>
  BY DEF EventsOK
<1>2. [type |-> "changed", id |-> 0, gen |-> 0] \in Event
  BY DEF Event
<1>3. NotifyChanged => pending' \in BOOLEAN
  BY DEF NotifyChanged
<1>4. ASSUME NotifyChanged
      PROVE  events' \in Seq(Event) /\ (events # << >> => events' # << >>)
  BY <1>1, <1>2, <1>4 DEF NotifyChanged, EventsOK
<1> QED
  BY <1>1, <1>3, <1>4

\* Workspace::publish keeps the types of what it changes.
LEMMA PublishType ==
  ASSUME TypeOK, Publish
  PROVE  revision' \in Nat /\ shown' \in Nat /\ unwritten' \in [Clients -> BOOLEAN]
BY DEF TypeOK, WorkspaceOK, ConnectionsOK, EventsOK, Publish, Subscribed

\* The edits of a topology keep it one.
LEMMA TopologyEdits ==
  ASSUME NEW t, IsTopology(t)
  PROVE  /\ \A l \in Layouts : IsTopology(WithLayout(t, l))
         /\ \A i, d : d \in Dirs => IsTopology(WithDir(t, i, d))
         /\ \A i : IsTopology(WithoutPane(t, i))
         /\ \A m \in Commands, d \in Dirs : IsTopology(Executed(t, m, d))
<1>1. \A l \in Layouts : IsTopology(WithLayout(t, l))
  BY DEF IsTopology, WithLayout
<1>2. \A i, d : d \in Dirs => IsTopology(WithDir(t, i, d))
  BY DEF IsTopology, WithDir
<1>3. \A i : IsTopology(WithoutPane(t, i))
  BY DEF IsTopology, WithoutPane
<1>4. ASSUME NEW m \in Commands, NEW d \in Dirs
      PROVE  IsTopology(Executed(t, m, d))
  <2>1. m.n \in Nat
    BY ServerAssumption DEF CommandType
  <2> QED
    BY <2>1 DEF IsTopology, Executed, KeptIds, NewIds
<1> QED
  BY <1>1, <1>2, <1>3, <1>4

\* The server starts in a state of its type.
LEMMA InitType == ASSUME Init PROVE TypeOK
<1>1. WorkspaceOK
  BY ServerAssumption, Defaults DEF Init, WorkspaceOK, IsPaneMap
<1>2. ConnectionsOK
  BY ServerAssumption, Defaults DEF Init, ConnectionsOK, IsTarget
<1>3. JobsOK
  BY Defaults DEF Init, JobsOK
<1>4. EventsOK
  <2>1. events \in Seq(Event) /\ waiters \subseteq Clients \cup {Loop}
    BY DEF Init
  <2> QED
    BY <2>1 DEF Init, EventsOK
<1> QED
  BY <1>1, <1>2, <1>3, <1>4 DEF TypeOK

\* Every step of the server, its clients, its jobs and its panes keeps the type.
LEMMA NextType == ASSUME TypeOK, [Next]_vars PROVE TypeOK'
<1> USE ServerAssumption, Defaults
    DEF TypeOK, WorkspaceOK, ConnectionsOK, JobsOK, EventsOK
<1>1. ASSUME NEW c \in Clients, EnableNotified(c) PROVE TypeOK'
  BY <1>1 DEF EnableNotified, Go
<1>2. ASSUME NEW c \in Clients, CheckReserved(c) PROVE TypeOK'
  BY <1>2 DEF CheckReserved, Go
<1>3. ASSUME NEW c \in Clients, Await(c) PROVE TypeOK'
  BY <1>3 DEF Await, Go
<1>4. ASSUME NEW c \in Clients, Notified(c) PROVE TypeOK'
  BY <1>4 DEF Notified, Go
<1>5. ASSUME NEW c \in Clients, SpawnPrepare(c) PROVE TypeOK'
  BY <1>5 DEF SpawnPrepare, Go
<1>6. ASSUME NEW c \in Clients, SpawnCommit(c) PROVE TypeOK'
  BY <1>6 DEF SpawnCommit, Go
<1>7. ASSUME NEW c \in Clients, ReaderEnds(c) PROVE TypeOK'
  BY <1>7 DEF ReaderEnds, Go
<1>8. ASSUME NEW c \in Clients, Cleanup(c) PROVE TypeOK'
  <2>1. UNCHANGED <<kind, cmd, owned, peerOpen, jobVars, target, eventVars>>
        /\ Abort(c) /\ Go(c, "gone") /\ unwritten' = [unwritten EXCEPT ![c] = FALSE]
    BY <1>8 DEF Cleanup
  <2>2. CASE reservation = c
    <3>1. WorkspaceOK' /\ EventsOK'
      <4>1. /\ prepared' = {} /\ reservation' = NoClient /\ waiters' = {}
            /\ UNCHANGED <<topology, panes, revision, shown, name>>
        BY <2>1, <2>2 DEF Abort, NotifyWaiters
      <4>2. procs' = Stopped(UNION {Range(tx.added) : tx \in prepared})
        BY <2>1, <2>2 DEF Abort
      <4>3. WorkspaceOK'
        BY <4>1, <4>2 DEF Stopped
      <4> QED
        BY <2>1, <4>1, <4>3
    <3>2. ConnectionsOK' /\ JobsOK'
      BY <2>1 DEF Go
    <3> QED
      BY <3>1, <3>2
  <2>3. CASE reservation # c
    BY <2>1, <2>3 DEF Abort, Go
  <2> QED
    BY <2>2, <2>3
<1>9. ASSUME NEW c \in Clients, Connect(c) PROVE TypeOK'
  BY <1>9 DEF Connect, Go
<1>10. ASSUME NEW c \in Clients, PeerCloses(c) PROVE TypeOK'
  BY <1>10 DEF PeerCloses
<1>11. ASSUME NEW c \in Clients, SendCommit(c) PROVE TypeOK'
  BY <1>11 DEF SendCommit, Go
<1>12. ASSUME NEW c \in Clients, SendAbort(c) PROVE TypeOK'
  <2>1. CASE reservation = c
    BY <1>12, <2>1 DEF SendAbort, Abort, Stopped, NotifyWaiters
  <2>2. CASE reservation # c
    BY <1>12, <2>2 DEF SendAbort, Abort
  <2> QED
    BY <2>1, <2>2
<1>13. ASSUME NEW c \in Clients, WriterWrites(c) PROVE TypeOK'
  BY <1>13 DEF WriterWrites
<1>14. ASSUME NEW c \in Clients, WriterFails(c) PROVE TypeOK'
  BY <1>14 DEF WriterFails, Go
<1>15. ASSUME NEW c \in Clients, PrepareStale(c) PROVE TypeOK'
  BY <1>15 DEF PrepareStale, JobReturns
<1>16. ASSUME NEW c \in Clients, PrepareRejected(c) PROVE TypeOK'
  BY <1>16 DEF PrepareRejected, JobReturns
<1>17. ASSUME NEW c \in Clients, Launch(c) PROVE TypeOK'
  <2>1. JobsOK'
    BY <1>17 DEF Launch, IsPaneMap
  <2>2. WorkspaceOK' /\ EventsOK'
    BY <1>17 DEF Launch
  <2>3. ConnectionsOK'
    BY <1>17 DEF Launch
  <2> QED
    BY <2>1, <2>2, <2>3
<1>18. ASSUME NEW c \in Clients, LaunchFails(c) PROVE TypeOK'
  BY <1>18 DEF LaunchFails, DropStaged, Stopped, NotifyWaiters, JobReturns
<1>19. ASSUME NEW c \in Clients, Install(c) PROVE TypeOK'
  BY <1>19 DEF Install, JobReturns, IsPaneMap
<1>20. ASSUME NEW c \in Clients, InstallRefused(c) PROVE TypeOK'
  BY <1>20 DEF InstallRefused, DropStaged, Stopped, NotifyWaiters, JobReturns
<1>21. ASSUME NEW c \in Clients, Commit(c) PROVE TypeOK'
  BY <1>21 DEF Commit, Stopped, NotifyWaiters, Publish, JobReturns, IsPaneMap
<1>22. ASSUME NEW c \in Clients, CommitRefused(c) PROVE TypeOK'
  BY <1>22 DEF CommitRefused, JobReturns
<1>23. ASSUME NEW c \in Clients, SendRequest(c) PROVE TypeOK'
  <2>1. ConnectionsOK'
    <3>1. PICK k \in Requests :
            /\ kind' = [kind EXCEPT ![c] = k]
            /\ \/ /\ \E m \in Commands : cmd' = [cmd EXCEPT ![c] = m]
                  /\ UNCHANGED target
               \/ /\ \E i \in 1 .. topology.next, d \in Dirs :
                       target' = [target EXCEPT ![c] = [id |-> i, dir |-> d, gen |-> {}]]
                  /\ UNCHANGED cmd
               \/ UNCHANGED <<cmd, target>>
      BY <1>23 DEF SendRequest
    <3>2. cmd' \in [Clients -> Commands]
      BY <3>1
    <3>3. \A i \in 1 .. topology.next, d \in Dirs :
            IsTarget([id |-> i, dir |-> d, gen |-> {}])
      BY DEF IsTarget, IsTopology
    <3>4. DOMAIN target' = Clients /\ \A d \in Clients : IsTarget(target'[d])
      BY <3>1, <3>3, TargetUpdate
    <3> QED
      BY <1>23, <3>1, <3>2, <3>4 DEF SendRequest, Go
  <2> QED
    BY <1>23, <2>1 DEF SendRequest
<1>24. ASSUME NEW c \in Clients, SetLayout(c) PROVE TypeOK'
  <2>1. IsTopology(topology') /\ revision' \in Nat /\ shown' \in Nat
        /\ unwritten' \in [Clients -> BOOLEAN]
    <3>1. CASE \E l \in Layouts : topology' = WithLayout(topology, l) /\ Publish
      <4>1. PICK l \in Layouts : topology' = WithLayout(topology, l) /\ Publish
        BY <3>1
      <4>2. IsTopology(topology')
        BY <4>1, TopologyEdits
      <4> QED
        BY <4>1, <4>2, PublishType
    <3>2. CASE UNCHANGED <<topology, revision, shown, unwritten>>
      BY <3>2
    <3> QED
      BY <1>24, <3>1, <3>2 DEF SetLayout
  <2> QED
    BY <1>24, <2>1 DEF SetLayout, Go
<1>25. ASSUME NEW c \in Clients, RespawnStart(c) PROVE TypeOK'
  <2>1. target[c].id \in DOMAIN panes =>
          IsTarget([id |-> target[c].id, dir |-> target[c].dir,
                    gen |-> {panes[target[c].id]}])
    BY DEF IsTarget, IsPaneMap
  <2>2. DOMAIN target' = Clients /\ \A d \in Clients : IsTarget(target'[d])
    BY <1>25, <2>1, TargetUpdate DEF RespawnStart
  <2> QED
    BY <1>25, <2>2 DEF RespawnStart, Go
<1>26. ASSUME NEW c \in Clients, RespawnCall(c) PROVE TypeOK'
  <2>1. EventsOK'
    BY <1>26, ChannelAppend DEF RespawnCall
  <2>2. pc' = [pc EXCEPT ![c] = "respawned"] \/ pc' = [pc EXCEPT ![c] = "idle"]
    BY <1>26 DEF RespawnCall, Go
  <2> QED
    BY <1>26, <2>1, <2>2 DEF RespawnCall
<1>27. ASSUME NEW c \in Clients, RespawnFinish(c) PROVE TypeOK'
  <2>1. IsTopology(topology') /\ revision' \in Nat /\ shown' \in Nat
        /\ unwritten' \in [Clients -> BOOLEAN]
    <3>1. IsTopology(WithDir(topology, target[c].id, target[c].dir))
      BY TopologyEdits DEF IsTarget
    <3>2. CASE topology' = WithDir(topology, target[c].id, target[c].dir) /\ Publish
      BY <3>1, <3>2, PublishType
    <3>3. CASE UNCHANGED <<topology, revision, shown, unwritten>>
      BY <3>3
    <3> QED
      BY <1>27, <3>2, <3>3 DEF RespawnFinish
  <2> QED
    BY <1>27, <2>1 DEF RespawnFinish, Go
<1>28. ASSUME NEW c \in Clients, ReadSource(c) PROVE TypeOK'
  <2>1. CASE JobReturns(c, "idle")
    BY <1>28, <2>1 DEF ReadSource, JobReturns
  <2>2. CASE /\ seen' = [seen EXCEPT ![c] = revision]
             /\ job' = [job EXCEPT ![c] = IF cmd[c].op = "split" THEN "cwd" ELSE "reserve"]
             /\ UNCHANGED <<pc, next, todo, staged>>
    BY <1>28, <2>2 DEF ReadSource
  <2> QED
    BY <1>28, <2>1, <2>2 DEF ReadSource
<1>29. ASSUME NEW c \in Clients, SourceAnswers(c) PROVE TypeOK'
  <2>1. CASE JobReturns(c, "idle")
    BY <1>29, <2>1 DEF SourceAnswers, JobReturns
  <2>2. CASE job' = [job EXCEPT ![c] = "reserve"] /\ UNCHANGED <<pc, seen, next, todo, staged>>
    BY <1>29, <2>2 DEF SourceAnswers
  <2> QED
    BY <1>29, <2>1, <2>2 DEF SourceAnswers
<1>30. ASSUME NEW c \in Clients, Reserve(c) PROVE TypeOK'
  <2>1. PICK dir \in Dirs :
          /\ next' = [next EXCEPT ![c] = Executed(topology, cmd[c], dir)]
          /\ todo' = [todo EXCEPT ![c] = DOMAIN Executed(topology, cmd[c], dir).cwd
                                          \ DOMAIN panes]
    BY <1>30 DEF Reserve
  <2>2. IsTopology(Executed(topology, cmd[c], dir))
    BY TopologyEdits
  <2>3. DOMAIN Executed(topology, cmd[c], dir).cwd \subseteq Nat
    BY <2>2 DEF IsTopology
  <2> QED
    BY <1>30, <2>1, <2>2, <2>3 DEF Reserve
<1>31. ASSUME NEW g \in Generations, PaneExits(g) PROVE TypeOK'
  <2>1. [type |-> "exited", id |-> name[g], gen |-> g] \in Event
    BY DEF Event
  <2> QED
    BY <1>31, <2>1, ChannelAppend DEF PaneExits
<1>32. ASSUME SetTitle PROVE TypeOK'
  BY <1>32 DEF SetTitle
<1>33. ASSUME AnnounceTitle PROVE TypeOK'
  BY <1>33, ChannelAppend DEF AnnounceTitle
<1>34. ASSUME HandleChanged PROVE TypeOK'
  <2>1. Tail(events) \in Seq(Event)
    BY <1>34 DEF HandleChanged
  <2> QED
    BY <1>34, <2>1 DEF HandleChanged
<1>35. ASSUME PublishChanged PROVE TypeOK'
  BY <1>35 DEF PublishChanged, Publish
<1>36. ASSUME LoopEnable PROVE TypeOK'
  BY <1>36 DEF LoopEnable
<1>37. ASSUME LoopWaits PROVE TypeOK'
  BY <1>37 DEF LoopWaits
<1>38. ASSUME CloseExited PROVE TypeOK'
  <2>1. IsTopology(topology') /\ IsPaneMap(panes') /\ revision' \in Nat /\ shown' \in Nat
        /\ unwritten' \in [Clients -> BOOLEAN]
    <3> DEFINE e == Head(events)
    <3>1. IsTopology(WithoutPane(topology, e.id))
      BY TopologyEdits
    <3>2. CASE /\ topology' = WithoutPane(topology, e.id)
               /\ panes' = [j \in DOMAIN panes \ {e.id} |-> panes[j]]
               /\ Publish
      <4>1. IsPaneMap(panes')
        BY <3>2 DEF IsPaneMap
      <4> QED
        BY <3>1, <3>2, <4>1, PublishType
    <3>3. CASE UNCHANGED <<topology, panes, revision, shown, unwritten>>
      BY <3>3
    <3> QED
      BY <1>38, <3>2, <3>3 DEF CloseExited
  <2> QED
    BY <1>38, <2>1 DEF CloseExited
<1>39. ASSUME UNCHANGED vars PROVE TypeOK'
  BY <1>39
<1> QED
  BY <1>1, <1>2, <1>3, <1>4, <1>5, <1>6, <1>7, <1>8, <1>9, <1>10, <1>11, <1>12, <1>13, <1>14, <1>15, <1>16, <1>17, <1>18, <1>19, <1>20, <1>21, <1>22, <1>23, <1>24, <1>25, <1>26, <1>27, <1>28, <1>29, <1>30, <1>31, <1>32, <1>33, <1>34, <1>35, <1>36, <1>37, <1>38, <1>39
  DEF Next, Serve, Peer, Writer, Job, EventLoop

\* Types are right in every reachable state, and pane identities are always
\* below the counter next_pane that mints them.
THEOREM TypeCorrect == Spec => []TypeOK
<1>1. Init => TypeOK
  BY InitType
<1>2. TypeOK /\ [Next]_vars => TypeOK'
  BY NextType
<1> QED
  BY <1>1, <1>2, PTL DEF Spec

--------------------------------------------------------------------------------
(* The transaction invariant *)

\* A pending step depends only on the pane identities, the counter and the layout.
LEMMA PendingStable ==
  ASSUME NEW t, NEW added, Pending(t, added),
         panes' = panes, PaneIds' = PaneIds,
         topology'.next = topology.next, topology'.layout = topology.layout
  PROVE  Pending(t, added)'
BY DEF Pending, PaneIds

\* Steps that leave the reservation, what is prepared and the panes alone, and
\* at most move the owner's launch forward.
LEMMA QuietStep ==
  ASSUME IInv,
         panes' = panes, PaneIds' = PaneIds,
         topology'.next = topology.next, topology'.layout = topology.layout,
         reservation' = reservation, prepared' = prepared,
         \A c \in Clients : job'[c] = "launch" /\ reservation = c =>
            /\ job[c] = "launch"
            /\ next'[c] = next[c]
            /\ todo'[c] \cup DOMAIN staged'[c] = todo[c] \cup DOMAIN staged[c]
  PROVE  Protocol'
<1>1. PanesMatchTopology'
  BY DEF IInv, Protocol, PanesMatchTopology
<1>2. LaunchPending'
  <2> SUFFICES ASSUME NEW c \in Clients, job'[c] = "launch", reservation' = c
               PROVE  prepared' = {} /\ Pending(next[c], todo[c] \cup DOMAIN staged[c])'
    BY DEF LaunchPending
  <2>1. job[c] = "launch" /\ next'[c] = next[c]
        /\ todo'[c] \cup DOMAIN staged'[c] = todo[c] \cup DOMAIN staged[c]
    OBVIOUS
  <2>2. prepared = {} /\ Pending(next[c], todo[c] \cup DOMAIN staged[c])
    BY <2>1 DEF IInv, Protocol, LaunchPending
  <2> QED
    BY <2>1, <2>2 DEF Pending, PaneIds
<1>3. PreparedPending'
  <2> SUFFICES ASSUME NEW tx \in prepared'
               PROVE  reservation' # NoClient /\ Pending(tx.next, DOMAIN tx.added)'
    BY DEF PreparedPending
  <2>1. reservation # NoClient /\ Pending(tx.next, DOMAIN tx.added)
    BY DEF IInv, Protocol, PreparedPending
  <2> QED
    BY <2>1, PendingStable
<1> QED
  BY <1>1, <1>2, <1>3 DEF Protocol

\* Steps after which nobody holds the reservation and nothing is prepared.
LEMMA ReleasedStep ==
  ASSUME DOMAIN panes' = PaneIds', reservation' = NoClient, prepared' = {}
  PROVE  Protocol'
BY ServerAssumption DEF Protocol, PanesMatchTopology, LaunchPending, PreparedPending

\* Nothing is prepared unless somebody holds the reservation.
LEMMA UnreservedUnprepared ==
  ASSUME IInv, reservation = NoClient
  PROVE  prepared = {}
BY DEF IInv, Protocol, PreparedPending

\* What a command computes is a pending step.
LEMMA ExecutedPending ==
  ASSUME IInv, NEW m \in Commands, NEW dir \in Dirs, ~Rejects(PaneIds, m)
  PROVE  Pending(Executed(topology, m, dir),
                 DOMAIN Executed(topology, m, dir).cwd \ DOMAIN panes)
BY DEF Pending, Executed, PaneIds

\* The transaction invariant holds at first.
LEMMA InitProtocol == ASSUME Init PROVE Protocol
BY ServerAssumption
   DEF Init, Protocol, PanesMatchTopology, LaunchPending, PreparedPending, PaneIds, FreshTopology

\* Jobs start behaved, and every step keeps them so.
LEMMA InitJobs == ASSUME Init PROVE JobsBehaved
BY DEF Init, JobsBehaved, NoPanes

\* Every step keeps the jobs of the workers well behaved.
LEMMA NextJobs == ASSUME TypeOK, JobsBehaved, [Next]_vars PROVE JobsBehaved'
<1> USE DEF JobsBehaved, TypeOK, JobsOK, ConnectionsOK
<1>1. ASSUME NEW c \in Clients, EnableNotified(c) PROVE JobsBehaved'
  BY <1>1 DEF EnableNotified, Go
<1>2. ASSUME NEW c \in Clients, CheckReserved(c) PROVE JobsBehaved'
  BY <1>2 DEF CheckReserved, Go
<1>3. ASSUME NEW c \in Clients, Await(c) PROVE JobsBehaved'
  BY <1>3 DEF Await, Go
<1>4. ASSUME NEW c \in Clients, Notified(c) PROVE JobsBehaved'
  BY <1>4 DEF Notified, Go
<1>5. ASSUME NEW c \in Clients, SpawnPrepare(c) PROVE JobsBehaved'
  BY <1>5 DEF SpawnPrepare, Go
<1>6. ASSUME NEW c \in Clients, SpawnCommit(c) PROVE JobsBehaved'
  BY <1>6 DEF SpawnCommit, Go
<1>7. ASSUME NEW c \in Clients, SetLayout(c) PROVE JobsBehaved'
  BY <1>7 DEF SetLayout, Go
<1>8. ASSUME NEW c \in Clients, RespawnStart(c) PROVE JobsBehaved'
  BY <1>8 DEF RespawnStart, Go
<1>9. ASSUME NEW c \in Clients, RespawnCall(c) PROVE JobsBehaved'
  BY <1>9 DEF RespawnCall, Go
<1>10. ASSUME NEW c \in Clients, RespawnFinish(c) PROVE JobsBehaved'
  BY <1>10 DEF RespawnFinish, Go
<1>11. ASSUME NEW c \in Clients, ReaderEnds(c) PROVE JobsBehaved'
  BY <1>11 DEF ReaderEnds, Go
<1>12. ASSUME NEW c \in Clients, Cleanup(c) PROVE JobsBehaved'
  BY <1>12 DEF Cleanup, Go
<1>13. ASSUME NEW c \in Clients, Connect(c) PROVE JobsBehaved'
  BY <1>13 DEF Connect, Go
<1>14. ASSUME NEW c \in Clients, SendRequest(c) PROVE JobsBehaved'
  BY <1>14 DEF SendRequest, Go
<1>15. ASSUME NEW c \in Clients, SendCommit(c) PROVE JobsBehaved'
  BY <1>15 DEF SendCommit, Go
<1>16. ASSUME NEW c \in Clients, WriterFails(c) PROVE JobsBehaved'
  BY <1>16 DEF WriterFails, Go
<1>17. ASSUME NEW c \in Clients, PeerCloses(c) PROVE JobsBehaved'
  BY <1>17 DEF PeerCloses
<1>18. ASSUME NEW c \in Clients, SendAbort(c) PROVE JobsBehaved'
  BY <1>18 DEF SendAbort
<1>19. ASSUME NEW c \in Clients, WriterWrites(c) PROVE JobsBehaved'
  BY <1>19 DEF WriterWrites
<1>20. ASSUME NEW c \in Clients, Reserve(c) PROVE JobsBehaved'
  BY <1>20 DEF Reserve
<1>21. ASSUME NEW c \in Clients, ReadSource(c) PROVE JobsBehaved'
  <2>1. CASE JobReturns(c, "idle")
    BY <1>21, <2>1 DEF ReadSource, JobReturns, NoPanes
  <2>2. CASE UNCHANGED <<pc, todo, staged>>
             /\ \E l \in {"cwd", "reserve"} : job' = [job EXCEPT ![c] = l]
    BY <1>21, <2>2 DEF ReadSource
  <2> QED
    BY <1>21, <2>1, <2>2 DEF ReadSource
<1>22. ASSUME NEW c \in Clients, SourceAnswers(c) PROVE JobsBehaved'
  <2>1. CASE JobReturns(c, "idle")
    BY <1>22, <2>1 DEF SourceAnswers, JobReturns, NoPanes
  <2>2. CASE job' = [job EXCEPT ![c] = "reserve"] /\ UNCHANGED <<pc, todo, staged>>
    BY <1>22, <2>2 DEF SourceAnswers
  <2> QED
    BY <1>22, <2>1, <2>2 DEF SourceAnswers
<1>23. ASSUME NEW c \in Clients, PrepareStale(c) PROVE JobsBehaved'
  BY <1>23 DEF PrepareStale, JobReturns, NoPanes
<1>24. ASSUME NEW c \in Clients, PrepareRejected(c) PROVE JobsBehaved'
  BY <1>24 DEF PrepareRejected, JobReturns, NoPanes
<1>25. ASSUME NEW c \in Clients, LaunchFails(c) PROVE JobsBehaved'
  BY <1>25 DEF LaunchFails, JobReturns, NoPanes
<1>26. ASSUME NEW c \in Clients, Install(c) PROVE JobsBehaved'
  BY <1>26 DEF Install, JobReturns, NoPanes
<1>27. ASSUME NEW c \in Clients, InstallRefused(c) PROVE JobsBehaved'
  BY <1>27 DEF InstallRefused, JobReturns, NoPanes
<1>28. ASSUME NEW c \in Clients, Commit(c) PROVE JobsBehaved'
  BY <1>28 DEF Commit, JobReturns, NoPanes
<1>29. ASSUME NEW c \in Clients, CommitRefused(c) PROVE JobsBehaved'
  BY <1>29 DEF CommitRefused, JobReturns, NoPanes
<1>30. ASSUME NEW c \in Clients, Launch(c) PROVE JobsBehaved'
  BY <1>30 DEF Launch
<1>31. ASSUME UNCHANGED <<pc, job, todo, staged>> PROVE JobsBehaved'
  BY <1>31
<1> QED
  BY <1>1, <1>2, <1>3, <1>4, <1>5, <1>6, <1>7, <1>8, <1>9, <1>10, <1>11, <1>12, <1>13, <1>14, <1>15, <1>16, <1>17, <1>18, <1>19, <1>20, <1>21, <1>22, <1>23, <1>24, <1>25, <1>26, <1>27, <1>28, <1>29, <1>30, <1>31
  DEF Next, Serve, Peer, Writer, Job, EventLoop, PaneExits, SetTitle, AnnounceTitle,
      HandleChanged, PublishChanged, LoopEnable, LoopWaits, CloseExited

\* Every step keeps the transaction invariant.
LEMMA NextProtocol == ASSUME IInv, [Next]_vars PROVE Protocol'
<1> USE ServerAssumption DEF IInv
<1>1. ASSUME NEW c \in Clients, EnableNotified(c) PROVE Protocol'
  BY <1>1, QuietStep DEF EnableNotified, PaneIds, TypeOK, JobsOK
<1>2. ASSUME NEW c \in Clients, CheckReserved(c) PROVE Protocol'
  BY <1>2, QuietStep DEF CheckReserved, PaneIds, TypeOK, JobsOK
<1>3. ASSUME NEW c \in Clients, Await(c) PROVE Protocol'
  BY <1>3, QuietStep DEF Await, PaneIds, TypeOK, JobsOK
<1>4. ASSUME NEW c \in Clients, Notified(c) PROVE Protocol'
  BY <1>4, QuietStep DEF Notified, PaneIds, TypeOK, JobsOK
<1>5. ASSUME NEW c \in Clients, SpawnPrepare(c) PROVE Protocol'
  BY <1>5, QuietStep DEF SpawnPrepare, PaneIds, TypeOK, JobsOK
<1>6. ASSUME NEW c \in Clients, SpawnCommit(c) PROVE Protocol'
  BY <1>6, QuietStep DEF SpawnCommit, PaneIds, TypeOK, JobsOK
<1>7. ASSUME NEW c \in Clients, ReaderEnds(c) PROVE Protocol'
  BY <1>7, QuietStep DEF ReaderEnds, PaneIds, TypeOK, JobsOK
<1>8. ASSUME NEW c \in Clients, Connect(c) PROVE Protocol'
  BY <1>8, QuietStep DEF Connect, PaneIds, TypeOK, JobsOK
<1>9. ASSUME NEW c \in Clients, PeerCloses(c) PROVE Protocol'
  BY <1>9, QuietStep DEF PeerCloses, PaneIds, TypeOK, JobsOK
<1>10. ASSUME NEW c \in Clients, SendCommit(c) PROVE Protocol'
  BY <1>10, QuietStep DEF SendCommit, PaneIds, TypeOK, JobsOK
<1>11. ASSUME NEW c \in Clients, WriterWrites(c) PROVE Protocol'
  BY <1>11, QuietStep DEF WriterWrites, PaneIds, TypeOK, JobsOK
<1>12. ASSUME NEW c \in Clients, WriterFails(c) PROVE Protocol'
  BY <1>12, QuietStep DEF WriterFails, PaneIds, TypeOK, JobsOK
<1>13. ASSUME NEW c \in Clients, SendRequest(c) PROVE Protocol'
  BY <1>13, QuietStep DEF SendRequest, PaneIds, TypeOK, JobsOK
<1>14. ASSUME NEW c \in Clients, RespawnStart(c) PROVE Protocol'
  BY <1>14, QuietStep DEF RespawnStart, PaneIds, TypeOK, JobsOK
<1>15. ASSUME NEW c \in Clients, RespawnCall(c) PROVE Protocol'
  BY <1>15, QuietStep DEF RespawnCall, PaneIds, TypeOK, JobsOK
<1>16. ASSUME NEW c \in Clients, ReadSource(c) PROVE Protocol'
  BY <1>16, QuietStep DEF ReadSource, JobReturns, PaneIds, TypeOK, JobsOK
<1>17. ASSUME NEW c \in Clients, SourceAnswers(c) PROVE Protocol'
  BY <1>17, QuietStep DEF SourceAnswers, JobReturns, PaneIds, TypeOK, JobsOK
<1>18. ASSUME NEW c \in Clients, PrepareStale(c) PROVE Protocol'
  BY <1>18, QuietStep DEF PrepareStale, JobReturns, PaneIds, TypeOK, JobsOK
<1>19. ASSUME NEW c \in Clients, PrepareRejected(c) PROVE Protocol'
  BY <1>19, QuietStep DEF PrepareRejected, JobReturns, PaneIds, TypeOK, JobsOK
<1>20. ASSUME NEW c \in Clients, CommitRefused(c) PROVE Protocol'
  BY <1>20, QuietStep DEF CommitRefused, JobReturns, PaneIds, TypeOK, JobsOK
<1>21. ASSUME NEW c \in Clients, RespawnFinish(c) PROVE Protocol'
  <2>1. PaneIds' = PaneIds /\ topology'.next = topology.next
        /\ topology'.layout = topology.layout
    BY <1>21 DEF RespawnFinish, WithDir, PaneIds
  <2> QED
    BY <1>21, <2>1, QuietStep DEF RespawnFinish
<1>22. ASSUME NEW c \in Clients, SetLayout(c) PROVE Protocol'
  <2>1. DOMAIN panes' = PaneIds'
    BY <1>22 DEF SetLayout, WithLayout, PaneIds, Protocol, PanesMatchTopology
  <2> QED
    BY <1>22, <2>1, ReleasedStep, UnreservedUnprepared DEF SetLayout
<1>23. ASSUME NEW c \in Clients, SendAbort(c) PROVE Protocol'
  <2>1. CASE reservation = c
    BY <1>23, <2>1, ReleasedStep DEF SendAbort, Abort, PaneIds, Protocol, PanesMatchTopology
  <2>2. CASE reservation # c
    BY <1>23, <2>2, QuietStep DEF SendAbort, Abort, PaneIds
  <2> QED
    BY <2>1, <2>2
<1>24. ASSUME NEW c \in Clients, Cleanup(c) PROVE Protocol'
  <2>1. CASE reservation = c
    BY <1>24, <2>1, ReleasedStep DEF Cleanup, Abort, PaneIds, Protocol, PanesMatchTopology
  <2>2. CASE reservation # c
    BY <1>24, <2>2, QuietStep DEF Cleanup, Abort, PaneIds
  <2> QED
    BY <2>1, <2>2
<1>25. ASSUME NEW c \in Clients, LaunchFails(c) PROVE Protocol'
  <2>1. CASE reservation = c
    <3>1. prepared = {}
      BY <1>25, <2>1 DEF LaunchFails, Protocol, LaunchPending
    <3> QED
      BY <1>25, <2>1, <3>1, ReleasedStep
      DEF LaunchFails, DropStaged, PaneIds, Protocol, PanesMatchTopology
  <2>2. CASE reservation # c
    BY <1>25, <2>2, QuietStep DEF LaunchFails, DropStaged, JobReturns, PaneIds, TypeOK, JobsOK
  <2> QED
    BY <2>1, <2>2
<1>26. ASSUME NEW c \in Clients, InstallRefused(c) PROVE Protocol'
  <2>1. CASE reservation = c
    <3>1. prepared = {}
      BY <1>26, <2>1 DEF InstallRefused, Protocol, LaunchPending
    <3> QED
      BY <1>26, <2>1, <3>1, ReleasedStep
      DEF InstallRefused, DropStaged, PaneIds, Protocol, PanesMatchTopology
  <2>2. CASE reservation # c
    BY <1>26, <2>2, QuietStep DEF InstallRefused, DropStaged, JobReturns, PaneIds, TypeOK, JobsOK
  <2> QED
    BY <2>1, <2>2
<1>27. ASSUME NEW c \in Clients, Reserve(c) PROVE Protocol'
  <2>1. PICK dir \in Dirs :
          /\ next' = [next EXCEPT ![c] = Executed(topology, cmd[c], dir)]
          /\ todo' = [todo EXCEPT ![c] = DOMAIN Executed(topology, cmd[c], dir).cwd
                                          \ DOMAIN panes]
    BY <1>27 DEF Reserve
  <2> DEFINE t == Executed(topology, cmd[c], dir)
  <2>2. prepared = {} /\ prepared' = {}
    BY <1>27, UnreservedUnprepared DEF Reserve, StillCurrent
  <2>3. cmd[c] \in Commands /\ ~Rejects(PaneIds, cmd[c])
    BY <1>27 DEF Reserve, TypeOK, ConnectionsOK
  <2>4. Pending(t, DOMAIN t.cwd \ DOMAIN panes)
    BY <2>3, ExecutedPending
  <2>5. next'[c] = t /\ todo'[c] = DOMAIN t.cwd \ DOMAIN panes
    BY <2>1 DEF TypeOK, JobsOK
  <2>6. DOMAIN staged'[c] = {}
    BY <1>27 DEF Reserve, JobsBehaved
  <2>7. LaunchPending'
    <3> SUFFICES Pending(next[c], todo[c] \cup DOMAIN staged[c])'
      BY <1>27, <2>2 DEF Reserve, LaunchPending
    <3> QED
      BY <1>27, <2>4, <2>5, <2>6 DEF Reserve, Pending, PaneIds
  <2> QED
    BY <1>27, <2>2, <2>7 DEF Reserve, Protocol, PanesMatchTopology, PreparedPending, PaneIds
<1>28. ASSUME NEW c \in Clients, Launch(c) PROVE Protocol'
  <2>1. PICK i \in todo[c] :
          /\ \E g \in Generations :
               staged' = [staged EXCEPT ![c] = [j \in DOMAIN staged[c] \cup {i} |->
                                                  IF j = i THEN g ELSE staged[c][j]]]
          /\ todo' = [todo EXCEPT ![c] = todo[c] \ {i}]
    BY <1>28 DEF Launch
  <2>2. \A d \in Clients : todo'[d] \cup DOMAIN staged'[d] = todo[d] \cup DOMAIN staged[d]
    BY <2>1 DEF TypeOK, JobsOK
  <2> QED
    BY <1>28, <2>2, QuietStep DEF Launch, PaneIds
<1>29. ASSUME NEW c \in Clients, Install(c) PROVE Protocol'
  <2>1. Pending(next[c], DOMAIN staged[c])
    BY <1>29 DEF Install, Protocol, LaunchPending
  <2>3. PreparedPending'
    <3> SUFFICES ASSUME NEW tx \in prepared'
                 PROVE  reservation' # NoClient /\ Pending(tx.next, DOMAIN tx.added)'
      BY DEF PreparedPending
    <3>1. tx.next = next[c] /\ tx.added = staged[c]
      BY <1>29 DEF Install
    <3>2. Pending(tx.next, DOMAIN tx.added)
      BY <2>1, <3>1
    <3> QED
      BY <1>29, <3>2, PendingStable DEF Install, PaneIds
  <2>4. LaunchPending'
    BY <1>29 DEF Install, JobReturns, LaunchPending, TypeOK, JobsOK
  <2> QED
    BY <1>29, <2>3, <2>4 DEF Install, Protocol, PanesMatchTopology, PaneIds
<1>30. ASSUME NEW c \in Clients, Commit(c) PROVE Protocol'
  <2>1. PICK tx \in prepared :
          /\ panes' = [i \in (DOMAIN panes \cap DOMAIN tx.next.cwd) \cup DOMAIN tx.added |->
                         IF i \in DOMAIN tx.added THEN tx.added[i] ELSE panes[i]]
          /\ topology' = tx.next
    BY <1>30 DEF Commit
  <2>2. DOMAIN tx.added = DOMAIN tx.next.cwd \ DOMAIN panes
    BY DEF Protocol, PreparedPending, Pending
  <2>3. DOMAIN panes' = PaneIds'
    BY <2>1, <2>2 DEF PaneIds
  <2> QED
    BY <1>30, <2>3, ReleasedStep DEF Commit
<1>31. ASSUME NEW g \in Generations, PaneExits(g) PROVE Protocol'
  BY <1>31, QuietStep DEF PaneExits, PaneIds
<1>32. ASSUME SetTitle PROVE Protocol'
  BY <1>32, QuietStep DEF SetTitle, PaneIds
<1>33. ASSUME AnnounceTitle PROVE Protocol'
  BY <1>33, QuietStep DEF AnnounceTitle, PaneIds
<1>34. ASSUME HandleChanged PROVE Protocol'
  BY <1>34, QuietStep DEF HandleChanged, PaneIds
<1>35. ASSUME PublishChanged PROVE Protocol'
  BY <1>35, QuietStep DEF PublishChanged, PaneIds
<1>36. ASSUME LoopEnable PROVE Protocol'
  BY <1>36, QuietStep DEF LoopEnable, PaneIds
<1>37. ASSUME LoopWaits PROVE Protocol'
  BY <1>37, QuietStep DEF LoopWaits, PaneIds
<1>38. ASSUME CloseExited PROVE Protocol'
  <2>1. DOMAIN panes' = PaneIds'
    BY <1>38 DEF CloseExited, WithoutPane, PaneIds, Protocol, PanesMatchTopology
  <2> QED
    BY <1>38, <2>1, ReleasedStep, UnreservedUnprepared DEF CloseExited
<1>39. ASSUME UNCHANGED vars PROVE Protocol'
  BY <1>39, QuietStep DEF PaneIds
<1> QED
  BY <1>1, <1>2, <1>3, <1>4, <1>5, <1>6, <1>7, <1>8, <1>9, <1>10, <1>11, <1>12, <1>13, <1>14, <1>15, <1>16, <1>17, <1>18, <1>19, <1>20, <1>21, <1>22, <1>23, <1>24, <1>25, <1>26, <1>27, <1>28, <1>29, <1>30, <1>31, <1>32, <1>33, <1>34, <1>35, <1>36, <1>37, <1>38, <1>39
  DEF Next, Serve, Peer, Writer, Job, EventLoop

\* IInv is an invariant.
LEMMA Invariance == Spec => []IInv
<1>1. Init => IInv
  BY InitType, InitJobs, InitProtocol DEF IInv
<1>2. IInv /\ [Next]_vars => IInv'
  <2> SUFFICES ASSUME IInv, [Next]_vars PROVE IInv'
    OBVIOUS
  <2>1. TypeOK /\ JobsBehaved
    BY DEF IInv
  <2> QED
    BY <2>1, NextType, NextJobs, NextProtocol DEF IInv
<1> QED
  BY <1>1, <1>2, PTL DEF Spec

\* In every reachable state the pane workers of the workspace are exactly the
\* panes of its topology, whatever was prepared, aborted, respawned or exited
\* in between and however connections failed.
THEOREM PanesMatch == Spec => []PanesMatchTopology
<1>1. IInv => PanesMatchTopology
  BY DEF IInv, Protocol
<1> QED
  BY <1>1, Invariance, PTL

\* The steps that change the topology or the pane map.
LEMMA TopologySteps ==
  ASSUME [Next]_vars
  PROVE  \/ topology' = topology /\ panes' = panes
         \/ \E c \in Clients : RespawnFinish(c) \/ SetLayout(c) \/ Commit(c)
         \/ CloseExited
<1> DEFINE Quiet == topology' = topology /\ panes' = panes
<1>1. ASSUME NEW c \in Clients, Serve(c)
      PROVE  Quiet \/ RespawnFinish(c) \/ SetLayout(c)
  BY <1>1 DEF Serve, EnableNotified, CheckReserved, Await, Notified, SpawnPrepare,
     SpawnCommit, RespawnStart, RespawnCall, ReaderEnds, Cleanup, Abort
<1>2. ASSUME NEW c \in Clients, Peer(c) \/ Writer(c)
      PROVE  Quiet
  BY <1>2 DEF Peer, Writer, Connect, PeerCloses, SendRequest, SendCommit, SendAbort,
     Abort, WriterWrites, WriterFails
<1>3. ASSUME NEW c \in Clients, Job(c)
      PROVE  Quiet \/ Commit(c)
  BY <1>3 DEF Job, ReadSource, SourceAnswers, PrepareStale, PrepareRejected, Reserve,
     Launch, LaunchFails, Install, InstallRefused, CommitRefused
<1>4. ASSUME EventLoop
      PROVE  Quiet \/ CloseExited
  BY <1>4 DEF EventLoop, HandleChanged, PublishChanged, LoopEnable, LoopWaits
<1>5. ASSUME (\E g \in Generations : PaneExits(g)) \/ SetTitle \/ AnnounceTitle
      PROVE  Quiet
  BY <1>5 DEF PaneExits, SetTitle, AnnounceTitle
<1>6. CASE UNCHANGED vars
  BY <1>6
<1> QED
  BY <1>1, <1>2, <1>3, <1>4, <1>5, <1>6 DEF Next

\* While a client keeps the reservation, no step of anybody adds, removes or
\* replaces a pane, mints an identity or changes a layout.
THEOREM Frozen == Spec => ReservationFreezesPanes
<1>1. ASSUME [Next]_vars
      PROVE  [reservation # NoClient /\ reservation' = reservation =>
                /\ panes' = panes
                /\ PaneIds' = PaneIds
                /\ topology'.next = topology.next
                /\ topology'.layout = topology.layout]_vars
  <2> SUFFICES ASSUME reservation # NoClient, reservation' = reservation
               PROVE  /\ panes' = panes
                      /\ PaneIds' = PaneIds
                      /\ topology'.next = topology.next
                      /\ topology'.layout = topology.layout
    OBVIOUS
  <2>1. CASE topology' = topology /\ panes' = panes
    BY <2>1 DEF PaneIds
  <2>2. CASE \E c \in Clients : RespawnFinish(c)
    BY <2>2 DEF RespawnFinish, WithDir, PaneIds
  <2>3. CASE \E c \in Clients : SetLayout(c) \/ Commit(c)
    BY <2>3, ServerAssumption DEF SetLayout, Commit
  <2>4. CASE CloseExited
    BY <2>4 DEF CloseExited
  <2> QED
    BY <1>1, <2>1, <2>2, <2>3, <2>4, TopologySteps
<1> QED
  BY <1>1, PTL DEF Spec, ReservationFreezesPanes

\* Whoever changes the topology publishes it under a larger revision.
THEOREM ChangesPublished == Spec => EveryChangePublished
<1>1. ASSUME IInv, [Next]_vars
      PROVE  [topology' # topology => revision' > revision]_vars
  <2>1. Publish => revision' > revision
    BY <1>1 DEF IInv, TypeOK, WorkspaceOK, Publish
  <2>2. CASE \E c \in Clients : RespawnFinish(c) \/ SetLayout(c) \/ Commit(c)
    BY <2>1, <2>2 DEF RespawnFinish, SetLayout, Commit
  <2>3. CASE CloseExited
    BY <2>1, <2>3 DEF CloseExited
  <2> QED
    BY <1>1, <2>2, <2>3, TopologySteps
<1> QED
  BY <1>1, Invariance, PTL DEF Spec, EveryChangePublished

\* The server implements the store: seen through its pane identities, their
\* counter and the layout, every step of the protocol is one whole command, one
\* layout, one closed pane, or nothing.
THEOREM Refinement == Spec => ImplementsStore
<1>1. Init => Store!Init
  BY Defaults DEF Init, Store!Init, FreshTopology, PaneIds
<1>2. ASSUME IInv, [Next]_vars
      PROVE  [Store!Next]_<<PaneIds, topology.next, topology.layout>>
  <2>1. CASE topology' = topology
    BY <2>1 DEF PaneIds
  <2>2. CASE \E c \in Clients : RespawnFinish(c)
    BY <2>2 DEF RespawnFinish, WithDir, PaneIds
  <2>3. CASE \E c \in Clients : SetLayout(c)
    <3>1. \/ topology' = topology
          \/ \E l \in Layouts : topology' = WithLayout(topology, l)
      BY <2>3 DEF SetLayout
    <3> QED
      BY <2>1, <3>1 DEF WithLayout, PaneIds, Store!Next, Store!SetLayout
  <2>4. CASE \E c \in Clients : Commit(c)
    <3>1. PICK tx \in prepared : topology' = tx.next
      BY <2>4 DEF Commit
    <3>2. PICK m \in Commands :
            /\ ~Rejects(PaneIds, m)
            /\ DOMAIN tx.next.cwd = KeptIds(PaneIds, m) \cup NewIds(topology.next, m)
            /\ tx.next.next = topology.next + m.n
      BY <1>2 DEF IInv, Protocol, PreparedPending, Pending
    <3>3. tx.next.layout = topology.layout
      BY <1>2 DEF IInv, Protocol, PreparedPending, Pending
    <3>4. Store!Apply(m)
      BY <3>1, <3>2, <3>3 DEF Store!Apply, PaneIds, Store!Rejects, Store!KeptIds,
         Store!NewIds, Rejects, KeptIds, NewIds
    <3> QED
      BY <3>4 DEF Store!Next
  <2>5. CASE CloseExited
    <3>1. CASE UNCHANGED topology
      BY <2>1, <3>1
    <3>2. CASE \E i \in PaneIds : topology' = WithoutPane(topology, i)
      <4>1. PICK i \in PaneIds : topology' = WithoutPane(topology, i)
        BY <3>2
      <4>2. Store!Close(i)
        BY <4>1 DEF WithoutPane, PaneIds, Store!Close
      <4> QED
        BY <4>2 DEF Store!Next
    <3> QED
      BY <2>5, <3>1, <3>2 DEF CloseExited
  <2> QED
    BY <1>2, <2>1, <2>2, <2>3, <2>4, <2>5, TopologySteps
<1> QED
  BY <1>1, <1>2, Invariance, PTL DEF Spec, ImplementsStore, Store!Spec

--------------------------------------------------------------------------------
(* Pane processes *)

\* An exited worker stays exited: stop() cannot revive or rename it.
LEMMA ExitedStays ==
  ASSUME TypeOK, [Next]_vars, NEW g \in Generations, procs[g] = "exited"
  PROVE  procs'[g] = "exited"
<1> USE DEF TypeOK, WorkspaceOK
<1>1. ASSUME NEW c \in Clients, Serve(c) PROVE procs'[g] = "exited"
  BY <1>1 DEF Serve, EnableNotified, CheckReserved, Await, Notified, SpawnPrepare,
     SpawnCommit, SetLayout, RespawnStart, RespawnCall, RespawnFinish, ReaderEnds,
     Cleanup, Abort, Stopped
<1>2. ASSUME NEW c \in Clients, Peer(c) \/ Writer(c) PROVE procs'[g] = "exited"
  BY <1>2 DEF Peer, Writer, Connect, PeerCloses, SendRequest, SendCommit, SendAbort,
     Abort, Stopped, WriterWrites, WriterFails
<1>3. ASSUME NEW c \in Clients, Job(c) PROVE procs'[g] = "exited"
  BY <1>3 DEF Job, ReadSource, SourceAnswers, PrepareStale, PrepareRejected, Reserve,
     Launch, LaunchFails, Install, InstallRefused, Commit, CommitRefused, DropStaged, Stopped
<1>4. ASSUME EventLoop PROVE procs'[g] = "exited"
  BY <1>4 DEF EventLoop, HandleChanged, PublishChanged, LoopEnable, LoopWaits, CloseExited
<1>5. ASSUME (\E h \in Generations : PaneExits(h)) \/ SetTitle \/ AnnounceTitle
      PROVE  procs'[g] = "exited"
  BY <1>5 DEF PaneExits, SetTitle, AnnounceTitle
<1>6. CASE UNCHANGED vars
  BY <1>6
<1> QED
  BY <1>1, <1>2, <1>3, <1>4, <1>5, <1>6 DEF Next

\* What appending and removing do to the events of the channel.
LEMMA ChannelContent ==
  ASSUME EventsOK
  PROVE  /\ events # << >> => \A k \in 1 .. Len(Tail(events)) :
              k + 1 \in 1 .. Len(events) /\ Tail(events)[k] = events[k + 1]
         /\ events # << >> => Head(events) = events[1] /\ 1 \in 1 .. Len(events)
         /\ \A e \in Event : \A k \in 1 .. Len(Append(events, e)) :
              \/ k \in 1 .. Len(events) /\ Append(events, e)[k] = events[k]
              \/ Append(events, e)[k] = e
         /\ \A e \in Event : events # << >> => Append(events, e)[1] = events[1]
BY DEF EventsOK

\* Every step keeps ExitsHaveEnded.
LEMMA NextExits ==
  ASSUME TypeOK, ExitsHaveEnded, [Next]_vars
  PROVE  ExitsHaveEnded'
<1> DEFINE Ended(e) == e.type = "exited" => e.gen \in Generations /\ procs'[e.gen] = "exited"
<1>0. \A k \in 1 .. Len(events) : Ended(events[k])
  BY ExitedStays DEF ExitsHaveEnded
<1>01. EventsOK
  BY DEF TypeOK
<1>1. CASE events' = events /\ loop' = loop
  BY <1>0, <1>1 DEF ExitsHaveEnded
<1>2. CASE NotifyChanged /\ loop' = loop
  <2> DEFINE e == [type |-> "changed", id |-> 0, gen |-> 0]
  <2>1. e \in Event
    BY DEF Event
  <2>2. CASE events' = events
    BY <1>1, <1>2, <2>2
  <2>3. CASE events' = Append(events, e)
    <3>1. \A k \in 1 .. Len(events') : Ended(events'[k])
      BY <1>0, <1>01, <2>1, <2>3, ChannelContent
    <3>2. loop \in {"check", "wait"} => events'[1].type = "exited"
      BY <1>01, <2>1, <2>3, ChannelContent DEF ExitsHaveEnded, EventsOK
    <3> QED
      BY <1>2, <3>1, <3>2 DEF ExitsHaveEnded
  <2> QED
    BY <1>2, <2>2, <2>3 DEF NotifyChanged
<1>3. ASSUME NEW g \in Generations, PaneExits(g) PROVE ExitsHaveEnded'
  <2> DEFINE e == [type |-> "exited", id |-> name[g], gen |-> g]
  <2>1. e \in Event
    BY DEF Event, TypeOK, WorkspaceOK
  <2>2. events' = Append(events, e) /\ loop' = loop
    BY <1>3 DEF PaneExits
  <2>3. Ended(e)
    BY <1>3 DEF PaneExits, TypeOK, WorkspaceOK
  <2>4. \A k \in 1 .. Len(events') : Ended(events'[k])
    BY <1>0, <1>01, <2>1, <2>2, <2>3, ChannelContent
  <2>5. loop \in {"check", "wait"} => events'[1].type = "exited"
    BY <1>01, <2>1, <2>2, ChannelContent DEF ExitsHaveEnded, EventsOK
  <2> QED
    BY <2>2, <2>4, <2>5 DEF ExitsHaveEnded
<1>4. CASE events # << >> /\ events' = Tail(events) /\ loop' \in {"recv", "publish"}
  <2>1. \A k \in 1 .. Len(events') : Ended(events'[k])
    BY <1>0, <1>01, <1>4, ChannelContent
  <2> QED
    BY <1>4, <2>1 DEF ExitsHaveEnded
<1>5. CASE events' = events /\ (loop' \in {"check", "wait"} => events[1].type = "exited")
  BY <1>0, <1>5 DEF ExitsHaveEnded
<1>6. ASSUME NEW c \in Clients, Serve(c) \/ Peer(c) \/ Writer(c) \/ Job(c)
      PROVE  ExitsHaveEnded'
  <2>1. (events' = events \/ NotifyChanged) /\ loop' = loop
    BY <1>6 DEF Serve, Peer, Writer, Job, EnableNotified, CheckReserved, Await, Notified,
       SpawnPrepare, SpawnCommit, SetLayout, RespawnStart, RespawnCall, RespawnFinish,
       ReaderEnds, Cleanup, Connect, PeerCloses, SendRequest, SendCommit, SendAbort,
       WriterWrites, WriterFails, ReadSource, SourceAnswers, PrepareStale, PrepareRejected,
       Reserve, Launch, LaunchFails, Install, InstallRefused, Commit, CommitRefused
  <2> QED
    BY <1>1, <1>2, <2>1
<1>7. CASE SetTitle \/ AnnounceTitle
  BY <1>1, <1>2, <1>7 DEF SetTitle, AnnounceTitle
<1>8. CASE HandleChanged \/ CloseExited
  BY <1>4, <1>8 DEF HandleChanged, CloseExited, TypeOK, EventsOK
<1>9. CASE PublishChanged
  BY <1>5, <1>9 DEF PublishChanged
<1>10. CASE LoopEnable
  <2>1. events[1].type = "exited"
    BY <1>01, <1>10, ChannelContent DEF LoopEnable, ExitsHaveEnded
  <2> QED
    BY <1>5, <1>10, <2>1 DEF LoopEnable
<1>11. CASE LoopWaits
  BY <1>5, <1>11 DEF LoopWaits, ExitsHaveEnded
<1>12. CASE UNCHANGED vars
  BY <1>1, <1>12
<1> QED
  BY <1>3, <1>6, <1>7, <1>8, <1>9, <1>10, <1>11, <1>12 DEF Next, EventLoop

\* The pane that pane_exited closes had a process that has ended.
LEMMA ClosedHasEnded ==
  ASSUME TypeOK, ExitsHaveEnded, CloseExited
  PROVE  /\ UNCHANGED procs
         /\ \A i \in DOMAIN panes : panes[i] \in Generations /\ procs[panes[i]] = "running"
              => i \in DOMAIN panes' /\ panes'[i] = panes[i]
<1> SUFFICES ASSUME NEW i \in DOMAIN panes, procs[panes[i]] = "running"
             PROVE  i \in DOMAIN panes' /\ panes'[i] = panes[i]
  BY DEF CloseExited
<1> DEFINE e == Head(events)
<1>1. procs[e.gen] = "exited"
  BY ChannelContent DEF CloseExited, TypeOK, EventsOK, ExitsHaveEnded
<1>2. i = e.id => panes[i] # e.gen
  BY <1>1
<1> QED
  BY <1>2 DEF CloseExited

\* Steps that start no process and drop no owner keep every process owned.
LEMMA KeepOwners ==
  ASSUME NoLeakedProcess,
         \A g \in Generations : procs'[g] = "running" => procs[g] = "running",
         \A g \in Generations : procs'[g] = "running" =>
            /\ InPanes(g) => InPanes(g)'
            /\ InPrepared(g) => InPrepared(g)' \/ InPanes(g)'
            /\ InStaged(g) => InStaged(g)' \/ InPrepared(g)'
  PROVE  NoLeakedProcess'
BY DEF NoLeakedProcess

\* Every step keeps every running process owned.
LEMMA NextLeak ==
  ASSUME IInv, ExitsHaveEnded, NoLeakedProcess, [Next]_vars
  PROVE  NoLeakedProcess'
<1> USE DEF InPanes, InPrepared, InStaged
<1>0. TypeOK /\ JobsBehaved /\ Protocol
  BY DEF IInv
<1>1. CASE UNCHANGED <<procs, panes, prepared, staged>>
  BY <1>1, KeepOwners
<1>2. ASSUME NEW c \in Clients, Serve(c) \/ Peer(c) \/ Writer(c)
      PROVE  NoLeakedProcess'
  <2>1. CASE UNCHANGED <<panes, prepared, staged, procs>>
    BY <1>1, <2>1
  <2>2. CASE Abort(c) /\ UNCHANGED staged
    BY <1>0, <2>2, KeepOwners DEF Abort, Stopped, Range, TypeOK, WorkspaceOK
  <2> QED
    BY <1>2, <2>1, <2>2 DEF Serve, Peer, Writer, EnableNotified, CheckReserved, Await, Notified,
       SpawnPrepare, SpawnCommit, SetLayout, RespawnStart, RespawnCall, RespawnFinish,
       ReaderEnds, Cleanup, Connect, PeerCloses, SendRequest, SendCommit, SendAbort,
       WriterWrites, WriterFails
<1>3. ASSUME NEW c \in Clients,
             ReadSource(c) \/ SourceAnswers(c) \/ PrepareStale(c) \/ PrepareRejected(c)
             \/ Reserve(c) \/ CommitRefused(c)
      PROVE  NoLeakedProcess'
  <2>1. job[c] # "launch" /\ UNCHANGED <<panes, prepared, procs>>
    BY <1>3 DEF ReadSource, SourceAnswers, PrepareStale, PrepareRejected, Reserve, CommitRefused
  <2>2. staged' = staged \/ staged' = [staged EXCEPT ![c] = NoPanes]
    BY <1>3 DEF ReadSource, SourceAnswers, PrepareStale, PrepareRejected, Reserve,
       CommitRefused, JobReturns
  <2>3. \A d \in Clients : DOMAIN staged[d] # {} => staged'[d] = staged[d]
    BY <1>0, <2>1, <2>2 DEF JobsBehaved, TypeOK, JobsOK
  <2> QED
    BY <2>1, <2>3, KeepOwners
<1>4. ASSUME NEW c \in Clients, Launch(c) PROVE NoLeakedProcess'
  <2>1. PICK i \in todo[c], g \in Generations :
          /\ procs' = [procs EXCEPT ![g] = "running"]
          /\ staged' = [staged EXCEPT ![c] = [j \in DOMAIN staged[c] \cup {i} |->
                                                IF j = i THEN g ELSE staged[c][j]]]
    BY <1>4 DEF Launch
  <2>2. i \notin DOMAIN staged[c]
    BY <1>0 DEF JobsBehaved
  <2>3. InStaged(g)'
    BY <1>0, <2>1 DEF TypeOK, JobsOK
  <2>4. \A h : InStaged(h) => InStaged(h)'
    BY <1>0, <2>1, <2>2 DEF TypeOK, JobsOK
  <2>5. \A h \in Generations : h # g => procs'[h] = procs[h]
    BY <1>0, <2>1 DEF TypeOK, WorkspaceOK
  <2>7. UNCHANGED <<panes, prepared>>
    BY <1>4 DEF Launch
  <2> QED
    BY <2>3, <2>4, <2>5, <2>7 DEF NoLeakedProcess
<1>5. ASSUME NEW c \in Clients, LaunchFails(c) \/ InstallRefused(c) PROVE NoLeakedProcess'
  <2>1. /\ procs' = Stopped(Range(staged[c]))
        /\ staged' = [staged EXCEPT ![c] = NoPanes]
        /\ UNCHANGED <<panes, prepared>>
    BY <1>5 DEF LaunchFails, InstallRefused, DropStaged, JobReturns
  <2>2. \A g \in Generations : procs'[g] = "running" =>
          procs[g] = "running" /\ \A i \in DOMAIN staged[c] : staged[c][i] # g
    BY <1>0, <2>1 DEF Stopped, Range, TypeOK, WorkspaceOK
  <2>3. \A d \in Clients : d # c => staged'[d] = staged[d]
    BY <1>0, <2>1 DEF TypeOK, JobsOK
  <2> QED
    BY <2>1, <2>2, <2>3, KeepOwners
<1>6. ASSUME NEW c \in Clients, Install(c) PROVE NoLeakedProcess'
  <2>1. prepared = {}
    BY <1>0, <1>6 DEF Install, Protocol, LaunchPending
  <2>2. /\ prepared' = {[next |-> next[c], added |-> staged[c]]}
        /\ staged' = [staged EXCEPT ![c] = NoPanes]
        /\ UNCHANGED <<panes, procs>>
    BY <1>6 DEF Install, JobReturns
  <2>3. \A g : InStaged(g) => InStaged(g)' \/ InPrepared(g)'
    BY <1>0, <2>2 DEF TypeOK, JobsOK
  <2> QED
    BY <2>1, <2>2, <2>3, KeepOwners
<1>7. ASSUME NEW c \in Clients, Commit(c) PROVE NoLeakedProcess'
  <2>1. PICK tx \in prepared :
          /\ procs' = Stopped({panes[i] : i \in DOMAIN panes \ DOMAIN tx.next.cwd})
          /\ panes' = [i \in (DOMAIN panes \cap DOMAIN tx.next.cwd) \cup DOMAIN tx.added |->
                         IF i \in DOMAIN tx.added THEN tx.added[i] ELSE panes[i]]
    BY <1>7 DEF Commit
  <2>2. prepared = {tx} /\ DOMAIN tx.added = DOMAIN tx.next.cwd \ DOMAIN panes
    BY <1>0 DEF TypeOK, WorkspaceOK, Protocol, PreparedPending, Pending
  <2>3. \A g \in Generations : procs'[g] = "running" => procs[g] = "running"
    BY <1>0, <2>1 DEF Stopped, TypeOK, WorkspaceOK
  <2>4. \A g \in Generations : procs'[g] = "running" /\ InPanes(g) => InPanes(g)'
    BY <1>0, <2>1, <2>2 DEF Stopped, TypeOK, WorkspaceOK
  <2>5. \A g : InPrepared(g) => InPanes(g)'
    BY <2>1, <2>2
  <2>6. staged' = [staged EXCEPT ![c] = NoPanes] /\ job[c] # "launch"
    BY <1>7 DEF Commit, JobReturns
  <2>7. \A g : InStaged(g) => InStaged(g)'
    BY <1>0, <2>6 DEF JobsBehaved, TypeOK, JobsOK
  <2> QED
    BY <2>3, <2>4, <2>5, <2>7, KeepOwners
<1>8. ASSUME NEW g \in Generations, PaneExits(g) PROVE NoLeakedProcess'
  BY <1>0, <1>8, KeepOwners DEF PaneExits, TypeOK, WorkspaceOK
<1>9. CASE CloseExited
  <2>1. \A g \in Generations : procs[g] = "running" /\ InPanes(g) => InPanes(g)'
    BY <1>0, <1>9, ClosedHasEnded DEF TypeOK, WorkspaceOK, IsPaneMap
  <2> QED
    BY <1>9, <2>1, KeepOwners DEF CloseExited
<1>10. CASE SetTitle \/ AnnounceTitle \/ HandleChanged \/ PublishChanged \/ LoopEnable
            \/ LoopWaits \/ UNCHANGED vars
  BY <1>1, <1>10 DEF SetTitle, AnnounceTitle, HandleChanged, PublishChanged, LoopEnable, LoopWaits
<1> QED
  BY <1>2, <1>3, <1>4, <1>5, <1>6, <1>7, <1>8, <1>9, <1>10 DEF Next, Job, EventLoop

\* The invariant behind the theorems about processes.
ProcessInv == IInv /\ ExitsHaveEnded /\ NoLeakedProcess

\* prepare, commit, abort and pane_exited keep it.
LEMMA ProcessInvariance == Spec => []ProcessInv
<1>1. Init => ProcessInv
  <2> SUFFICES ASSUME Init PROVE ProcessInv
    OBVIOUS
  <2>1. IInv
    BY InitType, InitJobs, InitProtocol DEF IInv
  <2>2. ExitsHaveEnded
    BY DEF Init, ExitsHaveEnded
  <2>3. NoLeakedProcess
    <3> SUFFICES ASSUME NEW g \in Generations, procs[g] = "running" PROVE InPanes(g)
      BY DEF NoLeakedProcess
    <3>1. g \in 1 .. Started
      BY DEF Init
    <3> QED
      BY <3>1 DEF Init, InPanes
  <2> QED
    BY <2>1, <2>2, <2>3 DEF ProcessInv
<1>2. ProcessInv /\ [Next]_vars => ProcessInv'
  <2> SUFFICES ASSUME ProcessInv, [Next]_vars PROVE ProcessInv'
    OBVIOUS
  <2>1. IInv /\ TypeOK /\ JobsBehaved /\ ExitsHaveEnded /\ NoLeakedProcess
    BY DEF ProcessInv, IInv
  <2> QED
    BY <2>1, NextType, NextJobs, NextProtocol, NextExits, NextLeak DEF ProcessInv, IInv
<1> QED
  BY <1>1, <1>2, PTL DEF Spec

\* No pane process is ever lost: whoever is running is in the workspace, in the
\* prepared transaction or in a launch, and so will be stopped or will serve.
THEOREM NoProcessLeaks == Spec => []NoLeakedProcess
<1>1. ProcessInv => NoLeakedProcess
  BY DEF ProcessInv
<1> QED
  BY <1>1, ProcessInvariance, PTL

\* A pane leaves the workspace only with its own process ended or stopped, even
\* when its identity was used before by a launch that was aborted.
THEOREM RemovalStops == Spec => RemovedPanesStopped
<1>1. ASSUME ProcessInv, [Next]_vars
      PROVE  [\A i \in DOMAIN panes :
                (i \notin DOMAIN panes' \/ panes'[i] # panes[i])
                  => procs'[panes[i]] # "running"]_vars
  <2> SUFFICES ASSUME NEW i \in DOMAIN panes, i \notin DOMAIN panes' \/ panes'[i] # panes[i]
               PROVE  procs'[panes[i]] # "running"
    OBVIOUS
  <2>1. panes[i] \in Generations /\ TypeOK /\ ExitsHaveEnded
    BY <1>1 DEF ProcessInv, IInv, TypeOK, WorkspaceOK, IsPaneMap
  <2>2. CASE CloseExited
    BY <2>1, <2>2, ClosedHasEnded
  <2>3. CASE \E c \in Clients : Commit(c)
    <3>1. PICK tx \in prepared :
            /\ procs' = Stopped({panes[j] : j \in DOMAIN panes \ DOMAIN tx.next.cwd})
            /\ panes' = [j \in (DOMAIN panes \cap DOMAIN tx.next.cwd) \cup DOMAIN tx.added |->
                           IF j \in DOMAIN tx.added THEN tx.added[j] ELSE panes[j]]
      BY <2>3 DEF Commit
    <3>2. DOMAIN tx.added = DOMAIN tx.next.cwd \ DOMAIN panes
      BY <1>1 DEF ProcessInv, IInv, Protocol, PreparedPending, Pending
    <3>3. i \notin DOMAIN tx.next.cwd
      BY <3>1, <3>2
    <3> QED
      BY <2>1, <3>1, <3>3 DEF Stopped, TypeOK, WorkspaceOK
  <2>4. CASE \E c \in Clients : RespawnFinish(c) \/ SetLayout(c)
    BY <2>4 DEF RespawnFinish, SetLayout
  <2> QED
    BY <1>1, <2>2, <2>3, <2>4, TopologySteps
<1> QED
  BY <1>1, ProcessInvariance, PTL DEF Spec, RemovedPanesStopped

--------------------------------------------------------------------------------
(* Sequences *)

\* What RemoveAt leaves, position by position.
LEMMA Removal ==
  ASSUME NEW S, NEW s \in Seq(S), NEW i \in 1 .. Len(s)
  PROVE  /\ RemoveAt(s, i) \in Seq(S)
         /\ Len(RemoveAt(s, i)) = Len(s) - 1
         /\ DOMAIN RemoveAt(s, i) = 1 .. Len(s) - 1
         /\ \A j \in 1 .. Len(s) - 1 : RemoveAt(s, i)[j] = s[IF j < i THEN j ELSE j + 1]
<1> DEFINE a == SubSeq(s, 1, i - 1)
           b == SubSeq(s, i + 1, Len(s))
<1>0. Len(s) \in Nat
  BY LenProperties
<1>1. /\ a \in Seq(S) /\ Len(a) = i - 1
      /\ \A j \in 1 .. i - 1 : a[j] = s[j]
  <2>1. \A j \in 1 .. i - 1 : s[j] \in S
    BY <1>0, ElementOfSeq
  <2> QED
    BY <1>0, <2>1, SubSeqProperties
<1>2. /\ b \in Seq(S) /\ Len(b) = Len(s) - i
      /\ \A j \in 1 .. Len(s) - i : b[j] = s[i + j]
  <2>1. \A j \in i + 1 .. Len(s) : s[j] \in S
    BY <1>0, ElementOfSeq
  <2>2. /\ b \in Seq(S)
        /\ Len(b) = IF i + 1 <= Len(s) THEN Len(s) - (i + 1) + 1 ELSE 0
        /\ \A j \in 1 .. Len(s) - (i + 1) + 1 : b[j] = s[i + 1 + j - 1]
    BY <1>0, <2>1, SubSeqProperties
  <2>3. \A j \in 1 .. Len(s) - i : j \in 1 .. Len(s) - (i + 1) + 1 /\ i + 1 + j - 1 = i + j
    BY <1>0
  <2> QED
    BY <1>0, <2>2, <2>3
<1>3. /\ a \o b \in Seq(S) /\ Len(a \o b) = Len(a) + Len(b)
      /\ \A j \in 1 .. Len(a) + Len(b) : (a \o b)[j] = IF j <= Len(a) THEN a[j] ELSE b[j - Len(a)]
  BY <1>1, <1>2, ConcatProperties
<1>4. RemoveAt(s, i) = a \o b
  BY DEF RemoveAt
<1> HIDE DEF a, b
<1>5. Len(a \o b) = Len(s) - 1
  BY <1>0, <1>1, <1>2, <1>3
<1>6. ASSUME NEW j \in 1 .. Len(s) - 1
      PROVE  (a \o b)[j] = s[IF j < i THEN j ELSE j + 1]
  <2>1. CASE j < i
    BY <1>0, <1>1, <1>2, <1>3, <2>1
  <2>2. CASE ~(j < i)
    <3>1. j - Len(a) \in 1 .. Len(s) - i /\ i + (j - Len(a)) = j + 1
      BY <1>0, <1>1, <2>2
    <3>2. (a \o b)[j] = b[j - Len(a)]
      BY <1>0, <1>1, <1>2, <1>3, <2>2
    <3>3. b[j - Len(a)] = s[i + (j - Len(a))]
      BY <1>2, <3>1
    <3> QED
      BY <2>2, <3>1, <3>2, <3>3
  <2> QED
    BY <2>1, <2>2
<1>7. DOMAIN (a \o b) = 1 .. Len(s) - 1
  BY <1>3, <1>5, LenProperties
<1> QED
  BY <1>3, <1>4, <1>5, <1>6, <1>7

\* What InsertAt makes, position by position.
LEMMA Insertion ==
  ASSUME NEW S, NEW s \in Seq(S), NEW i \in 1 .. Len(s) + 1, NEW e \in S
  PROVE  /\ InsertAt(s, i, e) \in Seq(S)
         /\ Len(InsertAt(s, i, e)) = Len(s) + 1
         /\ DOMAIN InsertAt(s, i, e) = 1 .. Len(s) + 1
         /\ \A j \in 1 .. Len(s) + 1 :
              InsertAt(s, i, e)[j] = IF j = i THEN e ELSE s[IF j < i THEN j ELSE j - 1]
<1> DEFINE a == SubSeq(s, 1, i - 1)
           b == SubSeq(s, i, Len(s))
           one == <<e>>
           c == a \o one
<1>0. Len(s) \in Nat
  BY LenProperties
<1>1. /\ a \in Seq(S) /\ Len(a) = i - 1
      /\ \A j \in 1 .. i - 1 : a[j] = s[j]
  <2>1. \A j \in 1 .. i - 1 : s[j] \in S
    BY <1>0, ElementOfSeq
  <2> QED
    BY <1>0, <2>1, SubSeqProperties
<1>2. /\ b \in Seq(S) /\ Len(b) = Len(s) - i + 1
      /\ \A j \in 1 .. Len(s) - i + 1 : b[j] = s[i + j - 1]
  <2>1. \A j \in i .. Len(s) : s[j] \in S
    BY <1>0, ElementOfSeq
  <2> QED
    BY <1>0, <2>1, SubSeqProperties
<1>3. one \in Seq(S) /\ Len(one) = 1 /\ one[1] = e
  OBVIOUS
<1> HIDE DEF a, b, one
<1>4. /\ c \in Seq(S) /\ Len(c) = i
      /\ \A j \in 1 .. i : c[j] = IF j < i THEN a[j] ELSE e
  <2>1. /\ c \in Seq(S) /\ Len(c) = Len(a) + 1
        /\ \A j \in 1 .. Len(a) + 1 : c[j] = IF j <= Len(a) THEN a[j] ELSE one[j - Len(a)]
    <3>1. a \in Seq(S) /\ one \in Seq(S)
      BY <1>1, <1>3
    <3>2. /\ c \in Seq(S) /\ Len(c) = Len(a) + Len(one)
          /\ \A j \in 1 .. Len(a) + Len(one) :
               c[j] = IF j <= Len(a) THEN a[j] ELSE one[j - Len(a)]
      BY <3>1, ConcatProperties
    <3> HIDE DEF c
    <3> QED
      BY <1>3, <3>2
  <2> HIDE DEF c
  <2>2. i \in Nat /\ Len(a) + 1 = i
    BY <1>0, <1>1
  <2>3. ASSUME NEW j \in 1 .. i
        PROVE  c[j] = IF j < i THEN a[j] ELSE e
    <3>1. c[j] = IF j <= Len(a) THEN a[j] ELSE one[j - Len(a)]
      BY <2>1, <2>2
    <3>2. (j <= Len(a) <=> j < i) /\ (~(j < i) => j - Len(a) = 1)
      BY <1>1, <2>2
    <3> QED
      BY <1>3, <3>1, <3>2
  <2> QED
    BY <2>1, <2>2, <2>3
<1> HIDE DEF c
<1>5. /\ c \o b \in Seq(S) /\ Len(c \o b) = Len(c) + Len(b)
      /\ \A j \in 1 .. Len(c) + Len(b) : (c \o b)[j] = IF j <= Len(c) THEN c[j] ELSE b[j - Len(c)]
  <2>1. c \in Seq(S) /\ b \in Seq(S)
    BY <1>2, <1>4
  <2> QED
    BY <2>1, ConcatProperties
<1>6. InsertAt(s, i, e) = c \o b
  BY DEF InsertAt, a, b, c, one
<1>7. Len(c \o b) = Len(s) + 1
  BY <1>0, <1>2, <1>4, <1>5
<1>8. ASSUME NEW j \in 1 .. Len(s) + 1
      PROVE  (c \o b)[j] = IF j = i THEN e ELSE s[IF j < i THEN j ELSE j - 1]
  <2>1. CASE j <= i
    <3>1. (c \o b)[j] = IF j < i THEN a[j] ELSE e
      BY <1>0, <1>2, <1>4, <1>5, <2>1
    <3> QED
      BY <1>0, <1>1, <2>1, <3>1
  <2>2. CASE ~(j <= i)
    <3>1. j - Len(c) \in 1 .. Len(s) - i + 1 /\ i + (j - Len(c)) - 1 = j - 1
      BY <1>0, <1>4, <2>2
    <3> QED
      BY <1>0, <1>2, <1>4, <1>5, <2>2, <3>1
  <2> QED
    BY <2>1, <2>2
<1>9. DOMAIN (c \o b) = 1 .. Len(s) + 1
  BY <1>5, <1>7, LenProperties
<1> QED
  BY <1>5, <1>6, <1>7, <1>8, <1>9

\* Removing one element of a sequence without repetitions.
LEMMA RemovalSet ==
  ASSUME NEW S, NEW s \in Seq(S), IsInjective(s), NEW i \in 1 .. Len(s)
  PROVE  /\ IsInjective(RemoveAt(s, i))
         /\ ToSet(RemoveAt(s, i)) = ToSet(s) \ {s[i]}
<1> DEFINE t == RemoveAt(s, i)
<1>0. Len(s) \in Nat /\ DOMAIN s = 1 .. Len(s)
  BY LenProperties
<1>1. /\ DOMAIN t = 1 .. Len(s) - 1
      /\ \A j \in 1 .. Len(s) - 1 : t[j] = s[IF j < i THEN j ELSE j + 1]
  BY Removal
<1> HIDE DEF t
<1>2. IsInjective(t)
  <2> DEFINE From(j) == IF j < i THEN j ELSE j + 1
  <2> SUFFICES ASSUME NEW j \in DOMAIN t, NEW k \in DOMAIN t, t[j] = t[k]
               PROVE  j = k
    BY DEF IsInjective
  <2>1. From(j) \in DOMAIN s /\ From(k) \in DOMAIN s
    BY <1>0, <1>1
  <2>2. s[From(j)] = s[From(k)]
    BY <1>1
  <2>3. From(j) = From(k)
    <3> HIDE DEF From
    <3> QED
      BY <2>1, <2>2 DEF IsInjective
  <2> QED
    BY <1>0, <1>1, <2>3
<1>3. ASSUME NEW x \in ToSet(t)
      PROVE  x \in ToSet(s) \ {s[i]}
  <2>1. PICK j \in 1 .. Len(s) - 1 : x = s[IF j < i THEN j ELSE j + 1]
    BY <1>1 DEF ToSet
  <2> QED
    BY <1>0, <2>1 DEF ToSet, IsInjective
<1>4. ASSUME NEW x \in ToSet(s), x # s[i]
      PROVE  x \in ToSet(t)
  <2>1. PICK j \in 1 .. Len(s) : x = s[j]
    BY <1>0 DEF ToSet
  <2>2. CASE j < i
    <3>1. j \in 1 .. Len(s) - 1 /\ t[j] = x
      BY <1>0, <1>1, <2>1, <2>2
    <3> QED
      BY <1>1, <3>1 DEF ToSet
  <2>3. CASE ~(j < i)
    <3>1. j # i
      BY <1>4, <2>1
    <3>2. j - 1 \in 1 .. Len(s) - 1 /\ t[j - 1] = x
      BY <1>0, <1>1, <2>1, <2>3, <3>1
    <3> QED
      BY <1>1, <3>2 DEF ToSet
  <2> QED
    BY <2>2, <2>3
<1> QED
  BY <1>2, <1>3, <1>4 DEF t

\* Inserting a new element into a sequence without repetitions.
LEMMA InsertionSet ==
  ASSUME NEW S, NEW s \in Seq(S), IsInjective(s), NEW i \in 1 .. Len(s) + 1,
         NEW e \in S, e \notin ToSet(s)
  PROVE  /\ IsInjective(InsertAt(s, i, e))
         /\ ToSet(InsertAt(s, i, e)) = ToSet(s) \cup {e}
<1> DEFINE t == InsertAt(s, i, e)
<1>0. Len(s) \in Nat /\ DOMAIN s = 1 .. Len(s)
  BY LenProperties
<1>1. /\ DOMAIN t = 1 .. Len(s) + 1
      /\ \A j \in 1 .. Len(s) + 1 : t[j] = IF j = i THEN e ELSE s[IF j < i THEN j ELSE j - 1]
  BY Insertion
<1> HIDE DEF t
<1>2. \A j \in 1 .. Len(s) + 1 : j # i => (IF j < i THEN j ELSE j - 1) \in DOMAIN s
  BY <1>0
<1>3. IsInjective(t)
  BY <1>0, <1>1, <1>2 DEF IsInjective, ToSet
<1>4. ASSUME NEW x \in ToSet(t)
      PROVE  x \in ToSet(s) \cup {e}
  BY <1>1, <1>2 DEF ToSet
<1>5. ASSUME NEW x \in ToSet(s)
      PROVE  x \in ToSet(t)
  <2>1. PICK j \in 1 .. Len(s) : x = s[j]
    BY <1>0 DEF ToSet
  <2>2. CASE j < i
    <3>1. j \in 1 .. Len(s) + 1 /\ t[j] = x
      BY <1>0, <1>1, <2>1, <2>2
    <3> QED
      BY <1>1, <3>1 DEF ToSet
  <2>3. CASE ~(j < i)
    <3>1. j + 1 \in 1 .. Len(s) + 1 /\ t[j + 1] = x
      BY <1>0, <1>1, <2>1, <2>3
    <3> QED
      BY <1>1, <3>1 DEF ToSet
  <2> QED
    BY <2>2, <2>3
<1>6. e \in ToSet(t)
  <2>1. i \in DOMAIN t /\ t[i] = e
    BY <1>0, <1>1
  <2> QED
    BY <2>1 DEF ToSet
<1> QED
  BY <1>3, <1>4, <1>5, <1>6 DEF t

\* Appending a new element to a sequence without repetitions.
LEMMA AppendSet ==
  ASSUME NEW S, NEW s \in Seq(S), IsInjective(s), NEW e \in S, e \notin ToSet(s)
  PROVE  /\ Append(s, e) \in Seq(S) /\ Append(s, e) # << >>
         /\ IsInjective(Append(s, e))
         /\ ToSet(Append(s, e)) = ToSet(s) \cup {e}
<1> DEFINE t == Append(s, e)
<1>0. Len(s) \in Nat /\ DOMAIN s = 1 .. Len(s)
  BY LenProperties
<1>1. /\ t \in Seq(S) /\ t # << >> /\ Len(t) = Len(s) + 1
      /\ \A j \in 1 .. Len(s) : t[j] = s[j]
      /\ t[Len(s) + 1] = e
  BY AppendProperties
<1>2. DOMAIN t = 1 .. Len(s) + 1
  BY <1>1, LenProperties
<1> HIDE DEF t
<1>3. \A j \in DOMAIN t : t[j] = IF j = Len(s) + 1 THEN e ELSE s[j]
  BY <1>0, <1>1, <1>2
<1>4. \A j \in DOMAIN t : j # Len(s) + 1 => j \in DOMAIN s
  BY <1>0, <1>2
<1>5. \A j \in DOMAIN s : j \in DOMAIN t /\ t[j] = s[j]
  BY <1>0, <1>1, <1>2
<1>6. IsInjective(t)
  BY <1>3, <1>4 DEF IsInjective, ToSet
<1>7. e \in ToSet(t)
  <2>1. Len(s) + 1 \in DOMAIN t
    BY <1>0, <1>2
  <2> QED
    BY <1>1, <2>1 DEF ToSet
<1>8. ToSet(t) = ToSet(s) \cup {e}
  BY <1>3, <1>4, <1>5, <1>7 DEF ToSet
<1> QED
  BY <1>1, <1>6, <1>8 DEF t

\* Joining two sequences without repetitions that have nothing in common.
LEMMA ConcatSet ==
  ASSUME NEW S, NEW s \in Seq(S), NEW u \in Seq(S), IsInjective(s), IsInjective(u),
         ToSet(s) \cap ToSet(u) = {}
  PROVE  /\ s \o u \in Seq(S)
         /\ Len(s \o u) = Len(s) + Len(u)
         /\ IsInjective(s \o u)
         /\ ToSet(s \o u) = ToSet(s) \cup ToSet(u)
<1> DEFINE t == s \o u
<1>0. /\ Len(s) \in Nat /\ DOMAIN s = 1 .. Len(s)
      /\ Len(u) \in Nat /\ DOMAIN u = 1 .. Len(u)
  BY LenProperties
<1>1. /\ t \in Seq(S) /\ Len(t) = Len(s) + Len(u)
      /\ \A j \in 1 .. Len(s) + Len(u) : t[j] = IF j <= Len(s) THEN s[j] ELSE u[j - Len(s)]
  BY ConcatProperties
<1>2. DOMAIN t = 1 .. Len(s) + Len(u)
  BY <1>1, LenProperties
<1> HIDE DEF t
<1>3. \A j \in DOMAIN t : IF j <= Len(s) THEN j \in DOMAIN s /\ t[j] = s[j]
                          ELSE j - Len(s) \in DOMAIN u /\ t[j] = u[j - Len(s)]
  BY <1>0, <1>1, <1>2
<1>4. \A j \in DOMAIN s : j \in DOMAIN t /\ t[j] = s[j]
  BY <1>0, <1>1, <1>2
<1>5. \A j \in DOMAIN u : j + Len(s) \in DOMAIN t /\ t[j + Len(s)] = u[j]
  <2> TAKE j \in DOMAIN u
  <2>1. j + Len(s) \in DOMAIN t /\ ~(j + Len(s) <= Len(s)) /\ (j + Len(s)) - Len(s) = j
    BY <1>0, <1>2
  <2> QED
    BY <1>3, <2>1
<1>6. IsInjective(t)
  <2> SUFFICES ASSUME NEW i \in DOMAIN t, NEW j \in DOMAIN t, t[i] = t[j]
               PROVE  i = j
    BY DEF IsInjective
  <2>1. CASE i <= Len(s) /\ j <= Len(s)
    BY <1>3, <2>1 DEF IsInjective
  <2>2. CASE ~(i <= Len(s)) /\ ~(j <= Len(s))
    <3>1. i - Len(s) = j - Len(s)
      BY <1>3, <2>2 DEF IsInjective
    <3> QED
      BY <1>0, <1>2, <3>1
  <2>3. CASE i <= Len(s) /\ ~(j <= Len(s))
    BY <1>3, <2>3 DEF ToSet
  <2>4. CASE ~(i <= Len(s)) /\ j <= Len(s)
    BY <1>3, <2>4 DEF ToSet
  <2> QED
    BY <2>1, <2>2, <2>3, <2>4
<1>7. ToSet(t) = ToSet(s) \cup ToSet(u)
  BY <1>3, <1>4, <1>5 DEF ToSet
<1> QED
  BY <1>1, <1>6, <1>7 DEF t

--------------------------------------------------------------------------------
(* Tabs *)

\* Identities of panes, which the counter hands out from 1.
PaneId == Nat \ {0}

\* A tab alone: it has panes, each once, and one of them is active.
GoodTab(w) ==
  /\ w \in TabType /\ w.panes # << >> /\ IsInjective(w.panes)
  /\ w.active \in ToSet(w.panes)

\* A pane of a tab is at its position there.
LEMMA PanePosition ==
  ASSUME NEW w, w \in TabType, NEW p \in ToSet(w.panes)
  PROVE  /\ w.panes \in Seq(PaneId) /\ Len(w.panes) \in Nat
         /\ DOMAIN w.panes = 1 .. Len(w.panes)
         /\ PanePos(w, p) \in 1 .. Len(w.panes)
         /\ w.panes[PanePos(w, p)] = p
         /\ p \in PaneId
<1>1. w.panes \in Seq(PaneId)
  BY DEF TabType, PaneId
<1>2. DOMAIN w.panes = 1 .. Len(w.panes) /\ Len(w.panes) \in Nat
  BY <1>1, LenProperties
<1>3. \E k \in DOMAIN w.panes : w.panes[k] = p
  BY DEF ToSet
<1>4. PanePos(w, p) \in DOMAIN w.panes /\ w.panes[PanePos(w, p)] = p
  BY <1>3 DEF PanePos
<1> QED
  BY <1>1, <1>2, <1>4, ElementOfSeq

\* A tab with other panes, one of them active.
Edited(w, ps, p) == [w EXCEPT !.panes = ps, !.active = p]

\* It is a good tab, with the identity and the number it had.
LEMMA TabEdited ==
  ASSUME NEW w, w \in TabType, NEW ps \in Seq(PaneId), NEW p \in ToSet(ps), IsInjective(ps)
  PROVE  /\ GoodTab(Edited(w, ps, p)) /\ Edited(w, ps, p).id = w.id
         /\ Edited(w, ps, p).index = w.index
         /\ Edited(w, ps, p).panes = ps /\ Edited(w, ps, p).active = p
<1> DEFINE v == Edited(w, ps, p)
<1>1. DOMAIN ps = 1 .. Len(ps) /\ Len(ps) \in Nat
  BY LenProperties
<1>2. p \in PaneId /\ ps # << >>
  <2>1. PICK k \in DOMAIN ps : p = ps[k]
    BY DEF ToSet
  <2> QED
    BY <1>1, <2>1, ElementOfSeq, EmptySeq
<1>3. v \in TabType /\ v.id = w.id /\ v.index = w.index /\ v.panes = ps /\ v.active = p
  BY <1>2 DEF TabType, PaneId, Edited
<1> HIDE DEF v
<1>4. GoodTab(v)
  BY <1>2, <1>3 DEF GoodTab
<1> QED
  BY <1>3, <1>4 DEF v

\* A tab whose selection moves to another of its panes.
LEMMA TabActivated ==
  ASSUME NEW w, GoodTab(w), NEW p \in ToSet(w.panes)
  PROVE  LET v == [w EXCEPT !.active = p]
         IN  GoodTab(v) /\ v.id = w.id /\ v.index = w.index /\ v.panes = w.panes /\ v.active = p
<1> DEFINE v == [w EXCEPT !.active = p]
<1>1. p \in PaneId
  BY PanePosition DEF GoodTab
<1>2. v \in TabType /\ v.id = w.id /\ v.index = w.index /\ v.panes = w.panes /\ v.active = p
  BY <1>1 DEF GoodTab, TabType, PaneId
<1> HIDE DEF v
<1>3. GoodTab(v)
  BY <1>2 DEF GoodTab
<1> QED
  BY <1>2, <1>3 DEF v

\* A tab that is renumbered.
Numbering(w, k) == [w EXCEPT !.index = k]

\* Only its number changes.
LEMMA TabNumbered ==
  ASSUME NEW w, GoodTab(w), NEW k \in Nat
  PROVE  /\ GoodTab(Numbering(w, k)) /\ Numbering(w, k).id = w.id
         /\ Numbering(w, k).panes = w.panes /\ Numbering(w, k).active = w.active
         /\ Numbering(w, k).index = k
<1> DEFINE v == Numbering(w, k)
<1>1. /\ v \in TabType /\ v.id = w.id /\ v.panes = w.panes /\ v.active = w.active
      /\ v.index = k
  BY DEF GoodTab, TabType, Numbering
<1> HIDE DEF v
<1>2. GoodTab(v)
  BY <1>1 DEF GoodTab
<1> QED
  BY <1>1, <1>2 DEF v

\* A new tab.
LEMMA TabNew ==
  ASSUME NEW w \in PaneId, NEW k \in Nat, NEW p \in PaneId
  PROVE  /\ GoodTab(Tab(w, k, p)) /\ ToSet(Tab(w, k, p).panes) = {p}
         /\ Tab(w, k, p).id = w /\ Tab(w, k, p).index = k /\ Tab(w, k, p).active = p
<1>1. <<p>> \in Seq(PaneId) /\ <<p>> # << >> /\ DOMAIN <<p>> = {1} /\ <<p>>[1] = p
  OBVIOUS
<1>2. IsInjective(<<p>>) /\ ToSet(<<p>>) = {p}
  BY <1>1 DEF IsInjective, ToSet
<1>3. Tab(w, k, p) \in TabType
  BY <1>1 DEF Tab, TabType, PaneId
<1> QED
  BY <1>1, <1>2, <1>3 DEF Tab, GoodTab

\* split_pane: a new pane goes last and is active.
LEMMA TabSplit ==
  ASSUME NEW w, GoodTab(w), NEW p \in PaneId, p \notin ToSet(w.panes)
  PROVE  LET v == [w EXCEPT !.panes = Append(@, p), !.active = p]
         IN  /\ GoodTab(v) /\ v.id = w.id /\ v.index = w.index /\ v.active = p
             /\ ToSet(v.panes) = ToSet(w.panes) \cup {p}
<1> DEFINE ps == Append(w.panes, p)
<1>1. w.panes \in Seq(PaneId) /\ IsInjective(w.panes) /\ w \in TabType
  BY DEF GoodTab, TabType, PaneId
<1>2. ps \in Seq(PaneId) /\ IsInjective(ps) /\ ToSet(ps) = ToSet(w.panes) \cup {p}
  BY <1>1, AppendSet
<1> HIDE DEF ps
<1>3. p \in ToSet(ps)
  BY <1>2
<1>4. /\ GoodTab(Edited(w, ps, p)) /\ Edited(w, ps, p).id = w.id /\ Edited(w, ps, p).index = w.index
      /\ Edited(w, ps, p).panes = ps /\ Edited(w, ps, p).active = p
  BY <1>1, <1>2, <1>3, TabEdited
<1> QED
  BY <1>2, <1>4 DEF ps, Edited

\* move_pane, where p arrives.
LEMMA TabJoined ==
  ASSUME NEW w, GoodTab(w), NEW p \in PaneId, p \notin ToSet(w.panes),
         NEW i \in 1 .. Len(w.panes) + 1
  PROVE  LET v == [w EXCEPT !.panes = InsertAt(@, i, p), !.active = p]
         IN  /\ GoodTab(v) /\ v.id = w.id /\ v.active = p
             /\ ToSet(v.panes) = ToSet(w.panes) \cup {p}
<1> DEFINE ps == InsertAt(w.panes, i, p)
<1>1. w.panes \in Seq(PaneId) /\ IsInjective(w.panes) /\ w \in TabType
  BY DEF GoodTab, TabType, PaneId
<1>2. ps \in Seq(PaneId) /\ IsInjective(ps) /\ ToSet(ps) = ToSet(w.panes) \cup {p}
  BY <1>1, Insertion, InsertionSet
<1> HIDE DEF ps
<1>3. p \in ToSet(ps)
  BY <1>2
<1>4. /\ GoodTab(Edited(w, ps, p)) /\ Edited(w, ps, p).id = w.id
      /\ Edited(w, ps, p).panes = ps /\ Edited(w, ps, p).active = p
  BY <1>1, <1>2, <1>3, TabEdited
<1> QED
  BY <1>2, <1>4 DEF ps, Edited

\* What is left of a tab's panes when p goes.
LEMMA PaneGone ==
  ASSUME NEW w, GoodTab(w), NEW p \in ToSet(w.panes)
  PROVE  LET rest == RemoveAt(w.panes, PanePos(w, p))
         IN  /\ rest \in Seq(PaneId) /\ IsInjective(rest)
             /\ ToSet(rest) = ToSet(w.panes) \ {p}
             /\ Len(rest) = Len(w.panes) - 1 /\ Len(rest) \in Nat
             /\ DOMAIN rest = 1 .. Len(rest)
             /\ rest = << >> <=> ToSet(w.panes) = {p}
             /\ rest = << >> <=> Len(w.panes) = 1
<1> DEFINE rest == RemoveAt(w.panes, PanePos(w, p))
<1>1. /\ w.panes \in Seq(PaneId) /\ Len(w.panes) \in Nat /\ w \in TabType
      /\ PanePos(w, p) \in 1 .. Len(w.panes) /\ w.panes[PanePos(w, p)] = p
  BY PanePosition DEF GoodTab
<1>2. /\ rest \in Seq(PaneId) /\ Len(rest) = Len(w.panes) - 1
      /\ DOMAIN rest = 1 .. Len(w.panes) - 1
  BY <1>1, Removal
<1>3. IsInjective(rest) /\ ToSet(rest) = ToSet(w.panes) \ {p}
  BY <1>1, RemovalSet DEF GoodTab
<1> HIDE DEF rest
<1>4. Len(rest) \in Nat /\ DOMAIN rest = 1 .. Len(rest)
  BY <1>2, LenProperties
<1>5. rest = << >> <=> Len(rest) = 0
  BY <1>2, EmptySeq
<1>6. Len(rest) = 0 <=> ToSet(rest) = {}
  <2>1. Len(rest) # 0 => 1 \in DOMAIN rest
    BY <1>4
  <2>2. Len(rest) = 0 => DOMAIN rest = {}
    BY <1>4
  <2> QED
    BY <2>1, <2>2 DEF ToSet
<1>7. ToSet(rest) = {} <=> ToSet(w.panes) = {p}
  BY <1>3
<1>8. Len(rest) = 0 <=> Len(w.panes) = 1
  BY <1>1, <1>2
<1> QED
  BY <1>1, <1>2, <1>3, <1>4, <1>5, <1>6, <1>7, <1>8 DEF rest

\* move_pane and extract_pane, where p leaves other panes behind.
LEMMA TabWithout ==
  ASSUME NEW w, GoodTab(w), NEW p \in ToSet(w.panes)
  PROVE  /\ Without(w, p) \in TabType
         /\ Without(w, p).id = w.id
         /\ Without(w, p).panes = RemoveAt(w.panes, PanePos(w, p))
         /\ Without(w, p).panes # << >> => GoodTab(Without(w, p))
<1> DEFINE rest == RemoveAt(w.panes, PanePos(w, p))
           a == IF w.active = p /\ rest # << >> THEN rest[1] ELSE w.active
<1>1. /\ rest \in Seq(PaneId) /\ IsInjective(rest) /\ ToSet(rest) = ToSet(w.panes) \ {p}
      /\ Len(rest) \in Nat /\ DOMAIN rest = 1 .. Len(rest)
  BY PaneGone
<1>2. w \in TabType /\ w.active \in ToSet(w.panes)
  BY DEF GoodTab
<1>3. Without(w, p) = Edited(w, rest, a)
  BY DEF Without, Edited
<1>4. rest # << >> => 1 \in DOMAIN rest /\ rest[1] \in ToSet(rest)
  <2>1. rest # << >> => Len(rest) # 0
    BY <1>1, EmptySeq
  <2> QED
    BY <1>1, <2>1 DEF ToSet
<1>5. rest # << >> => a \in ToSet(rest)
  BY <1>1, <1>2, <1>4
<1>6. a \in PaneId
  <2>1. w.active \in PaneId
    BY <1>2 DEF TabType, PaneId
  <2>2. rest # << >> => rest[1] \in PaneId
    BY <1>1, <1>4, ElementOfSeq
  <2> QED
    BY <2>1, <2>2
<1> HIDE DEF rest, a
<1>7. /\ Without(w, p) \in TabType /\ Without(w, p).id = w.id /\ Without(w, p).panes = rest
  BY <1>1, <1>2, <1>3, <1>6 DEF TabType, PaneId, Edited
<1>8. rest # << >> => GoodTab(Without(w, p))
  BY <1>1, <1>2, <1>3, <1>5, TabEdited
<1> QED
  BY <1>7, <1>8 DEF rest

\* close_pane, where other panes of the tab stay.
LEMMA TabClosed ==
  ASSUME NEW w, GoodTab(w), NEW p \in ToSet(w.panes),
         RemoveAt(w.panes, PanePos(w, p)) # << >>
  PROVE  LET rest == RemoveAt(w.panes, PanePos(w, p))
             v == [w EXCEPT !.panes = rest,
                            !.active = IF @ = p THEN Successor(rest, PanePos(w, p)) ELSE @]
         IN  /\ GoodTab(v) /\ v.id = w.id /\ v.index = w.index /\ v.panes = rest
             /\ ToSet(v.panes) = ToSet(w.panes) \ {p}
             /\ w.active # p => v.active = w.active
<1> DEFINE rest == RemoveAt(w.panes, PanePos(w, p))
           a == IF w.active = p THEN Successor(rest, PanePos(w, p)) ELSE w.active
<1>1. /\ rest \in Seq(PaneId) /\ IsInjective(rest) /\ ToSet(rest) = ToSet(w.panes) \ {p}
      /\ Len(rest) = Len(w.panes) - 1 /\ Len(rest) \in Nat /\ DOMAIN rest = 1 .. Len(rest)
  BY PaneGone
<1>2. w \in TabType /\ w.active \in ToSet(w.panes)
  BY DEF GoodTab
<1>3. PanePos(w, p) \in 1 .. Len(w.panes) /\ Len(w.panes) \in Nat
  BY <1>2, PanePosition
<1>4. Len(rest) # 0
  BY <1>1, EmptySeq
<1> DEFINE i == IF PanePos(w, p) > Len(rest) THEN Len(rest) ELSE PanePos(w, p)
<1> HIDE DEF rest
<1>5. i \in DOMAIN rest
  <2>0. \A n \in Nat, m \in Nat : n = m - 1 /\ n # 0 =>
           \A k \in 1 .. m : (IF k > n THEN n ELSE k) \in 1 .. n
    OBVIOUS
  <2>1. i \in 1 .. Len(rest)
    BY <1>1, <1>3, <1>4, <2>0
  <2> QED
    BY <1>1, <2>1
<1>6. Successor(rest, PanePos(w, p)) = rest[i]
  BY DEF Successor
<1>7. rest[i] \in ToSet(rest)
  BY <1>5 DEF ToSet
<1>8. a \in ToSet(rest)
  BY <1>1, <1>2, <1>6, <1>7
<1> HIDE DEF i, a
<1>9. /\ GoodTab(Edited(w, rest, a)) /\ Edited(w, rest, a).id = w.id /\ Edited(w, rest, a).index = w.index
      /\ Edited(w, rest, a).panes = rest /\ Edited(w, rest, a).active = a
  BY <1>1, <1>2, <1>8, TabEdited
<1>10. w.active # p => a = w.active
  BY DEF a
<1> QED
  BY <1>1, <1>9, <1>10 DEF rest, a, Edited

\* merge_windows: the panes of tab u go to the end of tab w.
LEMMA TabMerged ==
  ASSUME NEW w, NEW u, GoodTab(w), GoodTab(u), ToSet(w.panes) \cap ToSet(u.panes) = {}
  PROVE  LET v == [w EXCEPT !.panes = @ \o u.panes, !.active = u.active]
         IN  /\ GoodTab(v) /\ v.id = w.id
             /\ ToSet(v.panes) = ToSet(w.panes) \cup ToSet(u.panes)
<1> DEFINE ps == w.panes \o u.panes
<1>1. /\ w.panes \in Seq(PaneId) /\ u.panes \in Seq(PaneId)
      /\ IsInjective(w.panes) /\ IsInjective(u.panes)
      /\ w \in TabType /\ u.active \in ToSet(u.panes)
  BY DEF GoodTab, TabType, PaneId
<1>2. ps \in Seq(PaneId) /\ IsInjective(ps) /\ ToSet(ps) = ToSet(w.panes) \cup ToSet(u.panes)
  BY <1>1, ConcatSet
<1> HIDE DEF ps
<1>3. u.active \in ToSet(ps)
  BY <1>1, <1>2
<1>4. /\ GoodTab(Edited(w, ps, u.active)) /\ Edited(w, ps, u.active).id = w.id
      /\ Edited(w, ps, u.active).panes = ps
  BY <1>1, <1>2, <1>3, TabEdited
<1> QED
  BY <1>2, <1>4 DEF ps, Edited

\* swap_panes in one tab.
Exchanged(w, p, q) ==
  LET i == PanePos(w, p)
      j == PanePos(w, q)
  IN  [w EXCEPT !.panes = [k \in DOMAIN @ |-> IF k = i THEN q ELSE IF k = j THEN p ELSE @[k]],
                !.active = p]

\* The tab is a good one and has the panes it had, in another order.
LEMMA TabSwapped ==
  ASSUME NEW w, GoodTab(w), NEW p \in ToSet(w.panes), NEW q \in ToSet(w.panes), p # q
  PROVE  /\ GoodTab(Exchanged(w, p, q)) /\ Exchanged(w, p, q).id = w.id
         /\ Exchanged(w, p, q).index = w.index
         /\ ToSet(Exchanged(w, p, q).panes) = ToSet(w.panes)
<1> DEFINE i == PanePos(w, p)
           j == PanePos(w, q)
           ps == [k \in DOMAIN w.panes |-> IF k = i THEN q ELSE IF k = j THEN p ELSE w.panes[k]]
<1>1. /\ w.panes \in Seq(PaneId) /\ IsInjective(w.panes) /\ w \in TabType
      /\ Len(w.panes) \in Nat /\ DOMAIN w.panes = 1 .. Len(w.panes)
      /\ i \in DOMAIN w.panes /\ j \in DOMAIN w.panes /\ w.panes[i] = p /\ w.panes[j] = q
      /\ p \in PaneId /\ q \in PaneId
  BY PanePosition DEF GoodTab
<1> HIDE DEF i, j
<1>2. \A k \in DOMAIN w.panes : ps[k] \in PaneId
  BY <1>1, ElementOfSeq
<1>3. ps \in Seq(PaneId)
  BY <1>1, <1>2
<1>4. DOMAIN ps = DOMAIN w.panes
  OBVIOUS
<1>5. \A k \in DOMAIN ps : ps[k] = IF k = i THEN q ELSE IF k = j THEN p ELSE w.panes[k]
  OBVIOUS
<1> HIDE DEF ps
<1>6. IsInjective(ps)
  BY <1>1, <1>4, <1>5 DEF IsInjective
<1>7. ToSet(ps) = ToSet(w.panes)
  <2>1. \A x \in ToSet(ps) : x \in ToSet(w.panes)
    BY <1>1, <1>4, <1>5 DEF ToSet
  <2>2. ASSUME NEW x \in ToSet(w.panes)
        PROVE  x \in ToSet(ps)
    <3>1. PICK k \in DOMAIN w.panes : x = w.panes[k]
      BY DEF ToSet
    <3>2. ps[i] = q /\ ps[j] = p
      BY <1>1, <1>4, <1>5
    <3> QED
      BY <1>1, <1>4, <1>5, <3>1, <3>2 DEF ToSet
  <2> QED
    BY <2>1, <2>2
<1>8. /\ GoodTab(Edited(w, ps, p)) /\ Edited(w, ps, p).id = w.id /\ Edited(w, ps, p).index = w.index
      /\ Edited(w, ps, p).panes = ps
  BY <1>1, <1>3, <1>6, <1>7, TabEdited
<1> QED
  BY <1>7, <1>8 DEF ps, i, j, Edited, Exchanged

\* swap_panes, one of two tabs: q of another tab takes the place of p.
Trading(w, p, q, a) == [w EXCEPT !.panes[PanePos(w, p)] = q, !.active = a]

\* The tab is a good one in which q replaces p and nothing else moves.
LEMMA TabTraded ==
  ASSUME NEW w, GoodTab(w), NEW p \in ToSet(w.panes), NEW q \in PaneId, q \notin ToSet(w.panes),
         NEW a, a \in ToSet(w.panes) \ {p} \/ a = q
  PROVE  /\ GoodTab(Trading(w, p, q, a)) /\ Trading(w, p, q, a).id = w.id
         /\ Trading(w, p, q, a).index = w.index
         /\ ToSet(Trading(w, p, q, a).panes) = (ToSet(w.panes) \ {p}) \cup {q}
<1> DEFINE i == PanePos(w, p)
           ps == [w.panes EXCEPT ![i] = q]
<1>1. /\ w.panes \in Seq(PaneId) /\ IsInjective(w.panes) /\ w \in TabType
      /\ Len(w.panes) \in Nat /\ DOMAIN w.panes = 1 .. Len(w.panes)
      /\ i \in DOMAIN w.panes /\ w.panes[i] = p
  BY PanePosition DEF GoodTab
<1> HIDE DEF i
<1>2. /\ ps \in Seq(PaneId) /\ DOMAIN ps = DOMAIN w.panes
      /\ \A k \in DOMAIN ps : ps[k] = IF k = i THEN q ELSE w.panes[k]
  BY <1>1, ExceptSeq
<1>3. [w EXCEPT !.panes[i] = q, !.active = a] = Edited(w, ps, a)
  BY <1>1 DEF Edited, TabType
<1> HIDE DEF ps
<1>4. IsInjective(ps)
  BY <1>1, <1>2 DEF IsInjective, ToSet
<1>5. ToSet(ps) = (ToSet(w.panes) \ {p}) \cup {q}
  <2>1. \A x \in ToSet(ps) : x \in (ToSet(w.panes) \ {p}) \cup {q}
    BY <1>1, <1>2 DEF ToSet, IsInjective
  <2>2. q \in ToSet(ps)
    BY <1>1, <1>2 DEF ToSet
  <2>3. \A x \in ToSet(w.panes) : x # p => x \in ToSet(ps)
    BY <1>1, <1>2 DEF ToSet
  <2> QED
    BY <2>1, <2>2, <2>3
<1>6. /\ GoodTab(Edited(w, ps, a)) /\ Edited(w, ps, a).id = w.id /\ Edited(w, ps, a).index = w.index
      /\ Edited(w, ps, a).panes = ps
  BY <1>1, <1>2, <1>4, <1>5, TabEdited
<1> QED
  BY <1>3, <1>5, <1>6 DEF i, Trading

--------------------------------------------------------------------------------
(* The tabs of a session *)

\* The panes of a tab, the identities of some tabs, and all the panes they have.
Held(w) == ToSet(w.panes)

IdsOf(ws) == {ws[k].id : k \in DOMAIN ws}

PanesOf(ws) == UNION {Held(ws[k]) : k \in DOMAIN ws}

\* Tabs that share neither a pane nor an identity, all identities below n.
GoodTabs(ws, n) ==
  /\ ws \in Seq(TabType)
  /\ \A k \in DOMAIN ws : GoodTab(ws[k]) /\ ws[k].id < n
  /\ \A j, k \in DOMAIN ws : j # k => Held(ws[j]) \cap Held(ws[k]) = {} /\ ws[j].id # ws[k].id

\* Tabs numbered by position.
Numbered(ws) == \A k \in DOMAIN ws : ws[k].index = k

\* The set of panes, element by element.
LEMMA PanesOfTabs ==
  ASSUME NEW ws, NEW p
  PROVE  p \in PanesOf(ws) <=> \E k \in DOMAIN ws : p \in Held(ws[k])
BY DEF PanesOf

\* renumber_windows changes nothing but the numbers.
LEMMA TabsRenumbered ==
  ASSUME NEW ws, NEW n \in Nat, GoodTabs(ws, n)
  PROVE  /\ GoodTabs(Renumbered(ws), n) /\ Numbered(Renumbered(ws))
         /\ DOMAIN Renumbered(ws) = DOMAIN ws
         /\ \A k \in DOMAIN ws : /\ Renumbered(ws)[k].id = ws[k].id
                                 /\ Renumbered(ws)[k].panes = ws[k].panes
                                 /\ Renumbered(ws)[k].active = ws[k].active
         /\ IdsOf(Renumbered(ws)) = IdsOf(ws) /\ PanesOf(Renumbered(ws)) = PanesOf(ws)
<1> DEFINE vs == Renumbered(ws)
<1>1. Len(ws) \in Nat /\ DOMAIN ws = 1 .. Len(ws)
  BY LenProperties DEF GoodTabs
<1>2. DOMAIN vs = DOMAIN ws /\ \A k \in DOMAIN ws : vs[k] = Numbering(ws[k], k)
  BY DEF Renumbered, Numbering
<1>3. \A k \in DOMAIN ws : k \in Nat /\ GoodTab(ws[k])
  BY <1>1 DEF GoodTabs
<1>4. \A k \in DOMAIN ws : /\ GoodTab(vs[k]) /\ vs[k].id = ws[k].id /\ vs[k].panes = ws[k].panes
                           /\ vs[k].active = ws[k].active /\ vs[k].index = k
  BY <1>2, <1>3, TabNumbered
<1>5. vs \in Seq(TabType)
  <2>1. \A k \in 1 .. Len(ws) : vs[k] \in TabType
    BY <1>1, <1>4 DEF GoodTab
  <2>2. vs = [k \in 1 .. Len(ws) |-> vs[k]]
    BY <1>1 DEF Renumbered
  <2> HIDE DEF vs
  <2> QED
    BY <1>1, <2>1, <2>2
<1> HIDE DEF vs
<1>6. GoodTabs(vs, n) /\ Numbered(vs)
  <2>1. \A j, k \in DOMAIN ws : j # k => Held(vs[j]) \cap Held(vs[k]) = {} /\ vs[j].id # vs[k].id
    BY <1>4 DEF GoodTabs, Held
  <2>2. \A k \in DOMAIN ws : vs[k].id < n
    BY <1>4 DEF GoodTabs
  <2> QED
    BY <1>2, <1>4, <1>5, <2>1, <2>2 DEF GoodTabs, Numbered
<1>7. IdsOf(vs) = IdsOf(ws) /\ PanesOf(vs) = PanesOf(ws)
  BY <1>2, <1>4 DEF IdsOf, PanesOf, Held
<1> QED
  BY <1>2, <1>4, <1>6, <1>7 DEF vs

\* Removing a tab takes its identity and its panes away.
LEMMA TabRemoved ==
  ASSUME NEW ws, NEW n \in Nat, GoodTabs(ws, n), NEW k \in DOMAIN ws
  PROVE  LET vs == RemoveAt(ws, k)
         IN  /\ GoodTabs(vs, n)
             /\ Len(vs) = Len(ws) - 1
             /\ \A i \in DOMAIN vs : \E j \in DOMAIN ws : j # k /\ vs[i] = ws[j]
             /\ \A j \in DOMAIN ws : j # k => \E i \in DOMAIN vs : vs[i] = ws[j]
             /\ IdsOf(vs) = IdsOf(ws) \ {ws[k].id}
             /\ PanesOf(vs) = PanesOf(ws) \ Held(ws[k])
<1> DEFINE vs == RemoveAt(ws, k)
           From(i) == IF i < k THEN i ELSE i + 1
<1>1. ws \in Seq(TabType) /\ Len(ws) \in Nat /\ DOMAIN ws = 1 .. Len(ws)
  BY LenProperties DEF GoodTabs
<1>2. /\ vs \in Seq(TabType) /\ Len(vs) = Len(ws) - 1 /\ DOMAIN vs = 1 .. Len(ws) - 1
      /\ \A i \in 1 .. Len(ws) - 1 : vs[i] = ws[From(i)]
  BY <1>1, Removal
<1> HIDE DEF vs
<1>3. \A i \in DOMAIN vs : From(i) \in DOMAIN ws /\ From(i) # k /\ vs[i] = ws[From(i)]
  BY <1>1, <1>2
<1>4. \A i, j \in DOMAIN vs : i # j => From(i) # From(j)
  BY <1>1, <1>2
<1>5. ASSUME NEW j \in DOMAIN ws, j # k
      PROVE  \E i \in DOMAIN vs : vs[i] = ws[j]
  <2>1. CASE j < k
    <3>1. j \in DOMAIN vs /\ vs[j] = ws[j]
      BY <1>1, <1>2, <2>1
    <3> QED
      BY <3>1
  <2>2. CASE ~(j < k)
    <3>1. j - 1 \in DOMAIN vs /\ vs[j - 1] = ws[j]
      BY <1>1, <1>2, <1>5, <2>2
    <3> QED
      BY <3>1
  <2> QED
    BY <2>1, <2>2
<1> HIDE DEF From
<1>6. GoodTabs(vs, n)
  BY <1>2, <1>3, <1>4 DEF GoodTabs
<1>7. \A i \in DOMAIN vs : \E j \in DOMAIN ws : j # k /\ vs[i] = ws[j]
  BY <1>3
<1>8. IdsOf(vs) = IdsOf(ws) \ {ws[k].id}
  BY <1>5, <1>7 DEF IdsOf, GoodTabs
<1>9. PanesOf(vs) = PanesOf(ws) \ Held(ws[k])
  <2>1. ASSUME NEW p \in PanesOf(vs)
        PROVE  p \in PanesOf(ws) \ Held(ws[k])
    <3>1. PICK i \in DOMAIN vs : p \in Held(vs[i])
      BY PanesOfTabs
    <3>2. PICK j \in DOMAIN ws : j # k /\ vs[i] = ws[j]
      BY <1>7
    <3> QED
      BY <3>1, <3>2, PanesOfTabs DEF GoodTabs
  <2>2. ASSUME NEW p \in PanesOf(ws), p \notin Held(ws[k])
        PROVE  p \in PanesOf(vs)
    <3>1. PICK j \in DOMAIN ws : p \in Held(ws[j])
      BY PanesOfTabs
    <3>2. PICK i \in DOMAIN vs : vs[i] = ws[j]
      BY <1>5, <2>2, <3>1
    <3> QED
      BY <3>1, <3>2, PanesOfTabs
  <2> QED
    BY <2>1, <2>2
<1> QED
  BY <1>2, <1>5, <1>6, <1>7, <1>8, <1>9 DEF vs

\* Inserting a tab with an identity and panes of its own.
LEMMA TabInserted ==
  ASSUME NEW ws, NEW n \in Nat, NEW m \in Nat, GoodTabs(ws, n), n <= m,
         NEW k \in 1 .. Len(ws) + 1, NEW w, GoodTab(w), w.id < m, w.id \notin IdsOf(ws),
         Held(w) \cap PanesOf(ws) = {}
  PROVE  LET vs == InsertAt(ws, k, w)
         IN  /\ GoodTabs(vs, m)
             /\ k \in DOMAIN vs /\ vs[k] = w
             /\ IdsOf(vs) = IdsOf(ws) \cup {w.id}
             /\ PanesOf(vs) = PanesOf(ws) \cup Held(w)
<1> DEFINE vs == InsertAt(ws, k, w)
           From(i) == IF i < k THEN i ELSE i - 1
<1>1. /\ ws \in Seq(TabType) /\ Len(ws) \in Nat /\ DOMAIN ws = 1 .. Len(ws)
      /\ w \in TabType
  BY LenProperties DEF GoodTabs, GoodTab
<1>2. /\ vs \in Seq(TabType) /\ DOMAIN vs = 1 .. Len(ws) + 1
      /\ \A i \in 1 .. Len(ws) + 1 : vs[i] = IF i = k THEN w ELSE ws[From(i)]
  <2> HIDE DEF GoodTabs, GoodTab
  <2>1. /\ vs \in Seq(TabType) /\ DOMAIN vs = 1 .. Len(ws) + 1
    BY <1>1, Insertion
  <2>2. \A i \in 1 .. Len(ws) + 1 : vs[i] = IF i = k THEN w ELSE ws[From(i)]
    BY <1>1, Insertion
  <2> QED
    BY <2>1, <2>2
<1> HIDE DEF vs
<1>3. \A i \in DOMAIN vs : i # k => From(i) \in DOMAIN ws /\ vs[i] = ws[From(i)]
  BY <1>1, <1>2
<1>4. \A i, j \in DOMAIN vs : i # j /\ i # k /\ j # k => From(i) # From(j)
  BY <1>1, <1>2
<1>5. k \in DOMAIN vs /\ vs[k] = w
  BY <1>1, <1>2
<1>6. ASSUME NEW j \in DOMAIN ws
      PROVE  \E i \in DOMAIN vs : i # k /\ vs[i] = ws[j]
  <2>1. CASE j < k
    <3>1. j \in DOMAIN vs /\ vs[j] = ws[j] /\ j # k
      BY <1>1, <1>2, <2>1
    <3> QED
      BY <3>1
  <2>2. CASE ~(j < k)
    <3>1. j + 1 \in DOMAIN vs /\ vs[j + 1] = ws[j] /\ j + 1 # k
      BY <1>1, <1>2, <2>2
    <3> QED
      BY <3>1
  <2> QED
    BY <2>1, <2>2
<1> HIDE DEF From
<1>7. \A i \in DOMAIN ws : Held(ws[i]) \cap Held(w) = {} /\ ws[i].id # w.id
  BY PanesOfTabs DEF IdsOf
<1>8. GoodTabs(vs, m)
  <2>0. \A i \in DOMAIN ws : ws[i].id \in Nat /\ ws[i].id < n
    BY DEF GoodTabs, GoodTab, TabType
  <2>1. \A i \in DOMAIN ws : ws[i].id \in Nat /\ ws[i].id < m
    BY <2>0
  <2>2. \A i \in DOMAIN vs : GoodTab(vs[i]) /\ vs[i].id < m
    BY <1>3, <1>5, <2>1 DEF GoodTabs
  <2>3. \A i, j \in DOMAIN vs : i # j => Held(vs[i]) \cap Held(vs[j]) = {} /\ vs[i].id # vs[j].id
    BY <1>3, <1>4, <1>5, <1>7 DEF GoodTabs
  <2> QED
    BY <1>2, <2>2, <2>3 DEF GoodTabs
<1>9. IdsOf(vs) = IdsOf(ws) \cup {w.id}
  BY <1>3, <1>5, <1>6 DEF IdsOf
<1>10. PanesOf(vs) = PanesOf(ws) \cup Held(w)
  <2>1. ASSUME NEW p \in PanesOf(vs)
        PROVE  p \in PanesOf(ws) \cup Held(w)
    BY <1>3, <1>5, PanesOfTabs
  <2>2. ASSUME NEW p \in PanesOf(ws)
        PROVE  p \in PanesOf(vs)
    <3>1. PICK j \in DOMAIN ws : p \in Held(ws[j])
      BY PanesOfTabs
    <3>2. PICK i \in DOMAIN vs : vs[i] = ws[j]
      BY <1>6
    <3> QED
      BY <3>1, <3>2, PanesOfTabs
  <2>3. \A p \in Held(w) : p \in PanesOf(vs)
    BY <1>5, PanesOfTabs
  <2> QED
    BY <2>1, <2>2, <2>3
<1> QED
  BY <1>5, <1>8, <1>9, <1>10 DEF vs

\* A sequence with another k-th element.
Put(s, k, e) == [s EXCEPT ![k] = e]

\* Changing a tab's panes to some that no other tab has.
LEMMA TabReplaced ==
  ASSUME NEW ws, NEW n \in Nat, GoodTabs(ws, n), NEW k \in DOMAIN ws, NEW w, GoodTab(w),
         w.id = ws[k].id, Held(w) \cap PanesOf(ws) \subseteq Held(ws[k])
  PROVE  /\ GoodTabs(Put(ws, k, w), n)
         /\ Len(Put(ws, k, w)) = Len(ws) /\ DOMAIN Put(ws, k, w) = DOMAIN ws
         /\ \A i \in DOMAIN ws : Put(ws, k, w)[i] = IF i = k THEN w ELSE ws[i]
         /\ IdsOf(Put(ws, k, w)) = IdsOf(ws)
         /\ PanesOf(Put(ws, k, w)) = (PanesOf(ws) \ Held(ws[k])) \cup Held(w)
<1> DEFINE vs == Put(ws, k, w)
<1>1. /\ ws \in Seq(TabType) /\ Len(ws) \in Nat /\ DOMAIN ws = 1 .. Len(ws)
      /\ w \in TabType
  BY LenProperties DEF GoodTabs, GoodTab
<1>2. /\ vs \in Seq(TabType) /\ Len(vs) = Len(ws) /\ DOMAIN vs = DOMAIN ws
      /\ \A i \in DOMAIN ws : vs[i] = IF i = k THEN w ELSE ws[i]
  BY <1>1, ExceptSeq DEF Put
<1> HIDE DEF vs
<1>3. \A i \in DOMAIN ws : i # k => Held(ws[i]) \cap Held(w) = {}
  BY PanesOfTabs DEF GoodTabs
<1>4. GoodTabs(vs, n)
  BY <1>2, <1>3 DEF GoodTabs
<1>5. IdsOf(vs) = IdsOf(ws)
  BY <1>2 DEF IdsOf
<1>6. PanesOf(vs) = (PanesOf(ws) \ Held(ws[k])) \cup Held(w)
  <2>1. ASSUME NEW p \in PanesOf(vs)
        PROVE  p \in (PanesOf(ws) \ Held(ws[k])) \cup Held(w)
    <3>1. PICK i \in DOMAIN ws : p \in Held(vs[i])
      BY <1>2, PanesOfTabs
    <3> QED
      BY <1>2, <3>1, PanesOfTabs DEF GoodTabs
  <2>2. ASSUME NEW p \in PanesOf(ws), p \notin Held(ws[k])
        PROVE  p \in PanesOf(vs)
    <3>1. PICK j \in DOMAIN ws : p \in Held(ws[j])
      BY PanesOfTabs
    <3> QED
      BY <1>2, <2>2, <3>1, PanesOfTabs
  <2>3. \A p \in Held(w) : p \in PanesOf(vs)
    BY <1>2, PanesOfTabs
  <2> QED
    BY <2>1, <2>2, <2>3
<1> QED
  BY <1>2, <1>4, <1>5, <1>6 DEF vs

--------------------------------------------------------------------------------
(* Sessions *)

\* A session alone: types, tabs that are numbered and share nothing, a selection.
Good(r) ==
  /\ r \in SessionType /\ r.windows # << >>
  /\ GoodTabs(r.windows, r.next) /\ Numbered(r.windows)
  /\ r.active \in Tabs(r)

\* A session t that a command makes of r: still good, with the panes ps, and with
\* tabs that r has or never had.
Revised(r, t, ps) ==
  /\ Good(t) /\ t.id = r.id /\ Panes(t) = ps
  /\ \A w \in Tabs(t) \ Tabs(r) : w >= r.next

\* What is at hand of a good session.
LEMMA SessionParts ==
  ASSUME NEW r, Good(r)
  PROVE  /\ r \in SessionType /\ r.next \in Nat \ {0} /\ r.windows \in Seq(TabType)
         /\ Len(r.windows) \in Nat \ {0} /\ DOMAIN r.windows = 1 .. Len(r.windows)
         /\ GoodTabs(r.windows, r.next)
         /\ Tabs(r) = IdsOf(r.windows) /\ Panes(r) = PanesOf(r.windows)
         /\ \A w \in Tabs(r) : w \in Nat \ {0} /\ w < r.next
         /\ \A k \in DOMAIN r.windows : /\ GoodTab(r.windows[k]) /\ r.windows[k].index = k
                                        /\ r.windows[k].id \in Tabs(r)
                                        /\ Held(r.windows[k]) \subseteq Panes(r)
<1>1. r \in SessionType /\ r.next \in Nat \ {0} /\ r.windows \in Seq(TabType)
  BY DEF Good, SessionType
<1>2. Len(r.windows) \in Nat \ {0} /\ DOMAIN r.windows = 1 .. Len(r.windows)
  BY <1>1, LenProperties, EmptySeq DEF Good
<1>3. Tabs(r) = IdsOf(r.windows) /\ Panes(r) = PanesOf(r.windows)
  BY DEF Tabs, Panes, IdsOf, PanesOf, Held
<1>4. GoodTabs(r.windows, r.next) /\ Numbered(r.windows)
  BY DEF Good
<1>5. \A w \in IdsOf(r.windows) : w \in Nat \ {0} /\ w < r.next
  BY <1>4 DEF IdsOf, GoodTabs, GoodTab, TabType
<1>6. \A k \in DOMAIN r.windows : Held(r.windows[k]) \subseteq PanesOf(r.windows)
  BY PanesOfTabs
<1>7. \A k \in DOMAIN r.windows : r.windows[k].id \in IdsOf(r.windows)
  BY DEF IdsOf
<1>8. \A k \in DOMAIN r.windows : GoodTab(r.windows[k]) /\ r.windows[k].index = k
  BY <1>4 DEF GoodTabs, Numbered
<1> QED
  BY <1>1, <1>2, <1>3, <1>4, <1>5, <1>6, <1>7, <1>8

\* A tab is at its position.
LEMMA TabPosition ==
  ASSUME NEW r, Good(r), NEW w \in Tabs(r)
  PROVE  /\ TabPos(r, w) \in DOMAIN r.windows
         /\ r.windows[TabPos(r, w)].id = w
         /\ \A k \in DOMAIN r.windows : r.windows[k].id = w => k = TabPos(r, w)
<1>1. \E k \in DOMAIN r.windows : r.windows[k].id = w
  BY DEF Tabs
<1>2. TabPos(r, w) \in DOMAIN r.windows /\ r.windows[TabPos(r, w)].id = w
  BY <1>1 DEF TabPos
<1> QED
  BY <1>2 DEF Good, GoodTabs

\* A pane is in one tab only.
LEMMA HomePosition ==
  ASSUME NEW r, Good(r), NEW p \in Panes(r)
  PROVE  /\ Home(r, p) \in DOMAIN r.windows
         /\ p \in Held(r.windows[Home(r, p)])
         /\ \A k \in DOMAIN r.windows : p \in Held(r.windows[k]) => k = Home(r, p)
         /\ p \in PaneId
<1>1. \E k \in DOMAIN r.windows : p \in ToSet(r.windows[k].panes)
  BY DEF Panes
<1>2. Home(r, p) \in DOMAIN r.windows /\ p \in Held(r.windows[Home(r, p)])
  BY <1>1 DEF Home, Held
<1>3. \A k \in DOMAIN r.windows : p \in Held(r.windows[k]) => k = Home(r, p)
  BY <1>2 DEF Good, GoodTabs
<1>4. r.windows[Home(r, p)] \in TabType
  BY <1>2 DEF Good, GoodTabs, GoodTab
<1> QED
  BY <1>2, <1>3, <1>4, PanePosition DEF Held

\* A session with other tabs, counter and selection.
Rebuilt(r, ws, n, a) == [r EXCEPT !.windows = ws, !.active = a, !.next = n]

\* It is good when its tabs are and one of them is selected.
LEMMA SessionRebuilt ==
  ASSUME NEW r, r \in SessionType, NEW n \in Nat \ {0}, NEW ws, GoodTabs(ws, n), Numbered(ws),
         NEW a \in IdsOf(ws)
  PROVE  /\ Good(Rebuilt(r, ws, n, a)) /\ Rebuilt(r, ws, n, a).id = r.id
         /\ Rebuilt(r, ws, n, a).windows = ws /\ Rebuilt(r, ws, n, a).active = a
         /\ Tabs(Rebuilt(r, ws, n, a)) = IdsOf(ws)
         /\ Panes(Rebuilt(r, ws, n, a)) = PanesOf(ws)
<1> DEFINE t == Rebuilt(r, ws, n, a)
<1>1. ws \in Seq(TabType)
  BY DEF GoodTabs
<1>2. PICK k \in DOMAIN ws : a = ws[k].id
  BY DEF IdsOf
<1>3. a \in Nat \ {0}
  BY <1>2 DEF GoodTabs, GoodTab, TabType
<1>4. ws # << >>
  BY <1>2
<1>5. t \in SessionType /\ t.id = r.id /\ t.windows = ws /\ t.active = a /\ t.next = n
  BY <1>1, <1>3 DEF SessionType, Rebuilt
<1> HIDE DEF t
<1>6. Tabs(t) = IdsOf(ws) /\ Panes(t) = PanesOf(ws)
  BY <1>5 DEF Tabs, Panes, IdsOf, PanesOf, Held
<1>7. Good(t)
  BY <1>4, <1>5, <1>6 DEF Good
<1> QED
  BY <1>5, <1>6, <1>7 DEF t

\* activate_window, activate_relative_window and activate_window_index.
LEMMA SessionSelecting ==
  ASSUME NEW r, Good(r), NEW a \in Tabs(r)
  PROVE  Revised(r, [r EXCEPT !.active = a], Panes(r))
<1>1. r \in SessionType /\ GoodTabs(r.windows, r.next) /\ r.next \in Nat \ {0}
  BY SessionParts
<1>2. Tabs(r) = IdsOf(r.windows) /\ Panes(r) = PanesOf(r.windows)
  BY SessionParts
<1>3. [r EXCEPT !.active = a] = Rebuilt(r, r.windows, r.next, a)
  BY <1>1 DEF Rebuilt, SessionType
<1>4. Numbered(r.windows)
  BY DEF Good
<1> DEFINE t == Rebuilt(r, r.windows, r.next, a)
<1>5. Good(t) /\ t.id = r.id /\ Tabs(t) = Tabs(r) /\ Panes(t) = Panes(r)
  BY <1>1, <1>2, <1>4, SessionRebuilt
<1> HIDE DEF t
<1> QED
  BY <1>3, <1>5 DEF Revised, t

\* select_window changes nothing but the selection, and that only to a tab there is.
LEMMA SessionSelected ==
  ASSUME NEW r, Good(r), NEW w
  PROVE  Revised(r, Selecting(r, w), Panes(r))
<1>1. CASE w \in Tabs(r)
  BY <1>1, SessionSelecting DEF Selecting
<1>2. CASE w \notin Tabs(r)
  BY <1>2 DEF Selecting, Revised
<1> QED
  BY <1>1, <1>2

\* stamp_session, rename_session.
LEMMA SessionMarked ==
  ASSUME NEW r, Good(r), NEW tag \in Tags \cup {NoTag}, NEW called \in SessionIds
  PROVE  /\ Revised(r, [r EXCEPT !.tag = tag], Panes(r))
         /\ Revised(r, [r EXCEPT !.name = called], Panes(r))
<1> DEFINE t == [r EXCEPT !.tag = tag]
           u == [r EXCEPT !.name = called]
<1>1. /\ t \in SessionType /\ t.windows = r.windows /\ t.active = r.active /\ t.next = r.next
      /\ t.id = r.id
  BY DEF Good, SessionType
<1>2. /\ u \in SessionType /\ u.windows = r.windows /\ u.active = r.active /\ u.next = r.next
      /\ u.id = r.id
  BY DEF Good, SessionType
<1> HIDE DEF t, u
<1>3. Tabs(t) = Tabs(r) /\ Panes(t) = Panes(r) /\ Tabs(u) = Tabs(r) /\ Panes(u) = Panes(r)
  BY <1>1, <1>2 DEF Tabs, Panes
<1>4. Good(t) /\ Good(u)
  BY <1>1, <1>2, <1>3 DEF Good
<1> QED
  BY <1>1, <1>2, <1>3, <1>4 DEF Revised, t, u

\* A session in which one tab changes, and is selected perhaps.
LEMMA SessionTab ==
  ASSUME NEW r, Good(r), NEW k \in DOMAIN r.windows, NEW w, GoodTab(w),
         w.id = r.windows[k].id, w.index = r.windows[k].index,
         Held(w) \cap Panes(r) \subseteq Held(r.windows[k]), NEW a \in Tabs(r)
  PROVE  LET t == [WithTab(r, k, w) EXCEPT !.active = a]
             ws == Put(r.windows, k, w)
         IN  /\ Revised(r, t, (Panes(r) \ Held(r.windows[k])) \cup Held(w))
             /\ t = Rebuilt(r, ws, r.next, a)
             /\ t.windows = ws /\ t.active = a
<1> DEFINE ws == Put(r.windows, k, w)
           t == Rebuilt(r, ws, r.next, a)
<1>1. r \in SessionType /\ GoodTabs(r.windows, r.next) /\ r.next \in Nat \ {0}
  BY SessionParts
<1>2. Tabs(r) = IdsOf(r.windows) /\ Panes(r) = PanesOf(r.windows)
  BY SessionParts
<1>3. [WithTab(r, k, w) EXCEPT !.active = a] = t
  BY <1>1 DEF Rebuilt, SessionType, WithTab, Put
<1>4. /\ GoodTabs(ws, r.next) /\ DOMAIN ws = DOMAIN r.windows
      /\ \A i \in DOMAIN r.windows : ws[i] = IF i = k THEN w ELSE r.windows[i]
      /\ IdsOf(ws) = IdsOf(r.windows)
      /\ PanesOf(ws) = (PanesOf(r.windows) \ Held(r.windows[k])) \cup Held(w)
  BY <1>1, <1>2, TabReplaced
<1> HIDE DEF ws
<1>5. Numbered(ws)
  BY <1>4 DEF Good, Numbered
<1>6. /\ Good(t) /\ t.id = r.id /\ t.windows = ws /\ t.active = a
      /\ Tabs(t) = IdsOf(ws) /\ Panes(t) = PanesOf(ws)
  BY <1>1, <1>2, <1>4, <1>5, SessionRebuilt
<1> HIDE DEF t
<1>7. Revised(r, t, (Panes(r) \ Held(r.windows[k])) \cup Held(w))
  BY <1>2, <1>4, <1>6 DEF Revised
<1> QED
  BY <1>3, <1>6, <1>7 DEF t, ws

\* A session whose tabs change and are numbered again.
LEMMA SessionTabs ==
  ASSUME NEW r, Good(r), NEW n \in Nat \ {0}, NEW ws, GoodTabs(ws, n), NEW a \in IdsOf(ws),
         \A w \in IdsOf(ws) \ Tabs(r) : w >= r.next
  PROVE  LET t == Rebuilt(r, Renumbered(ws), n, a)
         IN  Revised(r, t, PanesOf(ws)) /\ t.windows = Renumbered(ws) /\ t.active = a
<1> DEFINE t == Rebuilt(r, Renumbered(ws), n, a)
<1>1. r \in SessionType /\ n \in Nat
  BY SessionParts
<1>2. /\ GoodTabs(Renumbered(ws), n) /\ Numbered(Renumbered(ws))
      /\ IdsOf(Renumbered(ws)) = IdsOf(ws) /\ PanesOf(Renumbered(ws)) = PanesOf(ws)
  BY <1>1, TabsRenumbered
<1>3. /\ Good(t) /\ t.id = r.id /\ t.windows = Renumbered(ws) /\ t.active = a
      /\ Tabs(t) = IdsOf(ws) /\ Panes(t) = PanesOf(ws)
  BY <1>1, <1>2, SessionRebuilt
<1> HIDE DEF t
<1> QED
  BY <1>3 DEF Revised, t

\* Append is an insertion behind the last element.
LEMMA AppendInserts ==
  ASSUME NEW S, NEW s \in Seq(S), NEW e \in S
  PROVE  Append(s, e) = InsertAt(s, Len(s) + 1, e)
<1> DEFINE a == Append(s, e)
           b == InsertAt(s, Len(s) + 1, e)
<1>1. Len(s) \in Nat
  BY LenProperties
<1>2. /\ a \in Seq(S) /\ Len(a) = Len(s) + 1 /\ a[Len(s) + 1] = e
      /\ \A i \in 1 .. Len(s) : a[i] = s[i]
  BY AppendProperties
<1>3. PICK k \in 1 .. Len(s) + 1 : k = Len(s) + 1
  BY <1>1
<1>4. /\ b \in Seq(S) /\ Len(b) = Len(s) + 1
      /\ \A j \in 1 .. Len(s) + 1 : b[j] = IF j = k THEN e ELSE s[IF j < k THEN j ELSE j - 1]
  <2>1. /\ InsertAt(s, k, e) \in Seq(S) /\ Len(InsertAt(s, k, e)) = Len(s) + 1
        /\ \A j \in 1 .. Len(s) + 1 :
             InsertAt(s, k, e)[j] = IF j = k THEN e ELSE s[IF j < k THEN j ELSE j - 1]
    BY Insertion
  <2> QED
    BY <1>3, <2>1
<1> HIDE DEF a, b
<1>5. \A i \in 1 .. Len(a) : a[i] = b[i]
  BY <1>1, <1>2, <1>3, <1>4
<1>6. a = b
  BY <1>2, <1>4, <1>5, SeqEqual
<1> QED
  BY <1>6 DEF a, b

\* Replacing one element and removing another, in either order.
LEMMA ReplaceThenRemove ==
  ASSUME NEW S, NEW s \in Seq(S), NEW i \in 1 .. Len(s), NEW j \in 1 .. Len(s), i # j, NEW e \in S
  PROVE  LET l == IF j < i THEN j ELSE j - 1
         IN  /\ l \in 1 .. Len(RemoveAt(s, i)) /\ RemoveAt(s, i)[l] = s[j]
             /\ RemoveAt(Put(s, j, e), i) = Put(RemoveAt(s, i), l, e)
<1> DEFINE l == IF j < i THEN j ELSE j - 1
           a == RemoveAt(Put(s, j, e), i)
           u == RemoveAt(s, i)
           b == Put(u, l, e)
           v == Put(s, j, e)
<1>1. Len(s) \in Nat
  BY LenProperties
<1>2. /\ v \in Seq(S) /\ Len(v) = Len(s)
      /\ \A m \in 1 .. Len(s) : v[m] = IF m = j THEN e ELSE s[m]
  BY ExceptSeq DEF Put
<1> HIDE DEF v
<1>3. /\ RemoveAt(v, i) \in Seq(S) /\ Len(RemoveAt(v, i)) = Len(s) - 1
      /\ \A m \in 1 .. Len(s) - 1 : RemoveAt(v, i)[m] = v[IF m < i THEN m ELSE m + 1]
  BY <1>2, Removal
<1>4. a = RemoveAt(v, i)
  BY DEF v
<1>5. /\ u \in Seq(S) /\ Len(u) = Len(s) - 1
      /\ \A m \in 1 .. Len(s) - 1 : u[m] = s[IF m < i THEN m ELSE m + 1]
  BY Removal
<1> HIDE DEF u, a
<1>6. l \in 1 .. Len(s) - 1 /\ (IF l < i THEN l ELSE l + 1) = j
  BY <1>1
<1>7. l \in 1 .. Len(u) /\ u[l] = s[j]
  BY <1>5, <1>6
<1>8. /\ b \in Seq(S) /\ Len(b) = Len(s) - 1
      /\ \A m \in 1 .. Len(s) - 1 : b[m] = IF m = l THEN e ELSE u[m]
  BY <1>5, <1>7, ExceptSeq DEF Put
<1>9. \A m \in 1 .. Len(s) - 1 : m = l <=> (IF m < i THEN m ELSE m + 1) = j
  BY <1>1
<1> HIDE DEF b, l
<1>10. \A m \in 1 .. Len(s) - 1 : (IF m < i THEN m ELSE m + 1) \in 1 .. Len(s)
  BY <1>1
<1>11. ASSUME NEW m \in 1 .. Len(a)
       PROVE  a[m] = b[m]
  <2> DEFINE x == IF m < i THEN m ELSE m + 1
  <2>1. m \in 1 .. Len(s) - 1
    BY <1>3, <1>4
  <2>2. x \in 1 .. Len(s) /\ (m = l <=> x = j)
    BY <1>9, <1>10, <2>1
  <2>3. a[m] = v[x] /\ u[m] = s[x]
    BY <1>3, <1>4, <1>5, <2>1
  <2>4. b[m] = IF m = l THEN e ELSE u[m]
    BY <1>8, <2>1
  <2> HIDE DEF x
  <2>5. v[x] = IF x = j THEN e ELSE s[x]
    BY <1>2, <2>2
  <2> QED
    BY <2>2, <2>3, <2>4, <2>5
<1>12. a = b
  BY <1>3, <1>4, <1>8, <1>11, SeqEqual
<1> QED
  BY <1>7, <1>12 DEF a, b, l, u

\* new_window.
LEMMA SessionNewTab ==
  ASSUME NEW r, Good(r), NEW p \in PaneId, p \notin Panes(r)
  PROVE  Revised(r, [r EXCEPT !.windows = Append(@, Tab(NextTab(r), Len(@) + 1, p)),
                              !.active = NextTab(r), !.next = @ + 1], Panes(r) \cup {p})
<1> DEFINE w == Tab(r.next, Len(r.windows) + 1, p)
           ws == Append(r.windows, w)
           t == Rebuilt(r, ws, r.next + 1, r.next)
<1>1. /\ r \in SessionType /\ GoodTabs(r.windows, r.next) /\ r.next \in Nat \ {0}
      /\ Len(r.windows) \in Nat /\ r.windows \in Seq(TabType)
      /\ DOMAIN r.windows = 1 .. Len(r.windows)
  BY SessionParts
<1>2. /\ Tabs(r) = IdsOf(r.windows) /\ Panes(r) = PanesOf(r.windows)
      /\ \A x \in Tabs(r) : x \in Nat /\ x < r.next
  BY SessionParts
<1>3. [r EXCEPT !.windows = Append(@, Tab(NextTab(r), Len(@) + 1, p)),
                !.active = NextTab(r), !.next = @ + 1] = t
  BY <1>1 DEF Rebuilt, SessionType, NextTab
<1>4. GoodTab(w) /\ Held(w) = {p} /\ w.id = r.next /\ w.index = Len(r.windows) + 1
  <2> DEFINE n == r.next
             k == Len(r.windows) + 1
  <2>1. n \in PaneId /\ k \in Nat
    BY <1>1 DEF PaneId
  <2>2. w = Tab(n, k, p)
    OBVIOUS
  <2> HIDE DEF n, k
  <2>3. /\ GoodTab(Tab(n, k, p)) /\ ToSet(Tab(n, k, p).panes) = {p}
        /\ Tab(n, k, p).id = n /\ Tab(n, k, p).index = k
    BY <2>1, TabNew
  <2> QED
    BY <2>2, <2>3 DEF Held, n, k
<1> HIDE DEF w
<1>5. w \in TabType
  BY <1>4 DEF GoodTab
<1>6. ws = InsertAt(r.windows, Len(r.windows) + 1, w)
  BY <1>1, <1>5, AppendInserts
<1>7. w.id \notin IdsOf(r.windows) /\ Held(w) \cap PanesOf(r.windows) = {}
  BY <1>1, <1>2, <1>4
<1>8. Len(r.windows) + 1 \in 1 .. Len(r.windows) + 1 /\ r.next <= r.next + 1 /\ w.id < r.next + 1
      /\ r.next + 1 \in Nat \ {0}
  BY <1>1, <1>4
<1>9. /\ GoodTabs(ws, r.next + 1)
      /\ IdsOf(ws) = IdsOf(r.windows) \cup {r.next}
      /\ PanesOf(ws) = PanesOf(r.windows) \cup {p}
  BY <1>1, <1>4, <1>6, <1>7, <1>8, TabInserted
<1>10. Numbered(ws)
  <2>1. /\ Len(ws) = Len(r.windows) + 1 /\ ws \in Seq(TabType)
        /\ \A i \in 1 .. Len(r.windows) : ws[i] = r.windows[i]
        /\ ws[Len(r.windows) + 1] = w
    BY <1>1, <1>5, AppendProperties
  <2> HIDE DEF ws
  <2>2. DOMAIN ws = 1 .. Len(r.windows) + 1
    BY <2>1, LenProperties
  <2>3. \A i \in 1 .. Len(r.windows) : r.windows[i].index = i
    BY <1>1 DEF Good, Numbered
  <2> QED
    BY <1>1, <1>4, <2>1, <2>2, <2>3 DEF Numbered
<1> HIDE DEF ws
<1>11. r.next \in IdsOf(ws)
  BY <1>9
<1>12. Good(t) /\ t.id = r.id /\ Tabs(t) = IdsOf(ws) /\ Panes(t) = PanesOf(ws)
  BY <1>1, <1>8, <1>9, <1>10, <1>11, SessionRebuilt
<1> HIDE DEF t
<1>13. \A x \in Tabs(t) \ Tabs(r) : x >= r.next
  BY <1>1, <1>2, <1>9, <1>12
<1> QED
  BY <1>2, <1>3, <1>9, <1>12, <1>13 DEF Revised

\* clamp_move_index stays within the tabs.
LEMMA Clamped ==
  ASSUME NEW n \in Nat \ {0}, NEW i \in 1 .. n, NEW delta \in Int
  PROVE  ClampMoveIndex(i, delta, n) \in 1 .. n
BY DEF ClampMoveIndex

\* wrap_index stays within the positions.
LEMMA Wrapped ==
  ASSUME NEW n \in Nat \ {0}, NEW i \in 1 .. n, NEW delta \in Int
  PROVE  WrapIndex(i, delta, n) \in 1 .. n
<1>1. i - 1 + delta \in Int
  OBVIOUS
<1>2. \A x \in Int : x % n \in 0 .. n - 1
  OBVIOUS
<1>3. (i - 1 + delta) % n \in 0 .. n - 1
  BY <1>1, <1>2
<1> QED
  BY <1>3 DEF WrapIndex

\* move_window.
LEMMA SessionMoved ==
  ASSUME NEW r, Good(r), NEW w \in Tabs(r), NEW delta \in Int
  PROVE  Revised(r, Moved(r, w, delta), Panes(r))
<1> DEFINE k == TabPos(r, w)
           vs == RemoveAt(r.windows, k)
           c == ClampMoveIndex(k, delta, Len(r.windows))
           ws == InsertAt(vs, c, r.windows[k])
<1>1. /\ r \in SessionType /\ GoodTabs(r.windows, r.next) /\ r.next \in Nat \ {0}
      /\ Len(r.windows) \in Nat \ {0} /\ DOMAIN r.windows = 1 .. Len(r.windows)
      /\ Tabs(r) = IdsOf(r.windows) /\ Panes(r) = PanesOf(r.windows)
  BY SessionParts
<1>2. k \in DOMAIN r.windows /\ r.windows[k].id = w
  BY TabPosition
<1> HIDE DEF k
<1>3. GoodTab(r.windows[k]) /\ r.windows[k].id < r.next /\ Held(r.windows[k]) \subseteq Panes(r)
  BY <1>2, SessionParts
<1>4. /\ GoodTabs(vs, r.next) /\ Len(vs) = Len(r.windows) - 1
      /\ IdsOf(vs) = IdsOf(r.windows) \ {w}
      /\ PanesOf(vs) = PanesOf(r.windows) \ Held(r.windows[k])
  BY <1>1, <1>2, TabRemoved
<1>5. c \in 1 .. Len(r.windows)
  BY <1>1, <1>2, Clamped
<1> HIDE DEF vs, c
<1>6. c \in 1 .. Len(vs) + 1
  BY <1>1, <1>4, <1>5
<1>7. /\ GoodTabs(ws, r.next) /\ IdsOf(ws) = IdsOf(vs) \cup {w}
      /\ PanesOf(ws) = PanesOf(vs) \cup Held(r.windows[k])
  <2>1. r.windows[k].id \notin IdsOf(vs) /\ Held(r.windows[k]) \cap PanesOf(vs) = {}
    BY <1>2, <1>4
  <2>2. r.next \in Nat /\ r.next <= r.next
    BY <1>1
  <2> QED
    BY <1>2, <1>3, <1>4, <1>6, <2>1, <2>2, TabInserted
<1> HIDE DEF ws
<1>8. IdsOf(ws) = Tabs(r) /\ PanesOf(ws) = Panes(r) /\ w \in IdsOf(ws)
  BY <1>1, <1>3, <1>4, <1>7
<1>9. Moved(r, w, delta) = Rebuilt(r, Renumbered(ws), r.next, w)
  BY <1>1 DEF Moved, Rebuilt, SessionType, ws, vs, c, k
<1> QED
  BY <1>1, <1>7, <1>8, <1>9, SessionTabs

\* merge_windows.
LEMMA SessionMerged ==
  ASSUME NEW r, Good(r), NEW a \in Tabs(r), NEW b \in Tabs(r), a # b
  PROVE  LET from == r.windows[TabPos(r, a)]
             merged == [r.windows[TabPos(r, b)] EXCEPT !.panes = @ \o from.panes,
                                                       !.active = from.active]
         IN  Revised(r, [r EXCEPT !.windows = Renumbered(RemoveAt([@ EXCEPT ![TabPos(r, b)] = merged],
                                                                  TabPos(r, a))),
                                  !.active = b], Panes(r))
<1> DEFINE i == TabPos(r, a)
           j == TabPos(r, b)
           from == r.windows[i]
           merged == [r.windows[j] EXCEPT !.panes = @ \o from.panes, !.active = from.active]
           vs == RemoveAt(r.windows, i)
           l == IF j < i THEN j ELSE j - 1
           ws == Put(vs, l, merged)
<1>1. /\ r \in SessionType /\ GoodTabs(r.windows, r.next) /\ r.next \in Nat \ {0}
      /\ Len(r.windows) \in Nat \ {0} /\ DOMAIN r.windows = 1 .. Len(r.windows)
      /\ r.windows \in Seq(TabType)
      /\ Tabs(r) = IdsOf(r.windows) /\ Panes(r) = PanesOf(r.windows)
  BY SessionParts
<1>2. /\ i \in DOMAIN r.windows /\ r.windows[i].id = a
      /\ j \in DOMAIN r.windows /\ r.windows[j].id = b
  BY TabPosition
<1> HIDE DEF i, j
<1>3. i # j
  BY <1>2
<1>4. /\ GoodTab(r.windows[i]) /\ GoodTab(r.windows[j])
      /\ Held(r.windows[i]) \cap Held(r.windows[j]) = {}
      /\ Held(r.windows[i]) \subseteq Panes(r) /\ Held(r.windows[j]) \subseteq Panes(r)
  <2>1. /\ GoodTab(r.windows[i]) /\ GoodTab(r.windows[j])
        /\ Held(r.windows[i]) \subseteq Panes(r) /\ Held(r.windows[j]) \subseteq Panes(r)
    BY <1>2, SessionParts
  <2> QED
    BY <1>1, <1>2, <1>3, <2>1 DEF GoodTabs
<1>5. /\ GoodTab(merged) /\ merged.id = b
      /\ Held(merged) = Held(r.windows[j]) \cup Held(r.windows[i])
  BY <1>2, <1>4, TabMerged DEF Held
<1> HIDE DEF merged
<1>6. /\ GoodTabs(vs, r.next)
      /\ IdsOf(vs) = IdsOf(r.windows) \ {a}
      /\ PanesOf(vs) = PanesOf(r.windows) \ Held(r.windows[i])
  BY <1>1, <1>2, TabRemoved
<1>7. /\ l \in 1 .. Len(vs) /\ vs[l] = r.windows[j]
      /\ RemoveAt(Put(r.windows, j, merged), i) = ws
  BY <1>1, <1>2, <1>3, <1>5, ReplaceThenRemove DEF GoodTab
<1> HIDE DEF vs, l
<1>8. l \in DOMAIN vs
  BY <1>6, <1>7, LenProperties DEF GoodTabs
<1>9. /\ GoodTabs(ws, r.next) /\ IdsOf(ws) = IdsOf(vs)
      /\ PanesOf(ws) = (PanesOf(vs) \ Held(vs[l])) \cup Held(merged)
  <2>1. merged.id = vs[l].id /\ Held(merged) \cap PanesOf(vs) \subseteq Held(vs[l])
    BY <1>2, <1>5, <1>6, <1>7
  <2>2. r.next \in Nat /\ GoodTab(merged)
    BY <1>1, <1>5
  <2> QED
    BY <1>6, <1>8, <2>1, <2>2, TabReplaced
<1> HIDE DEF ws
<1>10. PanesOf(ws) = Panes(r) /\ b \in IdsOf(ws) /\ IdsOf(ws) \subseteq Tabs(r)
  BY <1>1, <1>4, <1>5, <1>6, <1>7, <1>9
<1>11. [r EXCEPT !.windows = Renumbered(ws), !.active = b] = Rebuilt(r, Renumbered(ws), r.next, b)
  BY <1>1 DEF Rebuilt, SessionType
<1>12. Revised(r, [r EXCEPT !.windows = Renumbered(ws), !.active = b], Panes(r))
  BY <1>1, <1>9, <1>10, <1>11, SessionTabs
<1> QED
  BY <1>7, <1>12 DEF i, j, merged, Put

\* split_pane.
LEMMA SessionSplit ==
  ASSUME NEW r, Good(r), NEW p \in Panes(r), NEW q \in PaneId, q \notin Panes(r)
  PROVE  LET k == Home(r, p)
         IN  Revised(r, [WithTab(r, k, [r.windows[k] EXCEPT !.panes = Append(@, q), !.active = q])
                           EXCEPT !.active = r.windows[k].id], Panes(r) \cup {q})
<1> DEFINE k == Home(r, p)
           w == r.windows[k]
           v == [w EXCEPT !.panes = Append(@, q), !.active = q]
<1>1. k \in DOMAIN r.windows /\ p \in Held(w)
  BY HomePosition
<1> HIDE DEF k
<1>2. GoodTab(w) /\ w.id \in Tabs(r) /\ Held(w) \subseteq Panes(r)
  BY <1>1, SessionParts
<1>3. q \notin ToSet(w.panes)
  BY <1>2 DEF Held
<1>4. GoodTab(v) /\ v.id = w.id /\ v.index = w.index /\ Held(v) = Held(w) \cup {q}
  BY <1>2, <1>3, TabSplit DEF Held
<1> HIDE DEF v
<1>5. Held(v) \cap Panes(r) \subseteq Held(w)
  BY <1>4
<1>6. Revised(r, [WithTab(r, k, v) EXCEPT !.active = w.id], (Panes(r) \ Held(w)) \cup Held(v))
  BY <1>1, <1>2, <1>4, <1>5, SessionTab
<1>7. (Panes(r) \ Held(w)) \cup Held(v) = Panes(r) \cup {q}
  BY <1>2, <1>4
<1> QED
  BY <1>6, <1>7 DEF v, k

\* activate_pane, select_directional_pane and select_relative_pane.
LEMMA SessionFocused ==
  ASSUME NEW r, Good(r), NEW w \in Tabs(r), NEW p \in ToSet(r.windows[TabPos(r, w)].panes)
  PROVE  LET k == TabPos(r, w)
         IN  Revised(r, [WithTab(r, k, [r.windows[k] EXCEPT !.active = p]) EXCEPT !.active = w],
                     Panes(r))
<1> DEFINE k == TabPos(r, w)
           u == r.windows[k]
           v == [u EXCEPT !.active = p]
<1>1. k \in DOMAIN r.windows /\ u.id = w
  BY TabPosition
<1>2. p \in ToSet(u.panes)
  OBVIOUS
<1> HIDE DEF k
<1>3. GoodTab(u) /\ Held(u) \subseteq Panes(r)
  BY <1>1, SessionParts
<1>4. GoodTab(v) /\ v.id = u.id /\ v.index = u.index /\ Held(v) = Held(u)
  BY <1>2, <1>3, TabActivated DEF Held
<1> HIDE DEF v
<1>5. Revised(r, [WithTab(r, k, v) EXCEPT !.active = w], (Panes(r) \ Held(u)) \cup Held(v))
  BY <1>1, <1>3, <1>4, SessionTab
<1>6. (Panes(r) \ Held(u)) \cup Held(v) = Panes(r)
  BY <1>3, <1>4
<1> QED
  BY <1>5, <1>6 DEF v, k

\* activate_relative_window.
LEMMA SessionWrapped ==
  ASSUME NEW r, Good(r), NEW delta \in Int
  PROVE  Revised(r, [r EXCEPT !.active =
                       r.windows[WrapIndex(TabPos(r, @), delta, Len(r.windows))].id], Panes(r))
<1> DEFINE k == WrapIndex(TabPos(r, r.active), delta, Len(r.windows))
<1>1. r.active \in Tabs(r)
  BY DEF Good
<1>2. Len(r.windows) \in Nat \ {0} /\ DOMAIN r.windows = 1 .. Len(r.windows) /\ r \in SessionType
  BY SessionParts
<1>3. TabPos(r, r.active) \in 1 .. Len(r.windows)
  BY <1>1, <1>2, TabPosition
<1>4. k \in 1 .. Len(r.windows)
  BY <1>2, <1>3, Wrapped
<1> HIDE DEF k
<1>5. r.windows[k].id \in Tabs(r)
  BY <1>2, <1>4 DEF Tabs
<1>6. Revised(r, [r EXCEPT !.active = r.windows[k].id], Panes(r))
  BY <1>5, SessionSelecting
<1> QED
  BY <1>2, <1>6 DEF k, SessionType

\* swap_panes between two tabs, v and u for the a-th and the b-th.
LEMMA TabsTraded ==
  ASSUME NEW ws, NEW n \in Nat, GoodTabs(ws, n), NEW a \in DOMAIN ws, NEW b \in DOMAIN ws, a # b,
         NEW p \in Held(ws[a]), NEW q \in Held(ws[b]),
         NEW v, GoodTab(v), v.id = ws[a].id, Held(v) = (Held(ws[a]) \ {p}) \cup {q},
         NEW u, GoodTab(u), u.id = ws[b].id, Held(u) = (Held(ws[b]) \ {q}) \cup {p}
  PROVE  /\ GoodTabs(Put(Put(ws, a, v), b, u), n)
         /\ DOMAIN Put(Put(ws, a, v), b, u) = DOMAIN ws
         /\ \A i \in DOMAIN ws : Put(Put(ws, a, v), b, u)[i] = IF i = b THEN u
                                                            ELSE IF i = a THEN v ELSE ws[i]
         /\ IdsOf(Put(Put(ws, a, v), b, u)) = IdsOf(ws)
         /\ PanesOf(Put(Put(ws, a, v), b, u)) = PanesOf(ws)
<1> DEFINE x == Put(ws, a, v)
           y == Put(x, b, u)
<1>1. /\ ws \in Seq(TabType) /\ Len(ws) \in Nat /\ DOMAIN ws = 1 .. Len(ws)
      /\ v \in TabType /\ u \in TabType
  BY LenProperties DEF GoodTabs, GoodTab
<1>2. /\ x \in Seq(TabType) /\ Len(x) = Len(ws) /\ DOMAIN x = DOMAIN ws
      /\ \A i \in DOMAIN ws : x[i] = IF i = a THEN v ELSE ws[i]
  BY <1>1, ExceptSeq DEF Put
<1> HIDE DEF x
<1>3. /\ y \in Seq(TabType) /\ DOMAIN y = DOMAIN ws
      /\ \A i \in DOMAIN ws : y[i] = IF i = b THEN u ELSE x[i]
  BY <1>1, <1>2, ExceptSeq DEF Put
<1> HIDE DEF y
<1>4. \A i \in DOMAIN ws : y[i] = IF i = b THEN u ELSE IF i = a THEN v ELSE ws[i]
  BY <1>2, <1>3
<1>5. \A i, j \in DOMAIN ws : i # j => Held(ws[i]) \cap Held(ws[j]) = {} /\ ws[i].id # ws[j].id
  BY DEF GoodTabs
<1>6. \A i \in DOMAIN ws : y[i].id = ws[i].id /\ GoodTab(y[i]) /\ y[i].id < n
  BY <1>4 DEF GoodTabs
<1>7. /\ Held(v) \cap Held(u) = {}
      /\ \A i \in DOMAIN ws : i # a /\ i # b => /\ Held(ws[i]) \cap Held(v) = {}
                                                /\ Held(ws[i]) \cap Held(u) = {}
  BY <1>5
<1>8. \A i, j \in DOMAIN ws : i # j => Held(y[i]) \cap Held(y[j]) = {}
  BY <1>4, <1>5, <1>7
<1>9. GoodTabs(y, n)
  BY <1>3, <1>5, <1>6, <1>8 DEF GoodTabs
<1>10. IdsOf(y) = IdsOf(ws)
  BY <1>3, <1>6 DEF IdsOf
<1>11. PanesOf(y) = PanesOf(ws)
  <2>1. ASSUME NEW z \in PanesOf(y)
        PROVE  z \in PanesOf(ws)
    <3>1. PICK i \in DOMAIN ws : z \in Held(y[i])
      BY <1>3, PanesOfTabs
    <3>2. z \in Held(ws[i]) \/ z \in Held(ws[a]) \/ z \in Held(ws[b])
      BY <1>4, <3>1
    <3> QED
      BY <3>2, PanesOfTabs
  <2>2. ASSUME NEW z \in PanesOf(ws)
        PROVE  z \in PanesOf(y)
    <3>1. PICK i \in DOMAIN ws : z \in Held(ws[i])
      BY PanesOfTabs
    <3>2. y[a] = v /\ y[b] = u
      BY <1>4
    <3>3. z \in Held(y[i]) \/ z \in Held(y[a]) \/ z \in Held(y[b])
      BY <1>4, <3>1, <3>2
    <3> QED
      BY <1>3, <3>3, PanesOfTabs
  <2> QED
    BY <2>1, <2>2
<1> QED
  BY <1>3, <1>4, <1>9, <1>10, <1>11 DEF x, y

\* swap_panes.
LEMMA SessionSwapped ==
  ASSUME NEW r, Good(r), NEW p \in Panes(r), NEW q \in Panes(r), p # q
  PROVE  Revised(r, [Swapped(r, p, q) EXCEPT !.active = r.windows[Home(r, q)].id], Panes(r))
<1> DEFINE a == Home(r, p)
           b == Home(r, q)
           i == PanePos(r.windows[a], p)
           j == PanePos(r.windows[b], q)
           dest == r.windows[b].id
<1>1. /\ a \in DOMAIN r.windows /\ b \in DOMAIN r.windows
      /\ p \in Held(r.windows[a]) /\ q \in Held(r.windows[b]) /\ p \in PaneId /\ q \in PaneId
      /\ \A k \in DOMAIN r.windows : p \in Held(r.windows[k]) => k = a
      /\ \A k \in DOMAIN r.windows : q \in Held(r.windows[k]) => k = b
  BY HomePosition
<1>2. /\ GoodTab(r.windows[a]) /\ GoodTab(r.windows[b]) /\ dest \in Tabs(r)
      /\ Held(r.windows[a]) \subseteq Panes(r) /\ Held(r.windows[b]) \subseteq Panes(r)
  BY <1>1, SessionParts
<1>3. CASE a = b
  <2> DEFINE w == r.windows[a]
             v == Exchanged(w, p, q)
  <2>1. Swapped(r, p, q) = WithTab(r, a, v)
    BY <1>3 DEF Swapped, Exchanged
  <2>3. p \in ToSet(w.panes) /\ q \in ToSet(w.panes) /\ GoodTab(w)
    BY <1>1, <1>2, <1>3 DEF Held
  <2> HIDE DEF a, b
  <2>4. GoodTab(v) /\ v.id = w.id /\ v.index = w.index /\ ToSet(v.panes) = ToSet(w.panes)
    BY <2>3, TabSwapped
  <2> HIDE DEF v
  <2>5. Held(v) = Held(w)
    BY <2>4 DEF Held
  <2>6. Revised(r, [WithTab(r, a, v) EXCEPT !.active = dest], (Panes(r) \ Held(w)) \cup Held(v))
    BY <1>1, <1>2, <2>4, <2>5, SessionTab
  <2>7. (Panes(r) \ Held(w)) \cup Held(v) = Panes(r)
    BY <1>2, <2>5
  <2> QED
    BY <2>1, <2>6, <2>7 DEF b
<1>4. CASE a # b
  <2> DEFINE w == r.windows[a]
             x == r.windows[b]
             c == IF w.active = p THEN q ELSE w.active
             v == Trading(w, p, q, c)
             u == Trading(x, q, p, p)
             ws == Put(Put(r.windows, a, v), b, u)
  <2>1. Swapped(r, p, q) = WithTab(WithTab(r, a, v), b, u)
    <3>1. [w EXCEPT !.panes[i] = q, !.active = IF @ = p THEN q ELSE @] = v
      BY <1>2 DEF GoodTab, TabType, Trading
    <3>2. [x EXCEPT !.panes[j] = p, !.active = p] = u
      BY DEF Trading
    <3> QED
      BY <1>4, <3>1, <3>2 DEF Swapped
  <2>2. p \in ToSet(w.panes) /\ q \notin ToSet(w.panes) /\ q \in ToSet(x.panes) /\ p \notin ToSet(x.panes)
    BY <1>1, <1>4 DEF Held
  <2> HIDE DEF a, b
  <2>3. c \in ToSet(w.panes) \ {p} \/ c = q
    BY <1>2 DEF GoodTab
  <2> HIDE DEF c
  <2>5. /\ GoodTab(v) /\ v.id = w.id /\ v.index = w.index
        /\ ToSet(v.panes) = (ToSet(w.panes) \ {p}) \cup {q}
    <3>1. GoodTab(w) /\ q \in PaneId /\ p \in ToSet(w.panes) /\ q \notin ToSet(w.panes)
      BY <1>1, <1>2, <2>2
    <3> HIDE DEF w
    <3> QED
      BY <2>3, <3>1, TabTraded
  <2>6. /\ GoodTab(u) /\ u.id = x.id /\ u.index = x.index
        /\ ToSet(u.panes) = (ToSet(x.panes) \ {q}) \cup {p}
    <3>1. GoodTab(x) /\ p \in PaneId /\ q \in ToSet(x.panes) /\ p \notin ToSet(x.panes)
      BY <1>1, <1>2, <2>2
    <3> HIDE DEF x
    <3> QED
      BY <3>1, TabTraded
  <2> HIDE DEF v, u
  <2>7. Held(v) = (Held(w) \ {p}) \cup {q} /\ Held(u) = (Held(x) \ {q}) \cup {p}
    BY <2>5, <2>6 DEF Held
  <2>8. /\ r \in SessionType /\ r.next \in Nat \ {0} /\ r.next \in Nat /\ GoodTabs(r.windows, r.next)
        /\ Tabs(r) = IdsOf(r.windows) /\ Panes(r) = PanesOf(r.windows)
        /\ \A k \in DOMAIN r.windows : r.windows[k].index = k
    BY SessionParts
  <2>9. /\ GoodTabs(ws, r.next) /\ DOMAIN ws = DOMAIN r.windows
        /\ \A k \in DOMAIN r.windows : ws[k] = IF k = b THEN u ELSE IF k = a THEN v ELSE r.windows[k]
        /\ IdsOf(ws) = Tabs(r) /\ PanesOf(ws) = Panes(r)
    BY <1>1, <1>4, <2>5, <2>6, <2>7, <2>8, TabsTraded
  <2>10. [WithTab(WithTab(r, a, v), b, u) EXCEPT !.active = dest] = Rebuilt(r, ws, r.next, dest)
    BY <2>8 DEF WithTab, Rebuilt, Put, SessionType
  <2> HIDE DEF ws
  <2>11. Numbered(ws)
    BY <2>5, <2>6, <2>8, <2>9 DEF Numbered
  <2> DEFINE t == Rebuilt(r, ws, r.next, dest)
  <2>12. Good(t) /\ t.id = r.id /\ Tabs(t) = IdsOf(ws) /\ Panes(t) = PanesOf(ws)
    BY <1>2, <2>8, <2>9, <2>11, SessionRebuilt
  <2> HIDE DEF t
  <2>13. Revised(r, t, Panes(r))
    BY <2>9, <2>12 DEF Revised
  <2> QED
    BY <2>1, <2>10, <2>13 DEF t, b
<1> QED
  BY <1>3, <1>4

\* Removing the element that was replaced.
LEMMA RemoveReplaced ==
  ASSUME NEW S, NEW s \in Seq(S), NEW i \in 1 .. Len(s), NEW e \in S
  PROVE  RemoveAt(Put(s, i, e), i) = RemoveAt(s, i)
<1> DEFINE v == Put(s, i, e)
           a == RemoveAt(v, i)
           b == RemoveAt(s, i)
<1>1. Len(s) \in Nat
  BY LenProperties
<1>2. /\ v \in Seq(S) /\ Len(v) = Len(s)
      /\ \A m \in 1 .. Len(s) : v[m] = IF m = i THEN e ELSE s[m]
  BY ExceptSeq DEF Put
<1> HIDE DEF v
<1>3. /\ a \in Seq(S) /\ Len(a) = Len(s) - 1
      /\ \A m \in 1 .. Len(s) - 1 : a[m] = v[IF m < i THEN m ELSE m + 1]
  BY <1>2, Removal
<1>4. /\ b \in Seq(S) /\ Len(b) = Len(s) - 1
      /\ \A m \in 1 .. Len(s) - 1 : b[m] = s[IF m < i THEN m ELSE m + 1]
  BY Removal
<1> HIDE DEF a, b
<1>5. \A m \in 1 .. Len(s) - 1 : /\ (IF m < i THEN m ELSE m + 1) \in 1 .. Len(s)
                                 /\ (IF m < i THEN m ELSE m + 1) # i
  BY <1>1
<1>6. \A m \in 1 .. Len(a) : a[m] = b[m]
  BY <1>2, <1>3, <1>4, <1>5
<1>7. a = b
  BY <1>3, <1>4, <1>6, SeqEqual
<1> QED
  BY <1>7 DEF a, b, v

\* move_pane, what p leaves behind: its tab is dropped exactly when p was alone in it,
\* and the tab of another pane q keeps its identity.
LEMMA TabsLeft ==
  ASSUME NEW r, Good(r), NEW p \in Panes(r), NEW q \in Panes(r), p # q
  PROVE  LET h == Home(r, p)
             out == Retained(Put(r.windows, h, Without(r.windows[h], p)), h)
         IN  /\ GoodTabs(out, r.next) /\ PanesOf(out) = Panes(r) \ {p} /\ IdsOf(out) \subseteq Tabs(r)
             /\ \E k \in DOMAIN out : out[k].id = r.windows[Home(r, q)].id /\ q \in Held(out[k])
<1> DEFINE h == Home(r, p)
           g == Home(r, q)
           w == r.windows[h]
           v == Without(w, p)
           ws == Put(r.windows, h, v)
           out == Retained(ws, h)
           dest == r.windows[g].id
<1>1. /\ h \in DOMAIN r.windows /\ g \in DOMAIN r.windows
      /\ p \in Held(r.windows[h]) /\ q \in Held(r.windows[g])
      /\ \A k \in DOMAIN r.windows : q \in Held(r.windows[k]) => k = g
  BY HomePosition
<1> HIDE DEF h, g
<1>2. /\ GoodTab(w) /\ Held(w) \subseteq Panes(r)
      /\ r.next \in Nat /\ GoodTabs(r.windows, r.next) /\ r.windows \in Seq(TabType)
      /\ Tabs(r) = IdsOf(r.windows) /\ Panes(r) = PanesOf(r.windows)
      /\ DOMAIN r.windows = 1 .. Len(r.windows)
  BY <1>1, SessionParts
<1>3. p \in ToSet(w.panes)
  BY <1>1 DEF Held
<1>4. /\ v \in TabType /\ v.id = w.id /\ v.panes = RemoveAt(w.panes, PanePos(w, p))
      /\ v.panes # << >> => GoodTab(v)
  BY <1>2, <1>3, TabWithout
<1>5. Held(v) = Held(w) \ {p} /\ (v.panes = << >> <=> Held(w) = {p})
  BY <1>2, <1>3, <1>4, PaneGone DEF Held
<1>6. ws[h] = v
  BY <1>1, <1>2, <1>4, ExceptSeq DEF Put
<1> HIDE DEF v
<1>7. CASE v.panes = << >>
  <2>1. out = RemoveAt(r.windows, h)
    BY <1>1, <1>2, <1>4, <1>6, <1>7, RemoveReplaced DEF Retained
  <2> HIDE DEF out
  <2>2. /\ GoodTabs(out, r.next)
        /\ \A j \in DOMAIN r.windows : j # h => \E i \in DOMAIN out : out[i] = r.windows[j]
        /\ IdsOf(out) = IdsOf(r.windows) \ {w.id}
        /\ PanesOf(out) = PanesOf(r.windows) \ Held(w)
    <3>1. /\ GoodTabs(RemoveAt(r.windows, h), r.next)
          /\ \A j \in DOMAIN r.windows :
               j # h => \E i \in DOMAIN RemoveAt(r.windows, h) : RemoveAt(r.windows, h)[i] = r.windows[j]
          /\ IdsOf(RemoveAt(r.windows, h)) = IdsOf(r.windows) \ {w.id}
          /\ PanesOf(RemoveAt(r.windows, h)) = PanesOf(r.windows) \ Held(w)
      BY <1>1, <1>2, TabRemoved
    <3> QED
      BY <2>1, <3>1
  <2>3. g # h
    BY <1>1, <1>5, <1>7
  <2>4. \E k \in DOMAIN out : out[k].id = dest /\ q \in Held(out[k])
    BY <1>1, <2>2, <2>3
  <2> QED
    BY <1>2, <1>5, <1>7, <2>2, <2>4 DEF out, ws, v, h, g
<1>8. CASE v.panes # << >>
  <2>1. out = ws
    BY <1>6, <1>8 DEF Retained
  <2>2. GoodTab(v) /\ v.id = w.id /\ Held(v) \cap PanesOf(r.windows) \subseteq Held(w)
    BY <1>4, <1>5, <1>8
  <2>3. /\ GoodTabs(ws, r.next) /\ DOMAIN ws = DOMAIN r.windows
        /\ \A i \in DOMAIN r.windows : ws[i] = IF i = h THEN v ELSE r.windows[i]
        /\ IdsOf(ws) = IdsOf(r.windows)
        /\ PanesOf(ws) = (PanesOf(r.windows) \ Held(w)) \cup Held(v)
    BY <1>1, <1>2, <2>2, TabReplaced
  <2> HIDE DEF out, ws
  <2>4. PanesOf(ws) = Panes(r) \ {p}
    BY <1>1, <1>2, <1>5, <2>3
  <2>5. g \in DOMAIN ws /\ ws[g].id = dest /\ q \in Held(ws[g])
    BY <1>1, <1>4, <1>5, <2>3
  <2> QED
    BY <1>2, <2>1, <2>3, <2>4, <2>5 DEF out, ws, v, h, g
<1> QED
  BY <1>7, <1>8

\* move_pane.
LEMMA SessionMovedPane ==
  ASSUME NEW r, Good(r), NEW p \in Panes(r), NEW q \in Panes(r), p # q, NEW after \in BOOLEAN
  PROVE  LET dest == r.windows[Home(r, q)].id
             out == Retained([r.windows EXCEPT ![Home(r, p)] = Without(@, p)], Home(r, p))
             k == CHOOSE j \in DOMAIN out : out[j].id = dest
             beside == PanePos(out[k], q) + (IF after THEN 1 ELSE 0)
             joined == [out[k] EXCEPT !.panes = InsertAt(@, beside, p), !.active = p]
         IN  Revised(r, [r EXCEPT !.windows = Renumbered([out EXCEPT ![k] = joined]),
                                  !.active = dest], Panes(r))
<1> DEFINE h == Home(r, p)
           dest == r.windows[Home(r, q)].id
           out == Retained(Put(r.windows, h, Without(r.windows[h], p)), h)
           k == CHOOSE j \in DOMAIN out : out[j].id = dest
           beside == PanePos(out[k], q) + (IF after THEN 1 ELSE 0)
           joined == [out[k] EXCEPT !.panes = InsertAt(@, beside, p), !.active = p]
           ws == Put(out, k, joined)
<1>1. /\ GoodTabs(out, r.next) /\ PanesOf(out) = Panes(r) \ {p} /\ IdsOf(out) \subseteq Tabs(r)
      /\ \E j \in DOMAIN out : out[j].id = dest /\ q \in Held(out[j])
  BY TabsLeft
<1>2. p \in PaneId
  BY HomePosition
<1>3. /\ r \in SessionType /\ r.next \in Nat /\ r.next \in Nat \ {0}
      /\ r.windows \in Seq(TabType)
  BY SessionParts
<1>4. [r.windows EXCEPT ![h] = Without(@, p)] = Put(r.windows, h, Without(r.windows[h], p))
  <2>1. h \in DOMAIN r.windows
    BY HomePosition
  <2> QED
    BY <1>3, <2>1 DEF Put
<1> HIDE DEF out, dest
<1>5. k \in DOMAIN out /\ out[k].id = dest
  BY <1>1
<1> HIDE DEF k
<1>6. q \in Held(out[k])
  BY <1>1, <1>5 DEF GoodTabs
<1>7. GoodTab(out[k]) /\ Held(out[k]) \subseteq PanesOf(out)
  BY <1>1, <1>5, PanesOfTabs DEF GoodTabs
<1>8. p \notin ToSet(out[k].panes) /\ q \in ToSet(out[k].panes) /\ out[k] \in TabType
  BY <1>1, <1>6, <1>7 DEF Held, GoodTab
<1>9. beside \in 1 .. Len(out[k].panes) + 1
  <2>1. PanePos(out[k], q) \in 1 .. Len(out[k].panes) /\ Len(out[k].panes) \in Nat
    BY <1>8, PanePosition
  <2> QED
    BY <2>1
<1> HIDE DEF beside
<1>10. GoodTab(joined) /\ joined.id = out[k].id /\ Held(joined) = Held(out[k]) \cup {p}
  BY <1>2, <1>7, <1>8, <1>9, TabJoined DEF Held
<1> HIDE DEF joined
<1>11. Held(joined) \cap PanesOf(out) \subseteq Held(out[k])
  BY <1>1, <1>10
<1>12. /\ GoodTabs(ws, r.next) /\ IdsOf(ws) = IdsOf(out)
       /\ PanesOf(ws) = (PanesOf(out) \ Held(out[k])) \cup Held(joined)
  BY <1>1, <1>3, <1>5, <1>10, <1>11, TabReplaced
<1> HIDE DEF ws
<1>13. PanesOf(ws) = Panes(r)
  BY <1>1, <1>7, <1>10, <1>12
<1>14. dest \in IdsOf(ws) /\ IdsOf(ws) \subseteq Tabs(r)
  BY <1>1, <1>5, <1>12 DEF IdsOf
<1>15. [r EXCEPT !.windows = Renumbered(ws), !.active = dest]
         = Rebuilt(r, Renumbered(ws), r.next, dest)
  BY <1>3 DEF Rebuilt, SessionType
<1>16. Revised(r, [r EXCEPT !.windows = Renumbered(ws), !.active = dest], Panes(r))
  BY <1>3, <1>12, <1>13, <1>14, <1>15, SessionTabs
<1>17. ws = [out EXCEPT ![k] = joined]
  BY DEF ws, Put
<1>18. Revised(r, [r EXCEPT !.windows = Renumbered([out EXCEPT ![k] = joined]), !.active = dest],
               Panes(r))
  BY <1>16, <1>17
<1>19. out = Retained([r.windows EXCEPT ![h] = Without(@, p)], h)
  BY <1>4 DEF out
<1> HIDE DEF h
<1> QED
  BY <1>18, <1>19 DEF dest, k, beside, joined, h

\* extract_pane.
LEMMA SessionExtracted ==
  ASSUME NEW r, Good(r), NEW p \in Panes(r), Len(r.windows[Home(r, p)].panes) >= 2
  PROVE  LET k == Home(r, p)
             left == [r.windows EXCEPT ![k] = Without(@, p)]
         IN  Revised(r, [r EXCEPT !.windows = Renumbered(InsertAt(left, k + 1, Tab(NextTab(r), 0, p))),
                                  !.active = NextTab(r), !.next = @ + 1], Panes(r))
<1> DEFINE k == Home(r, p)
           w == r.windows[k]
           v == Without(w, p)
           left == [r.windows EXCEPT ![k] = Without(@, p)]
           vs == Put(r.windows, k, v)
           n == r.next
           new == Tab(n, 0, p)
           ws == InsertAt(vs, k + 1, new)
<1>1. k \in DOMAIN r.windows /\ p \in Held(w) /\ p \in PaneId /\ Len(w.panes) >= 2
  BY HomePosition
<1> HIDE DEF k
<1>2. /\ r \in SessionType /\ n \in Nat \ {0} /\ n \in Nat /\ GoodTabs(r.windows, n)
      /\ r.windows \in Seq(TabType) /\ Len(r.windows) \in Nat /\ DOMAIN r.windows = 1 .. Len(r.windows)
      /\ Tabs(r) = IdsOf(r.windows) /\ Panes(r) = PanesOf(r.windows)
      /\ \A x \in Tabs(r) : x \in Nat /\ x < n
      /\ GoodTab(w) /\ Held(w) \subseteq Panes(r)
  BY <1>1, SessionParts
<1>3. p \in ToSet(w.panes) /\ w \in TabType /\ Len(w.panes) \in Nat
  <2>1. p \in ToSet(w.panes) /\ w \in TabType
    BY <1>1, <1>2 DEF Held, GoodTab
  <2> QED
    BY <2>1, PanePosition
<1>4. /\ v.id = w.id /\ v.panes = RemoveAt(w.panes, PanePos(w, p))
      /\ v.panes # << >> => GoodTab(v)
  BY <1>2, <1>3, TabWithout
<1>5. Held(v) = Held(w) \ {p} /\ (v.panes = << >> <=> Len(w.panes) = 1)
  BY <1>2, <1>3, <1>4, PaneGone DEF Held
<1>6. v.panes # << >>
  <2>1. Len(w.panes) # 1
    <3> HIDE DEF w, v
    <3>1. Len(w.panes) >= 2
      BY <1>1
    <3>2. Len(w.panes) \in Nat
      BY <1>3
    <3>3. \A l \in Nat : l >= 2 => l # 1
      OBVIOUS
    <3> QED
      BY <3>1, <3>2, <3>3, Zenon
  <2> QED
    BY <1>5, <2>1
<1>7. [r EXCEPT !.windows = Renumbered(InsertAt(left, k + 1, Tab(NextTab(r), 0, p))),
                !.active = NextTab(r), !.next = @ + 1] = Rebuilt(r, Renumbered(ws), n + 1, n)
  <2>1. left = vs
    BY <1>1, <1>2 DEF Put
  <2> HIDE DEF vs, left
  <2> QED
    BY <1>2, <2>1 DEF NextTab, Rebuilt, SessionType
<1> HIDE DEF v
<1>8. Held(v) \cap PanesOf(r.windows) \subseteq Held(w)
  BY <1>5
<1>9. /\ GoodTabs(vs, n) /\ Len(vs) = Len(r.windows) /\ IdsOf(vs) = IdsOf(r.windows)
      /\ PanesOf(vs) = (PanesOf(r.windows) \ Held(w)) \cup Held(v)
  BY <1>1, <1>2, <1>4, <1>6, <1>8, TabReplaced
<1> HIDE DEF vs
<1>10. PanesOf(vs) = Panes(r) \ {p}
  BY <1>1, <1>2, <1>5, <1>9
<1>11. GoodTab(new) /\ Held(new) = {p} /\ new.id = n
  <2> DEFINE z == 0
  <2>1. n \in PaneId /\ z \in Nat /\ p \in PaneId
    BY <1>1, <1>2 DEF PaneId
  <2>2. new = Tab(n, z, p)
    OBVIOUS
  <2> HIDE DEF n, z
  <2>3. GoodTab(Tab(n, z, p)) /\ ToSet(Tab(n, z, p).panes) = {p} /\ Tab(n, z, p).id = n
    BY <2>1, TabNew
  <2> QED
    BY <2>2, <2>3 DEF Held
<1> HIDE DEF new
<1>12. new.id \notin IdsOf(vs) /\ Held(new) \cap PanesOf(vs) = {}
  BY <1>2, <1>9, <1>10, <1>11
<1>13. PICK l \in 1 .. Len(vs) + 1 : l = k + 1
  BY <1>1, <1>2, <1>9
<1>14. PICK m \in Nat \ {0} : m = n + 1
  BY <1>2
<1>15. n <= m /\ new.id < m /\ m \in Nat
  BY <1>2, <1>11, <1>14
<1>16. /\ GoodTabs(InsertAt(vs, l, new), m)
       /\ IdsOf(InsertAt(vs, l, new)) = IdsOf(vs) \cup {n}
       /\ PanesOf(InsertAt(vs, l, new)) = PanesOf(vs) \cup {p}
  <2>1. n \in Nat /\ m \in Nat /\ n <= m /\ GoodTabs(vs, n) /\ GoodTab(new) /\ new.id < m
    BY <1>2, <1>9, <1>11, <1>15
  <2> HIDE DEF n
  <2>2. /\ GoodTabs(InsertAt(vs, l, new), m)
        /\ IdsOf(InsertAt(vs, l, new)) = IdsOf(vs) \cup {new.id}
        /\ PanesOf(InsertAt(vs, l, new)) = PanesOf(vs) \cup Held(new)
    BY <1>12, <2>1, TabInserted
  <2> QED
    BY <1>11, <2>2
<1>17. ws = InsertAt(vs, l, new)
  BY <1>13
<1> HIDE DEF ws
<1>18. PanesOf(ws) = Panes(r) /\ n \in IdsOf(ws)
  BY <1>10, <1>16, <1>17
<1>19. \A x \in IdsOf(ws) \ Tabs(r) : x >= r.next
  BY <1>2, <1>9, <1>16, <1>17
<1>20. Revised(r, Rebuilt(r, Renumbered(ws), m, n), Panes(r))
  BY <1>16, <1>17, <1>18, <1>19, SessionTabs
<1> QED
  BY <1>7, <1>14, <1>20 DEF k

\* The focus is the active pane of the active tab.
LEMMA FocusAt ==
  ASSUME NEW r, Good(r)
  PROVE  /\ \A k \in DOMAIN r.windows : r.windows[k].id = r.active => Focus(r) = r.windows[k].active
         /\ Focus(r) \in Panes(r)
         /\ \E k \in DOMAIN r.windows : r.windows[k].id = r.active /\ Focus(r) = r.windows[k].active
<1>1. r.active \in Tabs(r)
  BY DEF Good
<1>2. /\ TabPos(r, r.active) \in DOMAIN r.windows
      /\ r.windows[TabPos(r, r.active)].id = r.active
      /\ \A k \in DOMAIN r.windows : r.windows[k].id = r.active => k = TabPos(r, r.active)
  BY <1>1, TabPosition
<1>3. /\ GoodTab(r.windows[TabPos(r, r.active)])
      /\ Held(r.windows[TabPos(r, r.active)]) \subseteq Panes(r)
  BY <1>2, SessionParts
<1> QED
  BY <1>2, <1>3 DEF Focus, GoodTab, Held

\* close_pane, of a session that keeps a tab: exactly p goes, and a focus elsewhere stays.
LEMMA SessionClosed ==
  ASSUME NEW r, Good(r), NEW p \in Panes(r), Closed(r, p).windows # << >>
  PROVE  /\ Revised(r, Closed(r, p), Panes(r) \ {p})
         /\ Focus(r) # p => Focus(Closed(r, p)) = Focus(r)
<1> DEFINE k == Home(r, p)
           w == r.windows[k]
           rest == RemoveAt(w.panes, PanePos(w, p))
           t == Closed(r, p)
<1>1. k \in DOMAIN r.windows /\ p \in Held(w)
  BY HomePosition
<1> HIDE DEF k
<1>2. /\ r \in SessionType /\ r.next \in Nat \ {0} /\ r.next \in Nat /\ GoodTabs(r.windows, r.next)
      /\ r.windows \in Seq(TabType) /\ Len(r.windows) \in Nat /\ DOMAIN r.windows = 1 .. Len(r.windows)
      /\ Tabs(r) = IdsOf(r.windows) /\ Panes(r) = PanesOf(r.windows)
      /\ GoodTab(w) /\ Held(w) \subseteq Panes(r)
  BY <1>1, SessionParts
<1>3. p \in ToSet(w.panes)
  BY <1>1 DEF Held
<1>4. r.active \in Tabs(r)
  BY DEF Good
<1>5. PICK m \in DOMAIN r.windows : r.windows[m].id = r.active /\ Focus(r) = r.windows[m].active
  BY FocusAt
<1>6. CASE rest # << >>
  <2> DEFINE v == [w EXCEPT !.panes = rest,
                            !.active = IF @ = p THEN Successor(rest, PanePos(w, p)) ELSE @]
             ws == Put(r.windows, k, v)
  <2>1. t = WithTab(r, k, v)
    BY <1>6 DEF Closed, k
  <2>2. /\ GoodTab(v) /\ v.id = w.id /\ v.index = w.index /\ ToSet(v.panes) = ToSet(w.panes) \ {p}
        /\ w.active # p => v.active = w.active
    BY <1>2, <1>3, <1>6, TabClosed
  <2> HIDE DEF v, t
  <2>3. Held(v) = Held(w) \ {p}
    BY <2>2 DEF Held
  <2>4. Held(v) \cap Panes(r) \subseteq Held(w)
    BY <2>3
  <2> DEFINE u == [WithTab(r, k, v) EXCEPT !.active = r.active]
  <2>5. /\ Revised(r, u, (Panes(r) \ Held(w)) \cup Held(v))
        /\ u = Rebuilt(r, ws, r.next, r.active)
        /\ u.windows = ws /\ u.active = r.active
    <3>1. Revised(r, u, (Panes(r) \ Held(w)) \cup Held(v))
      BY <1>1, <1>4, <2>2, <2>4, SessionTab
    <3>2. u = Rebuilt(r, ws, r.next, r.active)
      BY <1>2 DEF Rebuilt, SessionType, WithTab, Put
    <3> HIDE DEF u, ws
    <3> QED
      BY <1>2, <3>1, <3>2 DEF Rebuilt, SessionType
  <2>6. u = t
    BY <1>2, <2>1, <2>5 DEF WithTab, SessionType
  <2> HIDE DEF u
  <2>7. (Panes(r) \ Held(w)) \cup Held(v) = Panes(r) \ {p}
    BY <1>1, <1>2, <2>3
  <2>8. Revised(r, t, Panes(r) \ {p})
    BY <2>5, <2>6, <2>7
  <2>9. DOMAIN ws = DOMAIN r.windows
        /\ \A i \in DOMAIN r.windows : ws[i] = IF i = k THEN v ELSE r.windows[i]
    BY <1>1, <1>2, ExceptSeq DEF Put
  <2> HIDE DEF ws
  <2>10. ASSUME Focus(r) # p
         PROVE  Focus(t) = Focus(r)
    <3>1. m \in DOMAIN ws /\ ws[m].id = r.active /\ ws[m].active = Focus(r)
      BY <1>5, <2>2, <2>9, <2>10
    <3>2. Good(t) /\ t.windows = ws /\ t.active = r.active
      BY <2>5, <2>6, <2>8 DEF Revised
    <3> QED
      BY <3>1, <3>2, FocusAt
  <2> QED
    BY <2>8, <2>10 DEF t
<1>7. CASE rest = << >>
  <2> DEFINE vs == RemoveAt(r.windows, k)
             ws == Renumbered(vs)
             i == IF k > Len(ws) THEN Len(ws) ELSE k
             a == IF r.active # w.id THEN r.active ELSE ws[i].id
  <2>1. Held(w) = {p}
    BY <1>2, <1>3, <1>7, PaneGone DEF Held
  <2>2. t = [r EXCEPT !.windows = ws,
                      !.active = IF @ # w.id \/ ws = << >> THEN @ ELSE Successor(ws, k).id]
    BY <1>7 DEF Closed, k
  <2>3. t.windows = ws
    BY <1>2, <2>2 DEF SessionType
  <2>4. ws # << >>
    BY <2>3
  <2>5. t = Rebuilt(r, ws, r.next, a)
    BY <1>2, <2>2, <2>4 DEF SessionType, Rebuilt, Successor
  <2>6. /\ GoodTabs(vs, r.next) /\ Len(vs) = Len(r.windows) - 1
        /\ \A j \in DOMAIN r.windows : j # k => \E l \in DOMAIN vs : vs[l] = r.windows[j]
        /\ IdsOf(vs) = IdsOf(r.windows) \ {w.id}
        /\ PanesOf(vs) = PanesOf(r.windows) \ Held(w)
    BY <1>1, <1>2, TabRemoved
  <2> HIDE DEF vs, t
  <2>7. /\ GoodTabs(ws, r.next) /\ DOMAIN ws = DOMAIN vs /\ IdsOf(ws) = IdsOf(vs)
        /\ \A j \in DOMAIN vs : ws[j].id = vs[j].id /\ ws[j].active = vs[j].active
    BY <1>2, <2>6, TabsRenumbered
  <2> HIDE DEF ws
  <2>8. /\ ws \in Seq(TabType) /\ Len(ws) \in Nat /\ DOMAIN ws = 1 .. Len(ws) /\ Len(ws) # 0
    BY <2>4, <2>7, LenProperties, EmptySeq DEF GoodTabs
  <2>9. i \in DOMAIN ws
    <3>1. k \in Nat /\ k >= 1
      BY <1>1, <1>2
    <3>2. \A x \in Nat, n \in Nat : x >= 1 /\ n # 0 => (IF x > n THEN n ELSE x) \in 1 .. n
      OBVIOUS
    <3>3. i \in 1 .. Len(ws)
      BY <2>8, <3>1, <3>2
    <3> QED
      BY <2>8, <3>3
  <2> HIDE DEF i
  <2>10. ws[i].id \in IdsOf(vs)
    BY <2>7, <2>9 DEF IdsOf
  <2>11. a \in IdsOf(vs)
    BY <1>2, <1>4, <2>6, <2>10
  <2> HIDE DEF a
  <2>12. Revised(r, Rebuilt(r, Renumbered(vs), r.next, a), PanesOf(vs)) /\ t.active = a
    <3>1. \A x \in IdsOf(vs) \ Tabs(r) : x >= r.next
      BY <1>2, <2>6
    <3>2. Revised(r, Rebuilt(r, Renumbered(vs), r.next, a), PanesOf(vs))
      BY <1>2, <2>6, <2>11, <3>1, SessionTabs
    <3> QED
      BY <1>2, <2>5, <3>2 DEF Rebuilt, SessionType
  <2>13. Revised(r, t, Panes(r) \ {p})
    BY <1>2, <2>1, <2>5, <2>6, <2>12 DEF ws
  <2>14. ASSUME Focus(r) # p
         PROVE  Focus(t) = Focus(r)
    <3>1. m # k
      BY <1>2, <1>5, <2>1, <2>14 DEF GoodTab, Held
    <3>2. r.active # w.id
      BY <1>1, <1>2, <1>5, <3>1 DEF GoodTabs
    <3>3. PICK l \in DOMAIN vs : vs[l] = r.windows[m]
      BY <2>6, <3>1
    <3>4. l \in DOMAIN ws /\ ws[l].id = r.active /\ ws[l].active = Focus(r)
      BY <1>5, <2>7, <3>3
    <3>5. t.active = r.active
      BY <2>12, <3>2 DEF a
    <3>6. Good(t)
      BY <2>13 DEF Revised
    <3> QED
      BY <2>3, <3>4, <3>5, <3>6, FocusAt
  <2> QED
    BY <2>13, <2>14 DEF t
<1> QED
  BY <1>6, <1>7

--------------------------------------------------------------------------------
(* New sessions *)

\* A session made of tabs that are numbered from 1.
LEMMA SessionMade ==
  ASSUME NEW s \in SessionIds, NEW tag \in Tags \cup {NoTag}, NEW ws, GoodTabs(ws, Len(ws) + 1),
         Numbered(ws), NEW a \in IdsOf(ws)
  PROVE  /\ Good(NewSession(s, tag, ws, a)) /\ NewSession(s, tag, ws, a).id = s
         /\ Panes(NewSession(s, tag, ws, a)) = PanesOf(ws)
<1> DEFINE t == NewSession(s, tag, ws, a)
           n == Len(ws) + 1
<1>1. ws \in Seq(TabType) /\ n \in Nat \ {0}
  BY LenProperties DEF GoodTabs
<1>2. PICK k \in DOMAIN ws : a = ws[k].id
  BY DEF IdsOf
<1>3. a \in Nat \ {0} /\ ws # << >>
  BY <1>2 DEF GoodTabs, GoodTab, TabType
<1>4. /\ t \in SessionType /\ t.id = s /\ t.windows = ws /\ t.active = a /\ t.next = n
  BY <1>1, <1>3 DEF SessionType, NewSession
<1> HIDE DEF t
<1>5. Tabs(t) = IdsOf(ws) /\ Panes(t) = PanesOf(ws)
  BY <1>4 DEF Tabs, Panes, IdsOf, PanesOf, Held
<1>6. Good(t)
  BY <1>3, <1>4, <1>5 DEF Good
<1> QED
  BY <1>4, <1>5, <1>6 DEF t

\* ensure_session: one tab with one pane.
LEMMA SessionEnsured ==
  ASSUME NEW s \in SessionIds, NEW tag \in Tags \cup {NoTag}, NEW p \in PaneId
  PROVE  LET t == NewSession(s, tag, <<Tab(1, 1, p)>>, 1)
         IN  Good(t) /\ t.id = s /\ Panes(t) = {p}
<1> DEFINE w == Tab(1, 1, p)
           ws == <<w>>
<1>1. GoodTab(w) /\ Held(w) = {p} /\ w.id = 1 /\ w.index = 1
  <2> DEFINE o == 1
  <2>1. o \in PaneId /\ o \in Nat
    BY DEF PaneId
  <2>2. w = Tab(o, o, p) /\ o = 1
    OBVIOUS
  <2> HIDE DEF o
  <2>3. /\ GoodTab(Tab(o, o, p)) /\ ToSet(Tab(o, o, p).panes) = {p}
        /\ Tab(o, o, p).id = o /\ Tab(o, o, p).index = o
    BY <2>1, TabNew
  <2> QED
    BY <2>2, <2>3 DEF Held
<1> HIDE DEF w
<1>2. ws \in Seq(TabType) /\ Len(ws) = 1 /\ DOMAIN ws = {1} /\ ws[1] = w
  BY <1>1 DEF GoodTab
<1> HIDE DEF ws
<1>3. GoodTabs(ws, Len(ws) + 1) /\ Numbered(ws)
  BY <1>1, <1>2 DEF GoodTabs, Numbered
<1>4. 1 \in IdsOf(ws) /\ PanesOf(ws) = {p}
  <2>1. IdsOf(ws) = {w.id}
    BY <1>2 DEF IdsOf
  <2>2. \A x : x \in PanesOf(ws) <=> x = p
    BY <1>1, <1>2, PanesOfTabs
  <2> QED
    BY <1>1, <2>1, <2>2
<1> DEFINE o == 1
           t == NewSession(s, tag, ws, o)
<1>5. o \in IdsOf(ws)
  BY <1>4
<1> HIDE DEF o
<1>6. Good(t) /\ t.id = s /\ Panes(t) = PanesOf(ws)
  BY <1>3, <1>5, SessionMade
<1> QED
  BY <1>4, <1>6 DEF o, ws, w

\* A nonempty set of naturals has a least element.
LEMMA Least ==
  ASSUME NEW T, T \subseteq Nat, T # {}
  PROVE  \E x \in T : \A y \in T : x <= y
<1>1. PICK x \in T : \A y \in T : ~(<<y, x>> \in OpToRel(<, Nat))
  BY WFMin, NatLessThanWellFounded
<1>2. \A y \in T : ~(y < x)
  BY <1>1 DEF OpToRel
<1> QED
  BY <1>2

\* restore_session: the tabs of a checkpoint, their panes minted from n on.
Restored(shape, focus, n) ==
  [k \in DOMAIN shape |->
     LET from == n + Before(shape, k)
     IN  [id |-> k, index |-> k, active |-> from + focus[k] - 1,
          panes |-> [j \in 1 .. Count(shape, k) |-> from + j - 1]]]

\* The windows of a checkpoint follow each other.
LEMMA Checkpoint ==
  ASSUME NEW shape \in Saved
  PROVE  /\ Len(shape) \in Nat \ {0} /\ DOMAIN shape = 1 .. Len(shape)
         /\ \A k \in DOMAIN shape : /\ shape[k] \in Nat /\ Before(shape, k) \in Nat
                                    /\ Before(shape, k) < shape[k]
                                    /\ Count(shape, k) = shape[k] - Before(shape, k)
                                    /\ \A j \in DOMAIN shape : j < k => shape[j] <= Before(shape, k)
         /\ \A k \in DOMAIN shape, x \in Nat :
              x < Before(shape, k) => k - 1 \in DOMAIN shape /\ x < shape[k - 1]
         /\ Before(shape, Len(shape) + 1) = shape[Len(shape)]
<1>1. /\ shape \in Seq(Nat \ {0}) /\ shape # << >>
      /\ \A j, k \in DOMAIN shape : j < k => shape[j] < shape[k]
  BY TopologyAssumption
<1>2. Len(shape) \in Nat \ {0} /\ DOMAIN shape = 1 .. Len(shape)
  BY <1>1, LenProperties, EmptySeq
<1>3. \A k \in 1 .. Len(shape) : shape[k] \in Nat \ {0}
  BY <1>1, <1>2, ElementOfSeq
<1>4. ASSUME NEW k \in DOMAIN shape, k = 1
      PROVE  Before(shape, k) = 0 /\ \A j \in DOMAIN shape : ~(j < k)
  BY <1>2, <1>4 DEF Before
<1>5. ASSUME NEW k \in DOMAIN shape, k # 1
      PROVE  /\ Before(shape, k) = shape[k - 1] /\ k - 1 \in DOMAIN shape /\ k - 1 < k
             /\ \A j \in DOMAIN shape : j < k => j = k - 1 \/ j < k - 1
  BY <1>2, <1>5 DEF Before
<1>6. \A k \in DOMAIN shape : /\ Before(shape, k) \in Nat /\ Before(shape, k) < shape[k]
  BY <1>1, <1>2, <1>3, <1>4, <1>5
<1>7. \A j, k \in DOMAIN shape : j < k => shape[j] <= Before(shape, k)
  BY <1>1, <1>2, <1>3, <1>4, <1>5
<1>8. Before(shape, Len(shape) + 1) = shape[Len(shape)]
  BY <1>2 DEF Before
<1>9. ASSUME NEW k \in DOMAIN shape, NEW x \in Nat, x < Before(shape, k)
      PROVE  k - 1 \in DOMAIN shape /\ x < shape[k - 1]
  BY <1>4, <1>5, <1>9
<1>10. \A k \in DOMAIN shape : Count(shape, k) = shape[k] - Before(shape, k) /\ shape[k] \in Nat
  BY <1>2, <1>3 DEF Count
<1> QED
  BY <1>2, <1>6, <1>7, <1>8, <1>9, <1>10

\* Each restored tab is good and has its stretch of the identities.
LEMMA TabRestored ==
  ASSUME NEW shape \in Saved, NEW focus \in [DOMAIN shape -> 1 .. MaxPane],
         \A k \in DOMAIN shape : focus[k] <= Count(shape, k), NEW n \in PaneId,
         NEW k \in DOMAIN shape
  PROVE  LET w == Restored(shape, focus, n)[k]
         IN  /\ GoodTab(w) /\ w.id = k /\ w.index = k
             /\ Held(w) = n + Before(shape, k) .. n + shape[k] - 1
<1> DEFINE w == Restored(shape, focus, n)[k]
           from == n + Before(shape, k)
           c == Count(shape, k)
           ps == [j \in 1 .. c |-> from + j - 1]
           a == from + focus[k] - 1
<1>1. /\ k \in Nat \ {0} /\ Before(shape, k) \in Nat /\ shape[k] \in Nat /\ Before(shape, k) < shape[k]
      /\ c = shape[k] - Before(shape, k)
  BY Checkpoint
<1>2. n \in Nat \ {0} /\ focus[k] \in Nat \ {0} /\ focus[k] <= c
  BY TopologyAssumption DEF PaneId
<1>3. w = [id |-> k, index |-> k, active |-> a, panes |-> ps]
  BY DEF Restored
<1>4. from \in Nat \ {0} /\ from + c = n + shape[k] /\ c \in Nat \ {0}
  BY <1>1, <1>2
<1> HIDE DEF c, from, w
<1>5. ps \in Seq(PaneId) /\ Len(ps) = c /\ DOMAIN ps = 1 .. c
  <2>1. \A j \in 1 .. c : from + j - 1 \in PaneId
    BY <1>4 DEF PaneId
  <2> QED
    BY <1>4, <2>1
<1>6. \A j \in 1 .. c : ps[j] = from + j - 1
  OBVIOUS
<1> HIDE DEF ps
<1>7. IsInjective(ps)
  BY <1>4, <1>5, <1>6 DEF IsInjective
<1>8. ToSet(ps) = from .. from + c - 1
  <2>1. ASSUME NEW x \in ToSet(ps)
        PROVE  x \in from .. from + c - 1
    BY <1>4, <1>5, <1>6 DEF ToSet
  <2>2. ASSUME NEW x \in from .. from + c - 1
        PROVE  x \in ToSet(ps)
    <3>1. x - from + 1 \in 1 .. c /\ from + (x - from + 1) - 1 = x
      BY <1>4
    <3>2. ps[x - from + 1] = x
      BY <1>6, <3>1
    <3> QED
      BY <1>5, <3>1, <3>2 DEF ToSet
  <2> QED
    BY <2>1, <2>2
<1>9. a \in from .. from + c - 1
  BY <1>2, <1>4
<1>10. a \in PaneId /\ ps # << >>
  BY <1>4, <1>5, <1>9, EmptySeq DEF PaneId
<1> HIDE DEF a
<1>11. w \in TabType
  BY <1>1, <1>3, <1>5, <1>10 DEF TabType, PaneId
<1>12. w.panes = ps /\ w.active = a /\ w.id = k /\ w.index = k
  BY <1>3
<1>13. GoodTab(w)
  BY <1>7, <1>8, <1>9, <1>10, <1>11, <1>12 DEF GoodTab
<1>14. Held(w) = from .. n + shape[k] - 1
  <2>1. from + c - 1 = n + shape[k] - 1
    BY <1>1, <1>2, <1>4
  <2> QED
    BY <1>8, <1>12, <2>1 DEF Held
<1> QED
  BY <1>12, <1>13, <1>14 DEF w, from

\* All of them together have the identities minted, and share none.
LEMMA TabsRestored ==
  ASSUME NEW shape \in Saved, NEW focus \in [DOMAIN shape -> 1 .. MaxPane],
         \A k \in DOMAIN shape : focus[k] <= Count(shape, k), NEW n \in PaneId
  PROVE  LET ws == Restored(shape, focus, n)
         IN  /\ GoodTabs(ws, Len(ws) + 1) /\ Numbered(ws) /\ IdsOf(ws) = DOMAIN shape
             /\ PanesOf(ws) = n .. n + Before(shape, Len(shape) + 1) - 1
<1> DEFINE ws == Restored(shape, focus, n)
           last == Len(shape)
<1>1. /\ last \in Nat \ {0} /\ DOMAIN shape = 1 .. last
      /\ \A k \in DOMAIN shape : /\ shape[k] \in Nat /\ Before(shape, k) \in Nat
                                 /\ Before(shape, k) < shape[k]
                                 /\ \A j \in DOMAIN shape : j < k => shape[j] <= Before(shape, k)
      /\ \A k \in DOMAIN shape, x \in Nat :
           x < Before(shape, k) => k - 1 \in DOMAIN shape /\ x < shape[k - 1]
      /\ Before(shape, last + 1) = shape[last]
  BY Checkpoint
<1>2. DOMAIN ws = 1 .. last
  BY <1>1 DEF Restored
<1>3. \A k \in DOMAIN shape : /\ GoodTab(ws[k]) /\ ws[k].id = k /\ ws[k].index = k
                              /\ Held(ws[k]) = n + Before(shape, k) .. n + shape[k] - 1
  BY TabRestored
<1>4. ws \in Seq(TabType) /\ Len(ws) = last
  <2>1. ws = [k \in 1 .. last |-> ws[k]]
    BY <1>1 DEF Restored
  <2>2. \A k \in 1 .. last : ws[k] \in TabType
    BY <1>1, <1>3 DEF GoodTab
  <2>3. last \in Nat
    BY <1>1
  <2> HIDE DEF ws, last
  <2> QED
    BY <2>1, <2>2, <2>3
<1>5. n \in Nat \ {0}
  BY DEF PaneId
<1> HIDE DEF ws, last
<1>6. \A j, k \in DOMAIN shape : j < k => Held(ws[j]) \cap Held(ws[k]) = {}
  <2> SUFFICES ASSUME NEW j \in DOMAIN shape, NEW k \in DOMAIN shape, j < k
               PROVE  Held(ws[j]) \cap Held(ws[k]) = {}
    OBVIOUS
  <2>1. shape[j] <= Before(shape, k) /\ shape[j] \in Nat /\ Before(shape, k) \in Nat
    BY <1>1
  <2>2. /\ \A x \in Held(ws[j]) : x \in Int /\ x <= n + shape[j] - 1
        /\ \A x \in Held(ws[k]) : x \in Int /\ x >= n + Before(shape, k)
    <3>1. /\ Held(ws[j]) = n + Before(shape, j) .. n + shape[j] - 1
          /\ Held(ws[k]) = n + Before(shape, k) .. n + shape[k] - 1
      BY <1>3
    <3>2. /\ shape[j] \in Nat /\ shape[k] \in Nat /\ Before(shape, j) \in Nat
          /\ Before(shape, k) \in Nat
      BY <1>1
    <3>3. \A from, to \in Int : \A x \in from .. to : x \in Int /\ from <= x /\ x <= to
      OBVIOUS
    <3>4. /\ n + Before(shape, j) \in Int /\ n + shape[j] - 1 \in Int
          /\ n + Before(shape, k) \in Int /\ n + shape[k] - 1 \in Int
      BY <1>5, <3>2
    <3>5. /\ \A x \in Held(ws[j]) : x \in Int /\ x <= n + shape[j] - 1
          /\ \A x \in Held(ws[k]) : x \in Int /\ n + Before(shape, k) <= x
      BY <3>1, <3>3, <3>4
    <3> QED
      BY <1>5, <3>2, <3>5
  <2> QED
    BY <1>5, <2>1, <2>2
<1>7. \A j, k \in DOMAIN shape : j # k => Held(ws[j]) \cap Held(ws[k]) = {}
  <2>1. \A j, k \in DOMAIN shape : j # k => j < k \/ k < j
    BY <1>1
  <2> QED
    BY <1>6, <2>1
<1>8. GoodTabs(ws, Len(ws) + 1) /\ Numbered(ws)
  BY <1>1, <1>2, <1>3, <1>4, <1>7 DEF GoodTabs, Numbered
<1>9. IdsOf(ws) = DOMAIN shape
  BY <1>1, <1>2, <1>3 DEF IdsOf
<1>10. ASSUME NEW x \in PanesOf(ws)
       PROVE  x \in n .. n + shape[last] - 1
  <2>1. PICK k \in DOMAIN shape : x \in n + Before(shape, k) .. n + shape[k] - 1
    <3>1. PICK k \in DOMAIN ws : x \in Held(ws[k])
      BY PanesOfTabs
    <3>2. k \in DOMAIN shape
      BY <1>1, <1>2
    <3> QED
      BY <1>3, <3>1, <3>2
  <2>2. last \in DOMAIN shape /\ (k < last => shape[k] <= Before(shape, last))
    BY <1>1
  <2>3. shape[k] <= shape[last] /\ shape[k] \in Nat /\ shape[last] \in Nat
    BY <1>1, <2>2
  <2>4. Before(shape, k) \in Nat
    BY <1>1
  <2> QED
    BY <1>5, <2>1, <2>3, <2>4
<1>11. ASSUME NEW x \in n .. n + shape[last] - 1
       PROVE  x \in PanesOf(ws)
  <2> DEFINE T == {k \in DOMAIN shape : x - n < shape[k]}
  <2>1. last \in T /\ T \subseteq Nat
    BY <1>1, <1>5
  <2>2. PICK k \in T : \A y \in T : k <= y
    BY <2>1, Least
  <2>3. x - n \in Nat /\ k \in DOMAIN shape /\ x - n < shape[k]
    BY <1>1, <1>5, <2>2
  <2>4. ~(x - n < Before(shape, k))
    <3> SUFFICES ASSUME x - n < Before(shape, k)
                 PROVE  FALSE
      OBVIOUS
    <3>1. k - 1 \in DOMAIN shape /\ x - n < shape[k - 1]
      BY <1>1, <2>3
    <3>2. k - 1 \in T
      BY <3>1
    <3>3. k <= k - 1 /\ k \in Nat
      BY <2>1, <2>2, <3>2
    <3> QED
      BY <3>3
  <2>5. x \in n + Before(shape, k) .. n + shape[k] - 1
    BY <1>1, <1>5, <2>3, <2>4
  <2> QED
    BY <1>1, <1>2, <1>3, <2>3, <2>5, PanesOfTabs
<1>12. PanesOf(ws) = n .. n + shape[last] - 1
  BY <1>10, <1>11
<1> QED
  BY <1>1, <1>8, <1>9, <1>12 DEF ws, last

\* restore_session.
LEMMA SessionRestored ==
  ASSUME NEW shape \in Saved, NEW focus \in [DOMAIN shape -> 1 .. MaxPane],
         \A k \in DOMAIN shape : focus[k] <= Count(shape, k), NEW n \in PaneId,
         NEW s \in SessionIds, NEW tag \in Tags, NEW a \in DOMAIN shape
  PROVE  LET t == NewSession(s, tag, Restored(shape, focus, n), a)
         IN  /\ Good(t) /\ t.id = s
             /\ Panes(t) = n .. n + Before(shape, Len(shape) + 1) - 1
<1> DEFINE ws == Restored(shape, focus, n)
<1>1. /\ GoodTabs(ws, Len(ws) + 1) /\ Numbered(ws) /\ IdsOf(ws) = DOMAIN shape
      /\ PanesOf(ws) = n .. n + Before(shape, Len(shape) + 1) - 1
  BY TabsRestored
<1> HIDE DEF ws
<1>2. a \in IdsOf(ws)
  BY <1>1
<1>3. LET t == NewSession(s, tag, ws, a)
      IN  Good(t) /\ t.id = s /\ Panes(t) = PanesOf(ws)
  BY <1>1, <1>2, SessionMade
<1> QED
  BY <1>1, <1>3 DEF ws

--------------------------------------------------------------------------------
(* The sessions of the workspace *)

\* Sessions that are good, share neither an id nor a pane, all panes below n.
Sound(ss, n) ==
  /\ ss \in Seq(SessionType)
  /\ \A k \in DOMAIN ss : Good(ss[k]) /\ \A p \in Panes(ss[k]) : p < n
  /\ \A i, j \in DOMAIN ss : i # j => ss[i].id # ss[j].id /\ Panes(ss[i]) \cap Panes(ss[j]) = {}

\* All their panes.
PanesIn(ss) == UNION {Panes(ss[k]) : k \in DOMAIN ss}

\* The same, element by element.
LEMMA PanesInSessions ==
  ASSUME NEW ss, NEW p
  PROVE  p \in PanesIn(ss) <=> \E k \in DOMAIN ss : p \in Panes(ss[k])
BY DEF PanesIn

\* Panes are identities.
LEMMA PanesTyped ==
  ASSUME NEW r, Good(r)
  PROVE  Panes(r) \subseteq PaneId
BY HomePosition

\* Changing a session in a way that only takes panes from the counter n.
LEMMA SessionPut ==
  ASSUME NEW ss, NEW n \in Nat, NEW m \in Nat, Sound(ss, n), n <= m, NEW k \in DOMAIN ss,
         NEW r, Good(r), r.id = ss[k].id,
         \A p \in Panes(r) : p \in Panes(ss[k]) \/ (n <= p /\ p < m)
  PROVE  /\ Sound(Put(ss, k, r), m) /\ DOMAIN Put(ss, k, r) = DOMAIN ss
         /\ \A i \in DOMAIN ss : Put(ss, k, r)[i] = IF i = k THEN r ELSE ss[i]
         /\ PanesIn(Put(ss, k, r)) = (PanesIn(ss) \ Panes(ss[k])) \cup Panes(r)
<1> DEFINE ts == Put(ss, k, r)
<1>1. ss \in Seq(SessionType) /\ Len(ss) \in Nat /\ DOMAIN ss = 1 .. Len(ss) /\ r \in SessionType
  BY LenProperties DEF Sound, Good
<1>2. /\ ts \in Seq(SessionType) /\ DOMAIN ts = DOMAIN ss
      /\ \A i \in DOMAIN ss : ts[i] = IF i = k THEN r ELSE ss[i]
  BY <1>1, ExceptSeq DEF Put
<1> HIDE DEF ts
<1>3. \A i \in DOMAIN ss : Good(ss[i]) /\ \A p \in Panes(ss[i]) : p \in Nat /\ p < n
  BY PanesTyped DEF Sound, PaneId
<1>4. \A p \in Panes(r) : p \in Nat
  BY PanesTyped DEF PaneId
<1>5. \A i, j \in DOMAIN ss : i # j => ss[i].id # ss[j].id /\ Panes(ss[i]) \cap Panes(ss[j]) = {}
  BY DEF Sound
<1>6. \A i \in DOMAIN ss : i # k => Panes(ss[i]) \cap Panes(r) = {}
  <2> SUFFICES ASSUME NEW i \in DOMAIN ss, i # k, NEW p \in Panes(ss[i]), p \in Panes(r)
               PROVE  FALSE
    OBVIOUS
  <2>1. p \notin Panes(ss[k])
    BY <1>5
  <2>2. n <= p /\ p < n /\ p \in Nat
    BY <1>3, <2>1
  <2> QED
    BY <2>2
<1>7. \A i \in DOMAIN ts : Good(ts[i]) /\ \A p \in Panes(ts[i]) : p < m
  <2>1. \A p \in Nat : p < n => p < m
    OBVIOUS
  <2>2. \A p \in Panes(r) : p < m
    BY <1>3, <1>4, <2>1
  <2> QED
    BY <1>2, <1>3, <2>1, <2>2
<1>8. \A i, j \in DOMAIN ts : i # j => ts[i].id # ts[j].id /\ Panes(ts[i]) \cap Panes(ts[j]) = {}
  BY <1>2, <1>5, <1>6
<1>9. Sound(ts, m)
  BY <1>2, <1>7, <1>8 DEF Sound
<1>10. PanesIn(ts) = (PanesIn(ss) \ Panes(ss[k])) \cup Panes(r)
  <2>1. ASSUME NEW p \in PanesIn(ts)
        PROVE  p \in (PanesIn(ss) \ Panes(ss[k])) \cup Panes(r)
    <3>1. PICK i \in DOMAIN ss : p \in Panes(ts[i])
      BY <1>2, PanesInSessions
    <3> QED
      BY <1>2, <1>5, <3>1, PanesInSessions
  <2>2. ASSUME NEW p \in PanesIn(ss), p \notin Panes(ss[k])
        PROVE  p \in PanesIn(ts)
    <3>1. PICK j \in DOMAIN ss : p \in Panes(ss[j])
      BY PanesInSessions
    <3> QED
      BY <1>2, <2>2, <3>1, PanesInSessions
  <2>3. \A p \in Panes(r) : p \in PanesIn(ts)
    BY <1>2, PanesInSessions
  <2> QED
    BY <2>1, <2>2, <2>3
<1> QED
  BY <1>2, <1>9, <1>10 DEF ts

\* A new session whose panes are taken from the counter.
LEMMA SessionAppended ==
  ASSUME NEW ss, NEW n \in Nat, NEW m \in Nat, Sound(ss, n), n <= m, NEW r, Good(r),
         \A k \in DOMAIN ss : ss[k].id # r.id, \A p \in Panes(r) : n <= p /\ p < m
  PROVE  /\ Sound(Append(ss, r), m)
         /\ \A i \in DOMAIN Append(ss, r) : Append(ss, r)[i] = r \/ (i \in DOMAIN ss /\ Append(ss, r)[i] = ss[i])
         /\ \A i \in DOMAIN ss : i \in DOMAIN Append(ss, r) /\ Append(ss, r)[i] = ss[i]
         /\ \E i \in DOMAIN Append(ss, r) : Append(ss, r)[i] = r
         /\ PanesIn(Append(ss, r)) = PanesIn(ss) \cup Panes(r)
<1> DEFINE ts == Append(ss, r)
           l == Len(ss) + 1
<1>1. ss \in Seq(SessionType) /\ Len(ss) \in Nat /\ DOMAIN ss = 1 .. Len(ss) /\ r \in SessionType
  BY LenProperties DEF Sound, Good
<1>2. /\ ts \in Seq(SessionType) /\ Len(ts) = Len(ss) + 1 /\ ts[l] = r
      /\ \A i \in 1 .. Len(ss) : ts[i] = ss[i]
  BY <1>1, AppendProperties
<1>3. DOMAIN ts = 1 .. Len(ss) + 1
  BY <1>2, LenProperties
<1> HIDE DEF ts
<1>4. /\ l \in DOMAIN ts /\ l \notin DOMAIN ss
      /\ \A i \in DOMAIN ss : i \in DOMAIN ts /\ ts[i] = ss[i]
      /\ \A i \in DOMAIN ts : i = l \/ i \in DOMAIN ss
  BY <1>1, <1>2, <1>3
<1> HIDE DEF l
<1>5. \A i \in DOMAIN ss : Good(ss[i]) /\ \A p \in Panes(ss[i]) : p \in Nat /\ p < n
  BY PanesTyped DEF Sound, PaneId
<1>6. \A p \in Panes(r) : p \in Nat
  BY PanesTyped DEF PaneId
<1>7. \A i, j \in DOMAIN ss : i # j => ss[i].id # ss[j].id /\ Panes(ss[i]) \cap Panes(ss[j]) = {}
  BY DEF Sound
<1>8. \A i \in DOMAIN ss : Panes(ss[i]) \cap Panes(r) = {}
  BY <1>5, <1>6
<1>9. \A i \in DOMAIN ts : Good(ts[i]) /\ \A p \in Panes(ts[i]) : p < m
  <2>1. \A p \in Nat : p < n => p < m
    OBVIOUS
  <2> QED
    BY <1>2, <1>4, <1>5, <2>1
<1>10. \A i, j \in DOMAIN ts : i # j => ts[i].id # ts[j].id /\ Panes(ts[i]) \cap Panes(ts[j]) = {}
  BY <1>2, <1>4, <1>7, <1>8
<1>11. Sound(ts, m)
  BY <1>2, <1>9, <1>10 DEF Sound
<1>12. PanesIn(ts) = PanesIn(ss) \cup Panes(r)
  <2>1. \A p \in PanesIn(ts) : p \in PanesIn(ss) \cup Panes(r)
    BY <1>2, <1>4, PanesInSessions
  <2>2. \A p \in PanesIn(ss) : p \in PanesIn(ts)
    BY <1>4, PanesInSessions
  <2>3. \A p \in Panes(r) : p \in PanesIn(ts)
    BY <1>2, <1>4, PanesInSessions
  <2> QED
    BY <2>1, <2>2, <2>3
<1>13. /\ \A i \in DOMAIN ts : ts[i] = r \/ (i \in DOMAIN ss /\ ts[i] = ss[i])
       /\ \A i \in DOMAIN ss : i \in DOMAIN ts /\ ts[i] = ss[i]
       /\ \E i \in DOMAIN ts : ts[i] = r
  BY <1>2, <1>4
<1> QED
  BY <1>11, <1>12, <1>13 DEF ts

\* kill_session.
LEMMA SessionRemoved ==
  ASSUME NEW ss, NEW n \in Nat, Sound(ss, n), NEW k \in DOMAIN ss
  PROVE  /\ Sound(RemoveAt(ss, k), n)
         /\ \A i \in DOMAIN RemoveAt(ss, k) : \E j \in DOMAIN ss : j # k /\ RemoveAt(ss, k)[i] = ss[j]
         /\ \A j \in DOMAIN ss : j # k => \E i \in DOMAIN RemoveAt(ss, k) : RemoveAt(ss, k)[i] = ss[j]
         /\ RemoveAt(ss, k) # << >> => 1 \in DOMAIN RemoveAt(ss, k)
         /\ PanesIn(RemoveAt(ss, k)) = PanesIn(ss) \ Panes(ss[k])
<1> DEFINE ts == RemoveAt(ss, k)
           From(i) == IF i < k THEN i ELSE i + 1
<1>1. ss \in Seq(SessionType) /\ Len(ss) \in Nat /\ DOMAIN ss = 1 .. Len(ss)
  BY LenProperties DEF Sound
<1>2. /\ ts \in Seq(SessionType) /\ Len(ts) = Len(ss) - 1 /\ DOMAIN ts = 1 .. Len(ss) - 1
      /\ \A i \in 1 .. Len(ss) - 1 : ts[i] = ss[From(i)]
  BY <1>1, Removal
<1> HIDE DEF ts
<1>3. \A i \in DOMAIN ts : From(i) \in DOMAIN ss /\ From(i) # k /\ ts[i] = ss[From(i)]
  BY <1>1, <1>2
<1>4. \A i, j \in DOMAIN ts : i # j => From(i) # From(j)
  BY <1>1, <1>2
<1>5. ASSUME NEW j \in DOMAIN ss, j # k
      PROVE  \E i \in DOMAIN ts : ts[i] = ss[j]
  <2>1. CASE j < k
    <3>1. j \in DOMAIN ts /\ ts[j] = ss[j]
      BY <1>1, <1>2, <2>1
    <3> QED
      BY <3>1
  <2>2. CASE ~(j < k)
    <3>1. j - 1 \in DOMAIN ts /\ ts[j - 1] = ss[j]
      BY <1>1, <1>2, <1>5, <2>2
    <3> QED
      BY <3>1
  <2> QED
    BY <2>1, <2>2
<1> HIDE DEF From
<1>6. Sound(ts, n)
  BY <1>2, <1>3, <1>4 DEF Sound
<1>7. \A i \in DOMAIN ts : \E j \in DOMAIN ss : j # k /\ ts[i] = ss[j]
  BY <1>3
<1>8. ts # << >> => 1 \in DOMAIN ts
  <2>1. ts # << >> => Len(ts) # 0
    BY <1>2, EmptySeq
  <2> QED
    BY <1>1, <1>2, <2>1
<1>9. PanesIn(ts) = PanesIn(ss) \ Panes(ss[k])
  <2>1. ASSUME NEW p \in PanesIn(ts)
        PROVE  p \in PanesIn(ss) \ Panes(ss[k])
    <3>1. PICK i \in DOMAIN ts : p \in Panes(ts[i])
      BY PanesInSessions
    <3>2. PICK j \in DOMAIN ss : j # k /\ ts[i] = ss[j]
      BY <1>7
    <3> QED
      BY <3>1, <3>2, PanesInSessions DEF Sound
  <2>2. ASSUME NEW p \in PanesIn(ss), p \notin Panes(ss[k])
        PROVE  p \in PanesIn(ts)
    <3>1. PICK j \in DOMAIN ss : p \in Panes(ss[j])
      BY PanesInSessions
    <3>2. PICK i \in DOMAIN ts : ts[i] = ss[j]
      BY <1>5, <2>2, <3>1
    <3> QED
      BY <3>1, <3>2, PanesInSessions
  <2> QED
    BY <2>1, <2>2
<1> QED
  BY <1>5, <1>6, <1>7, <1>8, <1>9 DEF ts

--------------------------------------------------------------------------------
(* The invariant, and what a command does *)

\* The inductive invariant.
StateInv ==
  /\ Sound(sessions, nextPane) /\ nextPane \in 1 .. MaxPane + 1
  /\ IF sessions = << >> THEN activeSession = NoSession ELSE Live(activeSession)

\* A command makes r of session s, with the panes ps, and selects it perhaps.
Edits(s, r, ps) ==
  /\ Live(s)
  /\ Revised(Session(s), r, ps)
  /\ sessions' = Put(sessions, Pos(s), r)
  /\ activeSession' \in {s, activeSession}

\* The ways in which commands change the workspace: a session keeps its panes, gets
\* the next one, or loses one and no other focus ...
Keeps(s) == \E r : Edits(s, r, Panes(Session(s))) /\ nextPane' = nextPane

Adds(s) ==
  \E r : /\ Edits(s, r, Panes(Session(s)) \cup {nextPane})
         /\ nextPane' = nextPane + 1 /\ nextPane' \in 1 .. MaxPane + 1

Loses(s, p) ==
  \E r : /\ Edits(s, r, Panes(Session(s)) \ {p}) /\ nextPane' = nextPane
         /\ p \in Panes(Session(s))
         /\ Focus(Session(s)) # p => Focus(r) = Focus(Session(s))

\* ... a session appears with new panes, or goes; an identity is minted in vain.
Appears(s) ==
  \E r : /\ ~Live(s) /\ Good(r) /\ r.id = s /\ Panes(r) = nextPane .. nextPane' - 1
         /\ sessions' = Append(sessions, r) /\ activeSession' = s
         /\ nextPane' \in nextPane + 1 .. MaxPane + 1

Goes(s) == Live(s) /\ KillSession(s) /\ nextPane' = nextPane

Misses ==
  /\ UNCHANGED <<sessions, activeSession>>
  /\ nextPane' = nextPane + 1 /\ nextPane' \in 1 .. MaxPane + 1

\* Everything a command can do to the workspace.
Change ==
  \/ \E s \in SessionIds : Keeps(s) \/ Adds(s) \/ Appears(s) \/ Goes(s) \/ \E p : Loses(s, p)
  \/ Misses
  \/ UNCHANGED stateVars

\* A live session is at its position.
LEMMA SessionAt ==
  ASSUME StateInv, NEW s, Live(s)
  PROVE  /\ Pos(s) \in DOMAIN sessions /\ Session(s) = sessions[Pos(s)]
         /\ Session(s).id = s /\ Good(Session(s)) /\ s \in SessionIds
         /\ \A k \in DOMAIN sessions : sessions[k].id = s => k = Pos(s)
         /\ \A p \in Panes(Session(s)) : p < nextPane
<1>1. \E k \in DOMAIN sessions : sessions[k].id = s
  BY DEF Live
<1>2. Pos(s) \in DOMAIN sessions /\ sessions[Pos(s)].id = s
  BY <1>1 DEF Pos
<1>3. /\ Good(sessions[Pos(s)]) /\ \A p \in Panes(sessions[Pos(s)]) : p < nextPane
      /\ \A k \in DOMAIN sessions : sessions[k].id = s => k = Pos(s)
  BY <1>2 DEF StateInv, Sound
<1>4. sessions[Pos(s)].id \in SessionIds
  BY <1>3 DEF Good, SessionType
<1> QED
  BY <1>2, <1>3, <1>4 DEF Session

\* The next pane is one, and no session has it.
LEMMA NextPaneNew ==
  ASSUME StateInv
  PROVE  /\ nextPane \in PaneId /\ nextPane \in Nat /\ MaxPane \in Nat
         /\ \A s : Live(s) => nextPane \notin Panes(Session(s))
<1>1. nextPane \in Nat \ {0} /\ MaxPane \in Nat
  BY TopologyAssumption DEF StateInv
<1>2. \A s : Live(s) => \A p \in Panes(Session(s)) : p < nextPane
  BY SessionAt
<1> QED
  BY <1>1, <1>2 DEF PaneId

\* What the commands that change a session in place share.
LEMMA UpdateEdits ==
  ASSUME StateInv, NEW s, Live(s), NEW r, NEW ps, Revised(Session(s), r, ps)
  PROVE  /\ Update(s, r) => Edits(s, r, ps)
         /\ sessions' = With(s, r) /\ activeSession' \in {s, activeSession} => Edits(s, r, ps)
BY DEF Update, With, Put, Edits

\* ... and those of them that leave its panes alone.
LEMMA UpdateKeeps ==
  ASSUME StateInv, NEW s, Live(s), NEW r, Revised(Session(s), r, Panes(Session(s))),
         nextPane' = nextPane,
         \/ Update(s, r)
         \/ sessions' = With(s, r) /\ activeSession' \in {s, activeSession}
  PROVE  Keeps(s)
<1>1. Edits(s, r, Panes(Session(s)))
  BY UpdateEdits
<1> QED
  BY <1>1 DEF Keeps

\* The sessions' commands.
LEMMA CreateChanges ==
  ASSUME StateInv, NEW s \in SessionIds, SessionCommand(s)
  PROVE  Keeps(s) \/ Appears(s)
<1>1. PICK tag \in Tags \cup {NoTag}, explicit \in BOOLEAN : CreateProjectSession(s, tag, explicit)
  BY DEF SessionCommand
<1>2. CASE Live(s)
  <2> DEFINE r == Session(s)
             new == IF tag = NoTag THEN r.tag ELSE tag
  <2>1. Good(r)
    BY <1>2, SessionAt
  <2>2. r.tag \in Tags \cup {NoTag} /\ r \in SessionType
    BY <2>1 DEF Good, SessionType
  <2>3. /\ sessions' = With(s, [r EXCEPT !.tag = new]) /\ nextPane' = nextPane
        /\ activeSession' = s
    BY <1>1, <1>2, <2>2 DEF CreateProjectSession, SessionType
  <2>4. new \in Tags \cup {NoTag}
    BY <2>2
  <2> HIDE DEF new, r
  <2>5. Revised(r, [r EXCEPT !.tag = new], Panes(r))
    BY <2>1, <2>4, SessionMarked
  <2> QED
    BY <1>2, <2>3, <2>5, UpdateKeeps DEF r
<1>3. CASE ~Live(s)
  <2> DEFINE t == NewSession(s, tag, <<Tab(1, 1, nextPane)>>, 1)
  <2>1. /\ Mint(1) /\ sessions' = Append(sessions, t) /\ activeSession' = s
    BY <1>1, <1>3 DEF CreateProjectSession
  <2>2. nextPane \in PaneId /\ nextPane \in Nat /\ MaxPane \in Nat
    BY NextPaneNew
  <2>3. Good(t) /\ t.id = s /\ Panes(t) = {nextPane}
    BY <2>2, SessionEnsured
  <2> HIDE DEF t
  <2>4. nextPane' = nextPane + 1 /\ nextPane' \in nextPane + 1 .. MaxPane + 1
    BY <2>1, <2>2 DEF Mint
  <2>5. {nextPane} = nextPane .. nextPane' - 1
    BY <2>2, <2>4
  <2> QED
    BY <1>3, <2>1, <2>3, <2>4, <2>5 DEF Appears
<1> QED
  BY <1>2, <1>3

\* kill_session of a session that is not there changes nothing.
LEMMA DitchChanges ==
  ASSUME StateInv, NEW s \in SessionIds, DitchSession(s)
  PROVE  Goes(s) \/ UNCHANGED stateVars
<1>1. KillSession(s) /\ nextPane' = nextPane
  BY DEF DitchSession
<1>2. CASE Live(s)
  BY <1>1, <1>2 DEF Goes
<1>3. CASE ~Live(s)
  <2>1. sessions' = sessions
    BY <1>1, <1>3 DEF KillSession, Others
  <2>2. activeSession # s
    BY <1>3, TopologyAssumption DEF StateInv
  <2>3. activeSession' = activeSession
    BY <1>1, <2>2 DEF KillSession
  <2> QED
    BY <1>1, <2>1, <2>3 DEF stateVars
<1> QED
  BY <1>2, <1>3

\* Restoring, renaming and stamping.
LEMMA SavedChanges ==
  ASSUME StateInv, NEW s \in SessionIds, SavedCommand(s)
  PROVE  Keeps(s) \/ Appears(s)
<1>1. CASE \E tag \in Tags, shape \in Saved :
             \E focus \in [DOMAIN shape -> 1 .. MaxPane], active \in DOMAIN shape :
               /\ \A k \in DOMAIN shape : focus[k] <= Count(shape, k)
               /\ RestoreSession(s, tag, shape, focus, active)
  <2>1. PICK tag \in Tags, shape \in Saved :
               \E focus \in [DOMAIN shape -> 1 .. MaxPane], active \in DOMAIN shape :
                 /\ \A k \in DOMAIN shape : focus[k] <= Count(shape, k)
                 /\ RestoreSession(s, tag, shape, focus, active)
    BY <1>1
  <2>2. PICK focus \in [DOMAIN shape -> 1 .. MaxPane], active \in DOMAIN shape :
                 /\ \A k \in DOMAIN shape : focus[k] <= Count(shape, k)
                 /\ RestoreSession(s, tag, shape, focus, active)
    BY <2>1
  <2> DEFINE t == NewSession(s, tag, Restored(shape, focus, nextPane), active)
             c == Before(shape, Len(shape) + 1)
  <2>3. nextPane \in PaneId /\ nextPane \in Nat /\ MaxPane \in Nat
    BY NextPaneNew
  <2>4. Good(t) /\ t.id = s /\ Panes(t) = nextPane .. nextPane + c - 1
    BY <2>2, <2>3, SessionRestored
  <2>5. sessions' = Append(sessions, t) /\ activeSession' = s
    BY <2>2 DEF RestoreSession, Restored
  <2>6. Mint(c)
    BY <2>2 DEF RestoreSession
  <2>7. ~Live(s)
    BY <2>2 DEF RestoreSession, Live
  <2>8. c \in Nat \ {0}
    <3>1. /\ Len(shape) \in Nat \ {0} /\ DOMAIN shape = 1 .. Len(shape)
          /\ \A k \in DOMAIN shape : /\ shape[k] \in Nat /\ Before(shape, k) \in Nat
                                     /\ Before(shape, k) < shape[k]
          /\ c = shape[Len(shape)]
      BY Checkpoint
    <3>2. Len(shape) \in DOMAIN shape
      BY <3>1
    <3> HIDE DEF c
    <3> QED
      BY <3>1, <3>2
  <2> HIDE DEF t, c
  <2>9. nextPane' = nextPane + c /\ nextPane' \in nextPane + 1 .. MaxPane + 1
    BY <2>3, <2>6, <2>8 DEF Mint
  <2>10. Panes(t) = nextPane .. nextPane' - 1
    <3>1. nextPane + c - 1 = nextPane' - 1
      BY <2>3, <2>8, <2>9
    <3> QED
      BY <2>4, <3>1
  <2> QED
    BY <2>4, <2>5, <2>7, <2>9, <2>10 DEF Appears
<1>2. CASE \E called \in SessionIds : RenameSession(s, called)
  <2>1. PICK called \in SessionIds : RenameSession(s, called)
    BY <1>2
  <2> DEFINE r == [Session(s) EXCEPT !.name = called]
  <2>2. /\ Live(s) /\ sessions' = With(s, r)
        /\ activeSession' = activeSession /\ nextPane' = nextPane
    BY <2>1 DEF RenameSession
  <2>3. Good(Session(s))
    BY <2>2, SessionAt
  <2>4. \A tag \in Tags \cup {NoTag} : Revised(Session(s), r, Panes(Session(s)))
    BY <2>3, SessionMarked
  <2>5. Revised(Session(s), r, Panes(Session(s)))
    BY <2>4
  <2> HIDE DEF r
  <2> QED
    BY <2>2, <2>5, UpdateKeeps
<1>3. CASE \E tag \in Tags : StampSession(s, tag)
  <2>1. PICK tag \in Tags : StampSession(s, tag)
    BY <1>3
  <2> DEFINE r == [Session(s) EXCEPT !.tag = tag]
  <2>2. /\ Live(s) /\ sessions' = With(s, r)
        /\ activeSession' = activeSession /\ nextPane' = nextPane
    BY <2>1 DEF StampSession
  <2>3. Good(Session(s))
    BY <2>2, SessionAt
  <2>4. Revised(Session(s), r, Panes(Session(s)))
    BY <2>3, SessionMarked
  <2> HIDE DEF r
  <2> QED
    BY <2>2, <2>4, UpdateKeeps
<1> QED
  BY <1>1, <1>2, <1>3 DEF SavedCommand

\* Selecting a tab after a move keeps what the move made.
LEMMA RevisedSelected ==
  ASSUME NEW r, NEW t, NEW ps, Revised(r, t, ps), NEW w
  PROVE  Revised(r, Selecting(t, w), ps)
<1> DEFINE u == Selecting(t, w)
<1>1. Good(t) /\ t.id = r.id /\ Panes(t) = ps /\ t \in SessionType
  BY DEF Revised, Good
<1>2. Good(u) /\ u.id = t.id /\ Panes(u) = Panes(t)
  BY <1>1, SessionSelected DEF Revised
<1>3. u.windows = t.windows
  BY <1>1 DEF Selecting, SessionType
<1> HIDE DEF u
<1>4. Tabs(u) = Tabs(t)
  BY <1>3 DEF Tabs
<1> QED
  BY <1>1, <1>2, <1>4 DEF Revised, u

\* The tabs' commands.
LEMMA TabChanges ==
  ASSUME StateInv, NEW s \in SessionIds, TabCommand(s)
  PROVE  Keeps(s) \/ Adds(s) \/ Misses
<1> DEFINE r == Session(s)
<1>1. ASSUME Live(s)
      PROVE  Good(r)
  BY <1>1, SessionAt
<1>2. \A w : w \in LiveTabs(s) => Live(s) /\ w \in Tabs(r)
  BY DEF LiveTabs
<1>3. CASE NewWindow(s)
  <2>1. nextPane \in PaneId /\ nextPane \in Nat /\ MaxPane \in Nat
    BY NextPaneNew
  <2>2. nextPane' = nextPane + 1 /\ nextPane' \in 1 .. MaxPane + 1
    BY <1>3, <2>1 DEF NewWindow, Mint
  <2>3. CASE Live(s)
    <3> DEFINE t == [r EXCEPT !.windows = Append(@, Tab(NextTab(r), Len(@) + 1, nextPane)),
                              !.active = NextTab(r), !.next = @ + 1]
    <3>1. nextPane \notin Panes(r)
      BY <2>3, NextPaneNew
    <3>2. Revised(r, t, Panes(r) \cup {nextPane})
      BY <1>1, <2>1, <2>3, <3>1, SessionNewTab
    <3>3. Update(s, t)
      BY <1>3, <2>3 DEF NewWindow
    <3> HIDE DEF t, r
    <3>4. Edits(s, t, Panes(r) \cup {nextPane})
      BY <2>3, <3>2, <3>3, UpdateEdits DEF r
    <3> QED
      BY <2>2, <3>4 DEF Adds, r
  <2>4. CASE ~Live(s)
    BY <1>3, <2>2, <2>4 DEF NewWindow, Misses
  <2> QED
    BY <2>3, <2>4
<1>4. CASE \E w \in 1 .. MaxTab : ActivateWindow(s, w)
  <2>1. PICK w \in 1 .. MaxTab : ActivateWindow(s, w)
    BY <1>4
  <2>2. w \in LiveTabs(s) /\ Update(s, Selecting(r, w)) /\ nextPane' = nextPane
    BY <2>1 DEF ActivateWindow
  <2>3. Live(s) /\ Revised(r, Selecting(r, w), Panes(r))
    BY <1>1, <1>2, <2>2, SessionSelected
  <2> QED
    BY <2>2, <2>3, UpdateKeeps
<1>5. CASE \E delta \in {-1, 1} : ActivateRelativeWindow(s, delta)
  <2>1. PICK delta \in {-1, 1} : ActivateRelativeWindow(s, delta)
    BY <1>5
  <2> DEFINE t == [r EXCEPT !.active =
                     r.windows[WrapIndex(TabPos(r, @), delta, Len(r.windows))].id]
  <2>2. Live(s) /\ Update(s, t) /\ nextPane' = nextPane
    BY <2>1 DEF ActivateRelativeWindow
  <2>3. delta \in Int
    OBVIOUS
  <2>4. Revised(r, t, Panes(r))
    BY <1>1, <2>2, <2>3, SessionWrapped
  <2> HIDE DEF t
  <2> QED
    BY <2>2, <2>4, UpdateKeeps
<1>6. CASE \E i \in 1 .. MaxTab : ActivateWindowIndex(s, i)
  <2>1. PICK i \in 1 .. MaxTab : ActivateWindowIndex(s, i)
    BY <1>6
  <2>2. Live(s) /\ nextPane' = nextPane
    BY <2>1 DEF ActivateWindowIndex
  <2>3. PICK k \in DOMAIN r.windows : Update(s, [r EXCEPT !.active = r.windows[k].id])
    BY <2>1 DEF ActivateWindowIndex
  <2>4. r.windows[k].id \in Tabs(r)
    BY DEF Tabs
  <2>5. Revised(r, [r EXCEPT !.active = r.windows[k].id], Panes(r))
    BY <1>1, <2>2, <2>4, SessionSelecting
  <2> QED
    BY <2>2, <2>3, <2>5, UpdateKeeps
<1>7. CASE \E w \in 1 .. MaxTab, delta \in Deltas : MoveWindow(s, w, delta)
  <2>1. PICK w \in 1 .. MaxTab, delta \in Deltas : MoveWindow(s, w, delta)
    BY <1>7
  <2>2. /\ w \in LiveTabs(s) /\ sessions' = With(s, Moved(r, w, delta))
        /\ activeSession' = activeSession /\ nextPane' = nextPane
    BY <2>1 DEF MoveWindow
  <2>3. Live(s) /\ w \in Tabs(r) /\ delta \in Int
    BY <1>2, <2>2, TopologyAssumption
  <2>4. Revised(r, Moved(r, w, delta), Panes(r))
    BY <1>1, <2>3, SessionMoved
  <2> QED
    BY <2>2, <2>3, <2>4, UpdateKeeps
<1>8. CASE \E w, selected \in 1 .. MaxTab, delta \in Deltas :
             MoveWindowPreservingSelection(s, w, delta, selected)
  <2>1. PICK w \in 1 .. MaxTab, selected \in 1 .. MaxTab, delta \in Deltas :
               MoveWindowPreservingSelection(s, w, delta, selected)
    BY <1>8
  <2> DEFINE moved == IF w \in Tabs(r) THEN Moved(r, w, delta) ELSE r
  <2>2. /\ w \in LiveTabs(s) \/ selected \in LiveTabs(s)
        /\ sessions' = With(s, Selecting(moved, selected))
        /\ activeSession' \in {s, activeSession} /\ nextPane' = nextPane
    BY <2>1 DEF MoveWindowPreservingSelection
  <2>3. Live(s) /\ delta \in Int
    BY <1>2, <2>2, TopologyAssumption
  <2>4. Good(r)
    BY <1>1, <2>3
  <2>5. Revised(r, moved, Panes(r))
    <3>1. CASE w \in Tabs(r)
      BY <2>3, <2>4, <3>1, SessionMoved
    <3>2. CASE w \notin Tabs(r)
      BY <2>4, <3>2 DEF Revised
    <3> QED
      BY <3>1, <3>2
  <2> HIDE DEF moved
  <2>6. Revised(r, Selecting(moved, selected), Panes(r))
    BY <2>5, RevisedSelected
  <2> QED
    BY <2>2, <2>3, <2>6, UpdateKeeps
<1> QED
  BY <1>3, <1>4, <1>5, <1>6, <1>7, <1>8 DEF TabCommand

\* Selecting a pane, in a session that is found by s.
LEMMA FocusChanges ==
  ASSUME StateInv, NEW s, Live(s), NEW w, NEW p, w \in Tabs(Session(s)),
         p \in ToSet(Session(s).windows[TabPos(Session(s), w)].panes), nextPane' = nextPane,
         LET r == Session(s)
             k == TabPos(r, w)
         IN  Update(s, [WithTab(r, k, [r.windows[k] EXCEPT !.active = p]) EXCEPT !.active = w])
  PROVE  Keeps(s)
<1> DEFINE r == Session(s)
           k == TabPos(r, w)
           t == [WithTab(r, k, [r.windows[k] EXCEPT !.active = p]) EXCEPT !.active = w]
<1>1. Good(r)
  BY SessionAt
<1>2. Revised(r, t, Panes(r))
  BY <1>1, SessionFocused
<1>3. Update(s, t)
  OBVIOUS
<1> HIDE DEF t
<1> QED
  BY <1>2, <1>3, UpdateKeeps

\* select_pane moves the selection to a pane of the tab it names.
LEMMA SelectChanges ==
  ASSUME StateInv, NEW s, NEW w, NEW p, SelectPane(s, w, p)
  PROVE  Keeps(s)
<1>1. w \in LiveTabs(s) /\ nextPane' = nextPane
  BY DEF SelectPane
<1>2. Live(s) /\ w \in Tabs(Session(s))
  BY <1>1 DEF LiveTabs
<1>3. /\ p \in ToSet(Session(s).windows[TabPos(Session(s), w)].panes)
      /\ LET r == Session(s)
             k == TabPos(r, w)
         IN  Update(s, [WithTab(r, k, [r.windows[k] EXCEPT !.active = p]) EXCEPT !.active = w])
  BY DEF SelectPane
<1> QED
  BY <1>1, <1>2, <1>3, FocusChanges

\* The panes' commands.
LEMMA PaneChanges ==
  ASSUME StateInv, NEW s \in SessionIds, PaneCommand(s)
  PROVE  \E x \in SessionIds : Keeps(x) \/ Adds(x) \/ Goes(x) \/ \E p : Loses(x, p)
<1> DEFINE r == Session(s)
<1>1. \A p : p \in LivePanes(s) => Live(s) /\ p \in Panes(r)
  BY DEF LivePanes
<1>2. CASE \E p \in 1 .. MaxPane : SplitPane(s, p)
  <2>1. PICK p \in 1 .. MaxPane : SplitPane(s, p)
    BY <1>2
  <2>2. nextPane \in PaneId /\ nextPane \in Nat /\ MaxPane \in Nat
    BY NextPaneNew
  <2>3. nextPane' = nextPane + 1 /\ nextPane' \in 1 .. MaxPane + 1
    BY <2>1, <2>2 DEF SplitPane, Mint
  <2> DEFINE k == Home(r, p)
             t == [WithTab(r, k, [r.windows[k] EXCEPT !.panes = Append(@, nextPane),
                                                      !.active = nextPane])
                     EXCEPT !.active = r.windows[k].id]
  <2>4. p \in LivePanes(s) /\ Update(s, t)
    BY <2>1 DEF SplitPane
  <2>5. Live(s) /\ p \in Panes(r)
    BY <1>1, <2>4
  <2>6. Good(r) /\ nextPane \notin Panes(r)
    BY <2>5, SessionAt, NextPaneNew
  <2>7. Revised(r, t, Panes(r) \cup {nextPane})
    BY <2>2, <2>5, <2>6, SessionSplit
  <2> HIDE DEF t, r
  <2>8. Edits(s, t, Panes(r) \cup {nextPane})
    BY <2>4, <2>5, <2>7, UpdateEdits DEF r
  <2> QED
    BY <2>3, <2>8 DEF Adds, r
<1>3. CASE \E w \in 1 .. MaxTab, p \in 1 .. MaxPane : ActivatePane(s, w, p)
  <2>1. PICK w \in 1 .. MaxTab, p \in 1 .. MaxPane : ActivatePane(s, w, p)
    BY <1>3
  <2>2. PICK k \in DOMAIN sessions :
          LET u == sessions[k]
          IN  /\ w \in Tabs(u) /\ p \in ToSet(u.windows[TabPos(u, w)].panes)
              /\ Update(u.id, [WithTab(u, TabPos(u, w), [u.windows[TabPos(u, w)] EXCEPT !.active = p])
                                 EXCEPT !.active = w])
    BY <2>1 DEF ActivatePane
  <2>3. nextPane' = nextPane
    BY <2>1 DEF ActivatePane
  <2> DEFINE x == sessions[k].id
  <2>4. Live(x)
    BY DEF Live
  <2>5. sessions[k] = Session(x) /\ x \in SessionIds
    BY <2>4, SessionAt
  <2> HIDE DEF x
  <2>6. Keeps(x)
    BY <2>2, <2>3, <2>4, <2>5, FocusChanges DEF x
  <2> QED
    BY <2>5, <2>6
<1>4. CASE \E w \in 1 .. MaxTab, p \in 1 .. MaxPane : SelectPane(s, w, p)
  BY <1>4, SelectChanges
<1>5. CASE \E w \in 1 .. MaxTab, delta \in {-1, 1} : SelectRelativePane(s, w, delta)
  <2>1. PICK w \in 1 .. MaxTab, delta \in {-1, 1} : SelectRelativePane(s, w, delta)
    BY <1>5
  <2>2. \E p : SelectPane(s, w, p)
    BY <2>1 DEF SelectRelativePane
  <2> QED
    BY <2>2, SelectChanges
<1>6. CASE \E p \in 1 .. MaxPane, closeWindow \in BOOLEAN : ClosePane(s, p, closeWindow)
  <2>1. PICK p \in 1 .. MaxPane, closeWindow \in BOOLEAN : ClosePane(s, p, closeWindow)
    BY <1>6
  <2>2. p \in LivePanes(s) /\ nextPane' = nextPane
    BY <2>1 DEF ClosePane
  <2>3. Live(s) /\ p \in Panes(r)
    BY <1>1, <2>2
  <2>4. Good(r)
    BY <2>3, SessionAt
  <2> DEFINE t == Closed(r, p)
  <2>5. CASE t.windows = << >>
    <3>1. KillSession(s)
      BY <2>1, <2>5 DEF ClosePane
    <3> QED
      BY <2>2, <2>3, <3>1 DEF Goes
  <2>6. CASE t.windows # << >>
    <3>1. sessions' = With(s, t) /\ activeSession' \in {s, activeSession}
      BY <2>1, <2>6 DEF ClosePane
    <3>2. Revised(r, t, Panes(r) \ {p}) /\ (Focus(r) # p => Focus(t) = Focus(r))
      BY <2>3, <2>4, <2>6, SessionClosed
    <3> HIDE DEF t, r
    <3>3. Edits(s, t, Panes(r) \ {p})
      BY <2>3, <3>1, <3>2, UpdateEdits DEF r
    <3>4. Loses(s, p)
      BY <2>2, <2>3, <3>2, <3>3 DEF Loses, r
    <3> QED
      BY <3>4
  <2> QED
    BY <2>5, <2>6
<1> QED
  BY <1>2, <1>3, <1>4, <1>5, <1>6 DEF PaneCommand

\* Merging, swapping, moving and extracting.
LEMMA ArrangeChanges ==
  ASSUME StateInv, NEW s \in SessionIds, ArrangeCommand(s)
  PROVE  Keeps(s)
<1> DEFINE r == Session(s)
<1>1. \A p : p \in LivePanes(s) => Live(s) /\ Good(r) /\ p \in Panes(r)
  BY SessionAt DEF LivePanes
<1>2. CASE \E a, b \in 1 .. MaxTab : MergeWindows(s, a, b)
  <2>1. PICK a \in 1 .. MaxTab, b \in 1 .. MaxTab : MergeWindows(s, a, b)
    BY <1>2
  <2> DEFINE from == r.windows[TabPos(r, a)]
             merged == [r.windows[TabPos(r, b)] EXCEPT !.panes = @ \o from.panes,
                                                       !.active = from.active]
             t == [r EXCEPT !.windows = Renumbered(RemoveAt([@ EXCEPT ![TabPos(r, b)] = merged],
                                                            TabPos(r, a))),
                            !.active = b]
  <2>2. /\ a \in LiveTabs(s) /\ b \in LiveTabs(s) /\ a # b /\ Update(s, t) /\ nextPane' = nextPane
    BY <2>1 DEF MergeWindows
  <2>3. Live(s) /\ a \in Tabs(r) /\ b \in Tabs(r)
    BY <2>2 DEF LiveTabs
  <2>4. Good(r)
    BY <2>3, SessionAt
  <2>5. Revised(r, t, Panes(r))
    BY <2>2, <2>3, <2>4, SessionMerged
  <2> HIDE DEF t
  <2> QED
    BY <2>2, <2>3, <2>5, UpdateKeeps
<1>3. CASE \E p, q \in 1 .. MaxPane : SwapPanes(s, p, q)
  <2>1. PICK p \in 1 .. MaxPane, q \in 1 .. MaxPane : SwapPanes(s, p, q)
    BY <1>3
  <2> DEFINE t == [Swapped(r, p, q) EXCEPT !.active = r.windows[Home(r, q)].id]
  <2>2. /\ p \in LivePanes(s) /\ q \in LivePanes(s) /\ p # q /\ Update(s, t) /\ nextPane' = nextPane
    BY <2>1 DEF SwapPanes
  <2>3. Live(s) /\ Good(r) /\ p \in Panes(r) /\ q \in Panes(r)
    BY <1>1, <2>2
  <2>4. Revised(r, t, Panes(r))
    BY <2>2, <2>3, SessionSwapped
  <2> HIDE DEF t
  <2> QED
    BY <2>2, <2>3, <2>4, UpdateKeeps
<1>4. CASE \E p, q \in 1 .. MaxPane, after \in BOOLEAN : MovePane(s, p, q, after)
  <2>1. PICK p \in 1 .. MaxPane, q \in 1 .. MaxPane, after \in BOOLEAN : MovePane(s, p, q, after)
    BY <1>4
  <2> DEFINE dest == r.windows[Home(r, q)].id
             out == Retained([r.windows EXCEPT ![Home(r, p)] = Without(@, p)], Home(r, p))
             k == CHOOSE j \in DOMAIN out : out[j].id = dest
             beside == PanePos(out[k], q) + (IF after THEN 1 ELSE 0)
             joined == [out[k] EXCEPT !.panes = InsertAt(@, beside, p), !.active = p]
             t == [r EXCEPT !.windows = Renumbered([out EXCEPT ![k] = joined]), !.active = dest]
  <2>2. /\ p \in LivePanes(s) /\ q \in LivePanes(s) /\ p # q /\ Update(s, t) /\ nextPane' = nextPane
    BY <2>1 DEF MovePane
  <2>3. Live(s) /\ Good(r) /\ p \in Panes(r) /\ q \in Panes(r)
    BY <1>1, <2>2
  <2>4. Revised(r, t, Panes(r))
    BY <2>2, <2>3, SessionMovedPane
  <2> HIDE DEF t
  <2> QED
    BY <2>2, <2>3, <2>4, UpdateKeeps
<1>5. CASE \E p \in 1 .. MaxPane : ExtractPane(s, p)
  <2>1. PICK p \in 1 .. MaxPane : ExtractPane(s, p)
    BY <1>5
  <2> DEFINE k == Home(r, p)
             left == [r.windows EXCEPT ![k] = Without(@, p)]
             t == [r EXCEPT !.windows = Renumbered(InsertAt(left, k + 1, Tab(NextTab(r), 0, p))),
                            !.active = NextTab(r), !.next = @ + 1]
  <2>2. /\ p \in LivePanes(s) /\ Len(r.windows[k].panes) >= 2 /\ Update(s, t) /\ nextPane' = nextPane
    BY <2>1 DEF ExtractPane
  <2>3. Live(s) /\ Good(r) /\ p \in Panes(r)
    BY <1>1, <2>2
  <2>4. Revised(r, t, Panes(r))
    BY <2>2, <2>3, SessionExtracted
  <2> HIDE DEF t
  <2> QED
    BY <2>2, <2>3, <2>4, UpdateKeeps
<1> QED
  BY <1>2, <1>3, <1>4, <1>5 DEF ArrangeCommand

\* Every command changes the workspace in one of these ways.
LEMMA EveryChange ==
  ASSUME StateInv, StateNext \/ UNCHANGED stateVars
  PROVE  Change
<1>1. CASE UNCHANGED stateVars
  BY <1>1 DEF Change
<1>2. CASE StateNext
  <2>1. PICK s \in SessionIds : \/ SessionCommand(s) \/ DitchSession(s) \/ SavedCommand(s)
                                \/ TabCommand(s) \/ PaneCommand(s) \/ ArrangeCommand(s)
    BY <1>2 DEF StateNext
  <2>2. CASE SessionCommand(s)
    BY <2>2, CreateChanges DEF Change
  <2>3. CASE DitchSession(s)
    BY <2>3, DitchChanges DEF Change
  <2>4. CASE SavedCommand(s)
    BY <2>4, SavedChanges DEF Change
  <2>5. CASE TabCommand(s)
    BY <2>5, TabChanges DEF Change
  <2>6. CASE PaneCommand(s)
    BY <2>6, PaneChanges DEF Change
  <2>7. CASE ArrangeCommand(s)
    BY <2>7, ArrangeChanges DEF Change
  <2> QED
    BY <2>1, <2>2, <2>3, <2>4, <2>5, <2>6, <2>7
<1> QED
  BY <1>1, <1>2

--------------------------------------------------------------------------------
(* The invariant is inductive *)

\* An edit leaves every other session where it was.
LEMMA EditSound ==
  ASSUME StateInv, NEW s, NEW r, NEW ps, Edits(s, r, ps), nextPane' \in Nat, nextPane <= nextPane',
         \A p \in ps : p \in Panes(Session(s)) \/ (nextPane <= p /\ p < nextPane')
  PROVE  /\ Sound(sessions', nextPane') /\ DOMAIN sessions' = DOMAIN sessions
         /\ \A i \in DOMAIN sessions : sessions'[i] = IF i = Pos(s) THEN r ELSE sessions[i]
         /\ PanesIn(sessions') = (PanesIn(sessions) \ Panes(Session(s))) \cup ps
         /\ IF sessions' = << >> THEN activeSession' = NoSession ELSE Live(activeSession)'
<1> DEFINE k == Pos(s)
<1>1. /\ Live(s) /\ Revised(Session(s), r, ps) /\ sessions' = Put(sessions, k, r)
      /\ activeSession' \in {s, activeSession}
  BY DEF Edits
<1>2. k \in DOMAIN sessions /\ Session(s) = sessions[k] /\ sessions[k].id = s
  BY <1>1, SessionAt
<1>3. Good(r) /\ r.id = sessions[k].id /\ Panes(r) = ps
  BY <1>1, <1>2 DEF Revised
<1>4. nextPane \in Nat /\ Sound(sessions, nextPane)
  BY NextPaneNew DEF StateInv
<1> HIDE DEF k
<1>5. /\ Sound(sessions', nextPane') /\ DOMAIN sessions' = DOMAIN sessions
      /\ \A i \in DOMAIN sessions : sessions'[i] = IF i = k THEN r ELSE sessions[i]
      /\ PanesIn(sessions') = (PanesIn(sessions) \ Panes(sessions[k])) \cup Panes(r)
  BY <1>1, <1>2, <1>3, <1>4, SessionPut
<1>6. \A i \in DOMAIN sessions : sessions'[i].id = sessions[i].id
  BY <1>3, <1>5
<1>7. sessions # << >> /\ sessions' # << >>
  BY <1>2, <1>5
<1>8. Live(activeSession) /\ Live(s)
  BY <1>1, <1>7 DEF StateInv
<1>9. Live(activeSession)'
  BY <1>1, <1>5, <1>6, <1>8 DEF Live
<1> QED
  BY <1>2, <1>3, <1>5, <1>7, <1>9 DEF k

\* The three kinds of edits, at once.
LEMMA EditChanges ==
  ASSUME StateInv, NEW s, NEW r, NEW ps, Edits(s, r, ps),
         \/ ps = Panes(Session(s)) /\ nextPane' = nextPane
         \/ /\ ps = Panes(Session(s)) \cup {nextPane}
            /\ nextPane' = nextPane + 1 /\ nextPane' \in 1 .. MaxPane + 1
         \/ (\E p : ps = Panes(Session(s)) \ {p}) /\ nextPane' = nextPane
  PROVE  /\ StateInv' /\ DOMAIN sessions' = DOMAIN sessions
         /\ \A i \in DOMAIN sessions : sessions'[i] = IF i = Pos(s) THEN r ELSE sessions[i]
         /\ PanesIn(sessions') = (PanesIn(sessions) \ Panes(Session(s))) \cup ps
<1>1. nextPane \in Nat /\ MaxPane \in Nat /\ nextPane \in 1 .. MaxPane + 1
  BY NextPaneNew DEF StateInv
<1>2. nextPane' \in Nat /\ nextPane <= nextPane' /\ nextPane' \in 1 .. MaxPane + 1
  BY <1>1
<1>3. \A p \in ps : p \in Panes(Session(s)) \/ (nextPane <= p /\ p < nextPane')
  BY <1>1
<1>4. /\ Sound(sessions', nextPane') /\ DOMAIN sessions' = DOMAIN sessions
      /\ \A i \in DOMAIN sessions : sessions'[i] = IF i = Pos(s) THEN r ELSE sessions[i]
      /\ PanesIn(sessions') = (PanesIn(sessions) \ Panes(Session(s))) \cup ps
      /\ IF sessions' = << >> THEN activeSession' = NoSession ELSE Live(activeSession)'
  BY <1>2, <1>3, EditSound
<1> QED
  BY <1>2, <1>4 DEF StateInv

\* A session that appears has the panes just minted, and the others stay.
LEMMA AppearsChanges ==
  ASSUME StateInv, NEW s, Appears(s)
  PROVE  /\ StateInv'
         /\ \A j \in DOMAIN sessions' : sessions'[j].id = s \/ (j \in DOMAIN sessions /\ sessions'[j] = sessions[j])
         /\ PanesIn(sessions') = PanesIn(sessions) \cup (nextPane .. nextPane' - 1)
<1>1. PICK r : /\ ~Live(s) /\ Good(r) /\ r.id = s /\ Panes(r) = nextPane .. nextPane' - 1
               /\ sessions' = Append(sessions, r) /\ activeSession' = s
               /\ nextPane' \in nextPane + 1 .. MaxPane + 1
  BY DEF Appears
<1>2. nextPane \in Nat /\ MaxPane \in Nat /\ nextPane \in 1 .. MaxPane + 1 /\ Sound(sessions, nextPane)
  BY NextPaneNew DEF StateInv
<1>3. nextPane' \in Nat /\ nextPane <= nextPane' /\ nextPane' \in 1 .. MaxPane + 1
  BY <1>1, <1>2
<1>4. \A k \in DOMAIN sessions : sessions[k].id # r.id
  BY <1>1 DEF Live
<1>5. \A p \in Panes(r) : nextPane <= p /\ p < nextPane'
  BY <1>1, <1>2, <1>3
<1>6. /\ Sound(sessions', nextPane')
      /\ \A i \in DOMAIN sessions' : sessions'[i] = r \/ (i \in DOMAIN sessions /\ sessions'[i] = sessions[i])
      /\ \E i \in DOMAIN sessions' : sessions'[i] = r
      /\ PanesIn(sessions') = PanesIn(sessions) \cup Panes(r)
  BY <1>1, <1>2, <1>3, <1>4, <1>5, SessionAppended
<1>7. Live(activeSession)' /\ sessions' # << >>
  BY <1>1, <1>6 DEF Live
<1>8. StateInv'
  BY <1>3, <1>6, <1>7 DEF StateInv
<1> QED
  BY <1>1, <1>6, <1>8

\* A session that goes takes its panes along, and the selection moves to one that stays.
LEMMA GoesChanges ==
  ASSUME StateInv, NEW s, Goes(s)
  PROVE  /\ StateInv'
         /\ \A j \in DOMAIN sessions' : \E i \in DOMAIN sessions : sessions'[j] = sessions[i]
         /\ PanesIn(sessions') = PanesIn(sessions) \ Panes(Session(s))
<1> DEFINE k == Pos(s)
<1>1. /\ Live(s) /\ sessions' = RemoveAt(sessions, k) /\ nextPane' = nextPane
      /\ activeSession' = IF activeSession # s THEN activeSession
                          ELSE IF sessions' = << >> THEN NoSession ELSE sessions'[1].id
  BY DEF Goes, KillSession, Others
<1>2. /\ k \in DOMAIN sessions /\ Session(s) = sessions[k] /\ sessions[k].id = s
      /\ \A i \in DOMAIN sessions : sessions[i].id = s => i = k
  BY <1>1, SessionAt
<1>3. nextPane \in Nat /\ Sound(sessions, nextPane)
  BY NextPaneNew DEF StateInv
<1> HIDE DEF k
<1>4. /\ Sound(sessions', nextPane)
      /\ \A i \in DOMAIN sessions' : \E j \in DOMAIN sessions : j # k /\ sessions'[i] = sessions[j]
      /\ \A j \in DOMAIN sessions : j # k => \E i \in DOMAIN sessions' : sessions'[i] = sessions[j]
      /\ sessions' # << >> => 1 \in DOMAIN sessions'
      /\ PanesIn(sessions') = PanesIn(sessions) \ Panes(sessions[k])
  BY <1>1, <1>2, <1>3, SessionRemoved
<1>5. sessions # << >> /\ Live(activeSession)
  BY <1>1, <1>2 DEF StateInv
<1>6. CASE activeSession = s
  <2>1. IF sessions' = << >> THEN activeSession' = NoSession ELSE Live(activeSession)'
    BY <1>1, <1>4, <1>6 DEF Live
  <2> QED
    BY <1>1, <1>2, <1>4, <2>1 DEF StateInv, k
<1>7. CASE activeSession # s
  <2>1. PICK j \in DOMAIN sessions : sessions[j].id = activeSession
    BY <1>5 DEF Live
  <2>2. PICK i \in DOMAIN sessions' : sessions'[i] = sessions[j]
    BY <1>2, <1>4, <1>7, <2>1
  <2>3. Live(activeSession)' /\ sessions' # << >>
    BY <1>1, <1>7, <2>1, <2>2 DEF Live
  <2> QED
    BY <1>1, <1>2, <1>4, <2>3 DEF StateInv, k
<1> QED
  BY <1>6, <1>7

\* A new tab for a session that has gone only wastes the identity it minted.
LEMMA MissesChanges ==
  ASSUME StateInv, Misses
  PROVE  StateInv' /\ sessions' = sessions
<1>1. /\ sessions' = sessions /\ activeSession' = activeSession
      /\ nextPane' = nextPane + 1 /\ nextPane' \in 1 .. MaxPane + 1
  BY DEF Misses
<1>2. nextPane \in Nat /\ Sound(sessions, nextPane)
  BY NextPaneNew DEF StateInv
<1>3. \A k \in DOMAIN sessions : \A p \in Panes(sessions[k]) : p \in Nat /\ p < nextPane
  BY <1>2, PanesTyped DEF Sound, PaneId
<1>4. \A k \in DOMAIN sessions : \A p \in Panes(sessions[k]) : p < nextPane'
  BY <1>1, <1>2, <1>3
<1>5. Sound(sessions, nextPane')
  BY <1>2, <1>4 DEF Sound
<1>6. IF sessions' = << >> THEN activeSession' = NoSession ELSE Live(activeSession)'
  BY <1>1 DEF StateInv, Live
<1> QED
  BY <1>1, <1>5, <1>6 DEF StateInv

\* Whatever the command, the invariant is kept.
LEMMA ChangeKeepsInv ==
  ASSUME StateInv, Change
  PROVE  StateInv'
<1>1. ASSUME NEW s, Keeps(s)
      PROVE  StateInv'
  BY <1>1, EditChanges DEF Keeps
<1>2. ASSUME NEW s, Adds(s)
      PROVE  StateInv'
  BY <1>2, EditChanges DEF Adds
<1>3. ASSUME NEW s, NEW p, Loses(s, p)
      PROVE  StateInv'
  BY <1>3, EditChanges DEF Loses
<1>4. CASE UNCHANGED stateVars
  BY <1>4 DEF StateInv, Live, stateVars
<1> QED
  BY <1>1, <1>2, <1>3, <1>4, AppearsChanges, GoesChanges, MissesChanges DEF Change

\* However commands follow one another on NativeMuxState, every session keeps tabs
\* with panes, none of them twice, numbered in order, and live selections throughout.
THEOREM StateInvariance == StateSpec => []StateInv
<1>1. StateInit => StateInv
  <2> SUFFICES ASSUME StateInit
               PROVE  StateInv
    OBVIOUS
  <2>1. sessions = << >> /\ activeSession = NoSession /\ nextPane = 1
    BY DEF StateInit
  <2>2. Sound(sessions, nextPane)
    BY <2>1 DEF Sound
  <2>3. nextPane \in 1 .. MaxPane + 1
    BY <2>1, TopologyAssumption
  <2> QED
    BY <2>1, <2>2, <2>3 DEF StateInv
<1>2. StateInv /\ [StateNext]_stateVars => StateInv'
  <2> SUFFICES ASSUME StateInv, [StateNext]_stateVars
               PROVE  StateInv'
    OBVIOUS
  <2>1. Change
    BY EveryChange
  <2> QED
    BY <2>1, ChangeKeepsInv
<1> QED
  BY <1>1, <1>2, PTL DEF StateSpec

\* After any sequence of commands the selection of NativeMuxState is live all the
\* way down, so that target_pane_location finds the pane input goes to.
THEOREM SelectionStaysLive == StateSpec => []SelectionLive
<1>1. StateInv => SelectionLive
  <2> SUFFICES ASSUME StateInv
               PROVE  SelectionLive
    OBVIOUS
  <2>1. \A k \in DOMAIN sessions : Good(sessions[k])
    BY DEF StateInv, Sound
  <2>2. \A k \in DOMAIN sessions :
          /\ sessions[k].active \in Tabs(sessions[k])
          /\ \A j \in DOMAIN sessions[k].windows :
               sessions[k].windows[j].active \in ToSet(sessions[k].windows[j].panes)
    BY <2>1 DEF Good, GoodTabs, GoodTab
  <2> QED
    BY <2>2 DEF SelectionLive, StateInv
<1> QED
  BY <1>1, StateInvariance, PTL

\* After any sequence of commands every session, tab and pane of NativeMuxState is
\* in one place, tabs are numbered by position, no tab or session is left empty, and
\* no live identity is one that next_pane_id or next_window_id will hand out.
THEOREM StaysWellFormed == StateSpec => []WellFormed
<1>1. StateInv => WellFormed
  <2> SUFFICES ASSUME StateInv
               PROVE  WellFormed
    OBVIOUS
  <2>1. /\ sessions \in Seq(SessionType) /\ nextPane \in 1 .. MaxPane + 1
        /\ \A k \in DOMAIN sessions : Good(sessions[k]) /\ \A p \in Panes(sessions[k]) : p < nextPane
        /\ \A i, j \in DOMAIN sessions :
             i # j => sessions[i].id # sessions[j].id /\ Panes(sessions[i]) \cap Panes(sessions[j]) = {}
    BY DEF StateInv, Sound
  <2>2. StateTypeOK
    <3>1. activeSession \in SessionIds \cup {NoSession}
      BY SessionAt DEF StateInv
    <3>2. \A k \in DOMAIN sessions :
            /\ sessions[k].windows # << >>
            /\ \A j \in DOMAIN sessions[k].windows : sessions[k].windows[j].panes # << >>
      BY <2>1 DEF Good, GoodTabs, GoodTab
    <3> QED
      BY <2>1, <3>1, <3>2 DEF StateTypeOK
  <2>3. SessionsApart
    BY <2>1 DEF SessionsApart
  <2>4. PanesUnique
    <3>1. ASSUME NEW k \in DOMAIN sessions
          PROVE  LET ws == sessions[k].windows
                 IN  /\ \A j \in DOMAIN ws : IsInjective(ws[j].panes)
                     /\ \A i, j \in DOMAIN ws : i # j => ToSet(ws[i].panes) \cap ToSet(ws[j].panes) = {}
      BY <2>1 DEF Good, GoodTabs, GoodTab, Held
    <3>2. \A p \in AllPanes : p < nextPane
      BY <2>1 DEF AllPanes
    <3> QED
      BY <2>1, <3>1, <3>2 DEF PanesUnique
  <2>5. TabsNumbered
    BY <2>1 DEF TabsNumbered, Good, GoodTabs, Numbered
  <2> QED
    BY <2>2, <2>3, <2>4, <2>5 DEF WellFormed
<1> QED
  BY <1>1, StateInvariance, PTL

\* What a command may do to a session that it leaves there.
LEMMA SameSession ==
  ASSUME StateInv, Change, NEW k \in DOMAIN sessions, NEW j \in DOMAIN sessions',
         sessions[k].id = sessions'[j].id
  PROVE  LET r == sessions[k]
             t == sessions'[j]
         IN  \/ t = r
             \/ \E ps : /\ Revised(r, t, ps)
                        /\ \/ Panes(r) \subseteq ps
                           \/ \E p : ps = Panes(r) \ {p} /\ (Focus(r) # p => Focus(t) = Focus(r))
<1> DEFINE r == sessions[k]
           t == sessions'[j]
           Same == \/ t = r
                   \/ \E ps : /\ Revised(r, t, ps)
                              /\ \/ Panes(r) \subseteq ps
                                 \/ \E p : ps = Panes(r) \ {p} /\ (Focus(r) # p => Focus(t) = Focus(r))
<1>1. \A i \in DOMAIN sessions : sessions[i].id = r.id => i = k
  BY DEF StateInv, Sound
<1>2. ASSUME NEW s, NEW u, NEW ps, Edits(s, u, ps), DOMAIN sessions' = DOMAIN sessions,
             \A i \in DOMAIN sessions : sessions'[i] = IF i = Pos(s) THEN u ELSE sessions[i]
      PROVE  t = r \/ (t = u /\ r = Session(s) /\ Revised(r, t, ps))
  <2>1. /\ Live(s) /\ Revised(Session(s), u, ps)
    BY <1>2 DEF Edits
  <2>2. Pos(s) \in DOMAIN sessions /\ Session(s) = sessions[Pos(s)]
    BY <2>1, SessionAt
  <2>3. u.id = sessions[Pos(s)].id
    BY <2>1, <2>2 DEF Revised
  <2>4. j \in DOMAIN sessions /\ sessions[j].id = t.id
    BY <1>2, <2>3
  <2>5. j = k
    BY <1>1, <2>4
  <2> QED
    BY <1>2, <2>1, <2>2, <2>5
<1>3. ASSUME NEW s, Keeps(s)
      PROVE  Same
  <2>1. PICK u : Edits(s, u, Panes(Session(s))) /\ nextPane' = nextPane
    BY <1>3 DEF Keeps
  <2>2. /\ DOMAIN sessions' = DOMAIN sessions
        /\ \A i \in DOMAIN sessions : sessions'[i] = IF i = Pos(s) THEN u ELSE sessions[i]
    BY <2>1, EditChanges
  <2> QED
    BY <1>2, <2>1, <2>2
<1>4. ASSUME NEW s, Adds(s)
      PROVE  Same
  <2>1. PICK u : /\ Edits(s, u, Panes(Session(s)) \cup {nextPane})
                 /\ nextPane' = nextPane + 1 /\ nextPane' \in 1 .. MaxPane + 1
    BY <1>4 DEF Adds
  <2>2. /\ DOMAIN sessions' = DOMAIN sessions
        /\ \A i \in DOMAIN sessions : sessions'[i] = IF i = Pos(s) THEN u ELSE sessions[i]
    BY <2>1, EditChanges
  <2> QED
    BY <1>2, <2>1, <2>2
<1>5. ASSUME NEW s, NEW p, Loses(s, p)
      PROVE  Same
  <2>1. PICK u : /\ Edits(s, u, Panes(Session(s)) \ {p}) /\ nextPane' = nextPane
                 /\ Focus(Session(s)) # p => Focus(u) = Focus(Session(s))
    BY <1>5 DEF Loses
  <2>2. /\ DOMAIN sessions' = DOMAIN sessions
        /\ \A i \in DOMAIN sessions : sessions'[i] = IF i = Pos(s) THEN u ELSE sessions[i]
    BY <2>1, EditChanges
  <2> QED
    BY <1>2, <2>1, <2>2
<1>6. ASSUME NEW s, Appears(s)
      PROVE  Same
  <2>1. \A i \in DOMAIN sessions' : sessions'[i].id = s \/ (i \in DOMAIN sessions /\ sessions'[i] = sessions[i])
    BY <1>6, AppearsChanges
  <2>2. t.id # s
    BY <1>6 DEF Appears, Live
  <2>3. j \in DOMAIN sessions /\ t = sessions[j]
    BY <2>1, <2>2
  <2> QED
    BY <1>1, <2>3
<1>7. ASSUME NEW s, Goes(s)
      PROVE  Same
  <2>1. PICK i \in DOMAIN sessions : t = sessions[i]
    BY <1>7, GoesChanges
  <2> QED
    BY <1>1, <2>1
<1>8. ASSUME Misses \/ UNCHANGED stateVars
      PROVE  Same
  <2>1. sessions' = sessions
    BY <1>8 DEF Misses, stateVars
  <2> QED
    BY <1>1, <2>1
<1> HIDE DEF Same
<1>9. Same
  <2>1. \/ \E s : Keeps(s) \/ Adds(s) \/ Appears(s) \/ Goes(s) \/ \E p : Loses(s, p)
        \/ Misses \/ UNCHANGED stateVars
    BY DEF Change
  <2>2. CASE \E s : Keeps(s) \/ Adds(s) \/ Appears(s) \/ Goes(s) \/ \E p : Loses(s, p)
    <3>1. PICK s : Keeps(s) \/ Adds(s) \/ Appears(s) \/ Goes(s) \/ \E p : Loses(s, p)
      BY <2>2
    <3> QED
      BY <1>3, <1>4, <1>5, <1>6, <1>7, <3>1
  <2> QED
    BY <1>8, <2>1, <2>2
<1> QED
  BY <1>9 DEF Same

\* close_pane never takes the focus of its session away from a pane that stays,
\* whatever tabs and panes there are.
THEOREM FocusKept == StateSpec => CloseKeepsFocus
<1>1. ASSUME StateInv, [StateNext]_stateVars
      PROVE  [\A k \in DOMAIN sessions, j \in DOMAIN sessions' :
                LET r == sessions[k]
                    t == sessions'[j]
                IN  r.id = t.id /\ ~(Panes(r) \subseteq Panes(t)) /\ Focus(r) \in Panes(t)
                      => Focus(t) = Focus(r)]_stateVars
  <2> SUFFICES ASSUME NEW k \in DOMAIN sessions, NEW j \in DOMAIN sessions',
                      sessions[k].id = sessions'[j].id,
                      ~(Panes(sessions[k]) \subseteq Panes(sessions'[j])),
                      Focus(sessions[k]) \in Panes(sessions'[j])
               PROVE  Focus(sessions'[j]) = Focus(sessions[k])
    OBVIOUS
  <2>1. Change
    BY <1>1, EveryChange
  <2>2. PICK ps : /\ Revised(sessions[k], sessions'[j], ps)
                  /\ \/ Panes(sessions[k]) \subseteq ps
                     \/ \E p : /\ ps = Panes(sessions[k]) \ {p}
                               /\ Focus(sessions[k]) # p => Focus(sessions'[j]) = Focus(sessions[k])
    BY <1>1, <2>1, SameSession
  <2>3. Panes(sessions'[j]) = ps
    BY <2>2 DEF Revised
  <2> QED
    BY <2>2, <2>3
<1> QED
  BY <1>1, StateInvariance, PTL DEF StateSpec, CloseKeepsFocus

\* merge_windows, swap_panes, move_pane and extract_pane keep the panes of the session.
LEMMA ArrangeKeepsPanes ==
  ASSUME StateInv, NEW s \in SessionIds, ArrangeCommand(s)
  PROVE  LivePanes(s)' = LivePanes(s)
<1>1. Keeps(s)
  BY ArrangeChanges
<1>2. PICK r : Edits(s, r, Panes(Session(s))) /\ nextPane' = nextPane
  BY <1>1 DEF Keeps
<1>3. Live(s) /\ Revised(Session(s), r, Panes(Session(s)))
  BY <1>2 DEF Edits
<1>4. /\ Pos(s) \in DOMAIN sessions /\ Session(s).id = s
      /\ \A k \in DOMAIN sessions : sessions[k].id = s => k = Pos(s)
  BY <1>3, SessionAt
<1>5. /\ DOMAIN sessions' = DOMAIN sessions
      /\ \A i \in DOMAIN sessions : sessions'[i] = IF i = Pos(s) THEN r ELSE sessions[i]
  BY <1>2, EditChanges
<1>6. r.id = s /\ Panes(r) = Panes(Session(s))
  BY <1>3, <1>4 DEF Revised
<1>7. /\ Pos(s) \in DOMAIN sessions' /\ sessions'[Pos(s)].id = s
      /\ \A k \in DOMAIN sessions' : sessions'[k].id = s => k = Pos(s)
  BY <1>4, <1>5, <1>6
<1>8. Live(s)' /\ Pos(s)' = Pos(s)
  BY <1>7 DEF Live, Pos
<1>9. Session(s)' = r
  BY <1>4, <1>5, <1>8 DEF Session
<1> QED
  BY <1>3, <1>6, <1>8, <1>9 DEF LivePanes

\* next_window_id never hands out an identity its session had, and arranging tabs
\* and panes neither loses nor invents a pane, however the tabs are shared out.
THEOREM IdentitiesStay == StateSpec => IdentitiesKept
<1>1. ASSUME StateInv, [StateNext]_stateVars
      PROVE  [\A k \in DOMAIN sessions, j \in DOMAIN sessions' :
                sessions[k].id = sessions'[j].id =>
                  \A w \in Tabs(sessions'[j]) \ Tabs(sessions[k]) : w >= sessions[k].next]_stateVars
  <2> SUFFICES ASSUME NEW k \in DOMAIN sessions, NEW j \in DOMAIN sessions',
                      sessions[k].id = sessions'[j].id,
                      NEW w \in Tabs(sessions'[j]) \ Tabs(sessions[k])
               PROVE  w >= sessions[k].next
    OBVIOUS
  <2>1. Change
    BY <1>1, EveryChange
  <2>2. \E ps : Revised(sessions[k], sessions'[j], ps)
    BY <1>1, <2>1, SameSession
  <2> QED
    BY <2>2 DEF Revised
<1>2. ASSUME StateInv, [StateNext]_stateVars
      PROVE  [\A s \in SessionIds : LivePanes(s)' # LivePanes(s) => ~ArrangeCommand(s)]_stateVars
  BY <1>2, ArrangeKeepsPanes
<1> QED
  BY <1>1, <1>2, StateInvariance, PTL DEF StateSpec, IdentitiesKept

--------------------------------------------------------------------------------
(* The refinement *)

\* Adding the n panes that are minted is a create of TopologyStore.
LEMMA StoreCreates ==
  ASSUME StateInv, nextPane' \in nextPane + 1 .. MaxPane + 1,
         PanesIn(sessions') = PanesIn(sessions) \cup (nextPane .. nextPane' - 1)
  PROVE  PaneStore!Next
<1> DEFINE n == nextPane' - nextPane
           c == [op |-> "create", n |-> n, ids |-> {}]
<1>1. nextPane \in Nat /\ nextPane >= 1 /\ MaxPane \in Nat
  BY NextPaneNew DEF StateInv
<1>2. n \in 1 .. MaxPane /\ nextPane' = nextPane + n /\ nextPane + n - 1 = nextPane' - 1
  <2>1. \A m, x \in Nat : \A y \in x + 1 .. m + 1 :
           x >= 1 => /\ y - x \in 1 .. m /\ y = x + (y - x)
                     /\ x + (y - x) - 1 = y - 1
    OBVIOUS
  <2> QED
    BY <1>1, <2>1
<1> HIDE DEF n
<1>3. c \in StoreCommands
  BY <1>2 DEF StoreCommands
<1>4. c.op = "create" /\ c.n = n
  OBVIOUS
<1> HIDE DEF c
<1>5. ~PaneStore!Rejects(AllPanes, c) /\ PaneStore!KeptIds(AllPanes, c) = AllPanes
  BY <1>4 DEF PaneStore!Rejects, PaneStore!KeptIds
<1>6. PaneStore!NewIds(nextPane, c) = nextPane .. nextPane' - 1
  BY <1>2, <1>4 DEF PaneStore!NewIds
<1>7. AllPanes' = AllPanes \cup (nextPane .. nextPane' - 1)
  <2>1. AllPanes = PanesIn(sessions) /\ AllPanes' = PanesIn(sessions')
    BY DEF AllPanes, PanesIn
  <2> QED
    BY <2>1
<1>8. PaneStore!Apply(c)
  BY <1>2, <1>4, <1>5, <1>6, <1>7 DEF PaneStore!Apply
<1> QED
  BY <1>3, <1>8 DEF PaneStore!Next

\* To the transaction protocol, the commands of NativeMuxState are what TopologyStore
\* says commands are: each adds the panes it mints or removes some, never both, and
\* an identity is never minted twice.
THEOREM TopologyImplementsPaneStore == StateSpec => ImplementsPaneStore
<1>1. StateInit => PaneStore!Init
  <2> SUFFICES ASSUME StateInit
               PROVE  PaneStore!Init
    OBVIOUS
  <2>1. sessions = << >> /\ nextPane = 1
    BY DEF StateInit
  <2>2. AllPanes = {}
    BY <2>1 DEF AllPanes
  <2>3. 1 .. 0 = {} /\ 0 + 1 = 1
    OBVIOUS
  <2> QED
    BY <2>1, <2>2, <2>3 DEF PaneStore!Init
<1>2. ASSUME StateInv, [StateNext]_stateVars
      PROVE  [PaneStore!Next]_<<AllPanes, nextPane, NoTag>>
  <2>1. Change
    BY <1>2, EveryChange
  <2>2. nextPane \in Nat /\ nextPane \in 1 .. MaxPane + 1 /\ MaxPane \in Nat
    BY <1>2, NextPaneNew DEF StateInv
  <2>3. AllPanes = PanesIn(sessions) /\ AllPanes' = PanesIn(sessions')
    BY DEF AllPanes, PanesIn
  <2>4. \A s : Live(s) => Panes(Session(s)) \subseteq PanesIn(sessions)
    BY <1>2, SessionAt, PanesInSessions
  <2>5. ASSUME NEW s, Keeps(s)
        PROVE  AllPanes' = AllPanes /\ nextPane' = nextPane
    <3>1. PICK r : Edits(s, r, Panes(Session(s))) /\ nextPane' = nextPane
      BY <2>5 DEF Keeps
    <3>2. Live(s)
      BY <3>1 DEF Edits
    <3>3. PanesIn(sessions') = (PanesIn(sessions) \ Panes(Session(s))) \cup Panes(Session(s))
      BY <1>2, <3>1, EditChanges
    <3> QED
      BY <2>3, <2>4, <3>1, <3>2, <3>3
  <2>6. ASSUME NEW s, Adds(s)
        PROVE  PaneStore!Next
    <3>1. PICK r : /\ Edits(s, r, Panes(Session(s)) \cup {nextPane})
                   /\ nextPane' = nextPane + 1 /\ nextPane' \in 1 .. MaxPane + 1
      BY <2>6 DEF Adds
    <3>2. Live(s)
      BY <3>1 DEF Edits
    <3>3. PanesIn(sessions')
            = (PanesIn(sessions) \ Panes(Session(s))) \cup (Panes(Session(s)) \cup {nextPane})
      BY <1>2, <3>1, EditChanges
    <3>4. PanesIn(sessions') = PanesIn(sessions) \cup {nextPane}
      BY <2>4, <3>2, <3>3
    <3>5. {nextPane} = nextPane .. nextPane' - 1 /\ nextPane' \in nextPane + 1 .. MaxPane + 1
      BY <2>2, <3>1
    <3> QED
      BY <1>2, <3>4, <3>5, StoreCreates
  <2>7. ASSUME NEW s, NEW p, Loses(s, p)
        PROVE  PaneStore!Next
    <3>1. PICK r : /\ Edits(s, r, Panes(Session(s)) \ {p}) /\ nextPane' = nextPane
                   /\ p \in Panes(Session(s))
      BY <2>7 DEF Loses
    <3>2. Live(s)
      BY <3>1 DEF Edits
    <3>3. PanesIn(sessions')
            = (PanesIn(sessions) \ Panes(Session(s))) \cup (Panes(Session(s)) \ {p})
      BY <1>2, <3>1, EditChanges
    <3>4. AllPanes' = AllPanes \ {p} /\ p \in AllPanes
      BY <2>3, <2>4, <3>1, <3>2, <3>3
    <3>5. PaneStore!Close(p)
      BY <3>1, <3>4 DEF PaneStore!Close
    <3> QED
      BY <3>4, <3>5 DEF PaneStore!Next
  <2>8. ASSUME NEW s, Appears(s)
        PROVE  PaneStore!Next
    <3>1. PanesIn(sessions') = PanesIn(sessions) \cup (nextPane .. nextPane' - 1)
      BY <1>2, <2>8, AppearsChanges
    <3>2. nextPane' \in nextPane + 1 .. MaxPane + 1
      BY <2>8 DEF Appears
    <3> QED
      BY <1>2, <3>1, <3>2, StoreCreates
  <2>9. ASSUME NEW s, Goes(s)
        PROVE  PaneStore!Next
    <3> DEFINE c == [op |-> "ditch", n |-> 0, ids |-> Panes(Session(s))]
    <3>1. AllPanes' = AllPanes \ Panes(Session(s))
      BY <1>2, <2>3, <2>9, GoesChanges
    <3>2. Live(s) /\ nextPane' = nextPane
      BY <2>9 DEF Goes
    <3>3. Panes(Session(s)) \subseteq 1 .. MaxPane
      <4>1. Good(Session(s)) /\ \A p \in Panes(Session(s)) : p < nextPane
        BY <1>2, <3>2, SessionAt
      <4>2. \A p \in Panes(Session(s)) : p \in Nat \ {0} /\ p < nextPane
        BY <4>1, PanesTyped DEF PaneId
      <4> QED
        BY <2>2, <4>2
    <3>4. c \in StoreCommands
      BY <3>3 DEF StoreCommands
    <3>5. c.op = "ditch" /\ c.n = 0 /\ c.ids = Panes(Session(s))
      OBVIOUS
    <3> HIDE DEF c
    <3>6. ~PaneStore!Rejects(AllPanes, c) /\ PaneStore!KeptIds(AllPanes, c) = AllPanes \ Panes(Session(s))
      BY <3>5 DEF PaneStore!Rejects, PaneStore!KeptIds
    <3>7. PaneStore!NewIds(nextPane, c) = {} /\ nextPane' = nextPane + c.n
      BY <2>2, <3>2, <3>5 DEF PaneStore!NewIds
    <3>8. PaneStore!Apply(c)
      BY <3>1, <3>6, <3>7 DEF PaneStore!Apply
    <3> QED
      BY <3>4, <3>8 DEF PaneStore!Next
  <2>10. ASSUME Misses
         PROVE  PaneStore!Next
    <3> DEFINE c == [op |-> "miss", n |-> 1, ids |-> {}]
    <3>1. sessions' = sessions /\ nextPane' = nextPane + 1
      BY <2>10 DEF Misses
    <3>2. c \in StoreCommands
      BY DEF StoreCommands
    <3>3. c.op = "miss" /\ c.n = 1
      OBVIOUS
    <3> HIDE DEF c
    <3>4. /\ ~PaneStore!Rejects(AllPanes, c) /\ PaneStore!KeptIds(AllPanes, c) = AllPanes
          /\ PaneStore!NewIds(nextPane, c) = {}
      BY <3>3 DEF PaneStore!Rejects, PaneStore!KeptIds, PaneStore!NewIds
    <3>5. PaneStore!Apply(c)
      BY <2>3, <3>1, <3>3, <3>4 DEF PaneStore!Apply
    <3> QED
      BY <3>2, <3>5 DEF PaneStore!Next
  <2>11. ASSUME UNCHANGED stateVars
         PROVE  AllPanes' = AllPanes /\ nextPane' = nextPane
    BY <2>11 DEF stateVars, AllPanes
  <2>12. PaneStore!Next \/ (AllPanes' = AllPanes /\ nextPane' = nextPane)
    <3>1. \/ \E s : Keeps(s) \/ Adds(s) \/ Appears(s) \/ Goes(s) \/ \E p : Loses(s, p)
          \/ Misses \/ UNCHANGED stateVars
      BY <2>1 DEF Change
    <3>2. CASE \E s : Keeps(s) \/ Adds(s) \/ Appears(s) \/ Goes(s) \/ \E p : Loses(s, p)
      <4>1. PICK s : Keeps(s) \/ Adds(s) \/ Appears(s) \/ Goes(s) \/ \E p : Loses(s, p)
        BY <3>2
      <4> QED
        BY <2>5, <2>6, <2>7, <2>8, <2>9, <4>1
    <3> QED
      BY <2>10, <2>11, <3>1, <3>2
  <2> QED
    BY <2>12
<1> QED
  BY <1>1, <1>2, StateInvariance, PTL DEF StateSpec, ImplementsPaneStore, PaneStore!Spec
================================================================================
