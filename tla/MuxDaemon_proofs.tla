---------------------------- MODULE MuxDaemon_proofs ----------------------------
(***************************************************************************)
(* Proofs about MuxDaemon: a serving server keeps its endpoint, a mutation *)
(* does not stray to another server, and the snapshot a client shows does  *)
(* not go back, for any number of servers, changes, jobs and queued        *)
(* changes.                                                                *)
(***************************************************************************)
EXTENDS MuxDaemon, SequenceTheorems, TLAPS

(* The inductive invariant *)

ServerStates == {"none", "starting", "locked", "serving", "leaving", "unlinked", "gone"}
ConnStates == {"none", "backlog", "accepted", "served", "closing", "left"}
Steps == {"idle", "await", "dial", "redial", "hello", "swap", "forget", "connected",
          "send", "wait", "judge", "store", "done", "failed", "ended"}
Snapshots == [of : Nat, revision : Nat]

ServerTypes ==
  /\ server \in [Servers -> ServerStates]
  /\ lease \in 0 .. MaxServers /\ endpoint \in 0 .. MaxServers
  /\ session \in [Servers -> BOOLEAN] /\ revision \in [Servers -> 0 .. MaxRevision]
  /\ check \in [Servers -> BOOLEAN] /\ awaiting \in [Servers -> BOOLEAN]

ThreadTypes ==
  /\ step \in [Threads -> Steps]
  /\ peer \in [Threads -> 0 .. MaxServers] /\ conn \in [Threads -> ConnStates]
  /\ pushed \in [Threads -> Seq(Nat)]
  /\ \A t \in Threads : Len(pushed[t]) <= MaxQueue
  /\ answer \in [Threads -> Snapshots] /\ got \in [Threads -> Snapshots]

ClientTypes ==
  /\ generation \in 0 .. MaxServers /\ expected \in 0 .. MaxServers
  /\ latest \in Snapshots /\ ready \in {"none", "ok", "error"}
  /\ connected \in BOOLEAN /\ strayed \in BOOLEAN /\ raced \in BOOLEAN

\* Whoever has bound or is about to, holds the lease.
LeaseHeld ==
  \A d \in Servers : server[d] \in {"locked", "serving", "leaving", "unlinked"} => lease = d

Met == {"serving", "leaving", "unlinked", "gone"}
Joined == {"backlog", "accepted", "served"}

\* A thread's server has been one, and is alive while its stream is whole.
PeersMet ==
  \A t \in Threads :
    /\ peer[t] # 0 => server[peer[t]] \in Met
    /\ conn[t] \in Joined => peer[t] # 0 /\ server[peer[t]] # "gone"
    /\ step[t] \in {"hello", "swap"} => peer[t] # 0

\* A job about to send knows the generation of the server it sends to.
JobKnowsServer ==
  ~raced /\ conn["job"] \in Joined /\ step["job"] \in {"forget", "connected", "send"}
    => generation = peer["job"]

IInv == /\ ServerTypes /\ ThreadTypes /\ ClientTypes
        /\ LeaseHeld /\ ServesAlone /\ PeersMet /\ JobKnowsServer /\ NeverStrays

--------------------------------------------------------------------------------
(* The parts of the invariant, each kept by every step *)

\* publish keeps the types and the limit of a subscriber's queue.
LEMMA ChangedTypes ==
  ASSUME ServerTypes, ThreadTypes, NEW d \in Servers, NEW has \in BOOLEAN, Changed(d, has)
  PROVE  /\ session' \in [Servers -> BOOLEAN] /\ revision' \in [Servers -> 0 .. MaxRevision]
         /\ conn' \in [Threads -> ConnStates] /\ pushed' \in [Threads -> Seq(Nat)]
         /\ \A t \in Threads : Len(pushed'[t]) <= MaxQueue
<1>1. session' \in [Servers -> BOOLEAN]
  BY DEF Changed, ServerTypes
<1>2. revision[d] + 1 \in 0 .. MaxRevision /\ revision[d] + 1 \in Nat
  BY DaemonAssumption DEF Changed, ServerTypes
<1>3. revision' \in [Servers -> 0 .. MaxRevision]
  BY <1>2 DEF Changed, ServerTypes
<1>4. conn' \in [Threads -> ConnStates]
  BY DEF Changed, ThreadTypes, ConnStates
<1>5. ASSUME NEW t \in Threads
      PROVE  pushed'[t] \in Seq(Nat) /\ Len(pushed'[t]) <= MaxQueue
  <2>1. pushed[t] \in Seq(Nat) /\ Len(pushed[t]) \in Nat /\ Len(pushed[t]) <= MaxQueue
    BY LenProperties DEF ThreadTypes
  <2>2. /\ Append(pushed[t], revision[d] + 1) \in Seq(Nat)
        /\ Len(Append(pushed[t], revision[d] + 1)) = Len(pushed[t]) + 1
    BY <1>2, <2>1, AppendProperties
  <2>3. \/ pushed'[t] = pushed[t]
        \/ Len(pushed[t]) < MaxQueue /\ pushed'[t] = Append(pushed[t], revision[d] + 1)
    BY DEF Changed
  <2> DEFINE q == Append(pushed[t], revision[d] + 1)
  <2>4. q \in Seq(Nat) /\ Len(q) = Len(pushed[t]) + 1
    BY <2>2
  <2>5. pushed'[t] = pushed[t] \/ (Len(pushed[t]) < MaxQueue /\ pushed'[t] = q)
    BY <2>3
  <2> HIDE DEF q
  <2>6. MaxQueue \in Nat
    BY DaemonAssumption
  <2> QED BY <2>1, <2>4, <2>5, <2>6
<1>6. pushed' \in [Threads -> Seq(Nat)]
  <2>1. pushed' = [t \in Threads |-> pushed'[t]]
    BY DEF Changed
  <2> QED BY <1>5, <2>1
<1> QED BY <1>1, <1>3, <1>4, <1>5, <1>6

\* Types of the servers.
LEMMA ServerTypesKept == IInv /\ [Next]_vars => ServerTypes'
<1> SUFFICES ASSUME IInv, [Next]_vars PROVE ServerTypes'
  OBVIOUS
<1>0. ServerTypes /\ ThreadTypes /\ PeersMet
  BY DEF IInv
<1>1. ASSUME NEW d \in Servers, Lock(d) PROVE ServerTypes'
  BY <1>0, <1>1, DaemonAssumption DEF Lock, Become, topoVars, connVars, clientVars,
     jobVars, ServerTypes, ServerStates, Servers, PeersMet, Joined, ThreadTypes
<1>2. ASSUME NEW d \in Servers, Bind(d) PROVE ServerTypes'
  BY <1>0, <1>2, DaemonAssumption DEF Bind, Become, topoVars, connVars, clientVars,
     jobVars, ServerTypes, ServerStates, Servers, PeersMet, Joined, ThreadTypes
<1>3. ASSUME NEW d \in Servers, InitialIdle(d) PROVE ServerTypes'
  BY <1>0, <1>3, DaemonAssumption DEF InitialIdle, topoVars, connVars, clientVars,
     jobVars, ServerTypes, ServerStates, Servers, PeersMet, Joined, ThreadTypes
<1>4. ASSUME NEW d \in Servers, Decide(d) PROVE ServerTypes'
  BY <1>0, <1>4, DaemonAssumption DEF Decide, Become, topoVars, connVars, clientVars,
     jobVars, ServerTypes, ServerStates, Servers, PeersMet, Joined, ThreadTypes
<1>5. ASSUME NEW d \in Servers, Unlink(d) PROVE ServerTypes'
  BY <1>0, <1>5, DaemonAssumption DEF Unlink, Become, topoVars, connVars, clientVars,
     jobVars, ServerTypes, ServerStates, Servers, PeersMet, Joined, ThreadTypes
<1>6. ASSUME NEW d \in Servers, Exit(d) PROVE ServerTypes'
  BY <1>0, <1>6, DaemonAssumption DEF Exit, Ended, clientVars, jobVars, ServerTypes,
     ServerStates, Servers, PeersMet, Joined, ThreadTypes
<1>7. ASSUME NEW d \in Servers, Kill(d) PROVE ServerTypes'
  BY <1>0, <1>7, DaemonAssumption DEF Kill, Ended, clientVars, jobVars, ServerTypes,
     ServerStates, Servers, PeersMet, Joined, ThreadTypes
<1>8. ASSUME NEW d \in Servers, PaneExits(d) PROVE ServerTypes'
  <2>1. Changed(d, FALSE)
    BY <1>8 DEF PaneExits
  <2>2. session' \in [Servers -> BOOLEAN] /\ revision' \in [Servers -> 0 .. MaxRevision]
    BY <1>0, <2>1, ChangedTypes
  <2>3. check' \in [Servers -> BOOLEAN] /\ UNCHANGED <<server, lease, endpoint, awaiting>>
    BY <1>0, <1>8 DEF PaneExits, procVars, ServerTypes
  <2> QED BY <1>0, <2>2, <2>3 DEF ServerTypes
<1>9. ASSUME NEW t \in Threads, Accept(t) PROVE ServerTypes'
  BY <1>0, <1>9, DaemonAssumption DEF Accept, topoVars, clientVars, jobVars,
     ServerTypes, ServerStates, Servers, PeersMet, Joined, ThreadTypes
<1>10. ASSUME NEW t \in Threads, ServeEnds(t) PROVE ServerTypes'
  BY <1>0, <1>10, DaemonAssumption DEF ServeEnds, procVars, topoVars, clientVars,
     jobVars, ServerTypes, ServerStates, Servers, PeersMet, Joined, ThreadTypes
<1>11. ASSUME NEW t \in Threads, NEW d \in Servers, Start(t, d) PROVE ServerTypes'
  BY <1>0, <1>11, DaemonAssumption DEF Start, Go, Become, topoVars, connVars,
     clientVars, jobVars, ServerTypes, ServerStates, Servers, PeersMet, Joined,
     ThreadTypes
<1>12. ASSUME Mutate PROVE ServerTypes'
  <2>1. PICK has \in BOOLEAN : Changed(peer["job"], has)
    BY <1>12 DEF Mutate
  <2>2. peer["job"] \in Servers
    BY <1>0, <1>12 DEF Mutate, PeersMet, Joined, ThreadTypes, Threads, Servers
  <2>3. session' \in [Servers -> BOOLEAN] /\ revision' \in [Servers -> 0 .. MaxRevision]
    BY <1>0, <2>1, <2>2, ChangedTypes
  <2>4. UNCHANGED <<server, lease, endpoint, awaiting, check>>
    BY <1>12 DEF Mutate, procVars
  <2> QED BY <1>0, <2>3, <2>4 DEF ServerTypes
<1>13. ASSUME UNCHANGED <<server, lease, endpoint, session, revision, check, awaiting>> PROVE ServerTypes'
  BY <1>0, <1>13 DEF ServerTypes, ServerStates, Servers, PeersMet, Joined, ThreadTypes
<1>14. ASSUME NEW t \in Threads,
          \/ Serve(t) \/ Dial(t) \/ StartExpires(t) \/ Welcomed(t) \/ Lost(t)
          \/ Swap(t) \/ Connect(t) \/ AskSnapshot(t) \/ Receive(t) \/ Judge(t)
          \/ Store(t)
      PROVE  UNCHANGED <<server, lease, endpoint, session, revision, check, awaiting>>
  BY <1>14 DEF Serve, Dial, StartExpires, Welcomed, Lost, Swap, Connect, AskSnapshot,
     Receive, Judge, Store, procVars, topoVars, clientVars, jobVars, connVars
<1>15. ASSUME
          \/ AskOther \/ ServerChanged \/ WatcherFails \/ Submit \/ AwaitWatcher
          \/ JobEnds \/ Quit
      PROVE  UNCHANGED <<server, lease, endpoint, session, revision, check, awaiting>>
  BY <1>15 DEF AskOther, ServerChanged, WatcherFails, Submit, AwaitWatcher, JobEnds,
     Quit, procVars, topoVars, connVars, clientVars, jobVars, Closed
<1>16. ASSUME UNCHANGED vars PROVE UNCHANGED <<server, lease, endpoint, session, revision, check, awaiting>>
  BY <1>16 DEF vars, procVars, topoVars, connVars, clientVars, jobVars
<1> QED BY <1>1, <1>2, <1>3, <1>4, <1>5, <1>6, <1>7, <1>8, <1>9, <1>10, <1>11, <1>12,
           <1>13, <1>14, <1>15, <1>16
       DEF Next, Runs, Serves, Follows, Watches, Works, Threads

\* A thread that closes its stream leaves well-typed streams.
LEMMA ClosedTypes ==
  ASSUME ThreadTypes, NEW t \in Threads, Closed(t)
  PROVE  /\ conn' \in [Threads -> ConnStates] /\ pushed' \in [Threads -> Seq(Nat)]
         /\ \A u \in Threads : Len(pushed'[u]) <= MaxQueue
         /\ answer' \in [Threads -> Snapshots]
<1>1. conn' \in [Threads -> ConnStates]
  BY DEF Closed, ThreadTypes, ConnStates
<1>2. <<>> \in Seq(Nat) /\ Len(<<>>) = 0 /\ MaxQueue \in Nat
  BY EmptySeq, DaemonAssumption
<1>3. /\ pushed' \in [Threads -> Seq(Nat)]
      /\ \A u \in Threads : Len(pushed'[u]) <= MaxQueue
  BY <1>2 DEF Closed, ThreadTypes
<1>4. answer' \in [Threads -> Snapshots]
  BY DEF Closed, ThreadTypes, Snapshots, None
<1> QED BY <1>1, <1>3, <1>4

\* Types of the client's threads and of their streams.
LEMMA ThreadTypesKept == IInv /\ [Next]_vars => ThreadTypes'
<1> SUFFICES ASSUME IInv, [Next]_vars PROVE ThreadTypes'
  OBVIOUS
<1>0. ServerTypes /\ ThreadTypes /\ PeersMet
  BY DEF IInv
<1>1. ASSUME NEW d \in Servers, Exit(d) PROVE ThreadTypes'
  BY <1>0, <1>1, DaemonAssumption DEF Exit, Ended, clientVars, jobVars, ThreadTypes,
     Steps, ConnStates, Snapshots, Threads, ServerTypes, Servers, PeersMet, Joined
<1>2. ASSUME NEW d \in Servers, Kill(d) PROVE ThreadTypes'
  BY <1>0, <1>2, DaemonAssumption DEF Kill, Ended, clientVars, jobVars, ThreadTypes,
     Steps, ConnStates, Snapshots, Threads, ServerTypes, Servers, PeersMet, Joined
<1>3. ASSUME NEW d \in Servers, PaneExits(d) PROVE ThreadTypes'
  <2>1. Changed(d, FALSE)
    BY <1>3 DEF PaneExits
  <2>2. /\ conn' \in [Threads -> ConnStates] /\ pushed' \in [Threads -> Seq(Nat)]
        /\ \A t \in Threads : Len(pushed'[t]) <= MaxQueue
    BY <1>0, <2>1, ChangedTypes
  <2>3. UNCHANGED <<step, peer, answer, got>>
    BY <1>3 DEF PaneExits
  <2> QED BY <1>0, <2>2, <2>3 DEF ThreadTypes
<1>4. ASSUME NEW t \in Threads, Accept(t) PROVE ThreadTypes'
  BY <1>0, <1>4, DaemonAssumption DEF Accept, topoVars, clientVars, jobVars,
     ThreadTypes, Steps, ConnStates, Snapshots, Threads, ServerTypes, Servers, PeersMet,
     Joined
<1>5. ASSUME NEW t \in Threads, Serve(t) PROVE ThreadTypes'
  BY <1>0, <1>5, DaemonAssumption DEF Serve, procVars, topoVars, clientVars, jobVars,
     ThreadTypes, Steps, ConnStates, Snapshots, Threads, ServerTypes, Servers, PeersMet,
     Joined
<1>6. ASSUME NEW t \in Threads, ServeEnds(t) PROVE ThreadTypes'
  <2>1. UNCHANGED <<step, peer, pushed, answer, got>>
    BY <1>6 DEF ServeEnds
  <2>2. conn' \in [Threads -> ConnStates]
    BY <1>0, <1>6 DEF ServeEnds, ThreadTypes, ConnStates
  <2> QED BY <1>0, <2>1, <2>2 DEF ThreadTypes
<1>7. ASSUME NEW t \in Threads, Dial(t) PROVE ThreadTypes'
  BY <1>0, <1>7, DaemonAssumption DEF Dial, Listening, procVars, topoVars, clientVars,
     jobVars, ThreadTypes, Steps, ConnStates, Snapshots, Threads, ServerTypes, Servers,
     PeersMet, Joined
<1>8. ASSUME NEW t \in Threads, StartExpires(t) PROVE ThreadTypes'
  BY <1>0, <1>8, DaemonAssumption DEF StartExpires, Go, procVars, topoVars, connVars,
     clientVars, jobVars, ThreadTypes, Steps, ConnStates, Snapshots, Threads,
     ServerTypes, Servers, PeersMet, Joined
<1>9. ASSUME NEW t \in Threads, Welcomed(t) PROVE ThreadTypes'
  BY <1>0, <1>9, DaemonAssumption DEF Welcomed, Go, procVars, topoVars, connVars,
     clientVars, jobVars, ThreadTypes, Steps, ConnStates, Snapshots, Threads,
     ServerTypes, Servers, PeersMet, Joined
<1>10. ASSUME NEW t \in Threads, Lost(t) PROVE ThreadTypes'
  BY <1>0, <1>10, DaemonAssumption DEF Lost, procVars, topoVars, connVars, clientVars,
     jobVars, ThreadTypes, Steps, ConnStates, Snapshots, Threads, ServerTypes, Servers,
     PeersMet, Joined
<1>11. ASSUME NEW t \in Threads, Swap(t) PROVE ThreadTypes'
  BY <1>0, <1>11, DaemonAssumption DEF Swap, Go, procVars, topoVars, connVars, jobVars,
     ThreadTypes, Steps, ConnStates, Snapshots, Threads, ServerTypes, Servers, PeersMet,
     Joined
<1>12. ASSUME NEW t \in Threads, Connect(t) PROVE ThreadTypes'
  BY <1>0, <1>12, DaemonAssumption DEF Connect, None, procVars, topoVars, connVars,
     jobVars, ThreadTypes, Steps, ConnStates, Snapshots, Threads, ServerTypes, Servers,
     PeersMet, Joined
<1>13. ASSUME NEW t \in Threads, AskSnapshot(t) PROVE ThreadTypes'
  <2>1. peer[t] \in Servers /\ peer[t] \in Nat
    BY <1>0, <1>13, DaemonAssumption DEF AskSnapshot, ThreadTypes, PeersMet, Joined, Servers
  <2>2. Snapshot(peer[t]) \in Snapshots
    BY <1>0, <2>1, DaemonAssumption DEF Snapshot, Snapshots, ServerTypes
  <2>3. step' \in [Threads -> Steps] /\ answer' \in [Threads -> Snapshots]
    BY <1>0, <1>13, <2>2 DEF AskSnapshot, Go, ThreadTypes, Steps
  <2>4. UNCHANGED <<peer, conn, pushed, got>>
    BY <1>13 DEF AskSnapshot
  <2> QED BY <1>0, <2>3, <2>4 DEF ThreadTypes
<1>14. ASSUME NEW t \in Threads, Receive(t) PROVE ThreadTypes'
  <2>1. step' \in [Threads -> Steps] /\ UNCHANGED <<peer, conn>>
    BY <1>0, <1>14 DEF Receive, Go, ThreadTypes, Steps
  <2>2. CASE /\ answer[t] # None
             /\ got' = [got EXCEPT ![t] = answer[t]]
             /\ answer' = [answer EXCEPT ![t] = None] /\ UNCHANGED pushed
    BY <1>0, <2>1, <2>2 DEF ThreadTypes, Snapshots, None
  <2>3. CASE /\ pushed[t] # <<>> /\ t = "watcher"
             /\ got' = [got EXCEPT ![t] = [of |-> peer[t], revision |-> Head(pushed[t])]]
             /\ pushed' = [pushed EXCEPT ![t] = Tail(@)] /\ UNCHANGED answer
    <3> DEFINE h == Head(pushed[t])
               q == Tail(pushed[t])
    <3>1. h \in Nat /\ q \in Seq(Nat) /\ Len(q) = Len(pushed[t]) - 1
      BY <1>0, <2>3, HeadTailProperties DEF ThreadTypes
    <3>2. Len(pushed[t]) \in Nat /\ Len(pushed[t]) <= MaxQueue /\ peer[t] \in Nat
      BY <1>0, LenProperties, DaemonAssumption DEF ThreadTypes
    <3>3. /\ got' = [got EXCEPT ![t] = [of |-> peer[t], revision |-> h]]
          /\ pushed' = [pushed EXCEPT ![t] = q]
      BY <2>3
    <3> HIDE DEF h, q
    <3>4. got' \in [Threads -> Snapshots] /\ pushed' \in [Threads -> Seq(Nat)]
      BY <1>0, <3>1, <3>2, <3>3 DEF ThreadTypes, Snapshots
    <3>5. Len(q) <= MaxQueue
      BY <3>1, <3>2, DaemonAssumption
    <3>6. \A u \in Threads : Len(pushed'[u]) <= MaxQueue
      BY <1>0, <3>3, <3>5 DEF ThreadTypes
    <3>7. UNCHANGED answer
      BY <2>3
    <3> QED BY <1>0, <2>1, <3>4, <3>6, <3>7 DEF ThreadTypes
  <2> QED BY <1>14, <2>2, <2>3 DEF Receive
<1>15. ASSUME NEW t \in Threads, Judge(t) PROVE ThreadTypes'
  BY <1>0, <1>15, DaemonAssumption DEF Judge, Go, None, procVars, topoVars, connVars,
     clientVars, jobVars, ThreadTypes, Steps, ConnStates, Snapshots, Threads,
     ServerTypes, Servers, PeersMet, Joined
<1>16. ASSUME NEW t \in Threads, Store(t) PROVE ThreadTypes'
  BY <1>0, <1>16, DaemonAssumption DEF Store, Go, Newer, None, procVars, topoVars,
     connVars, jobVars, ThreadTypes, Steps, ConnStates, Snapshots, Threads, ServerTypes,
     Servers, PeersMet, Joined
<1>17. ASSUME NEW t \in Threads, NEW d \in Servers, Start(t, d) PROVE ThreadTypes'
  BY <1>0, <1>17, DaemonAssumption DEF Start, Go, Become, topoVars, connVars,
     clientVars, jobVars, ThreadTypes, Steps, ConnStates, Snapshots, Threads,
     ServerTypes, Servers, PeersMet, Joined
<1>18. ASSUME AskOther PROVE ThreadTypes'
  BY <1>0, <1>18, DaemonAssumption DEF AskOther, Go, procVars, topoVars, connVars,
     clientVars, jobVars, ThreadTypes, Steps, ConnStates, Snapshots, Threads,
     ServerTypes, Servers, PeersMet, Joined
<1>19. ASSUME Mutate PROVE ThreadTypes'
  <2>1. PICK has \in BOOLEAN : Changed(peer["job"], has)
    BY <1>19 DEF Mutate
  <2>2. peer["job"] \in Servers /\ peer["job"] \in Nat
    BY <1>0, <1>19, DaemonAssumption DEF Mutate, PeersMet, Joined, ThreadTypes, Threads, Servers
  <2>3. /\ conn' \in [Threads -> ConnStates] /\ pushed' \in [Threads -> Seq(Nat)]
        /\ \A t \in Threads : Len(pushed'[t]) <= MaxQueue
        /\ revision' \in [Servers -> 0 .. MaxRevision]
    BY <1>0, <2>1, <2>2, ChangedTypes
  <2>4. revision'[peer["job"]] \in Nat
    BY <2>2, <2>3, DaemonAssumption
  <2>5. step' \in [Threads -> Steps] /\ answer' \in [Threads -> Snapshots]
    BY <1>0, <2>2, <2>4, <1>19 DEF Mutate, Go, ThreadTypes, Steps, Snapshots
  <2>6. UNCHANGED <<peer, got>>
    BY <1>19 DEF Mutate
  <2> QED BY <1>0, <2>3, <2>5, <2>6 DEF ThreadTypes
<1>20. ASSUME ServerChanged PROVE ThreadTypes'
  BY <1>0, <1>20, DaemonAssumption DEF ServerChanged, Go, procVars, topoVars, connVars,
     clientVars, jobVars, ThreadTypes, Steps, ConnStates, Snapshots, Threads,
     ServerTypes, Servers, PeersMet, Joined
<1>21. ASSUME WatcherFails PROVE ThreadTypes'
  <2>1. PICK t \in Threads : Closed(t)
    BY <1>21 DEF WatcherFails, Threads
  <2>2. step' \in [Threads -> Steps] /\ UNCHANGED <<peer, got>>
    BY <1>0, <1>21 DEF WatcherFails, Go, ThreadTypes, Steps
  <2> QED BY <1>0, <2>1, <2>2, ClosedTypes DEF ThreadTypes
<1>22. ASSUME Submit PROVE ThreadTypes'
  BY <1>0, <1>22, DaemonAssumption DEF Submit, Go, PeerGeneration, procVars, topoVars,
     connVars, clientVars, ThreadTypes, Steps, ConnStates, Snapshots, Threads,
     ServerTypes, Servers, PeersMet, Joined
<1>23. ASSUME AwaitWatcher PROVE ThreadTypes'
  BY <1>0, <1>23, DaemonAssumption DEF AwaitWatcher, Go, procVars, topoVars, connVars,
     clientVars, jobVars, ThreadTypes, Steps, ConnStates, Snapshots, Threads,
     ServerTypes, Servers, PeersMet, Joined
<1>24. ASSUME JobEnds PROVE ThreadTypes'
  <2>1. PICK t \in Threads : Closed(t)
    BY <1>24 DEF JobEnds, Threads
  <2>2. step' \in [Threads -> Steps] /\ UNCHANGED <<peer, got>>
    BY <1>0, <1>24 DEF JobEnds, Go, ThreadTypes, Steps
  <2> QED BY <1>0, <2>1, <2>2, ClosedTypes DEF ThreadTypes
<1>25. ASSUME Quit PROVE ThreadTypes'
  <2>1. PICK t \in Threads : Closed(t)
    BY <1>25 DEF Quit, Threads
  <2>2. step' \in [Threads -> Steps] /\ UNCHANGED <<peer, got>>
    BY <1>0, <1>25 DEF Quit, Go, ThreadTypes, Steps
  <2> QED BY <1>0, <2>1, <2>2, ClosedTypes DEF ThreadTypes
<1>26. ASSUME UNCHANGED <<step, peer, conn, pushed, answer, got>> PROVE ThreadTypes'
  BY <1>0, <1>26 DEF ThreadTypes, Steps, ConnStates, Snapshots, Threads, ServerTypes,
     Servers, PeersMet, Joined
<1>27. ASSUME NEW d \in Servers,
          \/ Lock(d) \/ Bind(d) \/ InitialIdle(d) \/ Decide(d) \/ Unlink(d)
      PROVE  UNCHANGED <<step, peer, conn, pushed, answer, got>>
  BY <1>27 DEF Lock, Bind, InitialIdle, Decide, Unlink, topoVars, connVars, clientVars,
     jobVars
<1>28. ASSUME UNCHANGED vars PROVE UNCHANGED <<step, peer, conn, pushed, answer, got>>
  BY <1>28 DEF vars, procVars, topoVars, connVars, clientVars, jobVars
<1> QED BY <1>1, <1>2, <1>3, <1>4, <1>5, <1>6, <1>7, <1>8, <1>9, <1>10, <1>11, <1>12,
           <1>13, <1>14, <1>15, <1>16, <1>17, <1>18, <1>19, <1>20, <1>21, <1>22, <1>23,
           <1>24, <1>25, <1>26, <1>27, <1>28
       DEF Next, Runs, Serves, Follows, Watches, Works, Threads

\* Types of what the threads share.
LEMMA ClientTypesKept == IInv /\ [Next]_vars => ClientTypes'
<1> SUFFICES ASSUME IInv, [Next]_vars PROVE ClientTypes'
  OBVIOUS
<1>0. ThreadTypes /\ ClientTypes
  BY DEF IInv
<1>1. ASSUME NEW t \in Threads, Swap(t) PROVE ClientTypes'
  BY <1>0, <1>1, DaemonAssumption DEF Swap, Go, procVars, topoVars, connVars, jobVars,
     ClientTypes, Snapshots, Threads, ThreadTypes
<1>2. ASSUME NEW t \in Threads, Connect(t) PROVE ClientTypes'
  BY <1>0, <1>2, DaemonAssumption DEF Connect, None, procVars, topoVars, connVars,
     jobVars, ClientTypes, Snapshots, Threads, ThreadTypes
<1>3. ASSUME NEW t \in Threads, Store(t) PROVE ClientTypes'
  BY <1>0, <1>3, DaemonAssumption DEF Store, Go, Newer, None, procVars, topoVars,
     connVars, jobVars, ClientTypes, Snapshots, Threads, ThreadTypes
<1>4. ASSUME Mutate PROVE ClientTypes'
  BY <1>0, <1>4, DaemonAssumption DEF Mutate, Go, Changed, SameServer, PeerGeneration,
     procVars, clientVars, ClientTypes, Snapshots, Threads, ThreadTypes
<1>5. ASSUME WatcherFails PROVE ClientTypes'
  BY <1>0, <1>5, DaemonAssumption DEF WatcherFails, Go, Closed, Failed, None, procVars,
     topoVars, jobVars, ClientTypes, Snapshots, Threads, ThreadTypes
<1>6. ASSUME Submit PROVE ClientTypes'
  BY <1>0, <1>6, DaemonAssumption DEF Submit, Go, PeerGeneration, procVars, topoVars,
     connVars, clientVars, ClientTypes, Snapshots, Threads, ThreadTypes
<1>7. ASSUME UNCHANGED <<generation, expected, latest, ready, connected, strayed, raced>> PROVE ClientTypes'
  BY <1>0, <1>7 DEF ClientTypes, Snapshots, Threads, ThreadTypes
<1>8. ASSUME NEW d \in Servers,
          \/ Lock(d) \/ Bind(d) \/ InitialIdle(d) \/ Decide(d) \/ Unlink(d) \/ Exit(d)
          \/ Kill(d) \/ PaneExits(d)
      PROVE  UNCHANGED <<generation, expected, latest, ready, connected, strayed, raced>>
  BY <1>8 DEF Lock, Bind, InitialIdle, Decide, Unlink, Exit, Kill, PaneExits, topoVars,
     connVars, clientVars, jobVars, Ended, Changed, procVars
<1>9. ASSUME NEW t \in Threads,
          \/ Accept(t) \/ Serve(t) \/ ServeEnds(t) \/ Dial(t) \/ StartExpires(t)
          \/ Welcomed(t) \/ Lost(t) \/ AskSnapshot(t) \/ Receive(t) \/ Judge(t)
      PROVE  UNCHANGED <<generation, expected, latest, ready, connected, strayed, raced>>
  BY <1>9 DEF Accept, Serve, ServeEnds, Dial, StartExpires, Welcomed, Lost, AskSnapshot,
     Receive, Judge, topoVars, clientVars, jobVars, procVars, connVars
<1>10. ASSUME NEW t \in Threads, NEW d \in Servers,
          \/ Start(t, d)
      PROVE  UNCHANGED <<generation, expected, latest, ready, connected, strayed, raced>>
  BY <1>10 DEF Start, topoVars, connVars, clientVars, jobVars
<1>11. ASSUME
          \/ AskOther \/ ServerChanged \/ AwaitWatcher \/ JobEnds \/ Quit
      PROVE  UNCHANGED <<generation, expected, latest, ready, connected, strayed, raced>>
  BY <1>11 DEF AskOther, ServerChanged, AwaitWatcher, JobEnds, Quit, procVars, topoVars,
     connVars, clientVars, jobVars, Closed
<1>12. ASSUME UNCHANGED vars PROVE UNCHANGED <<generation, expected, latest, ready, connected, strayed, raced>>
  BY <1>12 DEF vars, procVars, topoVars, connVars, clientVars, jobVars
<1> QED BY <1>1, <1>2, <1>3, <1>4, <1>5, <1>6, <1>7, <1>8, <1>9, <1>10, <1>11, <1>12
       DEF Next, Runs, Serves, Follows, Watches, Works, Threads

\* The lease has one holder.
LEMMA LeaseHeldKept == IInv /\ [Next]_vars => LeaseHeld'
<1> SUFFICES ASSUME IInv, [Next]_vars PROVE LeaseHeld'
  OBVIOUS
<1>0. ServerTypes /\ LeaseHeld
  BY DEF IInv
<1>1. ASSUME NEW d \in Servers, Lock(d) PROVE LeaseHeld'
  <2>1. CASE lease = 0 /\ server' = [server EXCEPT ![d] = "locked"] /\ lease' = d
    <3>1. ASSUME NEW e \in Servers
          PROVE  server[e] \notin {"locked", "serving", "leaving", "unlinked"}
      <4>1. e # 0
        BY DEF Servers
      <4> QED BY <1>0, <2>1, <4>1 DEF LeaseHeld
    <3> QED BY <1>0, <2>1, <3>1 DEF LeaseHeld, ServerTypes
  <2>2. CASE server' = [server EXCEPT ![d] = "none"] /\ UNCHANGED lease
    BY <1>0, <2>2 DEF LeaseHeld, ServerTypes
  <2> QED BY <1>1, <2>1, <2>2 DEF Lock, Become
<1>2. ASSUME NEW d \in Servers, Bind(d) PROVE LeaseHeld'
  BY <1>0, <1>2 DEF Bind, Become, topoVars, connVars, clientVars, jobVars, LeaseHeld,
     ServerTypes, Servers
<1>3. ASSUME NEW d \in Servers, Decide(d) PROVE LeaseHeld'
  BY <1>0, <1>3 DEF Decide, Become, topoVars, connVars, clientVars, jobVars, LeaseHeld,
     ServerTypes, Servers
<1>4. ASSUME NEW d \in Servers, Unlink(d) PROVE LeaseHeld'
  BY <1>0, <1>4 DEF Unlink, Become, topoVars, connVars, clientVars, jobVars, LeaseHeld,
     ServerTypes, Servers
<1>5. ASSUME NEW d \in Servers, Exit(d) PROVE LeaseHeld'
  BY <1>0, <1>5 DEF Exit, Ended, clientVars, jobVars, LeaseHeld, ServerTypes, Servers
<1>6. ASSUME NEW d \in Servers, Kill(d) PROVE LeaseHeld'
  BY <1>0, <1>6 DEF Kill, Ended, clientVars, jobVars, LeaseHeld, ServerTypes, Servers
<1>7. ASSUME NEW t \in Threads, NEW d \in Servers, Start(t, d) PROVE LeaseHeld'
  BY <1>0, <1>7 DEF Start, Go, Become, topoVars, connVars, clientVars, jobVars,
     LeaseHeld, ServerTypes, Servers
<1>8. ASSUME UNCHANGED <<server, lease>> PROVE LeaseHeld'
  BY <1>0, <1>8 DEF LeaseHeld, ServerTypes, Servers
<1>9. ASSUME NEW d \in Servers,
          \/ InitialIdle(d) \/ PaneExits(d)
      PROVE  UNCHANGED <<server, lease>>
  BY <1>9 DEF InitialIdle, PaneExits, topoVars, connVars, clientVars, jobVars, Changed,
     procVars
<1>10. ASSUME NEW t \in Threads,
          \/ Accept(t) \/ Serve(t) \/ ServeEnds(t) \/ Dial(t) \/ StartExpires(t)
          \/ Welcomed(t) \/ Lost(t) \/ Swap(t) \/ Connect(t) \/ AskSnapshot(t)
          \/ Receive(t) \/ Judge(t) \/ Store(t)
      PROVE  UNCHANGED <<server, lease>>
  BY <1>10 DEF Accept, Serve, ServeEnds, Dial, StartExpires, Welcomed, Lost, Swap,
     Connect, AskSnapshot, Receive, Judge, Store, topoVars, clientVars, jobVars,
     procVars, connVars
<1>11. ASSUME
          \/ AskOther \/ Mutate \/ ServerChanged \/ WatcherFails \/ Submit
          \/ AwaitWatcher \/ JobEnds \/ Quit
      PROVE  UNCHANGED <<server, lease>>
  BY <1>11 DEF AskOther, Mutate, ServerChanged, WatcherFails, Submit, AwaitWatcher,
     JobEnds, Quit, procVars, topoVars, connVars, clientVars, jobVars, Changed, Closed
<1>12. ASSUME UNCHANGED vars PROVE UNCHANGED <<server, lease>>
  BY <1>12 DEF vars, procVars, topoVars, connVars, clientVars, jobVars
<1> QED BY <1>1, <1>2, <1>3, <1>4, <1>5, <1>6, <1>7, <1>8, <1>9, <1>10, <1>11, <1>12
       DEF Next, Runs, Serves, Follows, Watches, Works, Threads

\* Only the holder of the lease touches the endpoint.
LEMMA ServesAloneKept == IInv /\ [Next]_vars => ServesAlone'
<1> SUFFICES ASSUME IInv, [Next]_vars PROVE ServesAlone'
  OBVIOUS
<1>0. ServerTypes /\ LeaseHeld /\ ServesAlone
  BY DEF IInv
<1>1. ASSUME NEW d \in Servers, Lock(d) PROVE ServesAlone'
  BY <1>0, <1>1 DEF Lock, Become, topoVars, connVars, clientVars, jobVars, LeaseHeld,
     ServesAlone, ServerTypes, Servers
<1>2. ASSUME NEW d \in Servers, Bind(d) PROVE ServesAlone'
  BY <1>0, <1>2 DEF Bind, Become, topoVars, connVars, clientVars, jobVars, LeaseHeld,
     ServesAlone, ServerTypes, Servers
<1>3. ASSUME NEW d \in Servers, Decide(d) PROVE ServesAlone'
  BY <1>0, <1>3 DEF Decide, Become, topoVars, connVars, clientVars, jobVars, LeaseHeld,
     ServesAlone, ServerTypes, Servers
<1>4. ASSUME NEW d \in Servers, Unlink(d) PROVE ServesAlone'
  BY <1>0, <1>4 DEF Unlink, Become, topoVars, connVars, clientVars, jobVars, LeaseHeld,
     ServesAlone, ServerTypes, Servers
<1>5. ASSUME NEW d \in Servers, Exit(d) PROVE ServesAlone'
  BY <1>0, <1>5 DEF Exit, Ended, clientVars, jobVars, LeaseHeld, ServesAlone,
     ServerTypes, Servers
<1>6. ASSUME NEW d \in Servers, Kill(d) PROVE ServesAlone'
  BY <1>0, <1>6 DEF Kill, Ended, clientVars, jobVars, LeaseHeld, ServesAlone,
     ServerTypes, Servers
<1>7. ASSUME NEW t \in Threads, NEW d \in Servers, Start(t, d) PROVE ServesAlone'
  BY <1>0, <1>7 DEF Start, Go, Become, topoVars, connVars, clientVars, jobVars,
     LeaseHeld, ServesAlone, ServerTypes, Servers
<1>8. ASSUME UNCHANGED <<server, endpoint>> PROVE ServesAlone'
  BY <1>0, <1>8 DEF LeaseHeld, ServesAlone, ServerTypes, Servers
<1>9. ASSUME NEW d \in Servers,
          \/ InitialIdle(d) \/ PaneExits(d)
      PROVE  UNCHANGED <<server, endpoint>>
  BY <1>9 DEF InitialIdle, PaneExits, topoVars, connVars, clientVars, jobVars, Changed,
     procVars
<1>10. ASSUME NEW t \in Threads,
          \/ Accept(t) \/ Serve(t) \/ ServeEnds(t) \/ Dial(t) \/ StartExpires(t)
          \/ Welcomed(t) \/ Lost(t) \/ Swap(t) \/ Connect(t) \/ AskSnapshot(t)
          \/ Receive(t) \/ Judge(t) \/ Store(t)
      PROVE  UNCHANGED <<server, endpoint>>
  BY <1>10 DEF Accept, Serve, ServeEnds, Dial, StartExpires, Welcomed, Lost, Swap,
     Connect, AskSnapshot, Receive, Judge, Store, topoVars, clientVars, jobVars,
     procVars, connVars
<1>11. ASSUME
          \/ AskOther \/ Mutate \/ ServerChanged \/ WatcherFails \/ Submit
          \/ AwaitWatcher \/ JobEnds \/ Quit
      PROVE  UNCHANGED <<server, endpoint>>
  BY <1>11 DEF AskOther, Mutate, ServerChanged, WatcherFails, Submit, AwaitWatcher,
     JobEnds, Quit, procVars, topoVars, connVars, clientVars, jobVars, Changed, Closed
<1>12. ASSUME UNCHANGED vars PROVE UNCHANGED <<server, endpoint>>
  BY <1>12 DEF vars, procVars, topoVars, connVars, clientVars, jobVars
<1> QED BY <1>1, <1>2, <1>3, <1>4, <1>5, <1>6, <1>7, <1>8, <1>9, <1>10, <1>11, <1>12
       DEF Next, Runs, Serves, Follows, Watches, Works, Threads

\* A stream is whole only while its server lives.
LEMMA PeersMetKept == IInv /\ [Next]_vars => PeersMet'
<1> SUFFICES ASSUME IInv, [Next]_vars PROVE PeersMet'
  OBVIOUS
<1>0. ServerTypes /\ ThreadTypes /\ PeersMet
  BY DEF IInv
<1>1. ASSUME NEW d \in Servers, Lock(d) PROVE PeersMet'
  <2>1. server[d] = "starting" /\ UNCHANGED <<step, peer, conn>>
    BY <1>1 DEF Lock, Become, connVars
  <2>2. \A e \in Servers : e # d => server'[e] = server[e]
    BY <1>0, <1>1 DEF Lock, Become, ServerTypes
  <2>3. \A t \in Threads : peer[t] # d
    BY <1>0, <2>1 DEF PeersMet, Met, Servers
  <2>4. \A t \in Threads : peer[t] # 0 => peer[t] \in Servers
    BY <1>0 DEF ThreadTypes, Servers
  <2> QED BY <1>0, <2>1, <2>2, <2>3, <2>4 DEF PeersMet, Joined
<1>2. ASSUME NEW d \in Servers, Bind(d) PROVE PeersMet'
  BY <1>0, <1>2 DEF Bind, Become, topoVars, connVars, clientVars, jobVars, PeersMet,
     Met, Joined, ServerTypes, ServerStates, ThreadTypes, Servers, Threads
<1>3. ASSUME NEW d \in Servers, Decide(d) PROVE PeersMet'
  <2>1. UNCHANGED <<step, peer, conn>>
    BY <1>3 DEF Decide, connVars
  <2>2. \A e \in Servers : server'[e] = server[e] \/ (server[e] = "serving" /\ server'[e] = "leaving")
    BY <1>0, <1>3 DEF Decide, Become, ServerTypes
  <2>3. \A t \in Threads : peer[t] # 0 => peer[t] \in Servers
    BY <1>0 DEF ThreadTypes, Servers
  <2> QED BY <1>0, <2>1, <2>2, <2>3 DEF PeersMet, Joined, Met
<1>4. ASSUME NEW d \in Servers, Unlink(d) PROVE PeersMet'
  BY <1>0, <1>4 DEF Unlink, Become, topoVars, connVars, clientVars, jobVars, PeersMet,
     Met, Joined, ServerTypes, ServerStates, ThreadTypes, Servers, Threads
<1>5. ASSUME NEW d \in Servers, Exit(d) PROVE PeersMet'
  BY <1>0, <1>5 DEF Exit, Ended, clientVars, jobVars, PeersMet, Met, Joined,
     ServerTypes, ServerStates, ThreadTypes, Servers, Threads
<1>6. ASSUME NEW d \in Servers, Kill(d) PROVE PeersMet'
  BY <1>0, <1>6 DEF Kill, Ended, clientVars, jobVars, PeersMet, Met, Joined,
     ServerTypes, ServerStates, ThreadTypes, Servers, Threads
<1>7. ASSUME NEW d \in Servers, PaneExits(d) PROVE PeersMet'
  BY <1>0, <1>7 DEF PaneExits, Changed, procVars, clientVars, jobVars, PeersMet, Met,
     Joined, ServerTypes, ServerStates, ThreadTypes, Servers, Threads
<1>8. ASSUME NEW t \in Threads, Accept(t) PROVE PeersMet'
  BY <1>0, <1>8 DEF Accept, topoVars, clientVars, jobVars, PeersMet, Met, Joined,
     ServerTypes, ServerStates, ThreadTypes, Servers, Threads
<1>9. ASSUME NEW t \in Threads, Serve(t) PROVE PeersMet'
  BY <1>0, <1>9 DEF Serve, procVars, topoVars, clientVars, jobVars, PeersMet, Met,
     Joined, ServerTypes, ServerStates, ThreadTypes, Servers, Threads
<1>10. ASSUME NEW t \in Threads, ServeEnds(t) PROVE PeersMet'
  BY <1>0, <1>10 DEF ServeEnds, procVars, topoVars, clientVars, jobVars, PeersMet, Met,
     Joined, ServerTypes, ServerStates, ThreadTypes, Servers, Threads
<1>11. ASSUME NEW t \in Threads, Dial(t) PROVE PeersMet'
  BY <1>0, <1>11 DEF Dial, Listening, procVars, topoVars, clientVars, jobVars, PeersMet,
     Met, Joined, ServerTypes, ServerStates, ThreadTypes, Servers, Threads
<1>12. ASSUME NEW t \in Threads, StartExpires(t) PROVE PeersMet'
  BY <1>0, <1>12 DEF StartExpires, Go, procVars, topoVars, connVars, clientVars,
     jobVars, PeersMet, Met, Joined, ServerTypes, ServerStates, ThreadTypes, Servers,
     Threads
<1>13. ASSUME NEW t \in Threads, Welcomed(t) PROVE PeersMet'
  BY <1>0, <1>13 DEF Welcomed, Go, procVars, topoVars, connVars, clientVars, jobVars,
     PeersMet, Met, Joined, ServerTypes, ServerStates, ThreadTypes, Servers, Threads
<1>14. ASSUME NEW t \in Threads, Lost(t) PROVE PeersMet'
  BY <1>0, <1>14 DEF Lost, procVars, topoVars, connVars, clientVars, jobVars, PeersMet,
     Met, Joined, ServerTypes, ServerStates, ThreadTypes, Servers, Threads
<1>15. ASSUME NEW t \in Threads, Swap(t) PROVE PeersMet'
  BY <1>0, <1>15 DEF Swap, Go, procVars, topoVars, connVars, jobVars, PeersMet, Met,
     Joined, ServerTypes, ServerStates, ThreadTypes, Servers, Threads
<1>16. ASSUME NEW t \in Threads, Connect(t) PROVE PeersMet'
  BY <1>0, <1>16 DEF Connect, None, procVars, topoVars, connVars, jobVars, PeersMet,
     Met, Joined, ServerTypes, ServerStates, ThreadTypes, Servers, Threads
<1>17. ASSUME NEW t \in Threads, AskSnapshot(t) PROVE PeersMet'
  BY <1>0, <1>17 DEF AskSnapshot, Go, Snapshot, procVars, topoVars, clientVars, jobVars,
     PeersMet, Met, Joined, ServerTypes, ServerStates, ThreadTypes, Servers, Threads
<1>18. ASSUME NEW t \in Threads, Receive(t) PROVE PeersMet'
  BY <1>0, <1>18 DEF Receive, Go, None, procVars, topoVars, clientVars, jobVars,
     PeersMet, Met, Joined, ServerTypes, ServerStates, ThreadTypes, Servers, Threads
<1>19. ASSUME NEW t \in Threads, Judge(t) PROVE PeersMet'
  BY <1>0, <1>19 DEF Judge, Go, None, procVars, topoVars, connVars, clientVars, jobVars,
     PeersMet, Met, Joined, ServerTypes, ServerStates, ThreadTypes, Servers, Threads
<1>20. ASSUME NEW t \in Threads, Store(t) PROVE PeersMet'
  BY <1>0, <1>20 DEF Store, Go, Newer, None, procVars, topoVars, connVars, jobVars,
     PeersMet, Met, Joined, ServerTypes, ServerStates, ThreadTypes, Servers, Threads
<1>21. ASSUME NEW t \in Threads, NEW d \in Servers, Start(t, d) PROVE PeersMet'
  BY <1>0, <1>21 DEF Start, Go, Become, topoVars, connVars, clientVars, jobVars,
     PeersMet, Met, Joined, ServerTypes, ServerStates, ThreadTypes, Servers, Threads
<1>22. ASSUME AskOther PROVE PeersMet'
  BY <1>0, <1>22 DEF AskOther, Go, procVars, topoVars, connVars, clientVars, jobVars,
     PeersMet, Met, Joined, ServerTypes, ServerStates, ThreadTypes, Servers, Threads
<1>23. ASSUME Mutate PROVE PeersMet'
  BY <1>0, <1>23 DEF Mutate, Go, Changed, SameServer, PeerGeneration, procVars,
     clientVars, PeersMet, Met, Joined, ServerTypes, ServerStates, ThreadTypes, Servers,
     Threads
<1>24. ASSUME ServerChanged PROVE PeersMet'
  BY <1>0, <1>24 DEF ServerChanged, Go, procVars, topoVars, connVars, clientVars,
     jobVars, PeersMet, Met, Joined, ServerTypes, ServerStates, ThreadTypes, Servers,
     Threads
<1>25. ASSUME WatcherFails PROVE PeersMet'
  BY <1>0, <1>25 DEF WatcherFails, Go, Closed, Failed, None, procVars, topoVars,
     jobVars, PeersMet, Met, Joined, ServerTypes, ServerStates, ThreadTypes, Servers,
     Threads
<1>26. ASSUME Submit PROVE PeersMet'
  BY <1>0, <1>26 DEF Submit, Go, PeerGeneration, procVars, topoVars, connVars,
     clientVars, PeersMet, Met, Joined, ServerTypes, ServerStates, ThreadTypes, Servers,
     Threads
<1>27. ASSUME AwaitWatcher PROVE PeersMet'
  BY <1>0, <1>27 DEF AwaitWatcher, Go, procVars, topoVars, connVars, clientVars,
     jobVars, PeersMet, Met, Joined, ServerTypes, ServerStates, ThreadTypes, Servers,
     Threads
<1>28. ASSUME JobEnds PROVE PeersMet'
  BY <1>0, <1>28 DEF JobEnds, Go, Closed, None, procVars, topoVars, clientVars, jobVars,
     PeersMet, Met, Joined, ServerTypes, ServerStates, ThreadTypes, Servers, Threads
<1>29. ASSUME Quit PROVE PeersMet'
  BY <1>0, <1>29 DEF Quit, Go, Closed, None, procVars, topoVars, clientVars, jobVars,
     PeersMet, Met, Joined, ServerTypes, ServerStates, ThreadTypes, Servers, Threads
<1>30. ASSUME UNCHANGED <<server, step, peer, conn>> PROVE PeersMet'
  BY <1>0, <1>30 DEF PeersMet, Met, Joined, ServerTypes, ServerStates, ThreadTypes,
     Servers, Threads
<1>31. ASSUME NEW d \in Servers,
          \/ InitialIdle(d)
      PROVE  UNCHANGED <<server, step, peer, conn>>
  BY <1>31 DEF InitialIdle, topoVars, connVars, clientVars, jobVars
<1>32. ASSUME UNCHANGED vars PROVE UNCHANGED <<server, step, peer, conn>>
  BY <1>32 DEF vars, procVars, topoVars, connVars, clientVars, jobVars
<1> QED BY <1>1, <1>2, <1>3, <1>4, <1>5, <1>6, <1>7, <1>8, <1>9, <1>10, <1>11, <1>12,
           <1>13, <1>14, <1>15, <1>16, <1>17, <1>18, <1>19, <1>20, <1>21, <1>22, <1>23,
           <1>24, <1>25, <1>26, <1>27, <1>28, <1>29, <1>30, <1>31, <1>32
       DEF Next, Runs, Serves, Follows, Watches, Works, Threads

\* Two live servers are one, so a swap without a race agrees with the job.
LEMMA JobKnowsServerKept == IInv /\ [Next]_vars => JobKnowsServer'
<1> SUFFICES ASSUME IInv, [Next]_vars PROVE JobKnowsServer'
  OBVIOUS
<1>0. ServerTypes /\ ThreadTypes /\ LeaseHeld /\ PeersMet /\ JobKnowsServer
  BY DEF IInv
<1>1. ASSUME NEW d \in Servers, Exit(d) PROVE JobKnowsServer'
  BY <1>0, <1>1 DEF Exit, Ended, clientVars, jobVars, JobKnowsServer, PeersMet, Met,
     Joined, LeaseHeld, ServerTypes, ThreadTypes, Servers, Threads
<1>2. ASSUME NEW d \in Servers, Kill(d) PROVE JobKnowsServer'
  BY <1>0, <1>2 DEF Kill, Ended, clientVars, jobVars, JobKnowsServer, PeersMet, Met,
     Joined, LeaseHeld, ServerTypes, ThreadTypes, Servers, Threads
<1>3. ASSUME NEW d \in Servers, PaneExits(d) PROVE JobKnowsServer'
  BY <1>0, <1>3 DEF PaneExits, Changed, procVars, clientVars, jobVars, JobKnowsServer,
     PeersMet, Met, Joined, LeaseHeld, ServerTypes, ThreadTypes, Servers, Threads
<1>4. ASSUME NEW t \in Threads, Accept(t) PROVE JobKnowsServer'
  BY <1>0, <1>4 DEF Accept, topoVars, clientVars, jobVars, JobKnowsServer, PeersMet,
     Met, Joined, LeaseHeld, ServerTypes, ThreadTypes, Servers, Threads
<1>5. ASSUME NEW t \in Threads, Serve(t) PROVE JobKnowsServer'
  BY <1>0, <1>5 DEF Serve, procVars, topoVars, clientVars, jobVars, JobKnowsServer,
     PeersMet, Met, Joined, LeaseHeld, ServerTypes, ThreadTypes, Servers, Threads
<1>6. ASSUME NEW t \in Threads, ServeEnds(t) PROVE JobKnowsServer'
  BY <1>0, <1>6 DEF ServeEnds, procVars, topoVars, clientVars, jobVars, JobKnowsServer,
     PeersMet, Met, Joined, LeaseHeld, ServerTypes, ThreadTypes, Servers, Threads
<1>7. ASSUME NEW t \in Threads, Dial(t) PROVE JobKnowsServer'
  BY <1>0, <1>7 DEF Dial, Listening, procVars, topoVars, clientVars, jobVars,
     JobKnowsServer, PeersMet, Met, Joined, LeaseHeld, ServerTypes, ThreadTypes,
     Servers, Threads
<1>8. ASSUME NEW t \in Threads, StartExpires(t) PROVE JobKnowsServer'
  BY <1>0, <1>8 DEF StartExpires, Go, procVars, topoVars, connVars, clientVars, jobVars,
     JobKnowsServer, PeersMet, Met, Joined, LeaseHeld, ServerTypes, ThreadTypes,
     Servers, Threads
<1>9. ASSUME NEW t \in Threads, Welcomed(t) PROVE JobKnowsServer'
  BY <1>0, <1>9 DEF Welcomed, Go, procVars, topoVars, connVars, clientVars, jobVars,
     JobKnowsServer, PeersMet, Met, Joined, LeaseHeld, ServerTypes, ThreadTypes,
     Servers, Threads
<1>10. ASSUME NEW t \in Threads, Lost(t) PROVE JobKnowsServer'
  BY <1>0, <1>10 DEF Lost, procVars, topoVars, connVars, clientVars, jobVars,
     JobKnowsServer, PeersMet, Met, Joined, LeaseHeld, ServerTypes, ThreadTypes,
     Servers, Threads
<1>11. ASSUME NEW t \in Threads, Swap(t) PROVE JobKnowsServer'
  <2>1. step'["job"] \in {"forget", "connected", "send"} => t = "job" \/ step'["job"] = step["job"]
    BY <1>0, <1>11 DEF Swap, Go, ThreadTypes, Threads
  <2>2. generation' = peer[t] /\ UNCHANGED <<peer, conn, server>>
    BY <1>11 DEF Swap, connVars, procVars
  <2>3. ASSUME ~raced', conn["job"] \in Joined PROVE peer[t] = peer["job"]
    <3>1. server[peer[t]] # "gone"
      BY <1>11, <2>3 DEF Swap
    <3>2. peer[t] # 0 /\ peer["job"] # 0 /\ server[peer["job"]] # "gone"
      BY <1>0, <1>11, <2>3 DEF Swap, Go, PeersMet, Threads
    <3>3. peer[t] \in Servers /\ peer["job"] \in Servers
      BY <1>0, <3>2 DEF ThreadTypes, Servers, Threads
    <3>4. /\ server[peer[t]] \in {"serving", "leaving", "unlinked"}
          /\ server[peer["job"]] \in {"serving", "leaving", "unlinked"}
      BY <1>0, <3>1, <3>2 DEF PeersMet, Met, Threads
    <3> QED BY <1>0, <3>3, <3>4 DEF LeaseHeld
  <2> QED BY <2>2, <2>3 DEF JobKnowsServer
<1>12. ASSUME NEW t \in Threads, Connect(t) PROVE JobKnowsServer'
  BY <1>0, <1>12 DEF Connect, None, procVars, topoVars, connVars, jobVars,
     JobKnowsServer, PeersMet, Met, Joined, LeaseHeld, ServerTypes, ThreadTypes,
     Servers, Threads
<1>13. ASSUME NEW t \in Threads, AskSnapshot(t) PROVE JobKnowsServer'
  BY <1>0, <1>13 DEF AskSnapshot, Go, Snapshot, procVars, topoVars, clientVars, jobVars,
     JobKnowsServer, PeersMet, Met, Joined, LeaseHeld, ServerTypes, ThreadTypes,
     Servers, Threads
<1>14. ASSUME NEW t \in Threads, Receive(t) PROVE JobKnowsServer'
  BY <1>0, <1>14 DEF Receive, Go, None, procVars, topoVars, clientVars, jobVars,
     JobKnowsServer, PeersMet, Met, Joined, LeaseHeld, ServerTypes, ThreadTypes,
     Servers, Threads
<1>15. ASSUME NEW t \in Threads, Judge(t) PROVE JobKnowsServer'
  BY <1>0, <1>15 DEF Judge, Go, None, procVars, topoVars, connVars, clientVars, jobVars,
     JobKnowsServer, PeersMet, Met, Joined, LeaseHeld, ServerTypes, ThreadTypes,
     Servers, Threads
<1>16. ASSUME NEW t \in Threads, Store(t) PROVE JobKnowsServer'
  BY <1>0, <1>16 DEF Store, Go, Newer, None, procVars, topoVars, connVars, jobVars,
     JobKnowsServer, PeersMet, Met, Joined, LeaseHeld, ServerTypes, ThreadTypes,
     Servers, Threads
<1>17. ASSUME NEW t \in Threads, NEW d \in Servers, Start(t, d) PROVE JobKnowsServer'
  BY <1>0, <1>17 DEF Start, Go, Become, topoVars, connVars, clientVars, jobVars,
     JobKnowsServer, PeersMet, Met, Joined, LeaseHeld, ServerTypes, ThreadTypes,
     Servers, Threads
<1>18. ASSUME AskOther PROVE JobKnowsServer'
  BY <1>0, <1>18 DEF AskOther, Go, procVars, topoVars, connVars, clientVars, jobVars,
     JobKnowsServer, PeersMet, Met, Joined, LeaseHeld, ServerTypes, ThreadTypes,
     Servers, Threads
<1>19. ASSUME Mutate PROVE JobKnowsServer'
  BY <1>0, <1>19 DEF Mutate, Go, Changed, SameServer, PeerGeneration, procVars,
     clientVars, JobKnowsServer, PeersMet, Met, Joined, LeaseHeld, ServerTypes,
     ThreadTypes, Servers, Threads
<1>20. ASSUME ServerChanged PROVE JobKnowsServer'
  BY <1>0, <1>20 DEF ServerChanged, Go, procVars, topoVars, connVars, clientVars,
     jobVars, JobKnowsServer, PeersMet, Met, Joined, LeaseHeld, ServerTypes,
     ThreadTypes, Servers, Threads
<1>21. ASSUME WatcherFails PROVE JobKnowsServer'
  BY <1>0, <1>21 DEF WatcherFails, Go, Closed, Failed, None, procVars, topoVars,
     jobVars, JobKnowsServer, PeersMet, Met, Joined, LeaseHeld, ServerTypes,
     ThreadTypes, Servers, Threads
<1>22. ASSUME Submit PROVE JobKnowsServer'
  BY <1>0, <1>22 DEF Submit, Go, PeerGeneration, procVars, topoVars, connVars,
     clientVars, JobKnowsServer, PeersMet, Met, Joined, LeaseHeld, ServerTypes,
     ThreadTypes, Servers, Threads
<1>23. ASSUME AwaitWatcher PROVE JobKnowsServer'
  BY <1>0, <1>23 DEF AwaitWatcher, Go, procVars, topoVars, connVars, clientVars,
     jobVars, JobKnowsServer, PeersMet, Met, Joined, LeaseHeld, ServerTypes,
     ThreadTypes, Servers, Threads
<1>24. ASSUME JobEnds PROVE JobKnowsServer'
  BY <1>0, <1>24 DEF JobEnds, Go, Closed, None, procVars, topoVars, clientVars, jobVars,
     JobKnowsServer, PeersMet, Met, Joined, LeaseHeld, ServerTypes, ThreadTypes,
     Servers, Threads
<1>25. ASSUME Quit PROVE JobKnowsServer'
  BY <1>0, <1>25 DEF Quit, Go, Closed, None, procVars, topoVars, clientVars, jobVars,
     JobKnowsServer, PeersMet, Met, Joined, LeaseHeld, ServerTypes, ThreadTypes,
     Servers, Threads
<1>26. ASSUME UNCHANGED <<raced, conn, step, generation, peer>> PROVE JobKnowsServer'
  BY <1>0, <1>26 DEF JobKnowsServer, PeersMet, Met, Joined, LeaseHeld, ServerTypes,
     ThreadTypes, Servers, Threads
<1>27. ASSUME NEW d \in Servers,
          \/ Lock(d) \/ Bind(d) \/ InitialIdle(d) \/ Decide(d) \/ Unlink(d)
      PROVE  UNCHANGED <<raced, conn, step, generation, peer>>
  BY <1>27 DEF Lock, Bind, InitialIdle, Decide, Unlink, topoVars, connVars, clientVars,
     jobVars
<1>28. ASSUME UNCHANGED vars PROVE UNCHANGED <<raced, conn, step, generation, peer>>
  BY <1>28 DEF vars, procVars, topoVars, connVars, clientVars, jobVars
<1> QED BY <1>1, <1>2, <1>3, <1>4, <1>5, <1>6, <1>7, <1>8, <1>9, <1>10, <1>11, <1>12,
           <1>13, <1>14, <1>15, <1>16, <1>17, <1>18, <1>19, <1>20, <1>21, <1>22, <1>23,
           <1>24, <1>25, <1>26, <1>27, <1>28
       DEF Next, Runs, Serves, Follows, Watches, Works, Threads

\* A job sends to the server its generation names.
LEMMA NeverStraysKept == IInv /\ [Next]_vars => NeverStrays'
<1> SUFFICES ASSUME IInv, [Next]_vars PROVE NeverStrays'
  OBVIOUS
<1>0. ThreadTypes /\ ClientTypes /\ PeersMet /\ JobKnowsServer /\ NeverStrays
  BY DEF IInv
<1>1. ASSUME NEW t \in Threads, Swap(t) PROVE NeverStrays'
  BY <1>0, <1>1 DEF Swap, Go, procVars, topoVars, connVars, jobVars, NeverStrays,
     JobKnowsServer, PeersMet, Joined, ThreadTypes, ClientTypes, Threads
<1>2. ASSUME NEW t \in Threads, Connect(t) PROVE NeverStrays'
  BY <1>0, <1>2 DEF Connect, None, procVars, topoVars, connVars, jobVars, NeverStrays,
     JobKnowsServer, PeersMet, Joined, ThreadTypes, ClientTypes, Threads
<1>3. ASSUME NEW t \in Threads, Store(t) PROVE NeverStrays'
  BY <1>0, <1>3 DEF Store, Go, Newer, None, procVars, topoVars, connVars, jobVars,
     NeverStrays, JobKnowsServer, PeersMet, Joined, ThreadTypes, ClientTypes, Threads
<1>4. ASSUME Mutate PROVE NeverStrays'
  BY <1>0, <1>4 DEF Mutate, Go, Changed, SameServer, PeerGeneration, procVars,
     clientVars, NeverStrays, JobKnowsServer, PeersMet, Joined, ThreadTypes,
     ClientTypes, Threads
<1>5. ASSUME UNCHANGED <<strayed, raced>> PROVE NeverStrays'
  BY <1>0, <1>5 DEF NeverStrays, JobKnowsServer, PeersMet, Joined, ThreadTypes,
     ClientTypes, Threads
<1>6. ASSUME NEW d \in Servers,
          \/ Lock(d) \/ Bind(d) \/ InitialIdle(d) \/ Decide(d) \/ Unlink(d) \/ Exit(d)
          \/ Kill(d) \/ PaneExits(d)
      PROVE  UNCHANGED <<strayed, raced>>
  BY <1>6 DEF Lock, Bind, InitialIdle, Decide, Unlink, Exit, Kill, PaneExits, topoVars,
     connVars, clientVars, jobVars, Ended, Changed, procVars
<1>7. ASSUME NEW t \in Threads,
          \/ Accept(t) \/ Serve(t) \/ ServeEnds(t) \/ Dial(t) \/ StartExpires(t)
          \/ Welcomed(t) \/ Lost(t) \/ AskSnapshot(t) \/ Receive(t) \/ Judge(t)
      PROVE  UNCHANGED <<strayed, raced>>
  BY <1>7 DEF Accept, Serve, ServeEnds, Dial, StartExpires, Welcomed, Lost, AskSnapshot,
     Receive, Judge, topoVars, clientVars, jobVars, procVars, connVars
<1>8. ASSUME NEW t \in Threads, NEW d \in Servers,
          \/ Start(t, d)
      PROVE  UNCHANGED <<strayed, raced>>
  BY <1>8 DEF Start, topoVars, connVars, clientVars, jobVars
<1>9. ASSUME
          \/ AskOther \/ ServerChanged \/ WatcherFails \/ Submit \/ AwaitWatcher
          \/ JobEnds \/ Quit
      PROVE  UNCHANGED <<strayed, raced>>
  BY <1>9 DEF AskOther, ServerChanged, WatcherFails, Submit, AwaitWatcher, JobEnds,
     Quit, procVars, topoVars, connVars, clientVars, jobVars, Closed
<1>10. ASSUME UNCHANGED vars PROVE UNCHANGED <<strayed, raced>>
  BY <1>10 DEF vars, procVars, topoVars, connVars, clientVars, jobVars
<1> QED BY <1>1, <1>2, <1>3, <1>4, <1>5, <1>6, <1>7, <1>8, <1>9, <1>10
       DEF Next, Runs, Serves, Follows, Watches, Works, Threads

--------------------------------------------------------------------------------
(* The theorems *)

\* The invariant holds in every state.
LEMMA Inductive == Spec => []IInv
<1>1. ASSUME Init PROVE IInv
  <2>1. ServerTypes
    BY <1>1, DaemonAssumption DEF Init, ServerTypes, ServerStates
  <2>2. ThreadTypes
    <3>1. <<>> \in Seq(Nat) /\ Len(<<>>) = 0
      BY EmptySeq
    <3>2. pushed \in [Threads -> Seq(Nat)] /\ \A t \in Threads : Len(pushed[t]) <= MaxQueue
      BY <1>1, <3>1, DaemonAssumption DEF Init
    <3> QED BY <1>1, <3>2, DaemonAssumption
            DEF Init, ThreadTypes, Steps, ConnStates, Snapshots, None
  <2>3. ClientTypes
    <3>1. 0 \in 0 .. MaxServers
      BY DaemonAssumption
    <3>2. latest \in Snapshots
      BY <1>1 DEF Init, Snapshots, None
    <3>3. connected \in BOOLEAN /\ strayed \in BOOLEAN /\ raced \in BOOLEAN
      BY <1>1 DEF Init
    <3> QED BY <1>1, <3>1, <3>2, <3>3 DEF Init, ClientTypes
  <2>4. LeaseHeld /\ ServesAlone /\ PeersMet /\ JobKnowsServer /\ NeverStrays
    BY <1>1 DEF Init, LeaseHeld, ServesAlone, PeersMet, JobKnowsServer, NeverStrays, Threads,
                Joined
  <2> QED BY <2>1, <2>2, <2>3, <2>4 DEF IInv
<1>2. ASSUME IInv, [Next]_vars PROVE IInv'
  BY <1>2, ServerTypesKept, ThreadTypesKept, ClientTypesKept, LeaseHeldKept, ServesAloneKept,
     PeersMetKept, JobKnowsServerKept, NeverStraysKept DEF IInv
<1> QED BY <1>1, <1>2, PTL DEF Spec

\* Every state of servers and client is well typed, and a subscriber's queue
\* keeps its limit.
THEOREM DaemonTypeCorrect == Spec => []TypeOK
<1>1. ASSUME IInv PROVE TypeOK
  BY <1>1 DEF IInv, ServerTypes, ThreadTypes, ClientTypes, TypeOK, ServerStates, ConnStates
<1> QED BY <1>1, Inductive, PTL

\* However servers start, leave and are killed, one that serves can be reached
\* (bind's lease, the removal of the endpoint at the end of run).
THEOREM EndpointKept == Spec => []ServesAlone
<1>1. ASSUME IInv PROVE ServesAlone
  BY <1>1 DEF IInv
<1> QED BY <1>1, Inductive, PTL

\* A mutation submitted for one server is executed by no other unless a thread
\* put back the generation of a killed server (check_generation, connect).
THEOREM MutationsDoNotStray == Spec => []NeverStrays
<1>1. ASSUME IInv PROVE NeverStrays
  BY <1>1 DEF IInv
<1> QED BY <1>1, Inductive, PTL

\* The snapshot a client shows of one server never goes back (Client::publish).
THEOREM SnapshotForward == Spec => LatestForward
<1> DEFINE Forward == latest.of # 0 /\ latest'.of = latest.of => latest'.revision >= latest.revision
<1>1. ASSUME IInv, [Next]_vars PROVE [Forward]_latest
  <2>0. ThreadTypes /\ ClientTypes
    BY <1>1 DEF IInv
  <2>1. ASSUME NEW t \in Threads, Store(t) PROVE Forward
    BY <2>0, <2>1 DEF Store, Newer, ThreadTypes, ClientTypes, Snapshots
  <2>2. ASSUME NEW t \in Threads, Connect(t) PROVE [Forward]_latest
    BY <2>0, <2>2 DEF Connect, None, ClientTypes, Snapshots
  <2>3. ASSUME WatcherFails PROVE Forward
    BY <2>0, <2>3 DEF WatcherFails, Failed, ClientTypes, Snapshots
  <2>4. ASSUME NEW d \in Servers,
            \/ Lock(d) \/ Bind(d) \/ InitialIdle(d) \/ Decide(d) \/ Unlink(d)
            \/ Exit(d) \/ Kill(d) \/ PaneExits(d)
        PROVE  UNCHANGED latest
    BY <2>4 DEF Lock, Bind, InitialIdle, Decide, Unlink, Exit, Kill, PaneExits,
       clientVars, Ended
  <2>5. ASSUME NEW t \in Threads,
            \/ Accept(t) \/ Serve(t) \/ ServeEnds(t) \/ Dial(t) \/ StartExpires(t)
            \/ Welcomed(t) \/ Lost(t) \/ Swap(t) \/ AskSnapshot(t) \/ Receive(t)
            \/ Judge(t)
        PROVE  UNCHANGED latest
    BY <2>5 DEF Accept, Serve, ServeEnds, Dial, StartExpires, Welcomed, Lost, Swap,
       AskSnapshot, Receive, Judge, clientVars
  <2>6. ASSUME NEW t \in Threads, NEW d \in Servers,
            \/ Start(t, d)
        PROVE  UNCHANGED latest
    BY <2>6 DEF Start, clientVars
  <2>7. ASSUME
            \/ AskOther \/ Mutate \/ ServerChanged \/ Submit \/ AwaitWatcher \/ JobEnds
            \/ Quit
        PROVE  UNCHANGED latest
    BY <2>7 DEF AskOther, Mutate, ServerChanged, Submit, AwaitWatcher, JobEnds, Quit,
       clientVars
  <2>8. ASSUME UNCHANGED vars PROVE UNCHANGED latest
    BY <2>8 DEF vars, clientVars
  <2> QED BY <1>1, <2>1, <2>2, <2>3, <2>4, <2>5, <2>6, <2>7, <2>8
         DEF Next, Runs, Serves, Follows, Watches, Works, Threads
<1> QED BY <1>1, Inductive, PTL DEF Spec, LatestForward
=================================================================================
