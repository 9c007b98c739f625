------------------------------- MODULE MuxServer -------------------------------
(***************************************************************************)
(* The native mux server's topology transactions for one workspace scope   *)
(* (crates/bootty-mux/src/native/server.rs).                               *)
(*                                                                         *)
(* Connections send requests; a topology command is prepared on a blocking *)
(* thread, which outlives its connection, reserves the workspace while it  *)
(* launches pane processes, and is then committed or aborted.  One event   *)
(* loop handles pane exits and title changes.  Every action is one         *)
(* critical section of the workspace mutex or one step between two.        *)
(*                                                                         *)
(* The topology is abstracted to what this protocol tells apart: the live  *)
(* pane identities with their working directories, the pane id counter and *)
(* a layout token.  A connection carries one request, as request_direct    *)
(* and execute_persisted_direct (native/backend.rs) use it; Prepare is     *)
(* followed by Commit, Abort, silence or a lost peer.                      *)
(*                                                                         *)
(* An Option whose payload matters is a set of at most one element.        *)
(* Operators named Bug_... are deliberately wrong variants of the          *)
(* definition that follows them; nothing in the specification uses them.   *)
(***************************************************************************)
EXTENDS TopologyCommands, Sequences, FiniteSets, Functions

CONSTANTS
  Clients,       \* connection identities (next_client), each used once
  Generations,   \* Pane::generation values: one per launched process
  Dirs,          \* working directories
  Layouts,       \* layouts SetLayout may install
  Commands,      \* the MuxCommands clients send
  Requests,      \* the kinds of request a fresh connection may send
  Loop,          \* the event loop, as a waiter on topology_ready
  NoClient,      \* Option::None of `reservation`
  WriterMayFail, \* may a connection's writer fail while its request is in flight?
  Started,       \* panes 1..Started are live at first
  MaxTitles      \* bound: title changes

RequestKinds == {"prepare", "execute", "layout", "respawn"}

ASSUME ServerAssumption ==
  /\ Loop \notin Clients /\ NoClient \notin Clients
  /\ Commands # {} /\ \A m \in Commands : m \in CommandType
  /\ Requests \subseteq RequestKinds
  /\ WriterMayFail \in BOOLEAN
  /\ Started \in Nat /\ MaxTitles \in Nat
  /\ \A g \in Generations : g \in Nat
  /\ 1 .. Started \subseteq Generations
  /\ Dirs # {} /\ Layouts # {}

VARIABLES
  \* Workspace, guarded by MuxServer::workspaces
  topology,     \* NativeMuxState
  panes,        \* HashMap<pane id, Pane>, a Pane known by its generation
  prepared,     \* Option<(NativeMuxState, HashMap)>
  reservation,  \* Option<client>
  revision,
  \* pane workers, by generation, and the pane id each one's exit reports
  procs, name,
  \* connections (serve) and their local state
  pc, kind, cmd, owned, peerOpen, unwritten,
  \* blocking jobs (MuxServer::prepare, ::commit on a spawn_blocking thread)
  job, seen, next, todo, staged,
  \* respawn locals: the pane, its directory, its generation once looked up
  target,
  \* the enabled, not yet notified futures of topology_ready
  waiters,
  \* the ServerEvent channel, Workspace::pending_change, the loop's position
  events, pending, loop,
  \* titles set so far, those whose worker has yet to notify, those published
  titles, announcing, shown

workspaceVars == <<topology, panes, prepared, reservation, revision, shown>>
procVars  == <<procs, name>>
connVars  == <<pc, kind, cmd, owned, peerOpen>>
jobVars   == <<job, seen, next, todo, staged>>
eventVars == <<events, pending, loop, titles, announcing>>
vars == <<workspaceVars, procVars, connVars, unwritten, jobVars, target, waiters,
          eventVars>>

--------------------------------------------------------------------------------
(* Topology, as far as this protocol sees it *)

NoPanes == [i \in {} |-> 0]

DefaultDir == CHOOSE d \in Dirs : TRUE

DefaultLayout == CHOOSE l \in Layouts : TRUE

FreshTopology(n) == [cwd |-> [i \in 1 .. n |-> DefaultDir], next |-> n + 1,
                     layout |-> DefaultLayout]

NoTopology == FreshTopology(0)

PaneIds == DOMAIN topology.cwd

\* NativeMuxState::set_layout, ::set_pane_cwd and the removal of one pane.
WithLayout(t, l) == [cwd |-> t.cwd, next |-> t.next, layout |-> l]

WithDir(t, i, dir) ==
  [cwd |-> [j \in DOMAIN t.cwd |-> IF j = i THEN dir ELSE t.cwd[j]],
   next |-> t.next, layout |-> t.layout]

WithoutPane(t, i) ==
  [cwd |-> [j \in DOMAIN t.cwd \ {i} |-> t.cwd[j]],
   next |-> t.next, layout |-> t.layout]

\* prepare_topology: execute, then set_pane_cwd on the panes not yet live.
Executed(t, c, dir) ==
  LET kept == KeptIds(DOMAIN t.cwd, c)
  IN  [cwd |-> [i \in kept \cup NewIds(t.next, c) |->
                  IF i \in kept THEN t.cwd[i] ELSE dir],
       next |-> t.next + c.n,
       layout |-> t.layout]

--------------------------------------------------------------------------------
(* Building blocks *)

\* Connections with a subscriber in Workspace::subscribers.
Subscribed(c) == pc[c] \notin {"new", "cleanup", "gone"}

\* Workspace::publish: a new revision with the titles of the moment, queued for
\* every subscriber.
Publish ==
  /\ revision' = revision + 1
  /\ shown' = titles
  /\ unwritten' = [c \in Clients |-> unwritten[c] \/ Subscribed(c)]

\* Notify::notify_waiters.
NotifyWaiters == waiters' = {}

\* Pane::stop on each of a set of generations; an exited worker stays exited.
Stopped(gens) ==
  [g \in Generations |->
     IF g \in gens /\ procs[g] = "running" THEN "stopped" ELSE procs[g]]

Go(c, label) == pc' = [pc EXCEPT ![c] = label]

\* change_notifier: one TopologyChanged in the channel at a time.
NotifyChanged ==
  /\ pending' = TRUE
  /\ events' = IF pending THEN events ELSE Append(events, [type |-> "changed", id |-> 0, gen |-> 0])

\* A blocking job ended; its connection, if still there, goes to `label`.
JobReturns(c, label) ==
  /\ job' = [job EXCEPT ![c] = "none"]
  /\ seen' = [seen EXCEPT ![c] = 0]
  /\ next' = [next EXCEPT ![c] = NoTopology]
  /\ todo' = [todo EXCEPT ![c] = {}]
  /\ staged' = [staged EXCEPT ![c] = NoPanes]
  /\ pc' = [pc EXCEPT ![c] = IF pc[c] = "blocking" THEN label ELSE pc[c]]

--------------------------------------------------------------------------------
(* Connections *)

\* serve: handshake, subscribe, welcome.
Connect(c) ==
  /\ pc[c] = "new"
  /\ Go(c, "idle")
  /\ UNCHANGED <<workspaceVars, procVars, kind, cmd, owned, peerOpen, unwritten,
                 jobVars, target, waiters, eventVars>>

\* The client goes away: it exits, crashes, or gives up waiting for an answer.
PeerCloses(c) ==
  /\ pc[c] \notin {"new", "gone"}
  /\ peerOpen[c]
  /\ peerOpen' = [peerOpen EXCEPT ![c] = FALSE]
  /\ UNCHANGED <<workspaceVars, procVars, pc, kind, cmd, owned, unwritten, jobVars,
                 target, waiters, eventVars>>

\* next_request for a connection that owns no transaction.
SendRequest(c) ==
  /\ pc[c] = "idle" /\ peerOpen[c] /\ kind[c] = "none"
  /\ \E k \in Requests :
       /\ kind' = [kind EXCEPT ![c] = k]
       /\ \/ /\ k \in {"prepare", "execute"}
             /\ \E m \in Commands : cmd' = [cmd EXCEPT ![c] = m]
             /\ UNCHANGED target
          \/ /\ k = "respawn"
             /\ \E i \in 1 .. topology.next, d \in Dirs :
                  target' = [target EXCEPT ![c] = [id |-> i, dir |-> d, gen |-> {}]]
             /\ UNCHANGED cmd
          \/ /\ k = "layout"
             /\ UNCHANGED <<cmd, target>>
  /\ Go(c, "enable")
  /\ UNCHANGED <<workspaceVars, procVars, owned, peerOpen, unwritten, jobVars,
                 waiters, eventVars>>

\* Request::Commit of a prepared command.
SendCommit(c) ==
  /\ pc[c] = "idle" /\ peerOpen[c] /\ owned[c]
  /\ owned' = [owned EXCEPT ![c] = FALSE]
  /\ job' = [job EXCEPT ![c] = "commit"]
  /\ Go(c, "blocking")
  /\ UNCHANGED <<workspaceVars, procVars, kind, cmd, peerOpen, unwritten, seen,
                 next, todo, staged, target, waiters, eventVars>>

Bug_Abort(c) ==
  IF reservation = c
  THEN /\ prepared' = {}
       /\ reservation' = NoClient
       /\ NotifyWaiters
       /\ UNCHANGED <<topology, panes, revision, shown, procVars>>
  ELSE UNCHANGED <<workspaceVars, procVars, waiters>>

\* MuxServer::abort: stop the prepared panes, release, wake.
Abort(c) ==
  IF reservation = c
  THEN /\ procs' = Stopped(UNION {Range(tx.added) : tx \in prepared})
       /\ prepared' = {}
       /\ reservation' = NoClient
       /\ NotifyWaiters
       /\ UNCHANGED <<topology, panes, revision, shown, name>>
  ELSE UNCHANGED <<workspaceVars, procVars, waiters>>

\* Request::Abort.
SendAbort(c) ==
  /\ pc[c] = "idle" /\ peerOpen[c] /\ owned[c]
  /\ owned' = [owned EXCEPT ![c] = FALSE]
  /\ Abort(c)
  /\ UNCHANGED <<pc, kind, cmd, peerOpen, unwritten, jobVars, target, eventVars>>

Bug_ReaderEnds(c) ==
  /\ pc[c] = "idle"
  /\ ~peerOpen[c] \/ (kind[c] # "none" /\ ~owned[c])
  /\ Go(c, "cleanup")
  /\ UNCHANGED <<workspaceVars, procVars, kind, cmd, owned, peerOpen, unwritten,
                 jobVars, target, waiters, eventVars>>

\* The reader sees the end of the stream, Detach, or, while a transaction is
\* prepared, the five second deadline of next_request.
ReaderEnds(c) ==
  /\ pc[c] = "idle"
  /\ ~peerOpen[c] \/ owned[c] \/ kind[c] # "none"
  /\ Go(c, "cleanup")
  /\ UNCHANGED <<workspaceVars, procVars, kind, cmd, owned, peerOpen, unwritten,
                 jobVars, target, waiters, eventVars>>

\* connection_writer writes the queued topology event.
WriterWrites(c) ==
  /\ unwritten[c] /\ peerOpen[c] /\ Subscribed(c)
  /\ unwritten' = [unwritten EXCEPT ![c] = FALSE]
  /\ UNCHANGED <<workspaceVars, procVars, connVars, jobVars, target, waiters,
                 eventVars>>

\* connection_writer fails on a queued event, because the peer has gone or read
\* too slowly: try_join drops the request in flight and its wait, but not the
\* blocking job it was waiting for.
WriterFails(c) ==
  /\ WriterMayFail
  /\ unwritten[c] /\ Subscribed(c)
  /\ Go(c, "cleanup")
  /\ waiters' = waiters \ {c}
  /\ UNCHANGED <<workspaceVars, procVars, kind, cmd, owned, peerOpen, unwritten,
                 jobVars, target, eventVars>>

\* The tail of serve: close the subscriber, abort.
Cleanup(c) ==
  /\ pc[c] = "cleanup"
  /\ unwritten' = [unwritten EXCEPT ![c] = FALSE]
  /\ Abort(c)
  /\ Go(c, "gone")
  /\ UNCHANGED <<kind, cmd, owned, peerOpen, jobVars, target, eventVars>>

--------------------------------------------------------------------------------
(* The wait-for-reservation loop shared by prepare_when_ready, SetLayout and
   respawn: enable the notification, then look at the reservation. *)

EnableNotified(c) ==
  /\ pc[c] = "enable"
  /\ waiters' = waiters \cup {c}
  /\ Go(c, "check")
  /\ UNCHANGED <<workspaceVars, procVars, kind, cmd, owned, peerOpen, unwritten,
                 jobVars, target, eventVars>>

\* Look at the reservation under the lock, and release the lock.
CheckReserved(c) ==
  /\ pc[c] = "check"
  /\ reservation # NoClient
  /\ Go(c, "reserved")
  /\ UNCHANGED <<workspaceVars, procVars, kind, cmd, owned, peerOpen, unwritten,
                 jobVars, target, waiters, eventVars>>

Bug_Await(c) ==
  /\ pc[c] = "reserved"
  /\ waiters' = waiters \cup {c}
  /\ Go(c, "wait")
  /\ UNCHANGED <<workspaceVars, procVars, kind, cmd, owned, peerOpen, unwritten,
                 jobVars, target, eventVars>>

\* `ready.await`: what notified the future since it was enabled still counts.
Await(c) ==
  /\ pc[c] = "reserved"
  /\ Go(c, "wait")
  /\ UNCHANGED <<workspaceVars, procVars, kind, cmd, owned, peerOpen, unwritten,
                 jobVars, target, waiters, eventVars>>

Notified(c) ==
  /\ pc[c] = "wait"
  /\ c \notin waiters
  /\ Go(c, "enable")
  /\ UNCHANGED <<workspaceVars, procVars, kind, cmd, owned, peerOpen, unwritten,
                 jobVars, target, waiters, eventVars>>

\* prepare_when_ready hands the command to a blocking thread.
SpawnPrepare(c) ==
  /\ pc[c] = "check" /\ kind[c] \in {"prepare", "execute"}
  /\ reservation = NoClient
  /\ job' = [job EXCEPT ![c] = "source"]
  /\ waiters' = waiters \ {c}
  /\ Go(c, "blocking")
  /\ UNCHANGED <<workspaceVars, procVars, kind, cmd, owned, peerOpen, unwritten,
                 seen, next, todo, staged, target, eventVars>>

\* Request::SetLayout; set_layout may refuse the layout.
SetLayout(c) ==
  /\ pc[c] = "check" /\ kind[c] = "layout"
  /\ reservation = NoClient
  /\ \/ /\ \E l \in Layouts : topology' = WithLayout(topology, l)
        /\ Publish
     \/ UNCHANGED <<topology, revision, shown, unwritten>>
  /\ waiters' = waiters \ {c}
  /\ Go(c, "idle")
  /\ UNCHANGED <<panes, prepared, reservation, procVars, kind, cmd, owned, peerOpen,
                 jobVars, target, eventVars>>

--------------------------------------------------------------------------------
(* MuxServer::prepare, on its blocking thread *)

\* source_directory: find the source pane and note the revision.
ReadSource(c) ==
  /\ job[c] = "source"
  /\ IF cmd[c].op = "split" /\ ~(cmd[c].ids \subseteq PaneIds \cap DOMAIN panes)
     THEN JobReturns(c, "idle")
     ELSE /\ seen' = [seen EXCEPT ![c] = revision]
          /\ job' = [job EXCEPT ![c] = IF cmd[c].op = "split" THEN "cwd" ELSE "reserve"]
          /\ UNCHANGED <<pc, next, todo, staged>>
  /\ UNCHANGED <<workspaceVars, procVars, kind, cmd, owned, peerOpen, unwritten,
                 target, waiters, eventVars>>

\* source_directory waits for the source pane's worker, which answers or has gone.
SourceAnswers(c) ==
  /\ job[c] = "cwd"
  /\ \/ /\ job' = [job EXCEPT ![c] = "reserve"]
        /\ UNCHANGED <<pc, seen, next, todo, staged>>
     \/ JobReturns(c, "idle")
  /\ UNCHANGED <<workspaceVars, procVars, kind, cmd, owned, peerOpen, unwritten,
                 target, waiters, eventVars>>

\* Nobody reserved or published since source_directory.
StillCurrent(c) == reservation = NoClient /\ revision = seen[c]

\* Somebody did: prepare returns false and prepare_when_ready goes round again.
PrepareStale(c) ==
  /\ job[c] = "reserve"
  /\ ~StillCurrent(c)
  /\ JobReturns(c, "enable")
  /\ UNCHANGED <<workspaceVars, procVars, kind, cmd, owned, peerOpen, unwritten,
                 target, waiters, eventVars>>

PrepareRejected(c) ==
  /\ job[c] = "reserve"
  /\ StillCurrent(c)
  /\ Rejects(PaneIds, cmd[c])
  /\ JobReturns(c, "idle")
  /\ UNCHANGED <<workspaceVars, procVars, kind, cmd, owned, peerOpen, unwritten,
                 target, waiters, eventVars>>

\* Compute the next topology and reserve the workspace.
Reserve(c) ==
  /\ job[c] = "reserve"
  /\ StillCurrent(c)
  /\ ~Rejects(PaneIds, cmd[c])
  /\ \E dir \in Dirs :
       LET t == Executed(topology, cmd[c], dir)
       IN  /\ next' = [next EXCEPT ![c] = t]
           /\ todo' = [todo EXCEPT ![c] = DOMAIN t.cwd \ DOMAIN panes]
  /\ reservation' = c
  /\ job' = [job EXCEPT ![c] = "launch"]
  /\ UNCHANGED <<topology, panes, prepared, revision, shown, procVars, connVars, unwritten,
                 seen, staged, target, waiters, eventVars>>

\* Pane::spawn of one pane that is not live yet, under the next generation.
Launch(c) ==
  /\ job[c] = "launch"
  /\ \E i \in todo[c], g \in Generations :
       /\ procs[g] = "unused"
       /\ \A h \in Generations : h < g => procs[h] # "unused"
       /\ procs' = [procs EXCEPT ![g] = "running"]
       /\ name' = [name EXCEPT ![g] = i]
       /\ staged' = [staged EXCEPT ![c] = [j \in DOMAIN staged[c] \cup {i} |->
                                             IF j = i THEN g ELSE staged[c][j]]]
       /\ todo' = [todo EXCEPT ![c] = todo[c] \ {i}]
  /\ UNCHANGED <<workspaceVars, connVars, unwritten, job, seen, next, target,
                 waiters, eventVars>>

\* StagedPanes::drop: stop what was launched, give the reservation back.
DropStaged(c) ==
  /\ procs' = Stopped(Range(staged[c]))
  /\ IF reservation = c
     THEN reservation' = NoClient /\ NotifyWaiters
     ELSE UNCHANGED <<reservation, waiters>>

\* A launch fails: the error unwinds through StagedPanes.
LaunchFails(c) ==
  /\ job[c] = "launch" /\ todo[c] # {}
  /\ DropStaged(c)
  /\ JobReturns(c, "idle")
  /\ UNCHANGED <<topology, panes, prepared, revision, shown, name, kind, cmd, owned,
                 peerOpen, unwritten, target, eventVars>>

\* install_prepared, when the reservation is still ours.  Prepare answers
\* and leaves the transaction to the client.
Install(c) ==
  /\ job[c] = "launch" /\ todo[c] = {}
  /\ reservation = c
  /\ prepared' = {[next |-> next[c], added |-> staged[c]]}
  /\ JobReturns(c, IF kind[c] = "execute" THEN "installed" ELSE "idle")
  /\ owned' = [owned EXCEPT ![c] = pc[c] = "blocking" /\ kind[c] = "prepare"]
  /\ UNCHANGED <<topology, panes, reservation, revision, shown, procVars, kind, cmd,
                 peerOpen, unwritten, target, waiters, eventVars>>

\* Execute goes on to commit on another blocking thread.
SpawnCommit(c) ==
  /\ pc[c] = "installed"
  /\ job' = [job EXCEPT ![c] = "commit"]
  /\ Go(c, "blocking")
  /\ UNCHANGED <<workspaceVars, procVars, kind, cmd, owned, peerOpen, unwritten,
                 seen, next, todo, staged, target, waiters, eventVars>>

\* install_prepared after the connection's own cleanup took the reservation away.
InstallRefused(c) ==
  /\ job[c] = "launch" /\ todo[c] = {}
  /\ reservation # c
  /\ DropStaged(c)
  /\ JobReturns(c, "idle")
  /\ UNCHANGED <<topology, panes, prepared, revision, shown, name, kind, cmd, owned,
                 peerOpen, unwritten, target, eventVars>>

Bug_Commit(c) ==
  /\ job[c] = "commit"
  /\ reservation = c
  /\ \E tx \in prepared :
       /\ procs' = Stopped({panes[i] : i \in DOMAIN panes \ DOMAIN tx.next.cwd})
       /\ panes' = [i \in DOMAIN panes \cup DOMAIN tx.added |->
                      IF i \in DOMAIN tx.added THEN tx.added[i] ELSE panes[i]]
       /\ topology' = tx.next
  /\ prepared' = {}
  /\ reservation' = NoClient
  /\ NotifyWaiters
  /\ Publish
  /\ JobReturns(c, "idle")
  /\ UNCHANGED <<name, kind, cmd, owned, peerOpen, target, eventVars>>

\* MuxServer::commit: stop the panes the new topology lacks, install it.
Commit(c) ==
  /\ job[c] = "commit"
  /\ reservation = c
  /\ \E tx \in prepared :
       /\ procs' = Stopped({panes[i] : i \in DOMAIN panes \ DOMAIN tx.next.cwd})
       /\ panes' = [i \in (DOMAIN panes \cap DOMAIN tx.next.cwd) \cup DOMAIN tx.added |->
                      IF i \in DOMAIN tx.added THEN tx.added[i] ELSE panes[i]]
       /\ topology' = tx.next
  /\ prepared' = {}
  /\ reservation' = NoClient
  /\ NotifyWaiters
  /\ Publish
  /\ JobReturns(c, "idle")
  /\ UNCHANGED <<name, kind, cmd, owned, peerOpen, target, eventVars>>

CommitRefused(c) ==
  /\ job[c] = "commit"
  /\ reservation # c \/ prepared = {}
  /\ JobReturns(c, "idle")
  /\ UNCHANGED <<workspaceVars, procVars, kind, cmd, owned, peerOpen, unwritten,
                 target, waiters, eventVars>>

--------------------------------------------------------------------------------
(* MuxServer::respawn *)

\* Look the pane up under the lock, once no reservation is held.
RespawnStart(c) ==
  /\ pc[c] = "check" /\ kind[c] = "respawn"
  /\ reservation = NoClient
  /\ IF target[c].id \in PaneIds \cap DOMAIN panes
     THEN /\ target' = [target EXCEPT ![c] = [id |-> target[c].id, dir |-> target[c].dir,
                                               gen |-> {panes[target[c].id]}]]
          /\ Go(c, "respawning")
     ELSE Go(c, "idle") /\ UNCHANGED target
  /\ waiters' = waiters \ {c}
  /\ UNCHANGED <<workspaceVars, procVars, kind, cmd, owned, peerOpen, unwritten,
                 jobVars, eventVars>>

\* The pane's worker replaces its process and reports a title change, or refuses.
RespawnCall(c) ==
  /\ pc[c] = "respawning"
  /\ \/ /\ \E g \in target[c].gen : procs[g] = "running"
        /\ titles' = titles + 1
        /\ NotifyChanged
        /\ Go(c, "respawned")
     \/ /\ Go(c, "idle")
        /\ UNCHANGED <<events, pending, titles>>
  /\ UNCHANGED <<workspaceVars, procVars, kind, cmd, owned, peerOpen, unwritten,
                 jobVars, target, waiters, loop, announcing>>

\* Record the new directory and publish: the reservation is not looked at.
RespawnFinish(c) ==
  /\ pc[c] = "respawned"
  /\ LET i == target[c].id
     IN  IF i \in DOMAIN panes /\ panes[i] \in target[c].gen
         THEN /\ topology' = WithDir(topology, i, target[c].dir)
              /\ Publish
         ELSE UNCHANGED <<topology, revision, shown, unwritten>>
  /\ Go(c, "idle")
  /\ UNCHANGED <<panes, prepared, reservation, procVars, kind, cmd, owned, peerOpen,
                 jobVars, target, waiters, eventVars>>

--------------------------------------------------------------------------------
(* Pane workers and the event loop *)

\* A pane's process ends by itself; its worker reports the identity it was
\* launched for and its generation.
PaneExits(g) ==
  /\ procs[g] = "running"
  /\ procs' = [procs EXCEPT ![g] = "exited"]
  /\ events' = Append(events, [type |-> "exited", id |-> name[g], gen |-> g])
  /\ UNCHANGED <<workspaceVars, name, connVars, unwritten, jobVars, target, waiters,
                 pending, loop, titles, announcing>>

\* A worker stores its new title ...
SetTitle ==
  /\ titles < MaxTitles
  /\ \E g \in Generations : procs[g] = "running"
  /\ titles' = titles + 1
  /\ announcing' = announcing + 1
  /\ UNCHANGED <<workspaceVars, procVars, connVars, unwritten, jobVars, target,
                 waiters, events, pending, loop>>

\* ... and calls the change notifier.
AnnounceTitle ==
  /\ announcing > 0
  /\ announcing' = announcing - 1
  /\ NotifyChanged
  /\ UNCHANGED <<workspaceVars, procVars, connVars, unwritten, jobVars, target,
                 waiters, loop, titles>>

Bug_HandleChanged ==
  /\ loop = "recv" /\ events # << >> /\ Head(events).type = "changed"
  /\ events' = Tail(events)
  /\ loop' = "publish"
  /\ UNCHANGED <<workspaceVars, procVars, connVars, unwritten, jobVars, target,
                 waiters, pending, titles, announcing>>

\* handle_event(TopologyChanged): clear the flag ...
HandleChanged ==
  /\ loop = "recv" /\ events # << >> /\ Head(events).type = "changed"
  /\ pending' = FALSE
  /\ events' = Tail(events)
  /\ loop' = "publish"
  /\ UNCHANGED <<workspaceVars, procVars, connVars, unwritten, jobVars, target,
                 waiters, titles, announcing>>

\* ... then publish, reserved or not.
PublishChanged ==
  /\ loop = "publish"
  /\ loop' = "recv"
  /\ Publish
  /\ UNCHANGED <<topology, panes, prepared, reservation, procVars, connVars, jobVars,
                 target, waiters, events, pending, titles, announcing>>

\* handle_event(PaneExited): pane_exited's wait loop.
LoopEnable ==
  /\ \/ loop = "recv" /\ events # << >> /\ Head(events).type = "exited"
     \/ loop = "wait" /\ Loop \notin waiters
  /\ waiters' = waiters \cup {Loop}
  /\ loop' = "check"
  /\ UNCHANGED <<workspaceVars, procVars, connVars, unwritten, jobVars, target,
                 events, pending, titles, announcing>>

Bug_LoopWaits ==
  /\ loop = "check" /\ reservation # NoClient
  /\ loop' = "recv"
  /\ events' = Tail(events)
  /\ waiters' = waiters \ {Loop}
  /\ UNCHANGED <<workspaceVars, procVars, connVars, unwritten, jobVars, target,
                 pending, titles, announcing>>

LoopWaits ==
  /\ loop = "check" /\ reservation # NoClient
  /\ loop' = "wait"
  /\ UNCHANGED <<workspaceVars, procVars, connVars, unwritten, jobVars, target,
                 waiters, events, pending, titles, announcing>>

Bug_CloseExited ==
  /\ loop = "check" /\ reservation = NoClient
  /\ LET e == Head(events)
     IN  IF e.id \in DOMAIN panes /\ e.id \in PaneIds
         THEN /\ topology' = WithoutPane(topology, e.id)
              /\ panes' = [j \in DOMAIN panes \ {e.id} |-> panes[j]]
              /\ Publish
         ELSE UNCHANGED <<topology, panes, revision, shown, unwritten>>
  /\ events' = Tail(events)
  /\ loop' = "recv"
  /\ waiters' = waiters \ {Loop}
  /\ UNCHANGED <<prepared, reservation, procVars, connVars, jobVars, target,
                 pending, titles, announcing>>

Bug_CloseReserved ==
  /\ loop = "check"
  /\ LET e == Head(events)
     IN  IF e.id \in DOMAIN panes /\ panes[e.id] = e.gen /\ e.id \in PaneIds
         THEN /\ topology' = WithoutPane(topology, e.id)
              /\ panes' = [j \in DOMAIN panes \ {e.id} |-> panes[j]]
              /\ Publish
         ELSE UNCHANGED <<topology, panes, revision, shown, unwritten>>
  /\ events' = Tail(events)
  /\ loop' = "recv"
  /\ waiters' = waiters \ {Loop}
  /\ UNCHANGED <<prepared, reservation, procVars, connVars, jobVars, target,
                 pending, titles, announcing>>

\* pane_exited: close the pane unless another generation has its identity.
CloseExited ==
  /\ loop = "check" /\ reservation = NoClient
  /\ LET e == Head(events)
     IN  IF e.id \in DOMAIN panes /\ panes[e.id] = e.gen /\ e.id \in PaneIds
         THEN /\ topology' = WithoutPane(topology, e.id)
              /\ panes' = [j \in DOMAIN panes \ {e.id} |-> panes[j]]
              /\ Publish
         ELSE UNCHANGED <<topology, panes, revision, shown, unwritten>>
  /\ events' = Tail(events)
  /\ loop' = "recv"
  /\ waiters' = waiters \ {Loop}
  /\ UNCHANGED <<prepared, reservation, procVars, connVars, jobVars, target,
                 pending, titles, announcing>>

--------------------------------------------------------------------------------
Init ==
  /\ topology = FreshTopology(Started)
  /\ panes = [i \in 1 .. Started |-> i]
  /\ prepared = {}
  /\ reservation = NoClient
  /\ revision = 0
  /\ procs = [g \in Generations |-> IF g \in 1 .. Started THEN "running" ELSE "unused"]
  /\ name = [g \in Generations |-> IF g \in 1 .. Started THEN g ELSE 0]
  /\ pc = [c \in Clients |-> "new"]
  /\ kind = [c \in Clients |-> "none"]
  /\ cmd = [c \in Clients |-> CHOOSE m \in Commands : TRUE]
  /\ owned = [c \in Clients |-> FALSE]
  /\ peerOpen = [c \in Clients |-> TRUE]
  /\ unwritten = [c \in Clients |-> FALSE]
  /\ job = [c \in Clients |-> "none"]
  /\ seen = [c \in Clients |-> 0]
  /\ next = [c \in Clients |-> NoTopology]
  /\ todo = [c \in Clients |-> {}]
  /\ staged = [c \in Clients |-> NoPanes]
  /\ target = [c \in Clients |-> [id |-> 0, dir |-> DefaultDir, gen |-> {}]]
  /\ waiters = {}
  /\ events = << >>
  /\ pending = FALSE
  /\ loop = "recv"
  /\ titles = 0 /\ announcing = 0 /\ shown = 0

\* What the connection's task does of itself, once it has a request.
Serve(c) ==
  \/ EnableNotified(c) \/ CheckReserved(c) \/ Await(c) \/ Notified(c)
  \/ SpawnPrepare(c) \/ SpawnCommit(c) \/ SetLayout(c)
  \/ RespawnStart(c) \/ RespawnCall(c) \/ RespawnFinish(c)
  \/ ReaderEnds(c) \/ Cleanup(c)

\* What the client at the other end does.
Peer(c) ==
  \/ Connect(c) \/ PeerCloses(c) \/ SendRequest(c) \/ SendCommit(c) \/ SendAbort(c)

Writer(c) == WriterWrites(c) \/ WriterFails(c)

\* What the blocking thread does.
Job(c) ==
  \/ ReadSource(c) \/ SourceAnswers(c) \/ PrepareStale(c) \/ PrepareRejected(c)
  \/ Reserve(c) \/ Launch(c) \/ LaunchFails(c) \/ Install(c) \/ InstallRefused(c)
  \/ Commit(c) \/ CommitRefused(c)

EventLoop == HandleChanged \/ PublishChanged \/ LoopEnable \/ LoopWaits \/ CloseExited

Next ==
  \/ \E c \in Clients : Serve(c) \/ Peer(c) \/ Writer(c) \/ Job(c)
  \/ \E g \in Generations : PaneExits(g)
  \/ SetTitle \/ AnnounceTitle
  \/ EventLoop

Spec == Init /\ [][Next]_vars

\* The runtime polls every ready task and runs every blocking job; a request is
\* read or its deadline passes.  Clients and pane processes owe nothing.
Fairness ==
  /\ \A c \in Clients : WF_vars(Serve(c)) /\ WF_vars(Writer(c)) /\ WF_vars(Job(c))
  /\ WF_vars(AnnounceTitle) /\ WF_vars(EventLoop)

FairSpec == Spec /\ Fairness

--------------------------------------------------------------------------------
(* Properties *)

Store == INSTANCE TopologyStore
           WITH ids <- PaneIds, minted <- topology.next, layout <- topology.layout

\* The transactions are atomic and isolated: however prepare, launch, commit,
\* abort, respawn and pane exits interleave, the pane set and the layout change
\* as if each committed command ran alone on the topology it replaces.
ImplementsStore == Store!Spec

IsPaneMap(f) == DOMAIN f \subseteq Nat /\ \A i \in DOMAIN f : f[i] \in Generations

IsTopology(t) ==
  /\ t.next \in Nat /\ 0 < t.next /\ t.layout \in Layouts
  /\ \A i \in DOMAIN t.cwd : i \in Nat /\ 0 < i /\ i < t.next /\ t.cwd[i] \in Dirs

IsTarget(t) == t.id \in Nat /\ t.dir \in Dirs /\ t.gen \subseteq Generations

Event == [type : {"changed", "exited"}, id : Nat, gen : Generations \cup {0}]

WorkspaceOK ==
  /\ IsTopology(topology)
  /\ IsPaneMap(panes)
  /\ \A tx \in prepared : IsTopology(tx.next) /\ IsPaneMap(tx.added)
  /\ \A tx, ty \in prepared : tx = ty
  /\ reservation \in Clients \cup {NoClient}
  /\ revision \in Nat
  /\ procs \in [Generations -> {"unused", "running", "exited", "stopped"}]
  /\ name \in [Generations -> Nat]

ConnectionsOK ==
  /\ pc \in [Clients -> {"new", "idle", "enable", "check", "reserved", "wait", "blocking",
                         "installed", "respawning", "respawned", "cleanup", "gone"}]
  /\ kind \in [Clients -> RequestKinds \cup {"none"}]
  /\ cmd \in [Clients -> Commands]
  /\ owned \in [Clients -> BOOLEAN]
  /\ peerOpen \in [Clients -> BOOLEAN]
  /\ unwritten \in [Clients -> BOOLEAN]
  /\ DOMAIN target = Clients /\ \A c \in Clients : IsTarget(target[c])

JobsOK ==
  /\ job \in [Clients -> {"none", "source", "cwd", "reserve", "launch", "commit"}]
  /\ seen \in [Clients -> Nat]
  /\ DOMAIN next = Clients /\ \A c \in Clients : IsTopology(next[c])
  /\ todo \in [Clients -> SUBSET Nat]
  /\ DOMAIN staged = Clients /\ \A c \in Clients : IsPaneMap(staged[c])

EventsOK ==
  /\ waiters \subseteq Clients \cup {Loop}
  /\ events \in Seq(Event)
  /\ pending \in BOOLEAN
  /\ loop \in {"recv", "publish", "check", "wait"}
  /\ loop \in {"check", "wait"} => events # << >>
  /\ titles \in Nat /\ announcing \in Nat /\ shown \in Nat

\* Types of the workspace, the connections, the jobs and the event channel
\* (struct Workspace, serve's locals, prepare's locals, ServerEvent), with pane
\* identities always below the counter that mints them (next_pane).
TypeOK == WorkspaceOK /\ ConnectionsOK /\ JobsOK /\ EventsOK

\* Between critical sections the pane workers of a workspace are exactly the
\* panes of its topology (Workspace::topology and ::panes change together in
\* commit and pane_exited, whatever was prepared, aborted or respawned).
PanesMatchTopology == DOMAIN panes = PaneIds

\* The three places that own a launched pane.
InPanes(g) == \E i \in DOMAIN panes : panes[i] = g

InPrepared(g) == \E tx \in prepared : \E i \in DOMAIN tx.added : tx.added[i] = g

InStaged(g) == \E c \in Clients : \E i \in DOMAIN staged[c] : staged[c][i] = g

\* Every running pane process is reachable from the workspace, from the prepared
\* transaction or from a launch in progress: abort, commit and StagedPanes::drop
\* never lose one (a Pane dropped without stop() would run forever).
NoLeakedProcess ==
  \A g \in Generations : procs[g] = "running" => InPanes(g) \/ InPrepared(g) \/ InStaged(g)

\* A pane leaves the workspace only when its own process has ended or is being
\* stopped: a late exit event of an aborted launch never closes the pane that
\* was later given the same identity (the generation test of pane_exited).
RemovedPanesStopped ==
  [][\A i \in DOMAIN panes :
       (i \notin DOMAIN panes' \/ panes'[i] # panes[i]) => procs'[panes[i]] # "running"]_vars

\* While a client holds the reservation nobody adds, removes or replaces a pane,
\* mints an identity or changes a layout ("The reservation excludes topology
\* mutations", install_prepared).
ReservationFreezesPanes ==
  [][reservation # NoClient /\ reservation' = reservation =>
       /\ panes' = panes
       /\ PaneIds' = PaneIds
       /\ topology'.next = topology.next
       /\ topology'.layout = topology.layout]_vars

\* Every change of the topology is published under a new revision, so that a
\* client that compares revisions never keeps a stale snapshot as current.
EveryChangePublished ==
  [][topology' # topology => revision' > revision]_vars

\* A reservation is given back: by commit, by abort, by a failed launch or by
\* the five second deadline on a silent client.
ReservationReleased ==
  \A c \in Clients : reservation = c ~> reservation # c

\* A request that waits for the reservation is woken when it is released: the
\* notification is enabled before the reservation is looked at.  A pane whose
\* process ended by itself leaves the workspace, even when its exit is reported
\* while a transaction is staged or before it is committed.
WaitsEnd ==
  /\ \A c \in Clients : pc[c] = "wait" ~> pc[c] # "wait"
  /\ \A g \in Generations : procs[g] = "exited" ~> g \notin Range(panes)

\* A title that a worker stores is part of a later snapshot, whether its
\* notification finds the pending flag clear, set, or being cleared.
TitlesPublished ==
  \A n \in 1 .. MaxTitles : titles >= n ~> shown >= n

--------------------------------------------------------------------------------
(* The inductive invariant behind the proofs *)

\* t is the current topology with one command applied, and `added` the panes of
\* t that are not live yet.
Pending(t, added) ==
  /\ \E m \in Commands :
       /\ ~Rejects(PaneIds, m)
       /\ DOMAIN t.cwd = KeptIds(PaneIds, m) \cup NewIds(topology.next, m)
       /\ t.next = topology.next + m.n
  /\ t.layout = topology.layout
  /\ added = DOMAIN t.cwd \ DOMAIN panes

\* The owner's launch in progress is a pending step on the current topology ...
LaunchPending ==
  \A c \in Clients : job[c] = "launch" /\ reservation = c =>
    prepared = {} /\ Pending(next[c], todo[c] \cup DOMAIN staged[c])

\* ... and so is the prepared transaction.
PreparedPending ==
  \A tx \in prepared : reservation # NoClient /\ Pending(tx.next, DOMAIN tx.added)

Protocol == PanesMatchTopology /\ LaunchPending /\ PreparedPending

\* A job runs for a connection that waits for it or is going, only a launch has
\* staged panes, and it launches no pane twice.
JobsBehaved ==
  \A c \in Clients :
    /\ job[c] # "none" => pc[c] \in {"blocking", "cleanup", "gone"}
    /\ job[c] # "launch" => DOMAIN staged[c] = {}
    /\ todo[c] \cap DOMAIN staged[c] = {}

IInv == TypeOK /\ JobsBehaved /\ Protocol

\* An exit event names an ended process, and the loop is busy with an exit.
ExitsHaveEnded ==
  /\ \A k \in 1 .. Len(events) :
       events[k].type = "exited" =>
         events[k].gen \in Generations /\ procs[events[k].gen] = "exited"
  /\ loop \in {"check", "wait"} => events[1].type = "exited"
================================================================================
