------------------------------- MODULE MuxDaemon -------------------------------
(***************************************************************************)
(* The mux server as a process that comes and goes, and a client that      *)
(* follows it.  A server takes a lease, binds the endpoint, serves, and    *)
(* leaves when it is idle (bootty-mux/src/native/local.rs, run of          *)
(* server.rs); it may also be killed.  A client (backend.rs) has two       *)
(* threads that connect or start a server: the watcher, which keeps the    *)
(* latest snapshot, and the worker of its jobs.  They share the generation *)
(* of the server last met, and that snapshot.                              *)
(*                                                                         *)
(* A server's generation is its number here.  Its topology is whether it   *)
(* has a session, and its revision.  One workspace; the prepare and commit *)
(* of a mutation are MuxServer's matter, and one request here; a deadline  *)
(* of 5 seconds is one event of time.                                      *)
(***************************************************************************)
EXTENDS Naturals, FiniteSets, Sequences

CONSTANTS
  MaxServers,   \* bound: servers that serve, one after the other
  MaxRevision,  \* bound: changes of a server's topology
  MaxJobs,      \* bound: jobs of the client
  MaxQueue      \* changes a subscriber's queue holds

ASSUME DaemonAssumption == {MaxServers, MaxRevision, MaxJobs, MaxQueue} \subseteq Nat

VARIABLES
  server,     \* each server: none, starting, locked, serving, leaving, unlinked, gone
  lease,      \* who holds the lock of the endpoint, 0 for nobody
  endpoint,   \* whose listener the endpoint's file names, 0 for no file
  session, revision,  \* each server's topology
  check,      \* the server is to look whether it is idle
  awaiting,   \* awaiting_first_client
  step,       \* what each thread of the client does next
  peer,       \* the server at the other end of its stream
  conn,       \* that stream in the server
  pushed,     \* changes in its subscriber's queue
  answer,     \* the answer to its request, and
  got,        \* the snapshot it has received: a server and a revision, or none
  generation, connected, latest, ready,  \* of Client
  jobs, expected,  \* jobs submitted, and the generation the last was submitted for
  strayed,    \* history: a mutation reached another server than it was meant for
  raced       \* history: a thread of the client acted on what another had replaced

procVars == <<server, lease, endpoint, awaiting>>
topoVars == <<session, revision>>
connVars == <<peer, conn, pushed, answer>>
clientVars == <<generation, connected, latest, ready>>
jobVars == <<jobs, expected, strayed>>
vars == <<procVars, topoVars, check, step, connVars, got, clientVars, jobVars, raced>>

Servers == 1 .. MaxServers
Threads == {"watcher", "job"}
None == [of |-> 0, revision |-> 0]
Failed == [of |-> 0, revision |-> 1]
Snapshot(d) == [of |-> d, revision |-> revision[d]]

Listening(d) == d # 0 /\ server[d] \in {"serving", "leaving", "unlinked"}
Clients(d) == {t \in Threads : peer[t] = d /\ conn[t] \in {"served", "closing"}}

----------------------------------------------------------------------------
(* A server's life. *)

Become(d, from, to) == /\ server[d] = from
                       /\ server' = [server EXCEPT ![d] = to]

\* bind: the lease is taken or the server goes, having served nobody.
Lock(d) ==
  /\ \/ lease = 0 /\ Become(d, "starting", "locked") /\ lease' = d
     \/ lease # 0 /\ Become(d, "starting", "none") /\ UNCHANGED lease
  /\ UNCHANGED <<endpoint, awaiting, topoVars, check, step, connVars, got, clientVars,
                 jobVars, raced>>

\* A file left by another server is replaced.
Bind(d) ==
  /\ Become(d, "locked", "serving")
  /\ endpoint' = d
  /\ UNCHANGED <<lease, awaiting, topoVars, check, step, connVars, got, clientVars,
                 jobVars, raced>>

Accept(t) ==
  /\ conn[t] = "backlog" /\ server[peer[t]] = "serving"
  /\ conn' = [conn EXCEPT ![t] = "accepted"]
  /\ awaiting' = [awaiting EXCEPT ![peer[t]] = FALSE]
  /\ UNCHANGED <<server, lease, endpoint, topoVars, check, step, peer, pushed, answer, got,
                 clientVars, jobVars, raced>>

\* serve counts its client when its task runs, and subscribes it.
Serve(t) ==
  /\ conn[t] = "accepted"
  /\ conn' = [conn EXCEPT ![t] = "served"]
  /\ UNCHANGED <<procVars, topoVars, check, step, peer, pushed, answer, got, clientVars,
                 jobVars, raced>>

Bug_ServeEnds(t) ==
  /\ conn[t] \in {"closing", "left"}
  /\ conn' = [conn EXCEPT ![t] = IF @ = "closing" THEN "left" ELSE "none"]
  /\ UNCHANGED <<procVars, topoVars, check, step, peer, pushed, answer, got, clientVars,
                 jobVars, raced>>

\* The stream ends: first the count, then the wake of the main loop.
ServeEnds(t) ==
  \/ /\ conn[t] = "closing"
     /\ conn' = [conn EXCEPT ![t] = "left"]
     /\ UNCHANGED <<procVars, topoVars, check, step, peer, pushed, answer, got, clientVars,
                    jobVars, raced>>
  \/ /\ conn[t] = "left"
     /\ conn' = [conn EXCEPT ![t] = "none"]
     /\ check' = [check EXCEPT ![peer[t]] = TRUE]
     /\ UNCHANGED <<procVars, topoVars, step, peer, pushed, answer, got, clientVars,
                    jobVars, raced>>

\* No client came in the first five seconds.
InitialIdle(d) ==
  /\ server[d] = "serving" /\ awaiting[d]
  /\ awaiting' = [awaiting EXCEPT ![d] = FALSE]
  /\ check' = [check EXCEPT ![d] = TRUE]
  /\ UNCHANGED <<server, lease, endpoint, topoVars, step, connVars, got, clientVars,
                 jobVars, raced>>

\* is_idle
Idle(d) == Clients(d) = {} /\ ~session[d]

Bug_Decide(d) ==
  /\ check[d] /\ check' = [check EXCEPT ![d] = FALSE]
  /\ IF Idle(d) THEN Become(d, "serving", "leaving") /\ lease' = 0
     ELSE server[d] = "serving" /\ UNCHANGED <<server, lease>>
  /\ UNCHANGED <<endpoint, awaiting, topoVars, step, connVars, got, clientVars, jobVars,
                 raced>>

Decide(d) ==
  /\ check[d] /\ check' = [check EXCEPT ![d] = FALSE]
  /\ IF Idle(d) THEN Become(d, "serving", "leaving")
     ELSE server[d] = "serving" /\ UNCHANGED server
  /\ UNCHANGED <<lease, endpoint, awaiting, topoVars, step, connVars, got, clientVars,
                 jobVars, raced>>

\* remove_file, whatever the file names.
Unlink(d) ==
  /\ Become(d, "leaving", "unlinked")
  /\ endpoint' = 0
  /\ UNCHANGED <<lease, awaiting, topoVars, check, step, connVars, got, clientVars,
                 jobVars, raced>>

\* The end of a process frees its lease and breaks its streams.
Ended(d) ==
  /\ server' = [server EXCEPT ![d] = "gone"]
  /\ lease' = IF lease = d THEN 0 ELSE lease
  /\ session' = [session EXCEPT ![d] = FALSE]
  /\ conn' = [t \in Threads |-> IF peer[t] = d /\ conn[t] # "none" THEN "none" ELSE conn[t]]
  /\ UNCHANGED <<endpoint, awaiting, revision, check, step, peer, pushed, answer, got,
                 clientVars, jobVars, raced>>

Exit(d) == server[d] = "unlinked" /\ Ended(d)

Kill(d) == server[d] \in {"locked", "serving", "leaving", "unlinked"} /\ Ended(d)

\* publish: the change goes to every subscriber; one over its limit is closed.
Changed(d, has) ==
  /\ revision[d] < MaxRevision
  /\ session' = [session EXCEPT ![d] = has]
  /\ revision' = [revision EXCEPT ![d] = @ + 1]
  /\ pushed' = [t \in Threads |->
                  IF peer[t] = d /\ conn[t] = "served" /\ Len(pushed[t]) < MaxQueue
                  THEN Append(pushed[t], revision[d] + 1) ELSE pushed[t]]
  /\ conn' = [t \in Threads |->
                IF peer[t] = d /\ conn[t] = "served" /\ Len(pushed[t]) = MaxQueue
                THEN "closing" ELSE conn[t]]

\* The last pane's process ends, and the main loop looks.
PaneExits(d) ==
  /\ server[d] = "serving" /\ session[d]
  /\ Changed(d, FALSE)
  /\ check' = [check EXCEPT ![d] = TRUE]
  /\ UNCHANGED <<procVars, step, peer, answer, got, clientVars, jobVars, raced>>

----------------------------------------------------------------------------
(* connect, on either thread of the client. *)

Go(t, from, to) == /\ step[t] = from
                   /\ step' = [step EXCEPT ![t] = to]

Broken(t) == conn[t] \notin {"backlog", "accepted", "served"}

\* A live listener takes the stream; whether it will serve it is not known.
Dial(t) ==
  /\ step[t] \in {"dial", "redial"} /\ conn[t] = "none"
  /\ step' = [step EXCEPT ![t] = "hello"]
  /\ Listening(endpoint)
  /\ peer' = [peer EXCEPT ![t] = endpoint]
  /\ conn' = [conn EXCEPT ![t] = "backlog"]
  /\ UNCHANGED <<procVars, topoVars, check, pushed, answer, got, clientVars, jobVars, raced>>

Unreachable == ~Listening(endpoint)

\* connect_or_start starts one server, and dials until its deadline.
Start(t, d) ==
  /\ Go(t, "dial", "redial") /\ conn[t] = "none" /\ Unreachable
  /\ Become(d, "none", "starting")
  /\ UNCHANGED <<lease, endpoint, awaiting, topoVars, check, connVars, got, clientVars,
                 jobVars, raced>>

StartExpires(t) ==
  /\ Go(t, "redial", "failed") /\ Unreachable
  /\ UNCHANGED <<procVars, topoVars, check, connVars, got, clientVars, jobVars, raced>>

\* Hello and Configure are answered by a server that serves the stream.
Welcomed(t) ==
  /\ Go(t, "hello", "swap") /\ conn[t] = "served"
  /\ UNCHANGED <<procVars, topoVars, check, connVars, got, clientVars, jobVars, raced>>

\* A stream that ends before the answer it waits for.
Lost(t) ==
  /\ \/ step[t] = "hello" /\ Broken(t)
     \/ step[t] = "wait" /\ Broken(t) /\ answer[t] = None /\ pushed[t] = <<>>
     \/ step[t] = "send" /\ Broken(t)
  /\ step' = [step EXCEPT ![t] = "failed"]
  /\ UNCHANGED <<procVars, topoVars, check, connVars, got, clientVars, jobVars, raced>>

Swap(t) ==
  /\ Go(t, "swap", IF generation # peer[t] THEN "forget" ELSE "connected")
  /\ generation' = peer[t]
  /\ raced' = (raced \/ server[peer[t]] = "gone")
  /\ UNCHANGED <<procVars, topoVars, check, connVars, got, connected, latest, ready,
                 jobVars>>

Bug_Connect(t) ==
  /\ step[t] \in {"forget", "connected"}
  /\ step' = [step EXCEPT ![t] = "send"]
  /\ connected' = TRUE
  /\ ready' = IF t = "watcher" THEN "ok" ELSE ready
  /\ UNCHANGED <<procVars, topoVars, check, connVars, got, generation, latest, jobVars,
                 raced>>

\* A new generation drops the snapshot of the last.  The watcher is ready.
Connect(t) ==
  /\ step[t] \in {"forget", "connected"}
  /\ step' = [step EXCEPT ![t] = "send"]
  /\ latest' = IF step[t] = "forget" THEN None ELSE latest
  /\ raced' = (raced \/ (step[t] = "forget" /\ latest.of = generation))
  /\ connected' = TRUE
  /\ ready' = IF t = "watcher" THEN "ok" ELSE ready
  /\ UNCHANGED <<procVars, topoVars, check, connVars, got, generation, jobVars>>

----------------------------------------------------------------------------
(* Requests, and the snapshots they bring. *)

\* Request::Snapshot, by either.
AskSnapshot(t) ==
  /\ Go(t, "send", "wait") /\ conn[t] = "served"
  /\ answer' = [answer EXCEPT ![t] = Snapshot(peer[t])]
  /\ UNCHANGED <<procVars, topoVars, check, peer, conn, pushed, got, clientVars, jobVars,
                 raced>>

\* A request whose answer is not a snapshot.
AskOther ==
  /\ Go("job", "send", "done") /\ conn["job"] = "served"
  /\ UNCHANGED <<procVars, topoVars, check, connVars, got, clientVars, jobVars, raced>>

PeerGeneration == IF connected THEN generation ELSE 0

Bug_SameServer == TRUE

\* check_generation
SameServer == expected = 0 \/ expected = PeerGeneration

Mutate ==
  /\ Go("job", "send", "wait") /\ conn["job"] = "served"
  /\ SameServer
  /\ \E has \in BOOLEAN : Changed(peer["job"], has)
  /\ answer' = [answer EXCEPT !["job"] = [of |-> peer["job"], revision |-> revision'[peer["job"]]]]
  /\ strayed' = (strayed \/ expected \notin {0, peer["job"]})
  /\ UNCHANGED <<procVars, check, peer, got, clientVars, jobs, expected, raced>>

ServerChanged ==
  /\ Go("job", "send", "failed")
  /\ ~SameServer
  /\ UNCHANGED <<procVars, topoVars, check, connVars, got, clientVars, jobVars, raced>>

\* The writer prefers an answer to the queued changes; a job skips those.
Receive(t) ==
  /\ Go(t, "wait", "judge")
  /\ \/ /\ answer[t] # None
        /\ got' = [got EXCEPT ![t] = answer[t]]
        /\ answer' = [answer EXCEPT ![t] = None] /\ UNCHANGED pushed
     \/ /\ pushed[t] # <<>> /\ t = "watcher"
        /\ got' = [got EXCEPT ![t] = [of |-> peer[t], revision |-> Head(pushed[t])]]
        /\ pushed' = [pushed EXCEPT ![t] = Tail(@)] /\ UNCHANGED answer
  /\ UNCHANGED <<procVars, topoVars, check, peer, conn, clientVars, jobVars, raced>>

\* Client::publish looks at the generation before it takes the lock.
Judge(t) ==
  /\ Go(t, "judge", IF got[t].of = generation THEN "store"
                    ELSE IF t = "watcher" THEN "wait" ELSE "done")
  /\ got' = [got EXCEPT ![t] = IF @.of = generation THEN @ ELSE None]
  /\ UNCHANGED <<procVars, topoVars, check, connVars, clientVars, jobVars, raced>>

Bug_Newer(s) == TRUE
Newer(s) == latest.of = 0 \/ latest.revision <= s.revision

Store(t) ==
  /\ Go(t, "store", IF t = "watcher" THEN "wait" ELSE "done")
  /\ latest' = IF Newer(got[t]) THEN got[t] ELSE latest
  /\ raced' = (raced \/ got[t].of # generation)
  /\ got' = [got EXCEPT ![t] = None]
  /\ UNCHANGED <<procVars, topoVars, check, connVars, generation, connected, ready,
                 jobVars>>

----------------------------------------------------------------------------
(* The ends of a watcher's connection, and of a job. *)

Closed(t) == /\ conn' = [conn EXCEPT ![t] = IF @ = "served" THEN "closing"
                                            ELSE IF @ \in {"closing", "left"} THEN @ ELSE "none"]
             /\ pushed' = [pushed EXCEPT ![t] = <<>>]
             /\ answer' = [answer EXCEPT ![t] = None]

Bug_WatcherFails ==
  /\ Go("watcher", "failed", "broken")
  /\ latest' = Failed /\ ready' = "error" /\ connected' = FALSE
  /\ Closed("watcher")
  /\ UNCHANGED <<procVars, topoVars, check, peer, got, generation, jobVars,
                 raced>>

\* The error is stored and shown, and the watcher tries again after a while.
WatcherFails ==
  /\ Go("watcher", "failed", "dial")
  /\ latest' = Failed /\ ready' = "error" /\ connected' = FALSE
  /\ Closed("watcher")
  /\ UNCHANGED <<procVars, topoVars, check, peer, got, generation, jobVars,
                 raced>>

\* submit_request, and the job's wait for the watcher, up to its deadline.
Submit ==
  /\ Go("job", "idle", "await") /\ jobs < MaxJobs /\ step["watcher"] # "ended"
  /\ jobs' = jobs + 1 /\ expected' = PeerGeneration
  /\ UNCHANGED <<procVars, topoVars, check, connVars, got, clientVars, strayed, raced>>

AwaitWatcher ==
  /\ Go("job", "await", IF ready = "ok" THEN "dial" ELSE "failed")
  /\ UNCHANGED <<procVars, topoVars, check, connVars, got, clientVars, jobVars, raced>>

\* A job is never retried: it is answered, and its stream is closed.
JobEnds ==
  /\ \E s \in {"done", "failed"} : Go("job", s, "idle")
  /\ Closed("job")
  /\ UNCHANGED <<procVars, topoVars, check, peer, got, clientVars, jobVars, raced>>

\* The last user of the client drops it; its watcher sees that and ends.
Quit ==
  /\ step["job"] = "idle"
  /\ \E s \in {"dial", "wait"} : Go("watcher", s, "ended")
  /\ Closed("watcher")
  /\ UNCHANGED <<procVars, topoVars, check, peer, got, clientVars, jobVars, raced>>

----------------------------------------------------------------------------
Init ==
  /\ server = [d \in Servers |-> "none"] /\ lease = 0 /\ endpoint = 0
  /\ session = [d \in Servers |-> FALSE] /\ revision = [d \in Servers |-> 0]
  /\ check = [d \in Servers |-> FALSE] /\ awaiting = [d \in Servers |-> TRUE]
  /\ step = [t \in Threads |-> IF t = "watcher" THEN "dial" ELSE "idle"]
  /\ peer = [t \in Threads |-> 0] /\ conn = [t \in Threads |-> "none"]
  /\ pushed = [t \in Threads |-> <<>>] /\ answer = [t \in Threads |-> None]
  /\ got = [t \in Threads |-> None]
  /\ generation = 0 /\ connected = FALSE /\ latest = None /\ ready = "none"
  /\ jobs = 0 /\ expected = 0 /\ strayed = FALSE /\ raced = FALSE

Runs(d) == Lock(d) \/ Bind(d) \/ InitialIdle(d) \/ Decide(d) \/ Unlink(d) \/ Exit(d)
Serves(t) == Accept(t) \/ Serve(t) \/ ServeEnds(t)
Follows(t) == \/ Dial(t) \/ StartExpires(t) \/ Welcomed(t) \/ Lost(t) \/ Swap(t)
              \/ Connect(t) \/ Receive(t) \/ Judge(t) \/ Store(t)
              \/ \E d \in Servers : Start(t, d)
Watches == Follows("watcher") \/ AskSnapshot("watcher") \/ WatcherFails
Works == \/ Follows("job") \/ AwaitWatcher \/ AskSnapshot("job") \/ AskOther \/ Mutate
         \/ ServerChanged \/ JobEnds

Next == \/ \E d \in Servers : Runs(d) \/ Kill(d) \/ PaneExits(d)
        \/ \E t \in Threads : Serves(t)
        \/ Watches \/ Works \/ Submit \/ Quit

Spec == Init /\ [][Next]_vars

\* Processes and threads run, and a deadline passes; nothing says that a
\* server is killed, that a process in a pane ends or that the user acts.
Fairness == /\ \A d \in Servers : WF_vars(Runs(d))
            /\ \A t \in Threads : WF_vars(Serves(t))
            /\ WF_vars(Watches) /\ WF_vars(Works)

FairSpec == Spec /\ Fairness

----------------------------------------------------------------------------
\* Types; a subscriber's queue keeps its limit.
TypeOK ==
  /\ server \in [Servers -> {"none", "starting", "locked", "serving", "leaving",
                             "unlinked", "gone"}]
  /\ lease \in 0 .. MaxServers /\ endpoint \in 0 .. MaxServers
  /\ session \in [Servers -> BOOLEAN] /\ revision \in [Servers -> 0 .. MaxRevision]
  /\ check \in [Servers -> BOOLEAN] /\ awaiting \in [Servers -> BOOLEAN]
  /\ peer \in [Threads -> 0 .. MaxServers]
  /\ conn \in [Threads -> {"none", "backlog", "accepted", "served", "closing", "left"}]
  /\ \A t \in Threads : Len(pushed[t]) <= MaxQueue
  /\ generation \in 0 .. MaxServers /\ expected \in 0 .. MaxServers
  /\ ready \in {"none", "ok", "error"}
  /\ connected \in BOOLEAN /\ strayed \in BOOLEAN /\ raced \in BOOLEAN

\* A serving server can be reached: nobody else's start, idle exit or crash
\* takes its endpoint away (bind's lease, the removal at the end of run).
ServesAlone == \A d \in Servers : server[d] = "serving" => endpoint = d

\* A mutation submitted for one server is not executed by another
\* (check_generation), unless a thread put back the generation of a server
\* that was killed after it had welcomed that thread (raced, in Swap).
NeverStrays == strayed => raced

\* The snapshot a client shows of one server never goes back, though answers
\* and queued changes reach it out of order on two threads (Client::publish).
LatestForward ==
  [][latest.of # 0 /\ latest'.of = latest.of => latest'.revision >= latest.revision]_latest

Serving == {d \in Servers : server[d] = "serving"}
IdleServers == {d \in Serving : Idle(d)}
Watched == step["watcher"] # "ended"
Misled == {d \in Serving : latest # Snapshot(d)}

\* A server without clients and sessions does not stay: every way to become
\* idle is followed by a look (the last client, the last pane, no first client).
IdleLeaves == IdleServers # {} ~> IdleServers = {}

\* While a server serves, its client comes to show its topology, whatever
\* server it knew before.  The exceptions are the same late Swap; a snapshot
\* of a server that is gone, stored after the next one was met (Store); and a
\* snapshot already taken of a new server, dropped by the thread that met that
\* server first (Connect).
Converges == Misled # {} ~> Misled = {} \/ raced \/ ~Watched

\* A client is not left without a server: one that could not take the lease
\* of a server on its way out is followed by another (start_watcher's retry).
ServerComes ==
  Serving = {} ~> Serving # {} \/ ~Watched \/ \A d \in Servers : server[d] = "gone"

\* Servers come when they are needed, and leave when they are not.
ServersComeAndGo == IdleLeaves /\ ServerComes
================================================================================
