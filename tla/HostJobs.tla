-------------------------------- MODULE HostJobs --------------------------------
(***************************************************************************)
(* A job of the window: a program run here, or on a remote host through a  *)
(* transport (ssh) that starts a daemon there (bootty-host/src/jobs.rs,    *)
(* jobs/process.rs, jobs/remote.rs).  The daemon runs the program as a job *)
(* of its own registry, so the same Job appears twice: "near" belongs to   *)
(* the window, "far" to the daemon.  The process tree of a near job is the *)
(* program or the transport, that of a far job the program.                *)
(*                                                                         *)
(* A program writes the chunks 1, 2, ... on one stream; the order of       *)
(* stdout and stderr against each other is not kept by the code either.    *)
(***************************************************************************)
EXTENDS Integers, Sequences

CONSTANTS
  MaxOutput,  \* bound: chunks the program writes
  Retained,   \* chunks a job keeps (CHUNK_LIMIT, OUTPUT_LIMIT)
  ReadLimit   \* chunks a read returns (READ_LIMIT)

ASSUME JobsAssumption == MaxOutput \in Nat /\ {Retained, ReadLimit} \subseteq Nat \ {0}

Jobs == {"near", "far"}

VARIABLES
  status,    \* of each job: absent, starting, transferring, running, exited, failed,
             \* forgotten
  cancel,    \* its cancel flag
  killing,   \* a cancel() has set the flag and has still to use the controller
  ctrl,      \* its controller is known
  step,      \* its worker thread
  tree,      \* its process tree: none, alive, headless, dead, reaped
  out,       \* chunks it was given, by sequence number
  work,      \* what the near job does: a program here or there, or a transfer
  made,      \* chunks the program has written
  active, retire,            \* the window's registry
  daemon, serve, pos,  \* the daemon, its serve loop and cursor
  stdin,     \* the daemon's thread that reads the transport: open or ended
  wire,      \* batches on their way back
  verdict    \* what the near worker will report

ownerVars == <<active, retire>>
daemonVars == <<daemon, serve, pos, stdin>>
vars == <<status, cancel, killing, ctrl, step, tree, out, work, made, ownerVars,
          daemonVars, wire, verdict>>

Finished(j) == status[j] \in {"exited", "failed", "forgotten"}
Going(j) == status[j] # "absent" /\ ~Finished(j)
Alive(t) == t \in {"alive", "headless"}

\* The program is the tree of one job; a transport is that of the other.
Programs == {"here", "there"}
Transfers == {"upload", "download", "copy"}
Works == Programs \cup Transfers
Runs(j) == work = IF j = "near" THEN "here" ELSE "there"
ProgramAlive == \E j \in Jobs : Runs(j) /\ Alive(tree[j])

----------------------------------------------------------------------------
(* Cancelling: the flag under the job's lock, then the controller.         *)

Flagged(j) == IF Going(j)
              THEN /\ cancel' = [cancel EXCEPT ![j] = TRUE]
                   /\ killing' = [killing EXCEPT ![j] = TRUE]
              ELSE UNCHANGED <<cancel, killing>>

Terminated(j) == tree' = [tree EXCEPT ![j] = IF Alive(@) THEN "dead" ELSE @]

\* The threads of a far job end with the daemon.
Lives(j) == j = "near" \/ daemon = "up"

\* jobs.cancel, or the deadline thread.
Cancel(j) ==
  /\ Lives(j) /\ Going(j) /\ ~cancel[j]
  /\ Flagged(j)
  /\ UNCHANGED <<status, ctrl, step, tree, out, work, made, ownerVars, daemonVars,
                 wire, verdict>>

Kill(j) ==
  /\ Lives(j) /\ killing[j]
  /\ killing' = [killing EXCEPT ![j] = FALSE]
  /\ IF ctrl[j] THEN Terminated(j) ELSE UNCHANGED tree
  /\ UNCHANGED <<status, cancel, ctrl, step, out, work, made, ownerVars, daemonVars,
                 wire, verdict>>

----------------------------------------------------------------------------
(* The window's registry. *)

Bug_Start(w) ==
  /\ status["near"] = "absent"
  /\ status' = [status EXCEPT !["near"] = "starting"]
  /\ step' = [step EXCEPT !["near"] = "new"]
  /\ work' = w
  /\ UNCHANGED <<cancel, killing, ctrl, tree, out, made, ownerVars, daemonVars, wire,
                 verdict>>

\* start_work looks at `active` and inserts the job under one lock.
Start(w) ==
  /\ active /\ status["near"] = "absent"
  /\ status' = [status EXCEPT !["near"] = "starting"]
  /\ step' = [step EXCEPT !["near"] = "new"]
  /\ work' = w
  /\ UNCHANGED <<cancel, killing, ctrl, tree, out, made, ownerVars, daemonVars, wire,
                 verdict>>

\* spawn_workers, outside the lock; a thread may not start.
SpawnWorkers ==
  /\ step["near"] = "new"
  /\ \/ /\ step' = [step EXCEPT !["near"] = "check"]
        /\ UNCHANGED status
     \/ /\ step' = [step EXCEPT !["near"] = "done"]
        /\ status' = [status EXCEPT !["near"] = "failed"]
  /\ UNCHANGED <<cancel, killing, ctrl, tree, out, work, made, ownerVars, daemonVars,
                 wire, verdict>>

\* retire(): no more jobs, then cancel those there are.
Retire ==
  /\ retire = "no"
  /\ retire' = "flagged" /\ active' = FALSE
  /\ UNCHANGED <<status, cancel, killing, ctrl, step, tree, out, work, made,
                 daemonVars, wire, verdict>>

RetireCancels ==
  /\ retire = "flagged"
  /\ retire' = "done"
  /\ Flagged("near")
  /\ UNCHANGED <<status, ctrl, step, tree, out, work, made, active, daemonVars, wire,
                 verdict>>

Forget ==
  /\ status["near"] \in {"exited", "failed"}
  /\ status' = [status EXCEPT !["near"] = "forgotten"]
  /\ UNCHANGED <<cancel, killing, ctrl, step, tree, out, work, made, ownerVars,
                 daemonVars, wire, verdict>>

----------------------------------------------------------------------------
(* Worker threads. *)

At(j, s) == Lives(j) /\ step[j] = s
Goes(j, s) == step' = [step EXCEPT ![j] = s]
Fails(j) == /\ Goes(j, "done")
            /\ status' = [status EXCEPT ![j] = "failed"]

\* Paths, the remote daemon's installation, and a cancellation before the launch.
Check(j) ==
  /\ work \in Programs /\ At(j, "check")
  /\ \/ ~cancel[j] /\ Goes(j, "spawn") /\ UNCHANGED status
     \/ Fails(j)
  /\ UNCHANGED <<cancel, killing, ctrl, tree, out, work, made, ownerVars, daemonVars,
                 wire, verdict>>

Spawn(j) ==
  /\ At(j, "spawn")
  /\ \/ /\ tree' = [tree EXCEPT ![j] = "alive"]
        /\ Goes(j, "control") /\ UNCHANGED status
     \/ Fails(j) /\ UNCHANGED tree
  /\ UNCHANGED <<cancel, killing, ctrl, out, work, made, ownerVars, daemonVars, wire,
                 verdict>>

Bug_Control(j) ==
  /\ At(j, "control")
  /\ ctrl' = [ctrl EXCEPT ![j] = TRUE]
  /\ Goes(j, "status")
  /\ UNCHANGED <<status, cancel, killing, tree, out, work, made, ownerVars, daemonVars,
                 wire, verdict>>

\* Job::control: a cancellation that came during the spawn found no controller.
Control(j) ==
  /\ At(j, "control")
  /\ ctrl' = [ctrl EXCEPT ![j] = TRUE]
  /\ IF cancel[j] THEN Terminated(j) ELSE UNCHANGED tree
  /\ Goes(j, "status")
  /\ UNCHANGED <<status, cancel, killing, out, work, made, ownerVars, daemonVars, wire,
                 verdict>>

\* The top of the loops looks at the flag.  A thread that waits for a transport
\* sees it there only: cancel() ends the wait.
LoopTop(j) == IF cancel[j] /\ work \in Programs THEN Terminated(j) ELSE UNCHANGED tree

\* Pipes and their threads are set up.  The tree is reaped on every path: here
\* by ProcessTreeChild's drop.
Running(j) ==
  /\ At(j, "status")
  /\ \/ /\ status' = [status EXCEPT ![j] = IF Runs(j) THEN "running" ELSE @]
        /\ Goes(j, "loop") /\ LoopTop(j)
     \/ /\ tree' = [tree EXCEPT ![j] = "reaped"]
        /\ Fails(j)
  /\ UNCHANGED <<cancel, killing, ctrl, out, work, made, ownerVars, daemonVars, wire,
                 verdict>>

LoopKill(j) ==
  /\ Runs(j) /\ At(j, "loop") /\ cancel[j] /\ Alive(tree[j])
  /\ LoopTop(j)
  /\ UNCHANGED <<status, cancel, killing, ctrl, step, out, work, made, ownerVars,
                 daemonVars, wire, verdict>>

\* Chunks the program wrote and its job has not recorded yet.
Unread(j) == made - Len(out[j])
Output(j) == out' = [out EXCEPT ![j] = Append(@, Len(@) + 1)]

LoopOutput(j) ==
  /\ Runs(j) /\ At(j, "loop") /\ tree[j] = "alive" /\ Unread(j) > 0
  /\ Output(j)
  /\ UNCHANGED <<status, cancel, killing, ctrl, step, tree, work, made, ownerVars,
                 daemonVars, wire, verdict>>

Bug_LoopExit(j) ==
  /\ Runs(j) /\ At(j, "loop") /\ tree[j] \in {"headless", "dead"}
  /\ tree' = [tree EXCEPT ![j] = IF @ = "dead" THEN "reaped" ELSE @]
  /\ Goes(j, "drain")
  /\ UNCHANGED <<status, cancel, killing, ctrl, out, work, made, ownerVars, daemonVars,
                 wire, verdict>>

\* The leader has exited: terminate its descendants, then reap it.
LoopExit(j) ==
  /\ Runs(j) /\ At(j, "loop") /\ tree[j] \in {"headless", "dead"}
  /\ tree' = [tree EXCEPT ![j] = "reaped"]
  /\ Goes(j, "drain")
  /\ UNCHANGED <<status, cancel, killing, ctrl, out, work, made, ownerVars, daemonVars,
                 wire, verdict>>

Drain(j) ==
  /\ At(j, "drain") /\ Unread(j) > 0
  /\ Output(j)
  /\ UNCHANGED <<status, cancel, killing, ctrl, step, tree, work, made, ownerVars,
                 daemonVars, wire, verdict>>

\* The pipes are empty and closed; a reader thread may have failed.
Exit(j) ==
  /\ At(j, "drain") /\ Unread(j) = 0
  /\ \/ status' = [status EXCEPT ![j] = "exited"] /\ Goes(j, "done")
     \/ Fails(j)
  /\ UNCHANGED <<cancel, killing, ctrl, tree, out, work, made, ownerVars, daemonVars,
                 wire, verdict>>

----------------------------------------------------------------------------
(* remote::run, the near worker of a far program. *)

\* Chunks dropped from a job's output.
From(j) == IF Len(out[j]) > Retained THEN Len(out[j]) - Retained ELSE 0
Bug_Gap(j, cursor) == cursor + 1 < From(j)

\* The reader has missed a chunk that is no longer kept.
Gap(j, cursor) == cursor < From(j)

\* What a read with this cursor returns (Job::read).
Batch(j, cursor) ==
  LET first == IF cursor < From(j) THEN From(j) ELSE cursor
      last == IF first + ReadLimit < Len(out[j]) THEN first + ReadLimit ELSE Len(out[j])
  IN  [chunks |-> SubSeq(out[j], first + 1, last), cursor |-> last,
       gap |-> Gap(j, cursor), status |-> status[j], next |-> Len(out[j])]

Bug_Final(b) == b.status \in {"exited", "failed"}

\* The job is over and the batch is its last.
Final(b) == b.status \in {"exited", "failed"} /\ b.cursor = b.next

TakeBatch ==
  /\ work = "there" /\ At("near", "loop") /\ wire # <<>>
  /\ wire' = Tail(wire)
  /\ LET b == Head(wire)
     IN  \/ /\ b.gap
            /\ verdict' = "failed" /\ Goes("near", "reap")
            /\ UNCHANGED <<status, out, tree>>
         \/ /\ ~b.gap
            /\ out' = [out EXCEPT !["near"] = @ \o b.chunks]
            /\ \/ /\ Final(b)
                  /\ verdict' = b.status /\ Goes("near", "reap")
                  /\ UNCHANGED <<status, tree>>
               \/ /\ ~Final(b)
                  /\ status' = [status EXCEPT !["near"] =
                                 IF b.status = "running" THEN "running" ELSE @]
                  /\ LoopTop("near") /\ UNCHANGED <<verdict, step>>
  /\ UNCHANGED <<cancel, killing, ctrl, work, made, ownerVars, daemonVars>>

\* The transport has ended without a complete result.
TakeEnd ==
  /\ work = "there" /\ At("near", "loop") /\ wire = <<>> /\ ~Alive(tree["near"])
  /\ verdict' = "failed" /\ Goes("near", "reap")
  /\ UNCHANGED <<status, cancel, killing, ctrl, tree, out, work, made, ownerVars,
                 daemonVars, wire>>

\* Terminate and reap the transport on every path, then report.
Reap ==
  /\ At("near", "reap")
  /\ tree' = [tree EXCEPT !["near"] = IF @ = "none" THEN @ ELSE "reaped"]
  /\ status' = [status EXCEPT !["near"] = verdict] /\ Goes("near", "done")
  /\ verdict' = "none"
  /\ UNCHANGED <<cancel, killing, ctrl, out, work, made, ownerVars, daemonVars, wire>>

----------------------------------------------------------------------------
(* The daemon: remote::serve. *)

Connected == tree["near"] = "alive"

\* The job starts, or serve() fails before it does.
DaemonStarts ==
  /\ work = "there" /\ Connected /\ daemon = "none"
  /\ \/ /\ daemon' = "up" /\ serve' = "read"
        /\ status' = [status EXCEPT !["far"] = "starting"] /\ Goes("far", "check")
     \/ daemon' = "gone" /\ UNCHANGED <<serve, status, step>>
  /\ UNCHANGED <<cancel, killing, ctrl, tree, out, work, made, ownerVars, pos,
                 stdin, wire, verdict>>

\* Losing the request stream cancels the job.
StdinEnds ==
  /\ daemon = "up" /\ stdin = "open" /\ ~Connected
  /\ stdin' = "ended"
  /\ Flagged("far")
  /\ UNCHANGED <<status, ctrl, step, tree, out, work, made, ownerVars, daemon, serve,
                 pos, wire, verdict>>

\* A read ends with output, with the job, or after four seconds.  Its batch is
\* written, blocked while the pipe is full, lost or refused.
ServeBatch ==
  /\ daemon = "up" /\ serve = "read"
  /\ LET b == Batch("far", pos)
         on == IF Final(b) THEN "cancel" ELSE "read"
     IN  /\ pos' = b.cursor
         /\ \/ Connected /\ wire = <<>> /\ wire' = <<b>> /\ serve' = on
            \/ ~Connected /\ UNCHANGED wire /\ serve' \in {"cancel", on}
  /\ UNCHANGED <<status, cancel, killing, ctrl, step, tree, out, work, made, ownerVars,
                 daemon, stdin, verdict>>

ServeCancel ==
  /\ daemon = "up" /\ serve = "cancel"
  /\ serve' = "exit"
  /\ Flagged("far")
  /\ UNCHANGED <<status, ctrl, step, tree, out, work, made, ownerVars, daemon,
                 pos, stdin, wire, verdict>>

\* serve() returns and the daemon's process ends with all its threads.
DaemonExits ==
  /\ daemon = "up" /\ serve = "exit" /\ ~killing["far"]
  /\ daemon' = "gone"
  /\ UNCHANGED <<status, cancel, killing, ctrl, step, tree, out, work, made, ownerVars,
                 serve, pos, stdin, wire, verdict>>

----------------------------------------------------------------------------
(* The outside: the program and the network. *)

Writes ==
  /\ made < MaxOutput /\ ProgramAlive
  /\ made' = made + 1
  /\ UNCHANGED <<status, cancel, killing, ctrl, step, tree, out, work, ownerVars,
                 daemonVars, wire, verdict>>

\* The leader exits, leaving descendants or not; they end too.
Ends(j) ==
  /\ \/ tree[j] = "alive" /\ tree' = [tree EXCEPT ![j] = "dead"]
     \/ Runs(j) /\ tree[j] = "alive" /\ tree' = [tree EXCEPT ![j] = "headless"]
     \/ tree[j] = "headless" /\ tree' = [tree EXCEPT ![j] = "dead"]
  /\ UNCHANGED <<status, cancel, killing, ctrl, step, out, work, made, ownerVars,
                 daemonVars, wire, verdict>>

\* What was under way when the transport ended may not arrive, and the end of a
\* transport that the daemon has closed is seen.
Lose ==
  /\ ~Connected /\ wire # <<>>
  /\ wire' = <<>>
  /\ UNCHANGED <<status, cancel, killing, ctrl, step, tree, out, work, made, ownerVars,
                 daemonVars, verdict>>

HangUp ==
  /\ Connected /\ daemon = "gone"
  /\ tree' = [tree EXCEPT !["near"] = "dead"]
  /\ UNCHANGED <<status, cancel, killing, ctrl, step, out, work, made, ownerVars,
                 daemonVars, wire, verdict>>

----------------------------------------------------------------------------
Init ==
  /\ status = [j \in Jobs |-> "absent"]
  /\ cancel = [j \in Jobs |-> FALSE] /\ killing = [j \in Jobs |-> FALSE]
  /\ ctrl = [j \in Jobs |-> FALSE]
  /\ step = [j \in Jobs |-> "none"] /\ tree = [j \in Jobs |-> "none"]
  /\ out = [j \in Jobs |-> <<>>]
  /\ work = "here" /\ made = 0
  /\ active = TRUE /\ retire = "no"
  /\ daemon = "none" /\ serve = "none" /\ pos = 0 /\ stdin = "open"
  /\ wire = <<>> /\ verdict = "none"

Worker(j) == \/ Check(j) \/ Spawn(j) \/ Control(j) \/ Running(j) \/ LoopKill(j)
             \/ LoopOutput(j) \/ LoopExit(j) \/ Drain(j) \/ Exit(j)
             \/ j = "near" /\ (TakeBatch \/ TakeEnd \/ Reap)

Serve == ServeBatch \/ ServeCancel \/ DaemonExits

Next == \/ \E w \in Programs : Start(w)
        \/ SpawnWorkers \/ Retire \/ RetireCancels \/ Forget
        \/ \E j \in Jobs : Cancel(j) \/ Kill(j) \/ Worker(j) \/ Ends(j)
        \/ DaemonStarts \/ StdinEnds \/ Serve
        \/ Writes \/ Lose \/ HangUp

----------------------------------------------------------------------------
TypeOK ==
  /\ status \in [Jobs -> {"absent", "starting", "transferring", "running", "exited",
                          "failed", "forgotten"}]
  /\ cancel \in [Jobs -> BOOLEAN] /\ killing \in [Jobs -> BOOLEAN]
  /\ ctrl \in [Jobs -> BOOLEAN]
  /\ step \in [Jobs -> {"none", "new", "check", "spawn", "control", "status", "loop",
                        "drain", "reap", "done"}]
  /\ tree \in [Jobs -> {"none", "alive", "headless", "dead", "reaped"}]
  /\ made \in 0 .. MaxOutput /\ work \in Works
  /\ active \in BOOLEAN /\ retire \in {"no", "flagged", "done"}
  /\ daemon \in {"none", "up", "gone"} /\ stdin \in {"open", "ended"}
  /\ serve \in {"none", "read", "cancel", "exit"}
  /\ Len(wire) <= 1

\* A job that says it is over has left nothing behind: its tree is reaped with
\* all descendants.  A daemon that ends leaves no program, unless its worker had
\* just spawned it and not yet given it a controller.  After retire() no job is
\* left that nobody cancelled.
NothingLeft ==
  /\ TypeOK
  /\ \A j \in Jobs : Finished(j) => tree[j] \in {"none", "reaped"}
  /\ daemon = "gone" => ~Alive(tree["far"]) \/ step["far"] = "control"
  /\ retire = "done" => status["near"] = "absent" \/ Finished("near") \/ cancel["near"]

\* A job holds what the program wrote, in order, and an exit is reported only
\* with all of it: over two jobs, bounded retention and a lost transport.
OutputExact ==
  /\ \A j \in Jobs : out[j] = [k \in 1 .. Len(out[j]) |-> k]
  /\ status["near"] = "exited" => Len(out["near"]) = made /\ ~ProgramAlive

\* A job that is cancelled ends, and when a job has ended its program does too,
\* on the other host as well.
CancelReaches ==
  cancel["near"] \/ Finished("near") ~>
    Finished("near") /\ (~ProgramAlive \/ (daemon = "gone" /\ step["far"] = "control"))
=================================================================================
