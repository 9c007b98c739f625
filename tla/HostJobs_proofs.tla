----------------------------- MODULE HostJobs_proofs -----------------------------
(***************************************************************************)
(* Proofs about HostJobs and HostTransfers: a job that is over has left no *)
(* process, holds exactly what its program wrote, and a transfer puts a    *)
(* whole copy of one version of its source at the destination or nothing,  *)
(* for any amount of output, retention and read limit and any number of    *)
(* blocks, edits and tries.                                                *)
(***************************************************************************)
EXTENDS HostTransfers, SequenceTheorems, TLAPS

(* The inductive invariant *)

Statuses == {"absent", "starting", "transferring", "running", "exited", "failed", "forgotten"}
Steps == {"none", "new", "check", "spawn", "control", "status", "loop", "drain", "reap",
          "done"}
Trees == {"none", "alive", "headless", "dead", "reaped"}
Batches == [chunks : Seq(Nat), cursor : Nat, gap : BOOLEAN, status : Statuses, next : Nat]

\* Types, finer than TypeOK's for what is sent and reported.
JobTypes ==
  /\ status \in [Jobs -> Statuses]
  /\ cancel \in [Jobs -> BOOLEAN] /\ killing \in [Jobs -> BOOLEAN]
  /\ ctrl \in [Jobs -> BOOLEAN]
  /\ step \in [Jobs -> Steps] /\ tree \in [Jobs -> Trees]

PlanTypes ==
  /\ work \in Works /\ verdict \in {"none", "exited", "failed"}
  /\ active \in BOOLEAN /\ retire \in {"no", "flagged", "done"}
  /\ daemon \in {"none", "up", "gone"} /\ serve \in {"none", "read", "cancel", "exit"}
  /\ stdin \in {"open", "ended"}

StreamTypes ==
  /\ made \in 0 .. MaxOutput /\ pos \in Nat
  /\ out \in [Jobs -> Seq(Nat)]
  /\ wire \in Seq(Batches) /\ Len(wire) <= 1

\* Steps before a tree is spawned, and steps with a tree that has a controller.
Unspawned == {"none", "new", "check", "spawn"}
Guarded == {"status", "loop", "drain"}
Copies(j) == j = "near" /\ work = "copy" /\ step[j] = "loop"

\* What a worker's step says of its job's status, tree and controller.
Stages ==
  \A j \in Jobs :
    /\ step[j] = "none" <=> status[j] = "absent"
    /\ step[j] = "done" <=> Finished(j)
    /\ step[j] \in Unspawned => tree[j] = "none"
    /\ step[j] \in Unspawned \cup {"control"} => ~ctrl[j]
    /\ step[j] \in Guarded => ctrl[j] \/ Copies(j)
    /\ step[j] \in {"control", "status", "loop"} =>
         tree[j] \in {"alive", "headless", "dead"} \/ (Copies(j) /\ tree[j] = "none")
    /\ step[j] = "drain" => tree[j] = "reaped" /\ Runs(j)
    /\ step[j] = "reap" => j = "near" /\ verdict # "none" /\ work # "here"
    /\ step[j] = "done" => tree[j] \in {"none", "reaped"}
    /\ tree[j] = "headless" => Runs(j)

\* There is a daemon, and a far job of it, only for a program there and once its
\* transport is spawned.
DaemonsJob ==
  /\ work # "there" \/ step["near"] \in Unspawned => daemon = "none"
  /\ daemon = "none" => step["far"] = "none"
  /\ step["far"] = "none" => daemon # "up" /\ serve = "none"
  /\ step["far"] # "new"

\* A cancelled job with a controller has been terminated, or is about to be.
Cancelled ==
  /\ \A j \in Jobs : cancel[j] /\ ctrl[j] /\ ~killing[j] => ~Alive(tree[j])
  /\ serve = "exit" => cancel["far"] \/ Finished("far")
  /\ daemon = "gone" => ~Alive(tree["far"]) \/ step["far"] = "control"

\* A registry that is retired starts nothing and has cancelled what it had.
Retired ==
  /\ retire # "no" => ~active
  /\ retire = "done" => status["near"] = "absent" \/ Finished("near") \/ cancel["near"]

\* A job's output is the chunks 1, 2, ... of its program.
Numbered(s, n) == \A k \in 1 .. Len(s) : s[k] = n + k

Recorded ==
  /\ \A j \in Jobs : Numbered(out[j], 0) /\ (Runs(j) => Len(out[j]) <= made)
  /\ work \notin Programs \/ step["near"] \in Unspawned => made = 0 /\ out["near"] = <<>>
  /\ step["far"] = "none" => out["far"] = <<>>
  /\ \A j \in Jobs : Runs(j) /\ status[j] = "exited" => Len(out[j]) = made

\* The batch on its way continues what the near job has, as long as it listens;
\* without one the daemon's cursor is where the near job is.
Relayed ==
  /\ pos <= Len(out["far"])
  /\ step["far"] = "none" => wire = <<>> /\ (work = "there" => out["near"] = <<>>)
  /\ step["near"] \in {"control", "status", "loop"} /\ work = "there" =>
       IF wire = <<>> THEN Connected => pos = Len(out["near"])
       ELSE LET b == wire[1]
            IN  ~b.gap => /\ Numbered(b.chunks, Len(out["near"]))
                          /\ b.cursor = Len(out["near"]) + Len(b.chunks)
                          /\ Connected => pos = b.cursor
  /\ wire # <<>> /\ wire[1].status \in {"exited", "failed"} =>
       wire[1].status = status["far"] /\ wire[1].next = Len(out["far"])

\* An exit that the near job reports for the far one is the far one's, with all of
\* its output.
Reported ==
  work = "there" /\ (status["near"] = "exited" \/ (step["near"] = "reap" /\ verdict = "exited"))
    => status["far"] = "exited" /\ Len(out["near"]) = made

JobInv == /\ JobTypes /\ PlanTypes /\ StreamTypes /\ Stages /\ DaemonsJob /\ Cancelled
          /\ Retired /\ Recorded /\ Relayed /\ Reported

Tries == 1 .. MaxTries
Senders == {"none", "blocks", "sent", "gone"}
Receivers == {"none", "head", "stage", "blocks", "publish", "reply", "gone", "killed"}

\* A block of the source.
Block(l) == l \notin {<<>>, Header, Receipt, Reply}

Legs == [snd : Senders, rcv : Receivers, link : Seq(Int), sent : Nat, opened : Nat,
         staged : Seq(Int), tmp : BOOLEAN]

FileTypes ==
  /\ src \in 0 .. MaxEdits /\ try \in Tries /\ leg \in [Tries -> Legs] /\ dest \in Seq(Int)

\* No side of a try is at work before its check, nor of a try to come.  The
\* transport of an upload is spawned with the source open, a copy has none, and
\* nothing was sent before it is up.
Underway == {"spawn", "control", "status", "loop"}
Fresh ==
  /\ \A t \in Tries : t > try => leg[t] = NoLeg
  /\ step["near"] = "none" => work \notin Transfers
  /\ work \notin Transfers => dest = <<>> /\ \A t \in Tries : leg[t] = NoLeg
  /\ step["near"] \in {"none", "new", "check"} => leg[try] = NoLeg
  /\ work = "upload" /\ (step["near"] \in Underway \/ tree["near"] # "none")
       => leg[try].snd # "none"
  /\ work = "download" /\ (step["near"] \in Underway \/ tree["near"] # "none")
       => leg[try].rcv # "none"
  /\ work = "copy" => tree["near"] = "none" /\ step["near"] \notin Underway \ {"loop"}
  /\ work \in {"upload", "download"} /\ tree["near"] = "none" =>
       leg[try].link = <<>> /\ leg[try].sent = 0 /\ leg[try].staged = <<>>

\* What a side does after the other.
Turn(l) ==
  /\ l.snd = "none" => l.link = <<>> /\ l.sent = 0 /\ l.rcv \in {"none", "head", "gone"}
  /\ l.rcv \notin {"blocks", "publish"} => l.staged = <<>>
  /\ l.tmp => l.rcv \in {"blocks", "publish", "killed"}
  /\ l.rcv \in {"publish", "reply"} =>
       l.snd = "sent" \/ (l.snd = "gone" /\ work = "upload")
  /\ l.link = Header => l.rcv \in {"head", "gone"}
  /\ l.link = Receipt => l.rcv \in {"blocks", "gone", "killed"}
  /\ l.link = Reply => l.rcv = "gone"
  /\ l.link \in {Receipt, Reply} =>
       l.snd = "sent" \/ (l.snd = "gone" /\ (work = "upload" \/ l.rcv = "gone"))
Turns == \A t \in Tries : Turn(leg[t])

\* What is staged was read since the source was opened.
Fetched(l) ==
  /\ l.opened <= src /\ l.sent <= Blocks /\ Len(l.staged) <= Blocks
  /\ \A k \in 1 .. Len(l.staged) : l.opened <= l.staged[k] /\ l.staged[k] <= src
  /\ Block(l.link) => Len(l.link) = 1 /\ l.opened <= l.link[1] /\ l.link[1] <= src
Read == \A t \in Tries : Fetched(leg[t])

\* As long as nothing is lost every block sent is staged or on its way.
Sound(t) == t = try /\ tree["near"] \in {"none", "alive"}
Counted(l) ==
  l.snd = "blocks" /\ l.rcv \in {"none", "head", "stage", "blocks"}
    => l.sent = Len(l.staged) + IF Block(l.link) THEN 1 ELSE 0
Staged == \A t \in Tries : Sound(t) => Counted(leg[t])

\* A receipt vouches for a whole copy of the version that was opened.
Vouched(l) == /\ \E v \in 0 .. MaxEdits : l.staged = Copy(v)
              /\ l.snd = "sent" => l.staged = Copy(l.opened)
Kept(l) ==
  /\ l.rcv = "publish" \/ (l.rcv = "blocks" /\ l.link = Receipt) => Vouched(l)
  /\ l.snd = "sent" /\ (l.rcv = "reply" \/ l.link = Reply) => dest = Copy(l.opened)
Receipts == \A t \in Tries : Kept(leg[t])

\* A transfer that reports success, or is about to, has put its copy there.
Succeeds ==
  work \in Transfers /\ (status["near"] = "exited"
                          \/ (step["near"] = "reap" /\ verdict = "exited"))
Published ==
  /\ dest \in {<<>>, Foreign} \cup {Copy(v) : v \in 0 .. MaxEdits}
  /\ Succeeds => leg[try].snd = "sent" /\ dest = Copy(leg[try].opened)

FileInv == FileTypes /\ Fresh /\ Turns /\ Read /\ Staged /\ Receipts /\ Published

--------------------------------------------------------------------------------
(* Jobs *)

\* The near job's body is over.
Concludes ==
  /\ InBody /\ (\E v \in {"exited", "failed"} : NearEnds(v))
  /\ UNCHANGED <<status, cancel, killing, ctrl, tree, out, work, made, ownerVars,
                 daemonVars, wire>>

\* What a transfer's steps are to the jobs.
JobNext ==
  \/ Next \/ (\E w \in Transfers : Start(w)) \/ Retry \/ CheckTransfer \/ Concludes

\* The near worker takes the batch that came: it stops at a gap, has the last
\* one, or goes on.
LEMMA BatchTaken ==
  ASSUME JobTypes, StreamTypes, TakeBatch
  PROVE  /\ wire # <<>> /\ wire[1] \in Batches /\ wire' = <<>>
         /\ work = "there" /\ step["near"] = "loop"
         /\ step' \in {step, [step EXCEPT !["near"] = "reap"]}
         /\ UNCHANGED <<cancel, killing, ctrl, work, made, active, retire, daemon, serve, pos,
                        stdin>>
         /\ \/ /\ wire[1].gap /\ verdict' = "failed"
               /\ step' = [step EXCEPT !["near"] = "reap"]
               /\ UNCHANGED <<status, out, tree>>
            \/ /\ ~wire[1].gap /\ wire[1].status \in {"exited", "failed"}
               /\ wire[1].cursor = wire[1].next
               /\ verdict' = wire[1].status
               /\ step' = [step EXCEPT !["near"] = "reap"]
               /\ out' = [out EXCEPT !["near"] = @ \o wire[1].chunks]
               /\ UNCHANGED <<status, tree>>
            \/ /\ ~wire[1].gap
               /\ out' = [out EXCEPT !["near"] = @ \o wire[1].chunks]
               /\ status' \in {status, [status EXCEPT !["near"] = "running"]}
               /\ \/ UNCHANGED tree
                  \/ /\ Alive(tree["near"])
                     /\ tree' = [tree EXCEPT !["near"] = "dead"]
               /\ UNCHANGED <<verdict, step>>
<1> DEFINE b == wire[1]
<1>1. /\ wire # <<>> /\ wire' = Tail(wire)
      /\ work = "there" /\ step["near"] = "loop"
      /\ UNCHANGED <<cancel, killing, ctrl, work, made, active, retire, daemon, serve, pos,
                     stdin>>
  BY DEF TakeBatch, At, ownerVars, daemonVars
<1>2. Head(wire) = b /\ b \in Batches /\ Tail(wire) = <<>>
  <2>1. wire \in Seq(Batches) /\ Len(wire) <= 1
    BY DEF StreamTypes
  <2>2. Head(wire) \in Batches /\ Head(wire) = wire[1] /\ Tail(wire) \in Seq(Batches)
    BY <1>1, <2>1, HeadTailProperties
  <2>3. Len(wire) \in Nat /\ Len(wire) # 0 /\ Len(Tail(wire)) = Len(wire) - 1
    BY <1>1, <2>1, HeadTailProperties, LenProperties, EmptySeq
  <2>4. Len(Tail(wire)) = 0
    BY <2>1, <2>3
  <2> QED BY <2>2, <2>4, EmptySeq
<1> HIDE DEF b
<1>3. LoopTop("near") => \/ UNCHANGED tree
                          \/ /\ Alive(tree["near"])
                             /\ tree' = [tree EXCEPT !["near"] = "dead"]
  <2> SUFFICES ASSUME LoopTop("near"), tree' # tree
               PROVE  /\ Alive(tree["near"])
                      /\ tree' = [tree EXCEPT !["near"] = "dead"]
    OBVIOUS
  <2>1. tree' = [tree EXCEPT !["near"] = IF Alive(@) THEN "dead" ELSE @]
    BY DEF LoopTop, Terminated
  <2>2. CASE Alive(tree["near"])
    BY <2>1, <2>2
  <2>3. CASE ~Alive(tree["near"])
    <3>1. tree' = [tree EXCEPT !["near"] = tree["near"]]
      BY <2>1, <2>3
    <3> QED BY <3>1 DEF JobTypes
  <2> QED BY <2>2, <2>3
<1>4. \/ /\ b.gap /\ verdict' = "failed"
         /\ step' = [step EXCEPT !["near"] = "reap"]
         /\ UNCHANGED <<status, out, tree>>
      \/ /\ ~b.gap /\ Final(b)
         /\ verdict' = b.status
         /\ step' = [step EXCEPT !["near"] = "reap"]
         /\ out' = [out EXCEPT !["near"] = @ \o b.chunks]
         /\ UNCHANGED <<status, tree>>
      \/ /\ ~b.gap
         /\ out' = [out EXCEPT !["near"] = @ \o b.chunks]
         /\ status' = [status EXCEPT !["near"] = IF b.status = "running" THEN "running" ELSE @]
         /\ LoopTop("near")
         /\ UNCHANGED <<verdict, step>>
  BY <1>2 DEF TakeBatch, Goes
<1>5. [status EXCEPT !["near"] = IF b.status = "running" THEN "running" ELSE @]
        \in {status, [status EXCEPT !["near"] = "running"]}
  BY DEF JobTypes
<1> QED BY <1>1, <1>2, <1>3, <1>4, <1>5 DEF b, Final

\* What the batch changes besides the output.
LEMMA BatchEffect ==
  ASSUME JobTypes, StreamTypes, TakeBatch
  PROVE  /\ work = "there" /\ step["near"] = "loop"
         /\ step' \in {step, [step EXCEPT !["near"] = "reap"]}
         /\ status' \in {status, [status EXCEPT !["near"] = "running"]}
         /\ UNCHANGED <<cancel, killing, ctrl, work, active, retire, daemon, serve, stdin>>
         /\ \/ UNCHANGED tree
            \/ Alive(tree["near"]) /\ tree' = [tree EXCEPT !["near"] = "dead"]
         /\ verdict' \in {verdict, "exited", "failed"}
<1>1. verdict' \in {verdict, "exited", "failed"}
  BY BatchTaken
<1>2. status' \in {status, [status EXCEPT !["near"] = "running"]}
  BY BatchTaken
<1>3. UNCHANGED tree \/ (Alive(tree["near"]) /\ tree' = [tree EXCEPT !["near"] = "dead"])
  BY BatchTaken
<1> QED BY <1>1, <1>2, <1>3, BatchTaken

\* Every step keeps the types of the jobs.
LEMMA JobTypesKept == JobInv /\ [JobNext]_vars => JobTypes'
<1> SUFFICES ASSUME JobInv, [JobNext]_vars PROVE JobTypes'
  OBVIOUS
<1>0. JobTypes /\ PlanTypes /\ StreamTypes /\ Stages
  BY DEF JobInv
<1>1. ASSUME NEW w \in Works, Start(w) PROVE JobTypes'
  BY <1>0, <1>1 DEF Start, JobTypes, Statuses, Steps, Trees, Jobs
<1>2. ASSUME SpawnWorkers PROVE JobTypes'
  BY <1>0, <1>2 DEF SpawnWorkers, JobTypes, Statuses, Steps, Trees, Jobs
<1>3. ASSUME RetireCancels PROVE JobTypes'
  BY <1>0, <1>3 DEF RetireCancels, Flagged, Going, Finished, JobTypes, Statuses, Steps,
     Trees, Jobs
<1>4. ASSUME Forget PROVE JobTypes'
  BY <1>0, <1>4 DEF Forget, JobTypes, Statuses, Steps, Trees, Jobs
<1>5. ASSUME NEW j \in Jobs, Cancel(j) PROVE JobTypes'
  <2>1. /\ cancel' \in {cancel, [cancel EXCEPT ![j] = TRUE]}
        /\ killing' \in {killing, [killing EXCEPT ![j] = TRUE]}
        /\ UNCHANGED <<status, ctrl, step, tree>>
    BY <1>5 DEF Cancel, Flagged
  <2> QED BY <1>0, <2>1 DEF JobTypes
<1>6. ASSUME NEW j \in Jobs, Kill(j) PROVE JobTypes'
  BY <1>0, <1>6 DEF Kill, Lives, Terminated, Alive, JobTypes, Statuses, Steps, Trees,
     Jobs
<1>7. ASSUME NEW j \in Jobs, Check(j) PROVE JobTypes'
  BY <1>0, <1>7 DEF Check, At, Lives, Goes, Fails, Programs, JobTypes, Statuses, Steps,
     Trees, Jobs
<1>8. ASSUME NEW j \in Jobs, Spawn(j) PROVE JobTypes'
  BY <1>0, <1>8 DEF Spawn, At, Lives, Goes, Fails, JobTypes, Statuses, Steps, Trees,
     Jobs
<1>9. ASSUME NEW j \in Jobs, Control(j) PROVE JobTypes'
  BY <1>0, <1>9 DEF Control, At, Lives, Goes, Terminated, Alive, JobTypes, Statuses,
     Steps, Trees, Jobs
<1>10. ASSUME NEW j \in Jobs, Running(j) PROVE JobTypes'
  BY <1>0, <1>10 DEF Running, At, Lives, Goes, Fails, LoopTop, Terminated, Alive, Runs,
     JobTypes, Statuses, Steps, Trees, Jobs
<1>11. ASSUME NEW j \in Jobs, LoopKill(j) PROVE JobTypes'
  BY <1>0, <1>11 DEF LoopKill, At, Lives, LoopTop, Terminated, Alive, Runs, JobTypes,
     Statuses, Steps, Trees, Jobs
<1>12. ASSUME NEW j \in Jobs, LoopExit(j) PROVE JobTypes'
  BY <1>0, <1>12 DEF LoopExit, At, Lives, Goes, Runs, JobTypes, Statuses, Steps, Trees,
     Jobs
<1>13. ASSUME NEW j \in Jobs, Exit(j) PROVE JobTypes'
  BY <1>0, <1>13 DEF Exit, At, Lives, Goes, Fails, Unread, JobTypes, Statuses, Steps,
     Trees, Jobs
<1>14. ASSUME NEW j \in Jobs, Ends(j) PROVE JobTypes'
  BY <1>0, <1>14 DEF Ends, Runs, JobTypes, Statuses, Steps, Trees, Jobs
<1>15. ASSUME TakeBatch PROVE JobTypes'
  BY <1>0, <1>15, BatchEffect
     DEF JobTypes, Statuses, Steps, Trees, Jobs
<1>16. ASSUME TakeEnd PROVE JobTypes'
  BY <1>0, <1>16 DEF TakeEnd, At, Lives, Goes, Alive, JobTypes, Statuses, Steps, Trees,
     Jobs
<1>17. ASSUME Reap PROVE JobTypes'
  <2>1. verdict \in {"exited", "failed"}
    BY <1>0, <1>17 DEF Reap, At, Lives, Stages, PlanTypes, Jobs
  <2> QED BY <1>0, <2>1, <1>17 DEF Reap, Goes, JobTypes, Statuses, Steps, Trees, Jobs
<1>18. ASSUME DaemonStarts PROVE JobTypes'
  BY <1>0, <1>18 DEF DaemonStarts, Connected, Goes, JobTypes, Statuses, Steps, Trees,
     Jobs
<1>19. ASSUME StdinEnds PROVE JobTypes'
  BY <1>0, <1>19, ZenonT(60) DEF StdinEnds, Connected, Flagged, Going, Finished, JobTypes, Statuses,
     Steps, Trees, Jobs
<1>20. ASSUME ServeCancel PROVE JobTypes'
  BY <1>0, <1>20, ZenonT(60) DEF ServeCancel, Flagged, Going, Finished, JobTypes, Statuses, Steps,
     Trees, Jobs
<1>21. ASSUME HangUp PROVE JobTypes'
  BY <1>0, <1>21 DEF HangUp, Connected, JobTypes, Statuses, Steps, Trees, Jobs
<1>22. ASSUME Retry PROVE JobTypes'
  BY <1>0, <1>22 DEF Retry, JobTypes, Statuses, Steps, Trees, Jobs
<1>23. ASSUME CheckTransfer PROVE JobTypes'
  BY <1>0, <1>23 DEF CheckTransfer, At, Lives, Goes, Transfers, JobTypes, Statuses,
     Steps, Trees, Jobs
<1>24. ASSUME Concludes PROVE JobTypes'
  BY <1>0, <1>24 DEF Concludes, InBody, NearEnds, At, Lives, Goes, JobTypes, Statuses,
     Steps, Trees, Jobs
<1>25. ASSUME UNCHANGED <<status, cancel, killing, ctrl, step, tree>> PROVE JobTypes'
  BY <1>0, <1>25 DEF JobTypes, Statuses, Steps, Trees, Jobs
<1>26. ASSUME
          \/ Retire \/ ServeBatch \/ DaemonExits \/ Writes \/ Lose
      PROVE  UNCHANGED <<status, cancel, killing, ctrl, step, tree>>
  BY <1>26 DEF Retire, ServeBatch, DaemonExits, Writes, Lose
<1>27. ASSUME NEW j \in Jobs,
          \/ LoopOutput(j) \/ Drain(j)
      PROVE  UNCHANGED <<status, cancel, killing, ctrl, step, tree>>
  BY <1>27 DEF LoopOutput, Drain
<1>28. ASSUME UNCHANGED vars
      PROVE  UNCHANGED <<status, cancel, killing, ctrl, step, tree>>
  BY <1>28 DEF vars
<1> QED BY <1>1, <1>2, <1>3, <1>4, <1>5, <1>6, <1>7, <1>8, <1>9, <1>10, <1>11, <1>12,
           <1>13, <1>14, <1>15, <1>16, <1>17, <1>18, <1>19, <1>20, <1>21, <1>22, <1>23,
           <1>24, <1>25, <1>26, <1>27, <1>28
       DEF JobNext, Next, Worker, Serve, Works

\* Every step keeps the types of the registry and of the daemon.
LEMMA PlanTypesKept == JobInv /\ [JobNext]_vars => PlanTypes'
<1> SUFFICES ASSUME JobInv, [JobNext]_vars PROVE PlanTypes'
  OBVIOUS
<1>0. JobTypes /\ PlanTypes /\ StreamTypes
  BY DEF JobInv
<1>1. ASSUME NEW w \in Works, Start(w) PROVE PlanTypes'
  BY <1>0, <1>1 DEF Start, ownerVars, daemonVars, PlanTypes
<1>2. ASSUME Retire PROVE PlanTypes'
  BY <1>0, <1>2 DEF Retire, daemonVars, PlanTypes
<1>3. ASSUME RetireCancels PROVE PlanTypes'
  BY <1>0, <1>3 DEF RetireCancels, Flagged, Going, Finished, daemonVars, PlanTypes
<1>4. ASSUME TakeBatch PROVE PlanTypes'
  BY <1>0, <1>4, BatchEffect
     DEF PlanTypes
<1>5. ASSUME TakeEnd PROVE PlanTypes'
  BY <1>0, <1>5 DEF TakeEnd, At, Lives, Goes, Alive, ownerVars, daemonVars, PlanTypes
<1>6. ASSUME Reap PROVE PlanTypes'
  BY <1>0, <1>6 DEF Reap, At, Lives, Goes, ownerVars, daemonVars, PlanTypes
<1>7. ASSUME DaemonStarts PROVE PlanTypes'
  BY <1>0, <1>7 DEF DaemonStarts, Connected, Goes, ownerVars, PlanTypes
<1>8. ASSUME StdinEnds PROVE PlanTypes'
  BY <1>0, <1>8 DEF StdinEnds, Connected, Flagged, Going, Finished, ownerVars, PlanTypes
<1>9. ASSUME ServeBatch PROVE PlanTypes'
  BY <1>0, <1>9 DEF ServeBatch, Connected, Batch, Final, ownerVars, PlanTypes
<1>10. ASSUME ServeCancel PROVE PlanTypes'
  BY <1>0, <1>10 DEF ServeCancel, Flagged, Going, Finished, ownerVars, PlanTypes
<1>11. ASSUME DaemonExits PROVE PlanTypes'
  BY <1>0, <1>11 DEF DaemonExits, ownerVars, PlanTypes
<1>12. ASSUME CheckTransfer PROVE PlanTypes'
  BY <1>0, <1>12 DEF CheckTransfer, At, Lives, Goes, Transfers, ownerVars, daemonVars,
     PlanTypes
<1>13. ASSUME Concludes PROVE PlanTypes'
  BY <1>0, <1>13 DEF Concludes, InBody, NearEnds, At, Lives, Goes, ownerVars,
     daemonVars, PlanTypes
<1>14. ASSUME UNCHANGED <<work, verdict, active, retire, daemon, serve, stdin>> PROVE PlanTypes'
  BY <1>0, <1>14 DEF PlanTypes
<1>15. ASSUME
          \/ SpawnWorkers \/ Forget \/ Writes \/ Lose \/ HangUp \/ Retry
      PROVE  UNCHANGED <<work, verdict, active, retire, daemon, serve, stdin>>
  BY <1>15 DEF SpawnWorkers, Forget, Writes, Lose, HangUp, Retry, ownerVars, daemonVars
<1>16. ASSUME NEW j \in Jobs,
          \/ Cancel(j) \/ Kill(j) \/ Check(j) \/ Spawn(j) \/ Control(j) \/ Running(j)
          \/ LoopKill(j) \/ LoopOutput(j) \/ LoopExit(j) \/ Drain(j) \/ Exit(j)
          \/ Ends(j)
      PROVE  UNCHANGED <<work, verdict, active, retire, daemon, serve, stdin>>
  BY <1>16 DEF Cancel, Kill, Check, Spawn, Control, Running, LoopKill, LoopOutput,
     LoopExit, Drain, Exit, Ends, Flagged, ownerVars, daemonVars, LoopTop
<1>17. ASSUME UNCHANGED vars
      PROVE  UNCHANGED <<work, verdict, active, retire, daemon, serve, stdin>>
  BY <1>17 DEF ownerVars, daemonVars, vars
<1> QED BY <1>1, <1>2, <1>3, <1>4, <1>5, <1>6, <1>7, <1>8, <1>9, <1>10, <1>11, <1>12,
           <1>13, <1>14, <1>15, <1>16, <1>17
       DEF JobNext, Next, Worker, Serve, Works

\* Every step keeps step, status, tree and controller together.
LEMMA StagesKept == JobInv /\ [JobNext]_vars => Stages'
<1> SUFFICES ASSUME JobInv, [JobNext]_vars PROVE Stages'
  OBVIOUS
<1>0. JobTypes /\ PlanTypes /\ StreamTypes /\ Stages /\ DaemonsJob
  BY DEF JobInv
<1>1. ASSUME NEW w \in Works, Start(w) PROVE Stages'
  BY <1>0, <1>1 DEF Start, DaemonsJob, Stages, JobTypes, Jobs, Finished, Runs, Copies,
     Unspawned, Guarded, Programs
<1>2. ASSUME SpawnWorkers PROVE Stages'
  BY <1>0, <1>2 DEF SpawnWorkers, Stages, JobTypes, Jobs, Finished, Runs, Copies,
     Unspawned, Guarded, Programs
<1>3. ASSUME Forget PROVE Stages'
  BY <1>0, <1>3 DEF Forget, Stages, JobTypes, Jobs, Finished, Runs, Copies, Unspawned,
     Guarded, Programs
<1>4. ASSUME NEW j \in Jobs, Kill(j) PROVE Stages'
  BY <1>0, <1>4 DEF Kill, Lives, Terminated, Alive, Stages, JobTypes, Jobs, Finished,
     Runs, Copies, Unspawned, Guarded, Programs
<1>5. ASSUME NEW j \in Jobs, Check(j) PROVE Stages'
  BY <1>0, <1>5 DEF Check, At, Lives, Goes, Fails, Programs, Stages, JobTypes, Jobs,
     Finished, Runs, Copies, Unspawned, Guarded
<1>6. ASSUME NEW j \in Jobs, Spawn(j) PROVE Stages'
  BY <1>0, <1>6 DEF Spawn, At, Lives, Goes, Fails, Stages, JobTypes, Jobs, Finished,
     Runs, Copies, Unspawned, Guarded, Programs
<1>7. ASSUME NEW j \in Jobs, Control(j) PROVE Stages'
  BY <1>0, <1>7 DEF Control, At, Lives, Goes, Terminated, Alive, Stages, JobTypes, Jobs,
     Finished, Runs, Copies, Unspawned, Guarded, Programs
<1>8. ASSUME NEW j \in Jobs, Running(j) PROVE Stages'
  BY <1>0, <1>8 DEF Running, At, Lives, Goes, Fails, LoopTop, Terminated, Alive, Runs,
     Stages, JobTypes, Jobs, Finished, Copies, Unspawned, Guarded, Programs
<1>9. ASSUME NEW j \in Jobs, LoopKill(j) PROVE Stages'
  BY <1>0, <1>9 DEF LoopKill, At, Lives, LoopTop, Terminated, Alive, Runs, Stages,
     JobTypes, Jobs, Finished, Copies, Unspawned, Guarded, Programs
<1>10. ASSUME NEW j \in Jobs, LoopExit(j) PROVE Stages'
  BY <1>0, <1>10 DEF LoopExit, At, Lives, Goes, Runs, Stages, JobTypes, Jobs, Finished,
     Copies, Unspawned, Guarded, Programs
<1>11. ASSUME NEW j \in Jobs, Exit(j) PROVE Stages'
  BY <1>0, <1>11 DEF Exit, At, Lives, Goes, Fails, Unread, Stages, JobTypes, Jobs,
     Finished, Runs, Copies, Unspawned, Guarded, Programs
<1>12. ASSUME NEW j \in Jobs, Ends(j) PROVE Stages'
  BY <1>0, <1>12 DEF Ends, Runs, Stages, JobTypes, Jobs, Finished, Copies, Unspawned,
     Guarded, Programs
<1>13. ASSUME TakeBatch PROVE Stages'
  <2>1. /\ work = "there" /\ step["near"] = "loop" /\ UNCHANGED <<work, ctrl>>
        /\ \/ /\ verdict' # "none" /\ step' = [step EXCEPT !["near"] = "reap"]
              /\ UNCHANGED <<status, tree>>
           \/ /\ status' \in {status, [status EXCEPT !["near"] = "running"]}
              /\ tree' \in {tree, [tree EXCEPT !["near"] = "dead"]}
              /\ UNCHANGED <<verdict, step>>
    BY <1>0, <1>13, BatchTaken
  <2> QED BY <1>0, <2>1
        DEF Stages, JobTypes, Jobs, Finished, Runs, Copies, Unspawned, Guarded
<1>14. ASSUME TakeEnd PROVE Stages'
  BY <1>0, <1>14 DEF TakeEnd, At, Lives, Goes, Alive, Stages, JobTypes, Jobs, Finished,
     Runs, Copies, Unspawned, Guarded, Programs
<1>15. ASSUME Reap PROVE Stages'
  BY <1>0, <1>15 DEF Reap, At, Lives, Goes, PlanTypes, Stages, JobTypes, Jobs, Finished,
     Runs, Copies, Unspawned, Guarded, Programs
<1>16. ASSUME DaemonStarts PROVE Stages'
  BY <1>0, <1>16 DEF Connected, Goes, DaemonStarts, DaemonsJob, Stages, JobTypes, Jobs,
     Finished, Runs, Copies, Unspawned, Guarded, Programs
<1>17. ASSUME HangUp PROVE Stages'
  BY <1>0, <1>17 DEF HangUp, Connected, Stages, JobTypes, Jobs, Finished, Runs, Copies,
     Unspawned, Guarded, Programs
<1>18. ASSUME Retry PROVE Stages'
  BY <1>0, <1>18 DEF Retry, Stages, JobTypes, Jobs, Finished, Runs, Copies, Unspawned,
     Guarded, Programs
<1>19. ASSUME CheckTransfer PROVE Stages'
  BY <1>0, <1>19 DEF CheckTransfer, At, Lives, Goes, Transfers, Stages, JobTypes, Jobs,
     Finished, Runs, Copies, Unspawned, Guarded, Programs
<1>20. ASSUME Concludes PROVE Stages'
  BY <1>0, <1>20 DEF Concludes, InBody, NearEnds, At, Lives, Goes, Transfers, Stages,
     JobTypes, Jobs, Finished, Runs, Copies, Unspawned, Guarded, Programs
<1>21. ASSUME UNCHANGED <<status, step, tree, ctrl, work, verdict>> PROVE Stages'
  BY <1>0, <1>21 DEF Stages, JobTypes, Jobs, Finished, Runs, Copies, Unspawned, Guarded,
     Programs
<1>22. ASSUME
          \/ Retire \/ RetireCancels \/ StdinEnds \/ ServeBatch \/ ServeCancel
          \/ DaemonExits \/ Writes \/ Lose
      PROVE  UNCHANGED <<status, step, tree, ctrl, work, verdict>>
  BY <1>22 DEF Retire, RetireCancels, StdinEnds, ServeBatch, ServeCancel, DaemonExits,
     Writes, Lose, Flagged
<1>23. ASSUME NEW j \in Jobs,
          \/ Cancel(j) \/ LoopOutput(j) \/ Drain(j)
      PROVE  UNCHANGED <<status, step, tree, ctrl, work, verdict>>
  BY <1>23 DEF Cancel, LoopOutput, Drain, Flagged
<1>24. ASSUME UNCHANGED vars
      PROVE  UNCHANGED <<status, step, tree, ctrl, work, verdict>>
  BY <1>24 DEF vars
<1> QED BY <1>1, <1>2, <1>3, <1>4, <1>5, <1>6, <1>7, <1>8, <1>9, <1>10, <1>11, <1>12,
           <1>13, <1>14, <1>15, <1>16, <1>17, <1>18, <1>19, <1>20, <1>21, <1>22, <1>23,
           <1>24
       DEF JobNext, Next, Worker, Serve, Works

\* Every step keeps the daemon to its transport.
LEMMA DaemonsJobKept == JobInv /\ [JobNext]_vars => DaemonsJob'
<1> SUFFICES ASSUME JobInv, [JobNext]_vars PROVE DaemonsJob'
  OBVIOUS
<1>0. JobTypes /\ PlanTypes /\ StreamTypes /\ Stages /\ DaemonsJob
  BY DEF JobInv
<1>1. ASSUME NEW w \in Works, Start(w) PROVE DaemonsJob'
  BY <1>0, <1>1 DEF Start, daemonVars, DaemonsJob, JobTypes, Jobs, Unspawned, Stages
<1>2. ASSUME SpawnWorkers PROVE DaemonsJob'
  BY <1>0, <1>2 DEF SpawnWorkers, daemonVars, DaemonsJob, JobTypes, Jobs, Unspawned,
     Stages
<1>3. ASSUME NEW j \in Jobs, Check(j) PROVE DaemonsJob'
  BY <1>0, <1>3 DEF Check, At, Lives, Goes, Fails, Programs, daemonVars, DaemonsJob,
     JobTypes, Jobs, Unspawned, Stages
<1>4. ASSUME NEW j \in Jobs, Spawn(j) PROVE DaemonsJob'
  BY <1>0, <1>4 DEF Spawn, At, Lives, Goes, Fails, daemonVars, DaemonsJob, JobTypes,
     Jobs, Unspawned, Stages
<1>5. ASSUME NEW j \in Jobs, Control(j) PROVE DaemonsJob'
  BY <1>0, <1>5 DEF Control, At, Lives, Goes, Terminated, Alive, daemonVars, DaemonsJob,
     JobTypes, Jobs, Unspawned, Stages
<1>6. ASSUME NEW j \in Jobs, Running(j) PROVE DaemonsJob'
  BY <1>0, <1>6 DEF Running, At, Lives, Goes, Fails, LoopTop, Terminated, Alive, Runs,
     daemonVars, DaemonsJob, JobTypes, Jobs, Unspawned, Stages
<1>7. ASSUME NEW j \in Jobs, LoopExit(j) PROVE DaemonsJob'
  BY <1>0, <1>7 DEF LoopExit, At, Lives, Goes, Runs, daemonVars, DaemonsJob, JobTypes,
     Jobs, Unspawned, Stages
<1>8. ASSUME NEW j \in Jobs, Exit(j) PROVE DaemonsJob'
  BY <1>0, <1>8 DEF Exit, At, Lives, Goes, Fails, Unread, daemonVars, DaemonsJob,
     JobTypes, Jobs, Unspawned, Stages
<1>9. ASSUME TakeBatch PROVE DaemonsJob'
  <2>1. /\ work = "there" /\ step["near"] = "loop" /\ UNCHANGED <<work, daemon, serve>>
        /\ step' \in {step, [step EXCEPT !["near"] = "reap"]}
    BY <1>0, <1>9, BatchTaken
  <2> QED BY <1>0, <2>1 DEF DaemonsJob, JobTypes, Jobs, Unspawned
<1>10. ASSUME TakeEnd PROVE DaemonsJob'
  BY <1>0, <1>10 DEF TakeEnd, At, Lives, Goes, Alive, daemonVars, DaemonsJob, JobTypes,
     Jobs, Unspawned, Stages
<1>11. ASSUME Reap PROVE DaemonsJob'
  BY <1>0, <1>11 DEF Reap, At, Lives, Goes, daemonVars, DaemonsJob, JobTypes, Jobs,
     Unspawned, Stages
<1>12. ASSUME DaemonStarts PROVE DaemonsJob'
  BY <1>0, <1>12 DEF DaemonStarts, Connected, Goes, DaemonsJob, JobTypes, Jobs,
     Unspawned, Stages
<1>13. ASSUME ServeBatch PROVE DaemonsJob'
  BY <1>0, <1>13 DEF ServeBatch, Connected, Batch, Final, DaemonsJob, JobTypes, Jobs,
     Unspawned, Stages
<1>14. ASSUME ServeCancel PROVE DaemonsJob'
  BY <1>0, <1>14 DEF ServeCancel, Flagged, Going, Finished, DaemonsJob, JobTypes, Jobs,
     Unspawned, Stages
<1>15. ASSUME DaemonExits PROVE DaemonsJob'
  BY <1>0, <1>15 DEF DaemonExits, DaemonsJob, JobTypes, Jobs, Unspawned, Stages
<1>16. ASSUME Retry PROVE DaemonsJob'
  BY <1>0, <1>16 DEF Retry, Transfers, daemonVars, DaemonsJob, JobTypes, Jobs,
     Unspawned, Stages
<1>17. ASSUME CheckTransfer PROVE DaemonsJob'
  BY <1>0, <1>17 DEF CheckTransfer, At, Lives, Goes, Transfers, daemonVars, DaemonsJob,
     JobTypes, Jobs, Unspawned, Stages
<1>18. ASSUME Concludes PROVE DaemonsJob'
  BY <1>0, <1>18 DEF Concludes, InBody, NearEnds, At, Lives, Goes, daemonVars,
     DaemonsJob, JobTypes, Jobs, Unspawned, Stages
<1>19. ASSUME UNCHANGED <<work, step, daemon, serve>> PROVE DaemonsJob'
  BY <1>0, <1>19 DEF DaemonsJob, JobTypes, Jobs, Unspawned, Stages
<1>20. ASSUME
          \/ Retire \/ RetireCancels \/ Forget \/ StdinEnds \/ Writes \/ Lose \/ HangUp
      PROVE  UNCHANGED <<work, step, daemon, serve>>
  BY <1>20 DEF Retire, RetireCancels, Forget, StdinEnds, Writes, Lose, HangUp,
     daemonVars, Flagged
<1>21. ASSUME NEW j \in Jobs,
          \/ Cancel(j) \/ Kill(j) \/ LoopKill(j) \/ LoopOutput(j) \/ Drain(j) \/ Ends(j)
      PROVE  UNCHANGED <<work, step, daemon, serve>>
  BY <1>21 DEF Cancel, Kill, LoopKill, LoopOutput, Drain, Ends, Flagged, daemonVars,
     LoopTop
<1>22. ASSUME UNCHANGED vars
      PROVE  UNCHANGED <<work, step, daemon, serve>>
  BY <1>22 DEF daemonVars, vars
<1> QED BY <1>1, <1>2, <1>3, <1>4, <1>5, <1>6, <1>7, <1>8, <1>9, <1>10, <1>11, <1>12,
           <1>13, <1>14, <1>15, <1>16, <1>17, <1>18, <1>19, <1>20, <1>21, <1>22
       DEF JobNext, Next, Worker, Serve, Works

\* Every step keeps cancelled jobs terminated.
LEMMA CancelledKept == JobInv /\ [JobNext]_vars => Cancelled'
<1> SUFFICES ASSUME JobInv, [JobNext]_vars PROVE Cancelled'
  OBVIOUS
<1>0. JobTypes /\ PlanTypes /\ StreamTypes /\ Stages /\ DaemonsJob /\ Cancelled
  BY DEF JobInv
<1>1. ASSUME NEW w \in Works, Start(w) PROVE Cancelled'
  BY <1>0, <1>1 DEF Start, daemonVars, Cancelled, JobTypes, Jobs, Unspawned, Stages,
     DaemonsJob, Alive, Finished, Guarded
<1>2. ASSUME SpawnWorkers PROVE Cancelled'
  BY <1>0, <1>2 DEF SpawnWorkers, daemonVars, Cancelled, JobTypes, Jobs, Unspawned,
     Stages, DaemonsJob, Alive, Finished, Guarded
<1>3. ASSUME RetireCancels PROVE Cancelled'
  BY <1>0, <1>3 DEF RetireCancels, Flagged, Going, Finished, daemonVars, Cancelled,
     JobTypes, Jobs, Unspawned, Stages, DaemonsJob, Alive, Guarded
<1>4. ASSUME Forget PROVE Cancelled'
  BY <1>0, <1>4 DEF Forget, daemonVars, Cancelled, JobTypes, Jobs, Unspawned, Stages,
     DaemonsJob, Alive, Finished, Guarded
<1>5. ASSUME NEW j \in Jobs, Cancel(j) PROVE Cancelled'
  BY <1>0, <1>5 DEF Cancel, Flagged, Lives, Going, Finished, daemonVars, Cancelled,
     JobTypes, Jobs, Unspawned, Stages, DaemonsJob, Alive, Guarded
<1>6. ASSUME NEW j \in Jobs, Kill(j) PROVE Cancelled'
  BY <1>0, <1>6 DEF Kill, Lives, Terminated, Alive, daemonVars, Cancelled, JobTypes,
     Jobs, Unspawned, Stages, DaemonsJob, Finished, Guarded
<1>7. ASSUME NEW j \in Jobs, Check(j) PROVE Cancelled'
  BY <1>0, <1>7 DEF Check, At, Lives, Goes, Fails, Programs, daemonVars, Cancelled,
     JobTypes, Jobs, Unspawned, Stages, DaemonsJob, Alive, Finished, Guarded
<1>8. ASSUME NEW j \in Jobs, Spawn(j) PROVE Cancelled'
  BY <1>0, <1>8 DEF Spawn, At, Lives, Goes, Fails, daemonVars, Cancelled, JobTypes,
     Jobs, Unspawned, Stages, DaemonsJob, Alive, Finished, Guarded
<1>9. ASSUME NEW j \in Jobs, Control(j) PROVE Cancelled'
  BY <1>0, <1>9 DEF Control, At, Lives, Goes, Terminated, Alive, daemonVars, Cancelled,
     JobTypes, Jobs, Unspawned, Stages, DaemonsJob, Finished, Guarded
<1>10. ASSUME NEW j \in Jobs, Running(j) PROVE Cancelled'
  BY <1>0, <1>10 DEF Running, At, Lives, Goes, Fails, LoopTop, Terminated, Alive, Runs,
     daemonVars, Cancelled, JobTypes, Jobs, Unspawned, Stages, DaemonsJob, Finished,
     Guarded
<1>11. ASSUME NEW j \in Jobs, LoopKill(j) PROVE Cancelled'
  BY <1>0, <1>11 DEF LoopKill, At, Lives, LoopTop, Terminated, Alive, Runs, daemonVars,
     Cancelled, JobTypes, Jobs, Unspawned, Stages, DaemonsJob, Finished, Guarded
<1>12. ASSUME NEW j \in Jobs, LoopExit(j) PROVE Cancelled'
  BY <1>0, <1>12 DEF LoopExit, At, Lives, Goes, Runs, daemonVars, Cancelled, JobTypes,
     Jobs, Unspawned, Stages, DaemonsJob, Alive, Finished, Guarded
<1>13. ASSUME NEW j \in Jobs, Exit(j) PROVE Cancelled'
  BY <1>0, <1>13 DEF Exit, At, Lives, Goes, Fails, Unread, daemonVars, Cancelled,
     JobTypes, Jobs, Unspawned, Stages, DaemonsJob, Alive, Finished, Guarded
<1>14. ASSUME NEW j \in Jobs, Ends(j) PROVE Cancelled'
  BY <1>0, <1>14 DEF Ends, Runs, daemonVars, Cancelled, JobTypes, Jobs, Unspawned,
     Stages, DaemonsJob, Alive, Finished, Guarded
<1>15. ASSUME TakeBatch PROVE Cancelled'
  BY <1>0, <1>15, BatchEffect
     DEF Cancelled, JobTypes, Jobs, Unspawned, Stages, DaemonsJob, Alive, Finished
<1>16. ASSUME TakeEnd PROVE Cancelled'
  BY <1>0, <1>16 DEF TakeEnd, At, Lives, Goes, Alive, daemonVars, Cancelled, JobTypes,
     Jobs, Unspawned, Stages, DaemonsJob, Finished, Guarded
<1>17. ASSUME Reap PROVE Cancelled'
  BY <1>0, <1>17 DEF Reap, At, Lives, Goes, daemonVars, Cancelled, JobTypes, Jobs,
     Unspawned, Stages, DaemonsJob, Alive, Finished, Guarded
<1>18. ASSUME DaemonStarts PROVE Cancelled'
  BY <1>0, <1>18 DEF DaemonStarts, Connected, Goes, Cancelled, JobTypes, Jobs,
     Unspawned, Stages, DaemonsJob, Alive, Finished, Guarded
<1>19. ASSUME StdinEnds PROVE Cancelled'
  BY <1>0, <1>19 DEF StdinEnds, Connected, Flagged, Going, Finished, Cancelled,
     JobTypes, Jobs, Unspawned, Stages, DaemonsJob, Alive, Guarded
<1>20. ASSUME ServeBatch PROVE Cancelled'
  BY <1>0, <1>20 DEF ServeBatch, Connected, Batch, Final, Cancelled, JobTypes, Jobs,
     Unspawned, Stages, DaemonsJob, Alive, Finished, Guarded
<1>21. ASSUME ServeCancel PROVE Cancelled'
  BY <1>0, <1>21 DEF ServeCancel, Flagged, Going, Finished, Cancelled, JobTypes, Jobs,
     Unspawned, Stages, DaemonsJob, Alive, Guarded
<1>22. ASSUME DaemonExits PROVE Cancelled'
  <2>1. /\ serve = "exit" /\ ~killing["far"] /\ daemon' = "gone"
        /\ UNCHANGED <<cancel, ctrl, killing, tree, serve, step, status>>
    BY <1>22 DEF DaemonExits
  <2>2. ~Alive(tree["far"]) \/ step["far"] = "control"
    <3>1. CASE Finished("far")
      BY <1>0, <3>1 DEF Stages, Jobs, Alive
    <3>2. CASE cancel["far"] /\ ctrl["far"]
      BY <1>0, <2>1, <3>2 DEF Cancelled, Jobs
    <3>3. CASE ~ctrl["far"]
      <4>1. step["far"] \in Unspawned \cup {"control", "done"}
        BY <1>0, <3>3 DEF Stages, Jobs, JobTypes, Steps, Copies, Guarded, Unspawned
      <4> QED BY <1>0, <4>1 DEF Stages, Jobs, Alive, Unspawned
    <3> QED BY <1>0, <2>1, <3>1, <3>2, <3>3 DEF Cancelled, JobTypes, Jobs
  <2> QED BY <1>0, <2>1, <2>2 DEF Cancelled, Alive, Finished
<1>23. ASSUME HangUp PROVE Cancelled'
  BY <1>0, <1>23 DEF HangUp, Connected, daemonVars, Cancelled, JobTypes, Jobs,
     Unspawned, Stages, DaemonsJob, Alive, Finished, Guarded
<1>24. ASSUME Retry PROVE Cancelled'
  BY <1>0, <1>24 DEF Retry, daemonVars, Cancelled, JobTypes, Jobs, Unspawned, Stages,
     DaemonsJob, Alive, Finished, Guarded
<1>25. ASSUME CheckTransfer PROVE Cancelled'
  BY <1>0, <1>25 DEF CheckTransfer, At, Lives, Goes, Transfers, daemonVars, Cancelled,
     JobTypes, Jobs, Unspawned, Stages, DaemonsJob, Alive, Finished, Guarded
<1>26. ASSUME Concludes PROVE Cancelled'
  BY <1>0, <1>26 DEF Concludes, InBody, NearEnds, At, Lives, Goes, daemonVars,
     Cancelled, JobTypes, Jobs, Unspawned, Stages, DaemonsJob, Alive, Finished, Guarded
<1>27. ASSUME UNCHANGED <<cancel, ctrl, killing, tree, serve, daemon, step, status>> PROVE Cancelled'
  BY <1>0, <1>27 DEF Cancelled, JobTypes, Jobs, Unspawned, Stages, DaemonsJob, Alive,
     Finished, Guarded
<1>28. ASSUME
          \/ Retire \/ Writes \/ Lose
      PROVE  UNCHANGED <<cancel, ctrl, killing, tree, serve, daemon, step, status>>
  BY <1>28 DEF Retire, Writes, Lose, daemonVars
<1>29. ASSUME NEW j \in Jobs,
          \/ LoopOutput(j) \/ Drain(j)
      PROVE  UNCHANGED <<cancel, ctrl, killing, tree, serve, daemon, step, status>>
  BY <1>29 DEF LoopOutput, Drain, daemonVars
<1>30. ASSUME UNCHANGED vars
      PROVE  UNCHANGED <<cancel, ctrl, killing, tree, serve, daemon, step, status>>
  BY <1>30 DEF daemonVars, vars
<1> QED BY <1>1, <1>2, <1>3, <1>4, <1>5, <1>6, <1>7, <1>8, <1>9, <1>10, <1>11, <1>12,
           <1>13, <1>14, <1>15, <1>16, <1>17, <1>18, <1>19, <1>20, <1>21, <1>22, <1>23,
           <1>24, <1>25, <1>26, <1>27, <1>28, <1>29, <1>30
       DEF JobNext, Next, Worker, Serve, Works

\* Every step keeps a retired registry empty or cancelled.
LEMMA RetiredKept == JobInv /\ [JobNext]_vars => Retired'
<1> SUFFICES ASSUME JobInv, [JobNext]_vars PROVE Retired'
  OBVIOUS
<1>0. JobTypes /\ PlanTypes /\ StreamTypes /\ Stages /\ Retired
  BY DEF JobInv
<1>1. ASSUME NEW w \in Works, Start(w) PROVE Retired'
  BY <1>0, <1>1 DEF Start, ownerVars, Retired, JobTypes, PlanTypes, Jobs, Stages,
     Finished
<1>2. ASSUME SpawnWorkers PROVE Retired'
  BY <1>0, <1>2 DEF SpawnWorkers, ownerVars, Retired, JobTypes, PlanTypes, Jobs, Stages,
     Finished
<1>3. ASSUME Retire PROVE Retired'
  BY <1>0, <1>3 DEF Retire, Retired, JobTypes, PlanTypes, Jobs, Stages, Finished
<1>4. ASSUME RetireCancels PROVE Retired'
  BY <1>0, <1>4 DEF RetireCancels, Flagged, Going, Finished, Retired, JobTypes,
     PlanTypes, Jobs, Stages
<1>5. ASSUME Forget PROVE Retired'
  BY <1>0, <1>5 DEF Forget, ownerVars, Retired, JobTypes, PlanTypes, Jobs, Stages,
     Finished
<1>6. ASSUME NEW j \in Jobs, Cancel(j) PROVE Retired'
  BY <1>0, <1>6 DEF Cancel, Flagged, Lives, Going, Finished, ownerVars, Retired,
     JobTypes, PlanTypes, Jobs, Stages
<1>7. ASSUME NEW j \in Jobs, Check(j) PROVE Retired'
  BY <1>0, <1>7 DEF Check, At, Lives, Goes, Fails, Programs, ownerVars, Retired,
     JobTypes, PlanTypes, Jobs, Stages, Finished
<1>8. ASSUME NEW j \in Jobs, Spawn(j) PROVE Retired'
  BY <1>0, <1>8 DEF Spawn, At, Lives, Goes, Fails, ownerVars, Retired, JobTypes,
     PlanTypes, Jobs, Stages, Finished
<1>9. ASSUME NEW j \in Jobs, Running(j) PROVE Retired'
  BY <1>0, <1>9 DEF Running, At, Lives, Goes, Fails, LoopTop, Terminated, Alive, Runs,
     ownerVars, Retired, JobTypes, PlanTypes, Jobs, Stages, Finished
<1>10. ASSUME NEW j \in Jobs, Exit(j) PROVE Retired'
  BY <1>0, <1>10 DEF Exit, At, Lives, Goes, Fails, Unread, ownerVars, Retired, JobTypes,
     PlanTypes, Jobs, Stages, Finished
<1>11. ASSUME TakeBatch PROVE Retired'
  BY <1>0, <1>11, BatchEffect
     DEF Retired, JobTypes, PlanTypes, Jobs, Stages, Finished
<1>12. ASSUME Reap PROVE Retired'
  BY <1>0, <1>12 DEF Reap, At, Lives, Goes, ownerVars, Retired, JobTypes, PlanTypes,
     Jobs, Stages, Finished
<1>13. ASSUME DaemonStarts PROVE Retired'
  BY <1>0, <1>13 DEF DaemonStarts, Connected, Goes, ownerVars, Retired, JobTypes,
     PlanTypes, Jobs, Stages, Finished
<1>14. ASSUME StdinEnds PROVE Retired'
  BY <1>0, <1>14 DEF StdinEnds, Connected, Flagged, Going, Finished, ownerVars, Retired,
     JobTypes, PlanTypes, Jobs, Stages
<1>15. ASSUME ServeCancel PROVE Retired'
  BY <1>0, <1>15 DEF ServeCancel, Flagged, Going, Finished, ownerVars, Retired,
     JobTypes, PlanTypes, Jobs, Stages
<1>16. ASSUME Retry PROVE Retired'
  BY <1>0, <1>16 DEF Retry, ownerVars, Retired, JobTypes, PlanTypes, Jobs, Stages,
     Finished
<1>17. ASSUME CheckTransfer PROVE Retired'
  BY <1>0, <1>17 DEF CheckTransfer, At, Lives, Goes, Transfers, ownerVars, Retired,
     JobTypes, PlanTypes, Jobs, Stages, Finished
<1>18. ASSUME UNCHANGED <<active, retire, status, cancel>> PROVE Retired'
  BY <1>0, <1>18 DEF Retired, JobTypes, PlanTypes, Jobs, Stages, Finished
<1>19. ASSUME NEW j \in Jobs,
          \/ Kill(j) \/ Control(j) \/ LoopKill(j) \/ LoopOutput(j) \/ LoopExit(j)
          \/ Drain(j) \/ Ends(j)
      PROVE  UNCHANGED <<active, retire, status, cancel>>
  BY <1>19 DEF Kill, Control, LoopKill, LoopOutput, LoopExit, Drain, Ends, ownerVars,
     LoopTop
<1>20. ASSUME
          \/ TakeEnd \/ ServeBatch \/ DaemonExits \/ Writes \/ Lose \/ HangUp
          \/ Concludes
      PROVE  UNCHANGED <<active, retire, status, cancel>>
  BY <1>20 DEF TakeEnd, ServeBatch, DaemonExits, Writes, Lose, HangUp, Concludes,
     ownerVars
<1>21. ASSUME UNCHANGED vars
      PROVE  UNCHANGED <<active, retire, status, cancel>>
  BY <1>21 DEF ownerVars, vars
<1> QED BY <1>1, <1>2, <1>3, <1>4, <1>5, <1>6, <1>7, <1>8, <1>9, <1>10, <1>11, <1>12,
           <1>13, <1>14, <1>15, <1>16, <1>17, <1>18, <1>19, <1>20, <1>21
       DEF JobNext, Next, Worker, Serve, Works

\* A job records the next chunk.
LEMMA ChunkRecorded ==
  ASSUME NEW s \in Seq(Nat), Numbered(s, 0)
  PROVE  /\ Append(s, Len(s) + 1) \in Seq(Nat) /\ Len(Append(s, Len(s) + 1)) = Len(s) + 1
         /\ Numbered(Append(s, Len(s) + 1), 0)
<1>1. Len(s) \in Nat /\ Len(s) + 1 \in Nat
  BY LenProperties
<1>2. /\ Append(s, Len(s) + 1) \in Seq(Nat) /\ Len(Append(s, Len(s) + 1)) = Len(s) + 1
      /\ \A k \in 1 .. Len(s) : Append(s, Len(s) + 1)[k] = s[k]
      /\ Append(s, Len(s) + 1)[Len(s) + 1] = Len(s) + 1
  BY <1>1, AppendProperties
<1> QED BY <1>1, <1>2 DEF Numbered

\* A batch that continues a job's output is added to it.
LEMMA BatchAdded ==
  ASSUME NEW s \in Seq(Nat), NEW c \in Seq(Nat)
  PROVE  /\ s \o c \in Seq(Nat) /\ Len(s \o c) = Len(s) + Len(c)
         /\ Numbered(s, 0) /\ Numbered(c, Len(s)) => Numbered(s \o c, 0)
<1>1. Len(s) \in Nat /\ Len(c) \in Nat
  BY LenProperties
<1>2. /\ s \o c \in Seq(Nat) /\ Len(s \o c) = Len(s) + Len(c)
      /\ \A i \in 1 .. Len(s) + Len(c) :
           (s \o c)[i] = IF i <= Len(s) THEN s[i] ELSE c[i - Len(s)]
  BY ConcatProperties
<1>3. ASSUME Numbered(s, 0), Numbered(c, Len(s)), NEW i \in 1 .. Len(s) + Len(c)
      PROVE  (s \o c)[i] = 0 + i
  <2>1. CASE i <= Len(s)
    <3>1. i \in 1 .. Len(s)
      BY <1>1, <2>1
    <3> QED BY <1>2, <1>3, <2>1, <3>1 DEF Numbered
  <2>2. CASE ~(i <= Len(s))
    <3>1. i - Len(s) \in 1 .. Len(c) /\ Len(s) + (i - Len(s)) = i
      BY <1>1, <2>2
    <3>2. c[i - Len(s)] = i
      BY <1>3, <3>1 DEF Numbered
    <3> QED BY <1>2, <2>2, <3>2
  <2> QED BY <2>1, <2>2
<1> QED BY <1>2, <1>3 DEF Numbered

\* A read without a gap returns the chunks right after its cursor, and moves it
\* past them.
LEMMA BatchRead ==
  ASSUME JobTypes, StreamTypes, Recorded, pos <= Len(out["far"]), JobsAssumption
  PROVE  LET b == Batch("far", pos)
         IN  /\ b \in Batches /\ b.cursor \in Nat /\ b.cursor <= Len(out["far"])
             /\ ~b.gap => Numbered(b.chunks, pos) /\ b.cursor = pos + Len(b.chunks)
             /\ b.status = status["far"] /\ b.next = Len(out["far"])
<1> DEFINE s == out["far"]
           from == IF Len(s) > Retained THEN Len(s) - Retained ELSE 0
           first == IF pos < from THEN from ELSE pos
           last == IF first + ReadLimit < Len(s) THEN first + ReadLimit ELSE Len(s)
           b == Batch("far", pos)
<1>1. s \in Seq(Nat) /\ Len(s) \in Nat /\ pos \in Nat /\ Retained \in Nat \ {0}
      /\ ReadLimit \in Nat \ {0} /\ Numbered(s, 0) /\ pos <= Len(s)
      /\ status["far"] \in Statuses
  BY LenProperties, JobsAssumption DEF JobTypes, StreamTypes, Recorded, Jobs
<1>2. /\ b.chunks = SubSeq(s, first + 1, last) /\ b.cursor = last
      /\ b.gap = (pos < from) /\ b.status = status["far"] /\ b.next = Len(s)
      /\ b = [chunks |-> SubSeq(s, first + 1, last), cursor |-> last,
              gap |-> (pos < from), status |-> status["far"], next |-> Len(s)]
  BY DEF Batch, From, Gap
<1> HIDE DEF b, s
<1>3. from \in Nat /\ from <= Len(s) /\ first \in Nat /\ first <= last /\ last \in Nat
      /\ last <= Len(s)
  BY <1>1
<1> HIDE DEF from, first, last
<1>4. \A i \in first + 1 .. last : s[i] \in Nat /\ s[i] = i
  <2> SUFFICES ASSUME NEW i \in first + 1 .. last PROVE s[i] \in Nat /\ s[i] = i
    OBVIOUS
  <2>1. i \in 1 .. Len(s)
    BY <1>1, <1>3
  <2> QED BY <1>1, <2>1 DEF Numbered
<1> DEFINE r == SubSeq(s, first + 1, last)
<1>5. /\ r \in Seq(Nat) /\ Len(r) = last - first
      /\ \A k \in 1 .. last - first : r[k] = s[first + k]
  <2>1. first + 1 \in Int /\ last \in Int
    BY <1>3
  <2>2. /\ r \in Seq(Nat)
        /\ Len(r) = IF first + 1 <= last THEN last - (first + 1) + 1 ELSE 0
        /\ \A k \in 1 .. last - (first + 1) + 1 : r[k] = s[(first + 1) + k - 1]
    BY <1>4, <2>1, SubSeqProperties
  <2> HIDE DEF r
  <2>3. last - (first + 1) + 1 = last - first /\ \A k \in Int : (first + 1) + k - 1 = first + k
    BY <1>3
  <2>4. Len(r) = last - first
    BY <1>3, <2>2
  <2>5. ASSUME NEW k \in 1 .. last - first PROVE r[k] = s[first + k]
    <3>1. k \in 1 .. last - (first + 1) + 1 /\ k \in Int
      BY <2>3
    <3>2. r[k] = s[(first + 1) + k - 1]
      BY <2>2, <3>1
    <3> QED BY <2>3, <3>1, <3>2
  <2> QED BY <2>2, <2>4, <2>5
<1>6. b \in Batches
  BY <1>1, <1>2, <1>3, <1>5 DEF Batches
<1>7. ASSUME ~b.gap PROVE Numbered(b.chunks, pos) /\ b.cursor = pos + Len(b.chunks)
  <2>1. first = pos
    BY <1>1, <1>2, <1>7 DEF first
  <2>2. ASSUME NEW k \in 1 .. last - first PROVE b.chunks[k] = pos + k
    <3>1. first + k \in first + 1 .. last
      BY <1>3
    <3> QED BY <1>2, <1>4, <1>5, <2>1, <3>1
  <2> QED BY <1>1, <1>2, <1>3, <1>5, <2>1, <2>2 DEF Numbered
<1> QED BY <1>1, <1>2, <1>3, <1>6, <1>7 DEF b, s

\* Every step keeps the types of output and batches.
LEMMA StreamTypesKept == JobInv /\ [JobNext]_vars => StreamTypes'
<1> SUFFICES ASSUME JobInv, [JobNext]_vars PROVE StreamTypes'
  OBVIOUS
<1>0. JobTypes /\ StreamTypes /\ Recorded /\ Relayed
  BY DEF JobInv
<1>1. ASSUME NEW j \in Jobs, LoopOutput(j) PROVE StreamTypes'
  <2>1. out[j] \in Seq(Nat) /\ Numbered(out[j], 0)
    BY <1>0 DEF StreamTypes, Recorded
  <2>2. Append(out[j], Len(out[j]) + 1) \in Seq(Nat)
    BY <2>1, ChunkRecorded
  <2> QED BY <1>0, <2>2, <1>1 DEF LoopOutput, Output, daemonVars, StreamTypes
<1>2. ASSUME NEW j \in Jobs, Drain(j) PROVE StreamTypes'
  <2>1. out[j] \in Seq(Nat) /\ Numbered(out[j], 0)
    BY <1>0 DEF StreamTypes, Recorded
  <2>2. Append(out[j], Len(out[j]) + 1) \in Seq(Nat)
    BY <2>1, ChunkRecorded
  <2> QED BY <1>0, <2>2, <1>2 DEF Drain, Output, daemonVars, StreamTypes
<1>3. ASSUME TakeBatch PROVE StreamTypes'
  <2>1. /\ wire[1] \in Batches /\ wire' = <<>> /\ UNCHANGED <<made, pos>>
        /\ out' \in {out, [out EXCEPT !["near"] = @ \o wire[1].chunks]}
    BY <1>0, <1>3, BatchTaken
  <2>2. out["near"] \o wire[1].chunks \in Seq(Nat)
    BY <1>0, <2>1, BatchAdded DEF StreamTypes, Jobs, Batches
  <2>3. out' \in [Jobs -> Seq(Nat)]
    BY <1>0, <2>1, <2>2 DEF StreamTypes
  <2>4. <<>> \in Seq(Batches) /\ Len(<<>>) = 0
    BY EmptySeq
  <2> QED BY <1>0, <2>1, <2>3, <2>4 DEF StreamTypes
<1>4. ASSUME ServeBatch PROVE StreamTypes'
  <2> DEFINE b == Batch("far", pos)
  <2>1. pos' = b.cursor /\ wire' \in {wire, <<b>>} /\ UNCHANGED <<made, out>>
    BY <1>4 DEF ServeBatch
  <2>2. b \in Batches /\ b.cursor \in Nat
    BY <1>0, BatchRead, JobsAssumption DEF Relayed
  <2> HIDE DEF b
  <2>3. <<b>> \in Seq(Batches) /\ Len(<<b>>) = 1
    BY <2>2
  <2>4. wire' \in Seq(Batches) /\ Len(wire') <= 1
    <3>1. CASE wire' = wire
      BY <1>0, <3>1 DEF StreamTypes
    <3>2. CASE wire' = <<b>>
      BY <2>3, <3>2
    <3> QED BY <2>1, <3>1, <3>2
  <2> QED BY <1>0, <2>1, <2>2, <2>4 DEF StreamTypes
<1>5. ASSUME Writes PROVE StreamTypes'
  BY <1>0, <1>5, JobsAssumption DEF Writes, daemonVars, StreamTypes
<1>6. ASSUME Lose PROVE StreamTypes'
  <2>1. <<>> \in Seq(Batches) /\ Len(<<>>) = 0
    BY EmptySeq
  <2> QED BY <1>0, <2>1, <1>6 DEF Lose, daemonVars, StreamTypes
<1>7. ASSUME UNCHANGED <<made, pos, out, wire>> PROVE StreamTypes'
  BY <1>0, <1>7 DEF StreamTypes
<1>8. ASSUME NEW w \in Works,
          \/ Start(w)
      PROVE  UNCHANGED <<made, pos, out, wire>>
  BY <1>8 DEF Start, daemonVars
<1>9. ASSUME
          \/ SpawnWorkers \/ Retire \/ RetireCancels \/ Forget \/ TakeEnd \/ Reap
          \/ DaemonStarts \/ StdinEnds \/ ServeCancel \/ DaemonExits \/ HangUp \/ Retry
          \/ CheckTransfer \/ Concludes
      PROVE  UNCHANGED <<made, pos, out, wire>>
  BY <1>9 DEF SpawnWorkers, Retire, RetireCancels, Forget, TakeEnd, Reap, DaemonStarts,
     StdinEnds, ServeCancel, DaemonExits, HangUp, Retry, CheckTransfer, Concludes,
     daemonVars, Flagged
<1>10. ASSUME NEW j \in Jobs,
          \/ Cancel(j) \/ Kill(j) \/ Check(j) \/ Spawn(j) \/ Control(j) \/ Running(j)
          \/ LoopKill(j) \/ LoopExit(j) \/ Exit(j) \/ Ends(j)
      PROVE  UNCHANGED <<made, pos, out, wire>>
  BY <1>10 DEF Cancel, Kill, Check, Spawn, Control, Running, LoopKill, LoopExit, Exit,
     Ends, Flagged, daemonVars, LoopTop
<1>11. ASSUME UNCHANGED vars
      PROVE  UNCHANGED <<made, pos, out, wire>>
  BY <1>11 DEF daemonVars, vars
<1> QED BY <1>1, <1>2, <1>3, <1>4, <1>5, <1>6, <1>7, <1>8, <1>9, <1>10, <1>11
       DEF JobNext, Next, Worker, Serve, Works

\* Every step keeps the output of the jobs that of the program.
LEMMA RecordedKept == JobInv /\ [JobNext]_vars => Recorded'
<1> SUFFICES ASSUME JobInv, [JobNext]_vars PROVE Recorded'
  OBVIOUS
<1>0. JobTypes /\ PlanTypes /\ StreamTypes /\ Stages /\ DaemonsJob /\ Recorded /\ Relayed
  BY DEF JobInv
<1>1. ASSUME NEW w \in Works, Start(w) PROVE Recorded'
  BY <1>0, <1>1, EmptySeq DEF Start, Recorded, Runs, Jobs, JobTypes, StreamTypes,
     Unspawned, Programs, Stages, Finished, DaemonsJob
<1>2. ASSUME SpawnWorkers PROVE Recorded'
  BY <1>0, <1>2, EmptySeq DEF SpawnWorkers, Recorded, Runs, Jobs, JobTypes, StreamTypes,
     Unspawned, Programs, Stages, Finished, DaemonsJob
<1>3. ASSUME Forget PROVE Recorded'
  BY <1>0, <1>3, EmptySeq DEF Forget, Recorded, Runs, Jobs, JobTypes, StreamTypes,
     Unspawned, Programs, Stages, Finished, DaemonsJob
<1>4. ASSUME NEW j \in Jobs, Check(j) PROVE Recorded'
  BY <1>0, <1>4, EmptySeq DEF Check, At, Lives, Goes, Fails, Programs, Recorded, Runs,
     Jobs, JobTypes, StreamTypes, Unspawned, Stages, Finished, DaemonsJob
<1>5. ASSUME NEW j \in Jobs, Spawn(j) PROVE Recorded'
  BY <1>0, <1>5, EmptySeq DEF Spawn, At, Lives, Goes, Fails, Recorded, Runs, Jobs,
     JobTypes, StreamTypes, Unspawned, Programs, Stages, Finished, DaemonsJob
<1>6. ASSUME NEW j \in Jobs, Control(j) PROVE Recorded'
  BY <1>0, <1>6, EmptySeq DEF Control, At, Lives, Goes, Terminated, Alive, Recorded,
     Runs, Jobs, JobTypes, StreamTypes, Unspawned, Programs, Stages, Finished,
     DaemonsJob
<1>7. ASSUME NEW j \in Jobs, Running(j) PROVE Recorded'
  BY <1>0, <1>7, EmptySeq DEF Running, At, Lives, Goes, Fails, LoopTop, Terminated,
     Alive, Runs, Recorded, Jobs, JobTypes, StreamTypes, Unspawned, Programs, Stages,
     Finished, DaemonsJob
<1>8. ASSUME NEW j \in Jobs, LoopOutput(j) PROVE Recorded'
  <2>1. /\ out[j] \in Seq(Nat) /\ Numbered(out[j], 0) /\ Len(out[j]) \in Nat /\ made \in Nat
        /\ out \in [Jobs -> Seq(Nat)]
    BY <1>0, LenProperties DEF StreamTypes, Recorded
  <2> DEFINE q == Append(out[j], Len(out[j]) + 1)
  <2>2. Numbered(q, 0) /\ Len(q) = Len(out[j]) + 1
    BY <2>1, ChunkRecorded
  <2>3. /\ out' = [out EXCEPT ![j] = q] /\ made - Len(out[j]) > 0
        /\ UNCHANGED <<work, made, status, step>> /\ step[j] = "loop"
    BY <1>8 DEF LoopOutput, Output, Unread, At
  <2> HIDE DEF q
  <2>4. Runs(j) /\ status[j] # "exited"
    BY <1>0, <2>3, <1>8 DEF LoopOutput, Stages, Finished
  <2>5. \A i \in Jobs : out'[i] = IF i = j THEN q ELSE out[i]
    BY <2>1, <2>3
  <2> QED BY <1>0, <2>1, <2>2, <2>3, <2>4, <2>5
        DEF Recorded, Runs, Unspawned, Jobs, DaemonsJob, Programs
<1>9. ASSUME NEW j \in Jobs, LoopExit(j) PROVE Recorded'
  BY <1>0, <1>9, EmptySeq DEF LoopExit, At, Lives, Goes, Runs, Recorded, Jobs, JobTypes,
     StreamTypes, Unspawned, Programs, Stages, Finished, DaemonsJob
<1>10. ASSUME NEW j \in Jobs, Drain(j) PROVE Recorded'
  <2>1. /\ out[j] \in Seq(Nat) /\ Numbered(out[j], 0) /\ Len(out[j]) \in Nat /\ made \in Nat
        /\ out \in [Jobs -> Seq(Nat)]
    BY <1>0, LenProperties DEF StreamTypes, Recorded
  <2> DEFINE q == Append(out[j], Len(out[j]) + 1)
  <2>2. Numbered(q, 0) /\ Len(q) = Len(out[j]) + 1
    BY <2>1, ChunkRecorded
  <2>3. /\ out' = [out EXCEPT ![j] = q] /\ made - Len(out[j]) > 0
        /\ UNCHANGED <<work, made, status, step>> /\ step[j] = "drain"
    BY <1>10 DEF Drain, Output, Unread, At
  <2> HIDE DEF q
  <2>4. Runs(j) /\ status[j] # "exited"
    BY <1>0, <2>3, <1>10 DEF Drain, Stages, Finished
  <2>5. \A i \in Jobs : out'[i] = IF i = j THEN q ELSE out[i]
    BY <2>1, <2>3
  <2> QED BY <1>0, <2>1, <2>2, <2>3, <2>4, <2>5
        DEF Recorded, Runs, Unspawned, Jobs, DaemonsJob, Programs
<1>11. ASSUME NEW j \in Jobs, Exit(j) PROVE Recorded'
  BY <1>0, <1>11, EmptySeq DEF Exit, At, Lives, Goes, Fails, Unread, Recorded, Runs,
     Jobs, JobTypes, StreamTypes, Unspawned, Programs, Stages, Finished, DaemonsJob
<1>12. ASSUME TakeBatch PROVE Recorded'
  <2>1. /\ wire # <<>> /\ wire[1] \in Batches /\ work = "there" /\ step["near"] = "loop"
        /\ UNCHANGED <<work, made>>
        /\ step' \in {step, [step EXCEPT !["near"] = "reap"]}
        /\ status' \in {status, [status EXCEPT !["near"] = "running"]}
        /\ \/ UNCHANGED out
           \/ ~wire[1].gap /\ out' = [out EXCEPT !["near"] = @ \o wire[1].chunks]
    BY <1>0, <1>12, BatchTaken
  <2> DEFINE q == out["near"] \o wire[1].chunks
  <2>2. ASSUME ~wire[1].gap PROVE Numbered(q, 0)
    <3>1. /\ out["near"] \in Seq(Nat) /\ wire[1].chunks \in Seq(Nat)
          /\ Numbered(out["near"], 0)
      BY <1>0, <2>1 DEF StreamTypes, Recorded, Jobs, Batches
    <3>2. Numbered(wire[1].chunks, Len(out["near"]))
      BY <1>0, <2>1, <2>2 DEF Relayed
    <3> QED BY <3>1, <3>2, BatchAdded
  <2> HIDE DEF q
  <2>3. Numbered(out'["near"], 0) /\ out'["far"] = out["far"]
    <3>1. CASE UNCHANGED out
      BY <1>0, <3>1 DEF Recorded, Jobs
    <3>2. CASE ~wire[1].gap /\ out' = [out EXCEPT !["near"] = q]
      BY <1>0, <2>2, <3>2 DEF StreamTypes, Jobs
    <3> QED BY <2>1, <3>1, <3>2 DEF q
  <2> QED BY <1>0, <2>1, <2>3
        DEF Recorded, Runs, Unspawned, Jobs, Programs, JobTypes
<1>13. ASSUME TakeEnd PROVE Recorded'
  BY <1>0, <1>13, EmptySeq DEF TakeEnd, At, Lives, Goes, Alive, Recorded, Runs, Jobs,
     JobTypes, StreamTypes, Unspawned, Programs, Stages, Finished, DaemonsJob
<1>14. ASSUME Reap PROVE Recorded'
  BY <1>0, <1>14, EmptySeq DEF Reap, At, Lives, Goes, Recorded, Runs, Jobs, JobTypes,
     StreamTypes, Unspawned, Programs, Stages, Finished, DaemonsJob
<1>15. ASSUME DaemonStarts PROVE Recorded'
  BY <1>0, <1>15, EmptySeq DEF DaemonStarts, Connected, Goes, Recorded, Runs, Jobs,
     JobTypes, StreamTypes, Unspawned, Programs, Stages, Finished, DaemonsJob
<1>16. ASSUME Writes PROVE Recorded'
  <2>1. /\ made \in Nat /\ made' = made + 1 /\ UNCHANGED <<out, work, status, step>>
        /\ \E j \in Jobs : Runs(j) /\ Alive(tree[j])
    BY <1>0, JobsAssumption, <1>16 DEF Writes, ProgramAlive, StreamTypes
  <2>2. PICK j \in Jobs : Runs(j) /\ Alive(tree[j])
    BY <2>1
  <2>3. /\ \A i \in Jobs : Runs(i) => i = j
        /\ work \in Programs
    BY <2>2 DEF Runs, Jobs, Programs
  <2>4. status[j] # "exited" /\ step[j] \notin Unspawned
    BY <1>0, <2>2 DEF Stages, Finished, Alive
  <2>5. \A i \in Jobs : Len(out[i]) \in Nat
    BY <1>0, LenProperties DEF StreamTypes
  <2>6. step["near"] \notin Unspawned
    BY <1>0, <2>2, <2>4 DEF DaemonsJob, Runs, Jobs, Unspawned
  <2> QED BY <1>0, <2>1, <2>2, <2>3, <2>4, <2>5, <2>6 DEF Recorded, Runs, Jobs
<1>17. ASSUME Retry PROVE Recorded'
  BY <1>0, <1>17, EmptySeq DEF Retry, Transfers, Recorded, Runs, Jobs, JobTypes,
     StreamTypes, Unspawned, Programs, Stages, Finished, DaemonsJob
<1>18. ASSUME CheckTransfer PROVE Recorded'
  BY <1>0, <1>18, EmptySeq DEF At, Lives, Goes, Transfers, CheckTransfer, Recorded,
     Runs, Jobs, JobTypes, StreamTypes, Unspawned, Programs, Stages, Finished,
     DaemonsJob
<1>19. ASSUME Concludes PROVE Recorded'
  BY <1>0, <1>19, EmptySeq DEF Concludes, InBody, NearEnds, At, Lives, Goes, Recorded,
     Runs, Jobs, JobTypes, StreamTypes, Unspawned, Programs, Stages, Finished,
     DaemonsJob
<1>20. ASSUME UNCHANGED <<out, work, made, step, status>> PROVE Recorded'
  BY <1>0, <1>20 DEF Recorded, Runs, Jobs, JobTypes, StreamTypes, Unspawned, Programs,
     Stages, Finished, DaemonsJob
<1>21. ASSUME
          \/ Retire \/ RetireCancels \/ StdinEnds \/ ServeBatch \/ ServeCancel
          \/ DaemonExits \/ Lose \/ HangUp
      PROVE  UNCHANGED <<out, work, made, step, status>>
  BY <1>21 DEF Retire, RetireCancels, StdinEnds, ServeBatch, ServeCancel, DaemonExits,
     Lose, HangUp, Flagged
<1>22. ASSUME NEW j \in Jobs,
          \/ Cancel(j) \/ Kill(j) \/ LoopKill(j) \/ Ends(j)
      PROVE  UNCHANGED <<out, work, made, step, status>>
  BY <1>22 DEF Cancel, Kill, LoopKill, Ends, Flagged, LoopTop
<1>23. ASSUME UNCHANGED vars
      PROVE  UNCHANGED <<out, work, made, step, status>>
  BY <1>23 DEF vars
<1> QED BY <1>1, <1>2, <1>3, <1>4, <1>5, <1>6, <1>7, <1>8, <1>9, <1>10, <1>11, <1>12,
           <1>13, <1>14, <1>15, <1>16, <1>17, <1>18, <1>19, <1>20, <1>21, <1>22, <1>23
       DEF JobNext, Next, Worker, Serve, Works

\* Every step keeps the daemon's cursor, the batch and the near job in line.
LEMMA RelayedKept == JobInv /\ [JobNext]_vars => Relayed'
<1> SUFFICES ASSUME JobInv, [JobNext]_vars PROVE Relayed'
  OBVIOUS
<1>0. JobTypes /\ PlanTypes /\ StreamTypes /\ Stages /\ DaemonsJob /\ Recorded /\ Relayed
  BY DEF JobInv
<1>1. ASSUME NEW w \in Works, Start(w) PROVE Relayed'
  BY <1>0, <1>1 DEF Start, Recorded, daemonVars, Relayed, Connected, Jobs, JobTypes,
     Unspawned, Stages, Finished, DaemonsJob
<1>2. ASSUME SpawnWorkers PROVE Relayed'
  BY <1>0, <1>2 DEF SpawnWorkers, daemonVars, Relayed, Connected, Jobs, JobTypes,
     Unspawned, Stages, Finished, DaemonsJob
<1>3. ASSUME Forget PROVE Relayed'
  BY <1>0, <1>3 DEF Forget, daemonVars, Relayed, Connected, Jobs, JobTypes, Unspawned,
     Stages, Finished, DaemonsJob
<1>4. ASSUME NEW j \in Jobs, Kill(j) PROVE Relayed'
  BY <1>0, <1>4 DEF Kill, Lives, Terminated, Alive, daemonVars, Relayed, Connected,
     Jobs, JobTypes, Unspawned, Stages, Finished, DaemonsJob
<1>5. ASSUME NEW j \in Jobs, Check(j) PROVE Relayed'
  BY <1>0, <1>5 DEF Check, At, Lives, Goes, Fails, Programs, daemonVars, Relayed,
     Connected, Jobs, JobTypes, Unspawned, Stages, Finished, DaemonsJob
<1>6. ASSUME NEW j \in Jobs, Spawn(j) PROVE Relayed'
  <2>1. /\ step[j] = "spawn" /\ UNCHANGED <<pos, wire, work, out>>
        /\ \/ step' = [step EXCEPT ![j] = "control"] /\ UNCHANGED status
           \/ /\ step' = [step EXCEPT ![j] = "done"]
              /\ status' = [status EXCEPT ![j] = "failed"]
        /\ \A i \in Jobs : i # j => tree'[i] = tree[i]
    BY <1>0, <1>6 DEF Spawn, At, Goes, Fails, daemonVars, JobTypes
  <2>2. CASE j = "near"
    <3>1. step["far"] = "none" /\ step'["far"] = "none" /\ status'["far"] = status["far"]
      BY <1>0, <2>1, <2>2 DEF DaemonsJob, JobTypes, Jobs, Unspawned
    <3>2. pos = 0
      <4>1. out["far"] = <<>> /\ pos \in Nat
        BY <1>0, <3>1 DEF Recorded, StreamTypes
      <4> QED BY <1>0, <4>1, EmptySeq DEF Relayed
    <3>3. Len(<<>>) = 0
      BY EmptySeq
    <3> QED BY <1>0, <2>1, <3>1, <3>2, <3>3 DEF Relayed
  <2>3. CASE j = "far"
    <3>1. /\ step["far"] # "none" /\ step'["far"] # "none" /\ step'["near"] = step["near"]
          /\ tree'["near"] = tree["near"] /\ status["far"] \notin {"exited", "failed"}
      BY <1>0, <2>1, <2>3 DEF JobTypes, Jobs, Stages, Finished
    <3> QED BY <1>0, <2>1, <3>1 DEF Relayed, Connected
  <2> QED BY <2>2, <2>3 DEF Jobs
<1>7. ASSUME NEW j \in Jobs, Control(j) PROVE Relayed'
  BY <1>0, <1>7, ZenonT(60) DEF Control, At, Lives, Goes, Terminated, Alive, daemonVars, Relayed,
     Connected, Jobs, JobTypes, Unspawned, Stages, Finished, DaemonsJob
<1>8. ASSUME NEW j \in Jobs, Running(j) PROVE Relayed'
  BY <1>0, <1>8, ZenonT(60) DEF Running, At, Lives, Goes, Fails, LoopTop, Terminated, Alive, Runs,
     daemonVars, Relayed, Connected, Jobs, JobTypes, Unspawned, Stages, Finished,
     DaemonsJob
<1>9. ASSUME NEW j \in Jobs, LoopKill(j) PROVE Relayed'
  BY <1>0, <1>9 DEF LoopKill, At, Lives, LoopTop, Terminated, Alive, Runs, daemonVars,
     Relayed, Connected, Jobs, JobTypes, Unspawned, Stages, Finished, DaemonsJob
<1>10. ASSUME NEW j \in Jobs, LoopOutput(j) PROVE Relayed'
  <2>1. /\ out' = [out EXCEPT ![j] = Append(out[j], Len(out[j]) + 1)]
        /\ UNCHANGED <<pos, wire, work, step, tree, status>>
        /\ out \in [Jobs -> Seq(Nat)] /\ step[j] = "loop"
    BY <1>0, <1>10 DEF LoopOutput, Output, At, daemonVars, StreamTypes
  <2>2. Runs(j) /\ status[j] \notin {"exited", "failed"}
    BY <1>0, <2>1, <1>10 DEF LoopOutput, Stages, Finished
  <2>3. CASE j = "near"
    <3>1. work # "there" /\ step["far"] = "none" /\ out'["far"] = out["far"]
      BY <1>0, <2>1, <2>2, <2>3 DEF Runs, Jobs, DaemonsJob
    <3> QED BY <1>0, <2>1, <3>1 DEF Relayed
  <2>4. CASE j = "far"
    <3>1. out'["near"] = out["near"] /\ Len(out'["far"]) = Len(out["far"]) + 1
      <4>1. out["far"] \in Seq(Nat) /\ Len(out["far"]) + 1 \in Nat
        BY <2>1, LenProperties DEF Jobs
      <4> QED BY <2>1, <2>4, <4>1, AppendProperties DEF Jobs
    <3>2. pos <= Len(out'["far"])
      <4>1. Len(out["far"]) \in Nat /\ pos \in Nat
        BY <1>0, LenProperties DEF StreamTypes, Jobs
      <4> QED BY <1>0, <3>1, <4>1 DEF Relayed
    <3> QED BY <1>0, <2>1, <2>2, <2>4, <3>1, <3>2 DEF Relayed, Connected
  <2> QED BY <2>3, <2>4 DEF Jobs
<1>11. ASSUME NEW j \in Jobs, LoopExit(j) PROVE Relayed'
  BY <1>0, <1>11 DEF LoopExit, At, Lives, Goes, Runs, daemonVars, Relayed, Connected,
     Jobs, JobTypes, Unspawned, Stages, Finished, DaemonsJob
<1>12. ASSUME NEW j \in Jobs, Drain(j) PROVE Relayed'
  <2>1. /\ out' = [out EXCEPT ![j] = Append(out[j], Len(out[j]) + 1)]
        /\ UNCHANGED <<pos, wire, work, step, tree, status>>
        /\ out \in [Jobs -> Seq(Nat)] /\ step[j] = "drain"
    BY <1>0, <1>12 DEF Drain, Output, At, daemonVars, StreamTypes
  <2>2. Runs(j) /\ status[j] \notin {"exited", "failed"}
    BY <1>0, <2>1, <1>12 DEF Drain, Stages, Finished
  <2>3. CASE j = "near"
    <3>1. work # "there" /\ step["far"] = "none" /\ out'["far"] = out["far"]
      BY <1>0, <2>1, <2>2, <2>3 DEF Runs, Jobs, DaemonsJob
    <3> QED BY <1>0, <2>1, <3>1 DEF Relayed
  <2>4. CASE j = "far"
    <3>1. out'["near"] = out["near"] /\ Len(out'["far"]) = Len(out["far"]) + 1
      <4>1. out["far"] \in Seq(Nat) /\ Len(out["far"]) + 1 \in Nat
        BY <2>1, LenProperties DEF Jobs
      <4> QED BY <2>1, <2>4, <4>1, AppendProperties DEF Jobs
    <3>2. pos <= Len(out'["far"])
      <4>1. Len(out["far"]) \in Nat /\ pos \in Nat
        BY <1>0, LenProperties DEF StreamTypes, Jobs
      <4> QED BY <1>0, <3>1, <4>1 DEF Relayed
    <3> QED BY <1>0, <2>1, <2>2, <2>4, <3>1, <3>2 DEF Relayed, Connected
  <2> QED BY <2>3, <2>4 DEF Jobs
<1>13. ASSUME NEW j \in Jobs, Exit(j) PROVE Relayed'
  BY <1>0, <1>13 DEF Exit, At, Lives, Goes, Fails, Unread, daemonVars, Relayed,
     Connected, Jobs, JobTypes, Unspawned, Stages, Finished, DaemonsJob
<1>14. ASSUME NEW j \in Jobs, Ends(j) PROVE Relayed'
  BY <1>0, <1>14 DEF Ends, Runs, daemonVars, Relayed, Connected, Jobs, JobTypes,
     Unspawned, Stages, Finished, DaemonsJob
<1>15. ASSUME TakeBatch PROVE Relayed'
  <2>1. /\ wire # <<>> /\ wire[1] \in Batches /\ wire' = <<>>
        /\ work = "there" /\ step["near"] = "loop" /\ UNCHANGED <<work, pos>>
        /\ \/ step' = [step EXCEPT !["near"] = "reap"] /\ UNCHANGED out
           \/ /\ step' = [step EXCEPT !["near"] = "reap"]
              /\ out' = [out EXCEPT !["near"] = @ \o wire[1].chunks]
           \/ /\ ~wire[1].gap
              /\ out' = [out EXCEPT !["near"] = @ \o wire[1].chunks]
              /\ Connected' => Connected
              /\ UNCHANGED step
    BY <1>0, <1>15, BatchTaken DEF Connected, JobTypes, Jobs
  <2>2. step["far"] # "none"
    BY <1>0, <2>1 DEF Relayed
  <2>3. /\ step'["far"] = step["far"] /\ out'["far"] = out["far"]
    BY <1>0, <2>1 DEF JobTypes, StreamTypes, Jobs
  <2>4. CASE step' = [step EXCEPT !["near"] = "reap"]
    <3>1. step'["near"] = "reap"
      BY <1>0, <2>4 DEF JobTypes, Jobs
    <3> QED BY <1>0, <2>1, <2>2, <2>3, <3>1 DEF Relayed
  <2>5. CASE /\ ~wire[1].gap /\ UNCHANGED step /\ (Connected' => Connected)
             /\ out' = [out EXCEPT !["near"] = @ \o wire[1].chunks]
    <3>1. Len(out'["near"]) = Len(out["near"]) + Len(wire[1].chunks)
      BY <1>0, <2>1, <2>5, BatchAdded DEF StreamTypes, Jobs, Batches
    <3>2. /\ wire[1].cursor = Len(out["near"]) + Len(wire[1].chunks)
          /\ Connected => pos = wire[1].cursor
      BY <1>0, <2>1, <2>5 DEF Relayed, Connected
    <3>3. Connected' => pos = Len(out'["near"])
      BY <2>5, <3>1, <3>2 DEF Connected
    <3> QED BY <1>0, <2>1, <2>2, <2>3, <3>3 DEF Relayed
  <2> QED BY <2>1, <2>4, <2>5
<1>16. ASSUME TakeEnd PROVE Relayed'
  BY <1>0, <1>16 DEF TakeEnd, At, Lives, Goes, Alive, daemonVars, Relayed, Connected,
     Jobs, JobTypes, Unspawned, Stages, Finished, DaemonsJob
<1>17. ASSUME Reap PROVE Relayed'
  BY <1>0, <1>17 DEF Reap, At, Lives, Goes, daemonVars, Relayed, Connected, Jobs,
     JobTypes, Unspawned, Stages, Finished, DaemonsJob
<1>18. ASSUME DaemonStarts PROVE Relayed'
  BY <1>0, <1>18 DEF DaemonStarts, Connected, Goes, Relayed, Jobs, JobTypes, Unspawned,
     Stages, Finished, DaemonsJob
<1>19. ASSUME ServeBatch PROVE Relayed'
  <2> DEFINE b == Batch("far", pos)
  <2>1. /\ pos' = b.cursor /\ UNCHANGED <<work, step, tree, out, status>>
        /\ \/ Connected /\ wire = <<>> /\ wire' = <<b>>
           \/ ~Connected /\ UNCHANGED wire
        /\ daemon = "up"
    BY <1>19 DEF ServeBatch
  <2>2. /\ b \in Batches /\ b.cursor \in Nat /\ b.cursor <= Len(out["far"])
        /\ ~b.gap => Numbered(b.chunks, pos) /\ b.cursor = pos + Len(b.chunks)
        /\ b.status = status["far"] /\ b.next = Len(out["far"])
    BY <1>0, BatchRead, JobsAssumption DEF Relayed
  <2> HIDE DEF b
  <2>3. step["far"] # "none" /\ (Connected' <=> Connected)
    BY <1>0, <2>1 DEF DaemonsJob, Connected
  <2>4. CASE Connected /\ wire = <<>> /\ wire' = <<b>>
    <3>1. wire' # <<>> /\ wire'[1] = b
      BY <2>4
    <3> QED BY <1>0, <2>1, <2>2, <2>3, <2>4, <3>1 DEF Relayed
  <2>5. CASE ~Connected /\ UNCHANGED wire
    BY <1>0, <2>1, <2>2, <2>3, <2>5 DEF Relayed
  <2> QED BY <2>1, <2>4, <2>5
<1>20. ASSUME Lose PROVE Relayed'
  BY <1>0, <1>20 DEF Lose, Connected, daemonVars, Relayed, Jobs, JobTypes, Unspawned,
     Stages, Finished, DaemonsJob
<1>21. ASSUME HangUp PROVE Relayed'
  BY <1>0, <1>21 DEF HangUp, Connected, daemonVars, Relayed, Jobs, JobTypes, Unspawned,
     Stages, Finished, DaemonsJob
<1>22. ASSUME Retry PROVE Relayed'
  BY <1>0, <1>22 DEF Retry, Transfers, daemonVars, Relayed, Connected, Jobs, JobTypes,
     Unspawned, Stages, Finished, DaemonsJob
<1>23. ASSUME CheckTransfer PROVE Relayed'
  BY <1>0, <1>23 DEF At, Lives, Goes, Transfers, CheckTransfer, daemonVars, Relayed,
     Connected, Jobs, JobTypes, Unspawned, Stages, Finished, DaemonsJob
<1>24. ASSUME Concludes PROVE Relayed'
  BY <1>0, <1>24 DEF Concludes, InBody, NearEnds, At, Lives, Goes, daemonVars, Relayed,
     Connected, Jobs, JobTypes, Unspawned, Stages, Finished, DaemonsJob
<1>25. ASSUME UNCHANGED <<pos, out, wire, work, step, tree, status>> PROVE Relayed'
  BY <1>0, <1>25 DEF Relayed, Connected, Jobs, JobTypes, Unspawned, Stages, Finished,
     DaemonsJob
<1>26. ASSUME
          \/ Retire \/ RetireCancels \/ StdinEnds \/ ServeCancel \/ DaemonExits
          \/ Writes
      PROVE  UNCHANGED <<pos, out, wire, work, step, tree, status>>
  BY <1>26 DEF Retire, RetireCancels, StdinEnds, ServeCancel, DaemonExits, Writes,
     daemonVars, Flagged
<1>27. ASSUME NEW j \in Jobs,
          \/ Cancel(j)
      PROVE  UNCHANGED <<pos, out, wire, work, step, tree, status>>
  BY <1>27 DEF Cancel, Flagged, daemonVars
<1>28. ASSUME UNCHANGED vars
      PROVE  UNCHANGED <<pos, out, wire, work, step, tree, status>>
  BY <1>28 DEF daemonVars, vars
<1> QED BY <1>1, <1>2, <1>3, <1>4, <1>5, <1>6, <1>7, <1>8, <1>9, <1>10, <1>11, <1>12,
           <1>13, <1>14, <1>15, <1>16, <1>17, <1>18, <1>19, <1>20, <1>21, <1>22, <1>23,
           <1>24, <1>25, <1>26, <1>27, <1>28
       DEF JobNext, Next, Worker, Serve, Works

\* Every step keeps what the near job reports true of the far one.
LEMMA ReportedKept == JobInv /\ [JobNext]_vars => Reported'
<1> SUFFICES ASSUME JobInv, [JobNext]_vars PROVE Reported'
  OBVIOUS
<1>0. /\ JobTypes /\ PlanTypes /\ StreamTypes /\ Stages /\ DaemonsJob /\ Recorded
      /\ Relayed /\ Reported
  BY DEF JobInv
<1>1. ASSUME NEW w \in Works, Start(w) PROVE Reported'
  BY <1>0, <1>1 DEF Start, Reported, Jobs, JobTypes, Unspawned, Stages, Finished, Runs
<1>2. ASSUME SpawnWorkers PROVE Reported'
  BY <1>0, <1>2 DEF SpawnWorkers, Reported, Jobs, JobTypes, Unspawned, Stages, Finished,
     Runs
<1>3. ASSUME Forget PROVE Reported'
  BY <1>0, <1>3 DEF Forget, Reported, Jobs, JobTypes, Unspawned, Stages, Finished, Runs
<1>4. ASSUME NEW j \in Jobs, Check(j) PROVE Reported'
  BY <1>0, <1>4 DEF Check, At, Lives, Goes, Fails, Programs, Reported, Jobs, JobTypes,
     Unspawned, Stages, Finished, Runs
<1>5. ASSUME NEW j \in Jobs, Spawn(j) PROVE Reported'
  BY <1>0, <1>5 DEF Spawn, At, Lives, Goes, Fails, Reported, Jobs, JobTypes, Unspawned,
     Stages, Finished, Runs
<1>6. ASSUME NEW j \in Jobs, Control(j) PROVE Reported'
  BY <1>0, <1>6 DEF Control, At, Lives, Goes, Terminated, Alive, Reported, Jobs,
     JobTypes, Unspawned, Stages, Finished, Runs
<1>7. ASSUME NEW j \in Jobs, Running(j) PROVE Reported'
  BY <1>0, <1>7 DEF Running, At, Lives, Goes, Fails, LoopTop, Terminated, Alive, Runs,
     Reported, Jobs, JobTypes, Unspawned, Stages, Finished
<1>8. ASSUME NEW j \in Jobs, LoopOutput(j) PROVE Reported'
  <2>1. /\ out' = [out EXCEPT ![j] = Append(out[j], Len(out[j]) + 1)]
        /\ UNCHANGED <<work, step, status, verdict, made>> /\ step[j] = "loop"
    BY <1>0, <1>8 DEF LoopOutput, Output, At
  <2>2. Runs(j)
    BY <1>0, <2>1, <1>8 DEF LoopOutput, Stages
  <2>3. work = "there" => out'["near"] = out["near"]
    BY <1>0, <2>1, <2>2 DEF Runs, Jobs, StreamTypes
  <2> QED BY <1>0, <2>1, <2>3 DEF Reported
<1>9. ASSUME NEW j \in Jobs, LoopExit(j) PROVE Reported'
  BY <1>0, <1>9 DEF LoopExit, At, Lives, Goes, Runs, Reported, Jobs, JobTypes,
     Unspawned, Stages, Finished
<1>10. ASSUME NEW j \in Jobs, Drain(j) PROVE Reported'
  <2>1. /\ out' = [out EXCEPT ![j] = Append(out[j], Len(out[j]) + 1)]
        /\ UNCHANGED <<work, step, status, verdict, made>> /\ step[j] = "drain"
    BY <1>0, <1>10 DEF Drain, Output, At
  <2>2. Runs(j)
    BY <1>0, <2>1, <1>10 DEF Drain, Stages
  <2>3. work = "there" => out'["near"] = out["near"]
    BY <1>0, <2>1, <2>2 DEF Runs, Jobs, StreamTypes
  <2> QED BY <1>0, <2>1, <2>3 DEF Reported
<1>11. ASSUME NEW j \in Jobs, Exit(j) PROVE Reported'
  BY <1>0, <1>11 DEF Exit, At, Lives, Goes, Fails, Unread, Reported, Jobs, JobTypes,
     Unspawned, Stages, Finished, Runs
<1>12. ASSUME TakeBatch PROVE Reported'
  <2>1. /\ wire # <<>> /\ wire[1] \in Batches
        /\ work = "there" /\ step["near"] = "loop" /\ UNCHANGED <<work, made>>
        /\ \/ verdict' = "failed" /\ UNCHANGED status
           \/ /\ wire[1].status \in {"exited", "failed"} /\ wire[1].cursor = wire[1].next
              /\ ~wire[1].gap /\ verdict' = wire[1].status
              /\ out' = [out EXCEPT !["near"] = @ \o wire[1].chunks]
              /\ UNCHANGED status
           \/ /\ UNCHANGED step
              /\ status' \in {status, [status EXCEPT !["near"] = "running"]}
    BY <1>0, <1>12, BatchTaken
  <2>2. status["near"] # "exited" /\ status'["near"] # "exited"
    BY <1>0, <2>1 DEF Stages, Jobs, Finished, JobTypes
  <2>3. ASSUME wire[1].status = "exited", wire[1].cursor = wire[1].next, ~wire[1].gap,
               out' = [out EXCEPT !["near"] = @ \o wire[1].chunks]
        PROVE  status["far"] = "exited" /\ Len(out'["near"]) = made
    <3>1. status["far"] = "exited" /\ wire[1].next = Len(out["far"])
      BY <1>0, <2>1, <2>3 DEF Relayed
    <3>2. Len(out["far"]) = made
      BY <1>0, <2>1, <3>1 DEF Recorded, Runs, Jobs
    <3>3. Len(out'["near"]) = Len(out["near"]) + Len(wire[1].chunks)
      BY <1>0, <2>1, <2>3, BatchAdded DEF StreamTypes, Jobs, Batches
    <3>4. wire[1].cursor = Len(out["near"]) + Len(wire[1].chunks)
      BY <1>0, <2>1, <2>3 DEF Relayed
    <3> QED BY <2>3, <3>1, <3>2, <3>3, <3>4
  <2> QED BY <1>0, <2>1, <2>2, <2>3 DEF Reported
<1>13. ASSUME TakeEnd PROVE Reported'
  BY <1>0, <1>13 DEF TakeEnd, At, Lives, Goes, Alive, Reported, Jobs, JobTypes,
     Unspawned, Stages, Finished, Runs
<1>14. ASSUME Reap PROVE Reported'
  BY <1>0, <1>14 DEF Reap, At, Lives, Goes, Reported, Jobs, JobTypes, Unspawned, Stages,
     Finished, Runs
<1>15. ASSUME DaemonStarts PROVE Reported'
  BY <1>0, <1>15 DEF DaemonStarts, DaemonsJob, Connected, Goes, Reported, Jobs,
     JobTypes, Unspawned, Stages, Finished, Runs
<1>16. ASSUME Writes PROVE Reported'
  <2>1. status["far"] # "exited" \/ work # "there"
    BY <1>0, <1>16 DEF Writes, ProgramAlive, Runs, Alive, Stages, Finished, Jobs
  <2> QED BY <1>0, <1>16, <2>1 DEF Writes, Reported
<1>17. ASSUME Retry PROVE Reported'
  BY <1>0, <1>17 DEF Retry, Transfers, Reported, Jobs, JobTypes, Unspawned, Stages,
     Finished, Runs
<1>18. ASSUME CheckTransfer PROVE Reported'
  BY <1>0, <1>18 DEF At, Lives, Goes, Transfers, CheckTransfer, Reported, Jobs,
     JobTypes, Unspawned, Stages, Finished, Runs
<1>19. ASSUME Concludes PROVE Reported'
  BY <1>0, <1>19 DEF Concludes, Transfers, InBody, NearEnds, At, Lives, Goes, Reported,
     Jobs, JobTypes, Unspawned, Stages, Finished, Runs
<1>20. ASSUME UNCHANGED <<work, status, step, verdict, out, made>> PROVE Reported'
  BY <1>0, <1>20 DEF Reported, Jobs, JobTypes, Unspawned, Stages, Finished, Runs
<1>21. ASSUME
          \/ Retire \/ RetireCancels \/ StdinEnds \/ ServeBatch \/ ServeCancel
          \/ DaemonExits \/ Lose \/ HangUp
      PROVE  UNCHANGED <<work, status, step, verdict, out, made>>
  BY <1>21 DEF Retire, RetireCancels, StdinEnds, ServeBatch, ServeCancel, DaemonExits,
     Lose, HangUp, Flagged
<1>22. ASSUME NEW j \in Jobs,
          \/ Cancel(j) \/ Kill(j) \/ LoopKill(j) \/ Ends(j)
      PROVE  UNCHANGED <<work, status, step, verdict, out, made>>
  BY <1>22 DEF Cancel, Kill, LoopKill, Ends, Flagged, LoopTop
<1>23. ASSUME UNCHANGED vars
      PROVE  UNCHANGED <<work, status, step, verdict, out, made>>
  BY <1>23 DEF vars
<1> QED BY <1>1, <1>2, <1>3, <1>4, <1>5, <1>6, <1>7, <1>8, <1>9, <1>10, <1>11, <1>12,
           <1>13, <1>14, <1>15, <1>16, <1>17, <1>18, <1>19, <1>20, <1>21, <1>22, <1>23
       DEF JobNext, Next, Worker, Serve, Works

--------------------------------------------------------------------------------
(* Transfers *)

\* A step of the jobs that is none of a transfer's own.
Apart == Next /\ UNCHANGED fileVars

Inv == JobInv /\ FileInv

\* To the jobs every step of a transfer is one of theirs or none.
LEMMA JobView == [TransferNext]_transferVars => [JobNext]_vars
<1> SUFFICES ASSUME TransferNext PROVE JobNext \/ UNCHANGED vars
  BY DEF transferVars, vars, ownerVars, daemonVars
<1>1. ASSUME Elsewhere, UNCHANGED <<step, verdict>> PROVE UNCHANGED vars
  BY <1>1 DEF Elsewhere, vars
<1>2. ASSUME Elsewhere, InBody, NEW v \in {"exited", "failed"}, NearEnds(v) PROVE JobNext
  BY <1>2 DEF Elsewhere, JobNext, Concludes
<1>3. CASE Next /\ UNCHANGED fileVars
  BY <1>3 DEF JobNext
<1>4. ASSUME NEW w \in Transfers, StartTransfer(w) PROVE JobNext
  BY <1>4 DEF StartTransfer, JobNext
<1>5. CASE Retry \/ CheckTransfer
  BY <1>5 DEF JobNext
<1>6. CASE NearFails \/ TakeReply
  BY <1>2, <1>6 DEF NearFails, TakeReply
<1>7. ASSUME NEW t, Publish(t) PROVE JobNext \/ UNCHANGED vars
  <2>1. CASE NearReceives
    BY <1>2, <1>7, <2>1 DEF Publish, Acts
  <2>2. CASE ~NearReceives
    BY <1>1, <1>7, <2>2 DEF Publish
  <2> QED BY <2>1, <2>2
<1>8. CASE SourceOpens \/ UploadStarts \/ TakeHeader \/ Edit \/ OtherCreates
  BY <1>1, <1>8 DEF SourceOpens, UploadStarts, TakeHeader, Edit, OtherCreates
<1>9. ASSUME NEW t, \/ SendBlock(t) \/ SendReceipt(t) \/ Stage(t) \/ TakeBlock(t)
                   \/ TakeReceipt(t) \/ SendReply(t) \/ DaemonFails(t) \/ DaemonKilled(t)
                   \/ LoseLink(t)
      PROVE  UNCHANGED vars
  BY <1>1, <1>9 DEF SendBlock, SendReceipt, Stage, TakeBlock, TakeReceipt, SendReply,
     DaemonFails, DaemonKilled, LoseLink
<1> QED BY <1>3, <1>4, <1>5, <1>6, <1>7, <1>8, <1>9 DEF TransferNext, NearMoves,
       DaemonWorks

\* What a step of the jobs is to the near job of a transfer.
NearView ==
  /\ \/ UNCHANGED work
     \/ /\ step["near"] = "none" /\ step'["near"] = "new" /\ work' \in Programs
        /\ tree'["near"] = "none"
  /\ work \in Transfers =>
       /\ step'["near"] \in {"none", "new", "check"} => step["near"] \in {"none", "new", "check"}
       /\ step'["near"] = "none" => step["near"] = "none"
       /\ step'["near"] \in Underway => step["near"] \in Underway
       /\ step'["near"] \in Underway \ {"loop"} => step["near"] \in Underway \ {"loop"}
       /\ tree'["near"] = "none" => tree["near"] = "none"
       /\ tree["near"] = "none" => tree'["near"] = "none" \/ step["near"] = "spawn"
       /\ tree'["near"] = "alive" => tree["near"] \in {"none", "alive"}
       /\ step'["near"] = "reap" => step["near"] = "reap" /\ verdict' = verdict
       /\ status'["near"] = "exited" =>
            status["near"] = "exited" \/ (step["near"] = "reap" /\ verdict = "exited")

\* Every step of the jobs looks so.
LEMMA NearSeen == JobInv /\ Next => NearView
<1> SUFFICES ASSUME JobInv, Next PROVE NearView
  OBVIOUS
<1>0. JobTypes /\ PlanTypes /\ StreamTypes /\ Stages
  BY DEF JobInv
<1>1. ASSUME NEW w \in Programs, Start(w) PROVE NearView
  BY <1>0, <1>1 DEF Start, NearView, Stages, JobTypes, Jobs, Underway, Transfers,
     Programs, Unspawned, Finished, Runs
<1>2. ASSUME SpawnWorkers PROVE NearView
  BY <1>0, <1>2 DEF SpawnWorkers, NearView, Stages, JobTypes, Jobs, Underway, Transfers,
     Programs, Unspawned, Finished, Runs
<1>3. ASSUME Forget PROVE NearView
  BY <1>0, <1>3 DEF Forget, NearView, Stages, JobTypes, Jobs, Underway, Transfers,
     Programs, Unspawned, Finished, Runs
<1>4. ASSUME NEW j \in Jobs, Kill(j) PROVE NearView
  BY <1>0, <1>4 DEF Kill, Lives, Terminated, Alive, NearView, Stages, JobTypes, Jobs,
     Underway, Transfers, Programs, Unspawned, Finished, Runs
<1>5. ASSUME NEW j \in Jobs, Check(j) PROVE NearView
  BY <1>0, <1>5 DEF Check, At, Lives, Goes, Fails, Programs, NearView, Stages, JobTypes,
     Jobs, Underway, Transfers, Unspawned, Finished, Runs
<1>6. ASSUME NEW j \in Jobs, Spawn(j) PROVE NearView
  BY <1>0, <1>6 DEF Spawn, At, Lives, Goes, Fails, NearView, Stages, JobTypes, Jobs,
     Underway, Transfers, Programs, Unspawned, Finished, Runs
<1>7. ASSUME NEW j \in Jobs, Control(j) PROVE NearView
  BY <1>0, <1>7 DEF Control, At, Lives, Goes, Terminated, Alive, NearView, Stages,
     JobTypes, Jobs, Underway, Transfers, Programs, Unspawned, Finished, Runs
<1>8. ASSUME NEW j \in Jobs, Running(j) PROVE NearView
  <2>1. /\ step[j] = "status" /\ UNCHANGED <<work, verdict>>
        /\ step' \in {[step EXCEPT ![j] = "loop"], [step EXCEPT ![j] = "done"]}
        /\ status' \in {[status EXCEPT ![j] = "running"], status, [status EXCEPT ![j] = "failed"]}
        /\ tree' \in {tree, [tree EXCEPT ![j] = "dead"], [tree EXCEPT ![j] = "reaped"]}
    <3>1. [status EXCEPT ![j] = status[j]] = status /\ [tree EXCEPT ![j] = tree[j]] = tree
      BY <1>0 DEF JobTypes
    <3> QED BY <1>8, <3>1 DEF Running, At, Goes, Fails, LoopTop, Terminated
  <2>2. tree[j] # "none"
    BY <1>0, <2>1 DEF Stages, Copies
  <2> QED BY <1>0, <2>1, <2>2 DEF NearView, JobTypes, Jobs, Underway
<1>9. ASSUME NEW j \in Jobs, LoopKill(j) PROVE NearView
  BY <1>0, <1>9 DEF LoopKill, At, Lives, LoopTop, Terminated, Alive, Runs, NearView,
     Stages, JobTypes, Jobs, Underway, Transfers, Programs, Unspawned, Finished
<1>10. ASSUME NEW j \in Jobs, LoopExit(j) PROVE NearView
  BY <1>0, <1>10 DEF LoopExit, At, Lives, Goes, Runs, NearView, Stages, JobTypes, Jobs,
     Underway, Transfers, Programs, Unspawned, Finished
<1>11. ASSUME NEW j \in Jobs, Exit(j) PROVE NearView
  BY <1>0, <1>11 DEF Exit, At, Lives, Goes, Fails, Unread, NearView, Stages, JobTypes,
     Jobs, Underway, Transfers, Programs, Unspawned, Finished, Runs
<1>12. ASSUME NEW j \in Jobs, Ends(j) PROVE NearView
  BY <1>0, <1>12 DEF Ends, Runs, NearView, Stages, JobTypes, Jobs, Underway, Transfers,
     Programs, Unspawned, Finished
<1>13. ASSUME TakeBatch PROVE NearView
  <2>1. work \notin Transfers /\ UNCHANGED work
    BY <1>0, <1>13, BatchTaken DEF Transfers
  <2> QED BY <2>1 DEF NearView
<1>14. ASSUME TakeEnd PROVE NearView
  BY <1>0, <1>14 DEF TakeEnd, At, Lives, Goes, Alive, NearView, Stages, JobTypes, Jobs,
     Underway, Transfers, Programs, Unspawned, Finished, Runs
<1>15. ASSUME Reap PROVE NearView
  BY <1>0, <1>15 DEF Reap, At, Lives, Goes, NearView, Stages, JobTypes, Jobs, Underway,
     Transfers, Programs, Unspawned, Finished, Runs
<1>16. ASSUME DaemonStarts PROVE NearView
  BY <1>0, <1>16 DEF DaemonStarts, Connected, Goes, NearView, Stages, JobTypes, Jobs,
     Underway, Transfers, Programs, Unspawned, Finished, Runs
<1>17. ASSUME HangUp PROVE NearView
  BY <1>0, <1>17 DEF HangUp, Connected, NearView, Stages, JobTypes, Jobs, Underway,
     Transfers, Programs, Unspawned, Finished, Runs
<1>18. ASSUME UNCHANGED <<work, step, tree, status, verdict>> PROVE NearView
  BY <1>0, <1>18 DEF NearView, Stages, JobTypes, Jobs, Underway, Transfers, Programs,
     Unspawned, Finished, Runs
<1>19. ASSUME
          \/ Retire \/ RetireCancels \/ StdinEnds \/ ServeBatch \/ ServeCancel
          \/ DaemonExits \/ Writes \/ Lose
      PROVE  UNCHANGED <<work, step, tree, status, verdict>>
  BY <1>19 DEF Retire, RetireCancels, StdinEnds, ServeBatch, ServeCancel, DaemonExits,
     Writes, Lose, Flagged
<1>20. ASSUME NEW j \in Jobs,
          \/ Cancel(j) \/ LoopOutput(j) \/ Drain(j)
      PROVE  UNCHANGED <<work, step, tree, status, verdict>>
  BY <1>20 DEF Cancel, LoopOutput, Drain, Flagged
<1> QED BY <1>1, <1>2, <1>3, <1>4, <1>5, <1>6, <1>7, <1>8, <1>9, <1>10, <1>11, <1>12,
           <1>13, <1>14, <1>15, <1>16, <1>17, <1>18, <1>19, <1>20
       DEF Next, Worker, Serve

\* What goes over a link is a word or a block, and they differ.
LEMMA Words ==
  /\ <<>> \in Seq(Int) /\ Header \in Seq(Int) /\ Receipt \in Seq(Int)
  /\ Reply \in Seq(Int) /\ Foreign \in Seq(Int)
  /\ Header # <<>> /\ Receipt # <<>> /\ Reply # <<>> /\ Foreign # <<>>
  /\ Header # Receipt /\ Header # Reply /\ Receipt # Reply
  /\ \A v \in Nat : /\ <<v>> \in Seq(Int) /\ Block(<<v>>)
                    /\ Len(<<v>>) = 1 /\ <<v>>[1] = v
  /\ ~Block(<<>>) /\ ~Block(Header) /\ ~Block(Receipt) /\ ~Block(Reply)
<1>1. ASSUME NEW v \in Int PROVE <<v>> \in Seq(Int) /\ <<v>> # <<>> /\ <<v>>[1] = v /\ Len(<<v>>) = 1
  OBVIOUS
<1>2. <<>> \in Seq(Int)
  BY EmptySeq
<1>3. ASSUME NEW v \in Int, NEW w \in Int, <<v>> = <<w>> PROVE v = w
  BY <1>3
<1>4. /\ Header \in Seq(Int) /\ Receipt \in Seq(Int) /\ Reply \in Seq(Int)
      /\ Foreign \in Seq(Int)
      /\ Header # <<>> /\ Receipt # <<>> /\ Reply # <<>> /\ Foreign # <<>>
  BY <1>1 DEF Header, Receipt, Reply, Foreign
<1>5. Header # Receipt /\ Header # Reply /\ Receipt # Reply
  BY <1>3 DEF Header, Receipt, Reply
<1>6. ASSUME NEW v \in Nat PROVE Block(<<v>>)
  BY <1>1, <1>3 DEF Block, Header, Receipt, Reply
<1> QED BY <1>1, <1>2, <1>4, <1>5, <1>6 DEF Block

\* The words are sequences of numbers.
LEMMA WordTypes ==
  /\ <<>> \in Seq(Int) /\ Header \in Seq(Int) /\ Receipt \in Seq(Int)
  /\ Reply \in Seq(Int) /\ Foreign \in Seq(Int)
  /\ \A v \in Nat : <<v>> \in Seq(Int)
BY Words

\* No word is a block.
LEMMA NoBlocks == ~Block(<<>>) /\ ~Block(Header) /\ ~Block(Receipt) /\ ~Block(Reply)
BY Words

\* The words differ from each other and from every block.
LEMMA WordsDiffer ==
  /\ Header # <<>> /\ Receipt # <<>> /\ Reply # <<>>
  /\ Header # Receipt /\ Header # Reply /\ Receipt # Reply
  /\ \A v \in Nat : <<v>> # Header /\ <<v>> # Receipt /\ <<v>> # Reply /\ <<v>> # <<>>
BY Words DEF Block

\* A step changes one leg.
Moved(t) ==
  /\ leg' \in [Tries -> Legs]
  /\ \A u \in Tries : u # t => leg'[u] = leg[u]

\* An update of one leg gives a function of legs again.
LEMMA OneLeg ==
  ASSUME FileTypes, NEW t \in Tries, NEW l \in Legs, leg' = [leg EXCEPT ![t] = l]
  PROVE  Moved(t) /\ leg'[t] = l
BY DEF FileTypes, Moved

\* What SourceOpens does to the leg of its try.
LEMMA SourceOpensLeg ==
  ASSUME FileTypes, SourceOpens
  PROVE  /\ Moved(try) /\ leg'[try].snd = "blocks" /\ leg'[try].link = Header
         /\ leg'[try].opened = src /\ leg'[try].rcv = leg[try].rcv
         /\ leg'[try].sent = leg[try].sent /\ leg'[try].staged = leg[try].staged
         /\ leg'[try].tmp = leg[try].tmp
<1> DEFINE l == [leg[try] EXCEPT !.snd = "blocks", !.opened = src, !.link = Header]
<1>1. leg' = [leg EXCEPT ![try] = l] /\ try \in Tries
  BY DEF SourceOpens, FileTypes
<1>2. leg[try] \in Legs
  BY <1>1 DEF FileTypes
<1>3. src \in Nat /\ Header \in Seq(Int)
  BY TransfersAssumption, WordTypes DEF FileTypes
<1>4. l \in Legs
  BY <1>2, <1>3 DEF Legs, Senders, Receivers
<1> HIDE DEF l
<1>5. Moved(try) /\ leg'[try] = l
  BY <1>1, <1>4, OneLeg
<1> QED BY <1>2, <1>5 DEF l, Legs

\* What SendBlock does to the leg of its try.
LEMMA SendBlockLeg ==
  ASSUME FileTypes, NEW t \in Tries, SendBlock(t)
  PROVE  /\ Moved(t) /\ leg'[t].link = <<src>> /\ leg'[t].sent = leg[t].sent + 1
         /\ leg'[t].snd = leg[t].snd /\ leg'[t].rcv = leg[t].rcv
         /\ leg'[t].opened = leg[t].opened /\ leg'[t].staged = leg[t].staged
         /\ leg'[t].tmp = leg[t].tmp
<1> DEFINE l == [leg[t] EXCEPT !.link = <<src>>, !.sent = leg[t].sent + 1]
<1>1. leg' = [leg EXCEPT ![t] = l] /\ t \in Tries
  BY DEF SendBlock, FileTypes
<1>2. leg[t] \in Legs
  BY <1>1 DEF FileTypes
<1>3. src \in Nat /\ <<src>> \in Seq(Int) /\ leg[t].sent + 1 \in Nat
  BY <1>2, TransfersAssumption, WordTypes DEF FileTypes, Legs
<1>4. l \in Legs
  BY <1>2, <1>3 DEF Legs, Senders, Receivers
<1> HIDE DEF l
<1>5. Moved(t) /\ leg'[t] = l
  BY <1>1, <1>4, OneLeg
<1> QED BY <1>2, <1>5 DEF l, Legs

\* What SendReceipt does to the leg of its try.
LEMMA SendReceiptLeg ==
  ASSUME FileTypes, NEW t \in Tries, SendReceipt(t)
  PROVE  /\ Moved(t) /\ leg'[t].snd = "sent" /\ leg'[t].link = Receipt
         /\ leg'[t].sent = 0 /\ leg'[t].rcv = leg[t].rcv
         /\ leg'[t].opened = leg[t].opened /\ leg'[t].staged = leg[t].staged
         /\ leg'[t].tmp = leg[t].tmp
<1> DEFINE l == [leg[t] EXCEPT !.link = Receipt, !.snd = "sent", !.sent = 0]
<1>1. leg' = [leg EXCEPT ![t] = l] /\ t \in Tries
  BY DEF SendReceipt, FileTypes
<1>2. leg[t] \in Legs
  BY <1>1 DEF FileTypes
<1>4. l \in Legs
  BY <1>2, WordTypes DEF Legs, Senders, Receivers
<1> HIDE DEF l
<1>5. Moved(t) /\ leg'[t] = l
  BY <1>1, <1>4, OneLeg
<1> QED BY <1>2, <1>5 DEF l, Legs

\* What TakeReply does to the leg of its try.
LEMMA TakeReplyLeg ==
  ASSUME FileTypes, TakeReply
  PROVE  /\ Moved(try) /\ leg'[try].link = <<>> /\ leg'[try].snd = leg[try].snd
         /\ leg'[try].rcv = leg[try].rcv /\ leg'[try].sent = leg[try].sent
         /\ leg'[try].opened = leg[try].opened /\ leg'[try].staged = leg[try].staged
         /\ leg'[try].tmp = leg[try].tmp
<1> DEFINE l == [leg[try] EXCEPT !.link = <<>>]
<1>1. leg' = [leg EXCEPT ![try] = l] /\ try \in Tries
  BY DEF TakeReply, FileTypes
<1>2. leg[try] \in Legs
  BY <1>1 DEF FileTypes
<1>4. l \in Legs
  BY <1>2, WordTypes DEF Legs, Senders, Receivers
<1> HIDE DEF l
<1>5. Moved(try) /\ leg'[try] = l
  BY <1>1, <1>4, OneLeg
<1> QED BY <1>2, <1>5 DEF l, Legs

\* What UploadStarts does to the leg of its try.
LEMMA UploadStartsLeg ==
  ASSUME FileTypes, UploadStarts
  PROVE  /\ Moved(try) /\ leg'[try].rcv = "stage" /\ leg'[try].snd = leg[try].snd
         /\ leg'[try].link = leg[try].link /\ leg'[try].sent = leg[try].sent
         /\ leg'[try].opened = leg[try].opened /\ leg'[try].staged = leg[try].staged
         /\ leg'[try].tmp = leg[try].tmp
<1> DEFINE l == [leg[try] EXCEPT !.rcv = "stage"]
<1>1. leg' = [leg EXCEPT ![try] = l] /\ try \in Tries
  BY DEF UploadStarts, FileTypes
<1>2. leg[try] \in Legs
  BY <1>1 DEF FileTypes
<1>4. l \in Legs
  BY <1>2 DEF Legs, Senders, Receivers
<1> HIDE DEF l
<1>5. Moved(try) /\ leg'[try] = l
  BY <1>1, <1>4, OneLeg
<1> QED BY <1>2, <1>5 DEF l, Legs

\* What TakeHeader does to the leg of its try.
LEMMA TakeHeaderLeg ==
  ASSUME FileTypes, TakeHeader
  PROVE  /\ Moved(try) /\ leg'[try].rcv = "stage" /\ leg'[try].link = <<>>
         /\ leg'[try].snd = leg[try].snd /\ leg'[try].sent = leg[try].sent
         /\ leg'[try].opened = leg[try].opened /\ leg'[try].staged = leg[try].staged
         /\ leg'[try].tmp = leg[try].tmp
<1> DEFINE l == [leg[try] EXCEPT !.rcv = "stage", !.link = <<>>]
<1>1. leg' = [leg EXCEPT ![try] = l] /\ try \in Tries
  BY DEF TakeHeader, FileTypes
<1>2. leg[try] \in Legs
  BY <1>1 DEF FileTypes
<1>4. l \in Legs
  BY <1>2, WordTypes DEF Legs, Senders, Receivers
<1> HIDE DEF l
<1>5. Moved(try) /\ leg'[try] = l
  BY <1>1, <1>4, OneLeg
<1> QED BY <1>2, <1>5 DEF l, Legs

\* What Stage does to the leg of its try.
LEMMA StageLeg ==
  ASSUME FileTypes, NEW t \in Tries, Stage(t)
  PROVE  /\ Moved(t) /\ leg'[t].rcv = "blocks" /\ leg'[t].tmp = TRUE
         /\ leg'[t].snd = leg[t].snd /\ leg'[t].link = leg[t].link
         /\ leg'[t].sent = leg[t].sent /\ leg'[t].opened = leg[t].opened
         /\ leg'[t].staged = leg[t].staged
<1> DEFINE l == [leg[t] EXCEPT !.rcv = "blocks", !.tmp = TRUE]
<1>1. leg' = [leg EXCEPT ![t] = l] /\ t \in Tries
  BY DEF Stage, FileTypes
<1>2. leg[t] \in Legs
  BY <1>1 DEF FileTypes
<1>4. l \in Legs
  BY <1>2 DEF Legs, Senders, Receivers
<1> HIDE DEF l
<1>5. Moved(t) /\ leg'[t] = l
  BY <1>1, <1>4, OneLeg
<1> QED BY <1>2, <1>5 DEF l, Legs

\* What TakeBlock does to the leg of its try.
LEMMA TakeBlockLeg ==
  ASSUME FileTypes, NEW t \in Tries, TakeBlock(t)
  PROVE  /\ Moved(t) /\ leg'[t].link = <<>>
         /\ leg'[t].staged = leg[t].staged \o leg[t].link /\ leg'[t].snd = leg[t].snd
         /\ leg'[t].rcv = leg[t].rcv /\ leg'[t].sent = leg[t].sent
         /\ leg'[t].opened = leg[t].opened /\ leg'[t].tmp = leg[t].tmp
<1> DEFINE l == [leg[t] EXCEPT !.staged = leg[t].staged \o leg[t].link, !.link = <<>>]
<1>1. leg' = [leg EXCEPT ![t] = l] /\ t \in Tries
  BY DEF TakeBlock, FileTypes
<1>2. leg[t] \in Legs
  BY <1>1 DEF FileTypes
<1>3. leg[t].staged \o leg[t].link \in Seq(Int) /\ <<>> \in Seq(Int)
  BY <1>2, ConcatProperties, WordTypes DEF Legs
<1>4. l \in Legs
  BY <1>2, <1>3 DEF Legs, Senders, Receivers
<1> HIDE DEF l
<1>5. Moved(t) /\ leg'[t] = l
  BY <1>1, <1>4, OneLeg
<1> QED BY <1>2, <1>5 DEF l, Legs

\* What TakeReceipt does to the leg of its try.
LEMMA TakeReceiptLeg ==
  ASSUME FileTypes, NEW t \in Tries, TakeReceipt(t)
  PROVE  /\ Moved(t) /\ leg'[t].rcv = "publish" /\ leg'[t].link = <<>>
         /\ leg'[t].snd = leg[t].snd /\ leg'[t].sent = leg[t].sent
         /\ leg'[t].opened = leg[t].opened /\ leg'[t].staged = leg[t].staged
         /\ leg'[t].tmp = leg[t].tmp
<1> DEFINE l == [leg[t] EXCEPT !.rcv = "publish", !.link = <<>>]
<1>1. leg' = [leg EXCEPT ![t] = l] /\ t \in Tries
  BY DEF TakeReceipt, FileTypes
<1>2. leg[t] \in Legs
  BY <1>1 DEF FileTypes
<1>4. l \in Legs
  BY <1>2, WordTypes DEF Legs, Senders, Receivers
<1> HIDE DEF l
<1>5. Moved(t) /\ leg'[t] = l
  BY <1>1, <1>4, OneLeg
<1> QED BY <1>2, <1>5 DEF l, Legs

\* What Publish does to the leg of its try.
LEMMA PublishLeg ==
  ASSUME FileTypes, NEW t \in Tries, Publish(t)
  PROVE  /\ Moved(t) /\ leg'[t].rcv = (IF NearReceives THEN "gone" ELSE "reply")
         /\ leg'[t].staged = <<>> /\ leg'[t].tmp = FALSE /\ leg'[t].snd = leg[t].snd
         /\ leg'[t].link = leg[t].link /\ leg'[t].sent = leg[t].sent
         /\ leg'[t].opened = leg[t].opened
<1> DEFINE l == [leg[t] EXCEPT !.rcv = IF NearReceives THEN "gone" ELSE "reply",
                                    !.staged = <<>>, !.tmp = FALSE]
<1>1. leg' = [leg EXCEPT ![t] = l] /\ t \in Tries
  BY DEF Publish, FileTypes
<1>2. leg[t] \in Legs
  BY <1>1 DEF FileTypes
<1>4. l \in Legs
  BY <1>2, WordTypes DEF Legs, Senders, Receivers
<1> HIDE DEF l
<1>5. Moved(t) /\ leg'[t] = l
  BY <1>1, <1>4, OneLeg
<1> QED BY <1>2, <1>5 DEF l, Legs

\* What SendReply does to the leg of its try.
LEMMA SendReplyLeg ==
  ASSUME FileTypes, NEW t \in Tries, SendReply(t)
  PROVE  /\ Moved(t) /\ leg'[t].rcv = "gone"
         /\ leg'[t].link = (IF Up(t) THEN Reply ELSE <<>>) /\ leg'[t].snd = leg[t].snd
         /\ leg'[t].sent = leg[t].sent /\ leg'[t].opened = leg[t].opened
         /\ leg'[t].staged = leg[t].staged /\ leg'[t].tmp = leg[t].tmp
<1> DEFINE l == [leg[t] EXCEPT !.rcv = "gone", !.link = IF Up(t) THEN Reply ELSE <<>>]
<1>1. leg' = [leg EXCEPT ![t] = l] /\ t \in Tries
  BY DEF SendReply, FileTypes
<1>2. leg[t] \in Legs
  BY <1>1 DEF FileTypes
<1>4. l \in Legs
  BY <1>2, WordTypes DEF Legs, Senders, Receivers
<1> HIDE DEF l
<1>5. Moved(t) /\ leg'[t] = l
  BY <1>1, <1>4, OneLeg
<1> QED BY <1>2, <1>5 DEF l, Legs

\* What DaemonKilled does to the leg of its try.
LEMMA DaemonKilledLeg ==
  ASSUME FileTypes, NEW t \in Tries, DaemonKilled(t)
  PROVE  /\ Moved(t) /\ leg'[t].rcv = (IF leg[t].tmp THEN "killed" ELSE "gone")
         /\ leg'[t].staged = <<>> /\ leg'[t].snd = leg[t].snd
         /\ leg'[t].link = leg[t].link /\ leg'[t].sent = leg[t].sent
         /\ leg'[t].opened = leg[t].opened /\ leg'[t].tmp = leg[t].tmp
<1> DEFINE l == [leg[t] EXCEPT !.rcv = IF leg[t].tmp THEN "killed" ELSE "gone",
                                    !.staged = <<>>]
<1>1. leg' = [leg EXCEPT ![t] = l] /\ t \in Tries
  BY DEF DaemonKilled, FileTypes
<1>2. leg[t] \in Legs
  BY <1>1 DEF FileTypes
<1>4. l \in Legs
  BY <1>2, WordTypes DEF Legs, Senders, Receivers
<1> HIDE DEF l
<1>5. Moved(t) /\ leg'[t] = l
  BY <1>1, <1>4, OneLeg
<1> QED BY <1>2, <1>5 DEF l, Legs

\* What LoseLink does to the leg of its try.
LEMMA LoseLinkLeg ==
  ASSUME FileTypes, NEW t \in Tries, LoseLink(t)
  PROVE  /\ Moved(t) /\ leg'[t].link = <<>> /\ leg'[t].snd = leg[t].snd
         /\ leg'[t].rcv = leg[t].rcv /\ leg'[t].sent = leg[t].sent
         /\ leg'[t].opened = leg[t].opened /\ leg'[t].staged = leg[t].staged
         /\ leg'[t].tmp = leg[t].tmp
<1> DEFINE l == [leg[t] EXCEPT !.link = <<>>]
<1>1. leg' = [leg EXCEPT ![t] = l] /\ t \in Tries
  BY DEF LoseLink, FileTypes
<1>2. leg[t] \in Legs
  BY <1>1 DEF FileTypes
<1>4. l \in Legs
  BY <1>2, WordTypes DEF Legs, Senders, Receivers
<1> HIDE DEF l
<1>5. Moved(t) /\ leg'[t] = l
  BY <1>1, <1>4, OneLeg
<1> QED BY <1>2, <1>5 DEF l, Legs

\* What NearFails does to the leg of its try.
LEMMA NearFailsLeg ==
  ASSUME FileTypes, NearFails
  PROVE  \/ /\ work = "copy"
            /\ Moved(try) /\ leg'[try].snd = "gone" /\ leg'[try].rcv = "gone"
            /\ leg'[try].sent = 0 /\ leg'[try].opened = 0 /\ leg'[try].staged = <<>>
            /\ leg'[try].tmp = FALSE /\ leg'[try].link = leg[try].link
         \/ /\ work = "upload"
            /\ Moved(try) /\ leg'[try].snd = "gone" /\ leg'[try].sent = 0
            /\ leg'[try].opened = 0 /\ leg'[try].rcv = leg[try].rcv
            /\ leg'[try].link = leg[try].link /\ leg'[try].staged = leg[try].staged
            /\ leg'[try].tmp = leg[try].tmp
         \/ /\ work = "download"
            /\ Moved(try) /\ leg'[try].rcv = "gone" /\ leg'[try].staged = <<>>
            /\ leg'[try].tmp = FALSE /\ leg'[try].snd = leg[try].snd
            /\ leg'[try].link = leg[try].link /\ leg'[try].sent = leg[try].sent
            /\ leg'[try].opened = leg[try].opened
<1>1. try \in Tries /\ leg[try] \in Legs /\ <<>> \in Seq(Int)
  BY WordTypes DEF FileTypes
<1>2. ASSUME NEW r \in Legs PROVE SenderGone(r) \in Legs /\ ReceiverGone(r) \in Legs
  BY <1>1 DEF SenderGone, ReceiverGone, Legs, Senders, Receivers
<1>3. work \in {"copy", "upload", "download"}
  BY DEF NearFails, InBody, Transfers
<1>4. CASE work = "copy"
  <2>1. leg' = [leg EXCEPT ![try] = SenderGone(ReceiverGone(leg[try]))]
    BY <1>4 DEF NearFails
  <2>2. Moved(try) /\ leg'[try] = SenderGone(ReceiverGone(leg[try]))
    BY <1>1, <1>2, <2>1, OneLeg
  <2> QED BY <1>1, <1>4, <2>2 DEF SenderGone, ReceiverGone, Legs
<1>5. CASE work = "upload"
  <2>1. leg' = [leg EXCEPT ![try] = SenderGone(leg[try])]
    BY <1>5 DEF NearFails
  <2>2. Moved(try) /\ leg'[try] = SenderGone(leg[try])
    BY <1>1, <1>2, <2>1, OneLeg
  <2> QED BY <1>1, <1>5, <2>2 DEF SenderGone, Legs
<1>6. CASE work = "download"
  <2>1. leg' = [leg EXCEPT ![try] = ReceiverGone(leg[try])]
    BY <1>6 DEF NearFails
  <2>2. Moved(try) /\ leg'[try] = ReceiverGone(leg[try])
    BY <1>1, <1>2, <2>1, OneLeg
  <2> QED BY <1>1, <1>6, <2>2 DEF ReceiverGone, Legs
<1> QED BY <1>3, <1>4, <1>5, <1>6

\* What DaemonFails does to the leg of its try.
LEMMA DaemonFailsLeg ==
  ASSUME FileTypes, NEW t \in Tries, DaemonFails(t)
  PROVE  \/ /\ ~NearSends /\ leg[t].snd = "blocks"
            /\ Moved(t) /\ leg'[t].snd = "gone" /\ leg'[t].sent = 0 /\ leg'[t].opened = 0
            /\ leg'[t].rcv = leg[t].rcv /\ leg'[t].link = leg[t].link
            /\ leg'[t].staged = leg[t].staged /\ leg'[t].tmp = leg[t].tmp
         \/ /\ ~NearReceives /\ leg[t].rcv \in {"stage", "blocks", "publish", "reply"}
            /\ Moved(t) /\ leg'[t].rcv = "gone" /\ leg'[t].staged = <<>>
            /\ leg'[t].tmp = FALSE /\ leg'[t].snd = leg[t].snd
            /\ leg'[t].link = leg[t].link /\ leg'[t].sent = leg[t].sent
            /\ leg'[t].opened = leg[t].opened
<1>1. leg[t] \in Legs /\ <<>> \in Seq(Int)
  BY WordTypes DEF FileTypes
<1>2. SenderGone(leg[t]) \in Legs /\ ReceiverGone(leg[t]) \in Legs
  BY <1>1 DEF SenderGone, ReceiverGone, Legs, Senders, Receivers
<1>3. CASE ~NearSends /\ leg[t].snd = "blocks" /\ leg' = [leg EXCEPT ![t] = SenderGone(leg[t])]
  <2>1. Moved(t) /\ leg'[t] = SenderGone(leg[t])
    BY <1>2, <1>3, OneLeg
  <2>2. /\ Moved(t) /\ leg'[t].snd = "gone" /\ leg'[t].sent = 0 /\ leg'[t].opened = 0
        /\ leg'[t].rcv = leg[t].rcv /\ leg'[t].link = leg[t].link
        /\ leg'[t].staged = leg[t].staged /\ leg'[t].tmp = leg[t].tmp
    BY <1>1, <2>1 DEF SenderGone, Legs
  <2> QED BY <1>3, <2>2
<1>4. CASE /\ ~NearReceives /\ leg[t].rcv \in {"stage", "blocks", "publish", "reply"}
           /\ leg' = [leg EXCEPT ![t] = ReceiverGone(leg[t])]
  <2>1. Moved(t) /\ leg'[t] = ReceiverGone(leg[t])
    BY <1>2, <1>4, OneLeg
  <2>2. /\ Moved(t) /\ leg'[t].rcv = "gone" /\ leg'[t].staged = <<>>
        /\ leg'[t].tmp = FALSE /\ leg'[t].snd = leg[t].snd /\ leg'[t].link = leg[t].link
        /\ leg'[t].sent = leg[t].sent /\ leg'[t].opened = leg[t].opened
    BY <1>1, <2>1 DEF ReceiverGone, Legs
  <2> QED BY <1>4, <2>2
<1> QED BY <1>3, <1>4 DEF DaemonFails

\* What CheckTransfer does to the leg of the current try.
LEMMA CheckLeg ==
  ASSUME FileTypes, CheckTransfer
  PROVE  \/ /\ work = "upload" /\ step' = [step EXCEPT !["near"] = "spawn"]
            /\ Moved(try) /\ leg'[try].snd = "blocks" /\ leg'[try].opened = src
            /\ leg'[try].rcv = leg[try].rcv /\ leg'[try].link = leg[try].link
            /\ leg'[try].sent = leg[try].sent /\ leg'[try].staged = leg[try].staged
            /\ leg'[try].tmp = leg[try].tmp
         \/ /\ work = "download" /\ step' = [step EXCEPT !["near"] = "spawn"]
            /\ Moved(try) /\ leg'[try].rcv = "head" /\ leg'[try].snd = leg[try].snd
            /\ leg'[try].link = leg[try].link /\ leg'[try].sent = leg[try].sent
            /\ leg'[try].opened = leg[try].opened /\ leg'[try].staged = leg[try].staged
            /\ leg'[try].tmp = leg[try].tmp
         \/ /\ work = "copy" /\ step' = [step EXCEPT !["near"] = "loop"]
            /\ Moved(try) /\ leg'[try].snd = "blocks" /\ leg'[try].rcv = "stage"
            /\ leg'[try].opened = src /\ leg'[try].link = leg[try].link
            /\ leg'[try].sent = leg[try].sent /\ leg'[try].staged = leg[try].staged
            /\ leg'[try].tmp = leg[try].tmp
         \/ step' = [step EXCEPT !["near"] = "reap"] /\ UNCHANGED leg
<1>1. try \in Tries /\ leg[try] \in Legs /\ src \in Nat
  BY TransfersAssumption DEF FileTypes
<1> DEFINE a == [leg[try] EXCEPT !.snd = "blocks", !.opened = src]
           b == [leg[try] EXCEPT !.rcv = "head"]
           c == [leg[try] EXCEPT !.snd = "blocks", !.opened = src, !.rcv = "stage"]
<1>2. a \in Legs /\ b \in Legs /\ c \in Legs
  BY <1>1 DEF Legs, Senders, Receivers
<1>3. ASSUME NEW r \in Legs, leg' = [leg EXCEPT ![try] = r] PROVE Moved(try) /\ leg'[try] = r
  BY <1>1, <1>3, OneLeg
<1> HIDE DEF a, b, c
<1>4. CASE work = "upload" /\ leg' = [leg EXCEPT ![try] = a] /\ Goes("near", "spawn")
  <2>1. Moved(try) /\ leg'[try] = a
    BY <1>2, <1>3, <1>4
  <2>2. /\ Moved(try) /\ leg'[try].snd = "blocks" /\ leg'[try].opened = src
        /\ leg'[try].rcv = leg[try].rcv /\ leg'[try].link = leg[try].link
        /\ leg'[try].sent = leg[try].sent /\ leg'[try].staged = leg[try].staged
        /\ leg'[try].tmp = leg[try].tmp
    BY <1>1, <2>1 DEF a, Legs
  <2> QED BY <1>4, <2>2 DEF Goes
<1>5. CASE work = "download" /\ leg' = [leg EXCEPT ![try] = b] /\ Goes("near", "spawn")
  <2>1. Moved(try) /\ leg'[try] = b
    BY <1>2, <1>3, <1>5
  <2>2. /\ Moved(try) /\ leg'[try].rcv = "head" /\ leg'[try].snd = leg[try].snd
        /\ leg'[try].link = leg[try].link /\ leg'[try].sent = leg[try].sent
        /\ leg'[try].opened = leg[try].opened /\ leg'[try].staged = leg[try].staged
        /\ leg'[try].tmp = leg[try].tmp
    BY <1>1, <2>1 DEF b, Legs
  <2> QED BY <1>5, <2>2 DEF Goes
<1>6. CASE work = "copy" /\ leg' = [leg EXCEPT ![try] = c] /\ Goes("near", "loop")
  <2>1. Moved(try) /\ leg'[try] = c
    BY <1>2, <1>3, <1>6
  <2>2. /\ Moved(try) /\ leg'[try].snd = "blocks" /\ leg'[try].rcv = "stage"
        /\ leg'[try].opened = src /\ leg'[try].link = leg[try].link
        /\ leg'[try].sent = leg[try].sent /\ leg'[try].staged = leg[try].staged
        /\ leg'[try].tmp = leg[try].tmp
    BY <1>1, <2>1 DEF c, Legs
  <2> QED BY <1>6, <2>2 DEF Goes
<1>7. CASE Goes("near", "reap") /\ UNCHANGED leg
  BY <1>7 DEF Goes
<1> QED BY <1>4, <1>5, <1>6, <1>7 DEF CheckTransfer, a, b, c

\* Every step keeps the types of the files and of the two sides.
LEMMA FileTypesKept == Inv /\ [TransferNext]_transferVars => FileTypes'
<1> SUFFICES ASSUME Inv, [TransferNext]_transferVars PROVE FileTypes'
  OBVIOUS
<1>0. FileTypes
  BY DEF Inv, FileInv, JobInv
<1>1. ASSUME Retry PROVE FileTypes'
  BY <1>0, <1>1, TransfersAssumption, WordTypes DEF Retry, FileTypes, Legs, Senders,
     Receivers, Tries
<1>2. ASSUME CheckTransfer PROVE FileTypes'
  BY <1>0, <1>2, CheckLeg DEF Moved, CheckTransfer, Elsewhere, FileTypes
<1>3. ASSUME NearFails PROVE FileTypes'
  BY <1>0, <1>3, NearFailsLeg DEF Moved, NearFails, Elsewhere, FileTypes
<1>4. ASSUME SourceOpens PROVE FileTypes'
  BY <1>0, <1>4, SourceOpensLeg DEF Moved, SourceOpens, Elsewhere, FileTypes
<1>5. ASSUME NEW t \in Tries, SendBlock(t) PROVE FileTypes'
  BY <1>0, <1>5, SendBlockLeg DEF Moved, SendBlock, Elsewhere, FileTypes
<1>6. ASSUME NEW t \in Tries, SendReceipt(t) PROVE FileTypes'
  BY <1>0, <1>6, SendReceiptLeg DEF Moved, SendReceipt, Elsewhere, FileTypes
<1>7. ASSUME TakeReply PROVE FileTypes'
  BY <1>0, <1>7, TakeReplyLeg DEF Moved, TakeReply, Elsewhere, FileTypes
<1>8. ASSUME UploadStarts PROVE FileTypes'
  BY <1>0, <1>8, UploadStartsLeg DEF Moved, UploadStarts, Elsewhere, FileTypes
<1>9. ASSUME TakeHeader PROVE FileTypes'
  BY <1>0, <1>9, TakeHeaderLeg DEF Moved, TakeHeader, Elsewhere, FileTypes
<1>10. ASSUME NEW t \in Tries, Stage(t) PROVE FileTypes'
  BY <1>0, <1>10, StageLeg DEF Moved, Stage, Elsewhere, FileTypes
<1>11. ASSUME NEW t \in Tries, TakeBlock(t) PROVE FileTypes'
  BY <1>0, <1>11, TakeBlockLeg DEF Moved, TakeBlock, Elsewhere, FileTypes
<1>12. ASSUME NEW t \in Tries, TakeReceipt(t) PROVE FileTypes'
  BY <1>0, <1>12, TakeReceiptLeg DEF Moved, TakeReceipt, Elsewhere, FileTypes
<1>13. ASSUME NEW t \in Tries, Publish(t) PROVE FileTypes'
  BY <1>0, <1>13, PublishLeg DEF Moved, Publish, Elsewhere, FileTypes, Legs
<1>14. ASSUME NEW t \in Tries, SendReply(t) PROVE FileTypes'
  BY <1>0, <1>14, SendReplyLeg DEF Moved, SendReply, Elsewhere, FileTypes
<1>15. ASSUME NEW t \in Tries, DaemonFails(t) PROVE FileTypes'
  BY <1>0, <1>15, DaemonFailsLeg DEF Moved, DaemonFails, Elsewhere, FileTypes
<1>16. ASSUME NEW t \in Tries, DaemonKilled(t) PROVE FileTypes'
  BY <1>0, <1>16, DaemonKilledLeg DEF Moved, DaemonKilled, Elsewhere, FileTypes
<1>17. ASSUME NEW t \in Tries, LoseLink(t) PROVE FileTypes'
  BY <1>0, <1>17, LoseLinkLeg DEF Moved, LoseLink, Elsewhere, FileTypes
<1>18. ASSUME Edit PROVE FileTypes'
  BY <1>0, <1>18, TransfersAssumption, WordTypes DEF Edit, Elsewhere, FileTypes, Legs,
     Senders, Receivers, Tries
<1>19. ASSUME OtherCreates PROVE FileTypes'
  BY <1>0, <1>19, TransfersAssumption, WordTypes DEF OtherCreates, Elsewhere, FileTypes,
     Legs, Senders, Receivers, Tries
<1>20. ASSUME UNCHANGED <<src, try, leg, dest>> PROVE FileTypes'
  BY <1>0, <1>20 DEF FileTypes, Legs, Senders, Receivers, Tries
<1>21. ASSUME
          \/ Apart
      PROVE  UNCHANGED <<src, try, leg, dest>>
  BY <1>21 DEF Apart, fileVars
<1>22. ASSUME NEW w \in Transfers,
          \/ StartTransfer(w)
      PROVE  UNCHANGED <<src, try, leg, dest>>
  BY <1>22 DEF StartTransfer, Start, fileVars
<1>23. ASSUME UNCHANGED transferVars
      PROVE  UNCHANGED <<src, try, leg, dest>>
  BY <1>23 DEF fileVars, vars, transferVars
<1> QED BY <1>0, <1>1, <1>2, <1>3, <1>4, <1>5, <1>6, <1>7, <1>8, <1>9, <1>10, <1>11,
       <1>12,
           <1>13, <1>14, <1>15, <1>16, <1>17, <1>18, <1>19, <1>20, <1>21, <1>22, <1>23
       DEF TransferNext, NearMoves, DaemonWorks, Tries, Apart, FileTypes

\* A try whose sides may be at work.
Begun(t) ==
  /\ work \in Transfers /\ t <= try
  /\ t = try => step["near"] \notin {"none", "new", "check"}

\* A side that is at work belongs to a try that has begun.
LEMMA LegBegun ==
  ASSUME FileTypes, Fresh, NEW t \in Tries,
         \/ leg[t].snd # "none" \/ leg[t].rcv # "none" \/ leg[t].link # <<>>
  PROVE  Begun(t)
<1>1. leg[t] # NoLeg
  BY DEF NoLeg
<1> QED BY <1>1, TransfersAssumption DEF FileTypes, Fresh, Begun, Tries

\* A try whose transport is up has begun.
LEMMA UpBegun ==
  ASSUME Stages, FileTypes, work \in {"upload", "download"}, Connected
  PROVE  Begun(try)
BY TransfersAssumption DEF Stages, Jobs, Unspawned, Connected, Begun, FileTypes, Tries,
   Transfers

\* A try whose near job is in its body has begun.
LEMMA BodyBegun ==
  ASSUME InBody, FileTypes
  PROVE  Begun(try)
BY TransfersAssumption DEF InBody, At, Lives, Begun, FileTypes, Tries, Transfers

\* What is not yet begun stays so when a side of a try that is moves.
LEMMA FreshLeg ==
  ASSUME JobTypes, FileTypes, Fresh, NEW t \in Tries, Begun(t), Moved(t),
         UNCHANGED <<try, work, tree>>,
         step' = step \/ step' = [step EXCEPT !["near"] = "reap"],
         leg[t].snd # "none" => leg'[t].snd # "none",
         leg[t].rcv # "none" => leg'[t].rcv # "none",
         t = try /\ work # "copy" /\ tree["near"] = "none"
           => leg'[t].link = <<>> /\ leg'[t].sent = 0 /\ leg'[t].staged = <<>>
  PROVE  Fresh'
<1>1. \/ step'["near"] = step["near"] \/ step'["near"] = "reap"
  BY DEF JobTypes, Jobs
<1>2. \A u \in Tries : u > try => leg'[u] = NoLeg
  <2> SUFFICES ASSUME NEW u \in Tries, u > try PROVE leg'[u] = NoLeg
    OBVIOUS
  <2>1. u # t
    BY TransfersAssumption DEF Begun, FileTypes, Tries
  <2>2. leg[u] = NoLeg
    BY DEF Fresh
  <2> QED BY <2>1, <2>2 DEF Moved
<1>3. step'["near"] \in {"none", "new", "check"} => leg'[try] = NoLeg
  BY <1>1 DEF Begun, Moved, Fresh, FileTypes
<1>4. work = "upload" /\ (step'["near"] \in Underway \/ tree["near"] # "none")
        => leg'[try].snd # "none"
  BY <1>1 DEF Moved, Fresh, FileTypes, Underway
<1>5. work \in {"upload", "download"} /\ tree["near"] = "none" =>
        leg'[try].link = <<>> /\ leg'[try].sent = 0 /\ leg'[try].staged = <<>>
  BY DEF Moved, Fresh, FileTypes
<1>6. work = "download" /\ (step'["near"] \in Underway \/ tree["near"] # "none")
        => leg'[try].rcv # "none"
  BY <1>1 DEF Moved, Fresh, FileTypes, Underway
<1> QED BY <1>1, <1>2, <1>3, <1>4, <1>5, <1>6 DEF Fresh, Begun, Underway

\* Every step keeps what is not yet begun.
LEMMA FreshKept == Inv /\ [TransferNext]_transferVars => Fresh'
<1> SUFFICES ASSUME Inv, [TransferNext]_transferVars PROVE Fresh'
  OBVIOUS
<1>0. JobInv /\ JobTypes /\ Stages /\ FileTypes /\ Fresh
  BY DEF Inv, FileInv, JobInv
<1>1. ASSUME Apart PROVE Fresh'
  BY <1>0, <1>1, NearSeen DEF Apart, NearView, fileVars, Fresh, FileTypes, Tries,
     Transfers, Underway, NoLeg, JobTypes, Programs, Stages, Unspawned, Finished, Jobs
<1>2. ASSUME NEW w \in Transfers, StartTransfer(w) PROVE Fresh'
  BY <1>0, <1>2, TransfersAssumption, WordTypes DEF StartTransfer, Start, fileVars,
     Fresh, FileTypes, Tries, Transfers, Underway, NoLeg, JobTypes, Jobs, Stages,
     Unspawned, Finished
<1>3. ASSUME Retry PROVE Fresh'
  <2>1. /\ work \in Transfers /\ try' = try + 1 /\ step'["near"] = "new"
        /\ tree'["near"] = "none"
        /\ try \in Nat /\ try' \in Tries
        /\ UNCHANGED <<work, dest, leg>>
    BY <1>0, <1>3, TransfersAssumption DEF Retry, JobTypes, Jobs, FileTypes, Tries
  <2>2. \A u \in Tries : u > try => leg[u] = NoLeg
    BY <1>0 DEF Fresh
  <2>3. leg'[try'] = NoLeg /\ (\A u \in Tries : u > try' => leg'[u] = NoLeg)
    BY <2>1, <2>2 DEF Tries
  <2>4. NoLeg.link = <<>> /\ NoLeg.sent = 0 /\ NoLeg.staged = <<>>
    BY DEF NoLeg
  <2> QED BY <2>1, <2>3, <2>4 DEF Fresh, Transfers, Underway
<1>4. ASSUME CheckTransfer PROVE Fresh'
  <2>1. /\ work \in Transfers /\ step["near"] = "check" /\ leg[try] = NoLeg
        /\ tree["near"] = "none"
        /\ UNCHANGED <<try, work, tree, dest>>
    BY <1>0, <1>4 DEF CheckTransfer, At, Fresh, Stages, Jobs, Unspawned
  <2>2. /\ \A u \in Tries : u # try => leg'[u] = leg[u]
        /\ leg'[try].link = <<>> /\ leg'[try].sent = 0 /\ leg'[try].staged = <<>>
        /\ \/ step'["near"] = "reap"
           \/ step'["near"] = "loop" /\ work = "copy"
           \/ step'["near"] = "spawn" /\ work # "copy"
              /\ (work = "upload" => leg'[try].snd # "none")
              /\ (work = "download" => leg'[try].rcv # "none")
    <3>1. leg[try].link = <<>> /\ leg[try].sent = 0 /\ leg[try].staged = <<>>
      BY <2>1 DEF NoLeg
    <3>2. /\ \A u \in Tries : u # try => leg'[u] = leg[u]
          /\ leg'[try].link = <<>> /\ leg'[try].sent = 0 /\ leg'[try].staged = <<>>
      BY <1>0, <1>4, <3>1, CheckLeg DEF Moved
    <3>3. \A s : [step EXCEPT !["near"] = s]["near"] = s
      BY <1>0 DEF JobTypes, Jobs
    <3>4. \/ step'["near"] = "reap"
          \/ step'["near"] = "loop" /\ work = "copy"
          \/ step'["near"] = "spawn" /\ work # "copy"
              /\ (work = "upload" => leg'[try].snd # "none")
              /\ (work = "download" => leg'[try].rcv # "none")
      BY <1>0, <1>4, <3>3, CheckLeg
    <3> QED BY <3>2, <3>4
  <2> QED BY <1>0, <2>1, <2>2, TransfersAssumption DEF Fresh, FileTypes, Tries,
         Transfers, Underway
<1>5. ASSUME NearFails PROVE Fresh'
  <2>1. Begun(try) /\ try \in Tries
    BY <1>0, <1>5, BodyBegun DEF NearFails, FileTypes
  <2>2. UNCHANGED <<try, work, tree>>
    BY <1>5 DEF NearFails, Elsewhere
  <2>3. step' = step \/ step' = [step EXCEPT !["near"] = "reap"]
    BY <1>5 DEF NearFails, NearEnds, Goes
  <2>4. /\ Moved(try) /\ (leg[try].snd # "none" => leg'[try].snd # "none")
        /\ leg[try].rcv # "none" => leg'[try].rcv # "none"
        /\ try = try /\ work # "copy" /\ tree["near"] = "none"
             => leg'[try].link = <<>> /\ leg'[try].sent = 0 /\ leg'[try].staged = <<>>
    <3>1. try = try /\ work # "copy" /\ tree["near"] = "none"
            => leg[try].link = <<>> /\ leg[try].sent = 0 /\ leg[try].staged = <<>>
      BY <1>0, <2>1 DEF Begun, Fresh, Transfers
    <3>2. /\ Moved(try) /\ (leg[try].snd # "none" => leg'[try].snd # "none")
          /\ leg[try].rcv # "none" => leg'[try].rcv # "none"
      BY <1>0, <1>5, NearFailsLeg
    <3>3. /\ leg'[try].link \in {leg[try].link, <<>>} \/ tree["near"] = "alive"
          /\ leg'[try].sent \in {leg[try].sent, 0}
          /\ leg'[try].staged \in {leg[try].staged, <<>>}
      BY <1>0, <1>5, NearFailsLeg
    <3> QED BY <3>1, <3>2, <3>3
  <2> QED BY <1>0, <2>1, <2>2, <2>3, <2>4, FreshLeg
<1>6. ASSUME SourceOpens PROVE Fresh'
  <2>1. Begun(try) /\ try \in Tries
    BY <1>0, <1>6, UpBegun DEF SourceOpens, Up, FileTypes
  <2>2. UNCHANGED <<try, work, tree>>
    BY <1>6 DEF SourceOpens, Elsewhere
  <2>3. step' = step \/ step' = [step EXCEPT !["near"] = "reap"]
    BY <1>6 DEF SourceOpens
  <2>4. /\ Moved(try) /\ (leg[try].snd # "none" => leg'[try].snd # "none")
        /\ leg[try].rcv # "none" => leg'[try].rcv # "none"
        /\ try = try /\ work # "copy" /\ tree["near"] = "none"
             => leg'[try].link = <<>> /\ leg'[try].sent = 0 /\ leg'[try].staged = <<>>
    <3>1. try = try /\ work # "copy" /\ tree["near"] = "none"
            => leg[try].link = <<>> /\ leg[try].sent = 0 /\ leg[try].staged = <<>>
      BY <1>0, <2>1 DEF Begun, Fresh, Transfers
    <3>2. /\ Moved(try) /\ (leg[try].snd # "none" => leg'[try].snd # "none")
          /\ leg[try].rcv # "none" => leg'[try].rcv # "none"
      BY <1>0, <1>6, SourceOpensLeg
    <3>3. work = "copy" \/ tree["near"] # "none" \/ leg[try].link # <<>>
      BY <1>6 DEF SourceOpens, Up, Connected
    <3> QED BY <3>1, <3>2, <3>3
  <2> QED BY <1>0, <2>1, <2>2, <2>3, <2>4, FreshLeg
<1>7. ASSUME NEW t \in Tries, SendBlock(t) PROVE Fresh'
  <2>1. Begun(t) /\ t \in Tries
    BY <1>0, <1>7, LegBegun DEF SendBlock, CanSend, FileTypes
  <2>2. UNCHANGED <<try, work, tree>>
    BY <1>7 DEF SendBlock, Elsewhere
  <2>3. step' = step \/ step' = [step EXCEPT !["near"] = "reap"]
    BY <1>7 DEF SendBlock
  <2>4. /\ Moved(t) /\ (leg[t].snd # "none" => leg'[t].snd # "none")
        /\ leg[t].rcv # "none" => leg'[t].rcv # "none"
        /\ t = try /\ work # "copy" /\ tree["near"] = "none"
             => leg'[t].link = <<>> /\ leg'[t].sent = 0 /\ leg'[t].staged = <<>>
    <3>1. t = try /\ work # "copy" /\ tree["near"] = "none"
            => leg[t].link = <<>> /\ leg[t].sent = 0 /\ leg[t].staged = <<>>
      BY <1>0, <2>1 DEF Begun, Fresh, Transfers
    <3>2. /\ Moved(t) /\ (leg[t].snd # "none" => leg'[t].snd # "none")
          /\ leg[t].rcv # "none" => leg'[t].rcv # "none"
      BY <1>0, <1>7, SendBlockLeg
    <3>3. work = "copy" \/ tree["near"] # "none" \/ leg[t].link # <<>>
      BY <1>7 DEF SendBlock, CanSend, Up, Connected
    <3> QED BY <3>1, <3>2, <3>3
  <2> QED BY <1>0, <2>1, <2>2, <2>3, <2>4, FreshLeg
<1>8. ASSUME NEW t \in Tries, SendReceipt(t) PROVE Fresh'
  <2>1. Begun(t) /\ t \in Tries
    BY <1>0, <1>8, LegBegun DEF SendReceipt, CanSend, FileTypes
  <2>2. UNCHANGED <<try, work, tree>>
    BY <1>8 DEF SendReceipt, Elsewhere
  <2>3. step' = step \/ step' = [step EXCEPT !["near"] = "reap"]
    BY <1>8 DEF SendReceipt
  <2>4. /\ Moved(t) /\ (leg[t].snd # "none" => leg'[t].snd # "none")
        /\ leg[t].rcv # "none" => leg'[t].rcv # "none"
        /\ t = try /\ work # "copy" /\ tree["near"] = "none"
             => leg'[t].link = <<>> /\ leg'[t].sent = 0 /\ leg'[t].staged = <<>>
    <3>1. t = try /\ work # "copy" /\ tree["near"] = "none"
            => leg[t].link = <<>> /\ leg[t].sent = 0 /\ leg[t].staged = <<>>
      BY <1>0, <2>1 DEF Begun, Fresh, Transfers
    <3>2. /\ Moved(t) /\ (leg[t].snd # "none" => leg'[t].snd # "none")
          /\ leg[t].rcv # "none" => leg'[t].rcv # "none"
      BY <1>0, <1>8, SendReceiptLeg
    <3>3. work = "copy" \/ tree["near"] # "none" \/ leg[t].link # <<>>
      BY <1>8 DEF SendReceipt, CanSend, Up, Connected
    <3> QED BY <3>1, <3>2, <3>3
  <2> QED BY <1>0, <2>1, <2>2, <2>3, <2>4, FreshLeg
<1>9. ASSUME TakeReply PROVE Fresh'
  <2>1. Begun(try) /\ try \in Tries
    BY <1>0, <1>9, BodyBegun DEF TakeReply, FileTypes
  <2>2. UNCHANGED <<try, work, tree>>
    BY <1>9 DEF TakeReply, Elsewhere
  <2>3. step' = step \/ step' = [step EXCEPT !["near"] = "reap"]
    BY <1>9 DEF TakeReply, NearEnds, Goes
  <2>4. /\ Moved(try) /\ (leg[try].snd # "none" => leg'[try].snd # "none")
        /\ leg[try].rcv # "none" => leg'[try].rcv # "none"
        /\ try = try /\ work # "copy" /\ tree["near"] = "none"
             => leg'[try].link = <<>> /\ leg'[try].sent = 0 /\ leg'[try].staged = <<>>
    <3>1. try = try /\ work # "copy" /\ tree["near"] = "none"
            => leg[try].link = <<>> /\ leg[try].sent = 0 /\ leg[try].staged = <<>>
      BY <1>0, <2>1 DEF Begun, Fresh, Transfers
    <3>2. /\ Moved(try) /\ (leg[try].snd # "none" => leg'[try].snd # "none")
          /\ leg[try].rcv # "none" => leg'[try].rcv # "none"
      BY <1>0, <1>9, TakeReplyLeg
    <3>3. /\ leg'[try].link \in {leg[try].link, <<>>} \/ tree["near"] = "alive"
          /\ leg'[try].sent \in {leg[try].sent, 0}
          /\ leg'[try].staged \in {leg[try].staged, <<>>}
      BY <1>0, <1>9, TakeReplyLeg
    <3> QED BY <3>1, <3>2, <3>3
  <2> QED BY <1>0, <2>1, <2>2, <2>3, <2>4, FreshLeg
<1>10. ASSUME UploadStarts PROVE Fresh'
  <2>1. Begun(try) /\ try \in Tries
    BY <1>0, <1>10, UpBegun DEF UploadStarts, Up, FileTypes
  <2>2. UNCHANGED <<try, work, tree>>
    BY <1>10 DEF UploadStarts, Elsewhere
  <2>3. step' = step \/ step' = [step EXCEPT !["near"] = "reap"]
    BY <1>10 DEF UploadStarts
  <2>4. /\ Moved(try) /\ (leg[try].snd # "none" => leg'[try].snd # "none")
        /\ leg[try].rcv # "none" => leg'[try].rcv # "none"
        /\ try = try /\ work # "copy" /\ tree["near"] = "none"
             => leg'[try].link = <<>> /\ leg'[try].sent = 0 /\ leg'[try].staged = <<>>
    <3>1. try = try /\ work # "copy" /\ tree["near"] = "none"
            => leg[try].link = <<>> /\ leg[try].sent = 0 /\ leg[try].staged = <<>>
      BY <1>0, <2>1 DEF Begun, Fresh, Transfers
    <3>2. /\ Moved(try) /\ (leg[try].snd # "none" => leg'[try].snd # "none")
          /\ leg[try].rcv # "none" => leg'[try].rcv # "none"
      BY <1>0, <1>10, UploadStartsLeg
    <3>3. /\ leg'[try].link \in {leg[try].link, <<>>} \/ tree["near"] = "alive"
          /\ leg'[try].sent \in {leg[try].sent, 0}
          /\ leg'[try].staged \in {leg[try].staged, <<>>}
      BY <1>0, <1>10, UploadStartsLeg
    <3> QED BY <3>1, <3>2, <3>3
  <2> QED BY <1>0, <2>1, <2>2, <2>3, <2>4, FreshLeg
<1>11. ASSUME TakeHeader PROVE Fresh'
  <2>1. Begun(try) /\ try \in Tries
    BY <1>0, <1>11, BodyBegun DEF TakeHeader, FileTypes
  <2>2. UNCHANGED <<try, work, tree>>
    BY <1>11 DEF TakeHeader, Elsewhere
  <2>3. step' = step \/ step' = [step EXCEPT !["near"] = "reap"]
    BY <1>11 DEF TakeHeader
  <2>4. /\ Moved(try) /\ (leg[try].snd # "none" => leg'[try].snd # "none")
        /\ leg[try].rcv # "none" => leg'[try].rcv # "none"
        /\ try = try /\ work # "copy" /\ tree["near"] = "none"
             => leg'[try].link = <<>> /\ leg'[try].sent = 0 /\ leg'[try].staged = <<>>
    <3>1. try = try /\ work # "copy" /\ tree["near"] = "none"
            => leg[try].link = <<>> /\ leg[try].sent = 0 /\ leg[try].staged = <<>>
      BY <1>0, <2>1 DEF Begun, Fresh, Transfers
    <3>2. /\ Moved(try) /\ (leg[try].snd # "none" => leg'[try].snd # "none")
          /\ leg[try].rcv # "none" => leg'[try].rcv # "none"
      BY <1>0, <1>11, TakeHeaderLeg
    <3>3. /\ leg'[try].link \in {leg[try].link, <<>>} \/ tree["near"] = "alive"
          /\ leg'[try].sent \in {leg[try].sent, 0}
          /\ leg'[try].staged \in {leg[try].staged, <<>>}
      BY <1>0, <1>11, TakeHeaderLeg
    <3> QED BY <3>1, <3>2, <3>3
  <2> QED BY <1>0, <2>1, <2>2, <2>3, <2>4, FreshLeg
<1>12. ASSUME NEW t \in Tries, Stage(t) PROVE Fresh'
  <2>1. Begun(t) /\ t \in Tries
    BY <1>0, <1>12, LegBegun DEF Stage, FileTypes
  <2>2. UNCHANGED <<try, work, tree>>
    BY <1>12 DEF Stage, Elsewhere
  <2>3. step' = step \/ step' = [step EXCEPT !["near"] = "reap"]
    BY <1>12 DEF Stage
  <2>4. /\ Moved(t) /\ (leg[t].snd # "none" => leg'[t].snd # "none")
        /\ leg[t].rcv # "none" => leg'[t].rcv # "none"
        /\ t = try /\ work # "copy" /\ tree["near"] = "none"
             => leg'[t].link = <<>> /\ leg'[t].sent = 0 /\ leg'[t].staged = <<>>
    <3>1. t = try /\ work # "copy" /\ tree["near"] = "none"
            => leg[t].link = <<>> /\ leg[t].sent = 0 /\ leg[t].staged = <<>>
      BY <1>0, <2>1 DEF Begun, Fresh, Transfers
    <3>2. /\ Moved(t) /\ (leg[t].snd # "none" => leg'[t].snd # "none")
          /\ leg[t].rcv # "none" => leg'[t].rcv # "none"
      BY <1>0, <1>12, StageLeg
    <3>3. /\ leg'[t].link \in {leg[t].link, <<>>} \/ tree["near"] = "alive"
          /\ leg'[t].sent \in {leg[t].sent, 0} /\ leg'[t].staged \in {leg[t].staged, <<>>}
      BY <1>0, <1>12, StageLeg
    <3> QED BY <3>1, <3>2, <3>3
  <2> QED BY <1>0, <2>1, <2>2, <2>3, <2>4, FreshLeg
<1>13. ASSUME NEW t \in Tries, TakeBlock(t) PROVE Fresh'
  <2>1. Begun(t) /\ t \in Tries
    BY <1>0, <1>13, LegBegun DEF TakeBlock, FileTypes
  <2>2. UNCHANGED <<try, work, tree>>
    BY <1>13 DEF TakeBlock, Elsewhere
  <2>3. step' = step \/ step' = [step EXCEPT !["near"] = "reap"]
    BY <1>13 DEF TakeBlock
  <2>4. /\ Moved(t) /\ (leg[t].snd # "none" => leg'[t].snd # "none")
        /\ leg[t].rcv # "none" => leg'[t].rcv # "none"
        /\ t = try /\ work # "copy" /\ tree["near"] = "none"
             => leg'[t].link = <<>> /\ leg'[t].sent = 0 /\ leg'[t].staged = <<>>
    <3>1. t = try /\ work # "copy" /\ tree["near"] = "none"
            => leg[t].link = <<>> /\ leg[t].sent = 0 /\ leg[t].staged = <<>>
      BY <1>0, <2>1 DEF Begun, Fresh, Transfers
    <3>2. /\ Moved(t) /\ (leg[t].snd # "none" => leg'[t].snd # "none")
          /\ leg[t].rcv # "none" => leg'[t].rcv # "none"
      BY <1>0, <1>13, TakeBlockLeg
    <3>3. work = "copy" \/ tree["near"] # "none" \/ leg[t].link # <<>>
      BY <1>13 DEF TakeBlock
    <3> QED BY <3>1, <3>2, <3>3
  <2> QED BY <1>0, <2>1, <2>2, <2>3, <2>4, FreshLeg
<1>14. ASSUME NEW t \in Tries, TakeReceipt(t) PROVE Fresh'
  <2>1. Begun(t) /\ t \in Tries
    BY <1>0, <1>14, LegBegun DEF TakeReceipt, FileTypes
  <2>2. UNCHANGED <<try, work, tree>>
    BY <1>14 DEF TakeReceipt, Elsewhere
  <2>3. step' = step \/ step' = [step EXCEPT !["near"] = "reap"]
    BY <1>14 DEF TakeReceipt
  <2>4. /\ Moved(t) /\ (leg[t].snd # "none" => leg'[t].snd # "none")
        /\ leg[t].rcv # "none" => leg'[t].rcv # "none"
        /\ t = try /\ work # "copy" /\ tree["near"] = "none"
             => leg'[t].link = <<>> /\ leg'[t].sent = 0 /\ leg'[t].staged = <<>>
    <3>1. t = try /\ work # "copy" /\ tree["near"] = "none"
            => leg[t].link = <<>> /\ leg[t].sent = 0 /\ leg[t].staged = <<>>
      BY <1>0, <2>1 DEF Begun, Fresh, Transfers
    <3>2. /\ Moved(t) /\ (leg[t].snd # "none" => leg'[t].snd # "none")
          /\ leg[t].rcv # "none" => leg'[t].rcv # "none"
      BY <1>0, <1>14, TakeReceiptLeg
    <3>3. /\ leg'[t].link \in {leg[t].link, <<>>} \/ tree["near"] = "alive"
          /\ leg'[t].sent \in {leg[t].sent, 0} /\ leg'[t].staged \in {leg[t].staged, <<>>}
      BY <1>0, <1>14, TakeReceiptLeg
    <3> QED BY <3>1, <3>2, <3>3
  <2> QED BY <1>0, <2>1, <2>2, <2>3, <2>4, FreshLeg
<1>15. ASSUME NEW t \in Tries, Publish(t) PROVE Fresh'
  <2>1. Begun(t) /\ t \in Tries
    BY <1>0, <1>15, LegBegun DEF Publish, NearEnds, Goes, FileTypes
  <2>2. UNCHANGED <<try, work, tree>>
    BY <1>15 DEF Publish, Elsewhere
  <2>3. step' = step \/ step' = [step EXCEPT !["near"] = "reap"]
    BY <1>15 DEF Publish, NearEnds, Goes
  <2>4. /\ Moved(t) /\ (leg[t].snd # "none" => leg'[t].snd # "none")
        /\ leg[t].rcv # "none" => leg'[t].rcv # "none"
        /\ t = try /\ work # "copy" /\ tree["near"] = "none"
             => leg'[t].link = <<>> /\ leg'[t].sent = 0 /\ leg'[t].staged = <<>>
    <3>1. t = try /\ work # "copy" /\ tree["near"] = "none"
            => leg[t].link = <<>> /\ leg[t].sent = 0 /\ leg[t].staged = <<>>
      BY <1>0, <2>1 DEF Begun, Fresh, Transfers
    <3>2. /\ Moved(t) /\ (leg[t].snd # "none" => leg'[t].snd # "none")
          /\ leg[t].rcv # "none" => leg'[t].rcv # "none"
      <4>1. leg'[t].rcv # "none"
        BY <1>0, <1>15, PublishLeg
      <4> QED BY <1>0, <1>15, <4>1, PublishLeg
    <3>3. /\ leg'[t].link \in {leg[t].link, <<>>} \/ tree["near"] = "alive"
          /\ leg'[t].sent \in {leg[t].sent, 0} /\ leg'[t].staged \in {leg[t].staged, <<>>}
      BY <1>0, <1>15, PublishLeg
    <3> QED BY <3>1, <3>2, <3>3
  <2> QED BY <1>0, <2>1, <2>2, <2>3, <2>4, FreshLeg
<1>16. ASSUME NEW t \in Tries, SendReply(t) PROVE Fresh'
  <2>1. Begun(t) /\ t \in Tries
    BY <1>0, <1>16, LegBegun DEF SendReply, FileTypes
  <2>2. UNCHANGED <<try, work, tree>>
    BY <1>16 DEF SendReply, Elsewhere
  <2>3. step' = step \/ step' = [step EXCEPT !["near"] = "reap"]
    BY <1>16 DEF SendReply
  <2>4. /\ Moved(t) /\ (leg[t].snd # "none" => leg'[t].snd # "none")
        /\ leg[t].rcv # "none" => leg'[t].rcv # "none"
        /\ t = try /\ work # "copy" /\ tree["near"] = "none"
             => leg'[t].link = <<>> /\ leg'[t].sent = 0 /\ leg'[t].staged = <<>>
    <3>1. t = try /\ work # "copy" /\ tree["near"] = "none"
            => leg[t].link = <<>> /\ leg[t].sent = 0 /\ leg[t].staged = <<>>
      BY <1>0, <2>1 DEF Begun, Fresh, Transfers
    <3>2. /\ Moved(t) /\ (leg[t].snd # "none" => leg'[t].snd # "none")
          /\ leg[t].rcv # "none" => leg'[t].rcv # "none"
      BY <1>0, <1>16, SendReplyLeg
    <3>3. /\ leg'[t].link \in {leg[t].link, <<>>} \/ tree["near"] = "alive"
          /\ leg'[t].sent \in {leg[t].sent, 0} /\ leg'[t].staged \in {leg[t].staged, <<>>}
      BY <1>0, <1>16, SendReplyLeg DEF Up, Connected
    <3> QED BY <3>1, <3>2, <3>3
  <2> QED BY <1>0, <2>1, <2>2, <2>3, <2>4, FreshLeg
<1>17. ASSUME NEW t \in Tries, DaemonFails(t) PROVE Fresh'
  <2>1. Begun(t) /\ t \in Tries
    BY <1>0, <1>17, LegBegun DEF DaemonFails, FileTypes
  <2>2. UNCHANGED <<try, work, tree>>
    BY <1>17 DEF DaemonFails, Elsewhere
  <2>3. step' = step \/ step' = [step EXCEPT !["near"] = "reap"]
    BY <1>17 DEF DaemonFails
  <2>4. /\ Moved(t) /\ (leg[t].snd # "none" => leg'[t].snd # "none")
        /\ leg[t].rcv # "none" => leg'[t].rcv # "none"
        /\ t = try /\ work # "copy" /\ tree["near"] = "none"
             => leg'[t].link = <<>> /\ leg'[t].sent = 0 /\ leg'[t].staged = <<>>
    <3>1. t = try /\ work # "copy" /\ tree["near"] = "none"
            => leg[t].link = <<>> /\ leg[t].sent = 0 /\ leg[t].staged = <<>>
      BY <1>0, <2>1 DEF Begun, Fresh, Transfers
    <3>2. /\ Moved(t) /\ (leg[t].snd # "none" => leg'[t].snd # "none")
          /\ leg[t].rcv # "none" => leg'[t].rcv # "none"
      BY <1>0, <1>17, DaemonFailsLeg
    <3>3. /\ leg'[t].link \in {leg[t].link, <<>>} \/ tree["near"] = "alive"
          /\ leg'[t].sent \in {leg[t].sent, 0} /\ leg'[t].staged \in {leg[t].staged, <<>>}
      BY <1>0, <1>17, DaemonFailsLeg
    <3> QED BY <3>1, <3>2, <3>3
  <2> QED BY <1>0, <2>1, <2>2, <2>3, <2>4, FreshLeg
<1>18. ASSUME NEW t \in Tries, DaemonKilled(t) PROVE Fresh'
  <2>1. Begun(t) /\ t \in Tries
    BY <1>0, <1>18, LegBegun DEF DaemonKilled, FileTypes
  <2>2. UNCHANGED <<try, work, tree>>
    BY <1>18 DEF DaemonKilled, Elsewhere
  <2>3. step' = step \/ step' = [step EXCEPT !["near"] = "reap"]
    BY <1>18 DEF DaemonKilled
  <2>4. /\ Moved(t) /\ (leg[t].snd # "none" => leg'[t].snd # "none")
        /\ leg[t].rcv # "none" => leg'[t].rcv # "none"
        /\ t = try /\ work # "copy" /\ tree["near"] = "none"
             => leg'[t].link = <<>> /\ leg'[t].sent = 0 /\ leg'[t].staged = <<>>
    <3>1. t = try /\ work # "copy" /\ tree["near"] = "none"
            => leg[t].link = <<>> /\ leg[t].sent = 0 /\ leg[t].staged = <<>>
      BY <1>0, <2>1 DEF Begun, Fresh, Transfers
    <3>2. /\ Moved(t) /\ (leg[t].snd # "none" => leg'[t].snd # "none")
          /\ leg[t].rcv # "none" => leg'[t].rcv # "none"
      <4>1. leg'[t].rcv # "none"
        BY <1>0, <1>18, DaemonKilledLeg
      <4> QED BY <1>0, <1>18, <4>1, DaemonKilledLeg
    <3>3. /\ leg'[t].link \in {leg[t].link, <<>>} \/ tree["near"] = "alive"
          /\ leg'[t].sent \in {leg[t].sent, 0} /\ leg'[t].staged \in {leg[t].staged, <<>>}
      BY <1>0, <1>18, DaemonKilledLeg
    <3> QED BY <3>1, <3>2, <3>3
  <2> QED BY <1>0, <2>1, <2>2, <2>3, <2>4, FreshLeg
<1>19. ASSUME NEW t \in Tries, LoseLink(t) PROVE Fresh'
  <2>1. Begun(t) /\ t \in Tries
    BY <1>0, <1>19, LegBegun DEF LoseLink, FileTypes
  <2>2. UNCHANGED <<try, work, tree>>
    BY <1>19 DEF LoseLink, Elsewhere
  <2>3. step' = step \/ step' = [step EXCEPT !["near"] = "reap"]
    BY <1>19 DEF LoseLink
  <2>4. /\ Moved(t) /\ (leg[t].snd # "none" => leg'[t].snd # "none")
        /\ leg[t].rcv # "none" => leg'[t].rcv # "none"
        /\ t = try /\ work # "copy" /\ tree["near"] = "none"
             => leg'[t].link = <<>> /\ leg'[t].sent = 0 /\ leg'[t].staged = <<>>
    <3>1. t = try /\ work # "copy" /\ tree["near"] = "none"
            => leg[t].link = <<>> /\ leg[t].sent = 0 /\ leg[t].staged = <<>>
      BY <1>0, <2>1 DEF Begun, Fresh, Transfers
    <3>2. /\ Moved(t) /\ (leg[t].snd # "none" => leg'[t].snd # "none")
          /\ leg[t].rcv # "none" => leg'[t].rcv # "none"
      BY <1>0, <1>19, LoseLinkLeg
    <3>3. /\ leg'[t].link \in {leg[t].link, <<>>} \/ tree["near"] = "alive"
          /\ leg'[t].sent \in {leg[t].sent, 0} /\ leg'[t].staged \in {leg[t].staged, <<>>}
      BY <1>0, <1>19, LoseLinkLeg
    <3> QED BY <3>1, <3>2, <3>3
  <2> QED BY <1>0, <2>1, <2>2, <2>3, <2>4, FreshLeg
<1>20. ASSUME OtherCreates PROVE Fresh'
  BY <1>0, <1>20, TransfersAssumption, WordTypes DEF OtherCreates, Elsewhere, Fresh,
     FileTypes, Tries, Transfers, Underway, NoLeg, JobTypes, Jobs, Stages, Unspawned,
     Finished
<1>21. ASSUME UNCHANGED <<work, step, tree, try, leg, dest>> PROVE Fresh'
  BY <1>0, <1>21 DEF Fresh, FileTypes, Tries, Transfers, Underway, NoLeg, JobTypes,
     Jobs, Stages, Unspawned, Finished
<1>22. ASSUME
          \/ Edit
      PROVE  UNCHANGED <<work, step, tree, try, leg, dest>>
  BY <1>22 DEF Edit, Elsewhere
<1>23. ASSUME UNCHANGED transferVars
      PROVE  UNCHANGED <<work, step, tree, try, leg, dest>>
  BY <1>23 DEF fileVars, vars, transferVars
<1> QED BY <1>0, <1>1, <1>2, <1>3, <1>4, <1>5, <1>6, <1>7, <1>8, <1>9, <1>10, <1>11,
       <1>12,
           <1>13, <1>14, <1>15, <1>16, <1>17, <1>18, <1>19, <1>20, <1>21, <1>22, <1>23
       DEF TransferNext, NearMoves, DaemonWorks, Tries, Apart, FileTypes

\* It is enough to look at the leg that moved for the turns.
LEMMA TurnsLeg ==
  ASSUME FileTypes, Turns, NEW t \in Tries, Moved(t), UNCHANGED work,
         Turn(leg[t])'
  PROVE  Turns'
BY DEF Turns, Turn, Moved

\* Every step keeps the turns.
LEMMA TurnsKept == Inv /\ [TransferNext]_transferVars => Turns'
<1> SUFFICES ASSUME Inv, [TransferNext]_transferVars PROVE Turns'
  OBVIOUS
<1>0. JobInv /\ JobTypes /\ Stages /\ FileTypes /\ Fresh /\ Turns /\ Staged
  BY DEF Inv, FileInv, JobInv
<1>1. ASSUME Apart PROVE Turns'
  <2>1. \/ UNCHANGED work \/ (\A t \in Tries : leg[t] = NoLeg)
    BY <1>0, <1>1, NearSeen DEF Apart, NearView, Fresh
  <2>2. /\ NoLeg.snd = "none" /\ NoLeg.rcv = "none" /\ NoLeg.link = <<>>
        /\ NoLeg.sent = 0 /\ NoLeg.staged = <<>> /\ ~NoLeg.tmp
    BY DEF NoLeg
  <2>3. leg' = leg
    BY <1>1 DEF Apart, fileVars
  <2> QED BY <1>0, <2>1, <2>2, <2>3, Words DEF Turns, Turn
<1>2. ASSUME NEW w \in Transfers, StartTransfer(w) PROVE Turns'
  <2>1. \A t \in Tries : leg[t] = NoLeg
    BY <1>0, <1>2 DEF StartTransfer, Start, Fresh, Stages, Jobs
  <2>2. /\ NoLeg.snd = "none" /\ NoLeg.rcv = "none" /\ NoLeg.link = <<>>
        /\ NoLeg.sent = 0 /\ NoLeg.staged = <<>> /\ ~NoLeg.tmp
    BY DEF NoLeg
  <2>3. leg' = leg
    BY <1>2 DEF StartTransfer, fileVars
  <2> QED BY <1>0, <2>1, <2>2, <2>3, Words DEF Turns, Turn
<1>3. ASSUME CheckTransfer PROVE Turns'
  <2>1. /\ leg[try].link = <<>> /\ leg[try].sent = 0 /\ leg[try].staged = <<>>
        /\ ~leg[try].tmp
        /\ leg[try].snd = "none" /\ leg[try].rcv = "none" /\ try \in Tries
    <3>1. leg[try] = NoLeg /\ try \in Tries
      BY <1>0, <1>3 DEF CheckTransfer, At, Fresh, FileTypes
    <3> QED BY <3>1 DEF NoLeg
  <2>0. PICK t \in Tries : t = try
    BY <1>0 DEF FileTypes
  <2>2. Moved(t) \/ UNCHANGED leg
    BY <1>0, <1>3, <2>0, CheckLeg
  <2>3. UNCHANGED work
    BY <1>3 DEF CheckTransfer
  <2>4. Turn(leg[t])'
    BY <1>0, <1>3, <2>0, <2>1, <2>3, CheckLeg, WordsDiffer DEF Turn
  <2>5. CASE UNCHANGED leg
    BY <1>0, <2>3, <2>5 DEF Turns, Turn
  <2> QED BY <1>0, <2>2, <2>3, <2>4, <2>5, TurnsLeg
<1>4. ASSUME NearFails PROVE Turns'
  <2>0. PICK t \in Tries : t = try
    BY <1>0 DEF FileTypes
  <2>1. Moved(t) /\ UNCHANGED work
    BY <1>0, <1>4, <2>0, NearFailsLeg DEF NearFails, Elsewhere
  <2>2. Turn(leg[t]) /\ leg[t] \in Legs
    BY <1>0 DEF Turns, FileTypes
  <2>3. Turn(leg[t])'
    BY <1>0, <1>4, <2>0, <2>1, <2>2, NearFailsLeg, WordsDiffer DEF NearFails, Turn,
       NearSends, NearReceives
  <2> QED BY <1>0, <2>1, <2>3, TurnsLeg
<1>5. ASSUME SourceOpens PROVE Turns'
  <2>0. PICK t \in Tries : t = try
    BY <1>0 DEF FileTypes
  <2>1. Moved(t) /\ UNCHANGED work
    BY <1>0, <1>5, <2>0, SourceOpensLeg DEF SourceOpens, Elsewhere
  <2>2. Turn(leg[t]) /\ leg[t] \in Legs
    BY <1>0 DEF Turns, FileTypes
  <2>3. Turn(leg[t])'
    BY <1>0, <1>5, <2>0, <2>1, <2>2, SourceOpensLeg, WordsDiffer DEF SourceOpens, Turn,
       Up, Connected, Fresh
  <2> QED BY <1>0, <2>1, <2>3, TurnsLeg
<1>6. ASSUME NEW t \in Tries, SendBlock(t) PROVE Turns'
  <2>1. Moved(t) /\ UNCHANGED work
    BY <1>0, <1>6, SendBlockLeg DEF SendBlock, Elsewhere
  <2>2. Turn(leg[t]) /\ leg[t].snd = "blocks"
    BY <1>0, <1>6 DEF Turns, SendBlock, CanSend
  <2>3. leg'[t].link \notin {<<>>, Header, Receipt, Reply}
    <3>1. src \in Nat /\ leg'[t].link = <<src>>
      BY <1>0, <1>6, SendBlockLeg, TransfersAssumption DEF FileTypes
    <3> QED BY <3>1, WordsDiffer
  <2>4. Turn(leg[t])'
    BY <1>0, <1>6, <2>1, <2>2, <2>3, SendBlockLeg DEF Turn
  <2> QED BY <1>0, <2>1, <2>4, TurnsLeg
<1>7. ASSUME NEW t \in Tries, SendReceipt(t) PROVE Turns'
  <2>1. Moved(t) /\ UNCHANGED work
    BY <1>0, <1>7, SendReceiptLeg DEF SendReceipt, Elsewhere
  <2>2. leg[t].rcv \in {"blocks", "gone", "killed"}
    <3>1. leg[t].snd = "blocks" /\ leg[t].sent = Blocks /\ leg[t].link = <<>>
      BY <1>7 DEF SendReceipt, CanSend
    <3>2. CASE work = "copy"
      BY <1>7, <3>2 DEF SendReceipt, CanSend
    <3>3. CASE work # "copy"
      <4>1. Sound(t)
        BY <1>7, <3>3 DEF SendReceipt, CanSend, Up, Connected, Sound
      <4>2. Counted(leg[t]) /\ Turn(leg[t]) /\ leg[t] \in Legs
        BY <1>0, <4>1 DEF Staged, Turns, FileTypes
      <4>3. Len(<<>>) = 0 /\ Blocks # 0
        BY TransfersAssumption
      <4>4. leg[t].rcv \notin {"none", "head", "stage"}
        BY <3>1, <4>2, <4>3, Words DEF Counted, Turn
      <4>5. leg[t].rcv \notin {"publish", "reply"}
        BY <3>1, <4>2 DEF Turn
      <4> QED BY <4>2, <4>4, <4>5 DEF Legs, Receivers
    <3> QED BY <3>2, <3>3
  <2>3. Turn(leg[t])'
    BY <1>0, <1>7, <2>1, <2>2, SendReceiptLeg, Words DEF Turns, Turn
  <2> QED BY <1>0, <2>1, <2>3, TurnsLeg
<1>8. ASSUME TakeReply PROVE Turns'
  <2>0. PICK t \in Tries : t = try
    BY <1>0 DEF FileTypes
  <2>1. Moved(t) /\ UNCHANGED work
    BY <1>0, <1>8, <2>0, TakeReplyLeg DEF TakeReply, Elsewhere
  <2>2. Turn(leg[t]) /\ leg[t] \in Legs
    BY <1>0 DEF Turns, FileTypes
  <2>3. Turn(leg[t])'
    BY <1>0, <1>8, <2>0, <2>1, <2>2, TakeReplyLeg, WordsDiffer DEF TakeReply, Turn
  <2> QED BY <1>0, <2>1, <2>3, TurnsLeg
<1>9. ASSUME UploadStarts PROVE Turns'
  <2>0. PICK t \in Tries : t = try
    BY <1>0 DEF FileTypes
  <2>1. Moved(t) /\ UNCHANGED work
    BY <1>0, <1>9, <2>0, UploadStartsLeg DEF UploadStarts, Elsewhere
  <2>2. Turn(leg[t]) /\ leg[t] \in Legs
    BY <1>0 DEF Turns, FileTypes
  <2>3. Turn(leg[t])'
    BY <1>0, <1>9, <2>0, <2>1, <2>2, UploadStartsLeg, WordsDiffer DEF UploadStarts,
       Turn, Up, Connected, Fresh
  <2> QED BY <1>0, <2>1, <2>3, TurnsLeg
<1>10. ASSUME TakeHeader PROVE Turns'
  <2>0. PICK t \in Tries : t = try
    BY <1>0 DEF FileTypes
  <2>1. Moved(t) /\ UNCHANGED work
    BY <1>0, <1>10, <2>0, TakeHeaderLeg DEF TakeHeader, Elsewhere
  <2>2. Turn(leg[t]) /\ leg[t] \in Legs
    BY <1>0 DEF Turns, FileTypes
  <2>3. Turn(leg[t])'
    BY <1>0, <1>10, <2>0, <2>1, <2>2, TakeHeaderLeg, WordsDiffer DEF TakeHeader, Turn
  <2> QED BY <1>0, <2>1, <2>3, TurnsLeg
<1>11. ASSUME NEW t \in Tries, Stage(t) PROVE Turns'
  <2>1. Moved(t) /\ UNCHANGED work
    BY <1>0, <1>11, StageLeg DEF Stage, Elsewhere
  <2>2. Turn(leg[t]) /\ leg[t] \in Legs
    BY <1>0 DEF Turns, FileTypes
  <2>3. Turn(leg[t])'
    BY <1>0, <1>11, <2>1, <2>2, StageLeg, WordsDiffer DEF Stage, Turn
  <2> QED BY <1>0, <2>1, <2>3, TurnsLeg
<1>12. ASSUME NEW t \in Tries, TakeBlock(t) PROVE Turns'
  <2>1. Moved(t) /\ UNCHANGED work
    BY <1>0, <1>12, TakeBlockLeg DEF TakeBlock, Elsewhere
  <2>2. Turn(leg[t]) /\ leg[t] \in Legs
    BY <1>0 DEF Turns, FileTypes
  <2>3. Turn(leg[t])'
    BY <1>0, <1>12, <2>1, <2>2, TakeBlockLeg, WordsDiffer DEF TakeBlock, Turn
  <2> QED BY <1>0, <2>1, <2>3, TurnsLeg
<1>13. ASSUME NEW t \in Tries, TakeReceipt(t) PROVE Turns'
  <2>1. Moved(t) /\ UNCHANGED work
    BY <1>0, <1>13, TakeReceiptLeg DEF TakeReceipt, Elsewhere
  <2>2. Turn(leg[t]) /\ leg[t] \in Legs
    BY <1>0 DEF Turns, FileTypes
  <2>3. Turn(leg[t])'
    BY <1>0, <1>13, <2>1, <2>2, TakeReceiptLeg, WordsDiffer DEF TakeReceipt, Turn
  <2> QED BY <1>0, <2>1, <2>3, TurnsLeg
<1>14. ASSUME NEW t \in Tries, Publish(t) PROVE Turns'
  <2>1. Moved(t) /\ UNCHANGED work
    BY <1>0, <1>14, PublishLeg DEF Publish, Elsewhere
  <2>2. Turn(leg[t]) /\ leg[t] \in Legs
    BY <1>0 DEF Turns, FileTypes
  <2>3. Turn(leg[t])'
    BY <1>0, <1>14, <2>1, <2>2, PublishLeg, WordsDiffer DEF Publish, Turn, NearReceives
  <2> QED BY <1>0, <2>1, <2>3, TurnsLeg
<1>15. ASSUME NEW t \in Tries, SendReply(t) PROVE Turns'
  <2>1. Moved(t) /\ UNCHANGED work
    BY <1>0, <1>15, SendReplyLeg DEF SendReply, Elsewhere
  <2>2. Turn(leg[t]) /\ leg[t] \in Legs
    BY <1>0 DEF Turns, FileTypes
  <2>3. Turn(leg[t])'
    BY <1>0, <1>15, <2>1, <2>2, SendReplyLeg, WordsDiffer DEF SendReply, Turn
  <2> QED BY <1>0, <2>1, <2>3, TurnsLeg
<1>16. ASSUME NEW t \in Tries, DaemonFails(t) PROVE Turns'
  <2>1. Moved(t) /\ UNCHANGED work
    BY <1>0, <1>16, DaemonFailsLeg DEF DaemonFails, Elsewhere
  <2>2. Turn(leg[t]) /\ leg[t] \in Legs
    BY <1>0 DEF Turns, FileTypes
  <2>3. Turn(leg[t])'
    BY <1>0, <1>16, <2>1, <2>2, DaemonFailsLeg, WordsDiffer DEF DaemonFails, Turn,
       NearSends, NearReceives
  <2> QED BY <1>0, <2>1, <2>3, TurnsLeg
<1>17. ASSUME NEW t \in Tries, DaemonKilled(t) PROVE Turns'
  <2>1. Moved(t) /\ UNCHANGED work
    BY <1>0, <1>17, DaemonKilledLeg DEF DaemonKilled, Elsewhere
  <2>2. Turn(leg[t]) /\ leg[t].rcv \in {"stage", "blocks", "publish", "reply"}
    BY <1>0, <1>17 DEF Turns, DaemonKilled
  <2>3. leg'[t].rcv \in {"killed", "gone"} /\ (leg'[t].tmp => leg'[t].rcv = "killed")
    BY <1>0, <1>17, DaemonKilledLeg
  <2>4. /\ leg'[t].link = leg[t].link /\ leg'[t].snd = leg[t].snd
        /\ leg'[t].sent = leg[t].sent /\ leg'[t].staged = <<>>
    BY <1>0, <1>17, DaemonKilledLeg
  <2>5. Turn(leg[t])'
    BY <2>1, <2>2, <2>3, <2>4, WordsDiffer DEF Turn
  <2> QED BY <1>0, <2>1, <2>5, TurnsLeg
<1>18. ASSUME NEW t \in Tries, LoseLink(t) PROVE Turns'
  <2>1. Moved(t) /\ UNCHANGED work
    BY <1>0, <1>18, LoseLinkLeg DEF LoseLink, Elsewhere
  <2>2. Turn(leg[t]) /\ leg[t] \in Legs
    BY <1>0 DEF Turns, FileTypes
  <2>3. Turn(leg[t])'
    BY <1>0, <1>18, <2>1, <2>2, LoseLinkLeg, WordsDiffer DEF LoseLink, Turn
  <2> QED BY <1>0, <2>1, <2>3, TurnsLeg
<1>19. ASSUME UNCHANGED <<work, leg>> PROVE Turns'
  BY <1>0, <1>19 DEF Turns, Turn, FileTypes
<1>20. ASSUME
          \/ Retry \/ Edit \/ OtherCreates
      PROVE  UNCHANGED <<work, leg>>
  BY <1>20 DEF Retry, Edit, OtherCreates, Elsewhere
<1>21. ASSUME UNCHANGED transferVars
      PROVE  UNCHANGED <<work, leg>>
  BY <1>21 DEF fileVars, vars, transferVars
<1> QED BY <1>0, <1>1, <1>2, <1>3, <1>4, <1>5, <1>6, <1>7, <1>8, <1>9, <1>10, <1>11,
       <1>12,
           <1>13, <1>14, <1>15, <1>16, <1>17, <1>18, <1>19, <1>20, <1>21
       DEF TransferNext, NearMoves, DaemonWorks, Tries, Apart, FileTypes

\* A copy has every block of its source.
LEMMA CopyWhole ==
  ASSUME NEW v \in Int
  PROVE  Copy(v) \in Seq(Int) /\ Len(Copy(v)) = Blocks /\ Copy(v) # <<>>
<1>1. Blocks \in Nat \ {0}
  BY TransfersAssumption
<1>2. Copy(v) \in [1 .. Blocks -> Int]
  BY DEF Copy
<1>3. Copy(v) \in Seq(Int)
  BY <1>1, <1>2, SeqDef
<1>4. DOMAIN Copy(v) = 1 .. Blocks /\ DOMAIN Copy(v) = 1 .. Len(Copy(v))
      /\ Len(Copy(v)) \in Nat
  BY <1>2, <1>3, LenProperties
<1>5. Len(Copy(v)) = Blocks
  BY <1>1, <1>4
<1>6. Len(<<>>) = 0
  OBVIOUS
<1> QED BY <1>1, <1>3, <1>5, <1>6

\* A sequence of as many blocks, all of one version, is a copy of it.
LEMMA AllOne ==
  ASSUME NEW v \in Int, NEW s \in Seq(Int), Len(s) = Blocks,
         \A k \in 1 .. Len(s) : s[k] = v
  PROVE  s = Copy(v)
<1>1. Copy(v) \in Seq(Int) /\ Len(Copy(v)) = Blocks
  BY CopyWhole
<1>2. ASSUME NEW k \in 1 .. Len(s) PROVE s[k] = Copy(v)[k]
  BY <1>2 DEF Copy
<1> QED BY <1>1, <1>2, SeqEqual

\* A block more.
LEMMA OneMore ==
  ASSUME NEW s \in Seq(Int), NEW b \in Seq(Int), Len(b) = 1
  PROVE  Len(s \o b) = Len(s) + 1
<1>1. Len(s \o b) = Len(s) + Len(b)
  BY ConcatProperties
<1> QED BY <1>1

\* What a receiver takes before it has all of them is a block.
LEMMA BlockTaken ==
  ASSUME FileTypes, Turns, Receipts, NEW t \in Tries, TakeBlock(t)
  PROVE  Block(leg[t].link)
<1>1. /\ leg[t].rcv = "blocks" /\ leg[t].link # <<>> /\ Len(leg[t].staged) < Blocks
      /\ Turn(leg[t]) /\ Kept(leg[t])
  BY DEF TakeBlock, Turns, Receipts
<1>2. leg[t].link # Header /\ leg[t].link # Reply
  BY <1>1 DEF Turn
<1>3. ASSUME leg[t].link = Receipt PROVE FALSE
  <2>1. PICK v \in 0 .. MaxEdits : leg[t].staged = Copy(v)
    BY <1>1, <1>3 DEF Kept, Vouched
  <2>2. Len(leg[t].staged) = Blocks
    BY <2>1, CopyWhole, TransfersAssumption
  <2> QED BY <1>1, <2>2, TransfersAssumption
<1> QED BY <1>1, <1>2, <1>3 DEF Block

\* A leg that loses blocks, or opens nothing later, keeps what was read.
LEMMA FetchedKept ==
  ASSUME NEW l \in Legs, NEW m \in Legs, src \in Nat, Fetched(l),
         m.staged = <<>> \/ (m.staged = l.staged /\ m.opened <= l.opened),
         ~Block(m.link) \/ (m.link = l.link /\ m.opened <= l.opened),
         m.opened <= src, m.sent <= Blocks
  PROVE  Fetched(m)
<1>1. l.opened \in Nat /\ m.opened \in Nat /\ l.staged \in Seq(Int) /\ l.link \in Seq(Int)
  BY DEF Legs
<1>2. Len(m.staged) <= Blocks
  BY TransfersAssumption DEF Fetched
<1>3. ASSUME NEW k \in 1 .. Len(m.staged) PROVE m.opened <= m.staged[k] /\ m.staged[k] <= src
  <2>1. m.staged = l.staged /\ m.opened <= l.opened
    BY <1>3
  <2>2. l.opened <= l.staged[k] /\ l.staged[k] <= src /\ l.staged[k] \in Int
    BY <1>1, <1>3, <2>1, ElementOfSeq DEF Fetched
  <2> QED BY <1>1, <2>1, <2>2
<1>4. ASSUME Block(m.link) PROVE Len(m.link) = 1 /\ m.opened <= m.link[1] /\ m.link[1] <= src
  <2>1. m.link = l.link /\ m.opened <= l.opened /\ Block(l.link)
    BY <1>4
  <2>2. Len(l.link) = 1 /\ l.opened <= l.link[1] /\ l.link[1] <= src
    BY <2>1 DEF Fetched
  <2>3. l.link[1] \in Int
    BY <1>1, <2>2, ElementOfSeq
  <2> QED BY <1>1, <2>1, <2>2, <2>3
<1> QED BY <1>2, <1>3, <1>4 DEF Fetched

\* It is enough to look at the leg that moved for what was read.
LEMMA ReadLeg ==
  ASSUME FileTypes, Read, NEW t \in Tries, Moved(t), UNCHANGED src,
         Fetched(leg[t])'
  PROVE  Read'
BY DEF Read, Fetched, Moved

\* Every step keeps what was read.
LEMMA ReadKept == Inv /\ [TransferNext]_transferVars => Read'
<1> SUFFICES ASSUME Inv, [TransferNext]_transferVars PROVE Read'
  OBVIOUS
<1>0. JobInv /\ JobTypes /\ Stages /\ FileTypes /\ Fresh /\ Turns /\ Read /\ Receipts
  BY DEF Inv, FileInv, JobInv
<1>1. ASSUME CheckTransfer PROVE Read'
  <2>0. PICK t \in Tries : t = try
    BY <1>0 DEF FileTypes
  <2>1. /\ Moved(t) \/ UNCHANGED leg
        /\ leg'[t].opened \in {leg[t].opened, src} /\ leg'[t].sent = leg[t].sent
        /\ leg'[t].staged = leg[t].staged /\ leg'[t].link = leg[t].link
    BY <1>0, <1>1, <2>0, CheckLeg
  <2>2. leg[t].staged = <<>> /\ leg[t].link = <<>>
    BY <1>0, <1>1, <2>0 DEF CheckTransfer, At, Fresh, NoLeg
  <2>3. UNCHANGED src /\ src \in Nat /\ leg[t] \in Legs
    BY <1>0, <1>1, TransfersAssumption DEF CheckTransfer, FileTypes
  <2>4. Fetched(leg[t])'
    <3>1. Fetched(leg[t]) /\ leg[t].opened <= src /\ leg[t].sent <= Blocks
      BY <1>0 DEF Read, Fetched
    <3>2. leg'[t] \in Legs /\ ~Block(leg'[t].link) /\ leg'[t].opened <= src
      BY <1>0, <2>1, <2>2, <2>3, <3>1, Words DEF Moved
    <3>3. Fetched(leg'[t])
      BY <2>1, <2>2, <2>3, <3>1, <3>2, FetchedKept
    <3> QED BY <2>3, <3>3 DEF Fetched
  <2>5. CASE UNCHANGED leg
    BY <1>0, <2>3, <2>5 DEF Read, Fetched
  <2> QED BY <1>0, <2>1, <2>3, <2>4, <2>5, ReadLeg
<1>2. ASSUME NearFails PROVE Read'
  <2>0. PICK t \in Tries : t = try
    BY <1>0 DEF FileTypes
  <2>1. Moved(t) /\ UNCHANGED src /\ leg'[t] \in Legs
    BY <1>0, <1>2, <2>0, NearFailsLeg DEF NearFails, Moved
  <2>2. Fetched(leg[t]) /\ leg[t] \in Legs /\ src \in Nat
    BY <1>0, TransfersAssumption DEF Read, FileTypes
  <2>3. /\ leg[t].opened \in Nat /\ leg[t].sent \in Nat /\ leg[t].opened <= src
        /\ leg[t].sent <= Blocks
    BY <2>2 DEF Fetched, Legs
  <2>4. /\ \/ leg'[t].staged = <<>>
           \/ leg'[t].staged = leg[t].staged /\ leg'[t].opened <= leg[t].opened
        /\ \/ ~Block(leg'[t].link)
           \/ leg'[t].link = leg[t].link /\ leg'[t].opened <= leg[t].opened
        /\ leg'[t].opened <= src /\ leg'[t].sent <= Blocks
    <3>1. \/ /\ leg'[t].staged = <<>> /\ leg'[t].link = leg[t].link
             /\ leg'[t].opened = 0 /\ leg'[t].sent = 0
          \/ /\ leg'[t].staged = leg[t].staged /\ leg'[t].link = leg[t].link
             /\ leg'[t].opened = 0 /\ leg'[t].sent = 0
          \/ /\ leg'[t].staged = <<>> /\ leg'[t].link = leg[t].link
             /\ leg'[t].opened = leg[t].opened /\ leg'[t].sent = leg[t].sent
      BY <1>0, <1>2, <2>0, NearFailsLeg
    <3>2. Blocks \in Nat
      BY <1>0, <1>2, <2>0, TransfersAssumption
    <3> QED BY <2>2, <2>3, <3>1, <3>2
  <2>5. Fetched(leg'[t])
    BY <2>1, <2>2, <2>4, FetchedKept
  <2>6. Fetched(leg[t])'
    BY <2>1, <2>5 DEF Fetched
  <2> QED BY <1>0, <2>1, <2>6, ReadLeg
<1>3. ASSUME SourceOpens PROVE Read'
  <2>0. PICK t \in Tries : t = try
    BY <1>0 DEF FileTypes
  <2>1. Moved(t) /\ UNCHANGED src /\ leg'[t] \in Legs
    BY <1>0, <1>3, <2>0, SourceOpensLeg DEF SourceOpens, Moved
  <2>2. Fetched(leg[t]) /\ leg[t] \in Legs /\ src \in Nat
    BY <1>0, TransfersAssumption DEF Read, FileTypes
  <2>3. /\ leg[t].opened \in Nat /\ leg[t].sent \in Nat /\ leg[t].opened <= src
        /\ leg[t].sent <= Blocks
    BY <2>2 DEF Fetched, Legs
  <2>4. /\ \/ leg'[t].staged = <<>>
           \/ leg'[t].staged = leg[t].staged /\ leg'[t].opened <= leg[t].opened
        /\ \/ ~Block(leg'[t].link)
           \/ leg'[t].link = leg[t].link /\ leg'[t].opened <= leg[t].opened
        /\ leg'[t].opened <= src /\ leg'[t].sent <= Blocks
    <3>1. /\ leg'[t].staged = leg[t].staged /\ leg'[t].link = Header
          /\ leg'[t].opened = src /\ leg'[t].sent = leg[t].sent
      BY <1>0, <1>3, <2>0, SourceOpensLeg
    <3>2. Blocks \in Nat /\ leg[t].staged = <<>>
      BY <1>0, <1>3, <2>0, TransfersAssumption DEF SourceOpens, Turns, Turn
    <3> QED BY <2>2, <2>3, <3>1, <3>2, NoBlocks
  <2>5. Fetched(leg'[t])
    BY <2>1, <2>2, <2>4, FetchedKept
  <2>6. Fetched(leg[t])'
    BY <2>1, <2>5 DEF Fetched
  <2> QED BY <1>0, <2>1, <2>6, ReadLeg
<1>4. ASSUME NEW t \in Tries, SendBlock(t) PROVE Read'
  <2>1. Moved(t) /\ UNCHANGED src
    BY <1>0, <1>4, SendBlockLeg DEF SendBlock, Moved
  <2>2. Fetched(leg[t]) /\ leg[t] \in Legs /\ src \in Nat
    BY <1>0, TransfersAssumption DEF Read, FileTypes
  <2>3. leg'[t].sent <= Blocks
    <3>1. leg'[t].sent = leg[t].sent + 1
      BY <1>0, <1>4, SendBlockLeg
    <3>2. leg[t].sent < Blocks /\ leg[t].sent \in Nat /\ Blocks \in Nat
      BY <1>4, <2>2, TransfersAssumption DEF SendBlock, Legs
    <3> QED BY <3>1, <3>2
  <2>4. /\ leg'[t].link = <<src>> /\ leg'[t].opened = leg[t].opened
        /\ leg'[t].staged = leg[t].staged
    BY <1>0, <1>4, SendBlockLeg
  <2>5. Len(<<src>>) = 1 /\ <<src>>[1] = src
    BY <2>2, Words
  <2>6. Fetched(leg[t])'
    BY <2>1, <2>2, <2>3, <2>4, <2>5 DEF Fetched
  <2> QED BY <1>0, <2>1, <2>6, ReadLeg
<1>5. ASSUME NEW t \in Tries, SendReceipt(t) PROVE Read'
  <2>1. Moved(t) /\ UNCHANGED src /\ leg'[t] \in Legs
    BY <1>0, <1>5, SendReceiptLeg DEF SendReceipt, Moved
  <2>2. Fetched(leg[t]) /\ leg[t] \in Legs /\ src \in Nat
    BY <1>0, TransfersAssumption DEF Read, FileTypes
  <2>3. /\ leg[t].opened \in Nat /\ leg[t].sent \in Nat /\ leg[t].opened <= src
        /\ leg[t].sent <= Blocks
    BY <2>2 DEF Fetched, Legs
  <2>4. /\ \/ leg'[t].staged = <<>>
           \/ leg'[t].staged = leg[t].staged /\ leg'[t].opened <= leg[t].opened
        /\ \/ ~Block(leg'[t].link)
           \/ leg'[t].link = leg[t].link /\ leg'[t].opened <= leg[t].opened
        /\ leg'[t].opened <= src /\ leg'[t].sent <= Blocks
    <3>1. /\ leg'[t].staged = leg[t].staged /\ leg'[t].link = Receipt
          /\ leg'[t].opened = leg[t].opened /\ leg'[t].sent = 0
      BY <1>0, <1>5, SendReceiptLeg
    <3>2. Blocks \in Nat
      BY <1>0, <1>5, TransfersAssumption
    <3> QED BY <2>2, <2>3, <3>1, <3>2, NoBlocks
  <2>5. Fetched(leg'[t])
    BY <2>1, <2>2, <2>4, FetchedKept
  <2>6. Fetched(leg[t])'
    BY <2>1, <2>5 DEF Fetched
  <2> QED BY <1>0, <2>1, <2>6, ReadLeg
<1>6. ASSUME TakeReply PROVE Read'
  <2>0. PICK t \in Tries : t = try
    BY <1>0 DEF FileTypes
  <2>1. Moved(t) /\ UNCHANGED src /\ leg'[t] \in Legs
    BY <1>0, <1>6, <2>0, TakeReplyLeg DEF TakeReply, Moved
  <2>2. Fetched(leg[t]) /\ leg[t] \in Legs /\ src \in Nat
    BY <1>0, TransfersAssumption DEF Read, FileTypes
  <2>3. /\ leg[t].opened \in Nat /\ leg[t].sent \in Nat /\ leg[t].opened <= src
        /\ leg[t].sent <= Blocks
    BY <2>2 DEF Fetched, Legs
  <2>4. /\ \/ leg'[t].staged = <<>>
           \/ leg'[t].staged = leg[t].staged /\ leg'[t].opened <= leg[t].opened
        /\ \/ ~Block(leg'[t].link)
           \/ leg'[t].link = leg[t].link /\ leg'[t].opened <= leg[t].opened
        /\ leg'[t].opened <= src /\ leg'[t].sent <= Blocks
    <3>1. /\ leg'[t].staged = leg[t].staged /\ leg'[t].link = <<>>
          /\ leg'[t].opened = leg[t].opened /\ leg'[t].sent = leg[t].sent
      BY <1>0, <1>6, <2>0, TakeReplyLeg
    <3>2. Blocks \in Nat
      BY <1>0, <1>6, <2>0, TransfersAssumption
    <3> QED BY <2>2, <2>3, <3>1, <3>2, NoBlocks
  <2>5. Fetched(leg'[t])
    BY <2>1, <2>2, <2>4, FetchedKept
  <2>6. Fetched(leg[t])'
    BY <2>1, <2>5 DEF Fetched
  <2> QED BY <1>0, <2>1, <2>6, ReadLeg
<1>7. ASSUME UploadStarts PROVE Read'
  <2>0. PICK t \in Tries : t = try
    BY <1>0 DEF FileTypes
  <2>1. Moved(t) /\ UNCHANGED src /\ leg'[t] \in Legs
    BY <1>0, <1>7, <2>0, UploadStartsLeg DEF UploadStarts, Moved
  <2>2. Fetched(leg[t]) /\ leg[t] \in Legs /\ src \in Nat
    BY <1>0, TransfersAssumption DEF Read, FileTypes
  <2>3. /\ leg[t].opened \in Nat /\ leg[t].sent \in Nat /\ leg[t].opened <= src
        /\ leg[t].sent <= Blocks
    BY <2>2 DEF Fetched, Legs
  <2>4. /\ \/ leg'[t].staged = <<>>
           \/ leg'[t].staged = leg[t].staged /\ leg'[t].opened <= leg[t].opened
        /\ \/ ~Block(leg'[t].link)
           \/ leg'[t].link = leg[t].link /\ leg'[t].opened <= leg[t].opened
        /\ leg'[t].opened <= src /\ leg'[t].sent <= Blocks
    <3>1. /\ leg'[t].staged = leg[t].staged /\ leg'[t].link = leg[t].link
          /\ leg'[t].opened = leg[t].opened /\ leg'[t].sent = leg[t].sent
      BY <1>0, <1>7, <2>0, UploadStartsLeg
    <3>2. Blocks \in Nat
      BY <1>0, <1>7, <2>0, TransfersAssumption
    <3> QED BY <2>2, <2>3, <3>1, <3>2, NoBlocks
  <2>5. Fetched(leg'[t])
    BY <2>1, <2>2, <2>4, FetchedKept
  <2>6. Fetched(leg[t])'
    BY <2>1, <2>5 DEF Fetched
  <2> QED BY <1>0, <2>1, <2>6, ReadLeg
<1>8. ASSUME TakeHeader PROVE Read'
  <2>0. PICK t \in Tries : t = try
    BY <1>0 DEF FileTypes
  <2>1. Moved(t) /\ UNCHANGED src /\ leg'[t] \in Legs
    BY <1>0, <1>8, <2>0, TakeHeaderLeg DEF TakeHeader, Moved
  <2>2. Fetched(leg[t]) /\ leg[t] \in Legs /\ src \in Nat
    BY <1>0, TransfersAssumption DEF Read, FileTypes
  <2>3. /\ leg[t].opened \in Nat /\ leg[t].sent \in Nat /\ leg[t].opened <= src
        /\ leg[t].sent <= Blocks
    BY <2>2 DEF Fetched, Legs
  <2>4. /\ \/ leg'[t].staged = <<>>
           \/ leg'[t].staged = leg[t].staged /\ leg'[t].opened <= leg[t].opened
        /\ \/ ~Block(leg'[t].link)
           \/ leg'[t].link = leg[t].link /\ leg'[t].opened <= leg[t].opened
        /\ leg'[t].opened <= src /\ leg'[t].sent <= Blocks
    <3>1. /\ leg'[t].staged = leg[t].staged /\ leg'[t].link = <<>>
          /\ leg'[t].opened = leg[t].opened /\ leg'[t].sent = leg[t].sent
      BY <1>0, <1>8, <2>0, TakeHeaderLeg
    <3>2. Blocks \in Nat
      BY <1>0, <1>8, <2>0, TransfersAssumption
    <3> QED BY <2>2, <2>3, <3>1, <3>2, NoBlocks
  <2>5. Fetched(leg'[t])
    BY <2>1, <2>2, <2>4, FetchedKept
  <2>6. Fetched(leg[t])'
    BY <2>1, <2>5 DEF Fetched
  <2> QED BY <1>0, <2>1, <2>6, ReadLeg
<1>9. ASSUME NEW t \in Tries, Stage(t) PROVE Read'
  <2>1. Moved(t) /\ UNCHANGED src /\ leg'[t] \in Legs
    BY <1>0, <1>9, StageLeg DEF Stage, Moved
  <2>2. Fetched(leg[t]) /\ leg[t] \in Legs /\ src \in Nat
    BY <1>0, TransfersAssumption DEF Read, FileTypes
  <2>3. /\ leg[t].opened \in Nat /\ leg[t].sent \in Nat /\ leg[t].opened <= src
        /\ leg[t].sent <= Blocks
    BY <2>2 DEF Fetched, Legs
  <2>4. /\ \/ leg'[t].staged = <<>>
           \/ leg'[t].staged = leg[t].staged /\ leg'[t].opened <= leg[t].opened
        /\ \/ ~Block(leg'[t].link)
           \/ leg'[t].link = leg[t].link /\ leg'[t].opened <= leg[t].opened
        /\ leg'[t].opened <= src /\ leg'[t].sent <= Blocks
    <3>1. /\ leg'[t].staged = leg[t].staged /\ leg'[t].link = leg[t].link
          /\ leg'[t].opened = leg[t].opened /\ leg'[t].sent = leg[t].sent
      BY <1>0, <1>9, StageLeg
    <3>2. Blocks \in Nat
      BY <1>0, <1>9, TransfersAssumption
    <3> QED BY <2>2, <2>3, <3>1, <3>2, NoBlocks
  <2>5. Fetched(leg'[t])
    BY <2>1, <2>2, <2>4, FetchedKept
  <2>6. Fetched(leg[t])'
    BY <2>1, <2>5 DEF Fetched
  <2> QED BY <1>0, <2>1, <2>6, ReadLeg
<1>10. ASSUME NEW t \in Tries, TakeBlock(t) PROVE Read'
  <2>1. Moved(t) /\ UNCHANGED src
    BY <1>0, <1>10, TakeBlockLeg DEF TakeBlock
  <2>2. /\ Fetched(leg[t]) /\ leg[t] \in Legs /\ Block(leg[t].link) /\ src \in Nat
        /\ Len(leg[t].staged) < Blocks
    <3>1. Block(leg[t].link)
      BY <1>0, <1>10, BlockTaken
    <3> QED BY <1>0, <1>10, <3>1, TransfersAssumption DEF Read, FileTypes, TakeBlock
  <2> DEFINE s == leg[t].staged
             b == leg[t].link
  <2>3. s \in Seq(Int) /\ b \in Seq(Int) /\ Len(b) = 1 /\ Len(s) \in Nat
    BY <2>2, LenProperties DEF Legs, Fetched
  <2>4. /\ Len(s \o b) = Len(s) + 1
        /\ \A k \in 1 .. Len(s) + 1 : k <= Len(s) => (s \o b)[k] = s[k]
        /\ \A k \in 1 .. Len(s) + 1 : ~(k <= Len(s)) => (s \o b)[k] = b[k - Len(s)]
    <3> HIDE DEF s, b
    <3>1. Len(s \o b) = Len(s) + Len(b)
      BY <2>3, ConcatProperties
    <3>2. \A k \in 1 .. Len(s) + Len(b) :
            (s \o b)[k] = IF k <= Len(s) THEN s[k] ELSE b[k - Len(s)]
      BY <2>3, ConcatProperties
    <3> QED BY <2>3, <3>1, <3>2
  <2>5. /\ leg'[t].staged = s \o b /\ leg'[t].link = <<>>
        /\ leg'[t].opened = leg[t].opened /\ leg'[t].sent = leg[t].sent
    BY <1>0, <1>10, TakeBlockLeg
  <2>6. \A k \in 1 .. Len(s) : leg[t].opened <= s[k] /\ s[k] <= src
    BY <2>2 DEF Fetched
  <2>7. /\ leg[t].opened <= b[1] /\ b[1] <= src /\ leg[t].opened <= src
        /\ leg[t].sent <= Blocks
    BY <2>2 DEF Fetched
  <2>8. ASSUME NEW k \in 1 .. Len(s) + 1 PROVE leg[t].opened <= (s \o b)[k] /\ (s \o b)[k] <= src
    <3>1. CASE k <= Len(s)
      <4>1. (s \o b)[k] = s[k] /\ k \in 1 .. Len(s)
        <5>1. k \in 1 .. Len(s)
          BY <2>3, <3>1
        <5> QED BY <2>4, <3>1, <5>1
      <4> QED BY <2>6, <4>1
    <3>2. CASE ~(k <= Len(s))
      <4>1. (s \o b)[k] = b[1]
        <5>1. k - Len(s) = 1
          BY <2>3, <3>2
        <5> QED BY <2>4, <3>2, <5>1
      <4> QED BY <2>7, <4>1
    <3> QED BY <3>1, <3>2
  <2>9. Len(s) + 1 <= Blocks
    BY <2>2, <2>3, TransfersAssumption
  <2> HIDE DEF s, b
  <2>10. Fetched(leg[t])'
    BY <2>1, <2>4, <2>5, <2>7, <2>8, <2>9, Words DEF Fetched
  <2> QED BY <1>0, <2>1, <2>10, ReadLeg
<1>11. ASSUME NEW t \in Tries, TakeReceipt(t) PROVE Read'
  <2>1. Moved(t) /\ UNCHANGED src /\ leg'[t] \in Legs
    BY <1>0, <1>11, TakeReceiptLeg DEF TakeReceipt, Moved
  <2>2. Fetched(leg[t]) /\ leg[t] \in Legs /\ src \in Nat
    BY <1>0, TransfersAssumption DEF Read, FileTypes
  <2>3. /\ leg[t].opened \in Nat /\ leg[t].sent \in Nat /\ leg[t].opened <= src
        /\ leg[t].sent <= Blocks
    BY <2>2 DEF Fetched, Legs
  <2>4. /\ \/ leg'[t].staged = <<>>
           \/ leg'[t].staged = leg[t].staged /\ leg'[t].opened <= leg[t].opened
        /\ \/ ~Block(leg'[t].link)
           \/ leg'[t].link = leg[t].link /\ leg'[t].opened <= leg[t].opened
        /\ leg'[t].opened <= src /\ leg'[t].sent <= Blocks
    <3>1. /\ leg'[t].staged = leg[t].staged /\ leg'[t].link = <<>>
          /\ leg'[t].opened = leg[t].opened /\ leg'[t].sent = leg[t].sent
      BY <1>0, <1>11, TakeReceiptLeg
    <3>2. Blocks \in Nat
      BY <1>0, <1>11, TransfersAssumption
    <3> QED BY <2>2, <2>3, <3>1, <3>2, NoBlocks
  <2>5. Fetched(leg'[t])
    BY <2>1, <2>2, <2>4, FetchedKept
  <2>6. Fetched(leg[t])'
    BY <2>1, <2>5 DEF Fetched
  <2> QED BY <1>0, <2>1, <2>6, ReadLeg
<1>12. ASSUME NEW t \in Tries, Publish(t) PROVE Read'
  <2>1. Moved(t) /\ UNCHANGED src /\ leg'[t] \in Legs
    BY <1>0, <1>12, PublishLeg DEF Publish, Moved
  <2>2. Fetched(leg[t]) /\ leg[t] \in Legs /\ src \in Nat
    BY <1>0, TransfersAssumption DEF Read, FileTypes
  <2>3. /\ leg[t].opened \in Nat /\ leg[t].sent \in Nat /\ leg[t].opened <= src
        /\ leg[t].sent <= Blocks
    BY <2>2 DEF Fetched, Legs
  <2>4. /\ \/ leg'[t].staged = <<>>
           \/ leg'[t].staged = leg[t].staged /\ leg'[t].opened <= leg[t].opened
        /\ \/ ~Block(leg'[t].link)
           \/ leg'[t].link = leg[t].link /\ leg'[t].opened <= leg[t].opened
        /\ leg'[t].opened <= src /\ leg'[t].sent <= Blocks
    <3>1. /\ leg'[t].staged = <<>> /\ leg'[t].link = leg[t].link
          /\ leg'[t].opened = leg[t].opened /\ leg'[t].sent = leg[t].sent
      BY <1>0, <1>12, PublishLeg
    <3>2. Blocks \in Nat
      BY <1>0, <1>12, TransfersAssumption
    <3> QED BY <2>2, <2>3, <3>1, <3>2, NoBlocks
  <2>5. Fetched(leg'[t])
    BY <2>1, <2>2, <2>4, FetchedKept
  <2>6. Fetched(leg[t])'
    BY <2>1, <2>5 DEF Fetched
  <2> QED BY <1>0, <2>1, <2>6, ReadLeg
<1>13. ASSUME NEW t \in Tries, SendReply(t) PROVE Read'
  <2>1. Moved(t) /\ UNCHANGED src /\ leg'[t] \in Legs
    BY <1>0, <1>13, SendReplyLeg DEF SendReply, Moved
  <2>2. Fetched(leg[t]) /\ leg[t] \in Legs /\ src \in Nat
    BY <1>0, TransfersAssumption DEF Read, FileTypes
  <2>3. /\ leg[t].opened \in Nat /\ leg[t].sent \in Nat /\ leg[t].opened <= src
        /\ leg[t].sent <= Blocks
    BY <2>2 DEF Fetched, Legs
  <2>4. /\ \/ leg'[t].staged = <<>>
           \/ leg'[t].staged = leg[t].staged /\ leg'[t].opened <= leg[t].opened
        /\ \/ ~Block(leg'[t].link)
           \/ leg'[t].link = leg[t].link /\ leg'[t].opened <= leg[t].opened
        /\ leg'[t].opened <= src /\ leg'[t].sent <= Blocks
    <3>1. /\ leg'[t].staged = leg[t].staged /\ leg'[t].link \in {Reply, <<>>}
          /\ leg'[t].opened = leg[t].opened /\ leg'[t].sent = leg[t].sent
      BY <1>0, <1>13, SendReplyLeg
    <3>2. Blocks \in Nat
      BY <1>0, <1>13, TransfersAssumption
    <3> QED BY <2>2, <2>3, <3>1, <3>2, NoBlocks
  <2>5. Fetched(leg'[t])
    BY <2>1, <2>2, <2>4, FetchedKept
  <2>6. Fetched(leg[t])'
    BY <2>1, <2>5 DEF Fetched
  <2> QED BY <1>0, <2>1, <2>6, ReadLeg
<1>14. ASSUME NEW t \in Tries, DaemonFails(t) PROVE Read'
  <2>1. Moved(t) /\ UNCHANGED src /\ leg'[t] \in Legs
    BY <1>0, <1>14, DaemonFailsLeg DEF DaemonFails, Moved
  <2>2. Fetched(leg[t]) /\ leg[t] \in Legs /\ src \in Nat
    BY <1>0, TransfersAssumption DEF Read, FileTypes
  <2>3. /\ leg[t].opened \in Nat /\ leg[t].sent \in Nat /\ leg[t].opened <= src
        /\ leg[t].sent <= Blocks
    BY <2>2 DEF Fetched, Legs
  <2>4. /\ \/ leg'[t].staged = <<>>
           \/ leg'[t].staged = leg[t].staged /\ leg'[t].opened <= leg[t].opened
        /\ \/ ~Block(leg'[t].link)
           \/ leg'[t].link = leg[t].link /\ leg'[t].opened <= leg[t].opened
        /\ leg'[t].opened <= src /\ leg'[t].sent <= Blocks
    <3>1. \/ /\ leg'[t].staged = leg[t].staged /\ leg'[t].link = leg[t].link
             /\ leg'[t].opened = 0 /\ leg'[t].sent = 0
          \/ /\ leg'[t].staged = <<>> /\ leg'[t].link = leg[t].link
             /\ leg'[t].opened = leg[t].opened /\ leg'[t].sent = leg[t].sent
      BY <1>0, <1>14, DaemonFailsLeg
    <3>2. Blocks \in Nat
      BY <1>0, <1>14, TransfersAssumption
    <3> QED BY <2>2, <2>3, <3>1, <3>2
  <2>5. Fetched(leg'[t])
    BY <2>1, <2>2, <2>4, FetchedKept
  <2>6. Fetched(leg[t])'
    BY <2>1, <2>5 DEF Fetched
  <2> QED BY <1>0, <2>1, <2>6, ReadLeg
<1>15. ASSUME NEW t \in Tries, DaemonKilled(t) PROVE Read'
  <2>1. Moved(t) /\ UNCHANGED src /\ leg'[t] \in Legs
    BY <1>0, <1>15, DaemonKilledLeg DEF DaemonKilled, Moved
  <2>2. Fetched(leg[t]) /\ leg[t] \in Legs /\ src \in Nat
    BY <1>0, TransfersAssumption DEF Read, FileTypes
  <2>3. /\ leg[t].opened \in Nat /\ leg[t].sent \in Nat /\ leg[t].opened <= src
        /\ leg[t].sent <= Blocks
    BY <2>2 DEF Fetched, Legs
  <2>4. /\ \/ leg'[t].staged = <<>>
           \/ leg'[t].staged = leg[t].staged /\ leg'[t].opened <= leg[t].opened
        /\ \/ ~Block(leg'[t].link)
           \/ leg'[t].link = leg[t].link /\ leg'[t].opened <= leg[t].opened
        /\ leg'[t].opened <= src /\ leg'[t].sent <= Blocks
    <3>1. /\ leg'[t].staged = <<>> /\ leg'[t].link = leg[t].link
          /\ leg'[t].opened = leg[t].opened /\ leg'[t].sent = leg[t].sent
      BY <1>0, <1>15, DaemonKilledLeg
    <3>2. Blocks \in Nat
      BY <1>0, <1>15, TransfersAssumption
    <3> QED BY <2>2, <2>3, <3>1, <3>2, NoBlocks
  <2>5. Fetched(leg'[t])
    BY <2>1, <2>2, <2>4, FetchedKept
  <2>6. Fetched(leg[t])'
    BY <2>1, <2>5 DEF Fetched
  <2> QED BY <1>0, <2>1, <2>6, ReadLeg
<1>16. ASSUME NEW t \in Tries, LoseLink(t) PROVE Read'
  <2>1. Moved(t) /\ UNCHANGED src /\ leg'[t] \in Legs
    BY <1>0, <1>16, LoseLinkLeg DEF LoseLink, Moved
  <2>2. Fetched(leg[t]) /\ leg[t] \in Legs /\ src \in Nat
    BY <1>0, TransfersAssumption DEF Read, FileTypes
  <2>3. /\ leg[t].opened \in Nat /\ leg[t].sent \in Nat /\ leg[t].opened <= src
        /\ leg[t].sent <= Blocks
    BY <2>2 DEF Fetched, Legs
  <2>4. /\ \/ leg'[t].staged = <<>>
           \/ leg'[t].staged = leg[t].staged /\ leg'[t].opened <= leg[t].opened
        /\ \/ ~Block(leg'[t].link)
           \/ leg'[t].link = leg[t].link /\ leg'[t].opened <= leg[t].opened
        /\ leg'[t].opened <= src /\ leg'[t].sent <= Blocks
    <3>1. /\ leg'[t].staged = leg[t].staged /\ leg'[t].link = <<>>
          /\ leg'[t].opened = leg[t].opened /\ leg'[t].sent = leg[t].sent
      BY <1>0, <1>16, LoseLinkLeg
    <3>2. Blocks \in Nat
      BY <1>0, <1>16, TransfersAssumption
    <3> QED BY <2>2, <2>3, <3>1, <3>2, NoBlocks
  <2>5. Fetched(leg'[t])
    BY <2>1, <2>2, <2>4, FetchedKept
  <2>6. Fetched(leg[t])'
    BY <2>1, <2>5 DEF Fetched
  <2> QED BY <1>0, <2>1, <2>6, ReadLeg
<1>17. ASSUME Edit PROVE Read'
  <2>1. src' = src + 1 /\ src \in Nat /\ UNCHANGED leg
    BY <1>0, <1>17, TransfersAssumption DEF Edit, FileTypes
  <2>2. ASSUME NEW t \in Tries PROVE Fetched(leg[t])'
    <3>1. Fetched(leg[t]) /\ leg[t] \in Legs
      BY <1>0 DEF Read, FileTypes
    <3>2. \A k \in 1 .. Len(leg[t].staged) : leg[t].staged[k] \in Int
      BY <3>1, ElementOfSeq DEF Legs
    <3>3. Block(leg[t].link) => leg[t].link[1] \in Int
      BY <3>1, ElementOfSeq DEF Fetched, Legs
    <3> QED BY <2>1, <3>1, <3>2, <3>3 DEF Fetched, Legs
  <2> QED BY <2>1, <2>2 DEF Read
<1>18. ASSUME UNCHANGED <<src, leg>> PROVE Read'
  BY <1>0, <1>18 DEF Read, Fetched, FileTypes
<1>19. ASSUME
          \/ Apart \/ Retry \/ OtherCreates
      PROVE  UNCHANGED <<src, leg>>
  BY <1>19 DEF Apart, Retry, OtherCreates, fileVars, Elsewhere
<1>20. ASSUME NEW w \in Transfers,
          \/ StartTransfer(w)
      PROVE  UNCHANGED <<src, leg>>
  BY <1>20 DEF StartTransfer, Start, fileVars
<1>21. ASSUME UNCHANGED transferVars
      PROVE  UNCHANGED <<src, leg>>
  BY <1>21 DEF fileVars, vars, transferVars
<1> QED BY <1>0, <1>1, <1>2, <1>3, <1>4, <1>5, <1>6, <1>7, <1>8, <1>9, <1>10, <1>11,
       <1>12,
           <1>13, <1>14, <1>15, <1>16, <1>17, <1>18, <1>19, <1>20, <1>21
       DEF TransferNext, NearMoves, DaemonWorks, Tries, Apart, FileTypes

\* It is enough to look at the leg that moved for the count of blocks.
LEMMA StagedLeg ==
  ASSUME FileTypes, Staged, NEW t \in Tries, Moved(t), UNCHANGED <<try, tree>>,
         Sound(t) => Counted(leg'[t])
  PROVE  Staged'
BY DEF Staged, Counted, Moved, Sound

\* Every step keeps the count of the blocks.
LEMMA StagedKept == Inv /\ [TransferNext]_transferVars => Staged'
<1> SUFFICES ASSUME Inv, [TransferNext]_transferVars PROVE Staged'
  OBVIOUS
<1>0. /\ JobInv /\ JobTypes /\ Stages /\ FileTypes /\ Fresh /\ Turns /\ Read /\ Staged
      /\ Receipts
  BY DEF Inv, FileInv, JobInv
<1>1. ASSUME Apart PROVE Staged'
  <2>1. UNCHANGED <<leg, try>>
    BY <1>1 DEF Apart, fileVars
  <2>2. CASE work \in Transfers
    <3>1. tree'["near"] \in {"none", "alive"} => tree["near"] \in {"none", "alive"}
      BY <1>0, <1>1, <2>2, NearSeen DEF Apart, NearView
    <3> QED BY <1>0, <2>1, <3>1 DEF Staged, Sound, Counted
  <2>3. CASE work \notin Transfers
    <3>1. \A t \in Tries : leg[t].snd = "none"
      BY <1>0, <2>3 DEF Fresh, NoLeg
    <3> QED BY <2>1, <3>1 DEF Staged, Counted
  <2> QED BY <2>2, <2>3
<1>2. ASSUME Retry PROVE Staged'
  <2>1. try \in Nat /\ try' = try + 1 /\ try' \in Tries /\ UNCHANGED leg
    BY <1>0, <1>2, TransfersAssumption DEF Retry, FileTypes, Tries
  <2>2. leg[try'] = NoLeg
    BY <1>0, <2>1 DEF Fresh
  <2>3. leg'[try'].snd = "none"
    BY <2>1, <2>2 DEF NoLeg
  <2> QED BY <2>1, <2>3 DEF Staged, Sound, Counted
<1>3. ASSUME CheckTransfer PROVE Staged'
  <2>0. PICK t \in Tries : t = try
    BY <1>0 DEF FileTypes
  <2>1. /\ Moved(t) \/ UNCHANGED leg
        /\ leg'[t].sent = leg[t].sent /\ leg'[t].staged = leg[t].staged
        /\ leg'[t].link = leg[t].link
    BY <1>0, <1>3, <2>0, CheckLeg
  <2>2. leg[t].staged = <<>> /\ leg[t].link = <<>> /\ leg[t].sent = 0
    BY <1>0, <1>3, <2>0 DEF CheckTransfer, At, Fresh, NoLeg
  <2>3. UNCHANGED <<try, tree>>
    BY <1>3 DEF CheckTransfer
  <2>4. Len(<<>>) = 0 /\ ~Block(<<>>)
    BY Words
  <2>5. CASE UNCHANGED leg
    BY <1>0, <2>3, <2>5 DEF Staged, Sound, Counted
  <2>6. Counted(leg'[t])
    BY <2>1, <2>2, <2>4 DEF Counted
  <2> QED BY <1>0, <2>1, <2>3, <2>5, <2>6, StagedLeg
<1>4. ASSUME NearFails PROVE Staged'
  <2>0. PICK t \in Tries : t = try
    BY <1>0 DEF FileTypes
  <2>1. Moved(t) /\ UNCHANGED <<try, tree>>
    BY <1>0, <1>4, <2>0, NearFailsLeg DEF NearFails, Elsewhere
  <2>2. leg'[t].snd # "blocks" \/ leg'[t].rcv \notin {"none", "head", "stage", "blocks"}
    BY <1>0, <1>4, <2>0, NearFailsLeg DEF NearFails
  <2> QED BY <1>0, <2>1, <2>2, StagedLeg DEF Counted
<1>5. ASSUME SourceOpens PROVE Staged'
  <2>0. PICK t \in Tries : t = try
    BY <1>0 DEF FileTypes
  <2>1. Moved(t) /\ UNCHANGED <<try, tree>>
    BY <1>0, <1>5, <2>0, SourceOpensLeg DEF SourceOpens, Elsewhere
  <2>2. leg'[t].sent = 0 /\ leg'[t].staged = <<>> /\ leg'[t].link = Header
    BY <1>0, <1>5, <2>0, SourceOpensLeg DEF SourceOpens, Turns, Turn
  <2>3. Len(<<>>) = 0 /\ ~Block(Header)
    BY Words
  <2>4. Sound(t) => Counted(leg'[t])
    BY <2>2, <2>3 DEF Counted
  <2> QED BY <1>0, <2>1, <2>4, StagedLeg
<1>6. ASSUME NEW t \in Tries, SendBlock(t) PROVE Staged'
  <2>1. Moved(t) /\ UNCHANGED <<try, tree>>
    BY <1>0, <1>6, SendBlockLeg DEF SendBlock, Elsewhere
  <2>2. /\ leg'[t].sent = leg[t].sent + 1 /\ leg'[t].staged = leg[t].staged
        /\ leg'[t].link = <<src>>
        /\ leg'[t].snd = leg[t].snd /\ leg'[t].rcv = leg[t].rcv /\ leg[t].link = <<>>
    BY <1>0, <1>6, SendBlockLeg DEF SendBlock, CanSend
  <2>3. ~Block(<<>>) /\ Block(<<src>>)
    BY <1>0, Words, TransfersAssumption DEF FileTypes
  <2>4. Len(leg[t].staged) \in Nat
    BY <1>0, LenProperties DEF FileTypes, Legs
  <2>5. Sound(t) => Counted(leg[t])
    BY <1>0 DEF Staged
  <2>6. Sound(t) => Counted(leg'[t])
    BY <2>2, <2>3, <2>4, <2>5 DEF Counted
  <2> QED BY <1>0, <2>1, <2>6, StagedLeg
<1>7. ASSUME NEW t \in Tries, SendReceipt(t) PROVE Staged'
  <2>1. Moved(t) /\ UNCHANGED <<try, tree>>
    BY <1>0, <1>7, SendReceiptLeg DEF SendReceipt, Elsewhere
  <2>2. leg'[t].snd # "blocks" \/ leg'[t].rcv \notin {"none", "head", "stage", "blocks"}
    BY <1>0, <1>7, SendReceiptLeg DEF SendReceipt
  <2> QED BY <1>0, <2>1, <2>2, StagedLeg DEF Counted
<1>8. ASSUME TakeReply PROVE Staged'
  <2>0. PICK t \in Tries : t = try
    BY <1>0 DEF FileTypes
  <2>1. Moved(t) /\ UNCHANGED <<try, tree>>
    BY <1>0, <1>8, <2>0, TakeReplyLeg DEF TakeReply, Elsewhere
  <2>2. leg'[t].snd # "blocks" \/ leg'[t].rcv \notin {"none", "head", "stage", "blocks"}
    BY <1>0, <1>8, <2>0, TakeReplyLeg DEF TakeReply
  <2> QED BY <1>0, <2>1, <2>2, StagedLeg DEF Counted
<1>9. ASSUME UploadStarts PROVE Staged'
  <2>0. PICK t \in Tries : t = try
    BY <1>0 DEF FileTypes
  <2>1. Moved(t) /\ UNCHANGED <<try, tree>>
    BY <1>0, <1>9, <2>0, UploadStartsLeg DEF UploadStarts, Elsewhere
  <2>2. /\ leg'[t].snd = leg[t].snd /\ leg'[t].sent = leg[t].sent
        /\ leg'[t].staged = leg[t].staged
        /\ Block(leg'[t].link) <=> Block(leg[t].link)
        /\ leg[t].rcv \in {"none", "head", "stage", "blocks"}
    BY <1>0, <1>9, <2>0, UploadStartsLeg, Words DEF UploadStarts
  <2>3. Sound(t) => Counted(leg[t])
    BY <1>0 DEF Staged
  <2>4. Sound(t) => Counted(leg'[t])
    BY <2>2, <2>3 DEF Counted
  <2> QED BY <1>0, <2>1, <2>4, StagedLeg
<1>10. ASSUME TakeHeader PROVE Staged'
  <2>0. PICK t \in Tries : t = try
    BY <1>0 DEF FileTypes
  <2>1. Moved(t) /\ UNCHANGED <<try, tree>>
    BY <1>0, <1>10, <2>0, TakeHeaderLeg DEF TakeHeader, Elsewhere
  <2>2. /\ leg'[t].snd = leg[t].snd /\ leg'[t].sent = leg[t].sent
        /\ leg'[t].staged = leg[t].staged
        /\ Block(leg'[t].link) <=> Block(leg[t].link)
        /\ leg[t].rcv \in {"none", "head", "stage", "blocks"}
    BY <1>0, <1>10, <2>0, TakeHeaderLeg, Words DEF TakeHeader
  <2>3. Sound(t) => Counted(leg[t])
    BY <1>0 DEF Staged
  <2>4. Sound(t) => Counted(leg'[t])
    BY <2>2, <2>3 DEF Counted
  <2> QED BY <1>0, <2>1, <2>4, StagedLeg
<1>11. ASSUME NEW t \in Tries, Stage(t) PROVE Staged'
  <2>1. Moved(t) /\ UNCHANGED <<try, tree>>
    BY <1>0, <1>11, StageLeg DEF Stage, Elsewhere
  <2>2. /\ leg'[t].snd = leg[t].snd /\ leg'[t].sent = leg[t].sent
        /\ leg'[t].staged = leg[t].staged
        /\ Block(leg'[t].link) <=> Block(leg[t].link)
        /\ leg[t].rcv \in {"none", "head", "stage", "blocks"}
    BY <1>0, <1>11, StageLeg, Words DEF Stage
  <2>3. Sound(t) => Counted(leg[t])
    BY <1>0 DEF Staged
  <2>4. Sound(t) => Counted(leg'[t])
    BY <2>2, <2>3 DEF Counted
  <2> QED BY <1>0, <2>1, <2>4, StagedLeg
<1>12. ASSUME NEW t \in Tries, TakeBlock(t) PROVE Staged'
  <2>1. Moved(t) /\ UNCHANGED <<try, tree>>
    BY <1>0, <1>12, TakeBlockLeg DEF TakeBlock, Elsewhere
  <2>2. /\ leg'[t].staged = leg[t].staged \o leg[t].link /\ leg'[t].link = <<>>
        /\ leg'[t].sent = leg[t].sent /\ leg'[t].snd = leg[t].snd
        /\ leg'[t].rcv = leg[t].rcv
    BY <1>0, <1>12, TakeBlockLeg
  <2>3. Block(leg[t].link)
    BY <1>0, <1>12, BlockTaken
  <2>4. Len(leg[t].staged \o leg[t].link) = Len(leg[t].staged) + 1
    <3>1. Len(leg[t].link) = 1 /\ leg[t].link \in Seq(Int) /\ leg[t].staged \in Seq(Int)
      BY <1>0, <2>3 DEF Read, Fetched, FileTypes, Legs
    <3> QED BY <3>1, OneMore
  <2>5. (Sound(t) => Counted(leg[t])) /\ ~Block(<<>>) /\ Len(leg[t].staged) \in Nat
    BY <1>0, Words, LenProperties DEF Staged, FileTypes, Legs
  <2>6. Sound(t) => Counted(leg'[t])
    BY <2>2, <2>3, <2>4, <2>5 DEF Counted
  <2> QED BY <1>0, <2>1, <2>6, StagedLeg
<1>13. ASSUME NEW t \in Tries, TakeReceipt(t) PROVE Staged'
  <2>1. Moved(t) /\ UNCHANGED <<try, tree>>
    BY <1>0, <1>13, TakeReceiptLeg DEF TakeReceipt, Elsewhere
  <2>2. leg'[t].snd # "blocks" \/ leg'[t].rcv \notin {"none", "head", "stage", "blocks"}
    BY <1>0, <1>13, TakeReceiptLeg DEF TakeReceipt
  <2> QED BY <1>0, <2>1, <2>2, StagedLeg DEF Counted
<1>14. ASSUME NEW t \in Tries, Publish(t) PROVE Staged'
  <2>1. Moved(t) /\ UNCHANGED <<try, tree>>
    BY <1>0, <1>14, PublishLeg DEF Publish, Elsewhere
  <2>2. leg'[t].snd # "blocks" \/ leg'[t].rcv \notin {"none", "head", "stage", "blocks"}
    <3>1. leg'[t].rcv \in {"gone", "reply"}
      BY <1>0, <1>14, PublishLeg
    <3> QED BY <3>1
  <2> QED BY <1>0, <2>1, <2>2, StagedLeg DEF Counted
<1>15. ASSUME NEW t \in Tries, SendReply(t) PROVE Staged'
  <2>1. Moved(t) /\ UNCHANGED <<try, tree>>
    BY <1>0, <1>15, SendReplyLeg DEF SendReply, Elsewhere
  <2>2. leg'[t].snd # "blocks" \/ leg'[t].rcv \notin {"none", "head", "stage", "blocks"}
    BY <1>0, <1>15, SendReplyLeg DEF SendReply
  <2> QED BY <1>0, <2>1, <2>2, StagedLeg DEF Counted
<1>16. ASSUME NEW t \in Tries, DaemonFails(t) PROVE Staged'
  <2>1. Moved(t) /\ UNCHANGED <<try, tree>>
    BY <1>0, <1>16, DaemonFailsLeg DEF DaemonFails, Elsewhere
  <2>2. leg'[t].snd # "blocks" \/ leg'[t].rcv \notin {"none", "head", "stage", "blocks"}
    BY <1>0, <1>16, DaemonFailsLeg DEF DaemonFails
  <2> QED BY <1>0, <2>1, <2>2, StagedLeg DEF Counted
<1>17. ASSUME NEW t \in Tries, DaemonKilled(t) PROVE Staged'
  <2>1. Moved(t) /\ UNCHANGED <<try, tree>>
    BY <1>0, <1>17, DaemonKilledLeg DEF DaemonKilled, Elsewhere
  <2>2. leg'[t].snd # "blocks" \/ leg'[t].rcv \notin {"none", "head", "stage", "blocks"}
    <3>1. leg'[t].rcv \in {"killed", "gone"}
      BY <1>0, <1>17, DaemonKilledLeg
    <3> QED BY <3>1
  <2> QED BY <1>0, <2>1, <2>2, StagedLeg DEF Counted
<1>18. ASSUME NEW t \in Tries, LoseLink(t) PROVE Staged'
  <2>1. Moved(t) /\ UNCHANGED <<try, tree>>
    BY <1>0, <1>18, LoseLinkLeg DEF LoseLink, Elsewhere
  <2>2. ~Sound(t)
    <3>1. Begun(t)
      BY <1>0, <1>18, LegBegun DEF LoseLink
    <3> QED BY <1>0, <1>18, <3>1 DEF LoseLink, Up, Connected, Sound, Fresh, Begun,
           Transfers
  <2> QED BY <1>0, <2>1, <2>2, StagedLeg
<1>19. ASSUME UNCHANGED <<try, tree, leg>> PROVE Staged'
  BY <1>0, <1>19 DEF Staged, Sound, Counted
<1>20. ASSUME NEW w \in Transfers,
          \/ StartTransfer(w)
      PROVE  UNCHANGED <<try, tree, leg>>
  BY <1>20 DEF StartTransfer, Start, fileVars
<1>21. ASSUME
          \/ Edit \/ OtherCreates
      PROVE  UNCHANGED <<try, tree, leg>>
  BY <1>21 DEF Edit, OtherCreates, Elsewhere
<1>22. ASSUME UNCHANGED transferVars
      PROVE  UNCHANGED <<try, tree, leg>>
  BY <1>22 DEF fileVars, vars, transferVars
<1> QED BY <1>0, <1>1, <1>2, <1>3, <1>4, <1>5, <1>6, <1>7, <1>8, <1>9, <1>10, <1>11,
       <1>12,
           <1>13, <1>14, <1>15, <1>16, <1>17, <1>18, <1>19, <1>20, <1>21, <1>22
       DEF TransferNext, NearMoves, DaemonWorks, Tries, Apart, FileTypes

\* It is enough to look at the leg that moved for the receipts.
LEMMA ReceiptsLeg ==
  ASSUME FileTypes, Receipts, NEW t \in Tries, Moved(t), UNCHANGED dest, Kept(leg'[t])
  PROVE  Receipts'
<1>1. ASSUME NEW u \in Tries PROVE Kept(leg'[u])
  BY DEF Receipts, Moved
<1> QED BY <1>1 DEF Receipts, Kept, Vouched

\* A leg that goes on without a new receipt or reply keeps its promise.
LEMMA KeptOn ==
  ASSUME NEW l, NEW m, Kept(l), m.snd = l.snd, m.staged = l.staged, m.opened = l.opened,
         m.rcv = "publish" \/ (m.rcv = "blocks" /\ m.link = Receipt)
           => l.rcv = "publish" \/ (l.rcv = "blocks" /\ l.link = Receipt),
         m.rcv = "reply" \/ m.link = Reply => l.rcv = "reply" \/ l.link = Reply
  PROVE  Kept(m)
BY DEF Kept, Vouched

\* A side that is gone takes no promise with it.
LEMMA KeptWhenGone ==
  ASSUME NEW l, NEW m, Kept(l), m.link = l.link,
         \/ m.snd = "gone" /\ m.rcv = l.rcv /\ m.staged = l.staged
         \/ m.rcv = "gone" /\ m.snd = l.snd /\ m.opened = l.opened
         \/ m.snd = "gone" /\ m.rcv = "gone"
  PROVE  Kept(m)
BY DEF Kept, Vouched

\* Every step keeps what receipts vouch for.
LEMMA ReceiptsKept == Inv /\ [TransferNext]_transferVars => Receipts'
<1> SUFFICES ASSUME Inv, [TransferNext]_transferVars PROVE Receipts'
  OBVIOUS
<1>0. /\ JobInv /\ JobTypes /\ Stages /\ FileTypes /\ Fresh /\ Turns /\ Read /\ Staged
      /\ Receipts
  BY DEF Inv, FileInv, JobInv
<1>1. ASSUME CheckTransfer PROVE Receipts'
  <2>0. PICK t \in Tries : t = try
    BY <1>0 DEF FileTypes
  <2>1. leg[t].link = <<>> /\ leg[t].rcv = "none"
    BY <1>0, <1>1, <2>0 DEF CheckTransfer, At, Fresh, NoLeg
  <2>2. /\ Moved(t) \/ UNCHANGED leg
        /\ leg'[t].rcv \in {"none", "head", "stage"} /\ leg'[t].link = <<>>
    BY <1>0, <1>1, <2>0, <2>1, CheckLeg
  <2>3. UNCHANGED dest
    BY <1>1 DEF CheckTransfer
  <2>4. Kept(leg'[t])
    BY <2>2, WordsDiffer DEF Kept
  <2>5. CASE UNCHANGED leg
    BY <1>0, <2>3, <2>5 DEF Receipts, Kept, Vouched
  <2> QED BY <1>0, <2>2, <2>3, <2>4, <2>5, ReceiptsLeg
<1>2. ASSUME NearFails PROVE Receipts'
  <2>0. PICK t \in Tries : t = try
    BY <1>0 DEF FileTypes
  <2>1. Moved(t) /\ UNCHANGED dest /\ Kept(leg[t]) /\ Turn(leg[t])
    BY <1>0, <1>2, <2>0, NearFailsLeg DEF NearFails, Receipts, Turns
  <2>2. /\ leg'[t].link = leg[t].link
        /\ \/ leg'[t].snd = "gone" /\ leg'[t].rcv = leg[t].rcv /\ leg'[t].staged = leg[t].staged
           \/ leg'[t].rcv = "gone" /\ leg'[t].snd = leg[t].snd /\ leg'[t].opened = leg[t].opened
           \/ leg'[t].snd = "gone" /\ leg'[t].rcv = "gone"
    BY <1>0, <1>2, <2>0, NearFailsLeg
  <2>4. Kept(leg'[t])
    BY <2>1, <2>2, KeptWhenGone
  <2> QED BY <1>0, <2>1, <2>4, ReceiptsLeg
<1>3. ASSUME SourceOpens PROVE Receipts'
  <2>0. PICK t \in Tries : t = try
    BY <1>0 DEF FileTypes
  <2>1. Moved(t) /\ UNCHANGED dest /\ Kept(leg[t]) /\ Turn(leg[t])
    BY <1>0, <1>3, <2>0, SourceOpensLeg DEF SourceOpens, Receipts, Turns
  <2>2. leg'[t].rcv \in {"none", "head", "gone"} /\ leg'[t].link = Header
    BY <1>0, <1>3, <2>0, <2>1, SourceOpensLeg DEF SourceOpens, Turn
  <2>4. Kept(leg'[t])
    BY <2>2, WordsDiffer DEF Kept
  <2> QED BY <1>0, <2>1, <2>4, ReceiptsLeg
<1>4. ASSUME NEW t \in Tries, SendBlock(t) PROVE Receipts'
  <2>1. Moved(t) /\ UNCHANGED dest /\ Kept(leg[t]) /\ Turn(leg[t])
    BY <1>0, <1>4, SendBlockLeg DEF SendBlock, Receipts, Turns
  <2>2. /\ leg'[t].snd = leg[t].snd /\ leg'[t].staged = leg[t].staged
        /\ leg'[t].opened = leg[t].opened
    BY <1>0, <1>4, SendBlockLeg
  <2>3. leg'[t].rcv = leg[t].rcv /\ leg'[t].link \notin {Receipt, Reply}
    <3>1. src \in Nat
      BY <1>0, TransfersAssumption DEF FileTypes
    <3>2. leg'[t].link = <<src>> /\ leg'[t].rcv = leg[t].rcv
      BY <1>0, <1>4, SendBlockLeg
    <3> QED BY <3>1, <3>2, WordsDiffer
  <2>4. Kept(leg'[t])
    BY <2>1, <2>2, <2>3, KeptOn
  <2> QED BY <1>0, <2>1, <2>4, ReceiptsLeg
<1>5. ASSUME NEW t \in Tries, SendReceipt(t) PROVE Receipts'
  <2>1. Moved(t) /\ UNCHANGED dest /\ Turn(leg[t]) /\ Fetched(leg[t]) /\ leg[t] \in Legs
    BY <1>0, <1>5, SendReceiptLeg DEF SendReceipt, Turns, Read, FileTypes
  <2>2. /\ leg'[t].snd = "sent" /\ leg'[t].link = Receipt /\ leg'[t].rcv = leg[t].rcv
        /\ leg'[t].staged = leg[t].staged /\ leg'[t].opened = leg[t].opened
    BY <1>0, <1>5, SendReceiptLeg
  <2>3. /\ leg[t].snd = "blocks" /\ leg[t].link = <<>> /\ leg[t].sent = Blocks
        /\ src = leg[t].opened
    BY <1>5 DEF SendReceipt, CanSend
  <2>4. leg[t].rcv \notin {"publish", "reply"}
    BY <2>1, <2>3 DEF Turn
  <2>5. ASSUME leg[t].rcv = "blocks" PROVE leg[t].staged = Copy(leg[t].opened)
    <3>1. Sound(t)
      <4>1. CASE work = "copy"
        BY <1>0, <1>5, <4>1 DEF SendReceipt, CanSend, Proceeds, Acts, NearSends, Sound,
           Fresh
      <4>2. CASE work # "copy"
        BY <1>5, <4>2 DEF SendReceipt, CanSend, Up, Connected, Sound
      <4> QED BY <4>1, <4>2
    <3>2. leg[t].sent = Len(leg[t].staged)
      <4>1. Counted(leg[t]) /\ Len(leg[t].staged) \in Nat
        BY <1>0, <2>1, <3>1, LenProperties DEF Staged, Legs
      <4> QED BY <2>3, <2>5, <4>1, Words DEF Counted
    <3>3. leg[t].staged \in Seq(Int) /\ leg[t].opened \in Int
      BY <2>1 DEF Legs
    <3>4. ASSUME NEW k \in 1 .. Len(leg[t].staged) PROVE leg[t].staged[k] = leg[t].opened
      <4>1. leg[t].opened <= leg[t].staged[k] /\ leg[t].staged[k] <= leg[t].opened
        BY <2>1, <2>3 DEF Fetched
      <4>2. leg[t].staged[k] \in Int
        BY <3>3, ElementOfSeq
      <4> QED BY <3>3, <4>1, <4>2
    <3> QED BY <2>3, <3>2, <3>3, <3>4, AllOne
  <2>6. leg[t].opened \in 0 .. MaxEdits
    BY <1>0, <2>3 DEF FileTypes
  <2>7. Kept(leg'[t])
    BY <2>2, <2>4, <2>5, <2>6, WordsDiffer DEF Kept, Vouched
  <2> QED BY <1>0, <2>1, <2>7, ReceiptsLeg
<1>6. ASSUME TakeReply PROVE Receipts'
  <2>0. PICK t \in Tries : t = try
    BY <1>0 DEF FileTypes
  <2>1. Moved(t) /\ UNCHANGED dest /\ Kept(leg[t]) /\ Turn(leg[t])
    BY <1>0, <1>6, <2>0, TakeReplyLeg DEF TakeReply, Receipts, Turns
  <2>2. /\ leg'[t].snd = leg[t].snd /\ leg'[t].staged = leg[t].staged
        /\ leg'[t].opened = leg[t].opened
    BY <1>0, <1>6, <2>0, TakeReplyLeg
  <2>3. leg'[t].rcv = leg[t].rcv /\ leg'[t].link \notin {Receipt, Reply}
    BY <1>0, <1>6, <2>0, TakeReplyLeg, WordsDiffer
  <2>4. Kept(leg'[t])
    BY <2>1, <2>2, <2>3, KeptOn
  <2> QED BY <1>0, <2>1, <2>4, ReceiptsLeg
<1>7. ASSUME UploadStarts PROVE Receipts'
  <2>0. PICK t \in Tries : t = try
    BY <1>0 DEF FileTypes
  <2>1. Moved(t) /\ UNCHANGED dest /\ Kept(leg[t]) /\ Turn(leg[t])
    BY <1>0, <1>7, <2>0, UploadStartsLeg DEF UploadStarts, Receipts, Turns
  <2>2. /\ leg'[t].snd = leg[t].snd /\ leg'[t].staged = leg[t].staged
        /\ leg'[t].opened = leg[t].opened
    BY <1>0, <1>7, <2>0, UploadStartsLeg
  <2>3. leg'[t].rcv = "stage" /\ leg'[t].link = leg[t].link
    BY <1>0, <1>7, <2>0, UploadStartsLeg
  <2>4. Kept(leg'[t])
    BY <2>1, <2>2, <2>3, KeptOn
  <2> QED BY <1>0, <2>1, <2>4, ReceiptsLeg
<1>8. ASSUME TakeHeader PROVE Receipts'
  <2>0. PICK t \in Tries : t = try
    BY <1>0 DEF FileTypes
  <2>1. Moved(t) /\ UNCHANGED dest /\ Kept(leg[t]) /\ Turn(leg[t])
    BY <1>0, <1>8, <2>0, TakeHeaderLeg DEF TakeHeader, Receipts, Turns
  <2>2. /\ leg'[t].snd = leg[t].snd /\ leg'[t].staged = leg[t].staged
        /\ leg'[t].opened = leg[t].opened
    BY <1>0, <1>8, <2>0, TakeHeaderLeg
  <2>3. leg'[t].rcv = "stage" /\ leg'[t].link \notin {Receipt, Reply}
    BY <1>0, <1>8, <2>0, TakeHeaderLeg, WordsDiffer
  <2>4. Kept(leg'[t])
    BY <2>1, <2>2, <2>3, KeptOn
  <2> QED BY <1>0, <2>1, <2>4, ReceiptsLeg
<1>9. ASSUME NEW t \in Tries, Stage(t) PROVE Receipts'
  <2>1. Moved(t) /\ UNCHANGED dest /\ Kept(leg[t]) /\ Turn(leg[t])
    BY <1>0, <1>9, StageLeg DEF Stage, Receipts, Turns
  <2>2. /\ leg'[t].snd = leg[t].snd /\ leg'[t].staged = leg[t].staged
        /\ leg'[t].opened = leg[t].opened
    BY <1>0, <1>9, StageLeg
  <2>3. /\ leg'[t].rcv = "blocks" /\ leg'[t].link = leg[t].link
        /\ leg[t].link \notin {Receipt, Reply}
    BY <1>0, <1>9, <2>1, StageLeg DEF Stage, Turn
  <2>4. Kept(leg'[t])
    BY <2>1, <2>2, <2>3, KeptOn
  <2> QED BY <1>0, <2>1, <2>4, ReceiptsLeg
<1>10. ASSUME NEW t \in Tries, TakeBlock(t) PROVE Receipts'
  <2>1. Moved(t) /\ UNCHANGED dest /\ Kept(leg[t]) /\ Turn(leg[t])
    BY <1>0, <1>10, TakeBlockLeg DEF TakeBlock, Receipts, Turns
  <2>2. leg'[t].rcv = "blocks" /\ leg'[t].link = <<>>
    BY <1>0, <1>10, TakeBlockLeg DEF TakeBlock
  <2>4. Kept(leg'[t])
    BY <2>2, WordsDiffer DEF Kept
  <2> QED BY <1>0, <2>1, <2>4, ReceiptsLeg
<1>11. ASSUME NEW t \in Tries, TakeReceipt(t) PROVE Receipts'
  <2>1. Moved(t) /\ UNCHANGED dest /\ Kept(leg[t]) /\ Turn(leg[t])
    BY <1>0, <1>11, TakeReceiptLeg DEF TakeReceipt, Receipts, Turns
  <2>2. /\ leg'[t].snd = leg[t].snd /\ leg'[t].staged = leg[t].staged
        /\ leg'[t].opened = leg[t].opened
    BY <1>0, <1>11, TakeReceiptLeg
  <2>3. /\ leg'[t].rcv = "publish" /\ leg'[t].link \notin {Receipt, Reply}
        /\ leg[t].rcv = "blocks" /\ leg[t].link = Receipt
    BY <1>0, <1>11, TakeReceiptLeg, WordsDiffer DEF TakeReceipt
  <2>4. Kept(leg'[t])
    BY <2>1, <2>2, <2>3, KeptOn
  <2> QED BY <1>0, <2>1, <2>4, ReceiptsLeg
<1>12. ASSUME NEW t \in Tries, Publish(t) PROVE Receipts'
  <2>1. dest = <<>> /\ dest' = leg[t].staged /\ Moved(t) /\ leg[t].rcv = "publish"
    BY <1>0, <1>12, PublishLeg DEF Publish
  <2>2. ASSUME NEW u \in Tries, leg[u].snd = "sent",
               leg[u].rcv = "reply" \/ leg[u].link = Reply
        PROVE  FALSE
    <3>1. dest = Copy(leg[u].opened) /\ leg[u].opened \in Int
      BY <1>0, <2>2 DEF Receipts, Kept, FileTypes, Legs
    <3> QED BY <2>1, <3>1, CopyWhole
  <2>3. Kept(leg[t]) /\ Turn(leg[t])
    BY <1>0 DEF Receipts, Turns
  <2>4. leg'[t].rcv \in {"gone", "reply"} /\ leg'[t].link \notin {Receipt, Reply}
    <3>1. leg[t].link \notin {Receipt, Reply}
      BY <2>1, <2>3 DEF Turn
    <3> QED BY <1>0, <1>12, <3>1, PublishLeg
  <2>5. leg'[t].snd = "sent" => dest' = Copy(leg'[t].opened)
    BY <1>0, <1>12, <2>1, <2>3, PublishLeg DEF Kept, Vouched
  <2>6. Kept(leg[t])'
    BY <2>4, <2>5 DEF Kept
  <2>7. ASSUME NEW u \in Tries, u # t PROVE Kept(leg[u])'
    BY <1>0, <2>1, <2>2, <2>7 DEF Receipts, Kept, Vouched, Moved
  <2> QED BY <2>6, <2>7 DEF Receipts
<1>13. ASSUME NEW t \in Tries, SendReply(t) PROVE Receipts'
  <2>1. Moved(t) /\ UNCHANGED dest /\ Kept(leg[t]) /\ Turn(leg[t])
    BY <1>0, <1>13, SendReplyLeg DEF SendReply, Receipts, Turns
  <2>2. /\ leg'[t].snd = leg[t].snd /\ leg'[t].staged = leg[t].staged
        /\ leg'[t].opened = leg[t].opened
    BY <1>0, <1>13, SendReplyLeg
  <2>3. leg'[t].rcv = "gone" /\ leg[t].rcv = "reply"
    BY <1>0, <1>13, SendReplyLeg DEF SendReply
  <2>4. Kept(leg'[t])
    BY <2>1, <2>2, <2>3, KeptOn
  <2> QED BY <1>0, <2>1, <2>4, ReceiptsLeg
<1>14. ASSUME NEW t \in Tries, DaemonFails(t) PROVE Receipts'
  <2>1. Moved(t) /\ UNCHANGED dest /\ Kept(leg[t]) /\ Turn(leg[t])
    BY <1>0, <1>14, DaemonFailsLeg DEF DaemonFails, Receipts, Turns
  <2>2. /\ leg'[t].link = leg[t].link
        /\ \/ leg'[t].snd = "gone" /\ leg'[t].rcv = leg[t].rcv /\ leg'[t].staged = leg[t].staged
           \/ leg'[t].rcv = "gone" /\ leg'[t].snd = leg[t].snd /\ leg'[t].opened = leg[t].opened
           \/ leg'[t].snd = "gone" /\ leg'[t].rcv = "gone"
    BY <1>0, <1>14, DaemonFailsLeg
  <2>4. Kept(leg'[t])
    BY <2>1, <2>2, KeptWhenGone
  <2> QED BY <1>0, <2>1, <2>4, ReceiptsLeg
<1>15. ASSUME NEW t \in Tries, DaemonKilled(t) PROVE Receipts'
  <2>1. Moved(t) /\ UNCHANGED dest /\ Kept(leg[t]) /\ Turn(leg[t])
    BY <1>0, <1>15, DaemonKilledLeg DEF DaemonKilled, Receipts, Turns
  <2>2. leg'[t].rcv \in {"killed", "gone"}
    BY <1>0, <1>15, DaemonKilledLeg
  <2>3. leg'[t].link # Reply
    BY <1>0, <1>15, <2>1, DaemonKilledLeg DEF DaemonKilled, Turn
  <2>4. Kept(leg'[t])
    BY <2>2, <2>3 DEF Kept
  <2> QED BY <1>0, <2>1, <2>4, ReceiptsLeg
<1>16. ASSUME NEW t \in Tries, LoseLink(t) PROVE Receipts'
  <2>1. Moved(t) /\ UNCHANGED dest /\ Kept(leg[t]) /\ Turn(leg[t])
    BY <1>0, <1>16, LoseLinkLeg DEF LoseLink, Receipts, Turns
  <2>2. /\ leg'[t].snd = leg[t].snd /\ leg'[t].staged = leg[t].staged
        /\ leg'[t].opened = leg[t].opened
    BY <1>0, <1>16, LoseLinkLeg
  <2>3. leg'[t].rcv = leg[t].rcv /\ leg'[t].link \notin {Receipt, Reply}
    BY <1>0, <1>16, LoseLinkLeg, WordsDiffer
  <2>4. Kept(leg'[t])
    BY <2>1, <2>2, <2>3, KeptOn
  <2> QED BY <1>0, <2>1, <2>4, ReceiptsLeg
<1>17. ASSUME OtherCreates PROVE Receipts'
  <2>1. dest = <<>> /\ UNCHANGED leg
    BY <1>17 DEF OtherCreates
  <2>2. ASSUME NEW u \in Tries, leg[u].snd = "sent",
               leg[u].rcv = "reply" \/ leg[u].link = Reply
        PROVE  FALSE
    <3>1. dest = Copy(leg[u].opened) /\ leg[u].opened \in Int
      BY <1>0, <2>2 DEF Receipts, Kept, FileTypes, Legs
    <3> QED BY <2>1, <3>1, CopyWhole
  <2> QED BY <1>0, <2>1, <2>2 DEF Receipts, Kept, Vouched
<1>18. ASSUME UNCHANGED <<leg, dest>> PROVE Receipts'
  BY <1>0, <1>18 DEF Receipts, Kept, Vouched
<1>19. ASSUME
          \/ Apart \/ Retry \/ Edit
      PROVE  UNCHANGED <<leg, dest>>
  BY <1>19 DEF Apart, Retry, Edit, fileVars, Elsewhere
<1>20. ASSUME NEW w \in Transfers,
          \/ StartTransfer(w)
      PROVE  UNCHANGED <<leg, dest>>
  BY <1>20 DEF StartTransfer, Start, fileVars
<1>21. ASSUME UNCHANGED transferVars
      PROVE  UNCHANGED <<leg, dest>>
  BY <1>21 DEF fileVars, vars, transferVars
<1> QED BY <1>0, <1>1, <1>2, <1>3, <1>4, <1>5, <1>6, <1>7, <1>8, <1>9, <1>10, <1>11,
       <1>12,
           <1>13, <1>14, <1>15, <1>16, <1>17, <1>18, <1>19, <1>20, <1>21
       DEF TransferNext, NearMoves, DaemonWorks, Tries, Apart, FileTypes

\* A leg that moves, and keeps what it sent, leaves a success what it was.
LEMMA PublishedLeg ==
  ASSUME FileTypes, Published, NEW t \in Tries, Moved(t),
         UNCHANGED <<status, work, try, step, verdict, dest>>,
         leg[t].snd = "sent" => leg'[t].snd = "sent" /\ leg'[t].opened = leg[t].opened
  PROVE  Published'
<1>1. Succeeds' = Succeeds
  BY DEF Succeeds
<1>2. leg[try].snd = "sent" => leg'[try].snd = "sent" /\ leg'[try].opened = leg[try].opened
  BY DEF Moved, FileTypes
<1> QED BY <1>1, <1>2 DEF Published

\* Every step keeps what a success means.
LEMMA PublishedKept == Inv /\ [TransferNext]_transferVars => Published'
<1> SUFFICES ASSUME Inv, [TransferNext]_transferVars PROVE Published'
  OBVIOUS
<1>0. JobInv /\ JobTypes /\ Stages /\ FileTypes /\ Turns /\ Receipts /\ Published
  BY DEF Inv, FileInv, JobInv
<1>1. ASSUME Apart PROVE Published'
  <2>1. Succeeds' => Succeeds
    BY <1>0, <1>1, NearSeen DEF Apart, NearView, Succeeds, Programs, Transfers
  <2>2. UNCHANGED <<dest, leg, try>>
    BY <1>1 DEF Apart, fileVars
  <2> QED BY <1>0, <2>1, <2>2 DEF Published
<1>2. ASSUME NEW w \in Transfers, StartTransfer(w) PROVE Published'
  <2>1. ~Succeeds' /\ UNCHANGED dest
    BY <1>0, <1>2 DEF StartTransfer, Start, fileVars, Succeeds, JobTypes, Jobs, Stages,
       Finished
  <2> QED BY <1>0, <2>1 DEF Published
<1>3. ASSUME Retry PROVE Published'
  <2>1. ~Succeeds' /\ UNCHANGED dest
    BY <1>0, <1>3 DEF Retry, Succeeds, JobTypes, Jobs, Stages, Finished
  <2> QED BY <1>0, <2>1 DEF Published
<1>4. ASSUME CheckTransfer PROVE Published'
  <2>1. ~Succeeds' /\ UNCHANGED dest
    BY <1>0, <1>4 DEF CheckTransfer, At, Goes, Succeeds, JobTypes, Jobs, Stages, Finished
  <2> QED BY <1>0, <2>1 DEF Published
<1>5. ASSUME NearFails PROVE Published'
  <2>1. ~Succeeds' /\ UNCHANGED dest
    BY <1>0, <1>5 DEF NearFails, InBody, At, NearEnds, Goes, Elsewhere, Succeeds,
       JobTypes, Jobs, Stages, Finished
  <2> QED BY <1>0, <2>1 DEF Published
<1>6. ASSUME SourceOpens PROVE Published'
  <2>0. PICK t \in Tries : t = try
    BY <1>0 DEF FileTypes
  <2>1. Moved(t) /\ UNCHANGED <<status, work, try, step, verdict, dest>>
    BY <1>0, <1>6, <2>0, SourceOpensLeg DEF SourceOpens, Elsewhere
  <2>2. leg[t].snd = "sent" => leg'[t].snd = "sent" /\ leg'[t].opened = leg[t].opened
    BY <1>0, <1>6, <2>0, SourceOpensLeg DEF SourceOpens
  <2> QED BY <1>0, <2>1, <2>2, PublishedLeg
<1>7. ASSUME NEW t \in Tries, SendBlock(t) PROVE Published'
  <2>1. Moved(t) /\ UNCHANGED <<status, work, try, step, verdict, dest>>
    BY <1>0, <1>7, SendBlockLeg DEF SendBlock, Elsewhere
  <2>2. leg[t].snd = "sent" => leg'[t].snd = "sent" /\ leg'[t].opened = leg[t].opened
    BY <1>0, <1>7, SendBlockLeg DEF SendBlock, CanSend
  <2> QED BY <1>0, <2>1, <2>2, PublishedLeg
<1>8. ASSUME NEW t \in Tries, SendReceipt(t) PROVE Published'
  <2>1. Moved(t) /\ UNCHANGED <<status, work, try, step, verdict, dest>>
    BY <1>0, <1>8, SendReceiptLeg DEF SendReceipt, Elsewhere
  <2>2. leg[t].snd = "sent" => leg'[t].snd = "sent" /\ leg'[t].opened = leg[t].opened
    BY <1>0, <1>8, SendReceiptLeg DEF SendReceipt, CanSend
  <2> QED BY <1>0, <2>1, <2>2, PublishedLeg
<1>9. ASSUME TakeReply PROVE Published'
  <2>1. /\ UNCHANGED <<dest, try>> /\ leg[try].snd = "sent" /\ leg[try].link = Reply
        /\ try \in Tries
    BY <1>0, <1>9 DEF TakeReply, Elsewhere, FileTypes
  <2>2. dest = Copy(leg[try].opened)
    BY <1>0, <2>1 DEF Receipts, Kept
  <2>3. leg'[try].snd = "sent" /\ leg'[try].opened = leg[try].opened
    BY <1>0, <1>9, <2>1, TakeReplyLeg
  <2> QED BY <1>0, <2>1, <2>2, <2>3 DEF Published
<1>10. ASSUME UploadStarts PROVE Published'
  <2>0. PICK t \in Tries : t = try
    BY <1>0 DEF FileTypes
  <2>1. Moved(t) /\ UNCHANGED <<status, work, try, step, verdict, dest>>
    BY <1>0, <1>10, <2>0, UploadStartsLeg DEF UploadStarts, Elsewhere
  <2>2. leg[t].snd = "sent" => leg'[t].snd = "sent" /\ leg'[t].opened = leg[t].opened
    BY <1>0, <1>10, <2>0, UploadStartsLeg DEF UploadStarts
  <2> QED BY <1>0, <2>1, <2>2, PublishedLeg
<1>11. ASSUME TakeHeader PROVE Published'
  <2>0. PICK t \in Tries : t = try
    BY <1>0 DEF FileTypes
  <2>1. Moved(t) /\ UNCHANGED <<status, work, try, step, verdict, dest>>
    BY <1>0, <1>11, <2>0, TakeHeaderLeg DEF TakeHeader, Elsewhere
  <2>2. leg[t].snd = "sent" => leg'[t].snd = "sent" /\ leg'[t].opened = leg[t].opened
    BY <1>0, <1>11, <2>0, TakeHeaderLeg DEF TakeHeader
  <2> QED BY <1>0, <2>1, <2>2, PublishedLeg
<1>12. ASSUME NEW t \in Tries, Stage(t) PROVE Published'
  <2>1. Moved(t) /\ UNCHANGED <<status, work, try, step, verdict, dest>>
    BY <1>0, <1>12, StageLeg DEF Stage, Elsewhere
  <2>2. leg[t].snd = "sent" => leg'[t].snd = "sent" /\ leg'[t].opened = leg[t].opened
    BY <1>0, <1>12, StageLeg DEF Stage
  <2> QED BY <1>0, <2>1, <2>2, PublishedLeg
<1>13. ASSUME NEW t \in Tries, TakeBlock(t) PROVE Published'
  <2>1. Moved(t) /\ UNCHANGED <<status, work, try, step, verdict, dest>>
    BY <1>0, <1>13, TakeBlockLeg DEF TakeBlock, Elsewhere
  <2>2. leg[t].snd = "sent" => leg'[t].snd = "sent" /\ leg'[t].opened = leg[t].opened
    BY <1>0, <1>13, TakeBlockLeg DEF TakeBlock
  <2> QED BY <1>0, <2>1, <2>2, PublishedLeg
<1>14. ASSUME NEW t \in Tries, TakeReceipt(t) PROVE Published'
  <2>1. Moved(t) /\ UNCHANGED <<status, work, try, step, verdict, dest>>
    BY <1>0, <1>14, TakeReceiptLeg DEF TakeReceipt, Elsewhere
  <2>2. leg[t].snd = "sent" => leg'[t].snd = "sent" /\ leg'[t].opened = leg[t].opened
    BY <1>0, <1>14, TakeReceiptLeg DEF TakeReceipt
  <2> QED BY <1>0, <2>1, <2>2, PublishedLeg
<1>15. ASSUME NEW t \in Tries, Publish(t) PROVE Published'
  <2>1. /\ dest = <<>> /\ dest' = leg[t].staged /\ Moved(t) /\ leg[t].rcv = "publish"
        /\ UNCHANGED <<try, work, status>>
    BY <1>0, <1>15, PublishLeg DEF Publish, Elsewhere
  <2>2. Vouched(leg[t]) /\ Turn(leg[t])
    BY <1>0, <2>1 DEF Receipts, Kept, Turns
  <2>3. ~Succeeds
    <3>1. SUFFICES ASSUME Succeeds PROVE FALSE
      OBVIOUS
    <3>2. dest = Copy(leg[try].opened) /\ leg[try].opened \in Int
      BY <1>0, <3>1 DEF Published, FileTypes, Legs
    <3> QED BY <2>1, <3>2, CopyWhole
  <2>4. CASE NearReceives
    <3>1. t = try /\ leg[t].snd = "sent"
      BY <1>15, <2>1, <2>2, <2>4 DEF Publish, Acts, NearReceives, Turn
    <3>2. leg'[t].snd = "sent" /\ leg'[t].opened = leg[t].opened
      BY <1>0, <1>15, <3>1, PublishLeg
    <3>3. dest' = Copy(leg'[t].opened)
      BY <2>1, <2>2, <3>1, <3>2 DEF Vouched
    <3> QED BY <2>1, <2>2, <3>1, <3>2, <3>3 DEF Published, Vouched
  <2>5. CASE ~NearReceives
    <3>1. ~Succeeds'
      BY <1>15, <2>1, <2>3, <2>5 DEF Publish, Succeeds
    <3> QED BY <2>1, <2>2, <3>1 DEF Published, Vouched
  <2> QED BY <2>4, <2>5
<1>16. ASSUME NEW t \in Tries, SendReply(t) PROVE Published'
  <2>1. Moved(t) /\ UNCHANGED <<status, work, try, step, verdict, dest>>
    BY <1>0, <1>16, SendReplyLeg DEF SendReply, Elsewhere
  <2>2. leg[t].snd = "sent" => leg'[t].snd = "sent" /\ leg'[t].opened = leg[t].opened
    BY <1>0, <1>16, SendReplyLeg DEF SendReply
  <2> QED BY <1>0, <2>1, <2>2, PublishedLeg
<1>17. ASSUME NEW t \in Tries, DaemonFails(t) PROVE Published'
  <2>1. Moved(t) /\ UNCHANGED <<status, work, try, step, verdict, dest>>
    BY <1>0, <1>17, DaemonFailsLeg DEF DaemonFails, Elsewhere
  <2>2. leg[t].snd = "sent" => leg'[t].snd = "sent" /\ leg'[t].opened = leg[t].opened
    BY <1>0, <1>17, DaemonFailsLeg DEF DaemonFails
  <2> QED BY <1>0, <2>1, <2>2, PublishedLeg
<1>18. ASSUME NEW t \in Tries, DaemonKilled(t) PROVE Published'
  <2>1. Moved(t) /\ UNCHANGED <<status, work, try, step, verdict, dest>>
    BY <1>0, <1>18, DaemonKilledLeg DEF DaemonKilled, Elsewhere
  <2>2. leg[t].snd = "sent" => leg'[t].snd = "sent" /\ leg'[t].opened = leg[t].opened
    BY <1>0, <1>18, DaemonKilledLeg DEF DaemonKilled
  <2> QED BY <1>0, <2>1, <2>2, PublishedLeg
<1>19. ASSUME NEW t \in Tries, LoseLink(t) PROVE Published'
  <2>1. Moved(t) /\ UNCHANGED <<status, work, try, step, verdict, dest>>
    BY <1>0, <1>19, LoseLinkLeg DEF LoseLink, Elsewhere
  <2>2. leg[t].snd = "sent" => leg'[t].snd = "sent" /\ leg'[t].opened = leg[t].opened
    BY <1>0, <1>19, LoseLinkLeg DEF LoseLink
  <2> QED BY <1>0, <2>1, <2>2, PublishedLeg
<1>20. ASSUME OtherCreates PROVE Published'
  <2>1. dest = <<>> /\ dest' = Foreign /\ UNCHANGED <<status, work, step, verdict>>
    BY <1>20 DEF OtherCreates, Elsewhere
  <2>2. ~Succeeds
    <3>1. SUFFICES ASSUME Succeeds PROVE FALSE
      OBVIOUS
    <3>2. dest = Copy(leg[try].opened) /\ leg[try].opened \in Int
      BY <1>0, <3>1 DEF Published, FileTypes, Legs
    <3> QED BY <2>1, <3>2, CopyWhole
  <2>3. ~Succeeds'
    BY <2>1, <2>2 DEF Succeeds
  <2> QED BY <2>1, <2>3 DEF Published
<1>21. ASSUME UNCHANGED <<status, work, try, step, verdict, leg, dest>> PROVE Published'
  BY <1>0, <1>21 DEF Published, Succeeds
<1>22. ASSUME
          \/ Edit
      PROVE  UNCHANGED <<status, work, try, step, verdict, leg, dest>>
  BY <1>22 DEF Edit, Elsewhere
<1>23. ASSUME UNCHANGED transferVars
      PROVE  UNCHANGED <<status, work, try, step, verdict, leg, dest>>
  BY <1>23 DEF fileVars, vars, transferVars
<1> QED BY <1>0, <1>1, <1>2, <1>3, <1>4, <1>5, <1>6, <1>7, <1>8, <1>9, <1>10, <1>11,
       <1>12,
           <1>13, <1>14, <1>15, <1>16, <1>17, <1>18, <1>19, <1>20, <1>21, <1>22, <1>23
       DEF TransferNext, NearMoves, DaemonWorks, Tries, Apart, FileTypes

--------------------------------------------------------------------------------
(* The theorems *)

\* The first state of the jobs.
LEMMA FirstJobs == TransferInit => JobInv
<1> SUFFICES ASSUME TransferInit PROVE JobInv
  OBVIOUS
<1>0. Init /\ <<>> \in Seq(Nat) /\ <<>> \in Seq(Batches) /\ Len(<<>>) = 0
  BY EmptySeq DEF TransferInit
<1>1. JobTypes /\ PlanTypes
  BY <1>0 DEF Init, JobTypes, PlanTypes, Jobs, Statuses, Steps, Trees, Works, Programs
<1>2. StreamTypes
  BY <1>0, JobsAssumption DEF Init, StreamTypes, Jobs
<1>3. Stages
  BY <1>0 DEF Init, Stages, Jobs, Unspawned, Guarded, Copies, Finished, Runs
<1>4. DaemonsJob /\ Cancelled /\ Retired
  BY <1>0 DEF Init, DaemonsJob, Cancelled, Retired, Jobs, Unspawned, Finished
<1>5. Recorded
  BY <1>0 DEF Init, Recorded, Numbered, Jobs, Unspawned, Runs
<1>6. Relayed /\ Reported
  BY <1>0 DEF Init, Relayed, Reported, Jobs, Connected
<1> QED BY <1>1, <1>2, <1>3, <1>4, <1>5, <1>6 DEF JobInv

\* The first state of the files.
LEMMA FirstFiles == TransferInit => FileInv
<1> SUFFICES ASSUME TransferInit PROVE FileInv
  OBVIOUS
<1>0. /\ step["near"] = "none" /\ tree["near"] = "none" /\ status["near"] = "absent"
      /\ work = "here" /\ src = 0 /\ dest = <<>> /\ try = 1
      /\ leg = [t \in Tries |-> NoLeg]
  BY DEF TransferInit, Init, Jobs, Tries
<1>1. /\ NoLeg.snd = "none" /\ NoLeg.rcv = "none" /\ NoLeg.link = <<>> /\ NoLeg.sent = 0
      /\ NoLeg.opened = 0 /\ NoLeg.staged = <<>> /\ ~NoLeg.tmp
  BY DEF NoLeg
<1>2. Len(<<>>) = 0 /\ <<>> \in Seq(Int) /\ NoLeg \in Legs
  BY Words DEF NoLeg, Legs, Senders, Receivers
<1>3. FileTypes
  BY <1>0, <1>2, TransfersAssumption DEF FileTypes, Tries
<1>4. Fresh
  BY <1>0, TransfersAssumption DEF Fresh, Transfers, Tries, Underway
<1>5. Turn(NoLeg) /\ Counted(NoLeg) /\ Kept(NoLeg)
  BY <1>1, WordsDiffer DEF Turn, Counted, Kept
<1>6. Fetched(NoLeg)
  BY <1>0, <1>1, <1>2, Words, TransfersAssumption DEF Fetched
<1>7. Turns /\ Read /\ Staged /\ Receipts
  BY <1>0, <1>5, <1>6 DEF Turns, Read, Staged, Receipts
<1>8. Published
  BY <1>0 DEF Published, Succeeds, Transfers
<1> QED BY <1>3, <1>4, <1>7, <1>8 DEF FileInv

\* Inv holds in every reachable state.
THEOREM Inductive == TransferSpec => []Inv
<1>1. TransferInit => Inv
  BY FirstJobs, FirstFiles DEF Inv
<1>2. Inv /\ [TransferNext]_transferVars => Inv'
  <2> SUFFICES ASSUME Inv, [TransferNext]_transferVars PROVE Inv'
    OBVIOUS
  <2>1. JobInv /\ [JobNext]_vars
    BY JobView DEF Inv
  <2>2. JobInv'
    BY <2>1, JobTypesKept, PlanTypesKept, StreamTypesKept, StagesKept, DaemonsJobKept,
       CancelledKept, RetiredKept, RecordedKept, RelayedKept, ReportedKept DEF JobInv
  <2>3. FileInv'
    BY FileTypesKept, FreshKept, TurnsKept, ReadKept, StagedKept, ReceiptsKept,
       PublishedKept
       DEF FileInv
  <2> QED BY <2>2, <2>3 DEF Inv
<1> QED BY <1>1, <1>2, PTL DEF TransferSpec

\* A job that says it is over has left no process, here or on the other host: its
\* tree is reaped with all descendants; a daemon that ends leaves no program but one
\* that was being spawned; and retire() leaves no job that nobody cancelled
\* (jobs.rs, execute.rs and relay.rs), whatever is retried or transferred.
THEOREM JobsLeaveNothing == TransferSpec => []NothingLeft
<1>1. ASSUME Inv PROVE NothingLeft
  <2>1. JobTypes /\ PlanTypes /\ StreamTypes /\ Stages /\ Cancelled /\ Retired
    BY <1>1 DEF Inv, JobInv
  <2>2. TypeOK
    BY <2>1 DEF TypeOK, JobTypes, PlanTypes, StreamTypes, Statuses, Steps, Trees
  <2>3. \A j \in Jobs : Finished(j) => tree[j] \in {"none", "reaped"}
    BY <2>1 DEF Stages
  <2> QED BY <2>1, <2>2, <2>3 DEF NothingLeft, Cancelled, Retired
<1> QED BY <1>1, Inductive, PTL

\* A job holds what its program wrote, in order and without a gap, and reports an
\* exit only with all of it and with the program ended (Output, relay_output and the
\* daemon's batches), for any retention and read limit.
THEOREM OutputIsExact == TransferSpec => []OutputExact
<1>1. ASSUME Inv PROVE OutputExact
  <2>1. /\ JobTypes /\ PlanTypes /\ StreamTypes /\ Stages /\ Recorded /\ Reported
    BY <1>1 DEF Inv, JobInv
  <2>2. ASSUME NEW j \in Jobs PROVE out[j] = [k \in 1 .. Len(out[j]) |-> k]
    <3>1. out[j] \in Seq(Nat) /\ Numbered(out[j], 0)
      BY <2>1 DEF StreamTypes, Recorded
    <3>2. DOMAIN out[j] = 1 .. Len(out[j]) /\ out[j] = [k \in DOMAIN out[j] |-> out[j][k]]
      BY <3>1, LenProperties
    <3>3. \A k \in 1 .. Len(out[j]) : out[j][k] = k
      BY <3>1 DEF Numbered
    <3> QED BY <3>2, <3>3
  <2>3. ASSUME status["near"] = "exited"
        PROVE  Len(out["near"]) = made /\ ~ProgramAlive
    <3>1. step["near"] = "done" /\ tree["near"] \in {"none", "reaped"}
      BY <2>1, <2>3 DEF Stages, Jobs, Finished
    <3>2. CASE work = "here"
      BY <2>1, <2>3, <3>1, <3>2 DEF Recorded, Jobs, Runs, ProgramAlive, Alive
    <3>3. CASE work = "there"
      <4>1. status["far"] = "exited" /\ Len(out["near"]) = made
        BY <2>1, <2>3, <3>3 DEF Reported
      <4>2. tree["far"] \in {"none", "reaped"}
        BY <2>1, <4>1 DEF Stages, Jobs, Finished
      <4> QED BY <3>3, <4>1, <4>2 DEF ProgramAlive, Jobs, Runs, Alive
    <3>4. CASE work \notin Programs
      <4>1. made = 0 /\ out["near"] = <<>> /\ Len(<<>>) = 0
        BY <2>1, <3>4 DEF Recorded
      <4> QED BY <3>4, <4>1 DEF ProgramAlive, Runs, Programs
    <3> QED BY <3>2, <3>3, <3>4 DEF Programs
  <2> QED BY <2>2, <2>3 DEF OutputExact
<1> QED BY <1>1, Inductive, PTL

\* What a destination holds is there to stay.
LEMMA DestinationStays == [TransferNext]_transferVars => dest = <<>> \/ UNCHANGED dest
<1> SUFFICES ASSUME [TransferNext]_transferVars, dest # <<>> PROVE UNCHANGED dest
  OBVIOUS
<1>1. ASSUME NEW w \in Transfers, StartTransfer(w) PROVE UNCHANGED dest
  BY <1>1 DEF StartTransfer, fileVars
<1>2. ASSUME \/ Apart \/ Retry \/ CheckTransfer \/ NearFails \/ SourceOpens \/ TakeReply
             \/ UploadStarts \/ TakeHeader \/ Edit
      PROVE  UNCHANGED dest
  BY <1>2 DEF Apart, Retry, CheckTransfer, NearFails, SourceOpens, TakeReply,
     UploadStarts,
     TakeHeader, Edit, fileVars
<1>3. ASSUME NEW t, \/ SendBlock(t) \/ SendReceipt(t) \/ Stage(t) \/ TakeBlock(t)
                   \/ TakeReceipt(t) \/ SendReply(t) \/ DaemonFails(t) \/ DaemonKilled(t)
                   \/ LoseLink(t)
      PROVE  UNCHANGED dest
  BY <1>3 DEF SendBlock, SendReceipt, Stage, TakeBlock, TakeReceipt, SendReply,
     DaemonFails,
     DaemonKilled, LoseLink
<1>4. ASSUME NEW t, Publish(t) PROVE FALSE
  BY <1>4 DEF Publish
<1>5. ASSUME OtherCreates PROVE FALSE
  BY <1>5 DEF OtherCreates
<1>6. ASSUME UNCHANGED transferVars PROVE UNCHANGED dest
  BY <1>6 DEF transferVars, fileVars
<1> QED BY <1>1, <1>2, <1>3, <1>4, <1>5, <1>6 DEF TransferNext, NearMoves, DaemonWorks,
       Apart

\* A transfer puts a whole copy of one version of its source at the destination or
\* nothing, never over a file that is there, has done so when it reports success, and
\* leaves no temporary file but that of a receiver that was killed (transfer.rs'
\* receive, persist_noclobber and unchanged), for any number of blocks, edits and tries.
THEOREM FilesAreWhole == TransferSpec => FilesWhole
<1> DEFINE Whole ==
      /\ dest \in {<<>>, Foreign} \cup {Copy(v) : v \in 0 .. MaxEdits}
      /\ work \in Transfers /\ status["near"] = "exited" => dest = Copy(leg[try].opened)
      /\ \A t \in 1 .. MaxTries :
           leg[t].tmp => leg[t].rcv \in {"blocks", "publish", "killed"}
<1>1. ASSUME Inv PROVE Whole
  <2>1. Published /\ Turns
    BY <1>1 DEF Inv, FileInv
  <2>2. \A t \in 1 .. MaxTries : leg[t].tmp => leg[t].rcv \in {"blocks", "publish", "killed"}
    BY <2>1 DEF Turns, Turn, Tries
  <2> QED BY <2>1, <2>2 DEF Published, Succeeds
<1>2. [TransferNext]_transferVars => [dest # <<>> => dest' = dest]_dest
  BY DestinationStays
<1> HIDE DEF Whole
<1>3. TransferSpec => []Whole /\ [][dest # <<>> => dest' = dest]_dest
  BY <1>1, <1>2, Inductive, PTL DEF TransferSpec
<1> QED BY <1>3, PTL DEF FilesWhole, Whole
================================================================================
