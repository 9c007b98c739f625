------------------------------ MODULE AppCommands ------------------------------
(***************************************************************************)
(* The window's side of a command: the mailbox other threads submit to     *)
(* (bootty-control/src/command/mailbox.rs), the frames that drain it, and  *)
(* the worker threads of the commands that outlive a frame                 *)
(* (bootty-ui/src/commands/runtime.rs).                                    *)
(*                                                                         *)
(* A command is dispatched in one of three ways: run at once on the        *)
(* window's thread; run by a worker (dispatch_committed_command, the mux   *)
(* client's jobs); or prepared by a worker and run by the frame that       *)
(* collects what it prepared (finish_link, finish_clipboard).  What it     *)
(* does and returns is left out, and so are the commands of the window's   *)
(* own keys, which have no response channel.  Senders keep their side of   *)
(* CommandLife: ControlTasks is one of them.                               *)
(***************************************************************************)
EXTENDS Naturals, Sequences, SequencesExt

CONSTANTS
  Ids,       \* commands
  Capacity,  \* app_command_channel's capacity
  Batch      \* requests a frame takes

ASSUME WindowAssumption == {Capacity, Batch} \subseteq Nat

VARIABLES
  token, response,  \* shared with the sender, as in CommandLife
  queue, open,      \* the mailbox
  owed,      \* senders between their submission and its wake
  wake,      \* a frame has been asked for
  phase,     \* of the window: idle, frame, then dropped, draining
  todo,      \* pending commands this frame has still to poll
  current,   \* the command running on the window's thread
  drained,   \* requests this frame took
  pending,   \* CommandRuntime::pending
  worker,    \* each pending command's worker thread
  result,    \* what that worker's channel holds
  late       \* commands past their deadline

lifeVars == <<token, response>>
boxVars == <<queue, open, owed>>
frameVars == <<phase, todo, current, drained, pending>>
vars == <<lifeVars, boxVars, wake, frameVars, worker, result, late>>

Life == INSTANCE CommandLife

----------------------------------------------------------------------------
(* Senders and time. *)

\* try_send: under the lock of `open`, so nothing joins a drained queue.
\* A full mailbox refuses (Overloaded), a closed one too (Shutdown).
Submit(i) ==
  /\ open /\ Len(queue) < Capacity
  /\ Life!Submit(i)
  /\ queue' = Append(queue, i)
  /\ owed' = owed \cup {i}
  /\ UNCHANGED <<open, wake, frameVars, worker, result, late>>

\* The wake follows outside the lock.
Wake(i) ==
  /\ i \in owed
  /\ owed' = owed \ {i}
  /\ wake' = TRUE
  /\ UNCHANGED <<lifeVars, queue, open, frameVars, worker, result, late>>

CancelBySender(i) ==
  /\ response[i] # "none"
  /\ Life!Cancel(i)
  /\ UNCHANGED <<boxVars, wake, frameVars, worker, result, late>>

Expire(i) ==
  /\ response[i] = "empty" /\ i \notin late
  /\ late' = late \cup {i}
  /\ UNCHANGED <<lifeVars, boxVars, wake, frameVars, worker, result>>

----------------------------------------------------------------------------
(* The worker of a pending command. *)

WorkerStep(i, from, to) == /\ worker[i] = from
                           /\ worker' = [worker EXCEPT ![i] = to]
Cancelled(i) == token' = [token EXCEPT ![i] = IF @ = "pending" THEN "cancelled" ELSE @]
Started(i) == /\ token[i] = "pending"
              /\ token' = [token EXCEPT ![i] = "started"]

Bug_WorkerBegins(i) ==
  /\ WorkerStep(i, "ready", "running")
  /\ i \notin late
  /\ token' = [token EXCEPT ![i] = "started"]
  /\ UNCHANGED <<response, boxVars, wake, frameVars, result, late>>

\* begin_synchronous_command: the worker must win the token in time.
WorkerBegins(i) ==
  /\ WorkerStep(i, "ready", "running")
  /\ i \notin late /\ Started(i)
  /\ UNCHANGED <<response, boxVars, wake, frameVars, result, late>>

\* A mux job past its deadline leaves the token alone (backend.rs, Job::run).
WorkerRefused(i) ==
  /\ WorkerStep(i, "ready", "sent")
  /\ \/ /\ token[i] = "cancelled"
        /\ result' = [result EXCEPT ![i] = "cancelled"]
        /\ UNCHANGED token
     \/ /\ token[i] = "pending" /\ i \in late
        /\ result' = [result EXCEPT ![i] = "exceeded"]
        /\ Cancelled(i) \/ UNCHANGED token
  /\ UNCHANGED <<response, boxVars, wake, frameVars, late>>

\* The work returns, or its thread dies and the channel closes.
WorkerEnds(i) ==
  /\ WorkerStep(i, "running", "sent")
  /\ result' = [result EXCEPT ![i] = "ended"]
  /\ UNCHANGED <<lifeVars, boxVars, wake, frameVars, late>>

WorkerPrepared(i) ==
  /\ WorkerStep(i, "preparing", "sent")
  /\ \E r \in {"prepared", "ended"} : result' = [result EXCEPT ![i] = r]
  /\ UNCHANGED <<lifeVars, boxVars, wake, frameVars, late>>

Bug_WorkerRepaints(i) ==
  /\ WorkerStep(i, "sent", "gone")
  /\ UNCHANGED <<lifeVars, boxVars, wake, frameVars, result, late>>

\* repaint() follows the send.
WorkerRepaints(i) ==
  /\ WorkerStep(i, "sent", "gone")
  /\ wake' = TRUE
  /\ UNCHANGED <<lifeVars, boxVars, frameVars, result, late>>

----------------------------------------------------------------------------
(* drain_app_commands, in a frame. *)

Respond(i, a) == response' = [response EXCEPT ![i] = a]

\* A frame, asked for or not, takes the pending commands to poll them.
Frame ==
  /\ phase = "idle"
  /\ phase' = "frame" /\ wake' = FALSE
  /\ todo' = pending /\ pending' = <<>>
  /\ UNCHANGED <<lifeVars, boxVars, current, drained, worker, result, late>>

Polling(i) == /\ phase = "frame" /\ current = {} /\ todo # <<>>
              /\ i = Head(todo) /\ todo' = Tail(todo)

\* cancellation_outcome
Stopped(i) == token[i] = "cancelled" \/ (token[i] = "pending" /\ i \in late)
Stop(i) == /\ Respond(i, IF token[i] = "cancelled" THEN "cancelled" ELSE "exceeded")
           /\ Cancelled(i)

PollStopped(i) ==
  /\ Polling(i) /\ Stopped(i) /\ Stop(i)
  /\ UNCHANGED <<boxVars, wake, phase, current, drained, pending, worker, result, late>>

Bug_PollWorking(i) ==
  /\ Polling(i) /\ ~Stopped(i) /\ result[i] = "empty"
  /\ UNCHANGED <<lifeVars, boxVars, wake, phase, current, drained, pending, worker,
                 result, late>>

PollWorking(i) ==
  /\ Polling(i) /\ ~Stopped(i) /\ result[i] = "empty"
  /\ pending' = Append(pending, i)
  /\ UNCHANGED <<lifeVars, boxVars, wake, phase, current, drained, worker, result, late>>

PollEnded(i) ==
  /\ Polling(i) /\ ~Stopped(i) /\ result[i] \notin {"empty", "prepared"}
  /\ Respond(i, result[i])
  /\ UNCHANGED <<token, boxVars, wake, phase, current, drained, pending, worker,
                 result, late>>

PollPrepared(i) ==
  /\ Polling(i) /\ ~Stopped(i) /\ result[i] = "prepared"
  /\ Started(i)
  /\ current' = {i}
  /\ UNCHANGED <<response, boxVars, wake, phase, drained, pending, worker, result, late>>

Taking(i) == /\ phase = "frame" /\ current = {} /\ todo = <<>>
             /\ drained < Batch /\ queue # <<>>
             /\ i = Head(queue) /\ queue' = Tail(queue) /\ drained' = drained + 1

TakeStopped(i) ==
  /\ Taking(i) /\ Stopped(i) /\ Stop(i)
  /\ UNCHANGED <<open, owed, wake, phase, todo, current, pending, worker, result, late>>

\* Unknown, or not possible now: answered without running.
TakeRejected(i) ==
  /\ Taking(i) /\ ~Stopped(i)
  /\ Respond(i, "ended")
  /\ UNCHANGED <<token, open, owed, wake, phase, todo, current, pending, worker,
                 result, late>>

TakeAndRun(i) ==
  /\ Taking(i) /\ ~Stopped(i)
  /\ Started(i)
  /\ current' = {i}
  /\ UNCHANGED <<response, open, owed, wake, phase, todo, pending, worker, result, late>>

TakeToWorker(i) ==
  /\ Taking(i) /\ ~Stopped(i)
  /\ \E w \in {"ready", "preparing"} : worker' = [worker EXCEPT ![i] = w]
  /\ result' = [result EXCEPT ![i] = "empty"]
  /\ pending' = Append(pending, i)
  /\ UNCHANGED <<lifeVars, open, owed, wake, phase, todo, current, late>>

Complete(i) ==
  /\ i \in current /\ current' = {}
  /\ Respond(i, "ended")
  /\ UNCHANGED <<token, boxVars, wake, phase, todo, drained, pending, worker, result,
                 late>>

Bug_EndFrame ==
  /\ phase = "frame" /\ current = {} /\ todo = <<>>
  /\ queue = <<>> \/ drained = Batch
  /\ phase' = "idle" /\ drained' = 0
  /\ UNCHANGED <<lifeVars, boxVars, wake, todo, current, pending, worker, result, late>>

\* A full batch asks for another frame.
EndFrame ==
  /\ phase = "frame" /\ current = {} /\ todo = <<>>
  /\ queue = <<>> \/ drained = Batch
  /\ phase' = "idle" /\ drained' = 0
  /\ wake' = (wake \/ drained = Batch)
  /\ UNCHANGED <<lifeVars, boxVars, todo, current, pending, worker, result, late>>

----------------------------------------------------------------------------
(* The window closes: CommandRuntime's drop cancels what is pending, the   *)
(* receiver's drop closes the mailbox and answers what it still holds, and *)
(* the response channels of the pending commands go with them.             *)

DropRuntime ==
  /\ phase = "idle"
  /\ phase' = "dropped"
  /\ token' = [i \in Ids |-> IF token[i] = "pending" /\ i \in ToSet(pending)
                             THEN "cancelled" ELSE token[i]]
  /\ UNCHANGED <<response, boxVars, wake, todo, current, drained, pending, worker,
                 result, late>>

CloseMailbox ==
  /\ phase = "dropped"
  /\ phase' = "draining" /\ open' = FALSE
  /\ UNCHANGED <<lifeVars, queue, owed, wake, todo, current, drained, pending, worker,
                 result, late>>

DrainMailbox ==
  /\ phase = "draining" /\ queue # <<>>
  /\ queue' = Tail(queue)
  /\ Respond(Head(queue), "shutdown")
  /\ UNCHANGED <<token, open, owed, wake, frameVars, worker, result, late>>

DropPending ==
  /\ phase = "draining" /\ queue = <<>> /\ pending # <<>>
  /\ pending' = Tail(pending)
  /\ Respond(Head(pending), "closed")
  /\ UNCHANGED <<token, boxVars, wake, phase, todo, current, drained, worker, result,
                 late>>

----------------------------------------------------------------------------
Init ==
  /\ Life!Init
  /\ queue = <<>> /\ open = TRUE /\ owed = {} /\ wake = FALSE
  /\ phase = "idle" /\ todo = <<>> /\ current = {} /\ drained = 0 /\ pending = <<>>
  /\ worker = [i \in Ids |-> "none"]
  /\ result = [i \in Ids |-> "none"]
  /\ late = {}

Threads(i) == \/ WorkerBegins(i) \/ WorkerRefused(i) \/ WorkerRepaints(i)

Window == \/ \E i \in Ids : \/ PollStopped(i) \/ PollWorking(i) \/ PollEnded(i)
                            \/ PollPrepared(i) \/ TakeStopped(i) \/ TakeRejected(i)
                            \/ TakeAndRun(i) \/ TakeToWorker(i) \/ Complete(i)
          \/ EndFrame \/ CloseMailbox \/ DrainMailbox \/ DropPending

Next == \/ \E i \in Ids : \/ Submit(i) \/ Wake(i) \/ CancelBySender(i) \/ Expire(i)
                          \/ Threads(i) \/ WorkerEnds(i) \/ WorkerPrepared(i)
        \/ Window \/ Frame \/ DropRuntime

Spec == Init /\ [][Next]_vars

\* Threads run and the window draws a frame it was asked for.  Nothing says
\* that a worker's command ever ends, or that a deadline passes.
Fairness ==
  /\ \A i \in Ids : WF_vars(Wake(i)) /\ WF_vars(Threads(i))
  /\ WF_vars(Window)
  /\ WF_vars(wake /\ Frame)

FairSpec == Spec /\ Fairness

----------------------------------------------------------------------------
\* Types; the mailbox and a frame's batch keep their limits.
TypeOK ==
  /\ token \in [Ids -> {"pending", "started", "cancelled"}]
  /\ response \in [Ids -> Life!Answers \cup {"none", "empty"}]
  /\ queue \in Seq(Ids) /\ Len(queue) <= Capacity
  /\ open \in BOOLEAN /\ wake \in BOOLEAN /\ owed \subseteq Ids
  /\ phase \in {"idle", "frame", "dropped", "draining"} /\ drained \in 0 .. Batch
  /\ todo \in Seq(Ids) /\ pending \in Seq(Ids) /\ current \subseteq Ids
  /\ worker \in [Ids -> {"none", "ready", "running", "preparing", "sent", "gone"}]
  /\ result \in [Ids -> Life!Answers \cup {"none", "empty", "prepared"}]
  /\ late \subseteq Ids

\* The window keeps its side of the contract with the senders: it starts a
\* command once, unanswered and not cancelled, answers it once, and what it
\* answers as stopped never runs.
KeepsContract == Life!Spec

\* A command in the window's hands is never forgotten: as long as it is
\* unanswered it is queued, pending, running, or about to be polled.
NothingLost ==
  \A i \in Ids : response[i] = "empty"
                   => i \in ToSet(queue \o todo \o pending) \cup current

\* Nothing that could move sleeps: while the window is idle, a queued command
\* or an uncollected result has a frame asked for or about to be.
NothingSleeps ==
  phase = "idle" /\ ~wake
    => /\ ToSet(queue) \subseteq owed
       /\ \A i \in ToSet(pending) : worker[i] # "gone"

\* No command is stranded in the window: lost, or asleep, or over a limit.
NothingStranded == TypeOK /\ NothingLost /\ NothingSleeps

\* A command whose work has ended, or that nobody began, is answered.
CommandsAnswered ==
  \A i \in Ids : response[i] = "empty" /\ worker[i] \notin {"running", "preparing"}
                   ~> response[i] # "empty" \/ worker[i] \in {"running", "preparing"}
================================================================================
