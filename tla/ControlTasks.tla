------------------------------ MODULE ControlTasks ------------------------------
(***************************************************************************)
(* Commands sent to the control socket, on the server's side: awaited by   *)
(* their connection (invoke_command, await_command) or detached as tasks   *)
(* (start_task, wait_for_task of bootty-control/src/server.rs, the table   *)
(* of state.rs).  The window is any that keeps the contract of CommandLife *)
(* (AppCommands shows that it does): it may refuse, start, answer late or  *)
(* never answer.  Each invocation is made once and its deadline is one     *)
(* event of time; what a command returns is left out.                      *)
(***************************************************************************)
EXTENDS Naturals, Sequences, FiniteSets

CONSTANTS
  Ids,        \* invocations
  MaxTasks    \* MAX_TASKS

ASSUME TasksAssumption == IsFiniteSet(Ids) /\ MaxTasks \in Nat \ {0}

VARIABLES
  table,      \* ControlState::tasks: each task's state, "none" when not there
  completed,  \* ControlState::completed_tasks, oldest first
  token,      \* the CommandCancellation of each invocation
  response,   \* its response channel
  call,       \* what its connection's handler does next
  waiter,     \* what the task's own thread does next
  found,      \* the outcome that handler or thread will report
  late,       \* invocations past their deadline
  published   \* history: completions published

lifeVars == <<token, response>>
vars == <<table, completed, lifeVars, call, waiter, found, late, published>>

Life == INSTANCE CommandLife

\* What is reported: an answer of the window, or an error of the server.
Outcomes == Life!Answers \cup {"none", "error"}
CallSteps == {"idle", "enqueue", "undo", "await", "report", "spawn", "fail",
              "read", "done", "unknown", "refused"}
WaiterSteps == {"none", "unborn", "look", "check", "again", "finish", "ended"}

----------------------------------------------------------------------------
(* CommandCancellation and ControlState's task table. *)

Bug_Cancelled(i) == token' = [token EXCEPT ![i] = "cancelled"]

\* cancel(): nothing happens to a token that is not pending.
Cancelled(i) == token' = [token EXCEPT ![i] = IF @ = "pending" THEN "cancelled" ELSE @]

Listed == {i \in Ids : table[i] # "none"}

Bug_Inserted(i) ==
  \/ /\ Cardinality(Listed) <= MaxTasks
     /\ table' = [table EXCEPT ![i] = "running"]
     /\ UNCHANGED completed
  \/ /\ Cardinality(Listed) > MaxTasks /\ completed # <<>>
     /\ table' = [j \in Ids |-> IF j = Head(completed) THEN "none"
                               ELSE IF j = i THEN "running" ELSE table[j]]
     /\ completed' = Tail(completed)

\* start_task: a full table forgets its oldest completed task.
Inserted(i) ==
  \/ /\ Cardinality(Listed) < MaxTasks
     /\ table' = [table EXCEPT ![i] = "running"]
     /\ UNCHANGED completed
  \/ /\ Cardinality(Listed) >= MaxTasks /\ completed # <<>>
     /\ table' = [j \in Ids |-> IF j = Head(completed) THEN "none"
                               ELSE IF j = i THEN "running" ELSE table[j]]
     /\ completed' = Tail(completed)

\* finish_task
Finished(i) ==
  \/ /\ table[i] \in {"running", "cancelling"}
     /\ table' = [table EXCEPT ![i] = "completed"]
     /\ completed' = Append(completed, i)
  \/ /\ table[i] \in {"none", "completed"}
     /\ UNCHANGED <<table, completed>>

Publish(i) == published' = [published EXCEPT ![i] = @ + 1]

----------------------------------------------------------------------------
(* The connection's handler. *)

Step(i, from, to) == /\ call[i] = from
                     /\ call' = [call EXCEPT ![i] = to]

Detached(i) == waiter[i] # "none"

\* invoke_command, detached: the task joins the table before its command is sent.
StartTask(i) ==
  /\ Step(i, "idle", "enqueue")
  /\ Inserted(i)
  /\ waiter' = [waiter EXCEPT ![i] = "unborn"]
  /\ UNCHANGED <<lifeVars, found, late, published>>

StartRefused(i) ==
  /\ Step(i, "idle", "refused")
  /\ Cardinality(Listed) >= MaxTasks /\ completed = <<>>
  /\ UNCHANGED <<table, completed, lifeVars, waiter, found, late, published>>

\* invoke_command, awaited.
Invoke(i) ==
  /\ Step(i, "idle", "enqueue")
  /\ UNCHANGED <<table, completed, lifeVars, waiter, found, late, published>>

Enqueue(i) ==
  /\ Step(i, "enqueue", IF Detached(i) THEN "spawn" ELSE "await")
  /\ Life!Submit(i)
  /\ UNCHANGED <<table, completed, waiter, found, late, published>>

\* The mailbox is full or closed: a task is taken out of the table again.
EnqueueFails(i) ==
  /\ Step(i, "enqueue", IF Detached(i) THEN "undo" ELSE "report")
  /\ found' = [found EXCEPT ![i] = "error"]
  /\ UNCHANGED <<table, completed, lifeVars, waiter, late, published>>

Undo(i) ==
  /\ Step(i, "undo", "refused")
  /\ table' = [table EXCEPT ![i] = "none"]
  /\ UNCHANGED <<completed, lifeVars, waiter, found, late, published>>

\* await_command: recv_timeout has the answer, or the channel is closed or
\* the deadline passed and the command is cancelled if that is still possible.
AwaitAnswer(i) ==
  /\ Step(i, "await", "report")
  /\ response[i] \in Life!Answers \ {"closed"}
  /\ found' = [found EXCEPT ![i] = response[i]]
  /\ UNCHANGED <<table, completed, lifeVars, waiter, late, published>>

AwaitFails(i) ==
  /\ Step(i, "await", "report")
  /\ response[i] = "closed" \/ (response[i] = "empty" /\ i \in late)
  /\ found' = [found EXCEPT ![i] = "error"]
  /\ Cancelled(i)
  /\ UNCHANGED <<table, completed, response, waiter, late, published>>

\* publish_command_completion, then the answer.
Report(i) ==
  /\ Step(i, "report", "done")
  /\ Publish(i)
  /\ UNCHANGED <<table, completed, lifeVars, waiter, found, late>>

SpawnWaiter(i) ==
  /\ Step(i, "spawn", "read")
  /\ waiter' = [waiter EXCEPT ![i] = "look"]
  /\ UNCHANGED <<table, completed, lifeVars, found, late, published>>

\* The thread could not be made: the task is cancelled and fails at once.
SpawnFails(i) ==
  /\ Step(i, "spawn", "fail")
  /\ Cancelled(i)
  /\ found' = [found EXCEPT ![i] = "error"]
  /\ UNCHANGED <<table, completed, response, waiter, late, published>>

Bug_FailTask(i) ==
  /\ Step(i, "fail", "read")
  /\ Finished(i)
  /\ UNCHANGED <<lifeVars, waiter, found, late, published>>

FailTask(i) ==
  /\ Step(i, "fail", "read")
  /\ Finished(i) /\ Publish(i)
  /\ UNCHANGED <<lifeVars, waiter, found, late>>

\* task_value: the task may have ended, and been forgotten, by now.
ReadBack(i) ==
  /\ Step(i, "read", IF table[i] = "none" THEN "unknown" ELSE "done")
  /\ UNCHANGED <<table, completed, lifeVars, waiter, found, late, published>>

Handler(i) == \/ Enqueue(i) \/ EnqueueFails(i) \/ Undo(i) \/ AwaitAnswer(i)
              \/ AwaitFails(i) \/ Report(i) \/ SpawnWaiter(i) \/ SpawnFails(i)
              \/ FailTask(i) \/ ReadBack(i)

----------------------------------------------------------------------------
(* wait_for_task, on the task's thread: look at the channel, then at the   *)
(* token, then at the clock, and around.                                   *)

Move(i, from, to) == /\ waiter[i] = from
                     /\ waiter' = [waiter EXCEPT ![i] = to]

\* try_recv and recv_timeout.
LookAnswered(i) ==
  /\ Move(i, "look", "finish")
  /\ response[i] \in Life!Answers
  /\ found' = [found EXCEPT ![i] = IF response[i] = "closed" THEN "error" ELSE response[i]]
  /\ UNCHANGED <<table, completed, lifeVars, call, late, published>>

LookEmpty(i) ==
  /\ Move(i, "look", "check")
  /\ response[i] = "empty"
  /\ UNCHANGED <<table, completed, lifeVars, call, found, late, published>>

CheckToken(i) ==
  /\ Move(i, "check", IF token[i] = "cancelled" THEN "again" ELSE "look")
  /\ token[i] = "cancelled" \/ i \notin late
  /\ UNCHANGED <<table, completed, lifeVars, call, found, late, published>>

Bug_CheckDeadline(i) ==
  /\ Move(i, "check", "finish")
  /\ token[i] # "cancelled" /\ i \in late
  /\ found' = [found EXCEPT ![i] = "exceeded"]
  /\ Cancelled(i)
  /\ UNCHANGED <<table, completed, response, call, late, published>>

Bug_DeadlineUnlessStarted(i) ==
  /\ Move(i, "check", IF token[i] = "pending" THEN "finish" ELSE "look")
  /\ token[i] # "cancelled" /\ i \in late
  /\ found' = [found EXCEPT ![i] = "error"]
  /\ Cancelled(i)
  /\ UNCHANGED <<table, completed, response, call, late, published>>

CheckDeadline(i) ==
  /\ Move(i, "check", "finish")
  /\ token[i] # "cancelled" /\ i \in late
  /\ found' = [found EXCEPT ![i] = "error"]
  /\ Cancelled(i)
  /\ UNCHANGED <<table, completed, response, call, late, published>>

\* An answer that came before the cancellation was seen is kept.
LookAgain(i) ==
  /\ Move(i, "again", "finish")
  /\ found' = [found EXCEPT ![i] = IF response[i] \in {"empty", "closed"}
                                   THEN "cancelled" ELSE response[i]]
  /\ UNCHANGED <<table, completed, lifeVars, call, late, published>>

\* finish_task and the publication, under one lock.
FinishTask(i) ==
  /\ Move(i, "finish", "ended")
  /\ Finished(i) /\ Publish(i)
  /\ UNCHANGED <<lifeVars, call, found, late>>

Wait(i) == \/ LookAnswered(i) \/ LookEmpty(i) \/ CheckToken(i) \/ CheckDeadline(i)
           \/ LookAgain(i) \/ FinishTask(i)

----------------------------------------------------------------------------
(* Clients, the listener's end, time and the window. *)

\* task.cancel
CancelTask(i) ==
  /\ table[i] = "running"
  /\ Life!Cancel(i)
  /\ table' = [table EXCEPT ![i] = "cancelling"]
  /\ UNCHANGED <<completed, call, waiter, found, late, published>>

\* A running task is shown as cancelling even if its command has started.
CancelAllTasks ==
  /\ \E i \in Ids : table[i] = "running"
  /\ token' = [i \in Ids |-> IF table[i] = "running" /\ token[i] = "pending"
                             THEN "cancelled" ELSE token[i]]
  /\ table' = [i \in Ids |-> IF table[i] = "running" THEN "cancelling" ELSE table[i]]
  /\ UNCHANGED <<completed, response, call, waiter, found, late, published>>

\* A deadline passes; once nobody waits for it, it is left out.
Expire(i) ==
  /\ i \notin late
  /\ call[i] \in {"enqueue", "await", "spawn"} \/ waiter[i] \in {"look", "check"}
  /\ late' = late \cup {i}
  /\ UNCHANGED <<table, completed, lifeVars, call, waiter, found, published>>

WindowActs(i) ==
  /\ Life!Start(i) \/ Life!Answer(i)
  /\ UNCHANGED <<table, completed, call, waiter, found, late, published>>

----------------------------------------------------------------------------
Init ==
  /\ table = [i \in Ids |-> "none"] /\ completed = <<>>
  /\ Life!Init
  /\ call = [i \in Ids |-> "idle"]
  /\ waiter = [i \in Ids |-> "none"]
  /\ found = [i \in Ids |-> "none"]
  /\ late = {}
  /\ published = [i \in Ids |-> 0]

Next == \/ \E i \in Ids : \/ StartTask(i) \/ StartRefused(i) \/ Invoke(i)
                          \/ Handler(i) \/ Wait(i) \/ CancelTask(i) \/ Expire(i)
                          \/ WindowActs(i)
        \/ CancelAllTasks

Spec == Init /\ [][Next]_vars

\* Threads run and time passes; nothing is asked of the window.
Fairness == \A i \in Ids : WF_vars(Handler(i)) /\ WF_vars(Wait(i)) /\ WF_vars(Expire(i))

FairSpec == Spec /\ Fairness

----------------------------------------------------------------------------
\* Types; a completion is published at most once.
TypeOK ==
  /\ table \in [Ids -> {"none", "running", "cancelling", "completed"}]
  /\ completed \in Seq(Ids)
  /\ token \in [Ids -> {"pending", "started", "cancelled"}]
  /\ response \in [Ids -> Life!Answers \cup {"none", "empty"}]
  /\ call \in [Ids -> CallSteps] /\ waiter \in [Ids -> WaiterSteps]
  /\ found \in [Ids -> Outcomes]
  /\ late \subseteq Ids
  /\ published \in [Ids -> 0 .. 1]

\* A task or call reported as cancelled, past its deadline by the window, or
\* shut down, is one whose command has not started and never will ("cannot
\* report a fictitious rollback on cancellation", commands/runtime.rs).
NoFictitiousRollback ==
  \A i \in Ids : found[i] \in Life!Stops => token[i] # "started"

\* The table never outgrows its limit, and the tasks it may forget are
\* exactly the completed ones, each listed once (start_task, finish_task).
CompletedExact ==
  /\ Cardinality(Listed) <= MaxTasks
  /\ \A i \in Ids : table[i] = "completed" <=> \E k \in DOMAIN completed : completed[k] = i
  /\ \A j, k \in DOMAIN completed : completed[j] = completed[k] => j = k

\* A completion is published exactly when the task shows it (FinishTask's one
\* lock), and a start answered "unknown task" (server.rs:422) is of a task
\* whose completion was published.
CompletionPublished ==
  \A i \in Ids :
    /\ (table[i] = "completed" \/ call[i] = "unknown") => published[i] = 1
    /\ table[i] \in {"running", "cancelling"} => published[i] = 0

\* What the table tells its clients, and what may be forgotten, is true.
TableTruthful == CompletedExact /\ CompletionPublished

\* Every task ends and every request is answered, whatever the window does.
TasksEnd ==
  \A i \in Ids :
    /\ table[i] = "running" ~> table[i] \in {"completed", "none"}
    /\ call[i] # "idle" ~> call[i] \in {"done", "unknown", "refused"}

\* The server keeps its side of the contract with the window.
KeepsContract == Life!Spec
=================================================================================
