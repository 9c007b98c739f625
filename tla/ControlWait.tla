------------------------------ MODULE ControlWait ------------------------------
(***************************************************************************)
(* `bootty wait` (bootty-control/src/wait.rs): wait_for_command subscribes *)
(* to events, reads a snapshot, and reads again when events say it may     *)
(* have changed.  The application changes its state first and publishes    *)
(* the event later; a read runs on the application's thread and the server *)
(* publishes its command.completed before it answers.                      *)
(*                                                                         *)
(* A snapshot is the number of state changes it reflects.  The waiter is   *)
(* the only user of its subscription and takes every answer in turn, so    *)
(* its cursor is always the record's: ControlEvents is about cursors, here *)
(* a queue holds the kind of each event.  Each request is a connection; a  *)
(* request the waiter gives up on still runs at the server.                *)
(* The checks of the request and resolve_snapshot_target, which only read  *)
(* and run before the subscription exists, are left out.                   *)
(***************************************************************************)
EXTENDS Integers, Sequences, FiniteSets

CONSTANTS
  Ids,              \* subscription ids
  NoId,
  Slots,            \* connections
  NoSlot,
  QueueLimit,       \* EVENT_QUEUE_LIMIT
  MaxSubscriptions, \* MAX_SUBSCRIPTIONS
  MaxChanges,       \* bound: changes of the application's state
  Good,             \* the snapshots that satisfy the condition
  MayCancel,        \* may Ctrl+C be pressed?
  MayExpire,        \* may the deadline pass?
  MayFail           \* may a read fail, and the waiter give up on a request?

ASSUME WaitAssumption ==
  /\ NoId \notin Ids /\ NoSlot \notin Slots
  /\ QueueLimit \in Nat /\ MaxSubscriptions \in Nat /\ MaxChanges \in Nat
  /\ Good \subseteq Nat
  /\ MayCancel \in BOOLEAN /\ MayExpire \in BOOLEAN /\ MayFail \in BOOLEAN

VARIABLES
  \* the application
  version,      \* changes made so far
  unpublished,  \* changes whose event is not published yet
  \* ControlState::subscriptions: keys, queues of event kinds, gaps
  active, queue, gap,
  \* requests: where each is, what it asks, its watch receiver, its answer
  stage, op, target, bell, kind, news, value,
  \* wait_for_command
  pc,           \* what the waiter does next or is waiting for
  mine,         \* the request it is waiting for
  subscription, snapshot, refresh, outcome,
  cancelled, expired,
  late          \* history: requests it waited for since Ctrl+C, at most MaxLate

appVars == <<version, unpublished>>
subVars == <<active, queue, gap>>
reqVars == <<stage, op, target, bell, kind, news, value>>
wakeVars == <<cancelled, expired>>
waitVars == <<pc, mine, subscription, snapshot, refresh, outcome, late>>
vars == <<appVars, subVars, reqVars, waitVars, wakeVars>>

\* bound: late requests told apart
MaxLate == 4

--------------------------------------------------------------------------------
(* The event plane, as ControlEvents has it *)

\* ControlState::publish_event of one event, own or other, on every subscription.
Publish(e) ==
  LET full == {i \in active : gap[i] \/ Len(queue[i]) >= QueueLimit}
  IN  /\ queue' = [i \in Ids |-> IF i \in full THEN <<>>
                                 ELSE IF i \in active THEN Append(queue[i], e) ELSE queue[i]]
      /\ gap' = [i \in Ids |-> i \in full \/ gap[i]]
      /\ bell' = [k \in Slots |-> bell[k] \/ stage[k] \in {"poll", "blocked"}]
      /\ UNCHANGED active

\* A state change, by a command, a job or a terminal.
Change ==
  /\ version < MaxChanges
  /\ version' = version + 1 /\ unpublished' = unpublished + 1
  /\ UNCHANGED <<subVars, reqVars, waitVars, wakeVars>>

\* ControlPlane::process_events: its event is published.
PublishChange ==
  /\ unpublished > 0
  /\ unpublished' = unpublished - 1
  /\ Publish("other")
  /\ UNCHANGED <<version, stage, op, target, kind, news, value, waitVars, wakeVars>>

Reply(k, how) ==
  /\ stage' = [stage EXCEPT ![k] = "reply"]
  /\ kind' = [kind EXCEPT ![k] = how]

\* create_subscription, under an id nobody refers to.
ServeSubscribe(k) ==
  /\ stage[k] = "sent" /\ op[k] = "subscribe"
  /\ \/ /\ Cardinality(active) < MaxSubscriptions
        /\ \E i \in Ids \ active :
             /\ i # subscription /\ \A j \in Slots : stage[j] # "free" => target[j] # i
             /\ active' = active \cup {i}
             /\ queue' = [queue EXCEPT ![i] = <<>>] /\ gap' = [gap EXCEPT ![i] = FALSE]
             /\ target' = [target EXCEPT ![k] = i]
        /\ Reply(k, "ok")
     \/ /\ Cardinality(active) >= MaxSubscriptions
        /\ Reply(k, "failed")
        /\ UNCHANGED <<subVars, target>>
  /\ UNCHANGED <<appVars, op, bell, news, value, waitVars, wakeVars>>

ServeUnsubscribe(k) ==
  /\ stage[k] = "sent" /\ op[k] = "unsubscribe"
  /\ active' = active \ {target[k]}
  /\ bell' = [j \in Slots |-> bell[j] \/ /\ target[k] \in active
                                         /\ stage[j] \in {"poll", "blocked"}]
  /\ Reply(k, "ok")
  /\ UNCHANGED <<appVars, queue, gap, op, target, news, value, waitVars, wakeVars>>

\* invoke_command: the command runs, its completion is published, it is answered.
RunRead(k) ==
  /\ stage[k] = "sent" /\ op[k] = "read"
  /\ value' = [value EXCEPT ![k] = version]
  /\ stage' = [stage EXCEPT ![k] = "ran"]
  /\ UNCHANGED <<appVars, subVars, op, target, bell, kind, news, waitVars, wakeVars>>

CompleteRead(k) ==
  /\ stage[k] = "ran"
  /\ Publish("own")
  /\ \/ Reply(k, "ok")
     \/ MayFail /\ Reply(k, "failed")
  /\ UNCHANGED <<appVars, op, target, news, value, waitVars, wakeVars>>

\* wait_events: the watch receiver, then poll_subscription until it has an answer.
ArmWait(k) ==
  /\ stage[k] = "sent" /\ op[k] = "wait"
  /\ stage' = [stage EXCEPT ![k] = "poll"]
  /\ UNCHANGED <<appVars, subVars, op, target, bell, kind, news, value, waitVars, wakeVars>>

PollRefused(k) ==
  /\ stage[k] = "poll"
  /\ \/ target[k] \notin active /\ Reply(k, "unknown")
     \/ target[k] \in active /\ gap[target[k]] /\ Reply(k, "rebase")
  /\ UNCHANGED <<appVars, subVars, op, target, bell, news, value, waitVars, wakeVars>>

\* Is some event of a batch about more than the snapshot command's completion?
\* Bug: are they all?
Bug_News(q, n) == \A j \in 1 .. n : q[j] = "other"

News(q, n) == \E j \in 1 .. n : q[j] = "other"

\* A batch is some non-empty prefix of the queue: the byte limit cuts it.
PollBatch(k) ==
  LET i == target[k]
  IN  /\ stage[k] = "poll" /\ i \in active /\ ~gap[i]
      /\ \E n \in 1 .. Len(queue[i]) :
           /\ queue' = [queue EXCEPT ![i] = SubSeq(@, n + 1, Len(@))]
           /\ news' = [news EXCEPT ![k] = News(queue[i], n)]
      /\ Reply(k, "ok")
      /\ UNCHANGED <<appVars, active, gap, op, target, bell, value, waitVars, wakeVars>>

PollEmpty(k) ==
  /\ stage[k] = "poll" /\ target[k] \in active
  /\ ~gap[target[k]] /\ queue[target[k]] = <<>>
  /\ stage' = [stage EXCEPT ![k] = "blocked"]
  /\ UNCHANGED <<appVars, subVars, op, target, bell, kind, news, value, waitVars, wakeVars>>

Wake(k) ==
  /\ stage[k] = "blocked" /\ bell[k]
  /\ stage' = [stage EXCEPT ![k] = "poll"] /\ bell' = [bell EXCEPT ![k] = FALSE]
  /\ UNCHANGED <<appVars, subVars, op, target, kind, news, value, waitVars, wakeVars>>

\* The request's own four seconds: an empty batch.
WaitTimesOut(k) ==
  /\ stage[k] = "blocked" /\ ~bell[k]
  /\ Reply(k, "ok")
  /\ UNCHANGED <<appVars, subVars, op, target, bell, news, value, waitVars, wakeVars>>

Serve(k) == \/ ServeSubscribe(k) \/ ServeUnsubscribe(k) \/ RunRead(k) \/ CompleteRead(k)
            \/ ArmWait(k) \/ PollRefused(k) \/ PollBatch(k) \/ PollEmpty(k) \/ Wake(k)

--------------------------------------------------------------------------------
(* wait_for_command *)

Requesting == {"subscribe", "read", "wait", "drop", "exit"}

OpOf(p) == IF p \in {"drop", "exit"} THEN "unsubscribe" ELSE p

\* invoke_instance_timeout: a connection for each request.
Send ==
  /\ pc \in Requesting /\ mine = NoSlot
  /\ \E k \in Slots :
       /\ stage[k] = "free"
       /\ stage' = [stage EXCEPT ![k] = "sent"]
       /\ op' = [op EXCEPT ![k] = OpOf(pc)]
       /\ target' = [target EXCEPT ![k] = subscription]
       /\ mine' = k
  /\ late' = IF cancelled /\ OpOf(pc) # "unsubscribe" /\ late < MaxLate
             THEN late + 1 ELSE late
  /\ UNCHANGED <<appVars, subVars, bell, kind, news, value, pc, subscription, snapshot,
                 refresh, outcome, wakeVars>>

\* A connection closes.
Close(k) ==
  /\ stage' = [stage EXCEPT ![k] = "free"] /\ op' = [op EXCEPT ![k] = "read"]
  /\ target' = [target EXCEPT ![k] = NoId] /\ bell' = [bell EXCEPT ![k] = FALSE]
  /\ kind' = [kind EXCEPT ![k] = "ok"] /\ news' = [news EXCEPT ![k] = FALSE]
  /\ value' = [value EXCEPT ![k] = 0]

\* The answer to the request in hand is there.
Receive(o) ==
  /\ mine # NoSlot /\ stage[mine] = "reply" /\ op[mine] = o
  /\ Close(mine)
  /\ mine' = NoSlot
  /\ UNCHANGED <<appVars, subVars, late, wakeVars>>

\* An outcome is returned, and the Subscription dropped.
Finish(o) == outcome' = o /\ pc' = "exit"

\* subscribe: its id, or the end of the wait, with nothing to drop.
\* Bug: after a rebase, no fresh snapshot.
Bug_Subscribed ==
  /\ Receive("subscribe")
  /\ kind[mine] = "ok"
  /\ subscription' = target[mine] /\ pc' = "loop"
  /\ UNCHANGED <<refresh, outcome, snapshot>>

Subscribed ==
  /\ Receive("subscribe")
  /\ \/ /\ kind[mine] = "ok"
        /\ subscription' = target[mine] /\ pc' = "loop" /\ refresh' = TRUE
        /\ UNCHANGED outcome
     \/ /\ kind[mine] # "ok"
        /\ outcome' = "error" /\ pc' = "done"
        /\ UNCHANGED <<subscription, refresh>>
  /\ UNCHANGED snapshot

\* The head of the loop.
\* Bug: Ctrl+C is not looked at.
Bug_Loop ==
  /\ pc = "loop"
  /\ \/ expired /\ Finish("timeout")
     \/ ~expired /\ pc' = (IF refresh THEN "read" ELSE "wait") /\ UNCHANGED outcome
  /\ UNCHANGED <<appVars, subVars, reqVars, mine, subscription, snapshot, refresh, late,
                 wakeVars>>

Loop ==
  /\ pc = "loop"
  /\ \/ cancelled /\ Finish("cancelled")
     \/ ~cancelled /\ expired /\ Finish("timeout")
     \/ ~cancelled /\ ~expired /\ refresh /\ pc' = "read" /\ UNCHANGED outcome
     \/ ~cancelled /\ ~expired /\ ~refresh /\ pc' = "wait" /\ UNCHANGED outcome
  /\ UNCHANGED <<appVars, subVars, reqVars, mine, subscription, snapshot, refresh, late,
                 wakeVars>>

\* A match ends the wait; so does a failed read.
ReadDone ==
  /\ Receive("read")
  /\ \/ /\ kind[mine] # "ok"
        /\ Finish("error") /\ UNCHANGED snapshot
     \/ /\ kind[mine] = "ok" /\ value[mine] \in Good
        /\ Finish("matched") /\ snapshot' = value[mine]
     \/ /\ kind[mine] = "ok" /\ value[mine] \notin Good
        /\ snapshot' = value[mine] /\ pc' = (IF expired THEN "loop" ELSE "wait")
        /\ UNCHANGED outcome
  /\ UNCHANGED <<subscription, refresh>>

\* A gap: drop and subscribe again.  A batch: read again unless all of it is
\* about this command's own completions.
WaitDone ==
  /\ Receive("wait")
  /\ \/ /\ kind[mine] = "rebase"
        /\ pc' = "drop" /\ UNCHANGED <<refresh, outcome>>
     \/ /\ kind[mine] = "unknown"
        /\ Finish("error") /\ UNCHANGED refresh
     \/ /\ kind[mine] = "ok"
        /\ refresh' = news[mine] /\ pc' = "loop" /\ UNCHANGED outcome
  /\ UNCHANGED <<subscription, snapshot>>

\* Subscription::drop has returned, whatever the answer.
Dropped ==
  /\ subscription' = NoId
  /\ pc' = (IF pc = "drop" THEN "subscribe" ELSE "done")
  /\ UNCHANGED <<snapshot, refresh, outcome>>

DropDone == Receive("unsubscribe") /\ Dropped

\* A request fails or runs out of time, at the deadline at the latest.
GiveUp ==
  /\ \/ MayFail /\ mine # NoSlot
     \/ expired /\ pc \in {"subscribe", "read", "wait"}
  /\ pc \in Requesting
  /\ mine' = NoSlot
  /\ \/ /\ pc = "subscribe"
        /\ outcome' = "error" /\ pc' = "done" /\ UNCHANGED <<subscription, snapshot, refresh>>
     \/ /\ pc = "read"
        /\ Finish("error") /\ UNCHANGED <<subscription, snapshot, refresh>>
     \/ /\ pc = "wait"
        /\ Finish(IF cancelled THEN "cancelled" ELSE IF expired THEN "timeout" ELSE "error")
        /\ UNCHANGED <<subscription, snapshot, refresh>>
     \/ pc \in {"drop", "exit"} /\ Dropped
  /\ UNCHANGED <<appVars, subVars, reqVars, late, wakeVars>>

\* The answer to a request the waiter gave up on.
Unread(k) ==
  /\ k # mine /\ stage[k] = "reply"
  /\ Close(k)
  /\ UNCHANGED <<appVars, subVars, waitVars, wakeVars>>

\* Ctrl+C, and the deadline.
Cancel ==
  /\ MayCancel /\ ~cancelled /\ outcome = "none"
  /\ cancelled' = TRUE
  /\ late' = IF mine # NoSlot /\ OpOf(pc) # "unsubscribe" THEN 1 ELSE 0
  /\ UNCHANGED <<appVars, subVars, reqVars, pc, mine, subscription, snapshot, refresh,
                 outcome, expired>>

Expire ==
  /\ MayExpire /\ ~expired /\ outcome = "none"
  /\ expired' = TRUE
  /\ UNCHANGED <<appVars, subVars, reqVars, waitVars, cancelled>>

Waiter == Send \/ Subscribed \/ Loop \/ ReadDone \/ WaitDone \/ DropDone \/ GiveUp

--------------------------------------------------------------------------------
Init ==
  /\ version = 0 /\ unpublished = 0
  /\ active = {} /\ queue = [i \in Ids |-> <<>>] /\ gap = [i \in Ids |-> FALSE]
  /\ stage = [k \in Slots |-> "free"] /\ op = [k \in Slots |-> "read"]
  /\ target = [k \in Slots |-> NoId] /\ bell = [k \in Slots |-> FALSE]
  /\ kind = [k \in Slots |-> "ok"] /\ news = [k \in Slots |-> FALSE]
  /\ value = [k \in Slots |-> 0]
  /\ pc = "subscribe" /\ mine = NoSlot /\ subscription = NoId
  /\ snapshot = -1 /\ refresh = TRUE /\ outcome = "none"
  /\ cancelled = FALSE /\ expired = FALSE /\ late = 0

Next ==
  \/ Change \/ PublishChange \/ Waiter \/ Cancel \/ Expire
  \/ \E k \in Slots : Serve(k) \/ WaitTimesOut(k) \/ Unread(k)

\* The server's runtime, the application's event queue and the waiter's thread
\* all keep running; the server's timer fires.
Fairness == /\ WF_vars(PublishChange) /\ WF_vars(Waiter)
            /\ \A k \in Slots : WF_vars(Serve(k)) /\ WF_vars(WaitTimesOut(k)) /\ WF_vars(Unread(k))

Spec == Init /\ [][Next]_vars

FairSpec == Spec /\ Fairness

--------------------------------------------------------------------------------
(* Properties *)

TypeOK ==
  /\ version \in Nat /\ unpublished \in Nat
  /\ active \subseteq Ids /\ queue \in [Ids -> Seq({"own", "other"})]
  /\ gap \in [Ids -> BOOLEAN]
  /\ stage \in [Slots -> {"free", "sent", "ran", "poll", "blocked", "reply"}]
  /\ op \in [Slots -> {"subscribe", "read", "wait", "unsubscribe"}]
  /\ target \in [Slots -> Ids \cup {NoId}]
  /\ bell \in [Slots -> BOOLEAN] /\ news \in [Slots -> BOOLEAN]
  /\ kind \in [Slots -> {"ok", "failed", "rebase", "unknown"}]
  /\ value \in [Slots -> Nat]
  /\ pc \in Requesting \cup {"loop", "done"}
  /\ mine \in Slots \cup {NoSlot} /\ subscription \in Ids \cup {NoId}
  /\ snapshot \in Nat \cup {-1} /\ refresh \in BOOLEAN
  /\ outcome \in {"none", "matched", "timeout", "cancelled", "error"}
  /\ cancelled \in BOOLEAN /\ expired \in BOOLEAN /\ late \in Nat

\* "Events are wakeups, never state authority": a waiter asleep in event.wait with
\* nothing to wake it has read the latest state whose event is out.
SleeperCurrent ==
  \A k \in Slots :
    k = mine /\ stage[k] = "blocked" /\ ~bell[k] => snapshot + unpublished >= version

\* A condition that comes to hold and stays is noticed, unless the wait is
\* cancelled, its deadline passes or one of its requests fails first.  Ctrl+C and
\* the deadline end the wait.
WaitEnds ==
  /\ <>[](version \in Good) /\ [](~cancelled /\ ~expired /\ outcome # "error")
       => <>(outcome = "matched")
  /\ cancelled \/ expired ~> pc = "done"

\* After Ctrl+C the waiter asks at most three things more, besides removing its
\* subscription: the read and the wait of the iteration it is in and, when that
\* wait finds a gap, a new subscription (docs/automation.md says one request).  Types too.
CtrlCBounded == TypeOK /\ late <= 3
================================================================================
