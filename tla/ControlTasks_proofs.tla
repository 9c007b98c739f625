-------------------------- MODULE ControlTasks_proofs --------------------------
(***************************************************************************)
(* Proofs about ControlTasks: a command that ran is never reported as      *)
(* stopped, the task table forgets only completed tasks and keeps its      *)
(* limit, a completion is published once and before anyone is told that    *)
(* its task is unknown, and the server keeps the contract CommandLife, for *)
(* any number of invocations and any table size.                           *)
(***************************************************************************)
EXTENDS ControlTasks, SequenceTheorems, FiniteSetTheorems, TLAPS

(* The inductive invariant *)

Types ==
  /\ table \in [Ids -> {"none", "running", "cancelling", "completed"}]
  /\ completed \in Seq(Ids)
  /\ token \in [Ids -> {"pending", "started", "cancelled"}]
  /\ response \in [Ids -> Life!Answers \cup {"none", "empty"}]
  /\ call \in [Ids -> CallSteps] /\ waiter \in [Ids -> WaiterSteps]
  /\ found \in [Ids -> Outcomes]
  /\ late \subseteq Ids
  /\ published \in [Ids -> Nat]

Watching == {"look", "check", "again", "finish"}

\* A handler that has not yet handed its task over, and a thread that has not
\* yet finished it.
Open(i) == \/ waiter[i] = "unborn" /\ call[i] \in {"enqueue", "undo", "spawn", "fail"}
           \/ waiter[i] \in Watching

\* Which steps of the handler and of the task's thread go together, and which
\* of them have the task in the table.
Stages ==
  \A i \in Ids :
    /\ call[i] \in {"idle", "await", "report"} => waiter[i] = "none"
    /\ call[i] \in {"undo", "spawn", "fail"} => waiter[i] = "unborn"
    /\ call[i] \in {"read", "unknown"} => waiter[i] # "none"
    /\ call[i] \in {"enqueue", "refused"} => waiter[i] \in {"none", "unborn"}
    /\ waiter[i] = "none" \/ call[i] \in {"refused", "unknown"} => table[i] = "none"
    /\ table[i] \in {"running", "cancelling"} <=> Open(i)

\* A completion is out exactly when the handler or the thread has got past it.
Publications ==
  \A i \in Ids :
    /\ published[i] \in {0, 1}
    /\ Open(i) => published[i] = 0
    /\ call[i] \in {"idle", "enqueue", "await", "report"} => published[i] = 0
    /\ ~Open(i) /\ waiter[i] # "none" /\ call[i] # "refused" => published[i] = 1

\* What a report of a stopped command rests on: a token that is cancelled, or
\* the window's own answer.
Rollbacks ==
  \A i \in Ids :
    /\ response[i] \in Life!Stops => token[i] # "started"
    /\ waiter[i] = "again" => token[i] = "cancelled"
    /\ found[i] \in Life!Stops => token[i] = "cancelled" \/ response[i] = found[i]

TableBounded == Cardinality(Listed) <= MaxTasks

CompletedListed ==
  /\ \A i \in Ids : table[i] = "completed" <=> \E k \in DOMAIN completed : completed[k] = i
  /\ \A j, k \in DOMAIN completed : completed[j] = completed[k] => j = k

IInv == Types /\ Stages /\ Publications /\ Rollbacks /\ CompletedListed

--------------------------------------------------------------------------------
(* The order of completion *)

\* The oldest completed task is one, and taking it away leaves the others.
LEMMA OldestGoes ==
  ASSUME NEW q \in Seq(Ids), q # <<>>,
         \A j, k \in DOMAIN q : q[j] = q[k] => j = k
  PROVE  /\ Head(q) \in Ids /\ Tail(q) \in Seq(Ids)
         /\ \E k \in DOMAIN q : q[k] = Head(q)
         /\ \A i \in Ids : (\E k \in DOMAIN Tail(q) : Tail(q)[k] = i)
                             <=> i # Head(q) /\ (\E k \in DOMAIN q : q[k] = i)
         /\ \A j, k \in DOMAIN Tail(q) : Tail(q)[j] = Tail(q)[k] => j = k
<1>1. /\ Head(q) \in Ids /\ Head(q) = q[1] /\ Tail(q) \in Seq(Ids) /\ Len(q) \in Nat \ {0}
      /\ \A k \in 1 .. Len(Tail(q)) : Tail(q)[k] = q[k + 1]
  BY HeadTailProperties, EmptySeq, LenProperties
<1>2. DOMAIN q = 1 .. Len(q) /\ DOMAIN Tail(q) = 1 .. Len(q) - 1
  BY <1>1, HeadTailProperties, LenProperties
<1>3. \A k \in DOMAIN Tail(q) : k + 1 \in DOMAIN q /\ k + 1 # 1 /\ Tail(q)[k] = q[k + 1]
  BY <1>1, <1>2, HeadTailProperties
<1>4. 1 \in DOMAIN q /\ \A k \in DOMAIN q : k # 1 => k - 1 \in DOMAIN Tail(q) /\ (k - 1) + 1 = k
  BY <1>1, <1>2
<1>5. ASSUME NEW i \in Ids, NEW k \in DOMAIN q, q[k] = i, i # Head(q)
      PROVE  \E j \in DOMAIN Tail(q) : Tail(q)[j] = i
  <2>1. k - 1 \in DOMAIN Tail(q) /\ (k - 1) + 1 = k
    BY <1>1, <1>4, <1>5
  <2>2. Tail(q)[k - 1] = i
    BY <1>3, <1>5, <2>1
  <2> QED BY <2>1, <2>2
<1>6. ASSUME NEW k \in DOMAIN Tail(q)
      PROVE  Tail(q)[k] # Head(q) /\ \E j \in DOMAIN q : q[j] = Tail(q)[k]
  BY <1>1, <1>3, <1>4
<1>7. ASSUME NEW j \in DOMAIN Tail(q), NEW k \in DOMAIN Tail(q), Tail(q)[j] = Tail(q)[k]
      PROVE  j = k
  <2>1. j + 1 = k + 1
    BY <1>3, <1>7
  <2> QED BY <1>1, <1>2, <2>1
<1> QED BY <1>1, <1>4, <1>5, <1>6, <1>7

\* A task that completes joins the order once.
LEMMA NewestJoins ==
  ASSUME NEW q \in Seq(Ids), NEW n \in Ids,
         \A j, k \in DOMAIN q : q[j] = q[k] => j = k,
         ~ \E k \in DOMAIN q : q[k] = n
  PROVE  /\ Append(q, n) \in Seq(Ids)
         /\ \A i \in Ids : (\E k \in DOMAIN Append(q, n) : Append(q, n)[k] = i)
                             <=> i = n \/ (\E k \in DOMAIN q : q[k] = i)
         /\ \A j, k \in DOMAIN Append(q, n) : Append(q, n)[j] = Append(q, n)[k] => j = k
<1> DEFINE r == Append(q, n)
<1>1. /\ r \in Seq(Ids) /\ Len(q) \in Nat /\ r[Len(q) + 1] = n
      /\ \A k \in 1 .. Len(q) : r[k] = q[k]
  BY AppendProperties, LenProperties
<1>2. DOMAIN q = 1 .. Len(q) /\ DOMAIN r = 1 .. Len(q) + 1
  BY AppendProperties, LenProperties
<1> HIDE DEF r
<1>3. \A k \in DOMAIN q : k \in DOMAIN r /\ r[k] = q[k] /\ r[k] # n
  BY <1>1, <1>2
<1>4. Len(q) + 1 \in DOMAIN r /\ \A k \in DOMAIN r : k \in DOMAIN q \/ k = Len(q) + 1
  BY <1>1, <1>2
<1>5. ASSUME NEW i \in Ids
      PROVE  (\E k \in DOMAIN r : r[k] = i) <=> i = n \/ (\E k \in DOMAIN q : q[k] = i)
  BY <1>1, <1>3, <1>4
<1>6. \A j, k \in DOMAIN r : r[j] = r[k] => j = k
  BY <1>1, <1>3, <1>4
<1> QED BY <1>1, <1>5, <1>6 DEF r

--------------------------------------------------------------------------------
(* The parts of the invariant, each kept by every step *)

\* finish_task keeps the types of the table and of the order.
LEMMA FinishedTypes ==
  ASSUME Types, NEW i \in Ids, Finished(i)
  PROVE  /\ completed' \in Seq(Ids)
         /\ table' \in [Ids -> {"none", "running", "cancelling", "completed"}]
<1>1. CASE UNCHANGED <<table, completed>>
  BY <1>1 DEF Types
<1>2. CASE /\ table' = [table EXCEPT ![i] = "completed"]
           /\ completed' = Append(completed, i)
  <2>1. Append(completed, i) \in Seq(Ids)
    BY AppendProperties DEF Types
  <2>2. table' \in [Ids -> {"none", "running", "cancelling", "completed"}]
    BY <1>2 DEF Types
  <2> QED BY <1>2, <2>1, <2>2
<1> QED BY <1>1, <1>2 DEF Finished

\* Types.
LEMMA TypesKept == IInv /\ [Next]_vars => Types'
<1> SUFFICES ASSUME IInv, [Next]_vars PROVE Types'
  OBVIOUS
<1>0. Types /\ CompletedListed
  BY DEF IInv
<1>1. ASSUME NEW i \in Ids, StartTask(i) PROVE Types'
  <2>1. completed' \in Seq(Ids)
    <3>1. completed' = completed \/ (completed # <<>> /\ completed' = Tail(completed))
      BY <1>1 DEF StartTask, Inserted
    <3>2. completed # <<>> => Tail(completed) \in Seq(Ids)
      BY <1>0, OldestGoes DEF Types, CompletedListed
    <3> QED BY <1>0, <3>1, <3>2 DEF Types
  <2>2. table' \in [Ids -> {"none", "running", "cancelling", "completed"}]
    <3>1. \/ table' = [table EXCEPT ![i] = "running"]
          \/ table' = [j \in Ids |-> IF j = Head(completed) THEN "none"
                                    ELSE IF j = i THEN "running" ELSE table[j]]
      BY <1>1 DEF StartTask, Inserted
    <3> QED BY <1>0, <3>1 DEF Types
  <2> QED BY <1>0, <1>1, <2>1, <2>2 DEF StartTask, Step, lifeVars, Types, CallSteps, WaiterSteps, Outcomes, Life!Answers, Life!Stops
<1>2. ASSUME NEW i \in Ids, StartRefused(i) PROVE Types'
  BY <1>0, <1>2 DEF StartRefused, Step, lifeVars, Types, CallSteps, WaiterSteps, Outcomes, Life!Answers, Life!Stops
<1>3. ASSUME NEW i \in Ids, Invoke(i) PROVE Types'
  BY <1>0, <1>3 DEF Invoke, Step, lifeVars, Types, CallSteps, WaiterSteps, Outcomes, Life!Answers, Life!Stops
<1>4. ASSUME NEW i \in Ids, Enqueue(i) PROVE Types'
  BY <1>0, <1>4 DEF Enqueue, Step, Detached, lifeVars, Life!Submit, Types, CallSteps, WaiterSteps, Outcomes, Life!Answers, Life!Stops
<1>5. ASSUME NEW i \in Ids, EnqueueFails(i) PROVE Types'
  BY <1>0, <1>5 DEF EnqueueFails, Step, Detached, lifeVars, Types, CallSteps, WaiterSteps, Outcomes, Life!Answers, Life!Stops
<1>6. ASSUME NEW i \in Ids, Undo(i) PROVE Types'
  BY <1>0, <1>6 DEF Undo, Step, lifeVars, Types, CallSteps, WaiterSteps, Outcomes, Life!Answers, Life!Stops
<1>7. ASSUME NEW i \in Ids, AwaitAnswer(i) PROVE Types'
  BY <1>0, <1>7 DEF AwaitAnswer, Step, lifeVars, Types, CallSteps, WaiterSteps, Outcomes, Life!Answers, Life!Stops
<1>8. ASSUME NEW i \in Ids, AwaitFails(i) PROVE Types'
  BY <1>0, <1>8 DEF AwaitFails, Step, Cancelled, lifeVars, Types, CallSteps, WaiterSteps, Outcomes, Life!Answers, Life!Stops
<1>9. ASSUME NEW i \in Ids, Report(i) PROVE Types'
  BY <1>0, <1>9 DEF Report, Step, Publish, lifeVars, Types, CallSteps, WaiterSteps, Outcomes, Life!Answers, Life!Stops
<1>10. ASSUME NEW i \in Ids, SpawnWaiter(i) PROVE Types'
  BY <1>0, <1>10 DEF SpawnWaiter, Step, lifeVars, Types, CallSteps, WaiterSteps, Outcomes, Life!Answers, Life!Stops
<1>11. ASSUME NEW i \in Ids, SpawnFails(i) PROVE Types'
  BY <1>0, <1>11 DEF SpawnFails, Step, Cancelled, lifeVars, Types, CallSteps, WaiterSteps, Outcomes, Life!Answers, Life!Stops
<1>12. ASSUME NEW i \in Ids, FailTask(i) PROVE Types'
  <2>1. completed' \in Seq(Ids) /\ table' \in [Ids -> {"none", "running", "cancelling", "completed"}]
    BY <1>0, <1>12, FinishedTypes DEF FailTask, Types
  <2>2. call' \in [Ids -> CallSteps] /\ published' \in [Ids -> Nat]
    BY <1>0, <1>12 DEF FailTask, Step, Publish, Types, CallSteps
  <2>3. UNCHANGED <<token, response, waiter, found, late>>
    BY <1>12 DEF FailTask, lifeVars
  <2> QED BY <1>0, <2>1, <2>2, <2>3 DEF Types
<1>13. ASSUME NEW i \in Ids, ReadBack(i) PROVE Types'
  BY <1>0, <1>13 DEF ReadBack, Step, lifeVars, Types, CallSteps, WaiterSteps, Outcomes, Life!Answers, Life!Stops
<1>14. ASSUME NEW i \in Ids, LookAnswered(i) PROVE Types'
  BY <1>0, <1>14 DEF LookAnswered, Move, lifeVars, Types, CallSteps, WaiterSteps, Outcomes, Life!Answers, Life!Stops
<1>15. ASSUME NEW i \in Ids, LookEmpty(i) PROVE Types'
  BY <1>0, <1>15 DEF LookEmpty, Move, lifeVars, Types, CallSteps, WaiterSteps, Outcomes, Life!Answers, Life!Stops
<1>16. ASSUME NEW i \in Ids, CheckToken(i) PROVE Types'
  BY <1>0, <1>16 DEF CheckToken, Move, lifeVars, Types, CallSteps, WaiterSteps, Outcomes, Life!Answers, Life!Stops
<1>17. ASSUME NEW i \in Ids, CheckDeadline(i) PROVE Types'
  BY <1>0, <1>17 DEF CheckDeadline, Move, Cancelled, lifeVars, Types, CallSteps, WaiterSteps, Outcomes, Life!Answers, Life!Stops
<1>18. ASSUME NEW i \in Ids, LookAgain(i) PROVE Types'
  BY <1>0, <1>18 DEF LookAgain, Move, lifeVars, Types, CallSteps, WaiterSteps, Outcomes, Life!Answers, Life!Stops
<1>19. ASSUME NEW i \in Ids, FinishTask(i) PROVE Types'
  <2>1. completed' \in Seq(Ids) /\ table' \in [Ids -> {"none", "running", "cancelling", "completed"}]
    BY <1>0, <1>19, FinishedTypes DEF FinishTask, Types
  <2>2. waiter' \in [Ids -> WaiterSteps] /\ published' \in [Ids -> Nat]
    BY <1>0, <1>19 DEF FinishTask, Move, Publish, Types, WaiterSteps
  <2>3. UNCHANGED <<token, response, call, found, late>>
    BY <1>19 DEF FinishTask, lifeVars
  <2> QED BY <1>0, <2>1, <2>2, <2>3 DEF Types
<1>20. ASSUME NEW i \in Ids, CancelTask(i) PROVE Types'
  BY <1>0, <1>20 DEF CancelTask, Life!Cancel, lifeVars, Types, CallSteps, WaiterSteps, Outcomes, Life!Answers, Life!Stops
<1>21. ASSUME NEW i \in Ids, Expire(i) PROVE Types'
  BY <1>0, <1>21 DEF Expire, lifeVars, Types, CallSteps, WaiterSteps, Outcomes, Life!Answers, Life!Stops
<1>22. ASSUME NEW i \in Ids, WindowActs(i) PROVE Types'
  <2>1. UNCHANGED <<table, completed, call, waiter, found, late, published>>
    BY <1>22 DEF WindowActs
  <2>2. CASE Life!Start(i)
    BY <1>0, <2>1, <2>2 DEF Life!Start, Types
  <2>3. CASE Life!Answer(i)
    <3>1. token' \in [Ids -> {"pending", "started", "cancelled"}]
      BY <1>0, <2>3 DEF Life!Answer, Types
    <3>2. response' \in [Ids -> Life!Answers \cup {"none", "empty"}]
      BY <1>0, <2>3 DEF Life!Answer, Types
    <3> QED BY <1>0, <2>1, <3>1, <3>2 DEF Types
  <2> QED BY <1>22, <2>2, <2>3 DEF WindowActs
<1>23. ASSUME CancelAllTasks PROVE Types'
  BY <1>0, <1>23 DEF CancelAllTasks, Types, CallSteps, WaiterSteps, Outcomes, Life!Answers, Life!Stops
<1>24. ASSUME UNCHANGED vars PROVE Types'
  BY <1>0, <1>24 DEF vars, lifeVars, Types, CallSteps, WaiterSteps, Outcomes, Life!Answers, Life!Stops
<1> QED BY <1>1, <1>2, <1>3, <1>4, <1>5, <1>6, <1>7, <1>8, <1>9, <1>10, <1>11, <1>12, <1>13, <1>14, <1>15, <1>16, <1>17, <1>18, <1>19, <1>20, <1>21, <1>22, <1>23, <1>24 DEF Next, Handler, Wait

\* Handler, thread and table go together.
LEMMA StagesKept == IInv /\ [Next]_vars => Stages'
<1> SUFFICES ASSUME IInv, [Next]_vars PROVE Stages'
  OBVIOUS
<1>0. Types /\ Stages /\ CompletedListed
  BY DEF IInv
<1>1. ASSUME NEW i \in Ids, StartTask(i) PROVE Stages'
  <2>1. completed # <<>> => Head(completed) \in Ids /\ table[Head(completed)] = "completed"
    BY <1>0, OldestGoes DEF Types, CompletedListed
  <2>2. table[i] = "none" /\ waiter[i] = "none" /\ call[i] = "idle"
    BY <1>0, <1>1 DEF StartTask, Step, Stages
  <2> QED BY <1>0, <1>1, <2>1, <2>2 DEF StartTask, Inserted, Step, lifeVars, Types, Stages, Open, Watching
<1>2. ASSUME NEW i \in Ids, StartRefused(i) PROVE Stages'
  BY <1>0, <1>2 DEF StartRefused, Step, lifeVars, Types, Stages, Open, Watching
<1>3. ASSUME NEW i \in Ids, Invoke(i) PROVE Stages'
  BY <1>0, <1>3 DEF Invoke, Step, lifeVars, Types, Stages, Open, Watching
<1>4. ASSUME NEW i \in Ids, Enqueue(i) PROVE Stages'
  BY <1>0, <1>4 DEF Enqueue, Step, Detached, lifeVars, Life!Submit, Types, Stages, Open, Watching
<1>5. ASSUME NEW i \in Ids, EnqueueFails(i) PROVE Stages'
  BY <1>0, <1>5 DEF EnqueueFails, Step, Detached, lifeVars, Types, Stages, Open, Watching
<1>6. ASSUME NEW i \in Ids, Undo(i) PROVE Stages'
  BY <1>0, <1>6 DEF Undo, Step, lifeVars, Types, Stages, Open, Watching
<1>7. ASSUME NEW i \in Ids, AwaitAnswer(i) PROVE Stages'
  BY <1>0, <1>7 DEF AwaitAnswer, Step, lifeVars, Types, Stages, Open, Watching
<1>8. ASSUME NEW i \in Ids, AwaitFails(i) PROVE Stages'
  BY <1>0, <1>8 DEF AwaitFails, Step, Cancelled, lifeVars, Types, Stages, Open, Watching
<1>9. ASSUME NEW i \in Ids, Report(i) PROVE Stages'
  BY <1>0, <1>9 DEF Report, Step, Publish, lifeVars, Types, Stages, Open, Watching
<1>10. ASSUME NEW i \in Ids, SpawnWaiter(i) PROVE Stages'
  BY <1>0, <1>10 DEF SpawnWaiter, Step, lifeVars, Types, Stages, Open, Watching
<1>11. ASSUME NEW i \in Ids, SpawnFails(i) PROVE Stages'
  BY <1>0, <1>11 DEF SpawnFails, Step, Cancelled, lifeVars, Types, Stages, Open, Watching
<1>12. ASSUME NEW i \in Ids, FailTask(i) PROVE Stages'
  BY <1>0, <1>12 DEF FailTask, Step, Finished, Publish, lifeVars, Types, Stages, Open, Watching
<1>13. ASSUME NEW i \in Ids, ReadBack(i) PROVE Stages'
  BY <1>0, <1>13 DEF ReadBack, Step, lifeVars, Types, Stages, Open, Watching
<1>14. ASSUME NEW i \in Ids, LookAnswered(i) PROVE Stages'
  BY <1>0, <1>14 DEF LookAnswered, Move, lifeVars, Types, Stages, Open, Watching
<1>15. ASSUME NEW i \in Ids, LookEmpty(i) PROVE Stages'
  BY <1>0, <1>15 DEF LookEmpty, Move, lifeVars, Types, Stages, Open, Watching
<1>16. ASSUME NEW i \in Ids, CheckToken(i) PROVE Stages'
  BY <1>0, <1>16 DEF CheckToken, Move, lifeVars, Types, Stages, Open, Watching
<1>17. ASSUME NEW i \in Ids, CheckDeadline(i) PROVE Stages'
  BY <1>0, <1>17 DEF CheckDeadline, Move, Cancelled, lifeVars, Types, Stages, Open, Watching
<1>18. ASSUME NEW i \in Ids, LookAgain(i) PROVE Stages'
  BY <1>0, <1>18 DEF LookAgain, Move, lifeVars, Types, Stages, Open, Watching
<1>19. ASSUME NEW i \in Ids, FinishTask(i) PROVE Stages'
  BY <1>0, <1>19 DEF FinishTask, Move, Finished, Publish, lifeVars, Types, Stages, Open, Watching
<1>20. ASSUME NEW i \in Ids, CancelTask(i) PROVE Stages'
  BY <1>0, <1>20 DEF CancelTask, Life!Cancel, lifeVars, Types, Stages, Open, Watching
<1>21. ASSUME NEW i \in Ids, Expire(i) PROVE Stages'
  BY <1>0, <1>21 DEF Expire, lifeVars, Types, Stages, Open, Watching
<1>22. ASSUME NEW i \in Ids, WindowActs(i) PROVE Stages'
  BY <1>0, <1>22 DEF WindowActs, Life!Start, Life!Answer, lifeVars, Types, Stages, Open, Watching
<1>23. ASSUME CancelAllTasks PROVE Stages'
  BY <1>0, <1>23 DEF CancelAllTasks, Types, Stages, Open, Watching
<1>24. ASSUME UNCHANGED vars PROVE Stages'
  BY <1>0, <1>24 DEF vars, lifeVars, Types, Stages, Open, Watching
<1> QED BY <1>1, <1>2, <1>3, <1>4, <1>5, <1>6, <1>7, <1>8, <1>9, <1>10, <1>11, <1>12, <1>13, <1>14, <1>15, <1>16, <1>17, <1>18, <1>19, <1>20, <1>21, <1>22, <1>23, <1>24 DEF Next, Handler, Wait

\* A completion is published once.
LEMMA PublicationsKept == IInv /\ [Next]_vars => Publications'
<1> SUFFICES ASSUME IInv, [Next]_vars PROVE Publications'
  OBVIOUS
<1>0. Types /\ Stages /\ Publications /\ CompletedListed
  BY DEF IInv
<1>1. ASSUME NEW i \in Ids, StartTask(i) PROVE Publications'
  BY <1>0, <1>1 DEF StartTask, Inserted, Step, lifeVars, Types, Stages, Publications, Open, Watching
<1>2. ASSUME NEW i \in Ids, StartRefused(i) PROVE Publications'
  BY <1>0, <1>2 DEF StartRefused, Step, lifeVars, Types, Stages, Publications, Open, Watching
<1>3. ASSUME NEW i \in Ids, Invoke(i) PROVE Publications'
  BY <1>0, <1>3 DEF Invoke, Step, lifeVars, Types, Stages, Publications, Open, Watching
<1>4. ASSUME NEW i \in Ids, Enqueue(i) PROVE Publications'
  BY <1>0, <1>4 DEF Enqueue, Step, Detached, lifeVars, Life!Submit, Types, Stages, Publications, Open, Watching
<1>5. ASSUME NEW i \in Ids, EnqueueFails(i) PROVE Publications'
  BY <1>0, <1>5 DEF EnqueueFails, Step, Detached, lifeVars, Types, Stages, Publications, Open, Watching
<1>6. ASSUME NEW i \in Ids, Undo(i) PROVE Publications'
  BY <1>0, <1>6 DEF Undo, Step, lifeVars, Types, Stages, Publications, Open, Watching
<1>7. ASSUME NEW i \in Ids, AwaitAnswer(i) PROVE Publications'
  BY <1>0, <1>7 DEF AwaitAnswer, Step, lifeVars, Types, Stages, Publications, Open, Watching
<1>8. ASSUME NEW i \in Ids, AwaitFails(i) PROVE Publications'
  BY <1>0, <1>8 DEF AwaitFails, Step, Cancelled, lifeVars, Types, Stages, Publications, Open, Watching
<1>9. ASSUME NEW i \in Ids, Report(i) PROVE Publications'
  BY <1>0, <1>9 DEF Report, Step, Publish, lifeVars, Types, Stages, Publications, Open, Watching
<1>10. ASSUME NEW i \in Ids, SpawnWaiter(i) PROVE Publications'
  BY <1>0, <1>10 DEF SpawnWaiter, Step, lifeVars, Types, Stages, Publications, Open, Watching
<1>11. ASSUME NEW i \in Ids, SpawnFails(i) PROVE Publications'
  BY <1>0, <1>11 DEF SpawnFails, Step, Cancelled, lifeVars, Types, Stages, Publications, Open, Watching
<1>12. ASSUME NEW i \in Ids, FailTask(i) PROVE Publications'
  BY <1>0, <1>12 DEF FailTask, Step, Finished, Publish, lifeVars, Types, Stages, Publications, Open, Watching
<1>13. ASSUME NEW i \in Ids, ReadBack(i) PROVE Publications'
  BY <1>0, <1>13 DEF ReadBack, Step, lifeVars, Types, Stages, Publications, Open, Watching
<1>14. ASSUME NEW i \in Ids, LookAnswered(i) PROVE Publications'
  BY <1>0, <1>14 DEF LookAnswered, Move, lifeVars, Types, Stages, Publications, Open, Watching
<1>15. ASSUME NEW i \in Ids, LookEmpty(i) PROVE Publications'
  BY <1>0, <1>15 DEF LookEmpty, Move, lifeVars, Types, Stages, Publications, Open, Watching
<1>16. ASSUME NEW i \in Ids, CheckToken(i) PROVE Publications'
  BY <1>0, <1>16 DEF CheckToken, Move, lifeVars, Types, Stages, Publications, Open, Watching
<1>17. ASSUME NEW i \in Ids, CheckDeadline(i) PROVE Publications'
  BY <1>0, <1>17 DEF CheckDeadline, Move, Cancelled, lifeVars, Types, Stages, Publications, Open, Watching
<1>18. ASSUME NEW i \in Ids, LookAgain(i) PROVE Publications'
  BY <1>0, <1>18 DEF LookAgain, Move, lifeVars, Types, Stages, Publications, Open, Watching
<1>19. ASSUME NEW i \in Ids, FinishTask(i) PROVE Publications'
  BY <1>0, <1>19 DEF FinishTask, Move, Finished, Publish, lifeVars, Types, Stages, Publications, Open, Watching
<1>20. ASSUME NEW i \in Ids, CancelTask(i) PROVE Publications'
  BY <1>0, <1>20 DEF CancelTask, Life!Cancel, lifeVars, Types, Stages, Publications, Open, Watching
<1>21. ASSUME NEW i \in Ids, Expire(i) PROVE Publications'
  BY <1>0, <1>21 DEF Expire, lifeVars, Types, Stages, Publications, Open, Watching
<1>22. ASSUME NEW i \in Ids, WindowActs(i) PROVE Publications'
  BY <1>0, <1>22 DEF WindowActs, Life!Start, Life!Answer, lifeVars, Types, Stages, Publications, Open, Watching
<1>23. ASSUME CancelAllTasks PROVE Publications'
  BY <1>0, <1>23 DEF CancelAllTasks, Types, Stages, Publications, Open, Watching
<1>24. ASSUME UNCHANGED vars PROVE Publications'
  BY <1>0, <1>24 DEF vars, lifeVars, Types, Stages, Publications, Open, Watching
<1> QED BY <1>1, <1>2, <1>3, <1>4, <1>5, <1>6, <1>7, <1>8, <1>9, <1>10, <1>11, <1>12, <1>13, <1>14, <1>15, <1>16, <1>17, <1>18, <1>19, <1>20, <1>21, <1>22, <1>23, <1>24 DEF Next, Handler, Wait

\* A report of a stopped command is true.
LEMMA RollbacksKept == IInv /\ [Next]_vars => Rollbacks'
<1> SUFFICES ASSUME IInv, [Next]_vars PROVE Rollbacks'
  OBVIOUS
<1>0. Types /\ Rollbacks
  BY DEF IInv
<1>1. ASSUME NEW i \in Ids, StartTask(i) PROVE Rollbacks'
  BY <1>0, <1>1 DEF StartTask, Inserted, Step, lifeVars, Types, Rollbacks, Outcomes, Life!Answers, Life!Stops
<1>2. ASSUME NEW i \in Ids, StartRefused(i) PROVE Rollbacks'
  BY <1>0, <1>2 DEF StartRefused, Step, lifeVars, Types, Rollbacks, Outcomes, Life!Answers, Life!Stops
<1>3. ASSUME NEW i \in Ids, Invoke(i) PROVE Rollbacks'
  BY <1>0, <1>3 DEF Invoke, Step, lifeVars, Types, Rollbacks, Outcomes, Life!Answers, Life!Stops
<1>4. ASSUME NEW i \in Ids, Enqueue(i) PROVE Rollbacks'
  BY <1>0, <1>4 DEF Enqueue, Step, Detached, lifeVars, Life!Submit, Types, Rollbacks, Outcomes, Life!Answers, Life!Stops
<1>5. ASSUME NEW i \in Ids, EnqueueFails(i) PROVE Rollbacks'
  BY <1>0, <1>5 DEF EnqueueFails, Step, Detached, lifeVars, Types, Rollbacks, Outcomes, Life!Answers, Life!Stops
<1>6. ASSUME NEW i \in Ids, Undo(i) PROVE Rollbacks'
  BY <1>0, <1>6 DEF Undo, Step, lifeVars, Types, Rollbacks, Outcomes, Life!Answers, Life!Stops
<1>7. ASSUME NEW i \in Ids, AwaitAnswer(i) PROVE Rollbacks'
  BY <1>0, <1>7 DEF AwaitAnswer, Step, lifeVars, Types, Rollbacks, Outcomes, Life!Answers, Life!Stops
<1>8. ASSUME NEW i \in Ids, AwaitFails(i) PROVE Rollbacks'
  BY <1>0, <1>8 DEF AwaitFails, Step, Cancelled, lifeVars, Types, Rollbacks, Outcomes, Life!Answers, Life!Stops
<1>9. ASSUME NEW i \in Ids, Report(i) PROVE Rollbacks'
  BY <1>0, <1>9 DEF Report, Step, Publish, lifeVars, Types, Rollbacks, Outcomes, Life!Answers, Life!Stops
<1>10. ASSUME NEW i \in Ids, SpawnWaiter(i) PROVE Rollbacks'
  BY <1>0, <1>10 DEF SpawnWaiter, Step, lifeVars, Types, Rollbacks, Outcomes, Life!Answers, Life!Stops
<1>11. ASSUME NEW i \in Ids, SpawnFails(i) PROVE Rollbacks'
  BY <1>0, <1>11 DEF SpawnFails, Step, Cancelled, lifeVars, Types, Rollbacks, Outcomes, Life!Answers, Life!Stops
<1>12. ASSUME NEW i \in Ids, FailTask(i) PROVE Rollbacks'
  BY <1>0, <1>12 DEF FailTask, Step, Finished, Publish, lifeVars, Types, Rollbacks, Outcomes, Life!Answers, Life!Stops
<1>13. ASSUME NEW i \in Ids, ReadBack(i) PROVE Rollbacks'
  BY <1>0, <1>13 DEF ReadBack, Step, lifeVars, Types, Rollbacks, Outcomes, Life!Answers, Life!Stops
<1>14. ASSUME NEW i \in Ids, LookAnswered(i) PROVE Rollbacks'
  BY <1>0, <1>14 DEF LookAnswered, Move, lifeVars, Types, Rollbacks, Outcomes, Life!Answers, Life!Stops
<1>15. ASSUME NEW i \in Ids, LookEmpty(i) PROVE Rollbacks'
  BY <1>0, <1>15 DEF LookEmpty, Move, lifeVars, Types, Rollbacks, Outcomes, Life!Answers, Life!Stops
<1>16. ASSUME NEW i \in Ids, CheckToken(i) PROVE Rollbacks'
  BY <1>0, <1>16 DEF CheckToken, Move, lifeVars, Types, Rollbacks, Outcomes, Life!Answers, Life!Stops
<1>17. ASSUME NEW i \in Ids, CheckDeadline(i) PROVE Rollbacks'
  BY <1>0, <1>17 DEF CheckDeadline, Move, Cancelled, lifeVars, Types, Rollbacks, Outcomes, Life!Answers, Life!Stops
<1>18. ASSUME NEW i \in Ids, LookAgain(i) PROVE Rollbacks'
  BY <1>0, <1>18 DEF LookAgain, Move, lifeVars, Types, Rollbacks, Outcomes, Life!Answers, Life!Stops
<1>19. ASSUME NEW i \in Ids, FinishTask(i) PROVE Rollbacks'
  BY <1>0, <1>19 DEF FinishTask, Move, Finished, Publish, lifeVars, Types, Rollbacks, Outcomes, Life!Answers, Life!Stops
<1>20. ASSUME NEW i \in Ids, CancelTask(i) PROVE Rollbacks'
  BY <1>0, <1>20 DEF CancelTask, Life!Cancel, lifeVars, Types, Rollbacks, Outcomes, Life!Answers, Life!Stops
<1>21. ASSUME NEW i \in Ids, Expire(i) PROVE Rollbacks'
  BY <1>0, <1>21 DEF Expire, lifeVars, Types, Rollbacks, Outcomes, Life!Answers, Life!Stops
<1>22. ASSUME NEW i \in Ids, WindowActs(i) PROVE Rollbacks'
  BY <1>0, <1>22 DEF WindowActs, Life!Start, Life!Answer, lifeVars, Types, Rollbacks, Outcomes, Life!Answers, Life!Stops
<1>23. ASSUME CancelAllTasks PROVE Rollbacks'
  BY <1>0, <1>23 DEF CancelAllTasks, Types, Rollbacks, Outcomes, Life!Answers, Life!Stops
<1>24. ASSUME UNCHANGED vars PROVE Rollbacks'
  BY <1>0, <1>24 DEF vars, lifeVars, Types, Rollbacks, Outcomes, Life!Answers, Life!Stops
<1> QED BY <1>1, <1>2, <1>3, <1>4, <1>5, <1>6, <1>7, <1>8, <1>9, <1>10, <1>11, <1>12, <1>13, <1>14, <1>15, <1>16, <1>17, <1>18, <1>19, <1>20, <1>21, <1>22, <1>23, <1>24 DEF Next, Handler, Wait
\* Only completed tasks are in the order of completion, each once.
LEMMA CompletedListedKept == IInv /\ [Next]_vars => CompletedListed'
<1> SUFFICES ASSUME IInv, [Next]_vars PROVE CompletedListed'
  OBVIOUS
<1>0. Types /\ Stages /\ CompletedListed
  BY DEF IInv
<1>1. ASSUME NEW i \in Ids, Finished(i) PROVE CompletedListed'
  <2>1. CASE table[i] \in {"none", "completed"}
    BY <1>0, <1>1, <2>1 DEF Finished, CompletedListed
  <2>2. CASE table[i] \in {"running", "cancelling"}
    <3>1. ~ \E k \in DOMAIN completed : completed[k] = i
      BY <1>0, <2>2 DEF CompletedListed
    <3>2. completed' = Append(completed, i) /\ table' = [table EXCEPT ![i] = "completed"]
      BY <1>1, <2>2 DEF Finished
    <3> DEFINE r == Append(completed, i)
    <3>a. /\ \A j \in Ids : (\E k \in DOMAIN r : r[k] = j)
                              <=> j = i \/ (\E k \in DOMAIN completed : completed[k] = j)
          /\ \A j, k \in DOMAIN r : r[j] = r[k] => j = k
      <4>1. completed \in Seq(Ids) /\ \A j, k \in DOMAIN completed : completed[j] = completed[k] => j = k
        BY <1>0 DEF CompletedListed, Types
      <4> QED BY <3>1, <4>1, NewestJoins
    <3> HIDE DEF r
    <3>3. /\ \A j \in Ids : (\E k \in DOMAIN completed' : completed'[k] = j)
                              <=> j = i \/ (\E k \in DOMAIN completed : completed[k] = j)
          /\ \A j, k \in DOMAIN completed' : completed'[j] = completed'[k] => j = k
      <4>1. completed' = r
        BY <3>2 DEF r
      <4> QED BY <3>a, <4>1
    <3>4. \A j \in Ids : table'[j] = "completed" <=> j = i \/ table[j] = "completed"
      BY <1>0, <3>2 DEF Types
    <3> QED BY <1>0, <3>3, <3>4 DEF CompletedListed
  <2> QED BY <1>0, <2>1, <2>2 DEF Types
<1>2. ASSUME NEW i \in Ids, StartTask(i) PROVE CompletedListed'
  <2>1. table[i] = "none"
    BY <1>0, <1>2 DEF StartTask, Step, Stages
  <2>2. CASE UNCHANGED completed
    BY <1>0, <1>2, <2>1, <2>2, OldestGoes DEF StartTask, Inserted, CompletedListed, Types
  <2>3. CASE /\ completed # <<>> /\ completed' = Tail(completed)
             /\ table' = [j \in Ids |-> IF j = Head(completed) THEN "none"
                                       ELSE IF j = i THEN "running" ELSE table[j]]
    <3>1. Head(completed) # i
      <4>1. \E k \in DOMAIN completed : completed[k] = Head(completed)
        BY <1>0, <2>3, OldestGoes DEF CompletedListed, Types
      <4> QED BY <1>0, <2>1, <4>1 DEF CompletedListed
    <3>2. /\ \A j \in Ids : (\E k \in DOMAIN completed' : completed'[k] = j)
                     <=> j # Head(completed) /\ (\E k \in DOMAIN completed : completed[k] = j)
          /\ \A j, k \in DOMAIN completed' : completed'[j] = completed'[k] => j = k
          /\ Head(completed) \in Ids
      <4> DEFINE h == Head(completed)
                 q == Tail(completed)
      <4>1. /\ \A j \in Ids : (\E k \in DOMAIN q : q[k] = j)
                     <=> j # h /\ (\E k \in DOMAIN completed : completed[k] = j)
            /\ \A j, k \in DOMAIN q : q[j] = q[k] => j = k
            /\ h \in Ids
        <5>1. /\ completed \in Seq(Ids) /\ completed # <<>>
              /\ \A j, k \in DOMAIN completed : completed[j] = completed[k] => j = k
          BY <1>0, <2>3 DEF CompletedListed, Types
        <5> QED BY <5>1, OldestGoes
      <4>2. completed' = q
        BY <2>3
      <4> HIDE DEF h, q
      <4>3. /\ \A j \in Ids : (\E k \in DOMAIN completed' : completed'[k] = j)
                     <=> j # h /\ (\E k \in DOMAIN completed : completed[k] = j)
            /\ \A j, k \in DOMAIN completed' : completed'[j] = completed'[k] => j = k
        BY <4>1, <4>2
      <4> QED BY <4>1, <4>3 DEF h
    <3>3. \A j \in Ids : table'[j] = "completed"
                            <=> j # Head(completed) /\ table[j] = "completed"
      BY <1>0, <2>1, <2>3, <3>1, <3>2 DEF Types
    <3> QED BY <1>0, <3>2, <3>3 DEF CompletedListed
  <2> QED BY <1>2, <2>2, <2>3 DEF StartTask, Inserted
<1>3. ASSUME NEW i \in Ids, Undo(i) PROVE CompletedListed'
  <2>1. table[i] # "completed"
    BY <1>0, <1>3 DEF Undo, Step, Stages, Open
  <2> QED BY <1>0, <1>3, <2>1 DEF Undo, CompletedListed, Types
<1>4. ASSUME NEW i \in Ids, CancelTask(i) PROVE CompletedListed'
  BY <1>0, <1>4 DEF CancelTask, CompletedListed, Types
<1>5. ASSUME CancelAllTasks PROVE CompletedListed'
  BY <1>0, <1>5 DEF CancelAllTasks, CompletedListed, Types
<1>6. ASSUME UNCHANGED <<table, completed>> PROVE CompletedListed'
  BY <1>0, <1>6 DEF CompletedListed
<1>7. ASSUME NEW i \in Ids, FailTask(i) \/ FinishTask(i) PROVE Finished(i)
  BY <1>7 DEF FailTask, FinishTask
<1>8. ASSUME NEW i \in Ids,
             \/ StartRefused(i) \/ Invoke(i) \/ Enqueue(i) \/ EnqueueFails(i) \/ AwaitAnswer(i)
             \/ AwaitFails(i) \/ Report(i) \/ SpawnWaiter(i) \/ SpawnFails(i) \/ ReadBack(i)
             \/ LookAnswered(i) \/ LookEmpty(i) \/ CheckToken(i) \/ CheckDeadline(i)
             \/ LookAgain(i) \/ Expire(i) \/ WindowActs(i)
      PROVE  UNCHANGED <<table, completed>>
  BY <1>8 DEF StartRefused, Invoke, Enqueue, EnqueueFails, AwaitAnswer, AwaitFails, Report,
              SpawnWaiter, SpawnFails, ReadBack, LookAnswered, LookEmpty, CheckToken,
              CheckDeadline, LookAgain, Expire, WindowActs
<1>9. ASSUME UNCHANGED vars PROVE UNCHANGED <<table, completed>>
  BY <1>9 DEF vars
<1> QED BY <1>1, <1>2, <1>3, <1>4, <1>5, <1>6, <1>7, <1>8, <1>9 DEF Next, Handler, Wait

\* An element adds at most one to the size of a set.
LEMMA OneMore ==
  ASSUME NEW S, NEW x, IsFiniteSet(S)
  PROVE  Cardinality(S \cup {x}) <= Cardinality(S) + 1
<1>1. Cardinality(S) \in Nat
  BY FS_CardinalityType
<1>2. CASE x \in S
  <2>1. S \cup {x} = S
    BY <1>2
  <2> QED BY <1>1, <2>1
<1>3. CASE x \notin S
  <2>1. Cardinality(S \cup {x}) = Cardinality(S) + 1
    BY <1>3, FS_AddElement
  <2> QED BY <1>1, <2>1
<1> QED BY <1>2, <1>3

\* What the table lists grows only at a start, which makes room first.
LEMMA TableBoundedKept == IInv /\ TableBounded /\ [Next]_vars => TableBounded'
<1> SUFFICES ASSUME IInv, TableBounded, [Next]_vars PROVE TableBounded'
  OBVIOUS
<1>0. Types /\ Stages /\ CompletedListed
  BY DEF IInv
<1>1. IsFiniteSet(Listed) /\ Cardinality(Listed) \in Nat /\ MaxTasks \in Nat \ {0}
  BY TasksAssumption, FS_Subset, FS_CardinalityType DEF Listed
<1>2. ASSUME Listed' \subseteq Listed PROVE TableBounded'
  BY <1>1, <1>2, FS_Subset, FS_CardinalityType DEF TableBounded
<1>3. ASSUME NEW i \in Ids, StartTask(i) PROVE TableBounded'
  <2>1. CASE Cardinality(Listed) < MaxTasks /\ table' = [table EXCEPT ![i] = "running"]
    <3>1. Listed' = Listed \cup {i}
      BY <1>0, <2>1 DEF Listed, Types
    <3>2. Cardinality(Listed') <= Cardinality(Listed) + 1
      BY <1>1, <3>1, OneMore
    <3>3. Cardinality(Listed') \in Nat
      BY <1>1, <3>1, FS_AddElement, FS_CardinalityType
    <3> QED BY <1>1, <2>1, <3>2, <3>3 DEF TableBounded
  <2>2. CASE /\ completed # <<>>
             /\ table' = [j \in Ids |-> IF j = Head(completed) THEN "none"
                                       ELSE IF j = i THEN "running" ELSE table[j]]
    <3> DEFINE o == Head(completed)
    <3>1. o \in Ids /\ table[o] = "completed" /\ table[i] = "none"
      BY <1>0, <1>3, <2>2, OldestGoes DEF Types, CompletedListed, StartTask, Step, Stages
    <3>2. Listed' = (Listed \ {o}) \cup {i} /\ o \in Listed
      BY <1>0, <2>2, <3>1 DEF Listed, Types
    <3>3. IsFiniteSet(Listed \ {o}) /\ Cardinality(Listed \ {o}) = Cardinality(Listed) - 1
      BY <1>1, <3>2, FS_RemoveElement
    <3>4. Cardinality((Listed \ {o}) \cup {i}) <= Cardinality(Listed \ {o}) + 1
      BY <1>1, <3>3, OneMore
    <3>5. Cardinality((Listed \ {o}) \cup {i}) \in Nat
      BY <3>3, FS_AddElement, FS_CardinalityType
    <3> QED BY <1>1, <3>2, <3>3, <3>4, <3>5 DEF TableBounded
  <2> QED BY <1>3, <2>1, <2>2 DEF StartTask, Inserted
<1>4. ASSUME NEW i \in Ids, FailTask(i) \/ FinishTask(i) PROVE Listed' \subseteq Listed
  BY <1>0, <1>4 DEF FailTask, FinishTask, Finished, Listed, Types
<1>5. ASSUME NEW i \in Ids, Undo(i) PROVE Listed' \subseteq Listed
  BY <1>0, <1>5 DEF Undo, Listed, Types
<1>6. ASSUME NEW i \in Ids, CancelTask(i) PROVE Listed' \subseteq Listed
  BY <1>0, <1>6 DEF CancelTask, Listed, Types
<1>7. ASSUME CancelAllTasks PROVE Listed' \subseteq Listed
  BY <1>0, <1>7 DEF CancelAllTasks, Listed, Types
<1>8. ASSUME NEW i \in Ids,
             \/ StartRefused(i) \/ Invoke(i) \/ Enqueue(i) \/ EnqueueFails(i) \/ AwaitAnswer(i)
             \/ AwaitFails(i) \/ Report(i) \/ SpawnWaiter(i) \/ SpawnFails(i) \/ ReadBack(i)
             \/ LookAnswered(i) \/ LookEmpty(i) \/ CheckToken(i) \/ CheckDeadline(i)
             \/ LookAgain(i) \/ Expire(i) \/ WindowActs(i)
      PROVE  UNCHANGED table
  BY <1>8 DEF StartRefused, Invoke, Enqueue, EnqueueFails, AwaitAnswer, AwaitFails, Report,
              SpawnWaiter, SpawnFails, ReadBack, LookAnswered, LookEmpty, CheckToken,
              CheckDeadline, LookAgain, Expire, WindowActs
<1>9. ASSUME UNCHANGED table PROVE Listed' \subseteq Listed
  BY <1>9 DEF Listed
<1>10. ASSUME UNCHANGED vars PROVE UNCHANGED table
  BY <1>10 DEF vars
<1> QED BY <1>2, <1>3, <1>4, <1>5, <1>6, <1>7, <1>8, <1>9, <1>10 DEF Next, Handler, Wait

--------------------------------------------------------------------------------
(* The theorems *)

\* The invariant holds in every state.
LEMMA Inductive == Spec => [](IInv /\ TableBounded)
<1>1. ASSUME Init PROVE IInv /\ TableBounded
  <2>1. IInv
    <3>1. completed \in Seq(Ids) /\ DOMAIN completed = {}
      BY <1>1, EmptySeq DEF Init
    <3> QED BY <1>1, <3>1 DEF Init, Life!Init, IInv, Types, Stages, Publications, Rollbacks,
              CompletedListed, Open, Watching, CallSteps, WaiterSteps, Outcomes,
              Life!Answers, Life!Stops
  <2>2. Listed = {}
    BY <1>1 DEF Init, Listed
  <2> QED BY <2>1, <2>2, TasksAssumption, FS_EmptySet DEF TableBounded
<1>2. ASSUME IInv, TableBounded, [Next]_vars PROVE (IInv /\ TableBounded)'
  BY <1>2, TypesKept, StagesKept, PublicationsKept, RollbacksKept, CompletedListedKept,
     TableBoundedKept DEF IInv
<1> QED BY <1>1, <1>2, PTL DEF Spec

\* Every state of the control server's tasks is well typed, and a completion
\* is published at most once.
THEOREM TasksTypeCorrect == Spec => []TypeOK
<1>1. ASSUME IInv PROVE TypeOK
  <2>1. published \in [Ids -> 0 .. 1]
    BY <1>1 DEF IInv, Types, Publications
  <2> QED BY <1>1, <2>1 DEF IInv, Types, TypeOK
<1> QED BY <1>1, Inductive, PTL

\* What the server reports as cancelled, past its deadline or shut down has
\* not started and never will (await_command, wait_for_task).
THEOREM NoRollbackInvented == Spec => []NoFictitiousRollback
<1>1. ASSUME IInv PROVE NoFictitiousRollback
  BY <1>1 DEF IInv, Types, Rollbacks, NoFictitiousRollback, Life!Stops
<1> QED BY <1>1, Inductive, PTL

\* A table of any size keeps its limit and forgets exactly the completed
\* tasks, oldest first (start_task, finish_task); a completion is published
\* exactly when its task shows it, and before a start is answered "unknown
\* task" (finish_task and its publication).
THEOREM TableHonest == Spec => []TableTruthful
<1>1. ASSUME IInv, TableBounded PROVE CompletedExact
  BY <1>1 DEF IInv, CompletedListed, TableBounded, CompletedExact
<1>2. ASSUME IInv PROVE CompletionPublished
  BY <1>2 DEF IInv, Types, Stages, Publications, CompletionPublished, Open, Watching, CallSteps
<1> QED BY <1>1, <1>2, Inductive, PTL DEF TableTruthful

--------------------------------------------------------------------------------
(* The contract with the window *)

\* Every step of the server is one the contract allows.
LEMMA StepKeepsContract == IInv /\ [Next]_vars => [Life!Next]_<<token, response>>
<1> SUFFICES ASSUME IInv, [Next]_vars PROVE [Life!Next]_<<token, response>>
  OBVIOUS
<1>0. Types
  BY DEF IInv
<1>1. ASSUME NEW i \in Ids, Cancelled(i), UNCHANGED response
      PROVE  [Life!Next]_<<token, response>>
  BY <1>0, <1>1 DEF Cancelled, Life!Next, Life!Cancel, Types
<1>2. ASSUME NEW i \in Ids, Life!Submit(i) \/ Life!Cancel(i) \/ Life!Start(i) \/ Life!Answer(i)
      PROVE  Life!Next
  BY <1>2 DEF Life!Next
<1>3. ASSUME CancelAllTasks PROVE Life!CancelSome
  BY <1>0, <1>3 DEF CancelAllTasks, Life!CancelSome, Types
<1>4. ASSUME NEW i \in Ids, AwaitFails(i) \/ SpawnFails(i) \/ CheckDeadline(i)
      PROVE  Cancelled(i) /\ UNCHANGED response
  BY <1>4 DEF AwaitFails, SpawnFails, CheckDeadline
<1>5. ASSUME NEW i \in Ids, Enqueue(i) \/ CancelTask(i) \/ WindowActs(i)
      PROVE  Life!Submit(i) \/ Life!Cancel(i) \/ Life!Start(i) \/ Life!Answer(i)
  BY <1>5 DEF Enqueue, CancelTask, WindowActs
<1>6. ASSUME NEW i \in Ids,
             \/ StartTask(i) \/ StartRefused(i) \/ Invoke(i) \/ EnqueueFails(i) \/ Undo(i)
             \/ AwaitAnswer(i) \/ Report(i) \/ SpawnWaiter(i) \/ FailTask(i) \/ ReadBack(i)
             \/ LookAnswered(i) \/ LookEmpty(i) \/ CheckToken(i) \/ LookAgain(i)
             \/ FinishTask(i) \/ Expire(i)
      PROVE  UNCHANGED <<token, response>>
  BY <1>6 DEF StartTask, StartRefused, Invoke, EnqueueFails, Undo, AwaitAnswer, Report,
              SpawnWaiter, FailTask, ReadBack, LookAnswered, LookEmpty, CheckToken,
              LookAgain, FinishTask, Expire, lifeVars
<1>7. ASSUME UNCHANGED vars PROVE UNCHANGED <<token, response>>
  BY <1>7 DEF vars, lifeVars
<1>8. Life!CancelSome => Life!Next
  BY DEF Life!Next
<1> QED BY <1>1, <1>2, <1>3, <1>4, <1>5, <1>6, <1>7, <1>8 DEF Next, Handler, Wait

\* Whatever the requests, deadlines, cancellations and threads do, the server
\* keeps its side of the contract with the window.
THEOREM KeepsItsContract == Spec => KeepsContract
<1>1. Init => Life!Init
  BY DEF Init
<1>2. IInv /\ [Next]_vars => [Life!Next]_<<token, response>>
  BY StepKeepsContract
<1> QED BY <1>1, <1>2, Inductive, PTL DEF Spec, Life!Spec, KeepsContract
================================================================================
