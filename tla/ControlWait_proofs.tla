--------------------------- MODULE ControlWait_proofs ---------------------------
(***************************************************************************)
(* Proofs about ControlWait: a waiter asleep has read the latest published *)
(* state, and Ctrl+C is answered within three requests, for any number of  *)
(* subscriptions, connections and changes and any queue limit.             *)
(***************************************************************************)
EXTENDS ControlWait, SequenceTheorems, TLAPS

(* The inductive invariant *)

\* The parts of TypeOK.
EventTypes == /\ active \subseteq Ids /\ queue \in [Ids -> Seq({"own", "other"})]
              /\ gap \in [Ids -> BOOLEAN]

RequestTypes ==
  /\ stage \in [Slots -> {"free", "sent", "ran", "poll", "blocked", "reply"}]
  /\ op \in [Slots -> {"subscribe", "read", "wait", "unsubscribe"}]
  /\ target \in [Slots -> Ids \cup {NoId}]
  /\ bell \in [Slots -> BOOLEAN] /\ news \in [Slots -> BOOLEAN]
  /\ kind \in [Slots -> {"ok", "failed", "rebase", "unknown"}]
  /\ value \in [Slots -> Nat]

WaiterTypes ==
  /\ version \in Nat /\ unpublished \in Nat
  /\ pc \in Requesting \cup {"loop", "done"}
  /\ mine \in Slots \cup {NoSlot} /\ subscription \in Ids \cup {NoId}
  /\ snapshot \in Nat \cup {-1} /\ refresh \in BOOLEAN
  /\ outcome \in {"none", "matched", "timeout", "cancelled", "error"}
  /\ cancelled \in BOOLEAN /\ expired \in BOOLEAN /\ late \in Nat

\* A request in hand is the one the waiter's step calls for; every request is at
\* a stage of its own kind.
InHand ==
  /\ mine # NoSlot => /\ stage[mine] # "free" /\ pc \in Requesting
                      /\ op[mine] = OpOf(pc) /\ target[mine] \in Ids \cup {NoId}
  /\ \A k \in Slots : /\ stage[k] = "ran" => op[k] = "read"
                      /\ stage[k] \in {"poll", "blocked"} => op[k] = "wait"

\* Nobody else takes events from the waiter's queue: an event.wait it gave up on
\* ended the wait.
SoleReader ==
  \A k \in Slots : stage[k] # "free" /\ op[k] = "wait" =>
    IF k = mine THEN target[k] = subscription ELSE pc \in {"exit", "done"}

\* The events published since they were last read say that something changed.
Alerted ==
  \/ subscription \notin active \/ gap[subscription]
  \/ \E j \in 1 .. Len(queue[subscription]) : queue[subscription][j] = "other"

\* A reading misses only changes whose event is still to come.
Current(n) == n + unpublished >= version

\* The answer in hand will make the waiter read again, or stop.
Warned ==
  /\ pc = "wait" /\ mine # NoSlot /\ stage[mine] = "reply"
  /\ kind[mine] # "ok" \/ news[mine]

\* A waiter that does not read again has the latest state, or will be told.
SnapshotKept ==
  pc = "wait" \/ (pc = "loop" /\ ~refresh) => Current(snapshot) \/ Alerted \/ Warned

ReadingKept ==
  pc = "read" /\ mine # NoSlot /\ stage[mine] \in {"ran", "reply"}
    => Current(value[mine]) \/ Alerted

\* A sleeping event.wait has nothing to report: whatever comes rings its bell.
SleepsQuietly ==
  mine # NoSlot /\ stage[mine] = "blocked" /\ ~bell[mine] => ~Alerted

\* How many requests may have been waited for since Ctrl+C, by the waiter's step.
Spent ==
  /\ late <= 3
  /\ ~cancelled => late = 0
  /\ pc = "read" => late <= IF mine = NoSlot THEN 0 ELSE 1
  /\ pc = "wait" => late <= IF mine = NoSlot THEN 1 ELSE 2
  /\ pc = "drop" => late <= 2
  /\ pc = "subscribe" => late <= IF mine = NoSlot THEN 2 ELSE 3

IInv == /\ EventTypes /\ RequestTypes /\ WaiterTypes /\ InHand /\ SoleReader
        /\ SnapshotKept /\ ReadingKept /\ SleepsQuietly /\ Spent

--------------------------------------------------------------------------------
(* The operators of the model *)

\* publish_event keeps the types of the queues, alerts every subscription it
\* reaches and rings every event.wait.
LEMMA Publishing ==
  ASSUME EventTypes, RequestTypes, WaitAssumption, NEW e \in {"own", "other"}, Publish(e)
  PROVE  /\ EventTypes' /\ bell' \in [Slots -> BOOLEAN] /\ active' = active
         /\ \A k \in Slots : bell[k] => bell'[k]
         /\ \A k \in Slots : stage[k] \in {"poll", "blocked"} => bell'[k]
         /\ UNCHANGED subscription /\ (Alerted \/ e = "other") => Alerted'
<1> DEFINE full == {i \in active : gap[i] \/ Len(queue[i]) >= QueueLimit}
           q(i) == Append(queue[i], e)
<1>1. /\ queue' = [i \in Ids |-> IF i \in full THEN <<>>
                                  ELSE IF i \in active THEN q(i) ELSE queue[i]]
      /\ gap' = [i \in Ids |-> i \in full \/ gap[i]]
      /\ bell' = [k \in Slots |-> bell[k] \/ stage[k] \in {"poll", "blocked"}]
      /\ active' = active
  BY DEF Publish
<1>2. ASSUME NEW i \in Ids
      PROVE  /\ q(i) \in Seq({"own", "other"}) /\ Len(q(i)) = Len(queue[i]) + 1
             /\ q(i)[Len(queue[i]) + 1] = e /\ Len(queue[i]) \in Nat
             /\ \A j \in 1 .. Len(queue[i]) : q(i)[j] = queue[i][j]
  <2>1. queue[i] \in Seq({"own", "other"})
    BY DEF EventTypes
  <2> QED BY <2>1, AppendProperties, LenProperties
<1>3. <<>> \in Seq({"own", "other"})
  BY EmptySeq
<1> HIDE DEF full, q
<1>4. queue' \in [Ids -> Seq({"own", "other"})]
  BY <1>1, <1>2, <1>3 DEF EventTypes
<1>5. EventTypes'
  BY <1>1, <1>4 DEF EventTypes
<1>6. /\ bell' \in [Slots -> BOOLEAN]
      /\ \A k \in Slots : bell[k] => bell'[k]
      /\ \A k \in Slots : stage[k] \in {"poll", "blocked"} => bell'[k]
  BY <1>1 DEF RequestTypes
<1>7. ASSUME UNCHANGED subscription, Alerted \/ e = "other" PROVE Alerted'
  <2> DEFINE s == subscription
  <2>1. CASE s \notin active
    BY <1>1, <1>7, <2>1 DEF Alerted
  <2>2. CASE s \in active /\ s \in full
    <3>1. gap'[s]
      BY <1>1, <2>2 DEF EventTypes
    <3> QED BY <1>7, <3>1 DEF Alerted
  <2>3. CASE s \in active /\ s \notin full
    <3>1. s \in Ids /\ queue'[s] = q(s)
      BY <1>1, <2>3 DEF EventTypes
    <3>2. ~gap[s]
      BY <2>3 DEF full
    <3>3. \E j \in 1 .. Len(q(s)) : q(s)[j] = "other"
      <4>1. CASE e = "other"
        <5>1. Len(queue[s]) + 1 \in 1 .. Len(q(s))
          BY <1>2, <3>1
        <5> QED BY <1>2, <3>1, <4>1, <5>1
      <4>2. CASE Alerted
        <5>1. PICK j \in 1 .. Len(queue[s]) : queue[s][j] = "other"
          BY <2>3, <3>2, <4>2 DEF Alerted
        <5>2. j \in 1 .. Len(q(s)) /\ q(s)[j] = "other"
          BY <1>2, <3>1, <5>1
        <5> QED BY <5>2
      <4> QED BY <1>7, <4>1, <4>2
    <3> QED BY <1>7, <3>1, <3>3 DEF Alerted
  <2> QED BY <2>1, <2>2, <2>3
<1> QED BY <1>1, <1>5, <1>6, <1>7

\* A change is in the batch taken off a queue or in what is left of it.
LEMMA CutNews ==
  ASSUME NEW q \in Seq({"own", "other"}), NEW n \in 1 .. Len(q)
  PROVE  /\ SubSeq(q, n + 1, Len(q)) \in Seq({"own", "other"})
         /\ (\E j \in 1 .. Len(q) : q[j] = "other")
              => \/ News(q, n)
                 \/ \E j \in 1 .. Len(SubSeq(q, n + 1, Len(q))) :
                      SubSeq(q, n + 1, Len(q))[j] = "other"
<1> DEFINE r == SubSeq(q, n + 1, Len(q))
<1>1. Len(q) \in Nat /\ n \in Nat
  BY LenProperties
<1>2. \A i \in n + 1 .. Len(q) : q[i] \in {"own", "other"}
  BY <1>1, ElementOfSeq
<1>3. /\ r \in Seq({"own", "other"}) /\ Len(r) = Len(q) - n
      /\ \A j \in 1 .. Len(q) - n : r[j] = q[n + j]
  BY <1>1, <1>2, SubSeqProperties
<1> HIDE DEF r
<1>4. ASSUME NEW j \in 1 .. Len(q), q[j] = "other", ~News(q, n)
      PROVE  \E i \in 1 .. Len(r) : r[i] = "other"
  <2>1. j \notin 1 .. n
    BY <1>4 DEF News
  <2>2. j - n \in 1 .. Len(r) /\ n + (j - n) = j /\ j - n \in 1 .. Len(q) - n
    BY <1>1, <1>3, <2>1
  <2>3. r[j - n] = q[n + (j - n)]
    BY <1>3, <2>2
  <2> QED BY <1>4, <2>2, <2>3
<1> QED BY <1>3, <1>4 DEF r

--------------------------------------------------------------------------------
(* The parts of the invariant, each kept by every step *)

\* Types of the subscriptions.
LEMMA EventTypesKept == IInv /\ [Next]_vars => EventTypes'
<1> SUFFICES ASSUME IInv, [Next]_vars PROVE EventTypes'
  OBVIOUS
<1>0. EventTypes /\ RequestTypes
  BY DEF IInv
<1>1. ASSUME PublishChange PROVE EventTypes'
  BY <1>0, <1>1, Publishing, WaitAssumption DEF PublishChange
<1>2. ASSUME NEW k \in Slots, ServeSubscribe(k) PROVE EventTypes'
  <2>1. <<>> \in Seq({"own", "other"})
    BY EmptySeq
  <2>2. CASE UNCHANGED subVars
    BY <1>0, <2>2 DEF EventTypes, subVars
  <2>3. CASE \E i \in Ids : /\ active' = active \cup {i}
                           /\ queue' = [queue EXCEPT ![i] = <<>>]
                           /\ gap' = [gap EXCEPT ![i] = FALSE]
    BY <1>0, <2>1, <2>3 DEF EventTypes
  <2> QED BY <1>2, <2>2, <2>3 DEF ServeSubscribe
<1>3. ASSUME NEW k \in Slots, ServeUnsubscribe(k) PROVE EventTypes'
  BY <1>0, <1>3 DEF ServeUnsubscribe, Reply, EventTypes
<1>4. ASSUME NEW k \in Slots, CompleteRead(k) PROVE EventTypes'
  BY <1>0, <1>4, Publishing, WaitAssumption DEF CompleteRead
<1>5. ASSUME NEW k \in Slots, PollBatch(k) PROVE EventTypes'
  <2> DEFINE i == target[k]
  <2>1. PICK n \in 1 .. Len(queue[i]) :
          queue' = [queue EXCEPT ![i] = SubSeq(@, n + 1, Len(@))]
    BY <1>5 DEF PollBatch
  <2>2. i \in Ids /\ UNCHANGED <<active, gap>>
    BY <1>0, <1>5 DEF PollBatch, EventTypes
  <2>3. queue[i] \in Seq({"own", "other"})
    BY <1>0, <2>2 DEF EventTypes
  <2>4. SubSeq(queue[i], n + 1, Len(queue[i])) \in Seq({"own", "other"})
    BY <2>3, CutNews
  <2> HIDE DEF i
  <2> QED BY <1>0, <2>1, <2>2, <2>4 DEF EventTypes
<1>6. ASSUME UNCHANGED <<active, queue, gap>> PROVE EventTypes'
  BY <1>0, <1>6 DEF EventTypes
<1>7. ASSUME
          \/ Change \/ Send \/ Subscribed \/ Loop \/ ReadDone \/ WaitDone \/ DropDone
          \/ GiveUp \/ Cancel \/ Expire
      PROVE  UNCHANGED <<active, queue, gap>>
  BY <1>7 DEF Change, Send, Subscribed, Loop, ReadDone, WaitDone, DropDone, GiveUp,
     Cancel, Expire, subVars, Receive, Dropped
<1>8. ASSUME NEW k \in Slots,
          \/ RunRead(k) \/ ArmWait(k) \/ PollRefused(k) \/ PollEmpty(k) \/ Wake(k)
          \/ WaitTimesOut(k) \/ Unread(k)
      PROVE  UNCHANGED <<active, queue, gap>>
  BY <1>8 DEF RunRead, ArmWait, PollRefused, PollEmpty, Wake, WaitTimesOut, Unread,
     subVars
<1>9. ASSUME UNCHANGED vars
      PROVE  UNCHANGED <<active, queue, gap>>
  BY <1>9 DEF subVars, vars
<1> QED BY <1>1, <1>2, <1>3, <1>4, <1>5, <1>6, <1>7, <1>8, <1>9
       DEF Next, Waiter, Serve

\* Types of the requests.
LEMMA RequestTypesKept == IInv /\ [Next]_vars => RequestTypes'
<1> SUFFICES ASSUME IInv, [Next]_vars PROVE RequestTypes'
  OBVIOUS
<1>0. EventTypes /\ RequestTypes /\ WaiterTypes
  BY DEF IInv
<1>1. ASSUME PublishChange PROVE RequestTypes'
  <2>1. bell' \in [Slots -> BOOLEAN]
    BY <1>0, <1>1, Publishing, WaitAssumption DEF PublishChange
  <2> QED BY <1>0, <1>1, <2>1 DEF PublishChange, RequestTypes
<1>2. ASSUME NEW k \in Slots, ServeSubscribe(k) PROVE RequestTypes'
  <2>1. CASE \E i \in Ids : target' = [target EXCEPT ![k] = i] /\ Reply(k, "ok")
    BY <1>0, <1>2, <2>1 DEF ServeSubscribe, Reply, RequestTypes
  <2>2. CASE Reply(k, "failed") /\ UNCHANGED target
    BY <1>0, <1>2, <2>2 DEF ServeSubscribe, Reply, RequestTypes
  <2> QED BY <1>2, <2>1, <2>2 DEF ServeSubscribe
<1>3. ASSUME NEW k \in Slots, ServeUnsubscribe(k) PROVE RequestTypes'
  BY <1>0, <1>3 DEF ServeUnsubscribe, Reply, RequestTypes, EventTypes, WaiterTypes
<1>4. ASSUME NEW k \in Slots, RunRead(k) PROVE RequestTypes'
  BY <1>0, <1>4 DEF RunRead, RequestTypes, EventTypes, WaiterTypes
<1>5. ASSUME NEW k \in Slots, CompleteRead(k) PROVE RequestTypes'
  <2>1. bell' \in [Slots -> BOOLEAN]
    BY <1>0, <1>5, Publishing, WaitAssumption DEF CompleteRead
  <2> QED BY <1>0, <1>5, <2>1 DEF CompleteRead, Reply, RequestTypes
<1>6. ASSUME NEW k \in Slots, ArmWait(k) PROVE RequestTypes'
  BY <1>0, <1>6 DEF ArmWait, RequestTypes, EventTypes, WaiterTypes
<1>7. ASSUME NEW k \in Slots, PollRefused(k) PROVE RequestTypes'
  BY <1>0, <1>7 DEF PollRefused, Reply, RequestTypes, EventTypes, WaiterTypes
<1>8. ASSUME NEW k \in Slots, PollBatch(k) PROVE RequestTypes'
  BY <1>0, <1>8 DEF PollBatch, Reply, News, RequestTypes, EventTypes, WaiterTypes
<1>9. ASSUME NEW k \in Slots, PollEmpty(k) PROVE RequestTypes'
  BY <1>0, <1>9 DEF PollEmpty, RequestTypes, EventTypes, WaiterTypes
<1>10. ASSUME NEW k \in Slots, Wake(k) PROVE RequestTypes'
  BY <1>0, <1>10 DEF Wake, RequestTypes, EventTypes, WaiterTypes
<1>11. ASSUME NEW k \in Slots, WaitTimesOut(k) PROVE RequestTypes'
  BY <1>0, <1>11 DEF WaitTimesOut, Reply, RequestTypes, EventTypes, WaiterTypes
<1>12. ASSUME NEW k \in Slots, Unread(k) PROVE RequestTypes'
  BY <1>0, <1>12 DEF Unread, Close, RequestTypes, EventTypes, WaiterTypes
<1>13. ASSUME Send PROVE RequestTypes'
  BY <1>0, <1>13 DEF Send, OpOf, Requesting, RequestTypes, EventTypes, WaiterTypes
<1>14. ASSUME Subscribed PROVE RequestTypes'
  BY <1>0, <1>14 DEF Subscribed, Receive, Close, RequestTypes, EventTypes, WaiterTypes
<1>15. ASSUME ReadDone PROVE RequestTypes'
  BY <1>0, <1>15 DEF ReadDone, Receive, Close, Finish, RequestTypes, EventTypes,
     WaiterTypes
<1>16. ASSUME WaitDone PROVE RequestTypes'
  BY <1>0, <1>16 DEF WaitDone, Receive, Close, Finish, RequestTypes, EventTypes,
     WaiterTypes
<1>17. ASSUME DropDone PROVE RequestTypes'
  BY <1>0, <1>17 DEF DropDone, Receive, Close, Dropped, RequestTypes, EventTypes,
     WaiterTypes
<1>18. ASSUME UNCHANGED <<stage, op, target, bell, news, kind, value>> PROVE RequestTypes'
  BY <1>0, <1>18 DEF RequestTypes, EventTypes, WaiterTypes
<1>19. ASSUME
          \/ Change \/ Loop \/ GiveUp \/ Cancel \/ Expire
      PROVE  UNCHANGED <<stage, op, target, bell, news, kind, value>>
  BY <1>19 DEF Change, Loop, GiveUp, Cancel, Expire, reqVars, Dropped
<1>20. ASSUME UNCHANGED vars
      PROVE  UNCHANGED <<stage, op, target, bell, news, kind, value>>
  BY <1>20 DEF reqVars, vars
<1> QED BY <1>1, <1>2, <1>3, <1>4, <1>5, <1>6, <1>7, <1>8, <1>9, <1>10, <1>11, <1>12,
           <1>13, <1>14, <1>15, <1>16, <1>17, <1>18, <1>19, <1>20
       DEF Next, Waiter, Serve

\* Types of the application and of the waiter.
LEMMA WaiterTypesKept == IInv /\ [Next]_vars => WaiterTypes'
<1> SUFFICES ASSUME IInv, [Next]_vars PROVE WaiterTypes'
  OBVIOUS
<1>0. RequestTypes /\ WaiterTypes
  BY DEF IInv
<1>1. ASSUME Change PROVE WaiterTypes'
  BY <1>0, <1>1, WaitAssumption DEF Change, wakeVars, waitVars, WaiterTypes,
     RequestTypes, Requesting
<1>2. ASSUME PublishChange PROVE WaiterTypes'
  BY <1>0, <1>2, WaitAssumption DEF PublishChange, Publish, wakeVars, waitVars,
     WaiterTypes, RequestTypes, Requesting
<1>3. ASSUME Send PROVE WaiterTypes'
  BY <1>0, <1>3, WaitAssumption DEF Send, OpOf, Requesting, appVars, wakeVars,
     WaiterTypes, RequestTypes
<1>4. ASSUME Subscribed PROVE WaiterTypes'
  BY <1>0, <1>4, WaitAssumption DEF Subscribed, Receive, Close, appVars, wakeVars,
     WaiterTypes, RequestTypes, Requesting
<1>5. ASSUME Loop PROVE WaiterTypes'
  BY <1>0, <1>5, WaitAssumption DEF Loop, Finish, appVars, wakeVars, WaiterTypes,
     RequestTypes, Requesting
<1>6. ASSUME ReadDone PROVE WaiterTypes'
  BY <1>0, <1>6, WaitAssumption DEF ReadDone, Receive, Close, Finish, appVars, wakeVars,
     WaiterTypes, RequestTypes, Requesting
<1>7. ASSUME WaitDone PROVE WaiterTypes'
  BY <1>0, <1>7, WaitAssumption DEF WaitDone, Receive, Close, Finish, appVars, wakeVars,
     WaiterTypes, RequestTypes, Requesting
<1>8. ASSUME DropDone PROVE WaiterTypes'
  BY <1>0, <1>8, WaitAssumption DEF DropDone, Receive, Close, Dropped, appVars,
     wakeVars, WaiterTypes, RequestTypes, Requesting
<1>9. ASSUME GiveUp PROVE WaiterTypes'
  BY <1>0, <1>9, WaitAssumption DEF GiveUp, Finish, Dropped, Requesting, appVars,
     wakeVars, WaiterTypes, RequestTypes
<1>10. ASSUME Cancel PROVE WaiterTypes'
  BY <1>0, <1>10, WaitAssumption DEF Cancel, OpOf, appVars, WaiterTypes, RequestTypes,
     Requesting
<1>11. ASSUME Expire PROVE WaiterTypes'
  BY <1>0, <1>11, WaitAssumption DEF Expire, appVars, waitVars, WaiterTypes,
     RequestTypes, Requesting
<1>12. ASSUME UNCHANGED <<version, unpublished, pc, mine, subscription, snapshot,
                          refresh, outcome, cancelled, expired, late>>
       PROVE WaiterTypes'
  BY <1>0, <1>12 DEF WaiterTypes, RequestTypes, Requesting
<1>13. ASSUME NEW k \in Slots,
          \/ ServeSubscribe(k) \/ ServeUnsubscribe(k) \/ RunRead(k) \/ CompleteRead(k)
          \/ ArmWait(k) \/ PollRefused(k) \/ PollBatch(k) \/ PollEmpty(k) \/ Wake(k)
          \/ WaitTimesOut(k) \/ Unread(k)
      PROVE  UNCHANGED <<version, unpublished, pc, mine, subscription, snapshot,
                         refresh, outcome, cancelled, expired, late>>
  BY <1>13 DEF ServeSubscribe, ServeUnsubscribe, RunRead, CompleteRead, ArmWait,
     PollRefused, PollBatch, PollEmpty, Wake, WaitTimesOut, Unread, appVars, wakeVars,
     waitVars, Publish
<1>14. ASSUME UNCHANGED vars
      PROVE  UNCHANGED <<version, unpublished, pc, mine, subscription, snapshot,
                         refresh, outcome, cancelled, expired, late>>
  BY <1>14 DEF appVars, wakeVars, waitVars, vars
<1> QED BY <1>1, <1>2, <1>3, <1>4, <1>5, <1>6, <1>7, <1>8, <1>9, <1>10, <1>11, <1>12,
           <1>13, <1>14
       DEF Next, Waiter, Serve

\* The request in hand is what the step calls for.
LEMMA InHandKept == IInv /\ [Next]_vars => InHand'
<1> SUFFICES ASSUME IInv, [Next]_vars PROVE InHand'
  OBVIOUS
<1>0. RequestTypes /\ WaiterTypes /\ InHand
  BY DEF IInv
<1>1. ASSUME NEW k \in Slots, ServeSubscribe(k) PROVE InHand'
  BY <1>0, <1>1, WaitAssumption DEF ServeSubscribe, Reply, waitVars, InHand,
     RequestTypes, WaiterTypes, Requesting, OpOf
<1>2. ASSUME NEW k \in Slots, ServeUnsubscribe(k) PROVE InHand'
  BY <1>0, <1>2, WaitAssumption DEF ServeUnsubscribe, Reply, waitVars, InHand,
     RequestTypes, WaiterTypes, Requesting, OpOf
<1>3. ASSUME NEW k \in Slots, RunRead(k) PROVE InHand'
  BY <1>0, <1>3, WaitAssumption DEF RunRead, waitVars, InHand, RequestTypes,
     WaiterTypes, Requesting, OpOf
<1>4. ASSUME NEW k \in Slots, CompleteRead(k) PROVE InHand'
  BY <1>0, <1>4, WaitAssumption DEF CompleteRead, Publish, Reply, waitVars, InHand,
     RequestTypes, WaiterTypes, Requesting, OpOf
<1>5. ASSUME NEW k \in Slots, ArmWait(k) PROVE InHand'
  BY <1>0, <1>5, WaitAssumption DEF ArmWait, waitVars, InHand, RequestTypes,
     WaiterTypes, Requesting, OpOf
<1>6. ASSUME NEW k \in Slots, PollRefused(k) PROVE InHand'
  BY <1>0, <1>6, WaitAssumption DEF PollRefused, Reply, waitVars, InHand, RequestTypes,
     WaiterTypes, Requesting, OpOf
<1>7. ASSUME NEW k \in Slots, PollBatch(k) PROVE InHand'
  BY <1>0, <1>7, WaitAssumption DEF PollBatch, Reply, News, waitVars, InHand,
     RequestTypes, WaiterTypes, Requesting, OpOf
<1>8. ASSUME NEW k \in Slots, PollEmpty(k) PROVE InHand'
  BY <1>0, <1>8, WaitAssumption DEF PollEmpty, waitVars, InHand, RequestTypes,
     WaiterTypes, Requesting, OpOf
<1>9. ASSUME NEW k \in Slots, Wake(k) PROVE InHand'
  BY <1>0, <1>9, WaitAssumption DEF Wake, waitVars, InHand, RequestTypes, WaiterTypes,
     Requesting, OpOf
<1>10. ASSUME NEW k \in Slots, WaitTimesOut(k) PROVE InHand'
  BY <1>0, <1>10, WaitAssumption DEF WaitTimesOut, Reply, waitVars, InHand,
     RequestTypes, WaiterTypes, Requesting, OpOf
<1>11. ASSUME NEW k \in Slots, Unread(k) PROVE InHand'
  BY <1>0, <1>11, WaitAssumption DEF Unread, Close, waitVars, InHand, RequestTypes,
     WaiterTypes, Requesting, OpOf
<1>12. ASSUME Send PROVE InHand'
  BY <1>0, <1>12, WaitAssumption DEF Send, OpOf, Requesting, InHand, RequestTypes,
     WaiterTypes
<1>13. ASSUME Subscribed PROVE InHand'
  BY <1>0, <1>13, WaitAssumption DEF Subscribed, Receive, Close, InHand, RequestTypes,
     WaiterTypes, Requesting, OpOf
<1>14. ASSUME Loop PROVE InHand'
  BY <1>0, <1>14, WaitAssumption DEF Loop, Finish, reqVars, InHand, RequestTypes,
     WaiterTypes, Requesting, OpOf
<1>15. ASSUME ReadDone PROVE InHand'
  BY <1>0, <1>15, WaitAssumption DEF ReadDone, Receive, Close, Finish, InHand,
     RequestTypes, WaiterTypes, Requesting, OpOf
<1>16. ASSUME WaitDone PROVE InHand'
  BY <1>0, <1>16, WaitAssumption DEF WaitDone, Receive, Close, Finish, InHand,
     RequestTypes, WaiterTypes, Requesting, OpOf
<1>17. ASSUME DropDone PROVE InHand'
  BY <1>0, <1>17, WaitAssumption DEF DropDone, Receive, Close, Dropped, InHand,
     RequestTypes, WaiterTypes, Requesting, OpOf
<1>18. ASSUME GiveUp PROVE InHand'
  BY <1>0, <1>18, WaitAssumption DEF GiveUp, Finish, Dropped, Requesting, reqVars,
     InHand, RequestTypes, WaiterTypes, OpOf
<1>19. ASSUME UNCHANGED <<mine, stage, op, target, pc>> PROVE InHand'
  BY <1>0, <1>19 DEF InHand, RequestTypes, WaiterTypes, Requesting, OpOf
<1>20. ASSUME
          \/ Change \/ PublishChange \/ Cancel \/ Expire
      PROVE  UNCHANGED <<mine, stage, op, target, pc>>
  BY <1>20 DEF Change, PublishChange, Cancel, Expire, reqVars, waitVars, Publish
<1>21. ASSUME UNCHANGED vars
      PROVE  UNCHANGED <<mine, stage, op, target, pc>>
  BY <1>21 DEF reqVars, waitVars, vars
<1> QED BY <1>1, <1>2, <1>3, <1>4, <1>5, <1>6, <1>7, <1>8, <1>9, <1>10, <1>11, <1>12,
           <1>13, <1>14, <1>15, <1>16, <1>17, <1>18, <1>19, <1>20, <1>21
       DEF Next, Waiter, Serve

\* The waiter alone reads its queue.
LEMMA SoleReaderKept == IInv /\ [Next]_vars => SoleReader'
<1> SUFFICES ASSUME IInv, [Next]_vars PROVE SoleReader'
  OBVIOUS
<1>0. RequestTypes /\ WaiterTypes /\ InHand /\ SoleReader
  BY DEF IInv
<1>1. ASSUME NEW k \in Slots, ServeSubscribe(k) PROVE SoleReader'
  BY <1>0, <1>1, WaitAssumption DEF ServeSubscribe, Reply, waitVars, SoleReader, InHand,
     RequestTypes, WaiterTypes, Requesting, OpOf
<1>2. ASSUME NEW k \in Slots, ServeUnsubscribe(k) PROVE SoleReader'
  BY <1>0, <1>2, WaitAssumption DEF ServeUnsubscribe, Reply, waitVars, SoleReader,
     InHand, RequestTypes, WaiterTypes, Requesting, OpOf
<1>3. ASSUME NEW k \in Slots, RunRead(k) PROVE SoleReader'
  BY <1>0, <1>3, WaitAssumption DEF RunRead, waitVars, SoleReader, InHand, RequestTypes,
     WaiterTypes, Requesting, OpOf
<1>4. ASSUME NEW k \in Slots, CompleteRead(k) PROVE SoleReader'
  BY <1>0, <1>4, WaitAssumption DEF CompleteRead, Publish, Reply, waitVars, SoleReader,
     InHand, RequestTypes, WaiterTypes, Requesting, OpOf
<1>5. ASSUME NEW k \in Slots, ArmWait(k) PROVE SoleReader'
  BY <1>0, <1>5, WaitAssumption DEF ArmWait, waitVars, SoleReader, InHand, RequestTypes,
     WaiterTypes, Requesting, OpOf
<1>6. ASSUME NEW k \in Slots, PollRefused(k) PROVE SoleReader'
  BY <1>0, <1>6, WaitAssumption DEF PollRefused, Reply, waitVars, SoleReader, InHand,
     RequestTypes, WaiterTypes, Requesting, OpOf
<1>7. ASSUME NEW k \in Slots, PollBatch(k) PROVE SoleReader'
  BY <1>0, <1>7, WaitAssumption DEF PollBatch, Reply, News, waitVars, SoleReader,
     InHand, RequestTypes, WaiterTypes, Requesting, OpOf
<1>8. ASSUME NEW k \in Slots, PollEmpty(k) PROVE SoleReader'
  BY <1>0, <1>8, WaitAssumption DEF PollEmpty, waitVars, SoleReader, InHand,
     RequestTypes, WaiterTypes, Requesting, OpOf
<1>9. ASSUME NEW k \in Slots, Wake(k) PROVE SoleReader'
  BY <1>0, <1>9, WaitAssumption DEF Wake, waitVars, SoleReader, InHand, RequestTypes,
     WaiterTypes, Requesting, OpOf
<1>10. ASSUME NEW k \in Slots, WaitTimesOut(k) PROVE SoleReader'
  BY <1>0, <1>10, WaitAssumption DEF WaitTimesOut, Reply, waitVars, SoleReader, InHand,
     RequestTypes, WaiterTypes, Requesting, OpOf
<1>11. ASSUME NEW k \in Slots, Unread(k) PROVE SoleReader'
  BY <1>0, <1>11, WaitAssumption DEF Unread, Close, waitVars, SoleReader, InHand,
     RequestTypes, WaiterTypes, Requesting, OpOf
<1>12. ASSUME Send PROVE SoleReader'
  BY <1>0, <1>12, WaitAssumption DEF Send, OpOf, Requesting, SoleReader, InHand,
     RequestTypes, WaiterTypes
<1>13. ASSUME Subscribed PROVE SoleReader'
  BY <1>0, <1>13, WaitAssumption DEF Subscribed, Receive, Close, SoleReader, InHand,
     RequestTypes, WaiterTypes, Requesting, OpOf
<1>14. ASSUME Loop PROVE SoleReader'
  BY <1>0, <1>14, WaitAssumption DEF Loop, Finish, reqVars, SoleReader, InHand,
     RequestTypes, WaiterTypes, Requesting, OpOf
<1>15. ASSUME ReadDone PROVE SoleReader'
  BY <1>0, <1>15, WaitAssumption DEF ReadDone, Receive, Close, Finish, SoleReader,
     InHand, RequestTypes, WaiterTypes, Requesting, OpOf
<1>16. ASSUME WaitDone PROVE SoleReader'
  BY <1>0, <1>16, WaitAssumption DEF WaitDone, Receive, Close, Finish, SoleReader,
     InHand, RequestTypes, WaiterTypes, Requesting, OpOf
<1>17. ASSUME DropDone PROVE SoleReader'
  BY <1>0, <1>17, WaitAssumption DEF DropDone, Receive, Close, Dropped, SoleReader,
     InHand, RequestTypes, WaiterTypes, Requesting, OpOf
<1>18. ASSUME GiveUp PROVE SoleReader'
  BY <1>0, <1>18, WaitAssumption DEF GiveUp, Finish, Dropped, Requesting, reqVars,
     SoleReader, InHand, RequestTypes, WaiterTypes, OpOf
<1>19. ASSUME UNCHANGED <<mine, stage, op, target, pc, subscription>> PROVE SoleReader'
  BY <1>0, <1>19 DEF SoleReader, InHand, RequestTypes, WaiterTypes, Requesting, OpOf
<1>20. ASSUME
          \/ Change \/ PublishChange \/ Cancel \/ Expire
      PROVE  UNCHANGED <<mine, stage, op, target, pc, subscription>>
  BY <1>20 DEF Change, PublishChange, Cancel, Expire, reqVars, waitVars, Publish
<1>21. ASSUME UNCHANGED vars
      PROVE  UNCHANGED <<mine, stage, op, target, pc, subscription>>
  BY <1>21 DEF reqVars, waitVars, vars
<1> QED BY <1>1, <1>2, <1>3, <1>4, <1>5, <1>6, <1>7, <1>8, <1>9, <1>10, <1>11, <1>12,
           <1>13, <1>14, <1>15, <1>16, <1>17, <1>18, <1>19, <1>20, <1>21
       DEF Next, Waiter, Serve

\* create_subscription and a removal leave an alert in place.
LEMMA AlertStays ==
  ASSUME EventTypes, RequestTypes, WaiterTypes, NEW k \in Slots,
         ServeSubscribe(k) \/ ServeUnsubscribe(k), Alerted
  PROVE  Alerted'
<1>1. CASE ServeSubscribe(k)
  <2>1. CASE UNCHANGED subVars
    BY <1>1, <2>1 DEF ServeSubscribe, Alerted, waitVars, subVars
  <2>2. ASSUME NEW i \in Ids, i # subscription, active' = active \cup {i},
               queue' = [queue EXCEPT ![i] = <<>>], gap' = [gap EXCEPT ![i] = FALSE]
        PROVE  Alerted'
    <3>1. UNCHANGED subscription /\ (subscription \in active' => subscription \in active)
      BY <1>1, <2>2 DEF ServeSubscribe, waitVars
    <3>2. CASE subscription \notin active
      BY <3>1, <3>2 DEF Alerted
    <3>3. CASE subscription \in active
      <4>1. queue'[subscription] = queue[subscription]
            /\ gap'[subscription] = gap[subscription]
        BY <2>2, <3>3 DEF EventTypes
      <4> QED BY <3>1, <3>3, <4>1 DEF Alerted
    <3> QED BY <3>2, <3>3
  <2> QED BY <1>1, <2>1, <2>2 DEF ServeSubscribe
<1>2. CASE ServeUnsubscribe(k)
  BY <1>2 DEF ServeUnsubscribe, Alerted, waitVars
<1> QED BY <1>1, <1>2

\* What the waiter last read is the latest, or it will be told.
LEMMA SnapshotKeptKept == IInv /\ [Next]_vars => SnapshotKept'
<1> SUFFICES ASSUME IInv, [Next]_vars PROVE SnapshotKept'
  OBVIOUS
<1>0. EventTypes /\ RequestTypes /\ WaiterTypes /\ InHand /\ SoleReader /\ SnapshotKept
      /\ ReadingKept /\ SleepsQuietly
  BY DEF IInv
<1>1. ASSUME Change PROVE SnapshotKept'
  BY <1>0, <1>1, WaitAssumption DEF Change, subVars, reqVars, waitVars, SnapshotKept,
     Alerted, Current, Warned, InHand, SoleReader, RequestTypes, WaiterTypes,
     Requesting, OpOf
<1>2. ASSUME PublishChange PROVE SnapshotKept'
  <2>1. Alerted'
    BY <1>0, <1>2, Publishing, WaitAssumption DEF PublishChange, waitVars
  <2> QED BY <2>1 DEF SnapshotKept
<1>3. ASSUME NEW k \in Slots, ServeSubscribe(k) PROVE SnapshotKept'
  <2>1. /\ UNCHANGED <<pc, refresh, snapshot, unpublished, version, subscription, mine,
                       news>>
        /\ \A j \in Slots : j # k => stage'[j] = stage[j] /\ kind'[j] = kind[j]
        /\ stage[k] = "sent"
    BY <1>0, <1>3 DEF ServeSubscribe, Reply, RequestTypes, appVars, waitVars
  <2>2. Alerted => Alerted'
    BY <1>0, <1>3, AlertStays
  <2> QED BY <1>0, <2>1, <2>2 DEF SnapshotKept, Current, Warned, WaiterTypes
<1>4. ASSUME NEW k \in Slots, ServeUnsubscribe(k) PROVE SnapshotKept'
  <2>1. /\ UNCHANGED <<pc, refresh, snapshot, unpublished, version, subscription, mine,
                       news>>
        /\ \A j \in Slots : j # k => stage'[j] = stage[j] /\ kind'[j] = kind[j]
        /\ stage[k] = "sent"
    BY <1>0, <1>4 DEF ServeUnsubscribe, Reply, RequestTypes, appVars, waitVars
  <2>2. Alerted => Alerted'
    BY <1>0, <1>4, AlertStays
  <2> QED BY <1>0, <2>1, <2>2 DEF SnapshotKept, Current, Warned, WaiterTypes
<1>5. ASSUME NEW k \in Slots, RunRead(k) PROVE SnapshotKept'
  BY <1>0, <1>5, WaitAssumption DEF RunRead, appVars, subVars, waitVars, SnapshotKept,
     Alerted, Current, Warned, InHand, SoleReader, RequestTypes, WaiterTypes,
     Requesting, OpOf
<1>6. ASSUME NEW k \in Slots, CompleteRead(k) PROVE SnapshotKept'
  <2>1. /\ UNCHANGED <<pc, refresh, snapshot, unpublished, version, subscription, mine,
                       news>>
        /\ \A j \in Slots : j # k => stage'[j] = stage[j] /\ kind'[j] = kind[j]
        /\ stage[k] = "ran"
    BY <1>0, <1>6 DEF CompleteRead, Reply, RequestTypes, appVars, waitVars
  <2>2. Alerted => Alerted'
    BY <1>0, <1>6, <2>1, Publishing, WaitAssumption DEF CompleteRead
  <2> QED BY <1>0, <2>1, <2>2 DEF SnapshotKept, Current, Warned, WaiterTypes
<1>7. ASSUME NEW k \in Slots, ArmWait(k) PROVE SnapshotKept'
  BY <1>0, <1>7, WaitAssumption DEF ArmWait, appVars, subVars, waitVars, SnapshotKept,
     Alerted, Current, Warned, InHand, SoleReader, RequestTypes, WaiterTypes,
     Requesting, OpOf
<1>8. ASSUME NEW k \in Slots, PollRefused(k) PROVE SnapshotKept'
  BY <1>0, <1>8, WaitAssumption DEF PollRefused, Reply, appVars, subVars, waitVars,
     SnapshotKept, Alerted, Current, Warned, InHand, SoleReader, RequestTypes,
     WaiterTypes, Requesting, OpOf
<1>9. ASSUME NEW k \in Slots, PollBatch(k) PROVE SnapshotKept'
  <2>0. UNCHANGED <<pc, refresh, snapshot, unpublished, version, subscription, mine,
                    active, gap>>
    BY <1>9 DEF PollBatch, appVars, waitVars
  <2>1. CASE k # mine
    <3>1. pc \in {"exit", "done"}
      BY <1>0, <1>9, <2>1 DEF PollBatch, InHand, SoleReader
    <3> QED BY <2>0, <3>1 DEF SnapshotKept
  <2>2. CASE k = mine
    <3>1. subscription = target[k] /\ subscription \in active /\ subscription \in Ids
      BY <1>0, <1>9, <2>2 DEF PollBatch, InHand, SoleReader, EventTypes
    <3> DEFINE q == queue[subscription]
    <3>2. PICK n \in 1 .. Len(q) :
            /\ queue' = [queue EXCEPT ![subscription] = SubSeq(q, n + 1, Len(q))]
            /\ news' = [news EXCEPT ![k] = News(q, n)]
      BY <1>9, <3>1 DEF PollBatch
    <3>3. q \in Seq({"own", "other"})
      BY <1>0, <3>1 DEF EventTypes
    <3>4. queue'[subscription] = SubSeq(q, n + 1, Len(q)) /\ news'[k] = News(q, n)
      BY <1>0, <3>1, <3>2 DEF EventTypes, RequestTypes
    <3>5. Alerted => Alerted' \/ news'[k]
      <4>1. CASE gap[subscription]
        BY <2>0, <4>1 DEF Alerted
      <4>2. CASE \E j \in 1 .. Len(q) : q[j] = "other"
        <5>1. \/ News(q, n)
              \/ \E j \in 1 .. Len(SubSeq(q, n + 1, Len(q))) :
                   SubSeq(q, n + 1, Len(q))[j] = "other"
          BY <3>3, <4>2, CutNews
        <5> HIDE DEF q
        <5>2. CASE News(q, n)
          BY <3>4, <5>2
        <5>3. CASE \E j \in 1 .. Len(SubSeq(q, n + 1, Len(q))) :
                     SubSeq(q, n + 1, Len(q))[j] = "other"
          <6>1. \E j \in 1 .. Len(queue'[subscription]) : queue'[subscription][j] = "other"
            BY <3>4, <5>3
          <6>2. subscription' = subscription
            BY <2>0
          <6> QED BY <6>1, <6>2 DEF Alerted
        <5> QED BY <5>1, <5>2, <5>3
      <4> QED BY <3>1, <4>1, <4>2 DEF Alerted
    <3>6. stage'[mine] = "reply" /\ ~Warned
      BY <1>0, <1>9, <2>2 DEF PollBatch, Reply, RequestTypes, Warned
    <3>7. mine # NoSlot /\ pc = "wait"
      BY <1>0, <1>9, <2>2, WaitAssumption DEF PollBatch, InHand, OpOf, Requesting
    <3> QED BY <1>0, <2>0, <2>2, <3>5, <3>6, <3>7 DEF SnapshotKept, Current, Warned
  <2> QED BY <2>1, <2>2
<1>10. ASSUME NEW k \in Slots, PollEmpty(k) PROVE SnapshotKept'
  BY <1>0, <1>10, WaitAssumption DEF PollEmpty, appVars, subVars, waitVars,
     SnapshotKept, Alerted, Current, Warned, InHand, SoleReader, RequestTypes,
     WaiterTypes, Requesting, OpOf
<1>11. ASSUME NEW k \in Slots, Wake(k) PROVE SnapshotKept'
  BY <1>0, <1>11, WaitAssumption DEF Wake, appVars, subVars, waitVars, SnapshotKept,
     Alerted, Current, Warned, InHand, SoleReader, RequestTypes, WaiterTypes,
     Requesting, OpOf
<1>12. ASSUME NEW k \in Slots, WaitTimesOut(k) PROVE SnapshotKept'
  BY <1>0, <1>12, WaitAssumption DEF WaitTimesOut, Reply, appVars, subVars, waitVars,
     SnapshotKept, Alerted, Current, Warned, InHand, SoleReader, RequestTypes,
     WaiterTypes, Requesting, OpOf
<1>13. ASSUME NEW k \in Slots, Unread(k) PROVE SnapshotKept'
  BY <1>0, <1>13, WaitAssumption DEF Unread, Close, appVars, subVars, waitVars,
     SnapshotKept, Alerted, Current, Warned, InHand, SoleReader, RequestTypes,
     WaiterTypes, Requesting, OpOf
<1>14. ASSUME Send PROVE SnapshotKept'
  BY <1>0, <1>14, WaitAssumption DEF Send, OpOf, Requesting, appVars, subVars,
     SnapshotKept, Alerted, Current, Warned, InHand, SoleReader, RequestTypes,
     WaiterTypes
<1>15. ASSUME Subscribed PROVE SnapshotKept'
  BY <1>0, <1>15, WaitAssumption DEF Subscribed, Receive, Close, appVars, subVars,
     SnapshotKept, Alerted, Current, Warned, InHand, SoleReader, RequestTypes,
     WaiterTypes, Requesting, OpOf
<1>16. ASSUME Loop PROVE SnapshotKept'
  BY <1>0, <1>16, WaitAssumption DEF Loop, Finish, appVars, subVars, reqVars,
     SnapshotKept, Alerted, Current, Warned, InHand, SoleReader, RequestTypes,
     WaiterTypes, Requesting, OpOf
<1>17. ASSUME ReadDone PROVE SnapshotKept'
  <2>0. /\ mine # NoSlot /\ stage[mine] = "reply" /\ op[mine] = "read" /\ mine \in Slots
        /\ UNCHANGED <<unpublished, version, active, gap, queue, subscription>>
    BY <1>0, <1>17 DEF ReadDone, Receive, appVars, subVars, WaiterTypes
  <2>1. CASE Finish("error") \/ Finish("matched")
    BY <2>1 DEF Finish, SnapshotKept
  <2>2. CASE snapshot' = value[mine]
    <3>1. pc = "read"
      BY <1>0, <2>0 DEF InHand, OpOf, Requesting
    <3>2. Current(value[mine]) \/ Alerted
      BY <1>0, <2>0, <3>1 DEF ReadingKept
    <3> QED BY <2>0, <2>2, <3>2 DEF SnapshotKept, Current, Alerted
  <2> QED BY <1>17, <2>1, <2>2 DEF ReadDone
<1>18. ASSUME WaitDone PROVE SnapshotKept'
  BY <1>0, <1>18, WaitAssumption DEF WaitDone, Receive, Close, Finish, appVars, subVars,
     SnapshotKept, Alerted, Current, Warned, InHand, SoleReader, RequestTypes,
     WaiterTypes, Requesting, OpOf
<1>19. ASSUME DropDone PROVE SnapshotKept'
  BY <1>0, <1>19, WaitAssumption DEF DropDone, Receive, Close, Dropped, appVars,
     subVars, SnapshotKept, Alerted, Current, Warned, InHand, SoleReader, RequestTypes,
     WaiterTypes, Requesting, OpOf
<1>20. ASSUME GiveUp PROVE SnapshotKept'
  BY <1>0, <1>20, WaitAssumption DEF GiveUp, Finish, Dropped, Requesting, appVars,
     subVars, reqVars, SnapshotKept, Alerted, Current, Warned, InHand, SoleReader,
     RequestTypes, WaiterTypes, OpOf
<1>21. ASSUME UNCHANGED <<pc, refresh, snapshot, unpublished, version, active, gap,
                          queue, subscription, mine, stage, kind, news>>
       PROVE SnapshotKept'
  BY <1>0, <1>21 DEF SnapshotKept, Alerted, Current, Warned, InHand, SoleReader,
     RequestTypes, WaiterTypes, Requesting, OpOf
<1>22. ASSUME
          \/ Cancel \/ Expire
      PROVE  UNCHANGED <<pc, refresh, snapshot, unpublished, version, active, gap,
                         queue, subscription, mine, stage, kind, news>>
  BY <1>22 DEF Cancel, Expire, appVars, subVars, reqVars, waitVars
<1>23. ASSUME UNCHANGED vars
      PROVE  UNCHANGED <<pc, refresh, snapshot, unpublished, version, active, gap,
                         queue, subscription, mine, stage, kind, news>>
  BY <1>23 DEF appVars, subVars, reqVars, waitVars, vars
<1> QED BY <1>1, <1>2, <1>3, <1>4, <1>5, <1>6, <1>7, <1>8, <1>9, <1>10, <1>11, <1>12,
           <1>13, <1>14, <1>15, <1>16, <1>17, <1>18, <1>19, <1>20, <1>21, <1>22, <1>23
       DEF Next, Waiter, Serve

\* What a read brings is the latest, or the waiter will be told.
LEMMA ReadingKeptKept == IInv /\ [Next]_vars => ReadingKept'
<1> SUFFICES ASSUME IInv, [Next]_vars PROVE ReadingKept'
  OBVIOUS
<1>0. EventTypes /\ RequestTypes /\ WaiterTypes /\ InHand /\ SoleReader /\ ReadingKept
  BY DEF IInv
<1>1. ASSUME Change PROVE ReadingKept'
  BY <1>0, <1>1, WaitAssumption DEF Change, subVars, reqVars, waitVars, ReadingKept,
     Alerted, Current, InHand, SoleReader, RequestTypes, WaiterTypes, Requesting, OpOf
<1>2. ASSUME PublishChange PROVE ReadingKept'
  <2>1. Alerted'
    BY <1>0, <1>2, Publishing, WaitAssumption DEF PublishChange, waitVars
  <2> QED BY <2>1 DEF ReadingKept
<1>3. ASSUME NEW k \in Slots, ServeSubscribe(k) PROVE ReadingKept'
  <2>1. /\ UNCHANGED <<pc, refresh, snapshot, unpublished, version, subscription, mine,
                       value>>
        /\ \A j \in Slots : j # k => stage'[j] = stage[j] /\ kind'[j] = kind[j]
        /\ stage[k] = "sent"
    BY <1>0, <1>3 DEF ServeSubscribe, Reply, RequestTypes, appVars, waitVars
  <2>2. Alerted => Alerted'
    BY <1>0, <1>3, AlertStays
  <2>3. pc = "read" /\ mine # NoSlot => k # mine
    BY <1>0, <1>3 DEF ServeSubscribe, InHand, OpOf
  <2> QED BY <1>0, <2>1, <2>2, <2>3 DEF ReadingKept, Current, WaiterTypes
<1>4. ASSUME NEW k \in Slots, ServeUnsubscribe(k) PROVE ReadingKept'
  <2>1. /\ UNCHANGED <<pc, refresh, snapshot, unpublished, version, subscription, mine,
                       value>>
        /\ \A j \in Slots : j # k => stage'[j] = stage[j] /\ kind'[j] = kind[j]
        /\ stage[k] = "sent"
    BY <1>0, <1>4 DEF ServeUnsubscribe, Reply, RequestTypes, appVars, waitVars
  <2>2. Alerted => Alerted'
    BY <1>0, <1>4, AlertStays
  <2>3. pc = "read" /\ mine # NoSlot => k # mine
    BY <1>0, <1>4 DEF ServeUnsubscribe, InHand, OpOf
  <2> QED BY <1>0, <2>1, <2>2, <2>3 DEF ReadingKept, Current, WaiterTypes
<1>5. ASSUME NEW k \in Slots, RunRead(k) PROVE ReadingKept'
  BY <1>0, <1>5, WaitAssumption DEF RunRead, appVars, subVars, waitVars, ReadingKept,
     Alerted, Current, InHand, SoleReader, RequestTypes, WaiterTypes, Requesting, OpOf
<1>6. ASSUME NEW k \in Slots, CompleteRead(k) PROVE ReadingKept'
  <2>1. /\ UNCHANGED <<pc, refresh, snapshot, unpublished, version, subscription, mine,
                       value>>
        /\ \A j \in Slots : j # k => stage'[j] = stage[j] /\ kind'[j] = kind[j]
        /\ stage[k] = "ran"
    BY <1>0, <1>6 DEF CompleteRead, Reply, RequestTypes, appVars, waitVars
  <2>2. Alerted => Alerted'
    BY <1>0, <1>6, <2>1, Publishing, WaitAssumption DEF CompleteRead
  <2> QED BY <1>0, <2>1, <2>2 DEF ReadingKept, Current, WaiterTypes
<1>7. ASSUME NEW k \in Slots, ArmWait(k) PROVE ReadingKept'
  BY <1>0, <1>7, WaitAssumption DEF ArmWait, appVars, subVars, waitVars, ReadingKept,
     Alerted, Current, InHand, SoleReader, RequestTypes, WaiterTypes, Requesting, OpOf
<1>8. ASSUME NEW k \in Slots, PollRefused(k) PROVE ReadingKept'
  BY <1>0, <1>8, WaitAssumption DEF PollRefused, Reply, appVars, subVars, waitVars,
     ReadingKept, Alerted, Current, InHand, SoleReader, RequestTypes, WaiterTypes,
     Requesting, OpOf
<1>9. ASSUME NEW k \in Slots, PollBatch(k) PROVE ReadingKept'
  <2>1. pc \notin {"read"} \/ mine = NoSlot
    BY <1>0, <1>9 DEF PollBatch, InHand, SoleReader, OpOf
  <2> QED BY <1>9, <2>1 DEF PollBatch, ReadingKept, waitVars
<1>10. ASSUME NEW k \in Slots, PollEmpty(k) PROVE ReadingKept'
  BY <1>0, <1>10, WaitAssumption DEF PollEmpty, appVars, subVars, waitVars, ReadingKept,
     Alerted, Current, InHand, SoleReader, RequestTypes, WaiterTypes, Requesting, OpOf
<1>11. ASSUME NEW k \in Slots, Wake(k) PROVE ReadingKept'
  BY <1>0, <1>11, WaitAssumption DEF Wake, appVars, subVars, waitVars, ReadingKept,
     Alerted, Current, InHand, SoleReader, RequestTypes, WaiterTypes, Requesting, OpOf
<1>12. ASSUME NEW k \in Slots, WaitTimesOut(k) PROVE ReadingKept'
  BY <1>0, <1>12, WaitAssumption DEF WaitTimesOut, Reply, appVars, subVars, waitVars,
     ReadingKept, Alerted, Current, InHand, SoleReader, RequestTypes, WaiterTypes,
     Requesting, OpOf
<1>13. ASSUME NEW k \in Slots, Unread(k) PROVE ReadingKept'
  BY <1>0, <1>13, WaitAssumption DEF Unread, Close, appVars, subVars, waitVars,
     ReadingKept, Alerted, Current, InHand, SoleReader, RequestTypes, WaiterTypes,
     Requesting, OpOf
<1>14. ASSUME Send PROVE ReadingKept'
  BY <1>0, <1>14, WaitAssumption DEF Send, OpOf, Requesting, appVars, subVars,
     ReadingKept, Alerted, Current, InHand, SoleReader, RequestTypes, WaiterTypes
<1>15. ASSUME Subscribed PROVE ReadingKept'
  BY <1>0, <1>15, WaitAssumption DEF Subscribed, Receive, Close, appVars, subVars,
     ReadingKept, Alerted, Current, InHand, SoleReader, RequestTypes, WaiterTypes,
     Requesting, OpOf
<1>16. ASSUME Loop PROVE ReadingKept'
  BY <1>0, <1>16, WaitAssumption DEF Loop, Finish, appVars, subVars, reqVars,
     ReadingKept, Alerted, Current, InHand, SoleReader, RequestTypes, WaiterTypes,
     Requesting, OpOf
<1>17. ASSUME ReadDone PROVE ReadingKept'
  BY <1>0, <1>17, WaitAssumption DEF ReadDone, Receive, Close, Finish, appVars, subVars,
     ReadingKept, Alerted, Current, InHand, SoleReader, RequestTypes, WaiterTypes,
     Requesting, OpOf
<1>18. ASSUME WaitDone PROVE ReadingKept'
  BY <1>0, <1>18, WaitAssumption DEF WaitDone, Receive, Close, Finish, appVars, subVars,
     ReadingKept, Alerted, Current, InHand, SoleReader, RequestTypes, WaiterTypes,
     Requesting, OpOf
<1>19. ASSUME DropDone PROVE ReadingKept'
  BY <1>0, <1>19, WaitAssumption DEF DropDone, Receive, Close, Dropped, appVars,
     subVars, ReadingKept, Alerted, Current, InHand, SoleReader, RequestTypes,
     WaiterTypes, Requesting, OpOf
<1>20. ASSUME GiveUp PROVE ReadingKept'
  BY <1>0, <1>20, WaitAssumption DEF GiveUp, Finish, Dropped, Requesting, appVars,
     subVars, reqVars, ReadingKept, Alerted, Current, InHand, SoleReader, RequestTypes,
     WaiterTypes, OpOf
<1>21. ASSUME UNCHANGED <<pc, mine, stage, value, unpublished, version, active, gap,
                          queue, subscription>>
       PROVE ReadingKept'
  BY <1>0, <1>21 DEF ReadingKept, Alerted, Current, InHand, SoleReader, RequestTypes,
     WaiterTypes, Requesting, OpOf
<1>22. ASSUME
          \/ Cancel \/ Expire
      PROVE  UNCHANGED <<pc, mine, stage, value, unpublished, version, active, gap,
                         queue, subscription>>
  BY <1>22 DEF Cancel, Expire, appVars, subVars, reqVars, waitVars
<1>23. ASSUME UNCHANGED vars
      PROVE  UNCHANGED <<pc, mine, stage, value, unpublished, version, active, gap,
                         queue, subscription>>
  BY <1>23 DEF appVars, subVars, reqVars, waitVars, vars
<1> QED BY <1>1, <1>2, <1>3, <1>4, <1>5, <1>6, <1>7, <1>8, <1>9, <1>10, <1>11, <1>12,
           <1>13, <1>14, <1>15, <1>16, <1>17, <1>18, <1>19, <1>20, <1>21, <1>22, <1>23
       DEF Next, Waiter, Serve

\* Nothing is published past a sleeping event.wait.
LEMMA SleepsQuietlyKept == IInv /\ [Next]_vars => SleepsQuietly'
<1> SUFFICES ASSUME IInv, [Next]_vars PROVE SleepsQuietly'
  OBVIOUS
<1>0. EventTypes /\ RequestTypes /\ WaiterTypes /\ InHand /\ SoleReader /\ SleepsQuietly
  BY DEF IInv
<1>1. ASSUME PublishChange PROVE SleepsQuietly'
  <2>1. \A j \in Slots : stage'[j] = "blocked" => stage[j] = "blocked" /\ bell'[j]
    BY <1>0, <1>1, Publishing, WaitAssumption DEF PublishChange
  <2>2. mine' # NoSlot => mine' \in Slots
    BY <1>0, <1>1 DEF PublishChange, WaiterTypes, waitVars
  <2> QED BY <2>1, <2>2 DEF SleepsQuietly
<1>2. ASSUME NEW k \in Slots, ServeSubscribe(k) PROVE SleepsQuietly'
  BY <1>0, <1>2, WaitAssumption DEF ServeSubscribe, Reply, subVars, waitVars,
     SleepsQuietly, Alerted, InHand, SoleReader, RequestTypes, WaiterTypes, EventTypes,
     Requesting, OpOf
<1>3. ASSUME NEW k \in Slots, ServeUnsubscribe(k) PROVE SleepsQuietly'
  BY <1>0, <1>3, WaitAssumption DEF ServeUnsubscribe, Reply, waitVars, SleepsQuietly,
     Alerted, InHand, SoleReader, RequestTypes, WaiterTypes, EventTypes, Requesting,
     OpOf
<1>4. ASSUME NEW k \in Slots, RunRead(k) PROVE SleepsQuietly'
  BY <1>0, <1>4, WaitAssumption DEF RunRead, subVars, waitVars, SleepsQuietly, Alerted,
     InHand, SoleReader, RequestTypes, WaiterTypes, EventTypes, Requesting, OpOf
<1>5. ASSUME NEW k \in Slots, CompleteRead(k) PROVE SleepsQuietly'
  <2>1. \A j \in Slots : stage'[j] = "blocked" => stage[j] = "blocked" /\ bell'[j]
    BY <1>0, <1>5, Publishing, WaitAssumption DEF CompleteRead, Reply, RequestTypes
  <2>2. mine' # NoSlot => mine' \in Slots
    BY <1>0, <1>5 DEF CompleteRead, WaiterTypes, waitVars
  <2> QED BY <2>1, <2>2 DEF SleepsQuietly
<1>6. ASSUME NEW k \in Slots, ArmWait(k) PROVE SleepsQuietly'
  BY <1>0, <1>6, WaitAssumption DEF ArmWait, subVars, waitVars, SleepsQuietly, Alerted,
     InHand, SoleReader, RequestTypes, WaiterTypes, EventTypes, Requesting, OpOf
<1>7. ASSUME NEW k \in Slots, PollRefused(k) PROVE SleepsQuietly'
  BY <1>0, <1>7, WaitAssumption DEF PollRefused, Reply, subVars, waitVars,
     SleepsQuietly, Alerted, InHand, SoleReader, RequestTypes, WaiterTypes, EventTypes,
     Requesting, OpOf
<1>8. ASSUME NEW k \in Slots, PollBatch(k) PROVE SleepsQuietly'
  BY <1>0, <1>8, WaitAssumption DEF PollBatch, Reply, News, waitVars, SleepsQuietly,
     Alerted, InHand, SoleReader, RequestTypes, WaiterTypes, EventTypes, Requesting,
     OpOf
<1>9. ASSUME NEW k \in Slots, PollEmpty(k) PROVE SleepsQuietly'
  BY <1>0, <1>9, WaitAssumption DEF PollEmpty, subVars, waitVars, SleepsQuietly,
     Alerted, InHand, SoleReader, RequestTypes, WaiterTypes, EventTypes, Requesting,
     OpOf
<1>10. ASSUME NEW k \in Slots, Wake(k) PROVE SleepsQuietly'
  BY <1>0, <1>10, WaitAssumption DEF Wake, subVars, waitVars, SleepsQuietly, Alerted,
     InHand, SoleReader, RequestTypes, WaiterTypes, EventTypes, Requesting, OpOf
<1>11. ASSUME NEW k \in Slots, WaitTimesOut(k) PROVE SleepsQuietly'
  BY <1>0, <1>11, WaitAssumption DEF WaitTimesOut, Reply, subVars, waitVars,
     SleepsQuietly, Alerted, InHand, SoleReader, RequestTypes, WaiterTypes, EventTypes,
     Requesting, OpOf
<1>12. ASSUME NEW k \in Slots, Unread(k) PROVE SleepsQuietly'
  BY <1>0, <1>12, WaitAssumption DEF Unread, Close, subVars, waitVars, SleepsQuietly,
     Alerted, InHand, SoleReader, RequestTypes, WaiterTypes, EventTypes, Requesting,
     OpOf
<1>13. ASSUME Send PROVE SleepsQuietly'
  BY <1>0, <1>13, WaitAssumption DEF Send, OpOf, Requesting, subVars, SleepsQuietly,
     Alerted, InHand, SoleReader, RequestTypes, WaiterTypes, EventTypes
<1>14. ASSUME Subscribed PROVE SleepsQuietly'
  BY <1>0, <1>14, WaitAssumption DEF Subscribed, Receive, Close, subVars, SleepsQuietly,
     Alerted, InHand, SoleReader, RequestTypes, WaiterTypes, EventTypes, Requesting,
     OpOf
<1>15. ASSUME ReadDone PROVE SleepsQuietly'
  BY <1>0, <1>15, WaitAssumption DEF ReadDone, Receive, Close, Finish, subVars,
     SleepsQuietly, Alerted, InHand, SoleReader, RequestTypes, WaiterTypes, EventTypes,
     Requesting, OpOf
<1>16. ASSUME WaitDone PROVE SleepsQuietly'
  BY <1>0, <1>16, WaitAssumption DEF WaitDone, Receive, Close, Finish, subVars,
     SleepsQuietly, Alerted, InHand, SoleReader, RequestTypes, WaiterTypes, EventTypes,
     Requesting, OpOf
<1>17. ASSUME DropDone PROVE SleepsQuietly'
  BY <1>0, <1>17, WaitAssumption DEF DropDone, Receive, Close, Dropped, subVars,
     SleepsQuietly, Alerted, InHand, SoleReader, RequestTypes, WaiterTypes, EventTypes,
     Requesting, OpOf
<1>18. ASSUME GiveUp PROVE SleepsQuietly'
  BY <1>0, <1>18, WaitAssumption DEF GiveUp, Finish, Dropped, Requesting, subVars,
     reqVars, SleepsQuietly, Alerted, InHand, SoleReader, RequestTypes, WaiterTypes,
     EventTypes, OpOf
<1>19. ASSUME UNCHANGED <<mine, stage, bell, active, gap, queue, subscription>>
       PROVE SleepsQuietly'
  BY <1>0, <1>19 DEF SleepsQuietly, Alerted, InHand, SoleReader, RequestTypes,
     WaiterTypes, EventTypes, Requesting, OpOf
<1>20. ASSUME
          \/ Change \/ Loop \/ Cancel \/ Expire
      PROVE  UNCHANGED <<mine, stage, bell, active, gap, queue, subscription>>
  BY <1>20 DEF Change, Loop, Cancel, Expire, subVars, reqVars, waitVars
<1>21. ASSUME UNCHANGED vars
      PROVE  UNCHANGED <<mine, stage, bell, active, gap, queue, subscription>>
  BY <1>21 DEF subVars, reqVars, waitVars, vars
<1> QED BY <1>1, <1>2, <1>3, <1>4, <1>5, <1>6, <1>7, <1>8, <1>9, <1>10, <1>11, <1>12,
           <1>13, <1>14, <1>15, <1>16, <1>17, <1>18, <1>19, <1>20, <1>21
       DEF Next, Waiter, Serve

\* Each step after Ctrl+C spends one of the three requests.
LEMMA SpentKept == IInv /\ [Next]_vars => Spent'
<1> SUFFICES ASSUME IInv, [Next]_vars PROVE Spent'
  OBVIOUS
<1>0. RequestTypes /\ WaiterTypes /\ InHand /\ Spent
  BY DEF IInv
<1>1. ASSUME Send PROVE Spent'
  BY <1>0, <1>1, WaitAssumption DEF Send, OpOf, Requesting, wakeVars, Spent, InHand,
     WaiterTypes
<1>2. ASSUME Subscribed PROVE Spent'
  BY <1>0, <1>2, WaitAssumption DEF Subscribed, Receive, Close, wakeVars, Spent, InHand,
     WaiterTypes, Requesting, OpOf
<1>3. ASSUME Loop PROVE Spent'
  BY <1>0, <1>3, WaitAssumption DEF Loop, Finish, wakeVars, Spent, InHand, WaiterTypes,
     Requesting, OpOf
<1>4. ASSUME ReadDone PROVE Spent'
  BY <1>0, <1>4, WaitAssumption DEF ReadDone, Receive, Close, Finish, wakeVars, Spent,
     InHand, WaiterTypes, Requesting, OpOf
<1>5. ASSUME WaitDone PROVE Spent'
  BY <1>0, <1>5, WaitAssumption DEF WaitDone, Receive, Close, Finish, wakeVars, Spent,
     InHand, WaiterTypes, Requesting, OpOf
<1>6. ASSUME DropDone PROVE Spent'
  BY <1>0, <1>6, WaitAssumption DEF DropDone, Receive, Close, Dropped, wakeVars, Spent,
     InHand, WaiterTypes, Requesting, OpOf
<1>7. ASSUME GiveUp PROVE Spent'
  BY <1>0, <1>7, WaitAssumption DEF GiveUp, Finish, Dropped, Requesting, wakeVars,
     Spent, InHand, WaiterTypes, OpOf
<1>8. ASSUME Cancel PROVE Spent'
  BY <1>0, <1>8, WaitAssumption DEF Cancel, OpOf, Spent, InHand, WaiterTypes, Requesting
<1>9. ASSUME UNCHANGED <<late, cancelled, pc, mine>> PROVE Spent'
  BY <1>0, <1>9 DEF Spent, InHand, WaiterTypes, Requesting, OpOf
<1>10. ASSUME
          \/ Change \/ PublishChange \/ Expire
      PROVE  UNCHANGED <<late, cancelled, pc, mine>>
  BY <1>10 DEF Change, PublishChange, Expire, wakeVars, waitVars, Publish
<1>11. ASSUME NEW k \in Slots,
          \/ ServeSubscribe(k) \/ ServeUnsubscribe(k) \/ RunRead(k) \/ CompleteRead(k)
          \/ ArmWait(k) \/ PollRefused(k) \/ PollBatch(k) \/ PollEmpty(k) \/ Wake(k)
          \/ WaitTimesOut(k) \/ Unread(k)
      PROVE  UNCHANGED <<late, cancelled, pc, mine>>
  BY <1>11 DEF ServeSubscribe, ServeUnsubscribe, RunRead, CompleteRead, ArmWait,
     PollRefused, PollBatch, PollEmpty, Wake, WaitTimesOut, Unread, wakeVars, waitVars,
     Publish
<1>12. ASSUME UNCHANGED vars
      PROVE  UNCHANGED <<late, cancelled, pc, mine>>
  BY <1>12 DEF wakeVars, waitVars, vars
<1> QED BY <1>1, <1>2, <1>3, <1>4, <1>5, <1>6, <1>7, <1>8, <1>9, <1>10, <1>11, <1>12
       DEF Next, Waiter, Serve

--------------------------------------------------------------------------------
(* The theorems *)

LEMMA Inductive == Spec => []IInv
<1>1. ASSUME Init PROVE IInv
  <2>1. <<>> \in Seq({"own", "other"})
    BY EmptySeq
  <2>2. EventTypes
    BY <1>1, <2>1 DEF Init, EventTypes
  <2>3. RequestTypes
    BY <1>1 DEF Init, RequestTypes
  <2>4. WaiterTypes /\ Spent
    <3>1. WaiterTypes
      <4>1. -1 \in Nat \cup {-1}
        OBVIOUS
      <4> QED BY <1>1, <4>1 DEF Init, WaiterTypes, Requesting
    <3>2. Spent
      BY <1>1 DEF Init, Spent
    <3> QED BY <3>1, <3>2
  <2>5. InHand /\ SoleReader
    BY <1>1 DEF Init, InHand, SoleReader
  <2>6. SnapshotKept /\ ReadingKept /\ SleepsQuietly
    BY <1>1 DEF Init, SnapshotKept, ReadingKept, SleepsQuietly
  <2> QED BY <2>2, <2>3, <2>4, <2>5, <2>6 DEF IInv
<1>2. ASSUME IInv, [Next]_vars PROVE IInv'
  BY <1>2, EventTypesKept, RequestTypesKept, WaiterTypesKept, InHandKept, SoleReaderKept,
     SnapshotKeptKept, ReadingKeptKept, SleepsQuietlyKept, SpentKept DEF IInv
<1> QED BY <1>1, <1>2, PTL DEF Spec

\* A waiter asleep in event.wait with nothing to wake it has read the latest
\* state whose event is out: no wakeup is lost between its reads, its queue and
\* the watch channel, with gaps, batches and requests it gave up on (wait_for_command,
\* wait_events).
THEOREM SleepersAreCurrent == Spec => []SleeperCurrent
<1>1. ASSUME IInv PROVE SleeperCurrent
  <2> SUFFICES ASSUME NEW k \in Slots, k = mine, stage[k] = "blocked", ~bell[k]
               PROVE  snapshot + unpublished >= version
    BY DEF SleeperCurrent
  <2>1. RequestTypes /\ WaiterTypes /\ InHand /\ SnapshotKept /\ SleepsQuietly
    BY <1>1 DEF IInv
  <2>2. mine # NoSlot
    BY WaitAssumption
  <2>3. pc = "wait"
    BY <2>1, <2>2 DEF InHand, OpOf, Requesting
  <2>4. ~Alerted /\ ~Warned
    BY <2>1, <2>2 DEF SleepsQuietly, Warned
  <2> QED BY <2>1, <2>3, <2>4 DEF SnapshotKept, Current
<1> QED BY <1>1, Inductive, PTL

\* After Ctrl+C the waiter waits for at most three requests more, besides the
\* removal of its subscription, in well typed states (wait_for_command).
THEOREM CtrlCIsBounded == Spec => []CtrlCBounded
<1>1. ASSUME IInv PROVE CtrlCBounded
  BY <1>1 DEF IInv, EventTypes, RequestTypes, WaiterTypes, Spent, CtrlCBounded, TypeOK
<1> QED BY <1>1, Inductive, PTL
=================================================================================
