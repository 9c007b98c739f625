----------------------------- MODULE ControlEvents -----------------------------
(***************************************************************************)
(* Event subscriptions of the control plane (bootty-control: state.rs and  *)
(* the event methods of server.rs).                                        *)
(*                                                                         *)
(* A subscription queues the events of its topics; a client takes them in  *)
(* batches, naming the cursor of the last event it has.  Every request is  *)
(* a connection of its own: a client may give up on one and ask again, and *)
(* the abandoned request still runs at the server.  An action is one       *)
(* critical section of the ControlState mutex or one step between two.     *)
(*                                                                         *)
(* An instance has one event scope, so the scope of subscriptions and      *)
(* events is left out; the revision counts the publications and stands for *)
(* an event's identity.  The data of a rebase error is left out.           *)
(***************************************************************************)
EXTENDS Integers, Sequences, FiniteSets, FiniteSetsExt

CONSTANTS
  Subs,             \* subscription capability ids, each issued once
  Calls,            \* connections serving an event request
  NoCall,
  Topics,
  Sizes,            \* encoded sizes of events
  BatchBytes,       \* REQUEST_LIMIT / 2
  QueueLimit,       \* EVENT_QUEUE_LIMIT
  MaxSubscriptions, \* MAX_SUBSCRIPTIONS
  MaxSequence,      \* u64::MAX
  MaxEvents         \* bound: publications

ASSUME EventsAssumption ==
  /\ Subs # {} /\ NoCall \notin Calls
  /\ Sizes \subseteq Nat /\ BatchBytes \in Nat
  /\ QueueLimit \in Nat /\ MaxSubscriptions \in Nat
  /\ MaxSequence \in Nat /\ MaxEvents \in Nat

VARIABLES
  active,   \* the keys of ControlState::subscriptions
  sub,      \* SubscriptionRecord of each
  revision, \* the scope's entry of ControlState::revisions
  call,     \* requests at the server, and their answers on the way back
  client,   \* "new", "live", or "ended" once told to start over, per subscription
  asked,    \* the call its client is waiting for
  cursor,   \* the cursor its client holds
  got,      \* history: the events its client was given
  log       \* history: the events published to it

serverVars == <<active, sub, revision>>
clientVars == <<client, asked, cursor, got>>
vars == <<serverVars, call, clientVars, log>>

--------------------------------------------------------------------------------
Event == [sequence : Nat, revision : Nat, topic : Topics, bytes : Sizes]

Record == [topics : SUBSET Topics, sequence : Nat, cursor : Nat,
           events : Seq(Event), gap : BOOLEAN]

\* A request: where it is, what it asks, whether its watch receiver has an
\* unseen change, and the answer (a batch and its cursor when kind is "ok").
Call == [phase : {"free", "poll", "blocked", "reply"}, sub : Subs, cursor : Nat,
         blocking : BOOLEAN, notified : BOOLEAN,
         kind : {"ok", "rebase", "unknown"}, events : Seq(Event), next : Nat]

Rec(topics, sequence, at, events, gap) ==
  [topics |-> topics, sequence |-> sequence, cursor |-> at, events |-> events, gap |-> gap]

NewRecord(topics) == Rec(topics, 0, 0, <<>>, FALSE)

FreeCall == [phase |-> "free", sub |-> CHOOSE s \in Subs : TRUE, cursor |-> 0,
             blocking |-> FALSE, notified |-> FALSE,
             kind |-> "ok", events |-> <<>>, next |-> 0]

Staged(k, phase, notified) ==
  [phase |-> phase, sub |-> k.sub, cursor |-> k.cursor, blocking |-> k.blocking,
   notified |-> notified, kind |-> k.kind, events |-> k.events, next |-> k.next]

Answered(k, kind, events, next) ==
  [phase |-> "reply", sub |-> k.sub, cursor |-> k.cursor, blocking |-> k.blocking,
   notified |-> FALSE, kind |-> kind, events |-> events, next |-> next]

\* ControlState::notify: every watch receiver has an unseen change.
Notify(calls) ==
  [c \in Calls |-> Staged(calls[c], calls[c].phase, calls[c].phase \in {"poll", "blocked"})]

Gapped(r, sequence) == Rec(r.topics, sequence, r.cursor, <<>>, TRUE)

Numbered(e, n) == [sequence |-> n, revision |-> e.revision, topic |-> e.topic,
                   bytes |-> e.bytes]

Queued(r, events) == Rec(r.topics, r.sequence + 1, r.cursor, events, r.gap)

\* One subscription's part of publish_event.
\* Bug: a full queue drops its oldest event instead of recording a gap.
Bug_Published(r, e) ==
  IF r.sequence = MaxSequence \/ r.gap THEN Gapped(r, r.sequence)
  ELSE Queued(r, Append(IF Len(r.events) >= QueueLimit THEN Tail(r.events) ELSE r.events,
                        Numbered(e, r.sequence + 1)))

Published(r, e) ==
  IF r.sequence = MaxSequence THEN Gapped(r, r.sequence)
  ELSE IF r.gap \/ Len(r.events) >= QueueLimit THEN Gapped(r, r.sequence + 1)
  ELSE Queued(r, Append(r.events, Numbered(e, r.sequence + 1)))

\* The longest prefix of a queue that fits in a response.
Bytes(events, n) == MapThenSumSet(LAMBDA i : events[i].bytes, 1 .. n)

BatchLength(events) ==
  Cardinality({n \in 1 .. Len(events) : Bytes(events, n) <= BatchBytes})

--------------------------------------------------------------------------------
(* The server *)

\* event.subscribe with topics, ControlState::create_subscription.
CreateSubscription(s, topics) ==
  /\ client[s] = "new"
  /\ Cardinality(active) < MaxSubscriptions
  /\ active' = active \cup {s}
  /\ sub' = [sub EXCEPT ![s] = NewRecord(topics)]
  /\ client' = [client EXCEPT ![s] = "live"]
  /\ UNCHANGED <<revision, call, asked, cursor, got, log>>

\* ControlState::publish_event, for an event of the given topic and size.
PublishEvent(topic, bytes) ==
  LET e == [sequence |-> 0, revision |-> revision + 1, topic |-> topic, bytes |-> bytes]
      reached == {s \in active : topic \in sub[s].topics}
  IN  /\ revision < MaxEvents
      /\ revision' = revision + 1
      /\ sub' = [s \in Subs |-> IF s \in reached THEN Published(sub[s], e) ELSE sub[s]]
      /\ log' = [s \in Subs |-> IF s \in reached
                                THEN Append(log[s], revision') ELSE log[s]]
      /\ call' = Notify(call)
      /\ UNCHANGED <<active, clientVars>>

\* event.unsubscribe, ControlState::unsubscribe, by whoever holds the id.
\* Bug: the waiters are not woken.
Bug_Unsubscribe(s) ==
  /\ s \in active
  /\ active' = active \ {s}
  /\ UNCHANGED <<sub, revision, call, clientVars, log>>

Unsubscribe(s) ==
  /\ s \in active
  /\ active' = active \ {s}
  /\ call' = Notify(call)
  /\ UNCHANGED <<sub, revision, clientVars, log>>

Answer(c, kind, events, next) ==
  call' = [call EXCEPT ![c] = Answered(call[c], kind, events, next)]

\* The exits of poll_subscription that find no batch to hand out.
PollUnknown(c) ==
  /\ call[c].phase = "poll" /\ call[c].sub \notin active
  /\ Answer(c, "unknown", <<>>, 0)
  /\ UNCHANGED <<serverVars, clientVars, log>>

\* Bug: the caller's cursor is not compared.
Bug_MustRebase(c, r) == r.gap

MustRebase(c, r) == r.gap \/ call[c].cursor # r.cursor

PollRebase(c) ==
  /\ call[c].phase = "poll" /\ call[c].sub \in active
  /\ MustRebase(c, sub[call[c].sub])
  /\ Answer(c, "rebase", <<>>, 0)
  /\ UNCHANGED <<serverVars, clientVars, log>>

\* The first event alone is larger than a response may be.
PollOversize(c) ==
  LET r == sub[call[c].sub]
  IN  /\ call[c].phase = "poll" /\ call[c].sub \in active
      /\ ~MustRebase(c, r)
      /\ r.events # <<>> /\ BatchLength(r.events) = 0
      /\ sub' = [sub EXCEPT ![call[c].sub] = Gapped(r, r.sequence)]
      /\ Answer(c, "rebase", <<>>, 0)
      /\ UNCHANGED <<active, revision, clientVars, log>>

\* A batch is taken off the queue and the cursor moves to its last event.
Taken(r, n) == Rec(r.topics, r.sequence, r.events[n].sequence,
                   SubSeq(r.events, n + 1, Len(r.events)), r.gap)

PollBatch(c) ==
  LET r == sub[call[c].sub]
      n == BatchLength(r.events)
  IN  /\ call[c].phase = "poll" /\ call[c].sub \in active
      /\ ~MustRebase(c, r) /\ n > 0
      /\ sub' = [sub EXCEPT ![call[c].sub] = Taken(r, n)]
      /\ Answer(c, "ok", SubSeq(r.events, 1, n), r.events[n].sequence)
      /\ UNCHANGED <<active, revision, clientVars, log>>

\* Nothing is queued: event.subscribe answers, event.wait awaits a change.
PollEmpty(c) ==
  LET r == sub[call[c].sub]
  IN  /\ call[c].phase = "poll" /\ call[c].sub \in active
      /\ ~MustRebase(c, r) /\ r.events = <<>>
      /\ IF call[c].blocking
         THEN call' = [call EXCEPT ![c] = Staged(call[c], "blocked", call[c].notified)]
         ELSE Answer(c, "ok", <<>>, r.cursor)
      /\ UNCHANGED <<serverVars, clientVars, log>>

Poll(c) == PollUnknown(c) \/ PollRebase(c) \/ PollOversize(c) \/ PollBatch(c) \/ PollEmpty(c)

\* changed.changed() resolves and marks the change as seen.
Wake(c) ==
  /\ call[c].phase = "blocked" /\ call[c].notified
  /\ call' = [call EXCEPT ![c] = Staged(call[c], "poll", FALSE)]
  /\ UNCHANGED <<serverVars, clientVars, log>>

\* The deadline passes first (timeout_at looks at the change before the clock);
\* the answer is the empty batch of the last poll, whose cursor is the caller's.
TimeOut(c) ==
  /\ call[c].phase = "blocked" /\ ~call[c].notified
  /\ Answer(c, "ok", <<>>, call[c].cursor)
  /\ UNCHANGED <<serverVars, clientVars, log>>

--------------------------------------------------------------------------------
(* The client of a subscription, one request at a time *)

\* event.wait or a poll reaches the server, which subscribes to changes first.
Request(s, c, blocking) ==
  /\ client[s] = "live" /\ asked[s] = NoCall /\ call[c].phase = "free"
  /\ call' = [call EXCEPT ![c] =
                [phase |-> "poll", sub |-> s, cursor |-> cursor[s], blocking |-> blocking,
                 notified |-> FALSE, kind |-> "ok", events |-> <<>>, next |-> 0]]
  /\ asked' = [asked EXCEPT ![s] = c]
  /\ UNCHANGED <<serverVars, client, cursor, got, log>>

\* The client gives up on its request, as a lost response makes it.
Abandon(s) ==
  /\ asked[s] # NoCall
  /\ asked' = [asked EXCEPT ![s] = NoCall]
  /\ UNCHANGED <<serverVars, call, client, cursor, got, log>>

Revisions(events) == [i \in 1 .. Len(events) |-> events[i].revision]

\* The response is written; only a client still waiting for it reads it.
Deliver(c) ==
  LET s == call[c].sub
  IN  /\ call[c].phase = "reply"
      /\ call' = [call EXCEPT ![c] = FreeCall]
      /\ IF asked[s] # c THEN UNCHANGED clientVars
         ELSE /\ asked' = [asked EXCEPT ![s] = NoCall]
              /\ IF call[c].kind = "ok"
                 THEN /\ cursor' = [cursor EXCEPT ![s] = call[c].next]
                      /\ got' = [got EXCEPT ![s] = @ \o Revisions(call[c].events)]
                      /\ UNCHANGED client
                 ELSE /\ client' = [client EXCEPT ![s] = "ended"]
                      /\ UNCHANGED <<cursor, got>>
      /\ UNCHANGED <<serverVars, log>>

--------------------------------------------------------------------------------
Init ==
  /\ active = {}
  /\ sub = [s \in Subs |-> NewRecord({})]
  /\ revision = 0
  /\ call = [c \in Calls |-> FreeCall]
  /\ client = [s \in Subs |-> "new"]
  /\ asked = [s \in Subs |-> NoCall]
  /\ cursor = [s \in Subs |-> 0]
  /\ got = [s \in Subs |-> <<>>]
  /\ log = [s \in Subs |-> <<>>]

Next ==
  \/ \E s \in Subs : \/ \E topics \in SUBSET Topics \ {{}} : CreateSubscription(s, topics)
                     \/ \E c \in Calls, blocking \in BOOLEAN : Request(s, c, blocking)
                     \/ Unsubscribe(s)
                     \/ Abandon(s)
  \/ \E topic \in Topics, bytes \in Sizes : PublishEvent(topic, bytes)
  \/ \E c \in Calls : Poll(c) \/ Wake(c) \/ TimeOut(c) \/ Deliver(c)

\* The runtime polls every task it has woken.
Fairness == \A c \in Calls : WF_vars(Poll(c)) /\ WF_vars(Wake(c))

Spec == Init /\ [][Next]_vars

FairSpec == Spec /\ Fairness

--------------------------------------------------------------------------------
(* Properties *)

TypeOK ==
  /\ active \subseteq Subs
  /\ sub \in [Subs -> Record]
  /\ revision \in Nat
  /\ call \in [Calls -> Call]
  /\ client \in [Subs -> {"new", "live", "ended"}]
  /\ asked \in [Subs -> Calls \cup {NoCall}]
  /\ cursor \in [Subs -> Nat]
  /\ got \in [Subs -> Seq(Nat)]
  /\ log \in [Subs -> Seq(Nat)]

\* What poll_subscription relies on: without a gap, the queue holds exactly the
\* events after the cursor, consecutively numbered; a gap has emptied it; and it
\* is never longer than its limit.
RecordExact(r, l) ==
  /\ ~r.gap => /\ r.sequence = Len(l)
               /\ Len(r.events) = r.sequence - r.cursor
               /\ \A i \in 1 .. Len(r.events) :
                    /\ r.events[i].sequence = r.cursor + i
                    /\ r.events[i].revision = l[r.cursor + i]
  /\ r.gap => r.events = <<>>
  /\ Len(r.events) <= QueueLimit

\* Every subscription's queue is exactly what its client has yet to be given.
QueueExact == \A s \in Subs : RecordExact(sub[s], log[s])

\* However requests are abandoned, repeated and raced, a client has been given
\* exactly the events up to its cursor, each once and in order: what it lost to
\* an overflow or to an abandoned request it learns of by a rebase error.
NoSilentLoss ==
  \A s \in Subs : /\ cursor[s] <= Len(log[s])
                  /\ got[s] = SubSeq(log[s], 1, cursor[s])

HasNews(c) ==
  LET s == call[c].sub
  IN  s \notin active \/ sub[s].gap \/ sub[s].events # <<>> \/ sub[s].cursor # call[c].cursor

\* docs/automation.md: "No event is lost between checking the queue and arming
\* the wait. Unsubscription wakes waiters."  A waiter asleep with nothing to
\* wake it has nothing to be told.
NoLostWakeup ==
  \A c \in Calls : call[c].phase = "blocked" /\ ~call[c].notified => ~HasNews(c)

\* An event.wait with something to be told is answered without its timeout.
WaitAnswered ==
  \A c \in Calls : call[c].phase = "blocked" /\ HasNews(c) ~> call[c].phase = "reply"

Stream == INSTANCE EventStream
            WITH Events <- 1 .. MaxEvents, ended <- {s \in Subs : client[s] = "ended"}

\* The subscription is the stream EventStream promises.
ImplementsStream == Stream!Spec
================================================================================
