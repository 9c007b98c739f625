-------------------------- MODULE ControlEvents_proofs --------------------------
(***************************************************************************)
(* Proofs about ControlEvents: a subscription never loses an event         *)
(* silently, a sleeping waiter has nothing to be told, and the whole       *)
(* implements EventStream, for any number of subscriptions, requests and   *)
(* events and every value of the limits.                                   *)
(***************************************************************************)
EXTENDS ControlEvents, SequenceTheorems, FiniteSetTheorems, TLAPS

(* The inductive invariant *)

\* A record's cursor and sequence stay within what was published to it.
Bounded(r, l) == r.cursor <= r.sequence /\ r.sequence <= Len(l)

RecordsBounded == \A s \in Subs : Bounded(sub[s], log[s])

\* A subscription not yet made has no history.
NewIsEmpty ==
  \A s \in Subs : client[s] = "new" => s \notin active /\ log[s] = <<>>

\* A client waits for a request of its own, made with the cursor it still holds.
AskedIsOwn ==
  \A s \in Subs : asked[s] # NoCall =>
    /\ client[s] = "live"
    /\ call[asked[s]].sub = s /\ call[asked[s]].cursor = cursor[s]
    /\ call[asked[s]].phase # "free"

\* A batch on its way holds the events that follow the cursor it was asked with.
AnswersExact ==
  \A c \in Calls : call[c].phase = "reply" /\ call[c].kind = "ok" =>
    /\ call[c].next = call[c].cursor + Len(call[c].events)
    /\ call[c].next <= Len(log[call[c].sub])
    /\ \A i \in 1 .. Len(call[c].events) :
         call[c].events[i].revision = log[call[c].sub][call[c].cursor + i]

IInv == /\ TypeOK /\ QueueExact /\ NoSilentLoss /\ NoLostWakeup
        /\ RecordsBounded /\ NewIsEmpty /\ AskedIsOwn /\ AnswersExact

--------------------------------------------------------------------------------
(* Sequences and batches *)

\* poll_subscription takes at most the whole queue.
LEMMA BatchBound ==
  ASSUME NEW events \in Seq(Event)
  PROVE  BatchLength(events) \in 0 .. Len(events)
<1> DEFINE all == 1 .. Len(events)
           fit == {n \in all : Bytes(events, n) <= BatchBytes}
<1>1. Len(events) \in Nat
  BY LenProperties
<1>2. IsFiniteSet(all) /\ Cardinality(all) = Len(events)
  BY <1>1, FS_Interval
<1>3. fit \in SUBSET all
  OBVIOUS
<1>4. IsFiniteSet(fit) /\ Cardinality(fit) <= Cardinality(all)
  BY <1>2, <1>3, FS_Subset
<1>5. Cardinality(fit) \in Nat
  BY <1>4, FS_CardinalityType
<1> QED
  BY <1>1, <1>2, <1>4, <1>5 DEF BatchLength

\* Cutting a queue after its first n events.
LEMMA CutQueue ==
  ASSUME NEW S, NEW q \in Seq(S), NEW n \in 0 .. Len(q)
  PROVE  /\ SubSeq(q, 1, n) \in Seq(S) /\ Len(SubSeq(q, 1, n)) = n
         /\ \A i \in 1 .. n : SubSeq(q, 1, n)[i] = q[i]
         /\ SubSeq(q, n + 1, Len(q)) \in Seq(S)
         /\ Len(SubSeq(q, n + 1, Len(q))) = Len(q) - n
         /\ \A i \in 1 .. Len(q) - n : SubSeq(q, n + 1, Len(q))[i] = q[n + i]
<1>1. Len(q) \in Nat /\ \A i \in 1 .. Len(q) : q[i] \in S
  BY LenProperties, ElementOfSeq
<1>2. \A i \in 1 .. n : q[i] \in S
  BY <1>1
<1>3. \A i \in n + 1 .. Len(q) : q[i] \in S
  BY <1>1
<1>4. /\ SubSeq(q, 1, n) \in Seq(S)
      /\ Len(SubSeq(q, 1, n)) = IF 1 <= n THEN n - 1 + 1 ELSE 0
      /\ \A i \in 1 .. n - 1 + 1 : SubSeq(q, 1, n)[i] = q[1 + i - 1]
  BY <1>1, <1>2, SubSeqProperties
<1>5. /\ SubSeq(q, n + 1, Len(q)) \in Seq(S)
      /\ Len(SubSeq(q, n + 1, Len(q))) = IF n + 1 <= Len(q) THEN Len(q) - (n + 1) + 1 ELSE 0
      /\ \A i \in 1 .. Len(q) - (n + 1) + 1 :
           SubSeq(q, n + 1, Len(q))[i] = q[n + 1 + i - 1]
  BY <1>1, <1>3, SubSeqProperties
<1> QED
  BY <1>1, <1>4, <1>5

\* A publication after a client's cursor changes nothing of what it has.
LEMMA AppendKeepsPrefix ==
  ASSUME NEW l \in Seq(Nat), NEW x \in Nat, NEW n \in 0 .. Len(l)
  PROVE  SubSeq(Append(l, x), 1, n) = SubSeq(l, 1, n)
<1>1. Append(l, x) \in Seq(Nat) /\ Len(Append(l, x)) = Len(l) + 1 /\ Len(l) \in Nat
  BY AppendProperties, LenProperties
<1>2. \A i \in 1 .. n : Append(l, x)[i] = l[i]
  BY <1>1, AppendProperties
<1>3. n \in 0 .. Len(Append(l, x))
  BY <1>1
<1> QED
  BY <1>1, <1>2, <1>3, CutQueue, SeqEqual

\* Concatenation, of sequences of numbers.
LEMMA ConcatNat ==
  ASSUME NEW a \in Seq(Nat), NEW r \in Seq(Nat)
  PROVE  /\ a \o r \in Seq(Nat) /\ Len(a \o r) = Len(a) + Len(r)
         /\ \A i \in 1 .. Len(a) + Len(r) : (a \o r)[i] =
              IF i <= Len(a) THEN a[i] ELSE r[i - Len(a)]
<1>1. a \o r \in Seq(Nat) /\ Len(a \o r) = Len(a) + Len(r)
  BY ConcatProperties
<1>2. \A i \in 1 .. Len(a) + Len(r) : (a \o r)[i] =
         IF i <= Len(a) THEN a[i] ELSE r[i - Len(a)]
  BY LenProperties
<1> QED BY <1>1, <1>2

\* A batch that follows a client's prefix extends it to a longer prefix.
LEMMA BatchExtendsPrefix ==
  ASSUME NEW l \in Seq(Nat), NEW ev \in Seq(Event), NEW m \in Nat,
         m + Len(ev) <= Len(l),
         \A i \in 1 .. Len(ev) : ev[i].revision = l[m + i]
  PROVE  /\ Revisions(ev) \in Seq(Nat)
         /\ SubSeq(l, 1, m) \o Revisions(ev) = SubSeq(l, 1, m + Len(ev))
<1>1. Len(ev) \in Nat /\ Len(l) \in Nat
  BY LenProperties
<1>2. \A i \in 1 .. Len(ev) : ev[i].revision \in Nat
  <2>1. \A i \in 1 .. Len(ev) : ev[i] \in Event
    BY ElementOfSeq
  <2> QED BY <2>1 DEF Event
<1>3. Revisions(ev) \in Seq(Nat) /\ Len(Revisions(ev)) = Len(ev)
      /\ \A i \in 1 .. Len(ev) : Revisions(ev)[i] = ev[i].revision
  BY <1>1, <1>2 DEF Revisions
<1>4. m \in 0 .. Len(l) /\ m + Len(ev) \in 0 .. Len(l)
  BY <1>1
<1> DEFINE a == SubSeq(l, 1, m)
           b == SubSeq(l, 1, m + Len(ev))
<1>5. a \in Seq(Nat) /\ Len(a) = m /\ \A i \in 1 .. m : a[i] = l[i]
  BY <1>4, CutQueue
<1>6. b \in Seq(Nat) /\ Len(b) = m + Len(ev) /\ \A i \in 1 .. m + Len(ev) : b[i] = l[i]
  BY <1>4, CutQueue
<1> HIDE DEF a, b
<1>7. /\ a \o Revisions(ev) \in Seq(Nat)
      /\ Len(a \o Revisions(ev)) = m + Len(ev)
      /\ \A i \in 1 .. m + Len(ev) : (a \o Revisions(ev))[i] =
           IF i <= m THEN a[i] ELSE Revisions(ev)[i - m]
  <2> DEFINE r == Revisions(ev)
  <2>1. r \in Seq(Nat) /\ Len(r) = Len(ev)
    BY <1>3
  <2> HIDE DEF r
  <2>2. /\ a \o r \in Seq(Nat) /\ Len(a \o r) = Len(a) + Len(r)
        /\ \A i \in 1 .. Len(a) + Len(r) : (a \o r)[i] =
             IF i <= Len(a) THEN a[i] ELSE r[i - Len(a)]
    <3>1. a \in Seq(Nat) /\ r \in Seq(Nat)
      BY <2>1, <1>5
    <3> QED BY <3>1, ConcatNat
  <2>3. /\ Len(a \o r) = m + Len(ev)
        /\ \A i \in 1 .. m + Len(ev) : (a \o r)[i] =
             IF i <= m THEN a[i] ELSE r[i - m]
    BY <2>1, <2>2, <1>5
  <2> QED BY <2>2, <2>3 DEF r
<1>8. \A i \in 1 .. m + Len(ev) : (a \o Revisions(ev))[i] = b[i]
  <2> SUFFICES ASSUME NEW i \in 1 .. m + Len(ev) PROVE (a \o Revisions(ev))[i] = b[i]
    OBVIOUS
  <2>1. CASE i <= m
    <3>1. i \in 1 .. m
      BY <2>1, <1>1
    <3> QED BY <2>1, <3>1, <1>5, <1>6, <1>7
  <2>2. CASE ~(i <= m)
    <3>1. i - m \in 1 .. Len(ev) /\ m + (i - m) = i
      BY <2>2, <1>1
    <3>2. ev[i - m].revision = l[i]
      BY <3>1
    <3> QED BY <2>2, <3>1, <3>2, <1>3, <1>6, <1>7
  <2> QED BY <2>1, <2>2
<1>9. a \o Revisions(ev) = b
  BY <1>6, <1>7, <1>8, SeqEqual
<1> QED BY <1>3, <1>9 DEF a, b

--------------------------------------------------------------------------------
(* Subscription records *)

\* publish_event on a subscription it reaches.
LEMMA PublishedKeeps ==
  ASSUME NEW r \in Record, NEW l \in Seq(Nat), NEW e \in Event,
         RecordExact(r, l), Bounded(r, l)
  PROVE  LET p == Published(r, e)
             m == Append(l, e.revision)
         IN  p \in Record /\ RecordExact(p, m) /\ Bounded(p, m) /\ p.cursor = r.cursor
<1> DEFINE p == Published(r, e)
           m == Append(l, e.revision)
           n == r.sequence + 1
           q == Append(r.events, Numbered(e, n))
<1> USE EventsAssumption
<1>1. /\ r.sequence \in Nat /\ r.cursor \in Nat /\ r.events \in Seq(Event)
      /\ r.gap \in BOOLEAN /\ r.topics \in SUBSET Topics /\ e.revision \in Nat
  BY DEF Record, Event
<1>2. /\ m \in Seq(Nat) /\ Len(m) = Len(l) + 1 /\ m[Len(l) + 1] = e.revision
      /\ \A i \in 1 .. Len(l) : m[i] = l[i]
  BY <1>1, AppendProperties
<1>3. Len(l) \in Nat /\ Len(r.events) \in Nat
  BY <1>1, LenProperties
<1>4. Numbered(e, n) \in Event
      /\ Numbered(e, n).sequence = n
      /\ Numbered(e, n).revision = e.revision
  BY <1>1 DEF Event, Numbered
<1>5. /\ q \in Seq(Event) /\ Len(q) = Len(r.events) + 1
      /\ q[Len(r.events) + 1] = Numbered(e, n)
      /\ \A i \in 1 .. Len(r.events) : q[i] = r.events[i]
  BY <1>1, <1>4, AppendProperties
<1>6. <<>> \in Seq(Event) /\ Len(<<>>) = 0
  BY EmptySeq
<1> HIDE DEF q, m
<1>7. CASE r.sequence = MaxSequence
  <2>1. p = Rec(r.topics, r.sequence, r.cursor, <<>>, TRUE)
    BY <1>7 DEF Published, Gapped
  <2> QED BY <2>1, <1>1, <1>2, <1>3, <1>6 DEF Rec, Record, RecordExact, Bounded, m
<1>8. CASE r.sequence # MaxSequence /\ (r.gap \/ Len(r.events) >= QueueLimit)
  <2>1. p = Rec(r.topics, n, r.cursor, <<>>, TRUE)
    BY <1>8 DEF Published, Gapped
  <2> QED BY <2>1, <1>1, <1>2, <1>3, <1>6 DEF Rec, Record, RecordExact, Bounded, m
<1>9. CASE r.sequence # MaxSequence /\ ~(r.gap \/ Len(r.events) >= QueueLimit)
  <2>1. p = Rec(r.topics, n, r.cursor, q, r.gap)
    BY <1>9 DEF Published, Queued, q
  <2>2. /\ p \in Record /\ p.sequence = n /\ p.cursor = r.cursor
        /\ p.events = q /\ p.gap = r.gap
    BY <2>1, <1>1, <1>5 DEF Rec, Record
  <2>3. ~r.gap /\ Len(r.events) < QueueLimit
    BY <1>9, <1>3
  <2>4. r.sequence = Len(l) /\ Len(r.events) = r.sequence - r.cursor
    BY <2>3 DEF RecordExact
  <2>5. \A i \in 1 .. Len(q) : q[i].sequence = r.cursor + i /\ q[i].revision = m[r.cursor + i]
    <3> SUFFICES ASSUME NEW i \in 1 .. Len(q)
                 PROVE  q[i].sequence = r.cursor + i /\ q[i].revision = m[r.cursor + i]
      OBVIOUS
    <3>1. CASE i \in 1 .. Len(r.events)
      <4>1. r.events[i].sequence = r.cursor + i /\ r.events[i].revision = l[r.cursor + i]
        BY <3>1, <2>3 DEF RecordExact
      <4>2. r.cursor + i \in 1 .. Len(l)
        BY <3>1, <2>4, <1>1, <1>3
      <4> QED BY <4>1, <4>2, <3>1, <1>2, <1>5
    <3>2. CASE i = Len(r.events) + 1
      <4>1. r.cursor + i = n /\ n = Len(l) + 1
        BY <3>2, <2>4, <1>1, <1>3
      <4> QED BY <4>1, <3>2, <1>2, <1>4, <1>5
    <3> QED BY <3>1, <3>2, <1>3, <1>5
  <2>6. RecordExact(p, m)
    <3> HIDE DEF p
    <3>1. Len(m) = n /\ Len(q) = n - r.cursor /\ Len(q) <= QueueLimit
      <4>1. Len(m) = Len(l) + 1 /\ Len(q) = Len(r.events) + 1
        BY <1>2, <1>5
      <4> QED BY <4>1, <2>3, <2>4, <1>1, <1>3
    <3> QED BY <2>2, <2>3, <2>5, <3>1 DEF RecordExact
  <2> QED BY <2>2, <2>4, <2>6, <1>1, <1>2, <1>3 DEF Bounded, m
<1> QED BY <1>7, <1>8, <1>9

\* An oversize first event: the queue is emptied and the gap recorded.
LEMMA GappedKeeps ==
  ASSUME NEW r \in Record, NEW l \in Seq(Nat), RecordExact(r, l), Bounded(r, l)
  PROVE  /\ Gapped(r, r.sequence) \in Record /\ RecordExact(Gapped(r, r.sequence), l) /\ Bounded(Gapped(r, r.sequence), l)
         /\ Gapped(r, r.sequence).cursor = r.cursor
<1>1. <<>> \in Seq(Event) /\ Len(<<>>) = 0
  BY EmptySeq
<1> QED BY <1>1, EventsAssumption DEF Gapped, Rec, Record, RecordExact, Bounded

\* A batch of n events: those that follow the cursor, which moves past them.
LEMMA TakenKeeps ==
  ASSUME NEW r \in Record, NEW l \in Seq(Nat), RecordExact(r, l), Bounded(r, l),
         ~r.gap, NEW n \in 1 .. Len(r.events)
  PROVE  /\ Taken(r, n) \in Record /\ RecordExact(Taken(r, n), l)
         /\ Bounded(Taken(r, n), l)
         /\ r.events[n].sequence = r.cursor + n /\ r.cursor + n <= Len(l)
         /\ SubSeq(r.events, 1, n) \in Seq(Event)
         /\ Len(SubSeq(r.events, 1, n)) = n
         /\ \A i \in 1 .. n : SubSeq(r.events, 1, n)[i].revision = l[r.cursor + i]
<1> DEFINE q == SubSeq(r.events, n + 1, Len(r.events))
           b == SubSeq(r.events, 1, n)
<1> USE EventsAssumption
<1>1. /\ r.sequence \in Nat /\ r.cursor \in Nat /\ r.events \in Seq(Event)
  BY DEF Record
<1>2. Len(l) \in Nat /\ Len(r.events) \in Nat
  BY <1>1, LenProperties
<1>3. n \in 0 .. Len(r.events)
  BY <1>2
<1>4. /\ b \in Seq(Event) /\ Len(b) = n /\ \A i \in 1 .. n : b[i] = r.events[i]
      /\ q \in Seq(Event) /\ Len(q) = Len(r.events) - n
      /\ \A i \in 1 .. Len(r.events) - n : q[i] = r.events[n + i]
  <2> DEFINE e == r.events
  <2>1. e \in Seq(Event) /\ n \in 0 .. Len(e)
    BY <1>1, <1>3
  <2> HIDE DEF e
  <2>2. /\ SubSeq(e, 1, n) \in Seq(Event) /\ Len(SubSeq(e, 1, n)) = n
        /\ \A i \in 1 .. n : SubSeq(e, 1, n)[i] = e[i]
        /\ SubSeq(e, n + 1, Len(e)) \in Seq(Event)
        /\ Len(SubSeq(e, n + 1, Len(e))) = Len(e) - n
        /\ \A i \in 1 .. Len(e) - n : SubSeq(e, n + 1, Len(e))[i] = e[n + i]
    BY <2>1, CutQueue
  <2> QED BY <2>2 DEF e
<1>5. /\ r.sequence = Len(l) /\ Len(r.events) = r.sequence - r.cursor
      /\ \A i \in 1 .. Len(r.events) : /\ r.events[i].sequence = r.cursor + i
                                       /\ r.events[i].revision = l[r.cursor + i]
      /\ Len(r.events) <= QueueLimit
  BY DEF RecordExact
<1> DEFINE t == Taken(r, n)
<1> HIDE DEF q, b
<1>6. r.events[n].sequence = r.cursor + n
  BY <1>5
<1>7. t = Rec(r.topics, r.sequence, r.cursor + n, q, r.gap)
  BY <1>6 DEF Taken, q
<1>8. /\ t \in Record /\ t.events = q /\ t.cursor = r.cursor + n
      /\ t.sequence = r.sequence /\ t.gap = r.gap
  BY <1>1, <1>4, <1>7 DEF Rec, Record
<1>9. \A i \in 1 .. Len(q) : q[i].sequence = t.cursor + i /\ q[i].revision = l[t.cursor + i]
  <2> SUFFICES ASSUME NEW i \in 1 .. Len(q)
               PROVE  q[i].sequence = t.cursor + i /\ q[i].revision = l[t.cursor + i]
    OBVIOUS
  <2>1. n + i \in 1 .. Len(r.events) /\ i \in 1 .. Len(r.events) - n
        /\ r.cursor + (n + i) = t.cursor + i
    BY <1>1, <1>2, <1>4, <1>8
  <2> QED BY <2>1, <1>4, <1>5
<1>10. RecordExact(t, l)
  <2>1. t.sequence = Len(l)
    BY <1>5, <1>8
  <2>2. Len(q) = r.sequence - (r.cursor + n) /\ Len(q) <= QueueLimit
    <3> DEFINE k == Len(r.events)
    <3>1. k \in Nat /\ k = r.sequence - r.cursor /\ k <= QueueLimit /\ Len(q) = k - n
      BY <1>2, <1>4, <1>5
    <3> HIDE DEF k
    <3> QED BY <1>1, <3>1
  <2>3. Len(q) = t.sequence - t.cursor
    BY <1>8, <2>2
  <2> HIDE DEF t
  <2> QED BY <1>8, <1>9, <2>1, <2>2, <2>3 DEF RecordExact
<1>11. Bounded(t, l) /\ r.cursor + n <= Len(l)
  BY <1>1, <1>2, <1>5, <1>8 DEF Bounded
<1>12. \A i \in 1 .. n : b[i].revision = l[r.cursor + i]
  <2>1. \A i \in 1 .. n : i \in 1 .. Len(r.events) /\ b[i] = r.events[i]
    BY <1>2, <1>4
  <2> QED BY <2>1, <1>5
<1> QED BY <1>4, <1>6, <1>8, <1>10, <1>11, <1>12 DEF b

--------------------------------------------------------------------------------
(* Steps *)

LEMMA InitIInv == Init => IInv
<1> SUFFICES ASSUME Init PROVE IInv
  OBVIOUS
<1> USE EventsAssumption DEF Init
<1>1. <<>> \in Seq(Event) /\ <<>> \in Seq(Nat) /\ Len(<<>>) = 0
  BY EmptySeq
<1>2. (CHOOSE s \in Subs : TRUE) \in Subs
  OBVIOUS
<1>3. NewRecord({}) \in Record
  BY <1>1 DEF NewRecord, Rec, Record
<1>4. FreeCall \in Call /\ FreeCall.phase = "free"
  BY <1>1, <1>2 DEF FreeCall, Call
<1>5. TypeOK
  BY <1>1, <1>3, <1>4 DEF TypeOK
<1>6. QueueExact /\ RecordsBounded
  BY <1>1 DEF QueueExact, RecordExact, RecordsBounded, Bounded, NewRecord, Rec
<1>7. NoSilentLoss
  <2>1. SubSeq(<<>>, 1, 0) = <<>>
    BY SubSeqEmpty
  <2> QED BY <1>1, <2>1 DEF NoSilentLoss
<1>8. NoLostWakeup /\ NewIsEmpty /\ AskedIsOwn /\ AnswersExact
  BY <1>4 DEF NoLostWakeup, NewIsEmpty, AskedIsOwn, AnswersExact
<1> QED BY <1>5, <1>6, <1>7, <1>8 DEF IInv

\* A request is answered; an answer that carries a batch carries the right one.
LEMMA AnswerKeeps ==
  ASSUME IInv, NEW c \in Calls, call[c].phase \in {"poll", "blocked"},
         NEW kind \in {"ok", "rebase", "unknown"}, NEW events \in Seq(Event),
         NEW next \in Nat, Answer(c, kind, events, next),
         UNCHANGED <<clientVars, log>>,
         kind = "ok" =>
           /\ next = call[c].cursor + Len(events)
           /\ next <= Len(log[call[c].sub])
           /\ \A i \in 1 .. Len(events) :
                events[i].revision = log[call[c].sub][call[c].cursor + i]
  PROVE  /\ call' \in [Calls -> Call] /\ AskedIsOwn' /\ AnswersExact' /\ NoSilentLoss'
         /\ \A d \in Calls : call'[d].phase = "blocked" => d # c /\ call'[d] = call[d]
<1> USE DEF clientVars
<1>1. call \in [Calls -> Call] /\ call[c] \in Call
  BY DEF IInv, TypeOK
<1>2. call' = [call EXCEPT ![c] = Answered(call[c], kind, events, next)]
  BY DEF Answer
<1>3. /\ call'[c] = Answered(call[c], kind, events, next)
      /\ \A d \in Calls : d # c => call'[d] = call[d]
  BY <1>1, <1>2
<1>4. /\ call'[c].phase = "reply" /\ call'[c].sub = call[c].sub
      /\ call'[c].cursor = call[c].cursor /\ call'[c].kind = kind
      /\ call'[c].events = events /\ call'[c].next = next
  BY <1>3 DEF Answered
<1>5. Answered(call[c], kind, events, next) \in Call
  BY <1>1 DEF Answered, Call
<1>6. call' \in [Calls -> Call]
  BY <1>1, <1>2, <1>5
<1>7. AskedIsOwn'
  <2> SUFFICES ASSUME NEW s \in Subs, asked'[s] # NoCall
               PROVE  /\ client'[s] = "live"
                      /\ call'[asked'[s]].sub = s
                      /\ call'[asked'[s]].cursor = cursor'[s]
                      /\ call'[asked'[s]].phase # "free"
    BY DEF AskedIsOwn
  <2>1. asked[s] \in Calls /\ asked'[s] = asked[s]
    BY DEF IInv, TypeOK
  <2>2. client[s] = "live" /\ call[asked[s]].sub = s
        /\ call[asked[s]].cursor = cursor[s] /\ call[asked[s]].phase # "free"
    BY <2>1 DEF IInv, AskedIsOwn
  <2> QED BY <2>1, <2>2, <1>3, <1>4
<1>8. AnswersExact'
  <2> SUFFICES ASSUME NEW d \in Calls, call'[d].phase = "reply", call'[d].kind = "ok"
               PROVE  /\ call'[d].next = call'[d].cursor + Len(call'[d].events)
                      /\ call'[d].next <= Len(log[call'[d].sub])
                      /\ \A i \in 1 .. Len(call'[d].events) :
                           call'[d].events[i].revision
                             = log[call'[d].sub][call'[d].cursor + i]
    BY DEF AnswersExact
  <2>1. CASE d = c
    BY <2>1, <1>4
  <2>2. CASE d # c
    BY <2>2, <1>3 DEF IInv, AnswersExact
  <2> QED BY <2>1, <2>2
<1>9. NoSilentLoss'
  BY DEF IInv, NoSilentLoss
<1> QED BY <1>3, <1>4, <1>6, <1>7, <1>8, <1>9

LEMMA CreateSubscriptionKeeps ==
  ASSUME IInv, NEW s \in Subs, NEW topics \in SUBSET Topics, CreateSubscription(s, topics)
  PROVE  IInv'
<1> USE DEF CreateSubscription
<1>1. <<>> \in Seq(Event) /\ Len(<<>>) = 0
  BY EmptySeq
<1>2. NewRecord(topics) \in Record /\ log[s] = <<>> /\ s \notin active
  BY <1>1 DEF NewRecord, Rec, Record, IInv, NewIsEmpty
<1>3. TypeOK'
  BY <1>2 DEF IInv, TypeOK
<1>4. sub'[s] = NewRecord(topics) /\ \A t \in Subs : t # s => sub'[t] = sub[t]
  BY DEF IInv, TypeOK
<1>5. QueueExact' /\ RecordsBounded'
  <2>1. RecordExact(NewRecord(topics), log[s]) /\ Bounded(NewRecord(topics), log[s])
    BY <1>1, <1>2, EventsAssumption DEF RecordExact, Bounded, NewRecord, Rec
  <2> QED BY <1>4, <2>1 DEF IInv, QueueExact, RecordsBounded
<1>6. NoSilentLoss' /\ AnswersExact'
  BY DEF IInv, NoSilentLoss, AnswersExact
<1>7. NoLostWakeup'
  BY <1>2, <1>4 DEF IInv, TypeOK, Call, NoLostWakeup, HasNews
<1>8. NewIsEmpty' /\ AskedIsOwn'
  BY DEF IInv, TypeOK, NewIsEmpty, AskedIsOwn
<1> QED BY <1>3, <1>5, <1>6, <1>7, <1>8 DEF IInv

\* Waking every waiter leaves only awake ones.
LEMMA NotifyKeeps ==
  ASSUME call \in [Calls -> Call]
  PROVE  /\ Notify(call) \in [Calls -> Call]
         /\ \A c \in Calls :
              /\ Notify(call)[c].phase = "blocked" => Notify(call)[c].notified
              /\ Notify(call)[c].phase = call[c].phase
              /\ Notify(call)[c].sub = call[c].sub
              /\ Notify(call)[c].cursor = call[c].cursor
              /\ Notify(call)[c].kind = call[c].kind
              /\ Notify(call)[c].events = call[c].events
              /\ Notify(call)[c].next = call[c].next
<1> DEFINE n(c) == Staged(call[c], call[c].phase, call[c].phase \in {"poll", "blocked"})
<1>1. ASSUME NEW c \in Calls
      PROVE  /\ n(c) \in Call
             /\ n(c).phase = "blocked" => n(c).notified
             /\ n(c).phase = call[c].phase /\ n(c).sub = call[c].sub
             /\ n(c).cursor = call[c].cursor /\ n(c).kind = call[c].kind
             /\ n(c).events = call[c].events /\ n(c).next = call[c].next
  <2>1. call[c] \in Call
    OBVIOUS
  <2>2. (call[c].phase \in {"poll", "blocked"}) \in BOOLEAN
    OBVIOUS
  <2> DEFINE b == call[c].phase \in {"poll", "blocked"}
  <2>3. call[c].phase = "blocked" => b
    OBVIOUS
  <2> HIDE DEF b
  <2>4. /\ Staged(call[c], call[c].phase, b) \in Call
        /\ Staged(call[c], call[c].phase, b).notified = b
    BY <2>1, <2>2 DEF Staged, Call, b
  <2> QED BY <2>1, <2>3, <2>4 DEF Staged, b
<1>2. \A c \in Calls : Notify(call)[c] = n(c)
  BY DEF Notify
<1>3. Notify(call) \in [Calls -> Call]
  BY <1>1 DEF Notify
<1> HIDE DEF n
<1> QED BY <1>1, <1>2, <1>3

LEMMA NotifyAsked ==
  ASSUME IInv, call' = Notify(call), UNCHANGED clientVars
  PROVE  AskedIsOwn'
<1> SUFFICES ASSUME NEW s \in Subs, asked'[s] # NoCall
             PROVE  /\ client'[s] = "live"
                    /\ call'[asked'[s]].sub = s
                    /\ call'[asked'[s]].cursor = cursor'[s]
                    /\ call'[asked'[s]].phase # "free"
  BY DEF AskedIsOwn
<1>1. asked[s] \in Calls /\ asked'[s] = asked[s] /\ call \in [Calls -> Call]
  BY DEF IInv, TypeOK, clientVars
<1>2. client[s] = "live" /\ call[asked[s]].sub = s
      /\ call[asked[s]].cursor = cursor[s] /\ call[asked[s]].phase # "free"
  BY <1>1 DEF IInv, AskedIsOwn
<1> QED BY <1>1, <1>2, NotifyKeeps DEF clientVars

LEMMA UnsubscribeKeeps ==
  ASSUME IInv, NEW s \in Subs, Unsubscribe(s)
  PROVE  IInv'
<1> USE DEF Unsubscribe, clientVars
<1>1. call \in [Calls -> Call] /\ call' = Notify(call)
  BY DEF IInv, TypeOK
<1>2. TypeOK'
  BY <1>1, NotifyKeeps DEF IInv, TypeOK
<1>3. NoLostWakeup'
  BY <1>1, NotifyKeeps DEF NoLostWakeup
<1>4. AskedIsOwn'
  BY <1>1, NotifyAsked
<1>6. AnswersExact'
  BY <1>1, NotifyKeeps DEF IInv, AnswersExact
<1>5. QueueExact' /\ RecordsBounded' /\ NoSilentLoss' /\ NewIsEmpty'
  BY DEF IInv, QueueExact, RecordsBounded, NoSilentLoss, NewIsEmpty
<1> QED BY <1>2, <1>3, <1>4, <1>5, <1>6 DEF IInv

LEMMA PublishEventKeeps ==
  ASSUME IInv, NEW topic \in Topics, NEW bytes \in Sizes, PublishEvent(topic, bytes)
  PROVE  IInv'
<1> DEFINE e == [sequence |-> 0, revision |-> revision + 1, topic |-> topic, bytes |-> bytes]
           reached == {s \in active : topic \in sub[s].topics}
<1> USE DEF clientVars
<1>1. /\ revision' = revision + 1
      /\ sub' = [s \in Subs |-> IF s \in reached THEN Published(sub[s], e) ELSE sub[s]]
      /\ log' = [s \in Subs |-> IF s \in reached THEN Append(log[s], revision + 1) ELSE log[s]]
      /\ call' = Notify(call) /\ UNCHANGED <<active, clientVars>>
  BY DEF PublishEvent
<1>2. e \in Event /\ e.revision = revision + 1 /\ revision \in Nat
  BY DEF Event, IInv, TypeOK
<1>3. reached \subseteq active /\ active \subseteq Subs /\ call \in [Calls -> Call]
  BY DEF IInv, TypeOK
<1> HIDE DEF e, reached
<1>4. \A s \in Subs : /\ sub[s] \in Record /\ log[s] \in Seq(Nat) /\ Len(log[s]) \in Nat
                      /\ RecordExact(sub[s], log[s]) /\ Bounded(sub[s], log[s])
  BY LenProperties DEF IInv, TypeOK, QueueExact, RecordsBounded
<1>5. \A s \in Subs : /\ sub'[s] \in Record /\ log'[s] \in Seq(Nat)
                      /\ RecordExact(sub'[s], log'[s]) /\ Bounded(sub'[s], log'[s])
  <2> SUFFICES ASSUME NEW s \in Subs
               PROVE  /\ sub'[s] \in Record /\ log'[s] \in Seq(Nat)
                      /\ RecordExact(sub'[s], log'[s]) /\ Bounded(sub'[s], log'[s])
    OBVIOUS
  <2>1. CASE s \in reached
    <3>1. sub'[s] = Published(sub[s], e) /\ log'[s] = Append(log[s], e.revision)
      BY <2>1, <1>1, <1>2
    <3>2. log'[s] \in Seq(Nat)
      BY <3>1, <1>2, <1>4, AppendProperties
    <3> QED BY <3>1, <3>2, <1>2, <1>4, PublishedKeeps
  <2>2. CASE s \notin reached
    BY <2>2, <1>1, <1>4
  <2> QED BY <2>1, <2>2
<1>6. \A s \in Subs : /\ Len(log'[s]) >= Len(log[s])
                      /\ \A i \in 1 .. Len(log[s]) : log'[s][i] = log[s][i]
                      /\ \A n \in 0 .. Len(log[s]) : SubSeq(log'[s], 1, n) = SubSeq(log[s], 1, n)
  <2> SUFFICES ASSUME NEW s \in Subs
               PROVE  /\ Len(log'[s]) >= Len(log[s])
                      /\ \A i \in 1 .. Len(log[s]) : log'[s][i] = log[s][i]
                      /\ \A n \in 0 .. Len(log[s]) :
                           SubSeq(log'[s], 1, n) = SubSeq(log[s], 1, n)
    OBVIOUS
  <2>1. CASE s \in reached
    <3>1. log'[s] = Append(log[s], revision + 1)
      BY <2>1, <1>1
    <3>2. revision + 1 \in Nat
      BY <1>2
    <3> QED BY <3>1, <3>2, <1>4, AppendProperties, AppendKeepsPrefix
  <2>2. CASE s \notin reached
    BY <2>2, <1>1, <1>4
  <2> QED BY <2>1, <2>2
<1>7. TypeOK'
  <2>1. sub' \in [Subs -> Record] /\ log' \in [Subs -> Seq(Nat)]
    BY <1>1, <1>5
  <2>2. call' \in [Calls -> Call]
    BY <1>1, <1>3, NotifyKeeps
  <2> QED BY <2>1, <2>2, <1>1, <1>2 DEF IInv, TypeOK
<1>8. QueueExact' /\ RecordsBounded'
  BY <1>5 DEF QueueExact, RecordsBounded
<1>9. NoSilentLoss'
  <2> SUFFICES ASSUME NEW s \in Subs
               PROVE  /\ cursor'[s] <= Len(log'[s])
                      /\ got'[s] = SubSeq(log'[s], 1, cursor'[s])
    BY DEF NoSilentLoss
  <2>1. cursor[s] \in Nat /\ cursor[s] <= Len(log[s]) /\ got[s] = SubSeq(log[s], 1, cursor[s])
    BY DEF IInv, TypeOK, NoSilentLoss
  <2>2. cursor[s] \in 0 .. Len(log[s]) /\ Len(log'[s]) \in Nat
    BY <2>1, <1>4, <1>5, LenProperties
  <2> QED BY <2>1, <2>2, <1>1, <1>4, <1>6
<1>10. NoLostWakeup'
  BY <1>1, <1>3, NotifyKeeps DEF NoLostWakeup
<1>11. NewIsEmpty'
  BY <1>1, <1>3 DEF IInv, NewIsEmpty
<1>12. AskedIsOwn'
  BY <1>1, NotifyAsked
<1>13. AnswersExact'
  <2> SUFFICES ASSUME NEW d \in Calls, call'[d].phase = "reply", call'[d].kind = "ok"
               PROVE  /\ call'[d].next = call'[d].cursor + Len(call'[d].events)
                      /\ call'[d].next <= Len(log'[call'[d].sub])
                      /\ \A i \in 1 .. Len(call'[d].events) :
                           call'[d].events[i].revision
                             = log'[call'[d].sub][call'[d].cursor + i]
    BY DEF AnswersExact
  <2> DEFINE s == call[d].sub
             ev == call[d].events
             k == call[d].cursor
  <2>1. /\ call'[d].sub = s /\ call'[d].events = ev /\ call'[d].cursor = k
        /\ call'[d].next = call[d].next /\ call[d].phase = "reply" /\ call[d].kind = "ok"
    BY <1>1, <1>3, NotifyKeeps
  <2>2. s \in Subs /\ ev \in Seq(Event) /\ k \in Nat
    BY <1>3 DEF Call
  <2>3. /\ call[d].next = k + Len(ev) /\ call[d].next <= Len(log[s])
        /\ \A i \in 1 .. Len(ev) : ev[i].revision = log[s][k + i]
    BY <2>1 DEF IInv, AnswersExact
  <2>4. Len(ev) \in Nat /\ Len(log[s]) \in Nat /\ Len(log'[s]) \in Nat
    BY <2>2, <1>4, <1>5, LenProperties
  <2> HIDE DEF s, ev, k
  <2>5. \A i \in 1 .. Len(ev) : k + i \in 1 .. Len(log[s])
    BY <2>2, <2>3, <2>4
  <2>6. \A i \in 1 .. Len(ev) : ev[i].revision = log'[s][k + i]
    BY <2>2, <2>3, <2>5, <1>6
  <2>7. call[d].next <= Len(log'[s])
    BY <2>2, <2>3, <2>4, <1>6
  <2> QED BY <2>1, <2>3, <2>6, <2>7
<1> QED BY <1>7, <1>8, <1>9, <1>10, <1>11, <1>12, <1>13 DEF IInv

\* poll_subscription finds nothing to hand out and changes no record.
LEMMA QuietAnswerKeeps ==
  ASSUME IInv, NEW c \in Calls, call[c].phase \in {"poll", "blocked"},
         NEW kind \in {"ok", "rebase", "unknown"}, NEW next \in Nat,
         Answer(c, kind, <<>>, next), UNCHANGED <<serverVars, clientVars, log>>,
         kind = "ok" => next = call[c].cursor /\ next <= Len(log[call[c].sub])
  PROVE  IInv'
<1>1. <<>> \in Seq(Event) /\ Len(<<>>) = 0
  BY EmptySeq
<1>2. kind = "ok" => /\ next = call[c].cursor + Len(<<>>)
                     /\ next <= Len(log[call[c].sub])
                     /\ \A i \in 1 .. Len(<<>>) :
                          <<>>[i].revision = log[call[c].sub][call[c].cursor + i]
  BY <1>1
<1>3. /\ call' \in [Calls -> Call] /\ AskedIsOwn' /\ AnswersExact' /\ NoSilentLoss'
      /\ \A d \in Calls : call'[d].phase = "blocked" => d # c /\ call'[d] = call[d]
  BY <1>1, <1>2, AnswerKeeps DEF clientVars
<1>4. TypeOK'
  BY <1>3 DEF IInv, TypeOK, serverVars, clientVars
<1>5. QueueExact' /\ RecordsBounded' /\ NewIsEmpty'
  BY DEF IInv, QueueExact, RecordsBounded, NewIsEmpty, serverVars, clientVars
<1>6. NoLostWakeup'
  BY <1>3 DEF IInv, NoLostWakeup, HasNews, serverVars
<1> QED BY <1>3, <1>4, <1>5, <1>6 DEF IInv

LEMMA PollUnknownKeeps ==
  ASSUME IInv, NEW c \in Calls, PollUnknown(c)
  PROVE  IInv'
  BY QuietAnswerKeeps DEF PollUnknown

LEMMA PollRebaseKeeps ==
  ASSUME IInv, NEW c \in Calls, PollRebase(c)
  PROVE  IInv'
  BY QuietAnswerKeeps DEF PollRebase

\* A request whose cursor is the record's asks from within what was published.
LEMMA CursorWithin ==
  ASSUME IInv, NEW s \in Subs
  PROVE  sub[s].cursor \in Nat /\ sub[s].cursor <= Len(log[s])
<1>1. sub[s] \in Record /\ Len(log[s]) \in Nat
  BY LenProperties DEF IInv, TypeOK
<1>2. Bounded(sub[s], log[s])
  BY DEF IInv, RecordsBounded
<1> QED BY <1>1, <1>2 DEF Record, Bounded

LEMMA PollEmptyKeeps ==
  ASSUME IInv, NEW c \in Calls, PollEmpty(c)
  PROVE  IInv'
<1> DEFINE s == call[c].sub
<1>1. /\ call[c].phase = "poll" /\ s \in active /\ s \in Subs
      /\ ~sub[s].gap /\ call[c].cursor = sub[s].cursor /\ sub[s].events = <<>>
      /\ UNCHANGED <<serverVars, clientVars, log>>
      /\ call[c] \in Call /\ call \in [Calls -> Call]
  BY DEF PollEmpty, MustRebase, IInv, TypeOK, Call
<1>2. CASE call[c].blocking
  <2>1. call' = [call EXCEPT ![c] = Staged(call[c], "blocked", call[c].notified)]
    BY <1>2 DEF PollEmpty
  <2> DEFINE k == Staged(call[c], "blocked", call[c].notified)
  <2>2. /\ k \in Call /\ k.phase = "blocked" /\ k.sub = s /\ k.cursor = call[c].cursor
    BY <1>1 DEF Staged, Call
  <2> HIDE DEF k
  <2>3. call'[c] = k /\ \A d \in Calls : d # c => call'[d] = call[d]
    BY <1>1, <2>1 DEF k
  <2>4. TypeOK'
    BY <1>1, <2>1, <2>2 DEF IInv, TypeOK, serverVars, clientVars, k
  <2>5. NoLostWakeup'
    BY <1>1, <2>2, <2>3 DEF IInv, NoLostWakeup, HasNews, serverVars
  <2>6. AskedIsOwn'
    <3> SUFFICES ASSUME NEW t \in Subs, asked'[t] # NoCall
                 PROVE  /\ client'[t] = "live"
                        /\ call'[asked'[t]].sub = t
                        /\ call'[asked'[t]].cursor = cursor'[t]
                        /\ call'[asked'[t]].phase # "free"
      BY DEF AskedIsOwn
    <3>1. asked[t] \in Calls /\ asked'[t] = asked[t]
      BY <1>1 DEF IInv, TypeOK, clientVars
    <3>2. client[t] = "live" /\ call[asked[t]].sub = t
          /\ call[asked[t]].cursor = cursor[t] /\ call[asked[t]].phase # "free"
      BY <3>1 DEF IInv, AskedIsOwn
    <3> QED BY <3>1, <3>2, <1>1, <2>2, <2>3 DEF clientVars
  <2>7. AnswersExact'
    BY <1>1, <2>2, <2>3 DEF IInv, AnswersExact
  <2>8. QueueExact' /\ RecordsBounded' /\ NewIsEmpty' /\ NoSilentLoss'
    BY <1>1 DEF IInv, QueueExact, RecordsBounded, NewIsEmpty, NoSilentLoss,
                serverVars, clientVars
  <2> QED BY <2>4, <2>5, <2>6, <2>7, <2>8 DEF IInv
<1>3. CASE ~call[c].blocking
  <2>1. Answer(c, "ok", <<>>, sub[s].cursor)
    BY <1>3 DEF PollEmpty
  <2>2. sub[s].cursor \in Nat /\ sub[s].cursor <= Len(log[s])
    BY <1>1, CursorWithin
  <2> QED BY <1>1, <2>1, <2>2, QuietAnswerKeeps
<1> QED BY <1>2, <1>3

LEMMA TimeOutKeeps ==
  ASSUME IInv, NEW c \in Calls, TimeOut(c)
  PROVE  IInv'
<1> DEFINE s == call[c].sub
<1>1. s \in Subs /\ call[c].cursor \in Nat /\ call[c].phase = "blocked" /\ ~call[c].notified
  BY DEF IInv, TypeOK, Call, TimeOut
<1>2. call[c].cursor = sub[s].cursor
  BY <1>1 DEF IInv, NoLostWakeup, HasNews
<1>3. call[c].cursor <= Len(log[s])
  BY <1>1, <1>2, CursorWithin
<1> QED BY <1>1, <1>3, QuietAnswerKeeps DEF TimeOut

\* The two polls that change a record find its queue non-empty, so nobody
\* sleeps on it undisturbed.
LEMMA ActivePollKeeps ==
  ASSUME IInv, NEW c \in Calls, call[c].phase = "poll",
         sub[call[c].sub].events # <<>>,
         NEW kind \in {"ok", "rebase", "unknown"}, NEW events \in Seq(Event),
         NEW next \in Nat, Answer(c, kind, events, next),
         UNCHANGED <<active, revision, clientVars, log>>,
         kind = "ok" =>
           /\ next = call[c].cursor + Len(events)
           /\ next <= Len(log[call[c].sub])
           /\ \A i \in 1 .. Len(events) :
                events[i].revision = log[call[c].sub][call[c].cursor + i],
         NEW r \in Record, sub' = [sub EXCEPT ![call[c].sub] = r],
         RecordExact(r, log[call[c].sub]), Bounded(r, log[call[c].sub])
  PROVE  IInv'
<1> DEFINE s == call[c].sub
<1>1. /\ call' \in [Calls -> Call] /\ AskedIsOwn' /\ AnswersExact' /\ NoSilentLoss'
      /\ \A d \in Calls : call'[d].phase = "blocked" => d # c /\ call'[d] = call[d]
  BY AnswerKeeps DEF clientVars
<1>2. s \in Subs /\ sub'[s] = r /\ \A t \in Subs : t # s => sub'[t] = sub[t]
  BY DEF IInv, TypeOK, Call
<1>3. TypeOK'
  BY <1>1 DEF IInv, TypeOK, clientVars
<1>4. QueueExact' /\ RecordsBounded' /\ NewIsEmpty'
  BY <1>2 DEF IInv, QueueExact, RecordsBounded, NewIsEmpty, clientVars
<1>5. NoLostWakeup'
  <2> SUFFICES ASSUME NEW d \in Calls, call'[d].phase = "blocked", ~call'[d].notified
               PROVE  ~HasNews(d)'
    BY DEF NoLostWakeup
  <2>1. call'[d] = call[d] /\ ~HasNews(d) /\ call[d].sub \in Subs
    BY <1>1 DEF IInv, NoLostWakeup, TypeOK, Call
  <2>2. call[d].sub # s
    BY <2>1 DEF HasNews
  <2> QED BY <1>2, <2>1, <2>2 DEF HasNews
<1> QED BY <1>1, <1>3, <1>4, <1>5 DEF IInv

LEMMA PollOversizeKeeps ==
  ASSUME IInv, NEW c \in Calls, PollOversize(c)
  PROVE  IInv'
<1> DEFINE s == call[c].sub
           r == Gapped(sub[s], sub[s].sequence)
<1>1. /\ call[c].phase = "poll" /\ sub[s].events # <<>>
      /\ sub' = [sub EXCEPT ![s] = r] /\ Answer(c, "rebase", <<>>, 0)
      /\ UNCHANGED <<active, revision, clientVars, log>>
  BY DEF PollOversize
<1>2. s \in Subs /\ sub[s] \in Record /\ log[s] \in Seq(Nat)
      /\ RecordExact(sub[s], log[s]) /\ Bounded(sub[s], log[s])
  BY DEF IInv, TypeOK, Call, QueueExact, RecordsBounded
<1>3. r \in Record /\ RecordExact(r, log[s]) /\ Bounded(r, log[s])
  BY <1>2, GappedKeeps
<1>4. <<>> \in Seq(Event)
  BY EmptySeq
<1> HIDE DEF r
<1> QED BY <1>1, <1>3, <1>4, ActivePollKeeps

LEMMA PollBatchKeeps ==
  ASSUME IInv, NEW c \in Calls, PollBatch(c)
  PROVE  IInv'
<1> DEFINE s == call[c].sub
           q == sub[s].events
           n == BatchLength(q)
           r == Taken(sub[s], n)
           b == SubSeq(q, 1, n)
<1>1. /\ call[c].phase = "poll" /\ ~sub[s].gap /\ call[c].cursor = sub[s].cursor /\ n > 0
      /\ sub' = [sub EXCEPT ![s] = r] /\ Answer(c, "ok", b, q[n].sequence)
      /\ UNCHANGED <<active, revision, clientVars, log>>
  BY DEF PollBatch, MustRebase
<1>2. s \in Subs /\ sub[s] \in Record /\ log[s] \in Seq(Nat) /\ q \in Seq(Event)
      /\ RecordExact(sub[s], log[s]) /\ Bounded(sub[s], log[s])
  BY DEF IInv, TypeOK, Call, Record, QueueExact, RecordsBounded
<1>3. n \in 0 .. Len(q)
  BY <1>2, BatchBound
<1> HIDE DEF n
<1>4. n \in 1 .. Len(q) /\ Len(q) \in Nat
  BY <1>1, <1>2, <1>3, LenProperties
<1>5. /\ r \in Record /\ RecordExact(r, log[s]) /\ Bounded(r, log[s])
      /\ q[n].sequence = sub[s].cursor + n /\ sub[s].cursor + n <= Len(log[s])
      /\ b \in Seq(Event) /\ Len(b) = n
      /\ \A i \in 1 .. n : b[i].revision = log[s][sub[s].cursor + i]
  BY <1>1, <1>2, <1>4, TakenKeeps
<1>6. q # <<>>
  <2>1. Len(<<>>) = 0
    OBVIOUS
  <2> QED BY <1>4, <2>1
<1>7. sub[s].cursor + n \in Nat
  BY <1>2, <1>4 DEF Record
<1> HIDE DEF r, b
<1>8. /\ q[n].sequence \in Nat
      /\ q[n].sequence = call[c].cursor + Len(b) /\ q[n].sequence <= Len(log[s])
      /\ \A i \in 1 .. Len(b) : b[i].revision = log[s][call[c].cursor + i]
  BY <1>1, <1>5, <1>7
<1> QED BY <1>1, <1>5, <1>6, <1>8, ActivePollKeeps

LEMMA WakeKeeps ==
  ASSUME IInv, NEW c \in Calls, Wake(c)
  PROVE  IInv'
<1> DEFINE k == Staged(call[c], "poll", FALSE)
<1>1. /\ call[c].phase = "blocked" /\ call[c] \in Call /\ call \in [Calls -> Call]
      /\ call' = [call EXCEPT ![c] = k]
      /\ UNCHANGED <<serverVars, clientVars, log>>
  BY DEF Wake, IInv, TypeOK
<1>2. k \in Call /\ k.phase = "poll" /\ k.sub = call[c].sub /\ k.cursor = call[c].cursor
  BY <1>1 DEF Staged, Call
<1> HIDE DEF k
<1>3. call'[c] = k /\ \A d \in Calls : d # c => call'[d] = call[d]
  BY <1>1
<1>4. TypeOK'
  BY <1>1, <1>2 DEF IInv, TypeOK, serverVars, clientVars
<1>5. NoLostWakeup'
  BY <1>1, <1>2, <1>3 DEF IInv, NoLostWakeup, HasNews, serverVars
<1>6. AskedIsOwn'
  <2> SUFFICES ASSUME NEW t \in Subs, asked'[t] # NoCall
               PROVE  /\ client'[t] = "live"
                      /\ call'[asked'[t]].sub = t
                      /\ call'[asked'[t]].cursor = cursor'[t]
                      /\ call'[asked'[t]].phase # "free"
    BY DEF AskedIsOwn
  <2>1. asked[t] \in Calls /\ asked'[t] = asked[t]
    BY <1>1 DEF IInv, TypeOK, clientVars
  <2>2. client[t] = "live" /\ call[asked[t]].sub = t
        /\ call[asked[t]].cursor = cursor[t] /\ call[asked[t]].phase # "free"
    BY <2>1 DEF IInv, AskedIsOwn
  <2> QED BY <2>1, <2>2, <1>1, <1>2, <1>3 DEF clientVars
<1>7. AnswersExact'
  BY <1>1, <1>2, <1>3 DEF IInv, AnswersExact
<1>8. QueueExact' /\ RecordsBounded' /\ NewIsEmpty' /\ NoSilentLoss'
  BY <1>1 DEF IInv, QueueExact, RecordsBounded, NewIsEmpty, NoSilentLoss,
              serverVars, clientVars
<1> QED BY <1>4, <1>5, <1>6, <1>7, <1>8 DEF IInv

LEMMA RequestKeeps ==
  ASSUME IInv, NEW s \in Subs, NEW c \in Calls, NEW blocking \in BOOLEAN,
         Request(s, c, blocking)
  PROVE  IInv'
<1> DEFINE k == [phase |-> "poll", sub |-> s, cursor |-> cursor[s], blocking |-> blocking,
                 notified |-> FALSE, kind |-> "ok", events |-> <<>>, next |-> 0]
<1>1. /\ client[s] = "live" /\ asked[s] = NoCall /\ call[c].phase = "free"
      /\ call' = [call EXCEPT ![c] = k] /\ asked' = [asked EXCEPT ![s] = c]
      /\ UNCHANGED <<serverVars, client, cursor, got, log>>
      /\ call \in [Calls -> Call] /\ cursor[s] \in Nat
      /\ asked \in [Subs -> Calls \cup {NoCall}]
  BY DEF Request, IInv, TypeOK
<1>2. <<>> \in Seq(Event)
  BY EmptySeq
<1>3. k \in Call /\ k.phase = "poll" /\ k.sub = s /\ k.cursor = cursor[s]
  BY <1>1, <1>2 DEF Call
<1> HIDE DEF k
<1>4. /\ call'[c] = k /\ \A d \in Calls : d # c => call'[d] = call[d]
      /\ asked'[s] = c /\ \A t \in Subs : t # s => asked'[t] = asked[t]
  BY <1>1
<1>5. TypeOK'
  BY <1>1, <1>3 DEF IInv, TypeOK, serverVars
<1>6. NoLostWakeup'
  BY <1>1, <1>3, <1>4 DEF IInv, NoLostWakeup, HasNews, serverVars
<1>7. AskedIsOwn'
  <2> SUFFICES ASSUME NEW t \in Subs, asked'[t] # NoCall
               PROVE  /\ client'[t] = "live"
                      /\ call'[asked'[t]].sub = t
                      /\ call'[asked'[t]].cursor = cursor'[t]
                      /\ call'[asked'[t]].phase # "free"
    BY DEF AskedIsOwn
  <2>1. CASE t = s
    BY <2>1, <1>1, <1>3, <1>4
  <2>2. CASE t # s
    <3>1. asked[t] \in Calls /\ asked'[t] = asked[t]
      BY <2>2, <1>1, <1>4
    <3>2. client[t] = "live" /\ call[asked[t]].sub = t
          /\ call[asked[t]].cursor = cursor[t] /\ call[asked[t]].phase # "free"
      BY <3>1 DEF IInv, AskedIsOwn
    <3>3. asked[t] # c
      BY <3>2, <1>1
    <3> QED BY <3>1, <3>2, <3>3, <1>1, <1>4
  <2> QED BY <2>1, <2>2
<1>8. AnswersExact'
  BY <1>1, <1>3, <1>4 DEF IInv, AnswersExact
<1>9. QueueExact' /\ RecordsBounded' /\ NewIsEmpty' /\ NoSilentLoss'
  BY <1>1 DEF IInv, QueueExact, RecordsBounded, NewIsEmpty, NoSilentLoss, serverVars
<1> QED BY <1>5, <1>6, <1>7, <1>8, <1>9 DEF IInv

LEMMA AbandonKeeps ==
  ASSUME IInv, NEW s \in Subs, Abandon(s)
  PROVE  IInv'
<1> USE DEF Abandon, serverVars
<1>1. TypeOK' /\ NoLostWakeup' /\ AnswersExact'
  BY DEF IInv, TypeOK, NoLostWakeup, HasNews, AnswersExact
<1>2. QueueExact' /\ RecordsBounded' /\ NewIsEmpty' /\ NoSilentLoss'
  BY DEF IInv, QueueExact, RecordsBounded, NewIsEmpty, NoSilentLoss
<1>3. AskedIsOwn'
  BY DEF IInv, TypeOK, AskedIsOwn
<1> QED BY <1>1, <1>2, <1>3 DEF IInv

\* What a delivered batch gives its client.
LEMMA DeliveredBatch ==
  ASSUME IInv, NEW c \in Calls, Deliver(c), asked[call[c].sub] = c, call[c].kind = "ok"
  PROVE  LET s == call[c].sub
         IN  /\ s \in Subs /\ client[s] = "live"
             /\ got'[s] \in Seq(Nat) /\ cursor'[s] \in Nat
             /\ cursor[s] <= cursor'[s] /\ cursor'[s] <= Len(log[s])
             /\ got'[s] = SubSeq(log[s], 1, cursor'[s])
             /\ got' = [got EXCEPT ![s] = got'[s]]
             /\ cursor' = [cursor EXCEPT ![s] = cursor'[s]]
             /\ client' = client
<1> DEFINE s == call[c].sub
           ev == call[c].events
<1>1. s \in Subs /\ ev \in Seq(Event) /\ call[c].phase = "reply"
      /\ call[c].next \in Nat /\ got \in [Subs -> Seq(Nat)] /\ cursor \in [Subs -> Nat]
      /\ log[s] \in Seq(Nat)
  BY DEF Deliver, IInv, TypeOK, Call
<1>2. client[s] = "live" /\ call[c].cursor = cursor[s]
  BY <1>1, EventsAssumption DEF IInv, AskedIsOwn
<1>3. /\ call[c].next = cursor[s] + Len(ev) /\ call[c].next <= Len(log[s])
      /\ \A i \in 1 .. Len(ev) : ev[i].revision = log[s][cursor[s] + i]
  BY <1>1, <1>2 DEF IInv, AnswersExact
<1>4. /\ cursor' = [cursor EXCEPT ![s] = call[c].next]
      /\ got' = [got EXCEPT ![s] = got[s] \o Revisions(ev)]
      /\ client' = client
  BY DEF Deliver
<1>5. got[s] = SubSeq(log[s], 1, cursor[s]) /\ cursor[s] <= Len(log[s])
  BY <1>1 DEF IInv, NoSilentLoss
<1> HIDE DEF s, ev
<1>6. Len(ev) \in Nat /\ Len(log[s]) \in Nat /\ cursor[s] \in Nat
  BY <1>1, LenProperties
<1>7. got[s] \o Revisions(ev) = SubSeq(log[s], 1, cursor[s] + Len(ev))
  BY <1>1, <1>3, <1>5, <1>6, BatchExtendsPrefix
<1>8. got'[s] = SubSeq(log[s], 1, call[c].next) /\ cursor'[s] = call[c].next
  BY <1>1, <1>3, <1>4, <1>7
<1>9. SubSeq(log[s], 1, call[c].next) \in Seq(Nat)
  <2>1. call[c].next \in 0 .. Len(log[s])
    BY <1>1, <1>3, <1>6
  <2> QED BY <1>1, <2>1, CutQueue
<1>10. cursor[s] <= call[c].next
  BY <1>3, <1>6
<1>11. /\ got' = [got EXCEPT ![s] = got'[s]] /\ cursor' = [cursor EXCEPT ![s] = cursor'[s]]
  BY <1>1, <1>4
<1> QED BY <1>1, <1>2, <1>3, <1>4, <1>8, <1>9, <1>10, <1>11 DEF s

LEMMA DeliverKeeps ==
  ASSUME IInv, NEW c \in Calls, Deliver(c)
  PROVE  IInv'
<1> DEFINE s == call[c].sub
<1>1. /\ call[c].phase = "reply" /\ call' = [call EXCEPT ![c] = FreeCall]
      /\ UNCHANGED <<serverVars, log>> /\ s \in Subs /\ call \in [Calls -> Call]
      /\ asked \in [Subs -> Calls \cup {NoCall}]
  BY DEF Deliver, IInv, TypeOK, Call
<1>2. FreeCall \in Call /\ FreeCall.phase = "free"
  <2>1. <<>> \in Seq(Event) /\ (CHOOSE t \in Subs : TRUE) \in Subs
    BY EmptySeq, EventsAssumption
  <2> QED BY <2>1 DEF FreeCall, Call
<1>3. call'[c] = FreeCall /\ \A d \in Calls : d # c => call'[d] = call[d]
  BY <1>1
<1>4. call' \in [Calls -> Call]
  BY <1>1, <1>2
<1>5. NoLostWakeup' /\ AnswersExact'
  <2>1. NoLostWakeup'
    BY <1>1, <1>2, <1>3 DEF IInv, NoLostWakeup, HasNews, serverVars
  <2>2. AnswersExact'
    BY <1>1, <1>2, <1>3 DEF IInv, AnswersExact
  <2> QED BY <2>1, <2>2
<1>6. QueueExact' /\ RecordsBounded'
  BY <1>1 DEF IInv, QueueExact, RecordsBounded, serverVars
<1>7. CASE asked[s] # c
  <2>1. UNCHANGED clientVars
    BY <1>7 DEF Deliver
  <2>2. TypeOK' /\ NewIsEmpty' /\ NoSilentLoss'
    BY <1>1, <1>4, <2>1 DEF IInv, TypeOK, NewIsEmpty, NoSilentLoss, serverVars, clientVars
  <2>3. AskedIsOwn'
    <3> SUFFICES ASSUME NEW t \in Subs, asked'[t] # NoCall
                 PROVE  /\ client'[t] = "live"
                        /\ call'[asked'[t]].sub = t
                        /\ call'[asked'[t]].cursor = cursor'[t]
                        /\ call'[asked'[t]].phase # "free"
      BY DEF AskedIsOwn
    <3>1. asked[t] \in Calls /\ asked'[t] = asked[t]
      BY <1>1, <2>1 DEF clientVars
    <3>2. client[t] = "live" /\ call[asked[t]].sub = t
          /\ call[asked[t]].cursor = cursor[t] /\ call[asked[t]].phase # "free"
      BY <3>1 DEF IInv, AskedIsOwn
    <3>3. asked[t] # c
      BY <3>2, <1>7
    <3> QED BY <3>1, <3>2, <3>3, <1>3, <2>1 DEF clientVars
  <2> QED BY <1>5, <1>6, <2>2, <2>3 DEF IInv
<1>8. CASE asked[s] = c
  <2>1. asked' = [asked EXCEPT ![s] = NoCall]
    BY <1>8 DEF Deliver
  <2>2. \A t \in Subs : asked'[t] # NoCall =>
          /\ t # s /\ asked[t] \in Calls /\ asked'[t] = asked[t] /\ asked[t] # c
          /\ client[t] = "live" /\ call[asked[t]].sub = t
          /\ call[asked[t]].cursor = cursor[t] /\ call[asked[t]].phase # "free"
    BY <1>1, <2>1 DEF IInv, AskedIsOwn
  <2>3. CASE call[c].kind = "ok"
    <3>1. /\ client' = client /\ client[s] = "live"
          /\ got'[s] \in Seq(Nat) /\ cursor'[s] \in Nat /\ cursor'[s] <= Len(log[s])
          /\ got'[s] = SubSeq(log[s], 1, cursor'[s])
          /\ got' = [got EXCEPT ![s] = got'[s]]
          /\ cursor' = [cursor EXCEPT ![s] = cursor'[s]]
      BY <1>8, <2>3, DeliveredBatch
    <3>2. TypeOK'
      BY <1>1, <1>4, <2>1, <3>1 DEF IInv, TypeOK, serverVars
    <3>3. \A t \in Subs : t # s => cursor'[t] = cursor[t] /\ got'[t] = got[t]
      BY <3>1 DEF IInv, TypeOK
    <3>4. NoSilentLoss'
      BY <1>1, <3>1, <3>3 DEF IInv, NoSilentLoss
    <3>5. NewIsEmpty'
      BY <1>1, <3>1 DEF IInv, NewIsEmpty, serverVars
    <3>6. AskedIsOwn'
      BY <1>3, <2>2, <3>1, <3>3 DEF AskedIsOwn
    <3> QED BY <1>5, <1>6, <3>2, <3>4, <3>5, <3>6 DEF IInv
  <2>4. CASE call[c].kind # "ok"
    <3>1. client' = [client EXCEPT ![s] = "ended"] /\ UNCHANGED <<cursor, got>>
      BY <1>8, <2>4 DEF Deliver
    <3>2. TypeOK' /\ NoSilentLoss'
      BY <1>1, <1>4, <2>1, <3>1 DEF IInv, TypeOK, NoSilentLoss, serverVars
    <3>3. NewIsEmpty'
      BY <1>1, <3>1 DEF IInv, TypeOK, NewIsEmpty, serverVars
    <3>4. AskedIsOwn'
      <4>1. \A t \in Subs : t # s => client'[t] = client[t]
        BY <3>1 DEF IInv, TypeOK
      <4> QED BY <1>3, <2>2, <3>1, <4>1 DEF AskedIsOwn
    <3> QED BY <1>5, <1>6, <3>2, <3>3, <3>4 DEF IInv
  <2> QED BY <2>3, <2>4
<1> QED BY <1>7, <1>8

LEMMA StepIInv == IInv /\ [Next]_vars => IInv'
<1> SUFFICES ASSUME IInv, [Next]_vars PROVE IInv'
  OBVIOUS
<1>1. ASSUME NEW s \in Subs, NEW topics \in SUBSET Topics \ {{}}, CreateSubscription(s, topics)
      PROVE  IInv'
  BY <1>1, CreateSubscriptionKeeps
<1>2. ASSUME NEW s \in Subs, NEW c \in Calls, NEW b \in BOOLEAN, Request(s, c, b)
      PROVE  IInv'
  BY <1>2, RequestKeeps
<1>3. ASSUME NEW s \in Subs, Unsubscribe(s) \/ Abandon(s)
      PROVE  IInv'
  BY <1>3, UnsubscribeKeeps, AbandonKeeps
<1>4. ASSUME NEW topic \in Topics, NEW bytes \in Sizes, PublishEvent(topic, bytes)
      PROVE  IInv'
  BY <1>4, PublishEventKeeps
<1>5. ASSUME NEW c \in Calls, Poll(c)
      PROVE  IInv'
  BY <1>5, PollUnknownKeeps, PollRebaseKeeps, PollOversizeKeeps, PollBatchKeeps,
     PollEmptyKeeps DEF Poll
<1>6. ASSUME NEW c \in Calls, Wake(c) \/ TimeOut(c) \/ Deliver(c)
      PROVE  IInv'
  BY <1>6, WakeKeeps, TimeOutKeeps, DeliverKeeps
<1>7. ASSUME UNCHANGED vars
      PROVE  IInv'
  BY <1>7 DEF IInv, TypeOK, QueueExact, NoSilentLoss, NoLostWakeup, HasNews, RecordsBounded,
              NewIsEmpty, AskedIsOwn, AnswersExact, vars, serverVars, clientVars
<1> QED BY <1>1, <1>2, <1>3, <1>4, <1>5, <1>6, <1>7 DEF Next

\* The invariant all the results below rest on.
THEOREM Inductive == Spec => []IInv
<1> QED BY InitIInv, StepIInv, PTL DEF Spec

\* Every variable of the event plane keeps its type.
THEOREM EventsTypeCorrect == Spec => []TypeOK
<1>1. IInv => TypeOK
  BY DEF IInv
<1> QED BY Inductive, <1>1, PTL

\* Every queue is exactly what its client has yet to be given.
THEOREM QueuesExact == Spec => []QueueExact
<1>1. IInv => QueueExact
  BY DEF IInv
<1> QED BY Inductive, <1>1, PTL

\* A client's events are a prefix of what was published to it.
THEOREM NothingLost == Spec => []NoSilentLoss
<1>1. IInv => NoSilentLoss
  BY DEF IInv
<1> QED BY Inductive, <1>1, PTL

\* A waiter nothing will wake has nothing to be told.
THEOREM NoWakeupLost == Spec => []NoLostWakeup
<1>1. IInv => NoLostWakeup
  BY DEF IInv
<1> QED BY Inductive, <1>1, PTL

--------------------------------------------------------------------------------
(* Refinement *)

Ended == {s \in Subs : client[s] = "ended"}

LEMMA StreamInit == Init => Stream!Init
  BY DEF Init, Stream!Init

\* Every step is one of the stream's, or leaves it as it is.
LEMMA StreamStep == IInv /\ [Next]_vars => [Stream!Next]_<<log, got, Ended>>
<1> SUFFICES ASSUME IInv, [Next]_vars
             PROVE  Stream!Next \/ UNCHANGED <<log, got, Ended>>
  BY DEF Ended
<1>1. ASSUME NEW s \in Subs, NEW topics \in SUBSET Topics \ {{}}, CreateSubscription(s, topics)
      PROVE  UNCHANGED <<log, got, Ended>>
  <2>1. client[s] = "new" /\ client' = [client EXCEPT ![s] = "live"]
        /\ client \in [Subs -> {"new", "live", "ended"}]
    BY <1>1 DEF CreateSubscription, IInv, TypeOK
  <2>2. \A t \in Subs : client'[t] = "ended" <=> client[t] = "ended"
    BY <2>1
  <2> QED BY <1>1, <2>2 DEF CreateSubscription, Ended
<1>2. ASSUME NEW topic \in Topics, NEW bytes \in Sizes, PublishEvent(topic, bytes)
      PROVE  Stream!Next
  <2> DEFINE reached == {s \in active : topic \in sub[s].topics}
  <2>1. reached \in SUBSET Subs /\ revision + 1 \in 1 .. MaxEvents
    BY <1>2, EventsAssumption DEF PublishEvent, IInv, TypeOK
  <2>2. log' = [s \in Subs |-> IF s \in reached THEN Append(log[s], revision + 1)
                                                ELSE log[s]]
        /\ UNCHANGED <<got, client>>
    BY <1>2 DEF PublishEvent, clientVars
  <2> HIDE DEF reached
  <2>3. Stream!Append1
    BY <2>1, <2>2 DEF Stream!Append1
  <2> QED BY <2>3 DEF Stream!Next
<1>3. ASSUME NEW c \in Calls, Deliver(c), asked[call[c].sub] = c, call[c].kind = "ok"
      PROVE  Stream!Next
  <2> DEFINE s == call[c].sub
  <2>1. /\ s \in Subs /\ client[s] = "live" /\ client' = client
        /\ cursor'[s] \in Nat /\ cursor[s] <= cursor'[s] /\ cursor'[s] <= Len(log[s])
        /\ got'[s] = SubSeq(log[s], 1, cursor'[s])
        /\ got' = [got EXCEPT ![s] = got'[s]]
    BY <1>3, DeliveredBatch
  <2>2. /\ log[s] \in Seq(Nat) /\ cursor[s] \in Nat /\ log' = log
        /\ got[s] = SubSeq(log[s], 1, cursor[s]) /\ cursor[s] <= Len(log[s])
    BY <1>3, <2>1 DEF IInv, TypeOK, NoSilentLoss, Deliver
  <2>3. Len(log[s]) \in Nat
    BY <2>2, LenProperties
  <2>4. cursor[s] \in 0 .. Len(log[s]) /\ cursor'[s] \in 0 .. Len(log[s])
    BY <2>1, <2>2, <2>3
  <2>5. Len(got[s]) = cursor[s] /\ Len(got'[s]) = cursor'[s]
    BY <2>1, <2>2, <2>4, CutQueue
  <2>6. Stream!Give(s)
    BY <2>1, <2>2, <2>4, <2>5 DEF Stream!Give
  <2> QED BY <2>1, <2>6 DEF Stream!Next
<1>4. ASSUME NEW c \in Calls, Deliver(c), asked[call[c].sub] = c, call[c].kind # "ok"
      PROVE  Stream!Next
  <2> DEFINE s == call[c].sub
  <2>1. /\ s \in Subs /\ client' = [client EXCEPT ![s] = "ended"]
        /\ UNCHANGED <<log, got>> /\ client \in [Subs -> {"new", "live", "ended"}]
    BY <1>4 DEF Deliver, IInv, TypeOK, Call
  <2>2. {t \in Subs : client'[t] = "ended"} = {t \in Subs : client[t] = "ended"} \cup {s}
    BY <2>1
  <2>3. PICK t \in Subs : t = s
    BY <2>1
  <2>4. Stream!End(t)
    BY <2>1, <2>2, <2>3 DEF Stream!End
  <2> QED BY <2>4 DEF Stream!Next
<1>5. ASSUME NEW c \in Calls, Deliver(c), asked[call[c].sub] # c
      PROVE  UNCHANGED <<log, got, Ended>>
  BY <1>5 DEF Deliver, clientVars, Ended
<1>6. ASSUME NEW c \in Calls, Poll(c) \/ Wake(c) \/ TimeOut(c)
      PROVE  UNCHANGED <<log, got, Ended>>
  BY <1>6 DEF Poll, PollUnknown, PollRebase, PollOversize, PollBatch, PollEmpty, Wake,
              TimeOut, clientVars, Ended
<1>7. ASSUME NEW s \in Subs, Unsubscribe(s) \/ Abandon(s) \/
                             \E c \in Calls, b \in BOOLEAN : Request(s, c, b)
      PROVE  UNCHANGED <<log, got, Ended>>
  BY <1>7 DEF Unsubscribe, Abandon, Request, clientVars, Ended
<1>8. ASSUME UNCHANGED vars
      PROVE  UNCHANGED <<log, got, Ended>>
  BY <1>8 DEF vars, clientVars, Ended
<1> QED BY <1>1, <1>2, <1>3, <1>4, <1>5, <1>6, <1>7, <1>8 DEF Next

\* Subscriptions implement the stream EventStream promises: each event once, in
\* order, until the client is told to start over.
THEOREM StreamRefinement == Spec => ImplementsStream
<1>1. Stream!Init /\ [][Stream!Next]_<<log, got, Ended>> => Stream!Spec
  BY DEF Stream!Spec, Ended
<1>2. Stream!Spec <=> ImplementsStream
  BY DEF ImplementsStream
<1> QED BY Inductive, StreamInit, StreamStep, <1>1, <1>2, PTL DEF Spec
================================================================================
