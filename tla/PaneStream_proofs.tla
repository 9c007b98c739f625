---------------------------- MODULE PaneStream_proofs ----------------------------
(***************************************************************************)
(* Proofs about PaneStream: a pane that exits has shown all its process    *)
(* printed, a view told of the exit shows the last frame, and no view goes *)
(* back, for a mailbox and a subscriber's queue of any size and any number *)
(* of processes, connections and events.                                   *)
(***************************************************************************)
EXTENDS PaneStream, SequenceTheorems, TLAPS

(* The inductive invariant *)

\* What a frame says, as numbers.
Shots == [epoch : Nat, out : Nat, command : Nat, policy : Nat]

Messages == [kind : {"none", "output", "end", "respawn", "command", "client", "policy",
                     "stop"}, of : Nat]

FrameOf(f) == [kind |-> "frame", of |-> f]

Items == {FrameOf(f) : f \in Shots} \cup [kind : {"reply", "effect", "exited"}, of : Nat]

Requests == [kind : {"none", "attach", "greet", "asked", "queued", "ready"}, of : Nat]

\* Types, finer than TypeOK's and without its bounds.
MailTypes ==
  /\ mailbox \in Seq(Messages) /\ Len(mailbox) <= MaxMailbox /\ hand \in Messages
  /\ worker \in {"idle", "turn", "owes", "exited", "stopped"}
  /\ worker # "turn" => hand = Idle

ScreenTypes ==
  /\ reader \in [Epochs -> {"none", "reading", "ended", "gone"}]
  /\ made \in [Epochs -> Nat]
  /\ screen \in Shots /\ frame \in Shots /\ desired \in Nat

LinkTypes ==
  /\ effects \in 0 .. MaxEffects /\ sub \in {"live", "dead", "woken"}
  /\ link \in {"open", "closed", "draining", "off", "gone"} /\ links \in Nat
  /\ request \in Requests
  /\ unseen \in BOOLEAN

ViewTypes ==
  /\ outbox \in Seq(Items) /\ shown \in Shots /\ told \in BOOLEAN
  /\ ask \in Nat /\ pend \in Nat /\ asks \in Nat

\* A message about a process is about one that was started, and its end comes
\* from a reader that has returned.  A respawn is asked for once at a time.
Known(m, now, readers) ==
  /\ m.kind \in {"output", "end"} => m.of \in 1 .. now
  /\ m.kind = "end" => readers[m.of] = "gone"
  /\ m.kind = "respawn" => now < MaxEpoch

Processes ==
  /\ screen.epoch \in Epochs
  /\ \A e \in Epochs : e > screen.epoch => reader[e] = "none" /\ made[e] = 0
  /\ Known(hand, screen.epoch, reader)
  /\ \A i \in 1 .. Len(mailbox) : Known(mailbox[i], screen.epoch, reader)
  /\ hand.kind = "respawn" => \A i \in 1 .. Len(mailbox) : mailbox[i].kind # "respawn"
  /\ \A i, j \in 1 .. Len(mailbox) :
       mailbox[i].kind = "respawn" /\ mailbox[j].kind = "respawn" => i = j

One(m, e) == IF m = Msg("output", e) THEN 1 ELSE 0

\* c[i] is the output of process e that is on the screen once the messages
\* before the i-th of q are taken; it is all of it where an end stands.
Tally(c, q, first, e, total) ==
  /\ c[1] = first /\ c[Len(q) + 1] = total
  /\ \A i \in 1 .. Len(q) : /\ c[i + 1] = c[i] + One(q[i], e)
                            /\ q[i] = Msg("end", e) => c[i] = total

AddsUp(q, first, e, total) ==
  \E c \in [1 .. Len(q) + 1 -> 0 .. total] : Tally(c, q, first, e, total)

\* Every piece of output of the current process is on the screen, in hand or in
\* the mailbox, in order, and its end comes after all of it.
Counted ==
  LET e == screen.epoch
  IN  Alive => /\ AddsUp(mailbox, screen.out + One(hand, e), e, made[e])
               /\ hand = Msg("end", e) => screen.out = made[e]

\* Commands come to the screen in the order the view numbered them.
InOrder ==
  /\ ask \in {0, asks} /\ pend <= asks
  /\ screen.command <= asks
  /\ hand.kind = "command" => screen.command <= hand.of /\ hand.of <= asks
  /\ request.kind = "asked" => screen.command <= request.of /\ request.of <= asks
  /\ hand.kind = "command" /\ request.kind = "asked" => hand.of <= request.of
  /\ \A i \in 1 .. Len(mailbox) : mailbox[i].kind = "command" =>
       /\ screen.command <= mailbox[i].of /\ mailbox[i].of <= asks
       /\ hand.kind = "command" => hand.of <= mailbox[i].of
       /\ request.kind = "asked" => mailbox[i].of <= request.of
       /\ \A j \in 1 .. i : mailbox[j].kind = "command" => mailbox[j].of <= mailbox[i].of

\* g shows what f shows or something later.
Before(f, g) ==
  /\ f.epoch <= g.epoch /\ f.policy <= g.policy
  /\ f.epoch = g.epoch => f.out <= g.out /\ f.command <= g.command

\* What is shown, what is being written, what is published and the screen come in
\* this order.  A frame is written first, and the end of the pane alone.
Forward ==
  /\ screen.policy <= desired
  /\ Before(frame, screen) /\ Before(shown, frame)
  /\ \A i \in 1 .. Len(outbox) :
       /\ outbox[i].kind = "frame" =>
            i = 1 /\ Before(shown, outbox[i].of) /\ Before(outbox[i].of, frame)
       /\ outbox[i].kind = "exited" =>
            Len(outbox) = 1 /\ ~Alive /\ shown = frame

\* The bounds of what the model counts.
Within(f, n) == f.epoch <= MaxEpoch /\ f.out <= n /\ f.command <= n /\ f.policy <= n

Bounded ==
  /\ events \in Nat /\ events <= MaxEvents /\ desired <= events /\ asks <= events
  /\ \A e \in Epochs : made[e] <= events
  /\ Within(screen, events) /\ Within(frame, events) /\ Within(shown, events)
  /\ \A i \in 1 .. Len(outbox) :
       outbox[i].kind = "frame" => Within(outbox[i].of, events)

\* A writer that has taken the latest frame has written it, or is writing it.
Synced ==
  Serving /\ request.kind # "attach" /\ ~unseen =>
    \/ outbox # <<>> /\ outbox[1] = FrameOf(frame)
    \/ (outbox = <<>> \/ outbox[1].kind # "frame") /\ shown = frame

\* A view that was told of the end does not come back.
ToldLast == told => /\ ~Alive /\ shown = frame
                    /\ link \in {"closed", "draining", "gone"}

IInv == /\ MailTypes /\ ScreenTypes /\ LinkTypes /\ ViewTypes
        /\ Processes /\ Counted /\ InOrder /\ Forward /\ Bounded /\ Synced
        /\ EndsWithItsProcess /\ ToldLast

--------------------------------------------------------------------------------
(* The operators of the model *)

\* What the worker makes of a frame: a policy, a command, one more piece of output.
LEMMA Repainting ==
  ASSUME NEW s \in Shots, NEW n \in Nat, NEW t
  PROVE  /\ t = [s EXCEPT !.policy = n] =>
              /\ t \in Shots /\ t.policy = n
              /\ t.epoch = s.epoch /\ t.out = s.out /\ t.command = s.command
         /\ t = [s EXCEPT !.command = n] =>
              /\ t \in Shots /\ t.command = n
              /\ t.epoch = s.epoch /\ t.out = s.out /\ t.policy = s.policy
         /\ t = [s EXCEPT !.out = @ + 1] =>
              /\ t \in Shots /\ t.out = s.out + 1
              /\ t.epoch = s.epoch /\ t.command = s.command /\ t.policy = s.policy
<1>1. CASE t = [s EXCEPT !.out = @ + 1]
  <2>1. s.out + 1 \in Nat
    BY DEF Shots
  <2>2. t \in Shots
    BY <1>1, <2>1 DEF Shots
  <2> QED BY <1>1, <2>2 DEF Shots
<1>2. t = [s EXCEPT !.policy = n] =>
        /\ t \in Shots /\ t.policy = n
        /\ t.epoch = s.epoch /\ t.out = s.out /\ t.command = s.command
  BY DEF Shots
<1>3. t = [s EXCEPT !.command = n] =>
        /\ t \in Shots /\ t.command = n
        /\ t.epoch = s.epoch /\ t.out = s.out /\ t.policy = s.policy
  BY DEF Shots
<1> QED BY <1>1, <1>2, <1>3

\* respawn starts the next process on an empty screen.
LEMMA Respawning ==
  ASSUME ScreenTypes, Respawned
  PROVE  /\ screen' \in Shots /\ screen'.epoch = screen.epoch + 1
         /\ screen'.policy = desired /\ screen'.out = 0 /\ screen'.command = 0
<1>1. screen.epoch + 1 \in Nat /\ desired \in Nat
  BY DEF ScreenTypes, Shots
<1>2. screen' = [Nothing EXCEPT !.epoch = screen.epoch + 1, !.policy = desired]
  BY DEF Respawned
<1> QED BY <1>1, <1>2 DEF Nothing, Shots

\* reconcile_policy changes the policy of the screen.
LEMMA Reconciling ==
  ASSUME ScreenTypes
  PROVE  /\ Reconciled \in Shots /\ Reconciled.policy = desired
         /\ Reconciled.epoch = screen.epoch /\ Reconciled.out = screen.out
         /\ Reconciled.command = screen.command
BY Repainting DEF ScreenTypes, Reconciled

\* Posting a message puts it last.
LEMMA Posting ==
  ASSUME MailTypes, NEW m \in Messages, Post(m)
  PROVE  /\ mailbox' \in Seq(Messages)
         /\ Len(mailbox) \in Nat /\ Len(mailbox') = Len(mailbox) + 1
         /\ mailbox'[Len(mailbox) + 1] = m
         /\ \A i \in 1 .. Len(mailbox) : mailbox'[i] = mailbox[i] /\ mailbox[i].of \in Nat
<1>1. mailbox \in Seq(Messages) /\ mailbox' = Append(mailbox, m)
  BY DEF MailTypes, Post
<1>2. \A i \in 1 .. Len(mailbox) : mailbox[i] \in Messages
  BY <1>1, ElementOfSeq
<1>3. \A i \in 1 .. Len(mailbox) : mailbox[i].of \in Nat
  BY <1>2 DEF Messages
<1> QED BY <1>1, <1>3, AppendProperties, LenProperties

\* Taking the first message moves the others up.
LEMMA Taking ==
  ASSUME MailTypes, mailbox # <<>>
  PROVE  /\ Tail(mailbox) \in Seq(Messages) /\ Head(mailbox) \in Messages
         /\ Len(mailbox) \in Nat \ {0} /\ Len(Tail(mailbox)) = Len(mailbox) - 1
         /\ Head(mailbox) = mailbox[1]
         /\ \A i \in 1 .. Len(mailbox) - 1 : Tail(mailbox)[i] = mailbox[i + 1]
         /\ \A i \in 1 .. Len(mailbox) : mailbox[i].of \in Nat
<1>1. mailbox \in Seq(Messages)
  BY DEF MailTypes
<1>2. Len(mailbox) \in Nat \ {0}
  BY <1>1, EmptySeq
<1>3. Head(mailbox) = mailbox[1]
  BY <1>1, <1>2
<1>4. \A i \in 1 .. Len(mailbox) : mailbox[i].of \in Nat
  <2>1. \A i \in 1 .. Len(mailbox) : mailbox[i] \in Messages
    BY <1>1, ElementOfSeq
  <2> QED BY <2>1 DEF Messages
<1> QED BY <1>1, <1>2, <1>3, <1>4, HeadTailProperties

\* The order of frames is reflexive and transitive; Nothing is first.
LEMMA BeforeTransitive ==
  ASSUME NEW f \in Shots, NEW g \in Shots, NEW h \in Shots, Before(f, g), Before(g, h)
  PROVE  Before(f, h)
BY DEF Before, Shots

LEMMA BeforeSelf ==
  ASSUME NEW f \in Shots
  PROVE  /\ Before(f, f) /\ Before(Nothing, f)
         /\ Before(f, Nothing) => f = Nothing
BY DEF Before, Shots, Nothing

\* One more message of a known process.
LEMMA TallyPost ==
  ASSUME NEW q \in Seq(Messages), NEW r \in Seq(Messages), NEW m \in Messages,
         NEW first \in Nat, NEW e, NEW total \in Nat, AddsUp(q, first, e, total),
         Len(r) = Len(q) + 1, r[Len(q) + 1] = m, \A i \in 1 .. Len(q) : r[i] = q[i],
         m = Msg("output", e) => \A i \in 1 .. Len(q) : q[i] # Msg("end", e)
  PROVE  AddsUp(r, first, e, total + One(m, e))
<1>0. PICK c \in [1 .. Len(q) + 1 -> 0 .. total] : Tally(c, q, first, e, total)
  BY DEF AddsUp
<1> DEFINE d == [i \in 1 .. Len(r) + 1 |->
                   IF i = Len(r) + 1 THEN total + One(m, e) ELSE c[i]]
<1>1. Len(q) \in Nat /\ One(m, e) \in {0, 1}
  BY LenProperties DEF One
<1>2. \A i \in 1 .. Len(q) + 1 : c[i] \in 0 .. total
  OBVIOUS
<1>3. d \in [1 .. Len(r) + 1 -> 0 .. total + One(m, e)]
  BY <1>1, <1>2
<1>4. d[Len(r) + 1] = total + One(m, e) /\ \A i \in 1 .. Len(r) : d[i] = c[i]
  BY <1>1
<1>5. c[Len(r)] = total /\ c[1] = first
  BY <1>0 DEF Tally
<1>6. ASSUME NEW i \in 1 .. Len(r)
      PROVE  /\ d[i + 1] = d[i] + One(r[i], e)
             /\ r[i] = Msg("end", e) => d[i] = total + One(m, e)
  <2>1. CASE i = Len(r)
    <3>1. r[i] = m /\ d[i] = total /\ d[i + 1] = total + One(m, e)
      BY <1>1, <1>4, <1>5, <2>1
    <3>2. m = Msg("end", e) => One(m, e) = 0
      BY DEF One, Msg
    <3> QED BY <1>1, <3>1, <3>2
  <2>2. CASE i # Len(r)
    <3>1. i \in 1 .. Len(q) /\ i + 1 \in 1 .. Len(r) /\ r[i] = q[i]
      BY <1>1, <2>2
    <3>2. d[i] = c[i] /\ d[i + 1] = c[i + 1]
      BY <1>4, <3>1
    <3>3. c[i + 1] = c[i] + One(q[i], e) /\ (q[i] = Msg("end", e) => c[i] = total)
      BY <1>0, <3>1 DEF Tally
    <3>4. q[i] = Msg("end", e) => One(m, e) = 0
      BY <3>1 DEF One
    <3> QED BY <3>1, <3>2, <3>3, <3>4
  <2> QED BY <2>1, <2>2
<1>7. d[1] = first
  BY <1>1, <1>4, <1>5
<1> HIDE DEF d
<1>8. Tally(d, r, first, e, total + One(m, e))
  BY <1>4, <1>6, <1>7 DEF Tally
<1> QED BY <1>3, <1>8 DEF AddsUp

\* One message less: what it says of the process is counted as taken.
LEMMA TallyTake ==
  ASSUME NEW q \in Seq(Messages), NEW r \in Seq(Messages), NEW first \in Nat, NEW e,
         NEW total \in Nat, Len(q) \in Nat \ {0}, AddsUp(q, first, e, total),
         Len(r) = Len(q) - 1, \A i \in 1 .. Len(q) - 1 : r[i] = q[i + 1]
  PROVE  /\ AddsUp(r, first + One(q[1], e), e, total)
         /\ q[1] = Msg("end", e) => first = total
<1>0. PICK c \in [1 .. Len(q) + 1 -> 0 .. total] : Tally(c, q, first, e, total)
  BY DEF AddsUp
<1> DEFINE d == [i \in 1 .. Len(r) + 1 |-> c[i + 1]]
<1>1. d \in [1 .. Len(r) + 1 -> 0 .. total] /\ \A i \in 1 .. Len(r) + 1 : d[i] = c[i + 1]
  OBVIOUS
<1>2. /\ c[1] = first /\ c[Len(q) + 1] = total
      /\ \A i \in 1 .. Len(q) : /\ c[i + 1] = c[i] + One(q[i], e)
                                /\ q[i] = Msg("end", e) => c[i] = total
  BY <1>0 DEF Tally
<1> HIDE DEF d
<1>3. d[1] = first + One(q[1], e) /\ d[Len(r) + 1] = total
  <2>1. 1 \in 1 .. Len(q) /\ 1 \in 1 .. Len(r) + 1 /\ Len(r) + 1 \in 1 .. Len(r) + 1
    OBVIOUS
  <2>2. d[1] = c[1 + 1] /\ d[Len(r) + 1] = c[(Len(r) + 1) + 1]
    BY <1>1, <2>1
  <2>3. (Len(r) + 1) + 1 = Len(q) + 1
    OBVIOUS
  <2> QED BY <1>2, <2>1, <2>2, <2>3
<1>4. ASSUME NEW i \in 1 .. Len(r)
      PROVE  /\ d[i + 1] = d[i] + One(r[i], e)
             /\ r[i] = Msg("end", e) => d[i] = total
  <2>1. i + 1 \in 1 .. Len(q) /\ i \in 1 .. Len(r) + 1 /\ i + 1 \in 1 .. Len(r) + 1
    OBVIOUS
  <2>2. d[i] = c[i + 1] /\ d[i + 1] = c[(i + 1) + 1] /\ r[i] = q[i + 1]
    BY <1>1, <2>1
  <2> QED BY <1>2, <2>1, <2>2
<1>5. 1 \in 1 .. Len(q)
  OBVIOUS
<1>6. Tally(d, r, first + One(q[1], e), e, total)
  BY <1>3, <1>4 DEF Tally
<1> QED BY <1>1, <1>2, <1>5, <1>6 DEF AddsUp

\* A message that may be posted.
LEMMA KnownPost ==
  ASSUME MailTypes, ScreenTypes, Processes, NEW m \in Messages, Post(m),
         UNCHANGED <<screen, hand>>,
         Known(m, screen'.epoch, reader'),
         m.kind = "respawn" => /\ hand.kind # "respawn"
                               /\ \A i \in 1 .. Len(mailbox) : mailbox[i].kind # "respawn",
         \A e \in Epochs : /\ reader[e] = "gone" => reader'[e] = "gone"
                           /\ e > screen.epoch => reader'[e] = "none" /\ made'[e] = 0
  PROVE  Processes'
<1>1. /\ Len(mailbox) \in Nat /\ Len(mailbox') = Len(mailbox) + 1
      /\ mailbox'[Len(mailbox) + 1] = m
      /\ \A i \in 1 .. Len(mailbox) : mailbox'[i] = mailbox[i]
  BY Posting
<1>2. 1 .. screen.epoch \subseteq Epochs
  BY PaneAssumption DEF Processes, Epochs
<1>3. ASSUME NEW x, Known(x, screen.epoch, reader) PROVE Known(x, screen'.epoch, reader')
  BY <1>2, <1>3 DEF Known
<1>4. Known(hand', screen'.epoch, reader')
  BY <1>3 DEF Processes
<1>5. ASSUME NEW i \in 1 .. Len(mailbox') PROVE Known(mailbox'[i], screen'.epoch, reader')
  <2>1. CASE i = Len(mailbox) + 1
    BY <1>1, <2>1
  <2>2. CASE i # Len(mailbox) + 1
    <3>1. i \in 1 .. Len(mailbox)
      BY <1>1, <2>2
    <3> QED BY <1>1, <1>3, <3>1 DEF Processes
  <2> QED BY <2>1, <2>2
<1>6. \A i \in 1 .. Len(mailbox') : i = Len(mailbox) + 1 \/ i \in 1 .. Len(mailbox)
  BY <1>1
<1>7. hand'.kind = "respawn" => \A i \in 1 .. Len(mailbox') : mailbox'[i].kind # "respawn"
  BY <1>1, <1>6 DEF Processes
<1>8. \A i, j \in 1 .. Len(mailbox') :
        mailbox'[i].kind = "respawn" /\ mailbox'[j].kind = "respawn" => i = j
  BY <1>1, <1>6 DEF Processes
<1> QED BY <1>4, <1>5, <1>7, <1>8 DEF Processes

--------------------------------------------------------------------------------
(* The parts of the invariant, each kept by every step *)

\* Types of the worker and of its mailbox.
LEMMA MailTypesKept == IInv /\ [Next]_vars => MailTypes'
<1> SUFFICES ASSUME IInv, [Next]_vars PROVE MailTypes'
  OBVIOUS
<1>0. MailTypes /\ LinkTypes
  BY DEF IInv
<1>1. ASSUME NEW e \in Epochs, Read(e) PROVE MailTypes'
  <2>1. Msg("output", e) \in Messages /\ Post(Msg("output", e))
    BY <1>0, <1>1, PaneAssumption DEF Read, Epochs, Msg, Messages
  <2>2. /\ mailbox' \in Seq(Messages)
        /\ Len(mailbox) \in Nat /\ Len(mailbox') = Len(mailbox) + 1
        /\ mailbox'[Len(mailbox) + 1] = Msg("output", e)
        /\ \A i \in 1 .. Len(mailbox) : mailbox'[i] = mailbox[i] /\ mailbox[i].of \in Nat
    BY <1>0, <2>1, Posting
  <2>3. UNCHANGED <<worker, hand>>
    BY <1>1 DEF Read, serverVars, viewVars
  <2> QED BY <1>0, <1>1, <2>1, <2>2, <2>3, PaneAssumption DEF Read, MailTypes, Room
<1>2. ASSUME NEW e \in Epochs, SendEnd(e) PROVE MailTypes'
  <2>1. Msg("end", e) \in Messages /\ Post(Msg("end", e))
    BY <1>0, <1>2, PaneAssumption DEF SendEnd, Epochs, Msg, Messages
  <2>2. /\ mailbox' \in Seq(Messages)
        /\ Len(mailbox) \in Nat /\ Len(mailbox') = Len(mailbox) + 1
        /\ mailbox'[Len(mailbox) + 1] = Msg("end", e)
        /\ \A i \in 1 .. Len(mailbox) : mailbox'[i] = mailbox[i] /\ mailbox[i].of \in Nat
    BY <1>0, <2>1, Posting
  <2>3. UNCHANGED <<worker, hand>>
    BY <1>2 DEF SendEnd, serverVars, viewVars
  <2> QED BY <1>0, <1>2, <2>1, <2>2, <2>3, PaneAssumption DEF SendEnd, MailTypes, Room
<1>3. ASSUME Recv PROVE MailTypes'
  <2>1. Tail(mailbox) \in Seq(Messages) /\ Head(mailbox) \in Messages
    BY <1>0, <1>3, Taking DEF Recv
  <2>2. Len(Tail(mailbox)) <= MaxMailbox
    BY <1>0, <1>3, Taking, PaneAssumption DEF Recv, MailTypes
  <2> QED BY <1>0, <1>3, <2>1, <2>2 DEF Recv, MailTypes
<1>4. ASSUME TurnStops PROVE MailTypes'
  <2>1. <<>> \in Seq(Messages) /\ Len(<<>>) = 0 /\ Idle \in Messages
    BY EmptySeq DEF Idle, Msg, Messages
  <2> QED BY <1>0, <1>4, <2>1, PaneAssumption DEF TurnStops, Returned, MailTypes
<1>5. ASSUME TurnEnds PROVE MailTypes'
  <2>1. <<>> \in Seq(Messages) /\ Len(<<>>) = 0 /\ Idle \in Messages
    BY EmptySeq DEF Idle, Msg, Messages
  <2> QED BY <1>0, <1>5, <2>1, PaneAssumption DEF TurnEnds, Returned, MailTypes
<1>6. ASSUME TurnOutput PROVE MailTypes'
  <2>1. Idle \in Messages
    BY DEF Idle, Msg, Messages
  <2> QED BY <1>0, <1>6, <2>1 DEF TurnOutput, Turn, MailTypes
<1>7. ASSUME TurnStaleEnd PROVE MailTypes'
  <2>1. Idle \in Messages
    BY DEF Idle, Msg, Messages
  <2> QED BY <1>0, <1>7, <2>1 DEF TurnStaleEnd, Turn, MailTypes
<1>8. ASSUME TurnRespawn PROVE MailTypes'
  <2>1. Idle \in Messages
    BY DEF Idle, Msg, Messages
  <2> QED BY <1>0, <1>8, <2>1 DEF TurnRespawn, Turn, MailTypes
<1>9. ASSUME TurnCommand PROVE MailTypes'
  <2>1. Idle \in Messages
    BY DEF Idle, Msg, Messages
  <2> QED BY <1>0, <1>9, <2>1 DEF TurnCommand, Turn, MailTypes
<1>10. ASSUME TurnLatestClient PROVE MailTypes'
  <2>1. Idle \in Messages
    BY DEF Idle, Msg, Messages
  <2> QED BY <1>0, <1>10, <2>1 DEF TurnLatestClient, Turn, MailTypes
<1>11. ASSUME TurnPolicy PROVE MailTypes'
  <2>1. Idle \in Messages
    BY DEF Idle, Msg, Messages
  <2> QED BY <1>0, <1>11, <2>1 DEF TurnPolicy, Turn, MailTypes
<1>12. ASSUME PublishChange PROVE MailTypes'
  BY <1>0, <1>12 DEF PublishChange, Published, MailTypes
<1>13. ASSUME NEW k \in {"policy", "stop"}, TryPost(k) PROVE MailTypes'
  <2>0. CASE UNCHANGED mailbox
    BY <1>0, <1>13, <2>0 DEF TryPost, MailTypes, Room
  <2>1. CASE Post(Msg(k, 0)) /\ Room
    <3>1. Msg(k, 0) \in Messages
      BY <1>0, <1>13 DEF Msg, Messages
    <3>2. /\ mailbox' \in Seq(Messages)
          /\ Len(mailbox) \in Nat /\ Len(mailbox') = Len(mailbox) + 1
          /\ mailbox'[Len(mailbox) + 1] = Msg(k, 0)
          /\ \A i \in 1 .. Len(mailbox) : mailbox'[i] = mailbox[i] /\ mailbox[i].of \in Nat
      BY <1>0, <2>1, <3>1, Posting
    <3>3. UNCHANGED <<worker, hand>>
      BY <1>13 DEF TryPost, serverVars, viewVars
    <3> QED BY <1>0, <1>13, <2>1, <3>2, <3>3, PaneAssumption DEF TryPost, MailTypes, Room
  <2> QED BY <1>13, <2>0, <2>1 DEF TryPost
<1>14. ASSUME AskRespawn PROVE MailTypes'
  <2>1. Msg("respawn", 0) \in Messages /\ Post(Msg("respawn", 0))
    BY <1>0, <1>14, PaneAssumption DEF AskRespawn, Msg, Messages
  <2>2. /\ mailbox' \in Seq(Messages)
        /\ Len(mailbox) \in Nat /\ Len(mailbox') = Len(mailbox) + 1
        /\ mailbox'[Len(mailbox) + 1] = Msg("respawn", 0)
        /\ \A i \in 1 .. Len(mailbox) : mailbox'[i] = mailbox[i] /\ mailbox[i].of \in Nat
    BY <1>0, <2>1, Posting
  <2>3. UNCHANGED <<worker, hand>>
    BY <1>14 DEF AskRespawn, serverVars, viewVars
  <2> QED BY <1>0, <1>14, <2>1, <2>2, <2>3, PaneAssumption DEF AskRespawn, MailTypes, Room
<1>15. ASSUME Greet PROVE MailTypes'
  <2>0. CASE UNCHANGED mailbox
    BY <1>0, <1>15, <2>0 DEF Greet, MailTypes, Room
  <2>1. CASE Post(Msg("client", links)) /\ Room
    <3>1. Msg("client", links) \in Messages
      BY <1>0, <1>15 DEF LinkTypes, Msg, Messages
    <3>2. /\ mailbox' \in Seq(Messages)
          /\ Len(mailbox) \in Nat /\ Len(mailbox') = Len(mailbox) + 1
          /\ mailbox'[Len(mailbox) + 1] = Msg("client", links)
          /\ \A i \in 1 .. Len(mailbox) : mailbox'[i] = mailbox[i] /\ mailbox[i].of \in Nat
      BY <1>0, <2>1, <3>1, Posting
    <3>3. UNCHANGED <<worker, hand>>
      BY <1>15 DEF Greet, serverVars, viewVars
    <3> QED BY <1>0, <1>15, <2>1, <3>2, <3>3, PaneAssumption DEF Greet, MailTypes, Room
  <2> QED BY <1>15, <2>0, <2>1 DEF Greet
<1>16. ASSUME TakeCommand PROVE MailTypes'
  <2>0. CASE UNCHANGED mailbox
    BY <1>0, <1>16, <2>0 DEF TakeCommand, MailTypes, Room
  <2>1. CASE Post(Msg("command", request.of)) /\ Room
    <3>1. Msg("command", request.of) \in Messages
      BY <1>0, <1>16 DEF LinkTypes, Requests, Msg, Messages
    <3>2. /\ mailbox' \in Seq(Messages)
          /\ Len(mailbox) \in Nat /\ Len(mailbox') = Len(mailbox) + 1
          /\ mailbox'[Len(mailbox) + 1] = Msg("command", request.of)
          /\ \A i \in 1 .. Len(mailbox) : mailbox'[i] = mailbox[i] /\ mailbox[i].of \in Nat
      BY <1>0, <2>1, <3>1, Posting
    <3>3. UNCHANGED <<worker, hand>>
      BY <1>16 DEF TakeCommand, serverVars, viewVars
    <3> QED BY <1>0, <1>16, <2>1, <3>2, <3>3, PaneAssumption
               DEF TakeCommand, MailTypes, Room
  <2> QED BY <1>16, <2>0, <2>1 DEF TakeCommand
<1>17. ASSUME UNCHANGED <<mailbox, hand, worker>> PROVE MailTypes'
  BY <1>0, <1>17 DEF MailTypes
<1>18. ASSUME NEW e \in Epochs,
          \/ EndOfFile(e) \/ GiveUp(e)
      PROVE  UNCHANGED <<mailbox, hand, worker>>
  BY <1>18 DEF EndOfFile, GiveUp
<1>19. ASSUME
          \/ PublishOutput \/ Configure \/ StopPane \/ RetirePane \/ Attach
          \/ WriteReply \/ WriteEffect \/ WriteFrame \/ WriteExited \/ Overflow \/ Break
          \/ ViewReads \/ Disconnect \/ FailPending \/ Reconnect \/ Leave \/ Ask
          \/ WriteAsk \/ Stall
      PROVE  UNCHANGED <<mailbox, hand, worker>>
  BY <1>19 DEF PublishOutput, Configure, StopPane, RetirePane, Attach, WriteReply,
     WriteEffect, WriteFrame, WriteExited, Overflow, Break, ViewReads, Disconnect,
     FailPending, Reconnect, Leave, Ask, WriteAsk, Stall, paneVars, Writing
<1>20. ASSUME UNCHANGED vars
      PROVE  UNCHANGED <<mailbox, hand, worker>>
  BY <1>20 DEF paneVars, vars
<1> QED BY <1>1, <1>2, <1>3, <1>4, <1>5, <1>6, <1>7, <1>8, <1>9, <1>10, <1>11, <1>12,
           <1>13, <1>14, <1>15, <1>16, <1>17, <1>18, <1>19, <1>20
       DEF Next, Outside, Inside, Worker, Connection, View

\* Types of the processes and of the frames.
LEMMA ScreenTypesKept == IInv /\ [Next]_vars => ScreenTypes'
<1> SUFFICES ASSUME IInv, [Next]_vars PROVE ScreenTypes'
  OBVIOUS
<1>0. ScreenTypes /\ MailTypes
  BY DEF IInv
<1>1. ASSUME NEW e \in Epochs, Read(e) PROVE ScreenTypes'
  <2>1. made[e] + 1 \in Nat
    BY <1>0 DEF ScreenTypes
  <2> QED BY <1>0, <1>1, <2>1 DEF Read, ScreenTypes, serverVars
<1>2. ASSUME NEW e \in Epochs, EndOfFile(e) PROVE ScreenTypes'
  BY <1>0, <1>2 DEF EndOfFile, serverVars, ScreenTypes
<1>3. ASSUME NEW e \in Epochs, SendEnd(e) PROVE ScreenTypes'
  BY <1>0, <1>3 DEF SendEnd, Post, serverVars, ScreenTypes
<1>4. ASSUME NEW e \in Epochs, GiveUp(e) PROVE ScreenTypes'
  BY <1>0, <1>4 DEF GiveUp, serverVars, ScreenTypes
<1>5. ASSUME Recv PROVE ScreenTypes'
  <2>1. Reconciled \in Shots
    BY <1>0, Reconciling
  <2> QED BY <1>0, <1>5, <2>1 DEF Recv, Published, ScreenTypes, serverVars
<1>6. ASSUME TurnEnds PROVE ScreenTypes'
  BY <1>0, <1>6 DEF TurnEnds, Returned, Published, serverVars, ScreenTypes
<1>7. ASSUME TurnOutput PROVE ScreenTypes'
  <2>1. [screen EXCEPT !.out = @ + 1] \in Shots
    BY <1>0, Repainting DEF ScreenTypes
  <2> QED BY <1>0, <1>7, <2>1 DEF TurnOutput, ScreenTypes, serverVars
<1>8. ASSUME TurnRespawn PROVE ScreenTypes'
  <2>1. CASE Respawned /\ reader' = [reader EXCEPT ![screen.epoch + 1] = "reading"]
    BY <1>0, <1>8, <2>1, Respawning DEF TurnRespawn, ScreenTypes, serverVars
  <2>2. CASE UNCHANGED <<screen, reader>>
    BY <1>0, <1>8, <2>2 DEF TurnRespawn, ScreenTypes, serverVars
  <2> QED BY <1>8, <2>1, <2>2 DEF TurnRespawn
<1>9. ASSUME TurnCommand PROVE ScreenTypes'
  <2>1. [screen EXCEPT !.command = hand.of] \in Shots
    BY <1>0, Repainting DEF ScreenTypes, MailTypes, Messages
  <2> QED BY <1>0, <1>9, <2>1 DEF TurnCommand, ScreenTypes, serverVars
<1>10. ASSUME PublishChange PROVE ScreenTypes'
  BY <1>0, <1>10 DEF PublishChange, Published, serverVars, ScreenTypes
<1>11. ASSUME PublishOutput PROVE ScreenTypes'
  <2>1. Reconciled \in Shots
    BY <1>0, Reconciling
  <2> QED BY <1>0, <1>11, <2>1 DEF PublishOutput, Published, ScreenTypes, serverVars
<1>12. ASSUME Configure PROVE ScreenTypes'
  BY <1>0, <1>12 DEF Configure, paneVars, ScreenTypes
<1>13. ASSUME UNCHANGED <<reader, made, screen, frame, desired>> PROVE ScreenTypes'
  BY <1>0, <1>13 DEF ScreenTypes
<1>14. ASSUME
          \/ TurnStops \/ TurnStaleEnd \/ TurnLatestClient \/ TurnPolicy \/ StopPane
          \/ AskRespawn \/ RetirePane \/ Attach \/ Greet \/ TakeCommand \/ WriteReply
          \/ WriteEffect \/ WriteFrame \/ WriteExited \/ Overflow \/ Break \/ ViewReads
          \/ Disconnect \/ FailPending \/ Reconnect \/ Leave \/ Ask \/ WriteAsk \/ Stall
      PROVE  UNCHANGED <<reader, made, screen, frame, desired>>
  BY <1>14 DEF TurnStops, TurnStaleEnd, TurnLatestClient, TurnPolicy, StopPane,
     AskRespawn, RetirePane, Attach, Greet, TakeCommand, WriteReply, WriteEffect,
     WriteFrame, WriteExited, Overflow, Break, ViewReads, Disconnect, FailPending,
     Reconnect, Leave, Ask, WriteAsk, Stall, serverVars, paneVars, Writing
<1>15. ASSUME NEW k \in {"policy", "stop"},
          \/ TryPost(k)
      PROVE  UNCHANGED <<reader, made, screen, frame, desired>>
  BY <1>15 DEF TryPost
<1>16. ASSUME UNCHANGED vars
      PROVE  UNCHANGED <<reader, made, screen, frame, desired>>
  BY <1>16 DEF paneVars, serverVars, vars
<1> QED BY <1>1, <1>2, <1>3, <1>4, <1>5, <1>6, <1>7, <1>8, <1>9, <1>10, <1>11, <1>12,
           <1>13, <1>14, <1>15, <1>16
       DEF Next, Outside, Inside, Worker, Connection, View

\* Types of the connection.
LEMMA LinkTypesKept == IInv /\ [Next]_vars => LinkTypes'
<1> SUFFICES ASSUME IInv, [Next]_vars PROVE LinkTypes'
  OBVIOUS
<1>0. LinkTypes /\ MailTypes /\ ViewTypes
  BY DEF IInv
<1>1. ASSUME Recv PROVE LinkTypes'
  <2>1. unseen' \in BOOLEAN
    BY <1>0, <1>1 DEF Recv, Published, LinkTypes
  <2> QED BY <1>0, <1>1, <2>1 DEF Recv, LinkTypes, subVars
<1>2. ASSUME TurnStops PROVE LinkTypes'
  BY <1>0, <1>2, PaneAssumption DEF TurnStops, Returned, subVars, LinkTypes, Requests, Msg, Idle
<1>3. ASSUME TurnEnds PROVE LinkTypes'
  <2>1. unseen' \in BOOLEAN
    BY <1>3 DEF TurnEnds, Published
  <2> QED BY <1>0, <1>3, <2>1 DEF TurnEnds, Returned, Msg, LinkTypes, Requests, subVars
<1>4. ASSUME TurnOutput PROVE LinkTypes'
  BY <1>0, <1>4, PaneAssumption DEF TurnOutput, Turn, Push, subVars, LinkTypes, Msg,
     Idle
<1>5. ASSUME TurnCommand PROVE LinkTypes'
  <2>1. hand.of \in Nat
    BY <1>0 DEF MailTypes, Messages
  <2> QED BY <1>0, <1>5, <2>1 DEF TurnCommand, Msg, LinkTypes, Requests, subVars
<1>6. ASSUME PublishChange PROVE LinkTypes'
  <2>1. unseen' \in BOOLEAN
    BY <1>6 DEF PublishChange, Published
  <2> QED BY <1>0, <1>6, <2>1 DEF PublishChange, LinkTypes, subVars
<1>7. ASSUME PublishOutput PROVE LinkTypes'
  <2>1. unseen' \in BOOLEAN
    BY <1>7 DEF PublishOutput, Published
  <2> QED BY <1>0, <1>7, <2>1 DEF PublishOutput, LinkTypes, subVars
<1>8. ASSUME Attach PROVE LinkTypes'
  <2>1. request' \in Requests
    BY <1>0, <1>8 DEF Attach, Msg, LinkTypes, Requests
  <2>2. unseen' \in BOOLEAN /\ link' \in {"open", "closed", "draining", "off", "gone"}
    BY <1>0, <1>8 DEF Attach, LinkTypes
  <2> QED BY <1>0, <1>8, <2>1, <2>2 DEF Attach, LinkTypes, subVars
<1>9. ASSUME Greet PROVE LinkTypes'
  BY <1>0, <1>9, PaneAssumption DEF Greet, Post, subVars, LinkTypes, Requests, Msg, Idle
<1>10. ASSUME TakeCommand PROVE LinkTypes'
  BY <1>0, <1>10, PaneAssumption DEF TakeCommand, Post, subVars, LinkTypes, Requests, Msg, Idle
<1>11. ASSUME WriteReply PROVE LinkTypes'
  BY <1>0, <1>11, PaneAssumption DEF WriteReply, Writing, LinkTypes, Requests, Msg, Idle
<1>12. ASSUME WriteEffect PROVE LinkTypes'
  BY <1>0, <1>12, PaneAssumption DEF WriteEffect, Writing, LinkTypes, Msg, Idle
<1>13. ASSUME WriteFrame PROVE LinkTypes'
  BY <1>0, <1>13, PaneAssumption DEF WriteFrame, Writing, LinkTypes, Msg, Idle
<1>14. ASSUME Overflow PROVE LinkTypes'
  BY <1>0, <1>14, PaneAssumption DEF Overflow, subVars, LinkTypes, Msg, Idle
<1>15. ASSUME Break PROVE LinkTypes'
  BY <1>0, <1>15, PaneAssumption DEF Break, subVars, LinkTypes, Msg, Idle
<1>16. ASSUME ViewReads PROVE LinkTypes'
  BY <1>0, <1>16, PaneAssumption DEF ViewReads, subVars, LinkTypes, Msg, Idle
<1>17. ASSUME Disconnect PROVE LinkTypes'
  BY <1>0, <1>17, PaneAssumption DEF Disconnect, subVars, LinkTypes, Msg, Idle
<1>18. ASSUME FailPending PROVE LinkTypes'
  BY <1>0, <1>18, PaneAssumption DEF FailPending, subVars, LinkTypes, Msg, Idle
<1>19. ASSUME Reconnect PROVE LinkTypes'
  <2>1. request' \in Requests
    BY <1>19 DEF Reconnect, Msg, Requests
  <2>2. links' \in Nat /\ effects' \in 0 .. MaxEffects
    BY <1>0, <1>19, PaneAssumption DEF Reconnect, LinkTypes
  <2> QED BY <1>0, <1>19, <2>1, <2>2 DEF Reconnect, LinkTypes
<1>20. ASSUME Leave PROVE LinkTypes'
  BY <1>0, <1>20, PaneAssumption DEF Leave, subVars, LinkTypes, Msg, Idle
<1>21. ASSUME WriteAsk PROVE LinkTypes'
  <2>1. ask \in Nat
    BY <1>0 DEF ViewTypes
  <2> QED BY <1>0, <1>21, <2>1 DEF WriteAsk, Msg, LinkTypes, Requests, subVars
<1>22. ASSUME UNCHANGED <<effects, sub, link, links, request, unseen>> PROVE LinkTypes'
  BY <1>0, <1>22 DEF LinkTypes, Msg, Idle
<1>23. ASSUME NEW e \in Epochs,
          \/ Read(e) \/ EndOfFile(e) \/ SendEnd(e) \/ GiveUp(e)
      PROVE  UNCHANGED <<effects, sub, link, links, request, unseen>>
  BY <1>23 DEF Read, EndOfFile, SendEnd, GiveUp, subVars
<1>24. ASSUME
          \/ TurnStaleEnd \/ TurnRespawn \/ TurnLatestClient \/ TurnPolicy \/ Configure
          \/ StopPane \/ AskRespawn \/ RetirePane \/ WriteExited \/ Ask \/ Stall
      PROVE  UNCHANGED <<effects, sub, link, links, request, unseen>>
  BY <1>24 DEF TurnStaleEnd, TurnRespawn, TurnLatestClient, TurnPolicy, Configure,
     StopPane, AskRespawn, RetirePane, WriteExited, Ask, Stall, subVars, Writing
<1>25. ASSUME NEW k \in {"policy", "stop"},
          \/ TryPost(k)
      PROVE  UNCHANGED <<effects, sub, link, links, request, unseen>>
  BY <1>25 DEF TryPost, subVars
<1>26. ASSUME UNCHANGED vars
      PROVE  UNCHANGED <<effects, sub, link, links, request, unseen>>
  BY <1>26 DEF subVars, vars
<1> QED BY <1>1, <1>2, <1>3, <1>4, <1>5, <1>6, <1>7, <1>8, <1>9, <1>10, <1>11, <1>12,
           <1>13, <1>14, <1>15, <1>16, <1>17, <1>18, <1>19, <1>20, <1>21, <1>22, <1>23,
           <1>24, <1>25, <1>26
       DEF Next, Outside, Inside, Worker, Connection, View

\* What an item of the outbox is.
LEMMA ItemKinds ==
  /\ \A m \in Items : m.kind = "frame" => m.of \in Shots /\ m = FrameOf(m.of)
  /\ \A f \in Shots : FrameOf(f) \in Items /\ FrameOf(f).kind = "frame" /\ FrameOf(f).of = f
  /\ \A n \in Nat : \A k \in {"reply", "effect", "exited"} :
       Msg(k, n) \in Items /\ Msg(k, n).kind = k
<1>1. \A f \in Shots :
        FrameOf(f) \in Items /\ FrameOf(f).kind = "frame" /\ FrameOf(f).of = f
  BY DEF Items, FrameOf
<1>2. \A n \in Nat : \A k \in {"reply", "effect", "exited"} :
        Msg(k, n) \in Items /\ Msg(k, n).kind = k
  BY DEF Items, Msg
<1>3. ASSUME NEW m \in Items, m.kind = "frame" PROVE m.of \in Shots /\ m = FrameOf(m.of)
  <2>1. PICK f \in Shots : m = FrameOf(f)
    BY <1>3 DEF Items
  <2> QED BY <1>1, <2>1
<1> QED BY <1>1, <1>2, <1>3

\* Reading the first item moves the others up.
LEMMA Reading ==
  ASSUME ViewTypes, outbox # <<>>
  PROVE  /\ Tail(outbox) \in Seq(Items) /\ Head(outbox) = outbox[1]
         /\ Len(outbox) \in Nat \ {0} /\ Len(Tail(outbox)) = Len(outbox) - 1
         /\ \A i \in 1 .. Len(outbox) - 1 : Tail(outbox)[i] = outbox[i + 1]
         /\ \A i \in 1 .. Len(outbox) : outbox[i] \in Items
<1>1. outbox \in Seq(Items)
  BY DEF ViewTypes
<1>2. Len(outbox) \in Nat \ {0}
  BY <1>1, EmptySeq
<1>3. Head(outbox) = outbox[1]
  BY <1>1, <1>2
<1>4. \A i \in 1 .. Len(outbox) : outbox[i] \in Items
  BY <1>1, ElementOfSeq
<1> QED BY <1>1, <1>2, <1>3, <1>4, HeadTailProperties

\* One item is a sequence of length 1.
LEMMA OneItem ==
  ASSUME NEW m \in Items
  PROVE  <<m>> \in Seq(Items) /\ Len(<<m>>) = 1 /\ <<m>>[1] = m
OBVIOUS

\* The frame the writer takes, if there is one, and the same before a reply.
LEMMA TakenFrame ==
  ASSUME ScreenTypes, NEW n \in Nat
  PROVE  LET q == FrameItem
             r == FrameItem \o <<Msg("reply", n)>>
         IN  /\ q \in Seq(Items) /\ r \in Seq(Items)
             /\ frame = Nothing => /\ q = <<>> /\ Len(r) = 1
                                   /\ r[1].kind = "reply"
             /\ frame # Nothing => /\ Len(q) = 1 /\ q[1] = FrameOf(frame) /\ Len(r) = 2
                                   /\ r[1] = FrameOf(frame) /\ r[2].kind = "reply"
<1> DEFINE x == Msg("reply", n)
           f == FrameOf(frame)
<1>1. f \in Items /\ x \in Items /\ x.kind = "reply"
  BY ItemKinds DEF ScreenTypes
<1>2. FrameItem = IF frame = Nothing THEN <<>> ELSE <<f>>
  BY DEF FrameItem, FrameOf
<1> HIDE DEF x, f
<1>3. /\ <<>> \in Seq(Items) /\ <<x>> \in Seq(Items) /\ <<f>> \in Seq(Items)
      /\ Len(<<f>>) = 1 /\ <<f>>[1] = f /\ Len(<<x>>) = 1 /\ <<x>>[1] = x
  BY <1>1, OneItem, EmptySeq
<1>4. <<>> \o <<x>> = <<x>>
  BY <1>3, ConcatEmptySeq
<1>5. /\ <<f>> \o <<x>> \in Seq(Items) /\ Len(<<f>> \o <<x>>) = 2
      /\ (<<f>> \o <<x>>)[1] = f /\ (<<f>> \o <<x>>)[2] = x
  <2> DEFINE s == <<f>>
             t == <<x>>
  <2>1. s \in Seq(Items) /\ t \in Seq(Items) /\ Len(s) = 1 /\ Len(t) = 1
    BY <1>3
  <2>2. s[1] = f /\ t[1] = x
    BY <1>3
  <2> HIDE DEF s, t
  <2>3. /\ s \o t \in Seq(Items) /\ Len(s \o t) = Len(s) + Len(t)
        /\ \A i \in 1 .. Len(s) + Len(t) :
             (s \o t)[i] = IF i <= Len(s) THEN s[i] ELSE t[i - Len(s)]
    BY <2>1, ConcatProperties
  <2>4. (s \o t)[1] = f /\ (s \o t)[2] = x
    BY <2>1, <2>2, <2>3
  <2>5. s \o t \in Seq(Items) /\ Len(s \o t) = 2
    BY <2>1, <2>3
  <2> QED BY <2>4, <2>5 DEF s, t
<1> QED BY <1>1, <1>2, <1>3, <1>4, <1>5 DEF x, f

\* Types of the view.
LEMMA ViewTypesKept == IInv /\ [Next]_vars => ViewTypes'
<1> SUFFICES ASSUME IInv, [Next]_vars PROVE ViewTypes'
  OBVIOUS
<1>0. ViewTypes /\ ScreenTypes /\ LinkTypes
  BY DEF IInv
<1>1. ASSUME WriteReply PROVE ViewTypes'
  <2>1. outbox' \in Seq(Items)
    BY <1>0, <1>1, TakenFrame DEF WriteReply, Writing, LinkTypes, Requests
  <2> QED BY <1>0, <1>1, <2>1 DEF WriteReply, Writing, ViewTypes, viewVars
<1>2. ASSUME WriteEffect PROVE ViewTypes'
  <2>1. outbox' \in Seq(Items)
    BY <1>0, <1>2, ItemKinds, OneItem DEF WriteEffect, Writing, LinkTypes
  <2> QED BY <1>0, <1>2, <2>1 DEF WriteEffect, Writing, ViewTypes, viewVars
<1>3. ASSUME WriteFrame PROVE ViewTypes'
  <2>1. outbox' \in Seq(Items)
    BY <1>0, <1>3, TakenFrame DEF WriteFrame, Writing, LinkTypes
  <2> QED BY <1>0, <1>3, <2>1 DEF WriteFrame, Writing, ViewTypes, viewVars
<1>4. ASSUME WriteExited PROVE ViewTypes'
  <2>1. outbox' \in Seq(Items)
    BY <1>0, <1>4, ItemKinds, OneItem DEF WriteExited, Writing, LinkTypes
  <2> QED BY <1>0, <1>4, <2>1 DEF WriteExited, Writing, ViewTypes, viewVars
<1>5. ASSUME ViewReads PROVE ViewTypes'
  <2>1. /\ Tail(outbox) \in Seq(Items)
        /\ Head(outbox).kind = "frame" => Head(outbox).of \in Shots
    <3>1. Head(outbox) \in Items /\ Tail(outbox) \in Seq(Items)
      BY <1>0, <1>5, Reading DEF ViewReads
    <3> QED BY <3>1, ItemKinds
  <2>2. told' \in BOOLEAN
    BY <1>5 DEF ViewReads
  <2> QED BY <1>0, <1>5, <2>1, <2>2 DEF ViewReads, ViewTypes
<1>6. ASSUME FailPending PROVE ViewTypes'
  BY <1>0, <1>6 DEF FailPending, ViewTypes
<1>7. ASSUME Reconnect PROVE ViewTypes'
  <2>1. <<>> \in Seq(Items)
    BY EmptySeq
  <2> QED BY <1>0, <1>7, <2>1 DEF Reconnect, ViewTypes, viewVars
<1>8. ASSUME Ask PROVE ViewTypes'
  BY <1>0, <1>8 DEF Ask, ViewTypes
<1>9. ASSUME WriteAsk PROVE ViewTypes'
  BY <1>0, <1>9 DEF WriteAsk, ViewTypes
<1>10. ASSUME UNCHANGED <<outbox, shown, told, ask, pend, asks>> PROVE ViewTypes'
  BY <1>0, <1>10 DEF ViewTypes
<1>11. ASSUME NEW e \in Epochs,
          \/ Read(e) \/ EndOfFile(e) \/ SendEnd(e) \/ GiveUp(e)
      PROVE  UNCHANGED <<outbox, shown, told, ask, pend, asks>>
  BY <1>11 DEF Read, EndOfFile, SendEnd, GiveUp, viewVars
<1>12. ASSUME
          \/ Recv \/ TurnStops \/ TurnEnds \/ TurnOutput \/ TurnStaleEnd \/ TurnRespawn
          \/ TurnCommand \/ TurnLatestClient \/ TurnPolicy \/ PublishChange
          \/ PublishOutput \/ Configure \/ StopPane \/ AskRespawn \/ RetirePane
          \/ Attach \/ Greet \/ TakeCommand \/ Overflow \/ Break \/ Disconnect \/ Leave
          \/ Stall
      PROVE  UNCHANGED <<outbox, shown, told, ask, pend, asks>>
  BY <1>12 DEF Recv, TurnStops, TurnEnds, TurnOutput, TurnStaleEnd, TurnRespawn,
     TurnCommand, TurnLatestClient, TurnPolicy, PublishChange, PublishOutput, Configure,
     StopPane, AskRespawn, RetirePane, Attach, Greet, TakeCommand, Overflow, Break,
     Disconnect, Leave, Stall, viewVars, Push
<1>13. ASSUME NEW k \in {"policy", "stop"},
          \/ TryPost(k)
      PROVE  UNCHANGED <<outbox, shown, told, ask, pend, asks>>
  BY <1>13 DEF TryPost, viewVars
<1>14. ASSUME UNCHANGED vars
      PROVE  UNCHANGED <<outbox, shown, told, ask, pend, asks>>
  BY <1>14 DEF viewVars, vars
<1> QED BY <1>1, <1>2, <1>3, <1>4, <1>5, <1>6, <1>7, <1>8, <1>9, <1>10, <1>11, <1>12,
           <1>13, <1>14
       DEF Next, Outside, Inside, Worker, Connection, View

\* What is said of a process is said of one that was started.
LEMMA ProcessesKept == IInv /\ [Next]_vars => Processes'
<1> SUFFICES ASSUME IInv, [Next]_vars PROVE Processes'
  OBVIOUS
<1>0. MailTypes /\ ScreenTypes /\ LinkTypes /\ Processes
  BY DEF IInv
<1>1. ASSUME NEW e \in Epochs, Read(e) PROVE Processes'
  <2>1. /\ Msg("output", e) \in Messages /\ Post(Msg("output", e))
        /\ UNCHANGED <<screen, hand>>
    BY <1>0, <1>1, PaneAssumption DEF Read, Epochs, Msg, Messages
  <2>2. \A d \in Epochs : /\ reader[d] = "gone" => reader'[d] = "gone"
                          /\ d > screen.epoch => reader'[d] = "none" /\ made'[d] = 0
    BY <1>0, <1>1, PaneAssumption DEF Read, Processes, ScreenTypes, Epochs
  <2>3. Known(Msg("output", e), screen'.epoch, reader')
    <3>1. reader[e] = "reading" /\ ~(e > screen.epoch)
      BY <1>0, <1>1 DEF Read, Processes
    <3>2. e \in 1 .. screen'.epoch
      BY <1>0, <2>1, <3>1, PaneAssumption DEF Processes, Epochs
    <3> QED BY <3>2 DEF Known, Msg
  <2>4. Msg("output", e).kind # "respawn"
    BY DEF Msg
  <2> QED BY <1>0, <2>1, <2>2, <2>3, <2>4, KnownPost
<1>2. ASSUME NEW e \in Epochs, EndOfFile(e) PROVE Processes'
  BY <1>0, <1>2 DEF EndOfFile, Processes, Known, ScreenTypes, Epochs
<1>3. ASSUME NEW e \in Epochs, SendEnd(e) PROVE Processes'
  <2>1. Msg("end", e) \in Messages /\ Post(Msg("end", e)) /\ UNCHANGED <<screen, hand>>
    BY <1>0, <1>3, PaneAssumption DEF SendEnd, Epochs, Msg, Messages
  <2>2. \A d \in Epochs : /\ reader[d] = "gone" => reader'[d] = "gone"
                          /\ d > screen.epoch => reader'[d] = "none" /\ made'[d] = 0
    BY <1>0, <1>3, PaneAssumption DEF SendEnd, Processes, ScreenTypes, Epochs
  <2>3. Known(Msg("end", e), screen'.epoch, reader')
    <3>1. reader[e] = "ended" /\ ~(e > screen.epoch)
      BY <1>0, <1>3 DEF SendEnd, Processes
    <3>2. e \in 1 .. screen'.epoch
      BY <1>0, <2>1, <3>1, PaneAssumption DEF Processes, Epochs
    <3>3. reader'[e] = "gone"
      BY <1>0, <1>3 DEF SendEnd, ScreenTypes
    <3> QED BY <3>2, <3>3 DEF Known, Msg
  <2>4. Msg("end", e).kind # "respawn"
    BY DEF Msg
  <2> QED BY <1>0, <2>1, <2>2, <2>3, <2>4, KnownPost
<1>4. ASSUME NEW e \in Epochs, GiveUp(e) PROVE Processes'
  BY <1>0, <1>4 DEF GiveUp, Processes, Known, ScreenTypes, Epochs
<1>5. ASSUME Recv PROVE Processes'
  <2>1. UNCHANGED <<reader, made>> /\ screen'.epoch = screen.epoch
    BY <1>0, <1>5, Reconciling DEF Recv
  <2>2. /\ Len(mailbox) \in Nat \ {0} /\ Len(mailbox') = Len(mailbox) - 1
        /\ hand' = mailbox[1]
        /\ \A i \in 1 .. Len(mailbox) - 1 : mailbox'[i] = mailbox[i + 1]
    BY <1>0, <1>5, Taking DEF Recv
  <2>3. /\ 1 \in 1 .. Len(mailbox)
        /\ \A i \in 1 .. Len(mailbox') : i + 1 \in 1 .. Len(mailbox) /\ i + 1 # 1
    BY <2>2
  <2>4. /\ Known(hand', screen'.epoch, reader')
        /\ \A i \in 1 .. Len(mailbox') : Known(mailbox'[i], screen'.epoch, reader')
    BY <1>0, <2>1, <2>2, <2>3 DEF Processes
  <2>5. \A i, j \in 1 .. Len(mailbox) :
          mailbox[i].kind = "respawn" /\ mailbox[j].kind = "respawn" => i = j
    BY <1>0 DEF Processes
  <2>6. hand'.kind = "respawn" =>
          \A i \in 1 .. Len(mailbox') : mailbox'[i].kind # "respawn"
    BY <2>2, <2>3, <2>5
  <2>7. ASSUME NEW i \in 1 .. Len(mailbox'), NEW j \in 1 .. Len(mailbox'),
               mailbox'[i].kind = "respawn", mailbox'[j].kind = "respawn"
        PROVE  i = j
    <3>1. mailbox'[i] = mailbox[i + 1] /\ mailbox'[j] = mailbox[j + 1]
      BY <2>2
    <3>2. i + 1 = j + 1
      BY <2>3, <2>5, <2>7, <3>1
    <3> QED BY <2>2, <3>2
  <2> QED BY <1>0, <2>1, <2>4, <2>6, <2>7 DEF Processes
<1>6. ASSUME TurnStops PROVE Processes'
  <2>1. /\ UNCHANGED <<screen, reader, made>> /\ hand'.kind = "none"
        /\ Len(mailbox') = 0
    BY <1>6, EmptySeq DEF TurnStops, Returned, Idle, Msg
  <2> QED BY <1>0, <2>1 DEF Processes, Known
<1>7. ASSUME TurnEnds PROVE Processes'
  <2>1. /\ UNCHANGED <<screen, reader, made>> /\ hand'.kind = "none"
        /\ Len(mailbox') = 0
    BY <1>7, EmptySeq DEF TurnEnds, Returned, Idle, Msg
  <2> QED BY <1>0, <2>1 DEF Processes, Known
<1>8. ASSUME TurnOutput PROVE Processes'
  <2>1. /\ UNCHANGED <<reader, made, mailbox>>
        /\ hand'.kind = "none" /\ screen'.epoch = screen.epoch
    BY <1>0, <1>8, Repainting DEF TurnOutput, Turn, Idle, Msg, ScreenTypes, MailTypes,
       Messages
  <2> QED BY <1>0, <2>1 DEF Processes, Known
<1>9. ASSUME TurnStaleEnd PROVE Processes'
  <2>1. UNCHANGED <<screen, reader, made, mailbox>> /\ hand'.kind = "none"
    BY <1>9 DEF TurnStaleEnd, Turn, Idle, Msg
  <2> QED BY <1>0, <2>1 DEF Processes, Known
<1>10. ASSUME TurnRespawn PROVE Processes'
  <2>1. UNCHANGED <<made, mailbox>> /\ hand.kind = "respawn" /\ hand'.kind = "none"
    BY <1>10 DEF TurnRespawn, Turn, Idle, Msg
  <2>2. CASE UNCHANGED <<screen, reader>>
    BY <1>0, <2>1, <2>2 DEF Processes, Known
  <2>3. CASE Respawned /\ reader' = [reader EXCEPT ![screen.epoch + 1] = "reading"]
    <3>1. /\ screen.epoch + 1 \in Epochs /\ screen.epoch \in Nat
          /\ screen.epoch + 1 \in Nat /\ desired \in Nat
      BY <1>0, <2>1, PaneAssumption DEF Processes, Known, Epochs, ScreenTypes
    <3>2. screen'.epoch = screen.epoch + 1
      BY <1>0, <2>3, Respawning
    <3>3. /\ \A e \in Epochs : e > screen'.epoch => reader'[e] = reader[e] /\ e > screen.epoch
          /\ \A e \in Epochs : reader[e] = "gone" => reader'[e] = "gone"
      BY <1>0, <2>3, <3>1, <3>2, PaneAssumption DEF Processes, Epochs, ScreenTypes
    <3>4. /\ 1 .. screen.epoch \subseteq 1 .. screen'.epoch
          /\ 1 .. screen.epoch \subseteq Epochs
      BY <3>1, <3>2, PaneAssumption DEF Epochs
    <3>5. \A i \in 1 .. Len(mailbox) : Known(mailbox[i], screen'.epoch, reader')
      BY <1>0, <2>1, <3>3, <3>4 DEF Processes, Known
    <3> QED BY <1>0, <2>1, <3>1, <3>2, <3>3, <3>5 DEF Processes, Known
  <2> QED BY <1>10, <2>2, <2>3 DEF TurnRespawn
<1>11. ASSUME TurnCommand PROVE Processes'
  <2>1. /\ UNCHANGED <<reader, made, mailbox>>
        /\ hand'.kind = "none" /\ screen'.epoch = screen.epoch
    BY <1>0, <1>11, Repainting DEF TurnCommand, Turn, Idle, Msg, ScreenTypes, MailTypes,
       Messages
  <2> QED BY <1>0, <2>1 DEF Processes, Known
<1>12. ASSUME TurnLatestClient PROVE Processes'
  <2>1. UNCHANGED <<screen, reader, made, mailbox>> /\ hand'.kind = "none"
    BY <1>12 DEF TurnLatestClient, Turn, Idle, Msg
  <2> QED BY <1>0, <2>1 DEF Processes, Known
<1>13. ASSUME TurnPolicy PROVE Processes'
  <2>1. UNCHANGED <<screen, reader, made, mailbox>> /\ hand'.kind = "none"
    BY <1>13 DEF TurnPolicy, Turn, Idle, Msg
  <2> QED BY <1>0, <2>1 DEF Processes, Known
<1>14. ASSUME PublishOutput PROVE Processes'
  <2>1. UNCHANGED <<reader, made, mailbox, hand>> /\ screen'.epoch = screen.epoch
    BY <1>0, <1>14, Reconciling DEF PublishOutput
  <2> QED BY <1>0, <2>1 DEF Processes, Known
<1>15. ASSUME NEW k \in {"policy", "stop"}, TryPost(k) PROVE Processes'
  <2>0. UNCHANGED <<screen, reader, made, hand>>
    BY <1>15 DEF TryPost
  <2>1. CASE UNCHANGED mailbox
    BY <1>0, <2>0, <2>1 DEF Processes, Known
  <2>2. CASE Post(Msg(k, 0))
    <3>1. Msg(k, 0) \in Messages /\ Msg(k, 0).kind \notin {"respawn", "output", "end"}
      BY <1>0 DEF Msg, Messages
    <3>2. Known(Msg(k, 0), screen'.epoch, reader')
      BY <3>1 DEF Known
    <3> QED BY <1>0, <2>0, <2>2, <3>1, <3>2, KnownPost DEF Processes
  <2> QED BY <1>15, <2>1, <2>2 DEF TryPost
<1>16. ASSUME AskRespawn PROVE Processes'
  <2>1. /\ Msg("respawn", 0) \in Messages /\ Post(Msg("respawn", 0))
        /\ UNCHANGED <<screen, hand>>
    BY <1>0, <1>16, PaneAssumption DEF AskRespawn, Msg, Messages
  <2>3. Known(Msg("respawn", 0), screen'.epoch, reader')
    BY <1>0, <1>16, PaneAssumption DEF AskRespawn, Known, Msg, Processes, ScreenTypes,
       Epochs
  <2>4. /\ hand.kind # "respawn"
        /\ \A i \in 1 .. Len(mailbox) : mailbox[i].kind # "respawn"
    <3>1. DOMAIN mailbox = 1 .. Len(mailbox)
      BY <1>0, LenProperties DEF MailTypes
    <3> QED BY <1>16, <3>1 DEF AskRespawn
  <2>5. UNCHANGED <<reader, made>>
    BY <1>16 DEF AskRespawn
  <2> QED BY <1>0, <2>1, <2>3, <2>4, <2>5, KnownPost DEF Processes
<1>17. ASSUME Greet PROVE Processes'
  <2>0. UNCHANGED <<screen, reader, made, hand>>
    BY <1>17 DEF Greet
  <2>1. CASE UNCHANGED mailbox
    BY <1>0, <2>0, <2>1 DEF Processes, Known
  <2>2. CASE Post(Msg("client", links))
    <3>1. /\ Msg("client", links) \in Messages
          /\ Msg("client", links).kind \notin {"respawn", "output", "end"}
      BY <1>0 DEF LinkTypes, Msg, Messages
    <3>2. Known(Msg("client", links), screen'.epoch, reader')
      BY <3>1 DEF Known
    <3> QED BY <1>0, <2>0, <2>2, <3>1, <3>2, KnownPost DEF Processes
  <2> QED BY <1>17, <2>1, <2>2 DEF Greet
<1>18. ASSUME TakeCommand PROVE Processes'
  <2>0. UNCHANGED <<screen, reader, made, hand>>
    BY <1>18 DEF TakeCommand
  <2>1. CASE UNCHANGED mailbox
    BY <1>0, <2>0, <2>1 DEF Processes, Known
  <2>2. CASE Post(Msg("command", request.of))
    <3>1. /\ Msg("command", request.of) \in Messages
          /\ Msg("command", request.of).kind \notin {"respawn", "output", "end"}
      BY <1>0 DEF LinkTypes, Requests, Msg, Messages
    <3>2. Known(Msg("command", request.of), screen'.epoch, reader')
      BY <3>1 DEF Known
    <3> QED BY <1>0, <2>0, <2>2, <3>1, <3>2, KnownPost DEF Processes
  <2> QED BY <1>18, <2>1, <2>2 DEF TakeCommand
<1>19. ASSUME UNCHANGED <<screen, reader, made, hand, mailbox>> PROVE Processes'
  BY <1>0, <1>19 DEF Processes, Known, ScreenTypes, Epochs
<1>20. ASSUME
          \/ PublishChange \/ Configure \/ StopPane \/ RetirePane \/ Attach
          \/ WriteReply \/ WriteEffect \/ WriteFrame \/ WriteExited \/ Overflow \/ Break
          \/ ViewReads \/ Disconnect \/ FailPending \/ Reconnect \/ Leave \/ Ask
          \/ WriteAsk \/ Stall
      PROVE  UNCHANGED <<screen, reader, made, hand, mailbox>>
  BY <1>20 DEF PublishChange, Configure, StopPane, RetirePane, Attach, WriteReply,
     WriteEffect, WriteFrame, WriteExited, Overflow, Break, ViewReads, Disconnect,
     FailPending, Reconnect, Leave, Ask, WriteAsk, Stall, paneVars, Writing
<1>21. ASSUME UNCHANGED vars
      PROVE  UNCHANGED <<screen, reader, made, hand, mailbox>>
  BY <1>21 DEF paneVars, vars
<1> QED BY <1>1, <1>2, <1>3, <1>4, <1>5, <1>6, <1>7, <1>8, <1>9, <1>10, <1>11, <1>12,
           <1>13, <1>14, <1>15, <1>16, <1>17, <1>18, <1>19, <1>20, <1>21
       DEF Next, Outside, Inside, Worker, Connection, View

\* The tally stays when nothing it speaks of changes.
LEMMA CountStays ==
  ASSUME Counted, Alive, screen'.epoch = screen.epoch,
         UNCHANGED mailbox, made'[screen.epoch] = made[screen.epoch],
         screen'.out + One(hand', screen.epoch) = screen.out + One(hand, screen.epoch),
         hand' = Msg("end", screen.epoch) => screen'.out = made[screen.epoch]
  PROVE  Counted'
BY DEF Counted

\* A message is posted: output of the current process is one more to come.
LEMMA CountPosts ==
  ASSUME MailTypes, ScreenTypes, Processes, Counted, Alive, NEW m \in Messages, Post(m),
         UNCHANGED <<screen, hand>>,
         made'[screen.epoch] = made[screen.epoch] + One(m, screen.epoch),
         m = Msg("output", screen.epoch) => reader[screen.epoch] # "gone"
  PROVE  Counted'
<1> DEFINE e == screen.epoch
           total == made[e]
           first == screen.out + One(hand, e)
<1>1. /\ mailbox' \in Seq(Messages) /\ mailbox \in Seq(Messages)
      /\ Len(mailbox) \in Nat /\ Len(mailbox') = Len(mailbox) + 1
      /\ mailbox'[Len(mailbox) + 1] = m
      /\ \A i \in 1 .. Len(mailbox) : mailbox'[i] = mailbox[i]
  BY Posting DEF MailTypes
<1>2. e \in Epochs /\ total \in Nat /\ first \in Nat /\ One(m, e) \in {0, 1}
  BY DEF Processes, ScreenTypes, Shots, One
<1>3. AddsUp(mailbox, first, e, total)
  BY DEF Counted
<1>4. reader[e] # "gone" => /\ hand # Msg("end", e)
                           /\ \A i \in 1 .. Len(mailbox) : mailbox[i] # Msg("end", e)
  BY DEF Processes, Known, Msg
<1>5. hand' = Msg("end", e) => screen'.out = made'[e]
  <2>1. hand = Msg("end", e) => screen.out = total /\ One(m, e) = 0
    BY <1>4 DEF Counted, One
  <2> QED BY <1>2, <2>1
<1> HIDE DEF e, total, first
<1>6. AddsUp(mailbox', first, e, total + One(m, e))
  BY <1>1, <1>2, <1>3, <1>4, TallyPost DEF e
<1>7. /\ e = screen'.epoch /\ made'[e] = total + One(m, e)
      /\ first = screen'.out + One(hand', e)
  BY DEF e, total, first
<1> QED BY <1>5, <1>6, <1>7 DEF Counted

\* No output of the current process is lost, and its end comes last.
LEMMA CountedKept == IInv /\ [Next]_vars => Counted'
<1> SUFFICES ASSUME IInv, [Next]_vars PROVE Counted'
  OBVIOUS
<1>0. MailTypes /\ ScreenTypes /\ LinkTypes /\ Processes /\ Counted
  BY DEF IInv
<1>1. ASSUME NEW e \in Epochs, Read(e) PROVE Counted'
  <2>1. /\ Msg("output", e) \in Messages /\ Post(Msg("output", e))
        /\ UNCHANGED <<screen, hand>> /\ Alive
    BY <1>0, <1>1, PaneAssumption DEF Read, Room, Epochs, Msg, Messages
  <2>2. Msg("output", e) = Msg("output", screen.epoch) <=> e = screen.epoch
    BY DEF Msg
  <2>3. made'[screen.epoch] = made[screen.epoch] + One(Msg("output", e), screen.epoch)
    BY <1>0, <1>1, <2>2 DEF Read, One, Processes, ScreenTypes
  <2>4. reader[e] # "gone"
    BY <1>1 DEF Read
  <2> QED BY <1>0, <2>1, <2>2, <2>3, <2>4, CountPosts
<1>2. ASSUME NEW e \in Epochs, SendEnd(e) PROVE Counted'
  <2>1. /\ Msg("end", e) \in Messages /\ Post(Msg("end", e))
        /\ UNCHANGED <<screen, hand, made>> /\ Alive
    BY <1>0, <1>2, PaneAssumption DEF SendEnd, Room, Epochs, Msg, Messages
  <2>2. /\ One(Msg("end", e), screen.epoch) = 0
        /\ Msg("end", e) # Msg("output", screen.epoch)
    BY DEF One, Msg
  <2>3. made[screen.epoch] \in Nat
    BY <1>0 DEF Processes, ScreenTypes
  <2> QED BY <1>0, <2>1, <2>2, <2>3, CountPosts
<1>3. ASSUME Recv PROVE Counted'
  <2>1. /\ UNCHANGED made /\ Alive /\ screen'.epoch = screen.epoch
        /\ screen'.out = screen.out
    BY <1>0, <1>3, Reconciling DEF Recv, Alive
  <2>2. /\ mailbox' \in Seq(Messages) /\ mailbox \in Seq(Messages) /\ hand' = mailbox[1]
        /\ Len(mailbox) \in Nat \ {0} /\ Len(mailbox') = Len(mailbox) - 1
        /\ \A i \in 1 .. Len(mailbox) - 1 : mailbox'[i] = mailbox[i + 1]
    BY <1>0, <1>3, Taking DEF Recv, MailTypes
  <2> DEFINE e == screen.epoch
             total == made[e]
             first == screen.out
  <2>3. One(hand, e) = 0 /\ first \in Nat /\ total \in Nat
    <3>1. hand = Idle
      BY <1>0, <1>3 DEF Recv, MailTypes
    <3> QED BY <1>0, <3>1 DEF One, Idle, Msg, ScreenTypes, Shots, Processes
  <2>4. AddsUp(mailbox, first, e, total)
    BY <1>0, <2>1, <2>3 DEF Counted
  <2>5. e = screen'.epoch /\ total = made'[e] /\ first = screen'.out
    BY <2>1
  <2> HIDE DEF e, total, first
  <2>6. /\ AddsUp(mailbox', first + One(mailbox[1], e), e, total)
        /\ mailbox[1] = Msg("end", e) => first = total
    BY <2>2, <2>3, <2>4, TallyTake
  <2> QED BY <2>1, <2>2, <2>5, <2>6 DEF Counted
<1>4. ASSUME TurnStops PROVE Counted'
  <2>1. ~Alive'
    BY <1>4 DEF TurnStops, Returned, Alive
  <2> QED BY <2>1 DEF Counted
<1>5. ASSUME TurnEnds PROVE Counted'
  <2>1. ~Alive'
    BY <1>5 DEF TurnEnds, Returned, Alive
  <2> QED BY <2>1 DEF Counted
<1>6. ASSUME TurnOutput PROVE Counted'
  <2>1. /\ UNCHANGED <<made, mailbox>> /\ Alive /\ hand' = Idle /\ hand.kind = "output"
        /\ hand \in Messages /\ screen.out \in Nat
    BY <1>0, <1>6 DEF TurnOutput, Turn, Alive, MailTypes, ScreenTypes, Shots
  <2>2. /\ One(hand', screen.epoch) = 0 /\ hand' # Msg("end", screen.epoch)
        /\ One(hand, screen.epoch) = IF hand.of = screen.epoch THEN 1 ELSE 0
    BY <2>1 DEF One, Idle, Msg, Messages
  <2>3. CASE hand.of = screen.epoch /\ screen' = [screen EXCEPT !.out = @ + 1]
    <3>1. screen'.epoch = screen.epoch /\ screen'.out = screen.out + 1
      BY <1>0, <2>3, Repainting DEF ScreenTypes
    <3>2. screen'.out + One(hand', screen.epoch) = screen.out + One(hand, screen.epoch)
      BY <2>1, <2>2, <2>3, <3>1
    <3> QED BY <1>0, <2>1, <2>2, <3>1, <3>2, CountStays
  <2>4. CASE hand.of # screen.epoch /\ UNCHANGED screen
    BY <1>0, <2>1, <2>2, <2>4, CountStays
  <2> QED BY <1>6, <2>3, <2>4 DEF TurnOutput
<1>7. ASSUME TurnStaleEnd PROVE Counted'
  <2>1. /\ UNCHANGED <<screen, made, mailbox>> /\ Alive /\ hand' = Idle
        /\ hand.kind = "end" /\ hand # Msg("output", screen.epoch)
    BY <1>7 DEF TurnStaleEnd, Turn, Alive, Msg
  <2>2. One(hand', screen.epoch) = 0 /\ One(hand, screen.epoch) = 0
    BY <2>1 DEF One, Idle, Msg
  <2>3. hand' # Msg("end", screen.epoch)
    BY <2>1 DEF Idle, Msg
  <2> QED BY <1>0, <2>1, <2>2, <2>3, CountStays
<1>8. ASSUME TurnRespawn PROVE Counted'
  <2>1. /\ UNCHANGED <<made, mailbox>> /\ Alive /\ hand' = Idle /\ hand.kind = "respawn"
        /\ hand # Msg("output", screen.epoch)
    BY <1>8 DEF TurnRespawn, Turn, Alive, Msg
  <2>2. \A e \in Nat : /\ One(hand', e) = 0 /\ hand' # Msg("end", e)
                      /\ One(hand, e) = 0
    BY <2>1 DEF One, Idle, Msg
  <2>3. screen.epoch \in Nat
    BY <1>0 DEF ScreenTypes, Shots
  <2>4. CASE UNCHANGED screen
    BY <1>0, <2>1, <2>2, <2>3, <2>4, CountStays
  <2>5. CASE Respawned
    <3> DEFINE e == screen.epoch + 1
               c == [i \in 1 .. Len(mailbox) + 1 |-> 0]
    <3>1. e \in Epochs /\ e \in Nat /\ e > screen.epoch
      BY <1>0, <2>1, <2>3, PaneAssumption DEF Processes, Known, Epochs
    <3>2. made[e] = 0
      BY <1>0, <3>1 DEF Processes
    <3>3. screen'.epoch = e /\ screen'.out = 0
      BY <1>0, <2>5, Respawning
    <3>4. \A i \in 1 .. Len(mailbox) :
            mailbox[i] # Msg("output", e) /\ mailbox[i] # Msg("end", e)
      BY <1>0, <2>3, <3>1 DEF Processes, Known, Msg
    <3>5. Len(mailbox) \in Nat
      BY <1>0, LenProperties DEF MailTypes
    <3>6. /\ c \in [1 .. Len(mailbox) + 1 -> 0 .. made[e]]
          /\ Tally(c, mailbox, 0, e, made[e])
      BY <3>2, <3>4, <3>5 DEF Tally, One
    <3>7. screen'.out + One(hand', e) = 0 /\ hand' # Msg("end", e)
      BY <2>2, <3>1, <3>3
    <3> HIDE DEF e, c
    <3>8. AddsUp(mailbox, 0, e, made[e])
      BY <3>6 DEF AddsUp
    <3> QED BY <2>1, <3>3, <3>7, <3>8 DEF Counted
  <2> QED BY <1>8, <2>4, <2>5 DEF TurnRespawn
<1>9. ASSUME TurnCommand PROVE Counted'
  <2>1. /\ UNCHANGED <<made, mailbox>> /\ Alive /\ hand' = Idle /\ hand.kind = "command"
        /\ hand # Msg("output", screen.epoch)
    BY <1>9 DEF TurnCommand, Turn, Alive, Msg
  <2>2. /\ One(hand', screen.epoch) = 0 /\ hand' # Msg("end", screen.epoch)
        /\ One(hand, screen.epoch) = 0
    BY <2>1 DEF One, Idle, Msg
  <2>3. screen'.epoch = screen.epoch /\ screen'.out = screen.out
    BY <1>0, <1>9, Repainting DEF TurnCommand, ScreenTypes, MailTypes, Messages
  <2> QED BY <1>0, <2>1, <2>2, <2>3, CountStays
<1>10. ASSUME TurnLatestClient PROVE Counted'
  <2>1. /\ UNCHANGED <<screen, made, mailbox>> /\ Alive /\ hand' = Idle
        /\ hand.kind = "client" /\ hand # Msg("output", screen.epoch)
    BY <1>10 DEF TurnLatestClient, Turn, Alive, Msg
  <2>2. One(hand', screen.epoch) = 0 /\ One(hand, screen.epoch) = 0
    BY <2>1 DEF One, Idle, Msg
  <2>3. hand' # Msg("end", screen.epoch)
    BY <2>1 DEF Idle, Msg
  <2> QED BY <1>0, <2>1, <2>2, <2>3, CountStays
<1>11. ASSUME TurnPolicy PROVE Counted'
  <2>1. /\ UNCHANGED <<screen, made, mailbox>> /\ Alive /\ hand' = Idle
        /\ hand.kind = "policy" /\ hand # Msg("output", screen.epoch)
    BY <1>11 DEF TurnPolicy, Turn, Alive, Msg
  <2>2. One(hand', screen.epoch) = 0 /\ One(hand, screen.epoch) = 0
    BY <2>1 DEF One, Idle, Msg
  <2>3. hand' # Msg("end", screen.epoch)
    BY <2>1 DEF Idle, Msg
  <2> QED BY <1>0, <2>1, <2>2, <2>3, CountStays
<1>12. ASSUME PublishChange PROVE Counted'
  <2>1. UNCHANGED <<screen, made, mailbox, hand>> /\ Alive
    BY <1>12 DEF PublishChange, Alive
  <2> QED BY <1>0, <2>1 DEF Counted
<1>13. ASSUME PublishOutput PROVE Counted'
  <2>1. UNCHANGED <<made, mailbox, hand>> /\ Alive
    BY <1>13 DEF PublishOutput, Alive
  <2>2. screen'.epoch = screen.epoch /\ screen'.out = screen.out
    BY <1>0, <1>13, Reconciling DEF PublishOutput
  <2>3. hand' = Msg("end", screen.epoch) => screen'.out = made[screen.epoch]
    BY <1>0, <2>1, <2>2 DEF Counted
  <2> QED BY <1>0, <2>1, <2>2, <2>3, CountStays
<1>14. ASSUME NEW k \in {"policy", "stop"}, TryPost(k) PROVE Counted'
  <2>0. UNCHANGED <<screen, made, hand, worker>>
    BY <1>14 DEF TryPost
  <2>1. CASE UNCHANGED mailbox
    BY <1>0, <2>0, <2>1 DEF Counted, Alive
  <2>2. CASE Post(Msg(k, 0)) /\ Room
    <3>1. Msg(k, 0) \in Messages /\ Msg(k, 0) # Msg("output", screen.epoch)
      BY <1>0, <1>14 DEF Msg, Messages
    <3>2. One(Msg(k, 0), screen.epoch) = 0 /\ made[screen.epoch] \in Nat
      BY <1>0, <3>1 DEF One, Processes, ScreenTypes
    <3>3. Alive
      BY <2>2 DEF Room
    <3> QED BY <1>0, <2>0, <2>2, <3>1, <3>2, <3>3, CountPosts
  <2> QED BY <1>14, <2>1, <2>2 DEF TryPost
<1>15. ASSUME AskRespawn PROVE Counted'
  <2>1. /\ Msg("respawn", 0) \in Messages /\ Post(Msg("respawn", 0))
        /\ UNCHANGED <<screen, hand, made>> /\ Alive
    BY <1>0, <1>15, PaneAssumption DEF AskRespawn, Room, Msg, Messages
  <2>2. /\ One(Msg("respawn", 0), screen.epoch) = 0
        /\ Msg("respawn", 0) # Msg("output", screen.epoch)
    BY DEF One, Msg
  <2>3. made[screen.epoch] \in Nat
    BY <1>0 DEF Processes, ScreenTypes
  <2> QED BY <1>0, <2>1, <2>2, <2>3, CountPosts
<1>16. ASSUME Greet PROVE Counted'
  <2>0. UNCHANGED <<screen, made, hand, worker>>
    BY <1>16 DEF Greet
  <2>1. CASE UNCHANGED mailbox
    BY <1>0, <2>0, <2>1 DEF Counted, Alive
  <2>2. CASE Post(Msg("client", links)) /\ Room
    <3>1. /\ Msg("client", links) \in Messages
          /\ Msg("client", links) # Msg("output", screen.epoch)
      BY <1>0, <1>16 DEF LinkTypes, Msg, Messages
    <3>2. One(Msg("client", links), screen.epoch) = 0 /\ made[screen.epoch] \in Nat
      BY <1>0, <3>1 DEF One, Processes, ScreenTypes
    <3>3. Alive
      BY <2>2 DEF Room
    <3> QED BY <1>0, <2>0, <2>2, <3>1, <3>2, <3>3, CountPosts
  <2> QED BY <1>16, <2>1, <2>2 DEF Greet
<1>17. ASSUME TakeCommand PROVE Counted'
  <2>0. UNCHANGED <<screen, made, hand, worker>>
    BY <1>17 DEF TakeCommand
  <2>1. CASE UNCHANGED mailbox
    BY <1>0, <2>0, <2>1 DEF Counted, Alive
  <2>2. CASE Post(Msg("command", request.of)) /\ Room
    <3>1. /\ Msg("command", request.of) \in Messages
          /\ Msg("command", request.of) # Msg("output", screen.epoch)
      BY <1>0, <1>17 DEF LinkTypes, Requests, Msg, Messages
    <3>2. /\ One(Msg("command", request.of), screen.epoch) = 0
          /\ made[screen.epoch] \in Nat
      BY <1>0, <3>1 DEF One, Processes, ScreenTypes
    <3>3. Alive
      BY <2>2 DEF Room
    <3> QED BY <1>0, <2>0, <2>2, <3>1, <3>2, <3>3, CountPosts
  <2> QED BY <1>17, <2>1, <2>2 DEF TakeCommand
<1>18. ASSUME UNCHANGED <<screen, made, hand, mailbox, worker>> PROVE Counted'
  BY <1>0, <1>18 DEF Counted, Alive
<1>19. ASSUME NEW e \in Epochs,
          \/ EndOfFile(e) \/ GiveUp(e)
      PROVE  UNCHANGED <<screen, made, hand, mailbox, worker>>
  BY <1>19 DEF EndOfFile, GiveUp
<1>20. ASSUME
          \/ Configure \/ StopPane \/ RetirePane \/ Attach \/ WriteReply \/ WriteEffect
          \/ WriteFrame \/ WriteExited \/ Overflow \/ Break \/ ViewReads \/ Disconnect
          \/ FailPending \/ Reconnect \/ Leave \/ Ask \/ WriteAsk \/ Stall
      PROVE  UNCHANGED <<screen, made, hand, mailbox, worker>>
  BY <1>20 DEF Configure, StopPane, RetirePane, Attach, WriteReply, WriteEffect,
     WriteFrame, WriteExited, Overflow, Break, ViewReads, Disconnect, FailPending,
     Reconnect, Leave, Ask, WriteAsk, Stall, paneVars, Writing
<1>21. ASSUME UNCHANGED vars
      PROVE  UNCHANGED <<screen, made, hand, mailbox, worker>>
  BY <1>21 DEF paneVars, vars
<1> QED BY <1>1, <1>2, <1>3, <1>4, <1>5, <1>6, <1>7, <1>8, <1>9, <1>10, <1>11, <1>12,
           <1>13, <1>14, <1>15, <1>16, <1>17, <1>18, <1>19, <1>20, <1>21
       DEF Next, Outside, Inside, Worker, Connection, View

\* The numbers commands are compared by.
LEMMA Numbers ==
  ASSUME MailTypes, ScreenTypes, LinkTypes, ViewTypes
  PROVE  /\ screen.command \in Nat /\ hand.of \in Nat /\ request.of \in Nat
         /\ ask \in Nat /\ pend \in Nat /\ asks \in Nat /\ Len(mailbox) \in Nat
         /\ \A i \in 1 .. Len(mailbox) : mailbox[i].of \in Nat
<1>1. mailbox \in Seq(Messages)
  BY DEF MailTypes
<1>2. \A i \in 1 .. Len(mailbox) : mailbox[i] \in Messages
  BY <1>1, ElementOfSeq
<1>3. Len(mailbox) \in Nat /\ \A i \in 1 .. Len(mailbox) : mailbox[i].of \in Nat
  BY <1>1, <1>2, LenProperties DEF Messages
<1>4. screen.command \in Nat /\ hand.of \in Nat /\ request.of \in Nat
  BY DEF MailTypes, ScreenTypes, LinkTypes, Requests, Messages, Shots
<1> QED BY <1>3, <1>4 DEF ViewTypes

\* A command is posted after those before it.
LEMMA OrderedPost ==
  ASSUME MailTypes, ScreenTypes, LinkTypes, ViewTypes, InOrder, NEW m \in Messages, Post(m),
         UNCHANGED <<screen, hand, ask, asks, pend>>,
         UNCHANGED request \/ request'.kind # "asked",
         m.kind = "command" => /\ m.of = request.of /\ request.kind = "asked"
                               /\ request'.kind # "asked"
  PROVE  InOrder'
<1>1. /\ Len(mailbox) \in Nat /\ Len(mailbox') = Len(mailbox) + 1
      /\ mailbox'[Len(mailbox) + 1] = m
      /\ \A i \in 1 .. Len(mailbox) : mailbox'[i] = mailbox[i] /\ mailbox[i].of \in Nat
  BY Posting
<1>2. /\ screen.command \in Nat /\ hand.of \in Nat /\ request.of \in Nat /\ asks \in Nat
  BY Numbers
<1>3. ASSUME NEW i \in 1 .. Len(mailbox'), mailbox'[i].kind = "command"
      PROVE  /\ screen.command <= mailbox'[i].of /\ mailbox'[i].of <= asks
             /\ hand.kind = "command" => hand.of <= mailbox'[i].of
             /\ request'.kind = "asked" => mailbox'[i].of <= request'.of
             /\ \A j \in 1 .. i :
                  mailbox'[j].kind = "command" => mailbox'[j].of <= mailbox'[i].of
  <2>1. CASE i = Len(mailbox) + 1
    <3>1. mailbox'[i] = m /\ m.of = request.of /\ request.kind = "asked"
      BY <1>1, <1>3, <2>1
    <3>2. \A j \in 1 .. i : j = i \/ j \in 1 .. Len(mailbox)
      BY <1>1, <2>1
    <3>3. \A j \in 1 .. i :
            mailbox'[j].kind = "command" => mailbox'[j].of <= mailbox'[i].of
      BY <1>1, <1>2, <3>1, <3>2 DEF InOrder
    <3> QED BY <1>3, <3>1, <3>3 DEF InOrder
  <2>2. CASE i # Len(mailbox) + 1
    <3>1. i \in 1 .. Len(mailbox) /\ \A j \in 1 .. i : j \in 1 .. Len(mailbox)
      BY <1>1, <2>2
    <3> QED BY <1>1, <1>3, <3>1 DEF InOrder
  <2> QED BY <2>1, <2>2
<1> QED BY <1>3 DEF InOrder

\* Commands stay in order.
LEMMA InOrderKept == IInv /\ [Next]_vars => InOrder'
<1> SUFFICES ASSUME IInv, [Next]_vars PROVE InOrder'
  OBVIOUS
<1>0. MailTypes /\ ScreenTypes /\ LinkTypes /\ ViewTypes /\ InOrder
  BY DEF IInv
<1>1. ASSUME NEW e \in Epochs, Read(e) PROVE InOrder'
  <2>1. /\ Msg("output", e) \in Messages /\ Post(Msg("output", e))
        /\ UNCHANGED <<screen, hand, ask, asks, pend, request>>
    BY <1>0, <1>1, PaneAssumption DEF Read, Epochs, Msg, Messages, viewVars
  <2>2. Msg("output", e).kind # "command"
    BY DEF Msg
  <2> QED BY <1>0, <2>1, <2>2, OrderedPost
<1>2. ASSUME NEW e \in Epochs, SendEnd(e) PROVE InOrder'
  <2>1. /\ Msg("end", e) \in Messages /\ Post(Msg("end", e))
        /\ UNCHANGED <<screen, hand, ask, asks, pend, request>>
    BY <1>0, <1>2, PaneAssumption DEF SendEnd, Epochs, Msg, Messages, viewVars
  <2>2. Msg("end", e).kind # "command"
    BY DEF Msg
  <2> QED BY <1>0, <2>1, <2>2, OrderedPost
<1>3. ASSUME Recv PROVE InOrder'
  <2>1. UNCHANGED <<ask, asks, pend, request>> /\ screen'.command = screen.command
    BY <1>0, <1>3, Reconciling DEF Recv, viewVars
  <2>2. /\ hand' = mailbox[1]
        /\ Len(mailbox) \in Nat \ {0} /\ Len(mailbox') = Len(mailbox) - 1
        /\ \A i \in 1 .. Len(mailbox) - 1 : mailbox'[i] = mailbox[i + 1]
    BY <1>0, <1>3, Taking DEF Recv
  <2>3. /\ 1 \in 1 .. Len(mailbox)
        /\ \A i \in 1 .. Len(mailbox') :
             /\ i + 1 \in 1 .. Len(mailbox) /\ 1 \in 1 .. i + 1
             /\ \A j \in 1 .. i : j + 1 \in 1 .. i + 1 /\ j \in 1 .. Len(mailbox) - 1
    BY <2>2
  <2>4. hand'.kind = "command" =>
          /\ screen.command <= hand'.of /\ hand'.of <= asks
          /\ request.kind = "asked" => hand'.of <= request.of
    BY <1>0, <2>2, <2>3 DEF InOrder
  <2>5. ASSUME NEW i \in 1 .. Len(mailbox'), mailbox'[i].kind = "command"
        PROVE  /\ screen.command <= mailbox'[i].of /\ mailbox'[i].of <= asks
               /\ hand'.kind = "command" => hand'.of <= mailbox'[i].of
               /\ request.kind = "asked" => mailbox'[i].of <= request.of
               /\ \A j \in 1 .. i :
                    mailbox'[j].kind = "command" => mailbox'[j].of <= mailbox'[i].of
    BY <1>0, <2>2, <2>3, <2>5 DEF InOrder
  <2> QED BY <1>0, <2>1, <2>4, <2>5 DEF InOrder
<1>4. ASSUME TurnStops PROVE InOrder'
  <2>1. /\ UNCHANGED <<screen, ask, asks, pend>> /\ hand'.kind # "command"
        /\ Len(mailbox') = 0 /\ (UNCHANGED request \/ request'.kind # "asked")
    BY <1>4, EmptySeq DEF TurnStops, Returned, Idle, Msg, viewVars
  <2> QED BY <1>0, <2>1 DEF InOrder
<1>5. ASSUME TurnEnds PROVE InOrder'
  <2>1. /\ UNCHANGED <<screen, ask, asks, pend>> /\ hand'.kind # "command"
        /\ Len(mailbox') = 0 /\ (UNCHANGED request \/ request'.kind # "asked")
    BY <1>5, EmptySeq DEF TurnEnds, Returned, Idle, Msg, viewVars
  <2> QED BY <1>0, <2>1 DEF InOrder
<1>6. ASSUME TurnOutput PROVE InOrder'
  <2>1. UNCHANGED <<ask, asks, pend, request, mailbox>> /\ hand'.kind # "command"
    BY <1>6 DEF TurnOutput, Turn, Idle, Msg, viewVars
  <2>2. screen'.command = screen.command
    BY <1>0, <1>6, Repainting DEF TurnOutput, ScreenTypes
  <2> QED BY <1>0, <2>1, <2>2 DEF InOrder
<1>7. ASSUME TurnStaleEnd PROVE InOrder'
  <2>1. /\ UNCHANGED <<screen, ask, asks, pend, request, mailbox>>
        /\ hand'.kind # "command"
    BY <1>7 DEF TurnStaleEnd, Turn, Idle, Msg, viewVars
  <2> QED BY <1>0, <2>1 DEF InOrder
<1>8. ASSUME TurnRespawn PROVE InOrder'
  <2>1. UNCHANGED <<ask, asks, pend, request, mailbox>> /\ hand'.kind # "command"
    BY <1>8 DEF TurnRespawn, Turn, Idle, Msg, viewVars
  <2>2. screen'.command \in {0, screen.command}
    BY <1>0, <1>8, Respawning DEF TurnRespawn
  <2>3. /\ request.of \in Nat /\ asks \in Nat
        /\ \A i \in 1 .. Len(mailbox) : mailbox[i].of \in Nat
    BY <1>0, Numbers
  <2> QED BY <1>0, <2>1, <2>2, <2>3 DEF InOrder
<1>9. ASSUME TurnCommand PROVE InOrder'
  <2>1. /\ UNCHANGED <<ask, asks, pend, mailbox>> /\ hand'.kind # "command"
        /\ hand.kind = "command" /\ (UNCHANGED request \/ request'.kind # "asked")
    BY <1>9 DEF TurnCommand, Turn, Idle, Msg, viewVars
  <2>2. screen'.command = hand.of
    BY <1>0, <1>9, Numbers, Repainting DEF TurnCommand, ScreenTypes
  <2> QED BY <1>0, <2>1, <2>2 DEF InOrder
<1>10. ASSUME TurnLatestClient PROVE InOrder'
  <2>1. /\ UNCHANGED <<screen, ask, asks, pend, request, mailbox>>
        /\ hand'.kind # "command"
    BY <1>10 DEF TurnLatestClient, Turn, Idle, Msg, viewVars
  <2> QED BY <1>0, <2>1 DEF InOrder
<1>11. ASSUME TurnPolicy PROVE InOrder'
  <2>1. /\ UNCHANGED <<screen, ask, asks, pend, request, mailbox>>
        /\ hand'.kind # "command"
    BY <1>11 DEF TurnPolicy, Turn, Idle, Msg, viewVars
  <2> QED BY <1>0, <2>1 DEF InOrder
<1>12. ASSUME PublishOutput PROVE InOrder'
  <2>1. UNCHANGED <<ask, asks, pend, request, mailbox, hand>>
    BY <1>12 DEF PublishOutput, viewVars
  <2>2. screen'.command = screen.command
    BY <1>0, <1>12, Reconciling DEF PublishOutput
  <2> QED BY <1>0, <2>1, <2>2 DEF InOrder
<1>13. ASSUME NEW k \in {"policy", "stop"}, TryPost(k) PROVE InOrder'
  <2>1. UNCHANGED <<screen, hand, ask, asks, pend, request>>
    BY <1>13 DEF TryPost, viewVars
  <2>2. Msg(k, 0) \in Messages /\ Msg(k, 0).kind # "command"
    BY DEF Msg, Messages
  <2>3. CASE UNCHANGED mailbox
    BY <1>0, <2>1, <2>3 DEF InOrder
  <2>4. CASE Post(Msg(k, 0))
    BY <1>0, <2>1, <2>2, <2>4, OrderedPost
  <2> QED BY <1>13, <2>3, <2>4 DEF TryPost
<1>14. ASSUME AskRespawn PROVE InOrder'
  <2>1. /\ Msg("respawn", 0) \in Messages /\ Post(Msg("respawn", 0))
        /\ UNCHANGED <<screen, hand, ask, asks, pend, request>>
    BY <1>0, <1>14, PaneAssumption DEF AskRespawn, Msg, Messages, viewVars
  <2>2. Msg("respawn", 0).kind # "command"
    BY DEF Msg
  <2> QED BY <1>0, <2>1, <2>2, OrderedPost
<1>15. ASSUME Attach PROVE InOrder'
  <2>1. /\ UNCHANGED <<screen, hand, mailbox, ask, asks, pend>>
        /\ UNCHANGED request \/ request'.kind # "asked"
    BY <1>15 DEF Attach, Writing, Idle, Msg, paneVars, viewVars
  <2> QED BY <1>0, <2>1 DEF InOrder
<1>16. ASSUME Greet PROVE InOrder'
  <2>1. UNCHANGED <<screen, hand, ask, asks, pend>>
    BY <1>16 DEF Greet, viewVars
  <2>2. Msg("client", links) \in Messages /\ Msg("client", links).kind # "command"
    BY <1>0 DEF LinkTypes, Msg, Messages
  <2>3. CASE UNCHANGED <<mailbox, request>>
    BY <1>0, <2>1, <2>3 DEF InOrder
  <2>4. CASE Post(Msg("client", links)) /\ request' = Idle
    <3>1. request'.kind # "asked"
      BY <2>4 DEF Idle, Msg
    <3> QED BY <1>0, <2>1, <2>2, <2>4, <3>1, OrderedPost
  <2> QED BY <1>16, <2>3, <2>4 DEF Greet
<1>17. ASSUME TakeCommand PROVE InOrder'
  <2>1. UNCHANGED <<screen, hand, ask, asks, pend>> /\ request.kind = "asked"
    BY <1>17 DEF TakeCommand, viewVars
  <2>2. /\ Msg("command", request.of) \in Messages
        /\ Msg("command", request.of).of = request.of /\ request'.kind # "asked"
    BY <1>0, <1>17 DEF TakeCommand, LinkTypes, Requests, Msg, Messages
  <2>3. CASE UNCHANGED mailbox
    BY <1>0, <2>1, <2>2, <2>3 DEF InOrder
  <2>4. CASE Post(Msg("command", request.of))
    BY <1>0, <2>1, <2>2, <2>4, OrderedPost
  <2> QED BY <1>17, <2>3, <2>4 DEF TakeCommand
<1>18. ASSUME WriteReply PROVE InOrder'
  <2>1. /\ UNCHANGED <<screen, hand, mailbox, ask, asks, pend>>
        /\ UNCHANGED request \/ request'.kind # "asked"
    BY <1>18 DEF WriteReply, Writing, Idle, Msg, paneVars, viewVars
  <2> QED BY <1>0, <2>1 DEF InOrder
<1>19. ASSUME ViewReads PROVE InOrder'
  <2>1. UNCHANGED <<screen, hand, mailbox, ask, asks, request>> /\ pend' \in {0, pend}
    BY <1>19 DEF ViewReads, paneVars
  <2>2. asks \in Nat
    BY <1>0 DEF ViewTypes
  <2> QED BY <1>0, <2>1, <2>2 DEF InOrder
<1>20. ASSUME FailPending PROVE InOrder'
  <2>1. UNCHANGED <<screen, hand, mailbox, ask, asks, request>> /\ pend' \in {0, pend}
    BY <1>20 DEF FailPending, paneVars
  <2>2. asks \in Nat
    BY <1>0 DEF ViewTypes
  <2> QED BY <1>0, <2>1, <2>2 DEF InOrder
<1>21. ASSUME Reconnect PROVE InOrder'
  <2>1. /\ UNCHANGED <<screen, hand, mailbox, ask, asks, pend>>
        /\ UNCHANGED request \/ request'.kind # "asked"
    BY <1>21 DEF Reconnect, Writing, Idle, Msg, paneVars, viewVars
  <2> QED BY <1>0, <2>1 DEF InOrder
<1>22. ASSUME Ask PROVE InOrder'
  <2>1. /\ ask' = asks + 1 /\ asks' = asks + 1 /\ pend' = asks + 1
        /\ UNCHANGED <<screen, hand, request, mailbox>>
    BY <1>22 DEF Ask, paneVars
  <2>2. /\ screen.command \in Nat /\ hand.of \in Nat /\ request.of \in Nat
        /\ asks \in Nat
        /\ \A i \in 1 .. Len(mailbox) : mailbox[i].of \in Nat
    BY <1>0, Numbers
  <2>3. /\ screen.command <= asks + 1
        /\ hand.kind = "command" => hand.of <= asks + 1
        /\ request.kind = "asked" => request.of <= asks + 1
        /\ \A i \in 1 .. Len(mailbox) :
             mailbox[i].kind = "command" => mailbox[i].of <= asks + 1
    BY <1>0, <2>2 DEF InOrder
  <2> QED BY <1>0, <2>1, <2>2, <2>3 DEF InOrder
<1>23. ASSUME WriteAsk PROVE InOrder'
  <2>1. UNCHANGED <<screen, hand, mailbox, asks, pend>> /\ ask' = 0
    BY <1>23 DEF WriteAsk, paneVars
  <2>2. CASE UNCHANGED request
    BY <1>0, <2>1, <2>2 DEF InOrder
  <2>3. CASE request' = Msg("asked", ask)
    <3>1. request'.of = asks
      BY <1>0, <1>23, <2>3 DEF WriteAsk, Msg, InOrder
    <3>2. asks <= asks
      BY <1>0, Numbers
    <3> QED BY <1>0, <2>1, <3>1, <3>2 DEF InOrder
  <2> QED BY <1>23, <2>2, <2>3 DEF WriteAsk
<1>24. ASSUME UNCHANGED <<ask, asks, pend, screen, hand, request, mailbox>> PROVE InOrder'
  BY <1>0, <1>24 DEF InOrder
<1>25. ASSUME NEW e \in Epochs,
          \/ EndOfFile(e) \/ GiveUp(e)
      PROVE  UNCHANGED <<ask, asks, pend, screen, hand, request, mailbox>>
  BY <1>25 DEF EndOfFile, GiveUp, viewVars
<1>26. ASSUME
          \/ PublishChange \/ Configure \/ StopPane \/ RetirePane \/ WriteEffect
          \/ WriteFrame \/ WriteExited \/ Overflow \/ Break \/ Disconnect \/ Leave
          \/ Stall
      PROVE  UNCHANGED <<ask, asks, pend, screen, hand, request, mailbox>>
  BY <1>26 DEF PublishChange, Configure, StopPane, RetirePane, WriteEffect, WriteFrame,
     WriteExited, Overflow, Break, Disconnect, Leave, Stall, viewVars, paneVars, Writing
<1>27. ASSUME UNCHANGED vars
      PROVE  UNCHANGED <<ask, asks, pend, screen, hand, request, mailbox>>
  BY <1>27 DEF paneVars, viewVars, vars
<1> QED BY <1>1, <1>2, <1>3, <1>4, <1>5, <1>6, <1>7, <1>8, <1>9, <1>10, <1>11, <1>12,
           <1>13, <1>14, <1>15, <1>16, <1>17, <1>18, <1>19, <1>20, <1>21, <1>22, <1>23,
           <1>24, <1>25, <1>26, <1>27
       DEF Next, Outside, Inside, Worker, Connection, View

\* A step of the worker: the screen advances, and is published or not.
LEMMA ForwardStep ==
  ASSUME ScreenTypes, ViewTypes, Forward, Alive, screen' \in Shots,
         UNCHANGED <<shown, outbox, desired>>, screen'.policy <= desired,
         Before(screen, screen'), UNCHANGED frame \/ frame' = screen'
  PROVE  Forward'
<1>1. screen \in Shots /\ frame \in Shots /\ shown \in Shots
  BY DEF ScreenTypes, ViewTypes
<1>2. Before(frame, screen')
  BY <1>1, BeforeTransitive DEF Forward
<1>3. Before(frame', screen') /\ Before(frame, frame')
  BY <1>1, <1>2, BeforeSelf
<1>4. frame' \in Shots
  BY <1>1
<1>5. ASSUME NEW f \in Shots, Before(f, frame) PROVE Before(f, frame')
  BY <1>1, <1>3, <1>4, <1>5, BeforeTransitive
<1>6. \A i \in 1 .. Len(outbox) : outbox[i] \in Items
  BY ElementOfSeq DEF ViewTypes
<1>7. ASSUME NEW i \in 1 .. Len(outbox)
      PROVE  /\ outbox[i].kind # "exited"
             /\ outbox[i].kind = "frame" => Before(outbox[i].of, frame')
  BY <1>5, <1>6, ItemKinds DEF Forward
<1> QED BY <1>1, <1>3, <1>5, <1>7 DEF Forward

\* Nothing goes back on its way from the screen to the view.
LEMMA ForwardKept == IInv /\ [Next]_vars => Forward'
<1> SUFFICES ASSUME IInv, [Next]_vars PROVE Forward'
  OBVIOUS
<1>0. MailTypes /\ ScreenTypes /\ LinkTypes /\ ViewTypes /\ InOrder /\ Forward /\ Synced
  BY DEF IInv
<1>1. ASSUME Recv PROVE Forward'
  <2>1. /\ UNCHANGED <<shown, outbox, desired>> /\ Alive
        /\ screen' \in {screen, Reconciled} /\ (UNCHANGED frame \/ frame' = screen')
    BY <1>1 DEF Recv, Published, Alive, viewVars, serverVars
  <2>2. /\ Reconciled \in Shots /\ Reconciled.policy <= desired
        /\ Before(screen, Reconciled) /\ Before(screen, screen)
        /\ screen \in Shots /\ screen.policy <= desired
    BY <1>0, Reconciling, BeforeSelf DEF ScreenTypes, Shots, Forward, Before
  <2> QED BY <1>0, <2>1, <2>2, ForwardStep
<1>2. ASSUME TurnStops PROVE Forward'
  <2>1. /\ UNCHANGED <<shown, outbox, desired, screen>>
        /\ Alive /\ frame' \in {frame, screen}
    BY <1>2 DEF TurnStops, Turn, Published, Alive, viewVars, serverVars
  <2>2. screen \in Shots /\ screen.policy <= desired /\ Before(screen, screen')
    BY <1>0, <2>1, BeforeSelf DEF ScreenTypes, Forward
  <2> QED BY <1>0, <2>1, <2>2, ForwardStep
<1>3. ASSUME TurnEnds PROVE Forward'
  <2>1. /\ UNCHANGED <<shown, outbox, desired, screen>>
        /\ Alive /\ frame' \in {frame, screen}
    BY <1>3 DEF TurnEnds, Turn, Published, Alive, viewVars, serverVars
  <2>2. screen \in Shots /\ screen.policy <= desired /\ Before(screen, screen')
    BY <1>0, <2>1, BeforeSelf DEF ScreenTypes, Forward
  <2> QED BY <1>0, <2>1, <2>2, ForwardStep
<1>4. ASSUME TurnOutput PROVE Forward'
  <2>1. /\ UNCHANGED <<shown, outbox, desired, frame>> /\ Alive
        /\ screen' \in {screen, [screen EXCEPT !.out = @ + 1]}
    BY <1>4 DEF TurnOutput, Turn, Alive, viewVars, serverVars
  <2>2. screen \in Shots /\ screen.policy <= desired
    BY <1>0 DEF ScreenTypes, Forward
  <2>3. /\ screen' \in Shots /\ screen'.policy = screen.policy
        /\ screen'.epoch = screen.epoch /\ screen'.command = screen.command
        /\ screen'.out = screen.out \/ screen'.out = screen.out + 1
    BY <2>1, <2>2, Repainting
  <2>4. Before(screen, screen')
    BY <2>2, <2>3 DEF Before, Shots
  <2> QED BY <1>0, <2>1, <2>2, <2>3, <2>4, ForwardStep
<1>5. ASSUME TurnStaleEnd PROVE Forward'
  <2>1. /\ UNCHANGED <<shown, outbox, desired, screen>>
        /\ Alive /\ frame' \in {frame, screen}
    BY <1>5 DEF TurnStaleEnd, Turn, Published, Alive, viewVars, serverVars
  <2>2. screen \in Shots /\ screen.policy <= desired /\ Before(screen, screen')
    BY <1>0, <2>1, BeforeSelf DEF ScreenTypes, Forward
  <2> QED BY <1>0, <2>1, <2>2, ForwardStep
<1>6. ASSUME TurnRespawn PROVE Forward'
  <2>1. /\ UNCHANGED <<shown, outbox, desired, frame>> /\ Alive
        /\ UNCHANGED screen \/ Respawned
    BY <1>6 DEF TurnRespawn, Turn, Alive, viewVars, serverVars
  <2>2. screen \in Shots /\ screen.policy <= desired /\ desired \in Nat
    BY <1>0 DEF ScreenTypes, Forward
  <2>3. screen' \in Shots /\ screen'.policy <= desired /\ Before(screen, screen')
    <3>1. CASE UNCHANGED screen
      BY <2>2, <3>1, BeforeSelf
    <3>2. CASE Respawned
      <4>1. /\ screen' \in Shots /\ screen'.epoch = screen.epoch + 1
            /\ screen'.policy = desired
        BY <1>0, <3>2, Respawning
      <4> QED BY <2>2, <4>1 DEF Before, Shots
    <3> QED BY <2>1, <3>1, <3>2
  <2> QED BY <1>0, <2>1, <2>2, <2>3, ForwardStep
<1>7. ASSUME TurnCommand PROVE Forward'
  <2>1. /\ UNCHANGED <<shown, outbox, desired, frame>> /\ Alive /\ hand.kind = "command"
        /\ screen' = [screen EXCEPT !.command = hand.of]
    BY <1>7 DEF TurnCommand, Turn, Alive, viewVars, serverVars
  <2>2. screen \in Shots /\ screen.policy <= desired /\ hand.of \in Nat
    BY <1>0, Numbers DEF ScreenTypes, Forward
  <2>3. /\ screen' \in Shots /\ screen'.policy = screen.policy
        /\ screen'.out = screen.out
        /\ screen'.epoch = screen.epoch /\ screen'.command = hand.of
    BY <2>1, <2>2, Repainting
  <2>4. screen.command <= hand.of
    BY <1>0, <2>1 DEF InOrder
  <2>5. Before(screen, screen')
    BY <2>2, <2>3, <2>4 DEF Before, Shots
  <2> QED BY <1>0, <2>1, <2>2, <2>3, <2>5, ForwardStep
<1>8. ASSUME TurnLatestClient PROVE Forward'
  <2>1. /\ UNCHANGED <<shown, outbox, desired, screen>>
        /\ Alive /\ frame' \in {frame, screen}
    BY <1>8 DEF TurnLatestClient, Turn, Published, Alive, viewVars, serverVars
  <2>2. screen \in Shots /\ screen.policy <= desired /\ Before(screen, screen')
    BY <1>0, <2>1, BeforeSelf DEF ScreenTypes, Forward
  <2> QED BY <1>0, <2>1, <2>2, ForwardStep
<1>9. ASSUME TurnPolicy PROVE Forward'
  <2>1. /\ UNCHANGED <<shown, outbox, desired, screen>>
        /\ Alive /\ frame' \in {frame, screen}
    BY <1>9 DEF TurnPolicy, Turn, Published, Alive, viewVars, serverVars
  <2>2. screen \in Shots /\ screen.policy <= desired /\ Before(screen, screen')
    BY <1>0, <2>1, BeforeSelf DEF ScreenTypes, Forward
  <2> QED BY <1>0, <2>1, <2>2, ForwardStep
<1>10. ASSUME PublishChange PROVE Forward'
  <2>1. /\ UNCHANGED <<shown, outbox, desired, screen>>
        /\ Alive /\ frame' \in {frame, screen}
    BY <1>10 DEF PublishChange, Turn, Published, Alive, viewVars, serverVars
  <2>2. screen \in Shots /\ screen.policy <= desired /\ Before(screen, screen')
    BY <1>0, <2>1, BeforeSelf DEF ScreenTypes, Forward
  <2> QED BY <1>0, <2>1, <2>2, ForwardStep
<1>11. ASSUME PublishOutput PROVE Forward'
  <2>1. /\ UNCHANGED <<shown, outbox, desired>> /\ Alive
        /\ screen' \in {screen, Reconciled} /\ (UNCHANGED frame \/ frame' = screen')
    BY <1>11 DEF PublishOutput, Published, Alive, viewVars, serverVars
  <2>2. /\ Reconciled \in Shots /\ Reconciled.policy <= desired
        /\ Before(screen, Reconciled) /\ Before(screen, screen)
        /\ screen \in Shots /\ screen.policy <= desired
    BY <1>0, Reconciling, BeforeSelf DEF ScreenTypes, Shots, Forward, Before
  <2> QED BY <1>0, <2>1, <2>2, ForwardStep
<1>12. ASSUME Configure PROVE Forward'
  <2>1. desired' = desired + 1 /\ UNCHANGED <<shown, outbox, screen, frame, worker>>
    BY <1>12 DEF Configure, paneVars, viewVars
  <2>2. screen.policy <= desired'
    BY <1>0, <2>1 DEF Forward, ScreenTypes, Shots
  <2> QED BY <1>0, <2>1, <2>2 DEF Forward, Alive
<1>13. ASSUME WriteReply PROVE Forward'
  <2>0. request.of \in Nat
    BY <1>0 DEF LinkTypes, Requests
  <2>1. /\ UNCHANGED <<shown, screen, frame, worker, desired>>
        /\ outbox' = FrameItem \o <<Msg("reply", request.of)>>
    BY <1>13 DEF WriteReply, Writing, paneVars, viewVars, serverVars
  <2>2. /\ frame = Nothing => Len(outbox') = 1 /\ outbox'[1].kind = "reply"
        /\ frame # Nothing => /\ Len(outbox') = 2 /\ outbox'[1] = FrameOf(frame)
                              /\ outbox'[2].kind = "reply"
    BY <1>0, <2>0, <2>1, TakenFrame
  <2>3. /\ FrameOf(frame).kind = "frame" /\ FrameOf(frame).of = frame
        /\ Before(frame, frame)
    BY <1>0, ItemKinds, BeforeSelf DEF ScreenTypes
  <2>4. CASE frame = Nothing
    <3>1. Len(outbox') = 1 /\ outbox'[1].kind = "reply"
      BY <2>2, <2>4
    <3>2. \A i \in 1 .. Len(outbox') : i = 1
      BY <3>1
    <3> QED BY <1>0, <2>1, <3>1, <3>2 DEF Forward
  <2>5. CASE frame # Nothing
    <3>1. 1 .. Len(outbox') = {1, 2}
      BY <2>2, <2>5
    <3> QED BY <1>0, <2>1, <2>2, <2>3, <2>5, <3>1 DEF Forward
  <2> QED BY <2>4, <2>5
<1>14. ASSUME WriteEffect PROVE Forward'
  <2>1. /\ UNCHANGED <<shown, screen, frame, worker, desired>>
        /\ outbox' = <<Msg("effect", 0)>>
    BY <1>14 DEF WriteEffect, Writing, paneVars, viewVars, serverVars
  <2>2. Len(outbox') = 1 /\ outbox'[1].kind = "effect"
    BY <2>1, ItemKinds, OneItem
  <2> QED BY <1>0, <2>1, <2>2 DEF Forward
<1>15. ASSUME WriteFrame PROVE Forward'
  <2>1. UNCHANGED <<shown, screen, frame, worker, desired>> /\ outbox' = FrameItem
    BY <1>15 DEF WriteFrame, Writing, paneVars, viewVars, serverVars
  <2>2. /\ frame = Nothing => Len(outbox') = 0
        /\ frame # Nothing => Len(outbox') = 1 /\ outbox'[1] = FrameOf(frame)
    BY <1>0, <2>1, TakenFrame, EmptySeq
  <2>3. /\ FrameOf(frame).kind = "frame" /\ FrameOf(frame).of = frame
        /\ Before(frame, frame)
    BY <1>0, ItemKinds, BeforeSelf DEF ScreenTypes
  <2> QED BY <1>0, <2>1, <2>2, <2>3 DEF Forward
<1>16. ASSUME WriteExited PROVE Forward'
  <2>1. /\ UNCHANGED <<shown, screen, frame, worker, desired>>
        /\ outbox' = <<Msg("exited", 0)>>
    BY <1>16 DEF WriteExited, Writing, paneVars, viewVars, serverVars
  <2>2. Len(outbox') = 1 /\ outbox'[1].kind = "exited"
    BY <2>1, ItemKinds, OneItem
  <2>3. ~Alive /\ outbox = <<>> /\ Serving /\ request.kind # "attach" /\ ~unseen
    BY <1>16 DEF WriteExited, Writing
  <2>4. shown = frame
    BY <1>0, <2>3 DEF Synced
  <2> QED BY <1>0, <2>1, <2>2, <2>3, <2>4 DEF Forward, Alive
<1>17. ASSUME ViewReads PROVE Forward'
  <2>0. /\ UNCHANGED <<screen, frame, worker, desired>>
        /\ outbox # <<>> /\ outbox' = Tail(outbox)
    BY <1>17 DEF ViewReads, paneVars, serverVars
  <2>1. /\ Len(outbox) \in Nat \ {0} /\ Len(outbox') = Len(outbox) - 1
        /\ \A i \in 1 .. Len(outbox) - 1 : outbox'[i] = outbox[i + 1]
        /\ Head(outbox) = outbox[1]
    BY <1>0, <2>0, Reading
  <2>2. /\ 1 \in 1 .. Len(outbox)
        /\ \A i \in 1 .. Len(outbox') :
             i + 1 \in 1 .. Len(outbox) /\ i + 1 # 1 /\ Len(outbox) # 1
    BY <2>1
  <2>3. \A i \in 1 .. Len(outbox') : outbox'[i].kind \notin {"frame", "exited"}
    BY <1>0, <2>1, <2>2 DEF Forward
  <2>4. shown' = IF outbox[1].kind = "frame" THEN outbox[1].of ELSE shown
    BY <1>17, <2>1 DEF ViewReads
  <2>5. Before(shown', frame)
    BY <1>0, <2>2, <2>4 DEF Forward
  <2> QED BY <1>0, <2>0, <2>3, <2>5 DEF Forward
<1>18. ASSUME Reconnect PROVE Forward'
  <2>1. UNCHANGED <<shown, screen, frame, worker, desired>> /\ Len(outbox') = 0
    BY <1>18, EmptySeq DEF Reconnect, viewVars, serverVars
  <2> QED BY <1>0, <2>1 DEF Forward
<1>19. ASSUME UNCHANGED <<screen, desired, frame, shown, outbox, worker>> PROVE Forward'
  BY <1>0, <1>19 DEF Forward, Alive
<1>20. ASSUME NEW e \in Epochs,
          \/ Read(e) \/ EndOfFile(e) \/ SendEnd(e) \/ GiveUp(e)
      PROVE  UNCHANGED <<screen, desired, frame, shown, outbox, worker>>
  BY <1>20 DEF Read, EndOfFile, SendEnd, GiveUp, serverVars, viewVars
<1>21. ASSUME
          \/ StopPane \/ AskRespawn \/ RetirePane \/ Attach \/ Greet \/ TakeCommand
          \/ Overflow \/ Break \/ Disconnect \/ FailPending \/ Leave \/ Ask \/ WriteAsk
          \/ Stall
      PROVE  UNCHANGED <<screen, desired, frame, shown, outbox, worker>>
  BY <1>21 DEF StopPane, AskRespawn, RetirePane, Attach, Greet, TakeCommand, Overflow,
     Break, Disconnect, FailPending, Leave, Ask, WriteAsk, Stall, paneVars, viewVars,
     serverVars
<1>22. ASSUME NEW k \in {"policy", "stop"},
          \/ TryPost(k)
      PROVE  UNCHANGED <<screen, desired, frame, shown, outbox, worker>>
  BY <1>22 DEF TryPost, viewVars
<1>23. ASSUME UNCHANGED vars
      PROVE  UNCHANGED <<screen, desired, frame, shown, outbox, worker>>
  BY <1>23 DEF paneVars, serverVars, viewVars, vars
<1> QED BY <1>1, <1>2, <1>3, <1>4, <1>5, <1>6, <1>7, <1>8, <1>9, <1>10, <1>11, <1>12,
           <1>13, <1>14, <1>15, <1>16, <1>17, <1>18, <1>19, <1>20, <1>21, <1>22, <1>23
       DEF Next, Outside, Inside, Worker, Connection, View

\* Frames from before, or as small, are within the bounds after a step.
LEMMA BoundedStep ==
  ASSUME ScreenTypes', ViewTypes', events \in Nat, events' \in Nat, events <= events',
         events' <= MaxEvents, desired' <= events', asks' <= events',
         \A e \in Epochs : made'[e] <= events',
         Within(screen', events), Within(frame', events), Within(shown', events),
         \A i \in 1 .. Len(outbox') :
           outbox'[i].kind = "frame" => Within(outbox'[i].of, events)
  PROVE  Bounded'
<1>1. ASSUME NEW f \in Shots, Within(f, events) PROVE Within(f, events')
  BY <1>1 DEF Within, Shots
<1>2. screen' \in Shots /\ frame' \in Shots /\ shown' \in Shots
  BY DEF ScreenTypes, ViewTypes
<1>3. \A i \in 1 .. Len(outbox') : outbox'[i] \in Items
  BY ElementOfSeq DEF ViewTypes
<1>4. \A i \in 1 .. Len(outbox') :
        outbox'[i].kind = "frame" => Within(outbox'[i].of, events')
  BY <1>1, <1>3, ItemKinds
<1> QED BY <1>1, <1>2, <1>4 DEF Bounded

\* The counts stay within their bounds.
LEMMA BoundedKept == IInv /\ [Next]_vars => Bounded'
<1> SUFFICES ASSUME IInv, [Next]_vars PROVE Bounded'
  OBVIOUS
<1>0. /\ MailTypes /\ ScreenTypes /\ LinkTypes /\ ViewTypes /\ Processes /\ Counted
      /\ InOrder /\ Bounded
  BY DEF IInv
<1>e. /\ events \in Nat /\ events' \in Nat /\ events <= events' /\ events' <= MaxEvents
      /\ ScreenTypes' /\ ViewTypes'
  BY <1>0, PaneAssumption, ScreenTypesKept, ViewTypesKept DEF Next, Bounded, vars
<1>k. desired <= events' /\ asks <= events' /\ \A e \in Epochs : made[e] <= events'
  BY <1>0, <1>e DEF Bounded, ScreenTypes, ViewTypes
<1>1. ASSUME NEW e \in Epochs, Read(e), events' = events + 1 PROVE Bounded'
  <2>1. /\ UNCHANGED <<desired, asks, screen, frame, shown, outbox>>
        /\ made' = [made EXCEPT ![e] = @ + 1]
    BY <1>1 DEF Read, serverVars, viewVars
  <2>2. \A d \in Epochs : made'[d] <= events'
    BY <1>0, <1>e, <1>1, <2>1 DEF Bounded, ScreenTypes
  <2> QED BY <1>0, <1>e, <1>k, <2>1, <2>2, BoundedStep DEF Bounded
<1>2. ASSUME Recv PROVE Bounded'
  <2>1. /\ UNCHANGED <<desired, asks, shown, outbox, made>>
        /\ screen' \in {screen, Reconciled}
        /\ frame' \in {frame, Reconciled}
    BY <1>2 DEF Recv, Published, viewVars, serverVars
  <2>2. Within(Reconciled, events)
    BY <1>0, Reconciling DEF Bounded, Within
  <2> QED BY <1>0, <1>e, <1>k, <2>1, <2>2, BoundedStep DEF Bounded
<1>3. ASSUME TurnEnds PROVE Bounded'
  <2>1. /\ UNCHANGED <<desired, asks, shown, outbox, made>>
        /\ UNCHANGED screen /\ frame' = screen
    BY <1>3 DEF TurnEnds, Published, viewVars, serverVars
  <2> QED BY <1>0, <1>e, <1>k, <2>1, BoundedStep DEF Bounded
<1>4. ASSUME TurnOutput PROVE Bounded'
  <2>1. UNCHANGED <<desired, asks, shown, outbox, made>> /\ UNCHANGED frame
    BY <1>4 DEF TurnOutput, viewVars, serverVars
  <2>2. CASE UNCHANGED screen
    BY <1>0, <1>e, <1>k, <2>1, <2>2, BoundedStep DEF Bounded
  <2>3. CASE hand.of = screen.epoch /\ screen' = [screen EXCEPT !.out = @ + 1]
    <3>1. /\ screen'.epoch = screen.epoch /\ screen'.out = screen.out + 1
          /\ screen'.command = screen.command /\ screen'.policy = screen.policy
      BY <1>0, <2>3, Repainting DEF ScreenTypes
    <3>2. One(hand, screen.epoch) = 1 /\ Alive
      BY <1>0, <1>4, <2>3 DEF TurnOutput, Turn, Alive, One, Msg, MailTypes, Messages
    <3>3. screen.out + 1 <= made[screen.epoch] /\ screen.epoch \in Epochs
      <4>1. PICK c \in [1 .. Len(mailbox) + 1 -> 0 .. made[screen.epoch]] :
                   Tally(c, mailbox, screen.out + 1, screen.epoch, made[screen.epoch])
        BY <1>0, <3>2 DEF Counted, AddsUp
      <4>2. c[1] = screen.out + 1 /\ 1 \in 1 .. Len(mailbox) + 1
        BY <1>0, <4>1, Numbers DEF Tally
      <4> QED BY <1>0, <4>2 DEF Processes, ScreenTypes
    <3>4. Within(screen', events)
      BY <1>0, <3>1, <3>3 DEF Bounded, Within, ScreenTypes, Shots
    <3> QED BY <1>0, <1>e, <1>k, <2>1, <3>4, BoundedStep DEF Bounded
  <2> QED BY <1>4, <2>2, <2>3 DEF TurnOutput
<1>5. ASSUME TurnRespawn PROVE Bounded'
  <2>1. /\ UNCHANGED <<desired, asks, shown, outbox, made>>
        /\ UNCHANGED frame /\ hand.kind = "respawn"
    BY <1>5 DEF TurnRespawn, Turn, viewVars, serverVars
  <2>2. CASE UNCHANGED screen
    BY <1>0, <1>e, <1>k, <2>1, <2>2, BoundedStep DEF Bounded
  <2>3. CASE Respawned
    <3>1. /\ screen'.epoch = screen.epoch + 1 /\ screen'.out = 0
          /\ screen'.command = 0 /\ screen'.policy = desired
      BY <1>0, <2>3, Respawning
    <3>2. screen'.epoch <= MaxEpoch
      BY <1>0, <2>1, <3>1, PaneAssumption DEF Processes, Known, ScreenTypes, Shots
    <3>3. Within(screen', events)
      BY <1>0, <3>1, <3>2 DEF Bounded, Within
    <3> QED BY <1>0, <1>e, <1>k, <2>1, <3>3, BoundedStep DEF Bounded
  <2> QED BY <1>5, <2>2, <2>3 DEF TurnRespawn
<1>6. ASSUME TurnCommand PROVE Bounded'
  <2>1. /\ UNCHANGED <<desired, asks, shown, outbox, made>>
        /\ UNCHANGED frame /\ hand.kind = "command"
    BY <1>6 DEF TurnCommand, Turn, viewVars, serverVars
  <2>2. /\ screen'.epoch = screen.epoch /\ screen'.out = screen.out
        /\ screen'.command = hand.of /\ screen'.policy = screen.policy
    BY <1>0, <1>6, Numbers, Repainting DEF TurnCommand, ScreenTypes
  <2>3. Within(screen', events)
    BY <1>0, <2>1, <2>2, Numbers DEF InOrder, Bounded, Within
  <2> QED BY <1>0, <1>e, <1>k, <2>1, <2>3, BoundedStep DEF Bounded
<1>7. ASSUME PublishChange PROVE Bounded'
  <2>1. /\ UNCHANGED <<desired, asks, shown, outbox, made>>
        /\ UNCHANGED screen /\ frame' = screen
    BY <1>7 DEF PublishChange, Published, viewVars, serverVars
  <2> QED BY <1>0, <1>e, <1>k, <2>1, BoundedStep DEF Bounded
<1>8. ASSUME PublishOutput PROVE Bounded'
  <2>1. /\ UNCHANGED <<desired, asks, shown, outbox, made>>
        /\ screen' \in {screen, Reconciled}
        /\ frame' \in {frame, Reconciled}
    BY <1>8 DEF PublishOutput, Published, viewVars, serverVars
  <2>2. Within(Reconciled, events)
    BY <1>0, Reconciling DEF Bounded, Within
  <2> QED BY <1>0, <1>e, <1>k, <2>1, <2>2, BoundedStep DEF Bounded
<1>9. ASSUME Configure, events' = events + 1 PROVE Bounded'
  <2>1. UNCHANGED <<asks, screen, frame, shown, outbox, made>> /\ desired' = desired + 1
    BY <1>9 DEF Configure, paneVars, viewVars
  <2>2. desired' <= events'
    BY <1>0, <1>9, <2>1 DEF Bounded, ScreenTypes
  <2> QED BY <1>0, <1>e, <1>k, <2>1, <2>2, BoundedStep DEF Bounded
<1>10. ASSUME WriteReply PROVE Bounded'
  <2>0. request.of \in Nat
    BY <1>0 DEF LinkTypes, Requests
  <2>1. /\ UNCHANGED <<desired, asks, shown, screen, frame, made>>
        /\ outbox' = FrameItem \o <<Msg("reply", request.of)>>
    BY <1>10 DEF WriteReply, Writing, paneVars, viewVars, serverVars
  <2>2. /\ frame = Nothing => Len(outbox') = 1 /\ outbox'[1].kind = "reply"
        /\ frame # Nothing => /\ Len(outbox') = 2 /\ outbox'[1] = FrameOf(frame)
                              /\ outbox'[2].kind = "reply"
    BY <1>0, <2>0, <2>1, TakenFrame
  <2>3. FrameOf(frame).of = frame
    BY <1>0, ItemKinds DEF ScreenTypes
  <2>4. \A i \in 1 .. Len(outbox') : outbox'[i].kind = "frame" => outbox'[i].of = frame
    <3>1. CASE frame = Nothing
      <4>1. Len(outbox') = 1 /\ outbox'[1].kind = "reply"
        BY <2>2, <3>1
      <4>2. \A i \in 1 .. Len(outbox') : i = 1
        BY <4>1
      <4> QED BY <4>1, <4>2
    <3>2. CASE frame # Nothing
      <4>1. 1 .. Len(outbox') = {1, 2}
        BY <2>2, <3>2
      <4> QED BY <2>2, <2>3, <3>2, <4>1
    <3> QED BY <3>1, <3>2
  <2> QED BY <1>0, <1>e, <1>k, <2>1, <2>4, BoundedStep DEF Bounded
<1>11. ASSUME WriteEffect PROVE Bounded'
  <2>1. /\ UNCHANGED <<desired, asks, shown, screen, frame, made>>
        /\ outbox' = <<Msg("effect", 0)>>
    BY <1>11 DEF WriteEffect, Writing, paneVars, viewVars, serverVars
  <2>2. Len(outbox') = 1 /\ outbox'[1].kind = "effect"
    BY <2>1, ItemKinds, OneItem
  <2> QED BY <1>0, <1>e, <1>k, <2>1, <2>2, BoundedStep DEF Bounded
<1>12. ASSUME WriteFrame PROVE Bounded'
  <2>1. UNCHANGED <<desired, asks, shown, screen, frame, made>> /\ outbox' = FrameItem
    BY <1>12 DEF WriteFrame, Writing, paneVars, viewVars, serverVars
  <2>2. /\ frame = Nothing => Len(outbox') = 0
        /\ frame # Nothing => Len(outbox') = 1 /\ outbox'[1] = FrameOf(frame)
    BY <1>0, <2>1, TakenFrame, EmptySeq
  <2>3. FrameOf(frame).of = frame
    BY <1>0, ItemKinds DEF ScreenTypes
  <2> QED BY <1>0, <1>e, <1>k, <2>1, <2>2, <2>3, BoundedStep DEF Bounded
<1>13. ASSUME WriteExited PROVE Bounded'
  <2>1. /\ UNCHANGED <<desired, asks, shown, screen, frame, made>>
        /\ outbox' = <<Msg("exited", 0)>>
    BY <1>13 DEF WriteExited, Writing, paneVars, viewVars, serverVars
  <2>2. Len(outbox') = 1 /\ outbox'[1].kind = "exited"
    BY <2>1, ItemKinds, OneItem
  <2> QED BY <1>0, <1>e, <1>k, <2>1, <2>2, BoundedStep DEF Bounded
<1>14. ASSUME ViewReads PROVE Bounded'
  <2>0. /\ UNCHANGED <<desired, asks, screen, frame, made>>
        /\ outbox # <<>> /\ outbox' = Tail(outbox)
    BY <1>14 DEF ViewReads, paneVars, serverVars
  <2>1. /\ Len(outbox) \in Nat \ {0} /\ Len(outbox') = Len(outbox) - 1
        /\ \A i \in 1 .. Len(outbox) - 1 : outbox'[i] = outbox[i + 1]
        /\ Head(outbox) = outbox[1]
    BY <1>0, <2>0, Reading
  <2>2. 1 \in 1 .. Len(outbox) /\ \A i \in 1 .. Len(outbox') : i + 1 \in 1 .. Len(outbox)
    BY <2>1
  <2>3. \A i \in 1 .. Len(outbox') :
          outbox'[i].kind = "frame" => Within(outbox'[i].of, events)
    BY <1>0, <2>1, <2>2 DEF Bounded
  <2>4. shown' = IF outbox[1].kind = "frame" THEN outbox[1].of ELSE shown
    BY <1>14, <2>1 DEF ViewReads
  <2>5. Within(shown', events)
    BY <1>0, <2>2, <2>4 DEF Bounded
  <2> QED BY <1>0, <1>e, <1>k, <2>0, <2>3, <2>5, BoundedStep DEF Bounded
<1>15. ASSUME Reconnect PROVE Bounded'
  <2>1. UNCHANGED <<desired, asks, shown, screen, frame, made>> /\ Len(outbox') = 0
    BY <1>15, EmptySeq DEF Reconnect, viewVars, serverVars
  <2> QED BY <1>0, <1>e, <1>k, <2>1, BoundedStep DEF Bounded
<1>16. ASSUME Ask, events' = events + 1 PROVE Bounded'
  <2>1. UNCHANGED <<desired, screen, frame, shown, outbox, made>> /\ asks' = asks + 1
    BY <1>16 DEF Ask, paneVars, serverVars
  <2>2. asks' <= events'
    BY <1>0, <1>16, <2>1 DEF Bounded, ViewTypes
  <2> QED BY <1>0, <1>e, <1>k, <2>1, <2>2, BoundedStep DEF Bounded
<1>17. ASSUME UNCHANGED <<desired, asks, made, screen, frame, shown, outbox>>
       PROVE Bounded'
  BY <1>0, <1>e, <1>k, BoundedStep, <1>17 DEF Bounded
<1>18. ASSUME NEW e \in Epochs,
          \/ EndOfFile(e) \/ SendEnd(e) \/ GiveUp(e)
      PROVE  UNCHANGED <<desired, asks, made, screen, frame, shown, outbox>>
  BY <1>18 DEF EndOfFile, SendEnd, GiveUp, serverVars, viewVars
<1>19. ASSUME
          \/ TurnStops \/ TurnStaleEnd \/ TurnLatestClient \/ TurnPolicy \/ StopPane
          \/ AskRespawn \/ RetirePane \/ Attach \/ Greet \/ TakeCommand \/ Overflow
          \/ Break \/ Disconnect \/ FailPending \/ Leave \/ WriteAsk \/ Stall
      PROVE  UNCHANGED <<desired, asks, made, screen, frame, shown, outbox>>
  BY <1>19 DEF TurnStops, TurnStaleEnd, TurnLatestClient, TurnPolicy, StopPane,
     AskRespawn, RetirePane, Attach, Greet, TakeCommand, Overflow, Break, Disconnect,
     FailPending, Leave, WriteAsk, Stall, serverVars, viewVars, paneVars
<1>20. ASSUME NEW k \in {"policy", "stop"},
          \/ TryPost(k)
      PROVE  UNCHANGED <<desired, asks, made, screen, frame, shown, outbox>>
  BY <1>20 DEF TryPost, viewVars
<1>21. ASSUME UNCHANGED vars
      PROVE  UNCHANGED <<desired, asks, made, screen, frame, shown, outbox>>
  BY <1>21 DEF paneVars, serverVars, viewVars, vars
<1> QED BY <1>1, <1>2, <1>3, <1>4, <1>5, <1>6, <1>7, <1>8, <1>9, <1>10, <1>11, <1>12,
           <1>13, <1>14, <1>15, <1>16, <1>17, <1>18, <1>19, <1>20, <1>21
       DEF Next, Outside, Inside, Worker, Connection, View

\* The writer keeps up with the frames.
LEMMA SyncedKept == IInv /\ [Next]_vars => Synced'
<1> SUFFICES ASSUME IInv, [Next]_vars PROVE Synced'
  OBVIOUS
<1>0. ScreenTypes /\ LinkTypes /\ ViewTypes /\ Forward /\ Synced
  BY DEF IInv
<1>1. ASSUME Recv PROVE Synced'
  <2>1. /\ UNCHANGED <<link, outbox, shown>>
        /\ request'.kind = "attach" <=> request.kind = "attach"
        /\ ~unseen' => ~unseen /\ UNCHANGED frame
    BY <1>1 DEF Recv, Published, Returned, Msg, viewVars
  <2> QED BY <1>0, <2>1 DEF Synced, Serving
<1>2. ASSUME TurnStops PROVE Synced'
  <2>1. /\ UNCHANGED <<outbox, shown, frame>> /\ (link' = "open" => link = "open")
        /\ request'.kind = "attach" <=> request.kind = "attach"
        /\ UNCHANGED unseen
    BY <1>2 DEF TurnStops, Turn, Returned, Serving, Msg, Idle, viewVars, paneVars
  <2> QED BY <1>0, <2>1 DEF Synced, Serving
<1>3. ASSUME TurnEnds PROVE Synced'
  <2>1. /\ UNCHANGED <<link, outbox, shown>>
        /\ request'.kind = "attach" <=> request.kind = "attach"
        /\ ~unseen' => ~unseen /\ UNCHANGED frame
    BY <1>3 DEF TurnEnds, Published, Returned, Msg, viewVars
  <2> QED BY <1>0, <2>1 DEF Synced, Serving
<1>4. ASSUME TurnCommand PROVE Synced'
  <2>1. /\ UNCHANGED <<outbox, shown, frame>> /\ (link' = "open" => link = "open")
        /\ request'.kind = "attach" <=> request.kind = "attach"
        /\ UNCHANGED unseen
    BY <1>4 DEF TurnCommand, Turn, Returned, Serving, Msg, Idle, viewVars, paneVars
  <2> QED BY <1>0, <2>1 DEF Synced, Serving
<1>5. ASSUME PublishChange PROVE Synced'
  <2>1. /\ UNCHANGED <<link, outbox, shown>>
        /\ request'.kind = "attach" <=> request.kind = "attach"
        /\ ~unseen' => ~unseen /\ UNCHANGED frame
    BY <1>5 DEF PublishChange, Published, Returned, Msg, viewVars
  <2> QED BY <1>0, <2>1 DEF Synced, Serving
<1>6. ASSUME PublishOutput PROVE Synced'
  <2>1. /\ UNCHANGED <<link, outbox, shown>>
        /\ request'.kind = "attach" <=> request.kind = "attach"
        /\ ~unseen' => ~unseen /\ UNCHANGED frame
    BY <1>6 DEF PublishOutput, Published, Returned, Msg, viewVars
  <2> QED BY <1>0, <2>1 DEF Synced, Serving
<1>7. ASSUME Attach PROVE Synced'
  <2>1. unseen' \/ link' # "open"
    BY <1>7 DEF Attach
  <2> QED BY <2>1 DEF Synced, Serving
<1>8. ASSUME Greet PROVE Synced'
  <2>1. /\ UNCHANGED <<outbox, shown, frame>> /\ (link' = "open" => link = "open")
        /\ request'.kind = "attach" <=> request.kind = "attach"
        /\ UNCHANGED unseen
    BY <1>8 DEF Greet, Turn, Returned, Serving, Msg, Idle, viewVars, paneVars
  <2> QED BY <1>0, <2>1 DEF Synced, Serving
<1>9. ASSUME TakeCommand PROVE Synced'
  <2>1. /\ UNCHANGED <<outbox, shown, frame>> /\ (link' = "open" => link = "open")
        /\ request'.kind = "attach" <=> request.kind = "attach"
        /\ UNCHANGED unseen
    BY <1>9 DEF TakeCommand, Turn, Returned, Serving, Msg, Idle, viewVars, paneVars
  <2> QED BY <1>0, <2>1 DEF Synced, Serving
<1>10. ASSUME WriteReply PROVE Synced'
  <2>0. request.of \in Nat
    BY <1>0 DEF LinkTypes, Requests
  <2>1. /\ UNCHANGED <<link, shown, frame>>
        /\ outbox' = FrameItem \o <<Msg("reply", request.of)>>
    BY <1>10 DEF WriteReply, Writing, paneVars, viewVars
  <2>2. /\ frame = Nothing => Len(outbox') = 1 /\ outbox'[1].kind = "reply"
        /\ frame # Nothing => Len(outbox') = 2 /\ outbox'[1] = FrameOf(frame)
    BY <1>0, <2>0, <2>1, TakenFrame
  <2>3. CASE frame = Nothing
    <3>1. shown = frame
      BY <1>0, <2>3, BeforeSelf DEF Forward, ViewTypes
    <3> QED BY <2>1, <2>2, <2>3, <3>1 DEF Synced
  <2>4. CASE frame # Nothing
    <3>1. outbox' # <<>>
      BY <2>2, <2>4, EmptySeq
    <3> QED BY <2>1, <2>2, <2>4, <3>1 DEF Synced
  <2> QED BY <2>3, <2>4
<1>11. ASSUME WriteEffect PROVE Synced'
  <2>1. /\ UNCHANGED <<link, shown, frame>> /\ UNCHANGED <<request, unseen>>
        /\ outbox = <<>> /\ outbox' = <<Msg("effect", 0)>>
    BY <1>11 DEF WriteEffect, Writing, paneVars, viewVars
  <2>2. outbox'[1].kind = "effect"
    BY <2>1, ItemKinds, OneItem
  <2> QED BY <1>0, <2>1, <2>2 DEF Synced, Serving
<1>12. ASSUME WriteFrame PROVE Synced'
  <2>1. UNCHANGED <<link, shown, frame>> /\ outbox' = FrameItem
    BY <1>12 DEF WriteFrame, Writing, paneVars, viewVars
  <2>2. /\ frame = Nothing => outbox' = <<>>
        /\ frame # Nothing => Len(outbox') = 1 /\ outbox'[1] = FrameOf(frame)
    BY <1>0, <2>1, TakenFrame
  <2>3. CASE frame = Nothing
    <3>1. shown = frame
      BY <1>0, <2>3, BeforeSelf DEF Forward, ViewTypes
    <3> QED BY <2>1, <2>2, <2>3, <3>1 DEF Synced
  <2>4. CASE frame # Nothing
    <3>1. outbox' # <<>>
      BY <2>2, <2>4, EmptySeq
    <3> QED BY <2>1, <2>2, <2>4, <3>1 DEF Synced
  <2> QED BY <2>3, <2>4
<1>13. ASSUME WriteExited PROVE Synced'
  <2>1. /\ UNCHANGED <<link, shown, frame>> /\ UNCHANGED <<request, unseen>>
        /\ outbox = <<>> /\ outbox' = <<Msg("exited", 0)>>
    BY <1>13 DEF WriteExited, Writing, paneVars, viewVars
  <2>2. outbox'[1].kind = "exited"
    BY <2>1, ItemKinds, OneItem
  <2> QED BY <1>0, <2>1, <2>2 DEF Synced, Serving
<1>14. ASSUME Overflow PROVE Synced'
  <2>1. link' # "open"
    BY <1>14 DEF Overflow
  <2> QED BY <2>1 DEF Synced, Serving
<1>15. ASSUME Break PROVE Synced'
  <2>1. link' # "open"
    BY <1>15 DEF Break
  <2> QED BY <2>1 DEF Synced, Serving
<1>16. ASSUME ViewReads PROVE Synced'
  <2>1. /\ UNCHANGED <<frame, request, unseen>> /\ Serving
        /\ outbox # <<>> /\ outbox' = Tail(outbox)
    BY <1>16 DEF ViewReads, paneVars
  <2>2. /\ Len(outbox) \in Nat \ {0} /\ Len(outbox') = Len(outbox) - 1
        /\ \A i \in 1 .. Len(outbox) - 1 : outbox'[i] = outbox[i + 1]
        /\ Head(outbox) = outbox[1] /\ outbox' \in Seq(Items)
    BY <1>0, <2>1, Reading
  <2>3. outbox' = <<>> \/ outbox'[1].kind # "frame"
    <3>1. CASE Len(outbox') = 0
      BY <2>2, <3>1, EmptySeq
    <3>2. CASE Len(outbox') # 0
      <4>1. 1 \in 1 .. Len(outbox) - 1 /\ 2 \in 1 .. Len(outbox) /\ 1 + 1 = 2
        BY <2>2, <3>2
      <4>2. outbox'[1] = outbox[2]
        BY <2>2, <4>1
      <4> QED BY <1>0, <4>1, <4>2 DEF Forward
    <3> QED BY <3>1, <3>2
  <2>4. shown' = IF outbox[1].kind = "frame" THEN outbox[1].of ELSE shown
    BY <1>16, <2>2 DEF ViewReads
  <2>5. FrameOf(frame).kind = "frame" /\ FrameOf(frame).of = frame
    BY <1>0, ItemKinds DEF ScreenTypes
  <2>6. request.kind # "attach" /\ ~unseen => shown' = frame
    BY <1>0, <2>1, <2>4, <2>5 DEF Synced
  <2> QED BY <2>1, <2>3, <2>6 DEF Synced
<1>17. ASSUME Disconnect PROVE Synced'
  <2>1. link' # "open"
    BY <1>17 DEF Disconnect
  <2> QED BY <2>1 DEF Synced, Serving
<1>18. ASSUME FailPending PROVE Synced'
  <2>1. link' # "open"
    BY <1>18 DEF FailPending
  <2> QED BY <2>1 DEF Synced, Serving
<1>19. ASSUME Reconnect PROVE Synced'
  <2>1. request'.kind = "attach"
    BY <1>19 DEF Reconnect, Msg, Requests
  <2> QED BY <2>1 DEF Synced
<1>20. ASSUME Leave PROVE Synced'
  <2>1. link' # "open"
    BY <1>20 DEF Leave
  <2> QED BY <2>1 DEF Synced, Serving
<1>21. ASSUME WriteAsk PROVE Synced'
  <2>1. /\ UNCHANGED <<outbox, shown, frame>> /\ (link' = "open" => link = "open")
        /\ request'.kind = "attach" <=> request.kind = "attach"
        /\ UNCHANGED unseen
    BY <1>21 DEF WriteAsk, Turn, Returned, Serving, Msg, Idle, viewVars, paneVars
  <2> QED BY <1>0, <2>1 DEF Synced, Serving
<1>22. ASSUME UNCHANGED <<link, request, unseen, outbox, frame, shown>> PROVE Synced'
  BY <1>0, <1>22 DEF Synced, Serving
<1>23. ASSUME NEW e \in Epochs,
          \/ Read(e) \/ EndOfFile(e) \/ SendEnd(e) \/ GiveUp(e)
      PROVE  UNCHANGED <<link, request, unseen, outbox, frame, shown>>
  BY <1>23 DEF Read, EndOfFile, SendEnd, GiveUp, viewVars
<1>24. ASSUME
          \/ TurnOutput \/ TurnStaleEnd \/ TurnRespawn \/ TurnLatestClient \/ TurnPolicy
          \/ Configure \/ StopPane \/ AskRespawn \/ RetirePane \/ Ask \/ Stall
      PROVE  UNCHANGED <<link, request, unseen, outbox, frame, shown>>
  BY <1>24 DEF TurnOutput, TurnStaleEnd, TurnRespawn, TurnLatestClient, TurnPolicy,
     Configure, StopPane, AskRespawn, RetirePane, Ask, Stall, Push, viewVars, paneVars
<1>25. ASSUME NEW k \in {"policy", "stop"},
          \/ TryPost(k)
      PROVE  UNCHANGED <<link, request, unseen, outbox, frame, shown>>
  BY <1>25 DEF TryPost, viewVars
<1>26. ASSUME UNCHANGED vars
      PROVE  UNCHANGED <<link, request, unseen, outbox, frame, shown>>
  BY <1>26 DEF paneVars, viewVars, vars
<1> QED BY <1>1, <1>2, <1>3, <1>4, <1>5, <1>6, <1>7, <1>8, <1>9, <1>10, <1>11, <1>12,
           <1>13, <1>14, <1>15, <1>16, <1>17, <1>18, <1>19, <1>20, <1>21, <1>22, <1>23,
           <1>24, <1>25, <1>26
       DEF Next, Outside, Inside, Worker, Connection, View

\* A pane ends with its process.
LEMMA EndsKept == IInv /\ [Next]_vars => EndsWithItsProcess'
<1> SUFFICES ASSUME IInv, [Next]_vars PROVE EndsWithItsProcess'
  OBVIOUS
<1>0. MailTypes /\ ScreenTypes /\ Processes /\ Counted /\ EndsWithItsProcess
  BY DEF IInv
<1>1. ASSUME NEW e \in Epochs, Read(e) PROVE EndsWithItsProcess'
  <2>1. Alive /\ UNCHANGED worker
    BY <1>1 DEF Read, Room
  <2> QED BY <2>1 DEF EndsWithItsProcess, Alive
<1>2. ASSUME NEW e \in Epochs, EndOfFile(e) PROVE EndsWithItsProcess'
  <2>1. /\ UNCHANGED <<worker, made, screen, frame>>
        /\ \A d \in Epochs : reader[d] = "gone" => reader'[d] = "gone"
    BY <1>0, <1>2 DEF EndOfFile, ScreenTypes
  <2>2. screen.epoch \in Epochs
    BY <1>0 DEF Processes
  <2> QED BY <1>0, <2>1, <2>2 DEF EndsWithItsProcess
<1>3. ASSUME NEW e \in Epochs, SendEnd(e) PROVE EndsWithItsProcess'
  <2>1. /\ UNCHANGED <<worker, made, screen, frame>>
        /\ \A d \in Epochs : reader[d] = "gone" => reader'[d] = "gone"
    BY <1>0, <1>3 DEF SendEnd, ScreenTypes
  <2>2. screen.epoch \in Epochs
    BY <1>0 DEF Processes
  <2> QED BY <1>0, <2>1, <2>2 DEF EndsWithItsProcess
<1>4. ASSUME NEW e \in Epochs, GiveUp(e) PROVE EndsWithItsProcess'
  <2>1. /\ UNCHANGED <<worker, made, screen, frame>>
        /\ \A d \in Epochs : reader[d] = "gone" => reader'[d] = "gone"
    BY <1>0, <1>4 DEF GiveUp, ScreenTypes
  <2>2. screen.epoch \in Epochs
    BY <1>0 DEF Processes
  <2> QED BY <1>0, <2>1, <2>2 DEF EndsWithItsProcess
<1>5. ASSUME Recv PROVE EndsWithItsProcess'
  <2>1. worker' # "exited"
    BY <1>5 DEF Recv, Turn, Returned
  <2> QED BY <2>1 DEF EndsWithItsProcess
<1>6. ASSUME TurnStops PROVE EndsWithItsProcess'
  <2>1. worker' # "exited"
    BY <1>6 DEF TurnStops, Turn, Returned
  <2> QED BY <2>1 DEF EndsWithItsProcess
<1>7. ASSUME TurnEnds PROVE EndsWithItsProcess'
  <2>1. /\ worker = "turn" /\ hand.kind = "end" /\ hand.of = screen.epoch
        /\ frame' = screen /\ UNCHANGED <<screen, reader, made>>
    BY <1>7 DEF TurnEnds, Ends, Published
  <2>2. hand = Msg("end", screen.epoch) /\ Alive
    BY <1>0, <2>1 DEF MailTypes, Messages, Msg, Alive
  <2>3. screen.out = made[screen.epoch]
    BY <1>0, <2>2 DEF Counted
  <2>4. reader[screen.epoch] = "gone"
    BY <1>0, <2>1 DEF Processes, Known
  <2> QED BY <2>1, <2>3, <2>4 DEF EndsWithItsProcess
<1>8. ASSUME TurnOutput PROVE EndsWithItsProcess'
  <2>1. worker' # "exited"
    BY <1>8 DEF TurnOutput, Turn, Returned
  <2> QED BY <2>1 DEF EndsWithItsProcess
<1>9. ASSUME TurnStaleEnd PROVE EndsWithItsProcess'
  <2>1. worker' # "exited"
    BY <1>9 DEF TurnStaleEnd, Turn, Returned
  <2> QED BY <2>1 DEF EndsWithItsProcess
<1>10. ASSUME TurnRespawn PROVE EndsWithItsProcess'
  <2>1. worker' # "exited"
    BY <1>10 DEF TurnRespawn, Turn, Returned
  <2> QED BY <2>1 DEF EndsWithItsProcess
<1>11. ASSUME TurnCommand PROVE EndsWithItsProcess'
  <2>1. worker' # "exited"
    BY <1>11 DEF TurnCommand, Turn, Returned
  <2> QED BY <2>1 DEF EndsWithItsProcess
<1>12. ASSUME TurnLatestClient PROVE EndsWithItsProcess'
  <2>1. worker' # "exited"
    BY <1>12 DEF TurnLatestClient, Turn, Returned
  <2> QED BY <2>1 DEF EndsWithItsProcess
<1>13. ASSUME TurnPolicy PROVE EndsWithItsProcess'
  <2>1. worker' # "exited"
    BY <1>13 DEF TurnPolicy, Turn, Returned
  <2> QED BY <2>1 DEF EndsWithItsProcess
<1>14. ASSUME PublishChange PROVE EndsWithItsProcess'
  <2>1. worker' # "exited"
    BY <1>14 DEF PublishChange, Turn, Returned
  <2> QED BY <2>1 DEF EndsWithItsProcess
<1>15. ASSUME PublishOutput PROVE EndsWithItsProcess'
  <2>1. worker' # "exited"
    BY <1>15 DEF PublishOutput, Turn, Returned
  <2> QED BY <2>1 DEF EndsWithItsProcess
<1>16. ASSUME UNCHANGED <<worker, reader, screen, made, frame>> PROVE EndsWithItsProcess'
  BY <1>0, <1>16 DEF EndsWithItsProcess
<1>17. ASSUME
          \/ Configure \/ StopPane \/ AskRespawn \/ RetirePane \/ Attach \/ Greet
          \/ TakeCommand \/ WriteReply \/ WriteEffect \/ WriteFrame \/ WriteExited
          \/ Overflow \/ Break \/ ViewReads \/ Disconnect \/ FailPending \/ Reconnect
          \/ Leave \/ Ask \/ WriteAsk \/ Stall
      PROVE  UNCHANGED <<worker, reader, screen, made, frame>>
  BY <1>17 DEF Configure, StopPane, AskRespawn, RetirePane, Attach, Greet, TakeCommand,
     WriteReply, WriteEffect, WriteFrame, WriteExited, Overflow, Break, ViewReads,
     Disconnect, FailPending, Reconnect, Leave, Ask, WriteAsk, Stall, paneVars, Writing
<1>18. ASSUME NEW k \in {"policy", "stop"},
          \/ TryPost(k)
      PROVE  UNCHANGED <<worker, reader, screen, made, frame>>
  BY <1>18 DEF TryPost
<1>19. ASSUME UNCHANGED vars
      PROVE  UNCHANGED <<worker, reader, screen, made, frame>>
  BY <1>19 DEF paneVars, vars
<1> QED BY <1>1, <1>2, <1>3, <1>4, <1>5, <1>6, <1>7, <1>8, <1>9, <1>10, <1>11, <1>12,
           <1>13, <1>14, <1>15, <1>16, <1>17, <1>18, <1>19
       DEF Next, Outside, Inside, Worker, Connection, View

\* Who was told of the end has seen the last frame.
LEMMA ToldKept == IInv /\ [Next]_vars => ToldLast'
<1> SUFFICES ASSUME IInv, [Next]_vars PROVE ToldLast'
  OBVIOUS
<1>0. ViewTypes /\ Forward /\ ToldLast
  BY DEF IInv
<1>1. ASSUME Recv PROVE ToldLast'
  <2>1. UNCHANGED told /\ Alive
    BY <1>1 DEF Recv, Turn, Alive, viewVars
  <2> QED BY <1>0, <2>1 DEF ToldLast
<1>2. ASSUME TurnStops PROVE ToldLast'
  <2>1. UNCHANGED told /\ Alive
    BY <1>2 DEF TurnStops, Turn, Alive, viewVars
  <2> QED BY <1>0, <2>1 DEF ToldLast
<1>3. ASSUME TurnEnds PROVE ToldLast'
  <2>1. UNCHANGED told /\ Alive
    BY <1>3 DEF TurnEnds, Turn, Alive, viewVars
  <2> QED BY <1>0, <2>1 DEF ToldLast
<1>4. ASSUME TurnOutput PROVE ToldLast'
  <2>1. UNCHANGED told /\ Alive
    BY <1>4 DEF TurnOutput, Turn, Alive, viewVars
  <2> QED BY <1>0, <2>1 DEF ToldLast
<1>5. ASSUME TurnStaleEnd PROVE ToldLast'
  <2>1. UNCHANGED told /\ Alive
    BY <1>5 DEF TurnStaleEnd, Turn, Alive, viewVars
  <2> QED BY <1>0, <2>1 DEF ToldLast
<1>6. ASSUME TurnRespawn PROVE ToldLast'
  <2>1. UNCHANGED told /\ Alive
    BY <1>6 DEF TurnRespawn, Turn, Alive, viewVars
  <2> QED BY <1>0, <2>1 DEF ToldLast
<1>7. ASSUME TurnCommand PROVE ToldLast'
  <2>1. UNCHANGED told /\ Alive
    BY <1>7 DEF TurnCommand, Turn, Alive, viewVars
  <2> QED BY <1>0, <2>1 DEF ToldLast
<1>8. ASSUME TurnLatestClient PROVE ToldLast'
  <2>1. UNCHANGED told /\ Alive
    BY <1>8 DEF TurnLatestClient, Turn, Alive, viewVars
  <2> QED BY <1>0, <2>1 DEF ToldLast
<1>9. ASSUME TurnPolicy PROVE ToldLast'
  <2>1. UNCHANGED told /\ Alive
    BY <1>9 DEF TurnPolicy, Turn, Alive, viewVars
  <2> QED BY <1>0, <2>1 DEF ToldLast
<1>10. ASSUME PublishChange PROVE ToldLast'
  <2>1. UNCHANGED told /\ Alive
    BY <1>10 DEF PublishChange, Turn, Alive, viewVars
  <2> QED BY <1>0, <2>1 DEF ToldLast
<1>11. ASSUME PublishOutput PROVE ToldLast'
  <2>1. UNCHANGED told /\ Alive
    BY <1>11 DEF PublishOutput, Turn, Alive, viewVars
  <2> QED BY <1>0, <2>1 DEF ToldLast
<1>12. ASSUME Attach PROVE ToldLast'
  <2>1. UNCHANGED told /\ Serving
    BY <1>12 DEF Attach, viewVars
  <2> QED BY <1>0, <2>1 DEF ToldLast, Serving
<1>13. ASSUME Greet PROVE ToldLast'
  <2>1. UNCHANGED told /\ Serving
    BY <1>13 DEF Greet, viewVars
  <2> QED BY <1>0, <2>1 DEF ToldLast, Serving
<1>14. ASSUME Overflow PROVE ToldLast'
  <2>1. UNCHANGED told /\ Serving
    BY <1>14 DEF Overflow, viewVars
  <2> QED BY <1>0, <2>1 DEF ToldLast, Serving
<1>15. ASSUME Break PROVE ToldLast'
  <2>1. UNCHANGED told /\ Serving
    BY <1>15 DEF Break, viewVars
  <2> QED BY <1>0, <2>1 DEF ToldLast, Serving
<1>16. ASSUME ViewReads PROVE ToldLast'
  <2>1. /\ UNCHANGED <<frame, worker>> /\ outbox # <<>>
        /\ told' = (Head(outbox).kind = "exited")
        /\ link' = IF Head(outbox).kind = "exited" THEN "closed" ELSE link
        /\ shown' = IF Head(outbox).kind = "frame" THEN Head(outbox).of ELSE shown
    BY <1>16 DEF ViewReads, paneVars
  <2>2. Len(outbox) \in Nat \ {0} /\ Head(outbox) = outbox[1]
    BY <1>0, <2>1, Reading
  <2>3. Head(outbox).kind = "exited" => ~Alive /\ shown = frame
    BY <1>0, <2>2 DEF Forward
  <2> QED BY <2>1, <2>3 DEF ToldLast, Alive
<1>17. ASSUME Disconnect PROVE ToldLast'
  <2>1. UNCHANGED <<told, worker, shown, frame>>
    BY <1>17 DEF Disconnect, viewVars, paneVars
  <2> QED BY <1>0, <1>17, <2>1 DEF Disconnect, ToldLast, Alive
<1>18. ASSUME FailPending PROVE ToldLast'
  <2>1. UNCHANGED <<told, worker, shown, frame>>
    BY <1>18 DEF FailPending, viewVars, paneVars
  <2> QED BY <1>0, <1>18, <2>1 DEF FailPending, ToldLast, Alive
<1>19. ASSUME Reconnect PROVE ToldLast'
  <2>1. UNCHANGED <<told, worker, shown, frame>>
    BY <1>19 DEF Reconnect, viewVars, paneVars
  <2> QED BY <1>0, <1>19, <2>1 DEF Reconnect, ToldLast, Alive
<1>20. ASSUME Leave PROVE ToldLast'
  <2>1. UNCHANGED <<told, worker, shown, frame>>
    BY <1>20 DEF Leave, viewVars, paneVars
  <2> QED BY <1>0, <1>20, <2>1 DEF Leave, ToldLast, Alive
<1>21. ASSUME UNCHANGED <<told, worker, shown, frame, link>> PROVE ToldLast'
  BY <1>0, <1>21 DEF ToldLast, Alive
<1>22. ASSUME NEW e \in Epochs,
          \/ Read(e) \/ EndOfFile(e) \/ SendEnd(e) \/ GiveUp(e)
      PROVE  UNCHANGED <<told, worker, shown, frame, link>>
  BY <1>22 DEF Read, EndOfFile, SendEnd, GiveUp, viewVars
<1>23. ASSUME
          \/ Configure \/ StopPane \/ AskRespawn \/ RetirePane \/ TakeCommand
          \/ WriteReply \/ WriteEffect \/ WriteFrame \/ WriteExited \/ Ask \/ WriteAsk
          \/ Stall
      PROVE  UNCHANGED <<told, worker, shown, frame, link>>
  BY <1>23 DEF Configure, StopPane, AskRespawn, RetirePane, TakeCommand, WriteReply,
     WriteEffect, WriteFrame, WriteExited, Ask, WriteAsk, Stall, paneVars, viewVars,
     Writing
<1>24. ASSUME NEW k \in {"policy", "stop"},
          \/ TryPost(k)
      PROVE  UNCHANGED <<told, worker, shown, frame, link>>
  BY <1>24 DEF TryPost, viewVars
<1>25. ASSUME UNCHANGED vars
      PROVE  UNCHANGED <<told, worker, shown, frame, link>>
  BY <1>25 DEF paneVars, viewVars, vars
<1> QED BY <1>1, <1>2, <1>3, <1>4, <1>5, <1>6, <1>7, <1>8, <1>9, <1>10, <1>11, <1>12,
           <1>13, <1>14, <1>15, <1>16, <1>17, <1>18, <1>19, <1>20, <1>21, <1>22, <1>23,
           <1>24, <1>25
       DEF Next, Outside, Inside, Worker, Connection, View

--------------------------------------------------------------------------------
(* The theorems *)

LEMMA InitialStates == Init => IInv
<1> SUFFICES ASSUME Init PROVE IInv
  OBVIOUS
<1>1. /\ Nothing \in Shots /\ screen \in Shots /\ screen.epoch = 1 /\ screen.out = 0
      /\ screen.command = 0 /\ screen.policy = 0
  BY DEF Init, Nothing, Shots
<1>2. /\ <<>> \in Seq(Messages) /\ <<>> \in Seq(Items) /\ Len(<<>>) = 0
  BY EmptySeq
<1>3. Idle \in Messages /\ Idle.kind = "none"
  BY DEF Idle, Msg, Messages
<1>4. MailTypes
  BY <1>2, <1>3, PaneAssumption DEF Init, MailTypes
<1>5. ScreenTypes
  BY <1>1 DEF Init, ScreenTypes
<1>6. LinkTypes
  <2>1. request \in Requests
    BY DEF Init, Msg, Requests
  <2>2. effects \in 0 .. MaxEffects /\ links \in Nat
    BY PaneAssumption DEF Init
  <2> QED BY <2>1, <2>2 DEF Init, LinkTypes
<1>7. ViewTypes
  BY <1>1, <1>2 DEF Init, ViewTypes
<1>8. 1 \in Epochs /\ screen.epoch \in Epochs
  BY <1>1, PaneAssumption DEF Epochs
<1>9. Processes
  <2>1. \A e \in Epochs : e > screen.epoch => reader[e] = "none" /\ made[e] = 0
    BY <1>1 DEF Init, Epochs
  <2> QED BY <1>2, <1>3, <1>8, <2>1 DEF Init, Processes, Known
<1>10. Counted
  <2> DEFINE c == [i \in 1 .. 1 |-> 0]
  <2>1. made[screen.epoch] = 0
    BY <1>8 DEF Init
  <2>2. One(hand, screen.epoch) = 0 /\ hand # Msg("end", screen.epoch)
    BY DEF Init, One, Idle, Msg
  <2>3. Tally(c, <<>>, 0, screen.epoch, 0) /\ c \in [1 .. 1 -> 0 .. 0]
    BY <1>2 DEF Tally
  <2>4. AddsUp(<<>>, 0, screen.epoch, 0)
    BY <1>2, <2>3 DEF AddsUp
  <2>5. mailbox = <<>>
    BY DEF Init
  <2> QED BY <1>1, <2>1, <2>2, <2>4, <2>5 DEF Counted
<1>11. InOrder
  BY <1>1, <1>2, <1>3 DEF Init, InOrder, Msg
<1>12. Forward
  BY <1>1, <1>2, BeforeSelf DEF Init, Forward
<1>13. Bounded
  <2>1. Within(Nothing, 0) /\ Within(screen, 0)
    BY <1>1, PaneAssumption DEF Within, Nothing
  <2> QED BY <1>2, <2>1, PaneAssumption DEF Init, Bounded
<1>14. Synced /\ EndsWithItsProcess /\ ToldLast
  BY DEF Init, Synced, EndsWithItsProcess, ToldLast, Msg
<1> QED BY <1>4, <1>5, <1>6, <1>7, <1>9, <1>10, <1>11, <1>12, <1>13, <1>14 DEF IInv

LEMMA Inductive == Spec => []IInv
<1>1. ASSUME IInv, [Next]_vars PROVE IInv'
  BY <1>1, MailTypesKept, ScreenTypesKept, LinkTypesKept, ViewTypesKept, ProcessesKept,
     CountedKept, InOrderKept, ForwardKept, BoundedKept, SyncedKept, EndsKept, ToldKept
     DEF IInv
<1> QED BY <1>1, InitialStates, PTL DEF Spec

\* A pane exits only once its current process has ended and with all its output on
\* the last frame, and a view that is told of the exit shows that frame, whatever
\* respawns, stops, reconnections and full queues came before (read_output,
\* PaneWorker::run, connection_writer, native_terminal's run).
THEOREM PaneEndIsShown == Spec => []EndShown
<1>1. ASSUME IInv PROVE EndShown
  <2>1. ASSUME NEW f \in Shots, Within(f, events) PROVE f \in Frames
    BY <1>1, <2>1, PaneAssumption DEF IInv, Bounded, Within, Shots, Frames
  <2>2. screen \in Frames /\ frame \in Frames /\ shown \in Frames
    BY <1>1, <2>1 DEF IInv, ScreenTypes, ViewTypes, Bounded
  <2>3. made \in [Epochs -> 0 .. MaxEvents]
    BY <1>1, PaneAssumption DEF IInv, ScreenTypes, Bounded
  <2>4. pend \in 0 .. MaxEvents /\ ask \in {0, asks}
    BY <1>1, PaneAssumption DEF IInv, ViewTypes, InOrder, Bounded
  <2>5. TypeOK
    BY <1>1, <2>2, <2>3, <2>4 DEF IInv, MailTypes, ScreenTypes, LinkTypes, Requests, TypeOK
  <2> QED BY <1>1, <2>5 DEF IInv, ToldLast, EndShown, LastFrameSeen
<1> QED BY <1>1, Inductive, PTL

\* Only the view's reader changes what it shows.
LEMMA ShownKept == [Next]_vars => ViewReads \/ UNCHANGED shown
<1> SUFFICES ASSUME [Next]_vars, ~ViewReads PROVE UNCHANGED shown
  OBVIOUS
<1>1. ASSUME NEW e \in Epochs,
          \/ Read(e) \/ EndOfFile(e) \/ SendEnd(e) \/ GiveUp(e)
      PROVE  UNCHANGED shown
  BY <1>1 DEF Read, EndOfFile, SendEnd, GiveUp, viewVars
<1>2. ASSUME 
          \/ Recv \/ TurnStops \/ TurnEnds \/ TurnOutput \/ TurnStaleEnd \/ TurnRespawn
          \/ TurnCommand \/ TurnLatestClient \/ TurnPolicy \/ PublishChange
          \/ PublishOutput \/ Configure
      PROVE  UNCHANGED shown
  BY <1>2 DEF Recv, TurnStops, TurnEnds, TurnOutput, TurnStaleEnd, TurnRespawn,
     TurnCommand, TurnLatestClient, TurnPolicy, PublishChange, PublishOutput, Configure,
     viewVars
<1>3. ASSUME 
          \/ StopPane \/ AskRespawn \/ RetirePane \/ Attach \/ Greet \/ TakeCommand
          \/ WriteReply \/ WriteEffect \/ WriteFrame \/ WriteExited \/ Overflow \/ Break
      PROVE  UNCHANGED shown
  BY <1>3 DEF StopPane, AskRespawn, RetirePane, Attach, Greet, TakeCommand, WriteReply,
     WriteEffect, WriteFrame, WriteExited, Overflow, Break, Writing, viewVars
<1>4. ASSUME 
          \/ Disconnect \/ FailPending \/ Reconnect \/ Leave \/ Ask \/ WriteAsk \/ Stall
      PROVE  UNCHANGED shown
  BY <1>4 DEF Disconnect, FailPending, Reconnect, Leave, Ask, WriteAsk, Stall, viewVars
<1>5. ASSUME NEW k \in {"policy", "stop"},
          \/ TryPost(k)
      PROVE  UNCHANGED shown
  BY <1>5 DEF TryPost, viewVars
<1>6. ASSUME UNCHANGED vars PROVE UNCHANGED shown
  BY <1>6 DEF vars, viewVars
<1> QED BY <1>1, <1>2, <1>3, <1>4, <1>5, <1>6
       DEF Next, Outside, Inside, Worker, Connection, View

\* What a view shows never goes back to an earlier process, policy, output or
\* command (native_terminal's Published, publish_frame).
THEOREM ViewsNeverGoBack == Spec => NeverGoesBack
<1> DEFINE Later == /\ shown'.epoch >= shown.epoch /\ shown'.policy >= shown.policy
                    /\ shown'.epoch = shown.epoch
                         => shown'.out >= shown.out /\ shown'.command >= shown.command
<1>1. ASSUME IInv, IInv', [Next]_vars PROVE [Later]_shown
  <2>0. shown \in Shots /\ shown' \in Shots
    BY <1>1 DEF IInv, ViewTypes
  <2>1. CASE ViewReads
    <3>1. ViewTypes /\ Forward /\ outbox # <<>>
      BY <1>1, <2>1 DEF IInv, ViewReads
    <3>2. Head(outbox) = outbox[1] /\ 1 \in 1 .. Len(outbox)
      BY <3>1, Reading
    <3>3. shown' = IF outbox[1].kind = "frame" THEN outbox[1].of ELSE shown
      BY <2>1, <3>2 DEF ViewReads
    <3>4. Before(shown, shown')
      BY <2>0, <3>1, <3>2, <3>3, BeforeSelf DEF Forward
    <3> QED BY <2>0, <3>4 DEF Before, Shots
  <2>2. ASSUME ~ViewReads PROVE UNCHANGED shown
    BY <1>1, <2>2, ShownKept
  <2> QED BY <2>1, <2>2
<1> QED BY <1>1, Inductive, PTL DEF Spec, NeverGoesBack
=================================================================================
