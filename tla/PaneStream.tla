------------------------------ MODULE PaneStream ------------------------------
(***************************************************************************)
(* One pane and one view of it: the process's output read into the pane    *)
(* worker's mailbox (bootty-mux/src/native/server_pane.rs), the frames the *)
(* worker publishes on a watch channel, the connection that writes them    *)
(* with its subscriber's queue (server.rs, subscriber.rs), and the view    *)
(* that shows them and reconnects (terminal/native_terminal.rs).           *)
(*                                                                         *)
(* A frame is what it shows: how much of which process's output, the last  *)
(* command of the view, the policy.  A view has one command at a time; the *)
(* worker's engine does not fail; a frame that does not decode (the view   *)
(* attaches again) and the bytes written to the process are left out.      *)
(***************************************************************************)
EXTENDS Naturals, Sequences

CONSTANTS
  MaxMailbox,  \* capacity of the worker's channel
  MaxEffects,  \* frames a subscriber's queue holds
  MaxEpoch,    \* bound: processes
  MaxLinks,    \* bound: connections
  MaxEvents    \* bound: events from outside, of every kind together

ASSUME PaneAssumption ==
  /\ MaxMailbox \in Nat /\ MaxEffects \in Nat /\ MaxEpoch \in Nat \ {0}
  /\ MaxLinks \in Nat /\ MaxEvents \in Nat

VARIABLES
  reader, made,  \* of each process: its reader thread, and what it has sent
  mailbox,       \* the worker's channel
  worker, hand,  \* what the worker does, and the command it took
  screen,        \* what the worker's engine shows
  dirty,         \* output applied and not published (pending, in run)
  frame,         \* the value of the watch channel
  latest,        \* latest_client is this connection's subscriber
  desired, stopping,  \* the policy and the stop flag the worker must see
  owed,          \* messages that follow those two
  listed,        \* the workspace has the pane
  link, links,   \* the connection, and how many there were
  request,       \* what the connection's reader does
  unseen,        \* the watch channel has a value the writer has not taken
  effects, sub,  \* the subscriber's queue, and live, dead or woken
  outbox,        \* what the writer is writing
  connected, shown, told,  \* the view's Published
  ask, pend, asks,  \* its command to be written, awaited, and how many
  stuck,         \* the view's process has stopped reading
  events         \* events so far

paneVars == <<reader, made, mailbox, worker, hand, screen, dirty, frame, latest>>
serverVars == <<desired, stopping, owed, listed>>
subVars == <<effects, sub>>
viewVars == <<connected, shown, told, ask, pend, asks, stuck>>
vars == <<paneVars, serverVars, link, links, request, unseen, subVars, outbox, viewVars,
          events>>

Epochs == 1 .. MaxEpoch
Nothing == [epoch |-> 0, out |-> 0, command |-> 0, policy |-> 0]
Msg(k, n) == [kind |-> k, of |-> n]
Idle == Msg("none", 0)

Alive == worker \in {"idle", "turn", "owes"}
Room == Alive /\ Len(mailbox) < MaxMailbox
Post(m) == mailbox' = Append(mailbox, m)

----------------------------------------------------------------------------
(* read_output, on its own thread. *)

Read(e) ==
  /\ reader[e] = "reading" /\ Room
  /\ made' = [made EXCEPT ![e] = @ + 1]
  /\ Post(Msg("output", e))
  /\ UNCHANGED <<reader, worker, hand, screen, dirty, frame, latest, serverVars, link,
                 links, request, unseen, subVars, outbox, viewVars>>

\* The process ends, or its terminal was closed.
EndOfFile(e) ==
  /\ reader[e] = "reading"
  /\ reader' = [reader EXCEPT ![e] = "ended"]
  /\ UNCHANGED <<made, mailbox, worker, hand, screen, dirty, frame, latest, serverVars,
                 link, links, request, unseen, subVars, outbox, viewVars>>

SendEnd(e) ==
  /\ reader[e] = "ended" /\ Room
  /\ reader' = [reader EXCEPT ![e] = "gone"]
  /\ Post(Msg("end", e))
  /\ UNCHANGED <<made, worker, hand, screen, dirty, frame, latest, serverVars, link,
                 links, request, unseen, subVars, outbox, viewVars>>

\* blocking_send fails once the worker is gone.
GiveUp(e) ==
  /\ reader[e] \in {"reading", "ended"} /\ ~Alive
  /\ reader' = [reader EXCEPT ![e] = "gone"]
  /\ UNCHANGED <<made, mailbox, worker, hand, screen, dirty, frame, latest, serverVars,
                 link, links, request, unseen, subVars, outbox, viewVars>>

----------------------------------------------------------------------------
(* PaneWorker::run. *)

\* publish_frame: a frame like the last is not sent.
Published(s) == /\ frame' = s
                /\ unseen' = (unseen \/ frame # s)

Reconciled == [screen EXCEPT !.policy = desired]

Bug_Recv ==
  /\ worker = "idle" /\ mailbox # <<>>
  /\ hand' = Head(mailbox) /\ mailbox' = Tail(mailbox) /\ worker' = "turn"
  /\ IF Head(mailbox).kind = "policy"
     THEN screen' = Reconciled /\ Published(Reconciled)
     ELSE UNCHANGED <<screen, frame, unseen>>
  /\ UNCHANGED <<reader, made, dirty, latest, serverVars, link, links, request,
                 subVars, outbox, viewVars>>

\* A command, and reconcile_policy whatever the command is.
Recv ==
  /\ worker = "idle" /\ mailbox # <<>>
  /\ hand' = Head(mailbox) /\ mailbox' = Tail(mailbox) /\ worker' = "turn"
  /\ IF screen.policy # desired
     THEN screen' = Reconciled /\ Published(Reconciled)
     ELSE UNCHANGED <<screen, frame, unseen>>
  /\ UNCHANGED <<reader, made, dirty, latest, serverVars, link, links, request,
                 subVars, outbox, viewVars>>

\* The worker returns: its channel is gone, and with it the reply channels of
\* the commands it held.
Returned(how) ==
  /\ worker' = how /\ hand' = Idle /\ mailbox' = <<>>
  /\ request' = IF request.kind = "queued" THEN Msg("ready", request.of) ELSE request

Bug_Stops == hand.kind = "stop"
Stops == stopping \/ hand.kind = "stop"

Bug_Ends == hand.kind = "end"
Ends == hand.kind = "end" /\ hand.of = screen.epoch

TurnStops ==
  /\ worker = "turn" /\ Stops
  /\ Returned("stopped")
  /\ UNCHANGED <<reader, made, screen, dirty, frame, latest, serverVars, link, links,
                 unseen, subVars, outbox, viewVars>>

TurnEnds ==
  /\ worker = "turn" /\ ~Stops /\ Ends
  /\ Returned("exited")
  /\ Published(screen)
  /\ UNCHANGED <<reader, made, screen, dirty, latest, serverVars, link, links, subVars,
                 outbox, viewVars>>

Turn(kind, next) ==
  /\ worker = "turn" /\ ~Stops /\ ~Ends
  /\ hand.kind = kind
  /\ worker' = next /\ hand' = Idle

Bug_Push == \/ UNCHANGED subVars
            \/ /\ latest /\ sub = "live" /\ effects < MaxEffects
               /\ effects' = effects + 1 /\ UNCHANGED sub
            \/ /\ latest /\ sub = "live" /\ effects = MaxEffects
               /\ sub' = "dead" /\ UNCHANGED effects

\* Subscriber::push of an effect, if there is one: over its limit the
\* subscriber is marked dead and woken.
Push == \/ UNCHANGED subVars
        \/ /\ latest /\ sub = "live" /\ effects < MaxEffects
           /\ effects' = effects + 1 /\ UNCHANGED sub
        \/ /\ latest /\ sub = "live" /\ effects = MaxEffects
           /\ sub' = "woken" /\ UNCHANGED effects

\* Output is published later; that of an earlier process is not applied.
TurnOutput ==
  /\ Turn("output", "idle")
  /\ dirty' = TRUE
  /\ \/ /\ hand.of = screen.epoch
        /\ screen' = [screen EXCEPT !.out = @ + 1]
        /\ Push
     \/ hand.of # screen.epoch /\ UNCHANGED <<screen, subVars>>
  /\ UNCHANGED <<reader, made, mailbox, frame, latest, serverVars, link, links, request,
                 unseen, outbox, viewVars>>

TurnStaleEnd ==
  /\ Turn("end", "idle")
  /\ UNCHANGED <<reader, made, mailbox, screen, dirty, frame, latest, serverVars, link,
                 links, request, unseen, subVars, outbox, viewVars>>

Bug_Respawned == screen' = [Nothing EXCEPT !.epoch = screen.epoch, !.policy = desired]

Respawned == screen' = [Nothing EXCEPT !.epoch = screen.epoch + 1, !.policy = desired]

\* respawn: nothing changes unless the new process was launched.
TurnRespawn ==
  /\ Turn("respawn", "owes")
  /\ \/ Respawned /\ reader' = [reader EXCEPT ![screen.epoch + 1] = "reading"]
     \/ UNCHANGED <<screen, reader>>
  /\ UNCHANGED <<made, mailbox, dirty, frame, latest, serverVars, link, links, request,
                 unseen, subVars, outbox, viewVars>>

\* A command is answered before the frame it changed is published.
TurnCommand ==
  /\ Turn("command", "owes")
  /\ LET mine == request = Msg("queued", hand.of)
     IN /\ latest' = mine
        /\ request' = IF mine THEN Msg("ready", hand.of) ELSE request
  /\ screen' = [screen EXCEPT !.command = hand.of]
  /\ UNCHANGED <<reader, made, mailbox, dirty, frame, serverVars, link, links, unseen,
                 subVars, outbox, viewVars>>

TurnLatestClient ==
  /\ Turn("client", "idle")
  /\ latest' = (link = "open" /\ hand.of = links)
  /\ UNCHANGED <<reader, made, mailbox, screen, dirty, frame, serverVars, link, links,
                 request, unseen, subVars, outbox, viewVars>>

TurnPolicy ==
  /\ Turn("policy", "owes")
  /\ UNCHANGED <<reader, made, mailbox, screen, dirty, frame, latest, serverVars, link,
                 links, request, unseen, subVars, outbox, viewVars>>

PublishChange ==
  /\ worker = "owes" /\ worker' = "idle"
  /\ Published(screen)
  /\ UNCHANGED <<reader, made, mailbox, hand, screen, dirty, latest, serverVars, link,
                 links, request, subVars, outbox, viewVars>>

Bug_PublishOutput ==
  /\ worker = "idle" /\ dirty /\ mailbox # <<>>
  /\ dirty' = FALSE /\ screen' = Reconciled
  /\ Published(screen')
  /\ UNCHANGED <<reader, made, mailbox, worker, hand, latest, serverVars, link, links,
                 request, subVars, outbox, viewVars>>

\* recv timed out, or the turn ended with output due: held no longer than its
\* quiet window and cap allow.
PublishOutput ==
  /\ worker = "idle" /\ dirty
  /\ dirty' = FALSE /\ screen' = Reconciled
  /\ Published(screen')
  /\ UNCHANGED <<reader, made, mailbox, worker, hand, latest, serverVars, link, links,
                 request, subVars, outbox, viewVars>>

Worker == \/ Recv \/ TurnStops \/ TurnEnds \/ TurnOutput \/ TurnStaleEnd \/ TurnRespawn
          \/ TurnCommand \/ TurnLatestClient \/ TurnPolicy \/ PublishChange
          \/ PublishOutput

----------------------------------------------------------------------------
(* The server's calls of the pane. *)

\* configure: the policy first, then a wake that a full mailbox refuses.
Configure ==
  /\ desired' = desired + 1 /\ owed' = owed \cup {"policy"}
  /\ UNCHANGED <<paneVars, stopping, listed, link, links, request, unseen, subVars,
                 outbox, viewVars>>

\* Pane::stop, of a pane taken out of its workspace.
StopPane ==
  /\ listed /\ listed' = FALSE
  /\ stopping' = TRUE /\ owed' = owed \cup {"stop"}
  /\ UNCHANGED <<paneVars, desired, link, links, request, unseen, subVars, outbox,
                 viewVars>>

TryPost(k) ==
  /\ k \in owed /\ owed' = owed \ {k}
  /\ IF Room THEN Post(Msg(k, 0)) ELSE UNCHANGED mailbox
  /\ UNCHANGED <<reader, made, worker, hand, screen, dirty, frame, latest, desired,
                 stopping, listed, link, links, request, unseen, subVars, outbox, viewVars>>

AskRespawn ==
  /\ listed /\ Room /\ screen.epoch < MaxEpoch
  /\ \A m \in {hand} \cup {mailbox[k] : k \in DOMAIN mailbox} : m.kind # "respawn"
  /\ Post(Msg("respawn", 0))
  /\ UNCHANGED <<reader, made, worker, hand, screen, dirty, frame, latest, serverVars,
                 link, links, request, unseen, subVars, outbox, viewVars>>

\* The exit reached the workspace.
RetirePane ==
  /\ listed /\ ~Alive /\ listed' = FALSE
  /\ UNCHANGED <<paneVars, desired, stopping, owed, link, links, request, unseen,
                 subVars, outbox, viewVars>>

----------------------------------------------------------------------------
(* serve: the requests of the connection, one at a time. *)

Serving == link = "open"

Bug_Attach ==
  /\ Serving /\ request.kind = "attach"
  /\ IF listed THEN /\ request' = Msg("greet", 0) /\ unseen' = FALSE
                    /\ UNCHANGED link
     ELSE link' = "closed" /\ UNCHANGED <<request, unseen>>
  /\ UNCHANGED <<paneVars, serverVars, links, subVars, outbox, viewVars>>

\* AttachFrames; a pane that is not there ends the connection.
Attach ==
  /\ Serving /\ request.kind = "attach"
  /\ IF listed THEN /\ request' = Msg("greet", 0) /\ unseen' = TRUE
                    /\ UNCHANGED link
     ELSE link' = "closed" /\ UNCHANGED <<request, unseen>>
  /\ UNCHANGED <<paneVars, serverVars, links, subVars, outbox, viewVars>>

\* Resize, which follows: its connection becomes the latest client.
Greet ==
  /\ Serving /\ request.kind = "greet"
  /\ \/ /\ listed /\ Room
        /\ Post(Msg("client", links)) /\ request' = Idle
        /\ UNCHANGED link
     \/ /\ ~listed \/ ~Alive
        /\ link' = "closed" /\ UNCHANGED <<mailbox, request>>
  /\ UNCHANGED <<reader, made, worker, hand, screen, dirty, frame, latest, serverVars,
                 links, unseen, subVars, outbox, viewVars>>

\* terminal_command: a pane that is gone is an answer too.
TakeCommand ==
  /\ Serving /\ request.kind = "asked"
  /\ \/ /\ listed /\ Room
        /\ Post(Msg("command", request.of)) /\ request' = Msg("queued", request.of)
     \/ /\ ~listed \/ ~Alive
        /\ request' = Msg("ready", request.of) /\ UNCHANGED mailbox
  /\ UNCHANGED <<reader, made, worker, hand, screen, dirty, frame, latest, serverVars,
                 link, links, unseen, subVars, outbox, viewVars>>

----------------------------------------------------------------------------
(* connection_writer; each write waits for the view to read. *)

Writing(items) ==
  /\ Serving /\ outbox = <<>> /\ sub = "live"
  /\ outbox' = items
  /\ UNCHANGED <<paneVars, serverVars, link, links, sub, viewVars>>

FrameItem == IF frame = Nothing THEN <<>> ELSE <<[kind |-> "frame", of |-> frame]>>

\* A reply is preceded by the latest frame.
WriteReply ==
  /\ request.kind = "ready"
  /\ Writing(FrameItem \o <<Msg("reply", request.of)>>)
  /\ request' = Idle /\ unseen' = FALSE
  /\ UNCHANGED effects

WriteEffect ==
  /\ effects > 0 /\ effects' = effects - 1
  /\ Writing(<<Msg("effect", 0)>>)
  /\ UNCHANGED <<request, unseen>>

WriteFrame ==
  /\ unseen /\ unseen' = FALSE
  /\ Writing(FrameItem)
  /\ UNCHANGED <<request, effects>>

\* changed() fails when the worker is gone and its last value was taken.
WriteExited ==
  /\ request.kind # "attach" /\ ~unseen /\ ~Alive
  /\ Writing(<<Msg("exited", 0)>>)
  /\ UNCHANGED <<request, unseen, effects>>

\* A woken writer stops even in the middle of a write; a dead subscriber is
\* noticed before the next.
Overflow ==
  /\ Serving
  /\ sub = "woken" \/ (sub = "dead" /\ outbox = <<>>)
  /\ link' = "closed"
  /\ UNCHANGED <<paneVars, serverVars, links, request, unseen, subVars, outbox, viewVars>>

Connection == \/ Attach \/ Greet \/ TakeCommand \/ WriteReply \/ WriteEffect \/ WriteFrame
              \/ WriteExited \/ Overflow

\* The connection breaks.
Break ==
  /\ Serving /\ link' = "closed"
  /\ UNCHANGED <<paneVars, serverVars, links, request, unseen, subVars, outbox, viewVars>>

----------------------------------------------------------------------------
(* The view: its reader (run), its writer (write_commands). *)

ViewReads ==
  /\ Serving /\ ~stuck /\ outbox # <<>>
  /\ LET item == Head(outbox)
     IN /\ shown' = IF item.kind = "frame" THEN item.of ELSE shown
        /\ connected' = (connected \/ item.kind = "frame")
        /\ pend' = IF item = Msg("reply", pend) THEN 0 ELSE pend
        /\ told' = (item.kind = "exited")
        /\ link' = IF item.kind = "exited" THEN "closed" ELSE link
  /\ outbox' = Tail(outbox)
  /\ UNCHANGED <<paneVars, serverVars, links, request, unseen, subVars, ask, asks, stuck>>

Bug_Disconnect ==
  /\ link = "closed" /\ ~stuck
  /\ link' = "draining"
  /\ UNCHANGED <<paneVars, serverVars, links, request, unseen, subVars, outbox, viewVars>>

\* disconnect: first no more commands, then those that wait are failed.
Disconnect ==
  /\ link = "closed" /\ ~stuck
  /\ link' = "draining" /\ connected' = FALSE
  /\ UNCHANGED <<paneVars, serverVars, links, request, unseen, subVars, outbox, shown,
                 told, ask, pend, asks, stuck>>

FailPending ==
  /\ link = "draining"
  /\ link' = IF told THEN "gone" ELSE "off"
  /\ pend' = 0
  /\ UNCHANGED <<paneVars, serverVars, links, request, unseen, subVars, outbox, connected,
                 shown, told, ask, asks, stuck>>

\* A new connection has a subscriber of its own.
Reconnect ==
  /\ link = "off" /\ links < MaxLinks
  /\ link' = "open" /\ links' = links + 1
  /\ request' = Msg("attach", 0) /\ unseen' = FALSE
  /\ effects' = 0 /\ sub' = "live" /\ latest' = FALSE /\ outbox' = <<>>
  /\ UNCHANGED <<reader, made, mailbox, worker, hand, screen, dirty, frame, serverVars,
                 viewVars>>

\* The view was dropped, or another server answers.
Leave ==
  /\ link = "off" /\ link' = "gone"
  /\ UNCHANGED <<paneVars, serverVars, links, request, unseen, subVars, outbox, viewVars>>

\* The connected flag is read under the lock of the waiting commands.
Ask ==
  /\ connected /\ ~stuck /\ ask = 0 /\ pend = 0
  /\ asks' = asks + 1 /\ ask' = asks + 1 /\ pend' = asks + 1
  /\ UNCHANGED <<paneVars, serverVars, link, links, request, unseen, subVars, outbox,
                 connected, shown, told, stuck>>

\* Written to whatever connection is there by then.
WriteAsk ==
  /\ ask # 0 /\ ask' = 0
  /\ \/ Serving /\ request = Idle /\ request' = Msg("asked", ask)
     \/ ~Serving /\ UNCHANGED request
  /\ UNCHANGED <<paneVars, serverVars, link, links, unseen, subVars, outbox, connected,
                 shown, told, pend, asks, stuck>>

View == ViewReads \/ Disconnect \/ FailPending \/ WriteAsk

Stall ==
  /\ ~stuck /\ stuck' = TRUE
  /\ UNCHANGED <<paneVars, serverVars, link, links, request, unseen, subVars, outbox,
                 connected, shown, told, ask, pend, asks>>

----------------------------------------------------------------------------
\* Pane::spawn has started the worker and its reader, and the view connects.
Init ==
  /\ reader = [e \in Epochs |-> IF e = 1 THEN "reading" ELSE "none"]
  /\ made = [e \in Epochs |-> 0]
  /\ mailbox = <<>> /\ worker = "owes" /\ hand = Idle
  /\ screen = [Nothing EXCEPT !.epoch = 1] /\ dirty = FALSE
  /\ frame = Nothing /\ latest = FALSE
  /\ desired = 0 /\ stopping = FALSE /\ owed = {} /\ listed = TRUE
  /\ link = "open" /\ links = 1 /\ request = Msg("attach", 0) /\ unseen = FALSE
  /\ effects = 0 /\ sub = "live" /\ outbox = <<>>
  /\ connected = TRUE /\ shown = Nothing /\ told = FALSE
  /\ ask = 0 /\ pend = 0 /\ asks = 0 /\ stuck = FALSE /\ events = 0

\* What the process, the users, the network and the server's requests do.
Outside == \/ \E e \in Epochs : Read(e) \/ EndOfFile(e)
           \/ Configure \/ StopPane \/ AskRespawn \/ Break \/ Ask \/ Stall

Inside == \/ Worker \/ Connection \/ View \/ \E k \in {"policy", "stop"} : TryPost(k)
          \/ \E e \in Epochs : SendEnd(e) \/ GiveUp(e)
          \/ RetirePane \/ Reconnect \/ Leave

Next == \/ Outside /\ events < MaxEvents /\ events' = events + 1
        \/ Inside /\ UNCHANGED events

Spec == Init /\ [][Next]_vars

\* The worker's thread, the server's tasks and the view's threads run; nothing
\* is asked of the process, of the network or of a view that has stalled.
Fairness == /\ WF_vars(Worker /\ UNCHANGED events)
            /\ WF_vars(Connection /\ UNCHANGED events)
            /\ WF_vars(View /\ UNCHANGED events)
            /\ \A k \in {"policy", "stop"} : WF_vars(TryPost(k) /\ UNCHANGED events)

FairSpec == Spec /\ Fairness

----------------------------------------------------------------------------
Frames == [epoch : 0 .. MaxEpoch, out : 0 .. MaxEvents, command : 0 .. MaxEvents,
           policy : 0 .. MaxEvents]

\* Types; the mailbox and the subscriber's queue keep their limits.
TypeOK ==
  /\ reader \in [Epochs -> {"none", "reading", "ended", "gone"}]
  /\ made \in [Epochs -> 0 .. MaxEvents]
  /\ Len(mailbox) <= MaxMailbox
  /\ worker \in {"idle", "turn", "owes", "exited", "stopped"}
  /\ screen \in Frames /\ frame \in Frames /\ shown \in Frames
  /\ effects \in 0 .. MaxEffects /\ sub \in {"live", "dead", "woken"}
  /\ link \in {"open", "closed", "draining", "off", "gone"}
  /\ request.kind \in {"none", "attach", "greet", "asked", "queued", "ready"}
  /\ pend \in 0 .. MaxEvents /\ ask \in {0, asks}

\* A pane that exits is one whose current process has ended, with all it
\* printed on the last frame: not an earlier process's end, and nothing lost
\* between the reader, the mailbox and the frame (read_output, run).
EndsWithItsProcess ==
  worker = "exited" => /\ reader[screen.epoch] = "gone"
                       /\ screen.out = made[screen.epoch]
                       /\ frame = screen

\* A view that is told of the exit shows the last frame, whenever it attached.
LastFrameSeen == told => shown = frame

\* The end of a pane, at the worker and at the view, in well typed states.
EndShown == TypeOK /\ EndsWithItsProcess /\ LastFrameSeen

\* What a view shows never goes back: neither by a reply that brings its own
\* frame, nor by a reconnection, nor by the output of a replaced process.
NeverGoesBack ==
  [][/\ shown'.epoch >= shown.epoch /\ shown'.policy >= shown.policy
     /\ shown'.epoch = shown.epoch
          => shown'.out >= shown.out /\ shown'.command >= shown.command]_shown

\* As long as the connection holds and the view reads, it comes to show what
\* the worker's engine shows, or to hear that the pane ended.
FramesReach == Serving /\ shown # screen ~> ~Serving \/ stuck \/ shown = screen

\* A policy, and a stop, reach the worker even when their wake was refused
\* (configure: "Queue pressure cannot reject it").  A subscriber over its limit
\* loses its connection, even when its writer waits for a view that has stopped
\* reading.
SignalsReach == /\ screen.policy # desired ~> ~Alive \/ screen.policy = desired
                /\ stopping ~> ~Alive
                /\ Serving /\ sub # "live" ~> ~Serving

\* A command the view sent is answered or failed, however the connection ends
\* and whenever the pane does.
AsksAnswered == pend # 0 ~> pend = 0 \/ stuck
================================================================================
