----------------------------- MODULE HostTransfers -----------------------------
(***************************************************************************)
(* File transfers (bootty-host/src/jobs/transfer.rs): jobs of HostJobs     *)
(* whose work is to copy a file, here or to or from the host of a daemon.  *)
(* One side reads the source and sends blocks and a receipt, the other     *)
(* stages them in a temporary file and publishes it under the destination. *)
(* A retry starts over beside a daemon of the last try that may still be   *)
(* at work.                                                                *)
(*                                                                         *)
(* A block is the version of the source it was read from.  An edit of the  *)
(* source changes its length or its time of modification, and what the     *)
(* transport delivers is what was sent, so that lengths and checksums say  *)
(* no more than the number of blocks.                                      *)
(***************************************************************************)
EXTENDS HostJobs

CONSTANTS
  Blocks,    \* blocks of the source
  MaxEdits,  \* bound: edits of the source
  MaxTries   \* bound: tries of a transfer

ASSUME TransfersAssumption == {Blocks, MaxTries} \subseteq Nat \ {0} /\ MaxEdits \in Nat

VARIABLES
  src,   \* version of the source
  dest,  \* the destination: its blocks, none when it does not exist
  try,   \* the current try
  leg    \* of each try: the two sides and what is between them

fileVars == <<src, dest, try, leg>>
transferVars == <<vars, fileVars>>

Foreign == <<-1>>  \* a file somebody else put at the destination
Header == <<-2>>
Receipt == <<-3>>
Reply == <<-4>>

NoLeg == [snd |-> "none", rcv |-> "none", link |-> <<>>, sent |-> 0, opened |-> 0,
          staged |-> <<>>, tmp |-> FALSE]

\* The near job is the sender, the receiver or, for a local copy, both.
NearSends == work \in {"upload", "copy"}
NearReceives == work \in {"download", "copy"}
InBody == work \in Transfers /\ At("near", "loop")

\* The transport of try t is up.
Up(t) == t = try /\ Connected

\* A side may act: a daemon for itself, the near job in its loop.
Acts(t, nearside) == nearside => t = try /\ InBody
\* progress(): the near job looks at the flag before it goes on.
Proceeds(t, nearside) == Acts(t, nearside) /\ (nearside => ~cancel["near"])

\* A side has ended; a receiver removes its temporary file.
SenderGone(l) == [l EXCEPT !.snd = "gone", !.sent = 0, !.opened = 0]
ReceiverGone(l) == [l EXCEPT !.rcv = "gone", !.staged = <<>>, !.tmp = FALSE]

----------------------------------------------------------------------------
(* The job. *)

StartTransfer(w) == Start(w) /\ UNCHANGED fileVars

\* retry_transfer: a fresh job for the same files once the last one has finished.
Retry ==
  /\ active /\ work \in Transfers /\ status["near"] \in {"exited", "failed"}
  /\ try < MaxTries
  /\ try' = try + 1
  /\ status' = [status EXCEPT !["near"] = "starting"]
  /\ step' = [step EXCEPT !["near"] = "new"]
  /\ cancel' = [cancel EXCEPT !["near"] = FALSE]
  /\ killing' = [killing EXCEPT !["near"] = FALSE]
  /\ ctrl' = [ctrl EXCEPT !["near"] = FALSE]
  /\ tree' = [tree EXCEPT !["near"] = "none"]
  /\ UNCHANGED <<out, work, made, ownerVars, daemonVars, wire, verdict, src,
                 dest, leg>>

\* Before a transport is spawned the flag is looked at, and an upload has opened
\* its source; a local copy begins at once.
CheckTransfer ==
  /\ work \in Transfers /\ At("near", "check")
  /\ \/ /\ work = "upload" /\ ~cancel["near"]
        /\ leg' = [leg EXCEPT ![try] = [@ EXCEPT !.snd = "blocks", !.opened = src]]
        /\ Goes("near", "spawn")
     \/ /\ work = "download" /\ ~cancel["near"]
        /\ leg' = [leg EXCEPT ![try].rcv = "head"] /\ Goes("near", "spawn")
     \/ /\ work = "copy"
        /\ leg' = [leg EXCEPT ![try] = [@ EXCEPT !.snd = "blocks", !.opened = src,
                                                 !.rcv = "stage"]]
        /\ Goes("near", "loop")
     \/ Goes("near", "reap") /\ UNCHANGED leg
  /\ status' = [status EXCEPT !["near"] = "transferring"]
  /\ verdict' = "failed"
  /\ UNCHANGED <<cancel, killing, ctrl, tree, out, work, made, ownerVars, daemonVars,
                 wire, src, dest, try>>

NearEnds(v) == verdict' = v /\ Goes("near", "reap")

\* What else a step of the two sides leaves alone.
Elsewhere == UNCHANGED <<status, cancel, killing, ctrl, tree, out, work, made, ownerVars,
                         daemonVars, wire, try>>

\* A cancellation, an error of a file or of the transport, or its end; the
\* temporary file goes.
NearFails ==
  /\ InBody
  /\ NearEnds("failed")
  /\ leg' = [leg EXCEPT ![try] =
               IF work = "copy" THEN SenderGone(ReceiverGone(@))
               ELSE IF work = "upload" THEN SenderGone(@) ELSE ReceiverGone(@)]
  /\ Elsewhere /\ UNCHANGED <<src, dest>>

----------------------------------------------------------------------------
(* The sending side. *)

\* serve_transfer for a download opens the source and sends its length.
SourceOpens ==
  /\ work = "download" /\ Up(try) /\ leg[try].snd = "none"
  /\ leg' = [leg EXCEPT ![try] = [@ EXCEPT !.snd = "blocks", !.opened = src, !.link = Header]]
  /\ Elsewhere /\ UNCHANGED <<step, verdict, src, dest>>

CanSend(t) ==
  /\ Proceeds(t, NearSends)
  /\ leg[t].snd = "blocks" /\ leg[t].link = <<>>
  /\ IF work = "copy" THEN leg[t].rcv = "blocks" ELSE Up(t)

SendBlock(t) ==
  /\ CanSend(t) /\ leg[t].sent < Blocks
  /\ leg' = [leg EXCEPT ![t] = [@ EXCEPT !.link = <<src>>, !.sent = leg[t].sent + 1]]
  /\ Elsewhere /\ UNCHANGED <<step, verdict, src, dest>>

Bug_SendReceipt(t) ==
  /\ CanSend(t) /\ leg[t].sent = Blocks
  /\ leg' = [leg EXCEPT ![t] = [@ EXCEPT !.link = Receipt, !.snd = "sent", !.sent = 0]]
  /\ Elsewhere /\ UNCHANGED <<step, verdict, src, dest>>

\* unchanged(): the receipt is only sent for a source that is what it was.
SendReceipt(t) ==
  /\ CanSend(t) /\ leg[t].sent = Blocks
  /\ src = leg[t].opened
  /\ leg' = [leg EXCEPT ![t] = [@ EXCEPT !.link = Receipt, !.snd = "sent", !.sent = 0]]
  /\ Elsewhere /\ UNCHANGED <<step, verdict, src, dest>>

\* The receipt of an upload came back.
TakeReply ==
  /\ InBody /\ work = "upload" /\ leg[try].snd = "sent" /\ leg[try].link = Reply
  /\ leg' = [leg EXCEPT ![try].link = <<>>]
  /\ NearEnds("exited")
  /\ Elsewhere /\ UNCHANGED <<src, dest>>

----------------------------------------------------------------------------
(* The receiving side. *)

\* serve_transfer for an upload.
UploadStarts ==
  /\ work = "upload" /\ Up(try) /\ leg[try].rcv = "none"
  /\ leg' = [leg EXCEPT ![try].rcv = "stage"]
  /\ Elsewhere /\ UNCHANGED <<step, verdict, src, dest>>

TakeHeader ==
  /\ InBody /\ leg[try].rcv = "head" /\ leg[try].link = Header
  /\ leg' = [leg EXCEPT ![try] = [@ EXCEPT !.rcv = "stage", !.link = <<>>]]
  /\ Elsewhere /\ UNCHANGED <<step, verdict, src, dest>>

\* destination(): there is no such file; a temporary one is made beside it.
Stage(t) ==
  /\ Acts(t, NearReceives) /\ leg[t].rcv = "stage"
  /\ dest = <<>>
  /\ leg' = [leg EXCEPT ![t] = [@ EXCEPT !.rcv = "blocks", !.tmp = TRUE]]
  /\ Elsewhere /\ UNCHANGED <<step, verdict, src, dest>>

TakeBlock(t) ==
  /\ Proceeds(t, NearReceives) /\ leg[t].rcv = "blocks"
  /\ Len(leg[t].staged) < Blocks /\ leg[t].link # <<>>
  /\ leg' = [leg EXCEPT ![t] = [@ EXCEPT !.staged = leg[t].staged \o leg[t].link,
                                         !.link = <<>>]]
  /\ Elsewhere /\ UNCHANGED <<step, verdict, src, dest>>

TakeReceipt(t) ==
  /\ Proceeds(t, NearReceives) /\ leg[t].rcv = "blocks"
  /\ Len(leg[t].staged) = Blocks /\ leg[t].link = Receipt
  /\ leg' = [leg EXCEPT ![t] = [@ EXCEPT !.rcv = "publish", !.link = <<>>]]
  /\ Elsewhere /\ UNCHANGED <<step, verdict, src, dest>>

Bug_Publish(t) ==
  /\ Acts(t, NearReceives) /\ leg[t].rcv = "publish"
  /\ dest' = leg[t].staged
  /\ leg' = [leg EXCEPT ![t] = [@ EXCEPT !.rcv = IF NearReceives THEN "gone" ELSE "reply",
                                         !.staged = <<>>, !.tmp = FALSE]]
  /\ IF NearReceives THEN NearEnds("exited") ELSE UNCHANGED <<step, verdict>>
  /\ Elsewhere /\ UNCHANGED src

\* persist_noclobber; the near job is done with it.
Publish(t) ==
  /\ Acts(t, NearReceives) /\ leg[t].rcv = "publish"
  /\ dest = <<>> /\ dest' = leg[t].staged
  /\ leg' = [leg EXCEPT ![t] = [@ EXCEPT !.rcv = IF NearReceives THEN "gone" ELSE "reply",
                                         !.staged = <<>>, !.tmp = FALSE]]
  /\ IF NearReceives THEN NearEnds("exited") ELSE UNCHANGED <<step, verdict>>
  /\ Elsewhere /\ UNCHANGED src

SendReply(t) ==
  /\ leg[t].rcv = "reply" /\ leg[t].link = <<>>
  /\ leg' = [leg EXCEPT ![t] = [@ EXCEPT !.rcv = "gone",
                                         !.link = IF Up(t) THEN Reply ELSE <<>>]]
  /\ Elsewhere /\ UNCHANGED <<step, verdict, src, dest>>

----------------------------------------------------------------------------
(* Daemons that fail or are killed, and the outside. *)

\* An error, a source that has changed, a destination that exists or the end of
\* its input: a receiver removes its temporary file.
DaemonFails(t) ==
  /\ \/ /\ ~NearSends /\ leg[t].snd = "blocks"
        /\ leg' = [leg EXCEPT ![t] = SenderGone(@)]
     \/ /\ ~NearReceives /\ leg[t].rcv \in {"stage", "blocks", "publish", "reply"}
        /\ leg' = [leg EXCEPT ![t] = ReceiverGone(@)]
  /\ Elsewhere /\ UNCHANGED <<step, verdict, src, dest>>

\* A receiver that is killed leaves it.
DaemonKilled(t) ==
  /\ ~NearReceives /\ leg[t].rcv \in {"stage", "blocks", "publish", "reply"}
  /\ leg' = [leg EXCEPT ![t] = [@ EXCEPT !.rcv = IF leg[t].tmp THEN "killed" ELSE "gone",
                                         !.staged = <<>>]]
  /\ Elsewhere /\ UNCHANGED <<step, verdict, src, dest>>

LoseLink(t) ==
  /\ work # "copy" /\ ~Up(t) /\ leg[t].link # <<>>
  /\ leg' = [leg EXCEPT ![t].link = <<>>]
  /\ Elsewhere /\ UNCHANGED <<step, verdict, src, dest>>

Edit ==
  /\ src < MaxEdits /\ work \in Transfers
  /\ src' = src + 1
  /\ Elsewhere /\ UNCHANGED <<step, verdict, dest, leg>>

OtherCreates ==
  /\ work \in Transfers /\ dest = <<>>
  /\ dest' = Foreign
  /\ Elsewhere /\ UNCHANGED <<step, verdict, src, leg>>

----------------------------------------------------------------------------
TransferInit == /\ Init
                /\ src = 0 /\ dest = <<>> /\ try = 1
                /\ leg = [t \in 1 .. MaxTries |-> NoLeg]

\* The near job's thread; what it must do once a file or the transport lets it.
NearMoves ==
  \/ CheckTransfer \/ TakeReply \/ TakeHeader
  \/ NearSends /\ (SendBlock(try) \/ SendReceipt(try))
  \/ NearReceives /\ (Stage(try) \/ TakeBlock(try) \/ TakeReceipt(try) \/ Publish(try))
  \/ (work = "copy" \/ ~Connected) /\ NearFails

DaemonWorks(t) ==
  \/ ~NearSends /\ (SendBlock(t) \/ SendReceipt(t))
  \/ ~NearReceives /\ \/ Stage(t) \/ TakeBlock(t) \/ TakeReceipt(t) \/ Publish(t)
                      \/ SendReply(t)
  \/ DaemonFails(t)

NearThread ==
  \/ (SpawnWorkers \/ Worker("near")) /\ UNCHANGED fileVars
  \/ NearMoves

TransferNext ==
  \/ Next /\ UNCHANGED fileVars
  \/ \E w \in Transfers : StartTransfer(w)
  \/ Retry \/ NearMoves \/ NearFails \/ SourceOpens \/ UploadStarts \/ Edit \/ OtherCreates
  \/ \E t \in 1 .. MaxTries : DaemonWorks(t) \/ DaemonKilled(t) \/ LoseLink(t)

TransferSpec == TransferInit /\ [][TransferNext]_transferVars

\* Threads run: a job's worker, which waits for a transport until it ends, a
\* cancel(), and the one that sees a daemon's input end.  The program, the network,
\* the deadline and the daemon's answers owe nothing.
TransferFairness ==
  /\ WF_transferVars(NearThread)
  /\ WF_transferVars(Worker("far") /\ UNCHANGED fileVars)
  /\ WF_transferVars(StdinEnds /\ UNCHANGED fileVars)
  /\ \A j \in Jobs : WF_transferVars(Kill(j) /\ UNCHANGED fileVars)

FairTransferSpec == TransferSpec /\ TransferFairness

----------------------------------------------------------------------------
Copy(v) == [k \in 1 .. Blocks |-> v]

\* The destination is a whole copy of one version of the source, or somebody
\* else's file, and once there stays as it is, whatever is cancelled, lost,
\* edited or tried again.  A transfer that reports success has put its copy there.
\* A temporary file is only left by a receiver at work or one that was killed.
FilesWhole ==
  /\ [](/\ dest \in {<<>>, Foreign} \cup {Copy(v) : v \in 0 .. MaxEdits}
        /\ work \in Transfers /\ status["near"] = "exited" => dest = Copy(leg[try].opened)
        /\ \A t \in 1 .. MaxTries :
             leg[t].tmp => leg[t].rcv \in {"blocks", "publish", "killed"})
  /\ [][dest # <<>> => dest' = dest]_dest
================================================================================
