---------------------------- MODULE FileTransfer ----------------------------
(***************************************************************************)
(* The encrypted file transfer of src/cli/transfer.ts once two peers are   *)
(* connected: sendFiles on one side, receiveFiles on the other.  They      *)
(* share two ordered data channels, `control' and `bulk', that are not     *)
(* ordered with respect to each other, and one control channel back.       *)
(*                                                                         *)
(* Both sides are single threaded but await, so that a channel closing, a  *)
(* timer or an abort comes between any two awaited steps.  The receiver's  *)
(* queue runs one task at a time: `task' is the await the running task is  *)
(* in.  receiveFiles gives up (failTransfer) and cleans up (its finally)   *)
(* while that task is still running.                                       *)
(*                                                                         *)
(* Contents are abstract: a file is a number of chunks, and what matters   *)
(* of the bytes is whether they are those of the sender.                   *)
(***************************************************************************)
EXTENDS Naturals, Sequences, FiniteSets

CONSTANTS
  N,         \* files of the manifest
  Size,      \* chunks of each file
  Old,       \* chunks of each file's partial of an earlier attempt, where there is one
  Resume,    \* recv --resume: partial files are kept and continued
  MaxQueue,  \* RECEIVE_QUEUE_MAX_MESSAGES
  Faults     \* the faults the environment may inject

File == 1 .. N
Fault == {"timeout", "link", "disk", "rot", "source"}

ASSUME SizeAssumption == N \in Nat /\ Size \in [File -> Nat]
ASSUME OldAssumption == Old \in [File -> Nat] /\ \A f \in File : Old[f] <= Size[f]
ASSUME OptionAssumption ==
  Resume \in BOOLEAN /\ MaxQueue \in Nat \ {0} /\ Faults \subseteq Fault

VARIABLES
  ctl,       \* control messages on their way to the receiver
  bulk,      \* chunks on their way to the receiver
  back,      \* control messages on their way to the sender
  closed,    \* the data channels are closed
  spc,       \* where sendFiles is
  sfile,     \* the file it is sending
  sseq,      \* the next chunk of it
  sready,    \* readyStates.get(file.id)
  sfailed,   \* failed, on the sending side
  queue,     \* receiveQueue: the tasks not started yet
  task,      \* the await the running task is in
  manifest,  \* the manifest has arrived
  known,     \* files with a ReceiveState
  bytes,     \* ReceiveState.bytes, in chunks; before that, the old partial's
  stale,     \* files whose accepted bytes are not the sender's
  sha,       \* files with an expectedSha256
  done,      \* files with ReceiveState.done
  pub,       \* files with a publishedIdentity
  allDone,   \* allDoneSeen
  rfailed,   \* failed, on the receiving side
  rdone,     \* completed, on the receiving side
  clean,     \* the file the cleanup of receiveFiles visits next; 0 before it starts
  part,      \* partial files on disk
  final,     \* published files on disk
  rotten     \* files whose bytes on disk changed after they were written

channels == <<ctl, bulk, back, closed>>
sender == <<spc, sfile, sseq, sready, sfailed>>
files == <<known, bytes, stale, sha, done, pub>>
receiver == <<queue, task, manifest, allDone, rfailed, rdone, clean>>
disk == <<part, final, rotten>>
vars == <<channels, sender, files, receiver, disk>>

\* A control message or a chunk; n is an offset or a sequence number, same whether
\* the prefix hash that comes with an offset is the sender's.
Msg(t, f) == [t |-> t, f |-> f, n |-> 0, same |-> TRUE]
Ready(f, offset, same) == [t |-> "ready", f |-> f, n |-> offset, same |-> same]
Chunk(f, seq) == [t |-> "chunk", f |-> f, n |-> seq, same |-> TRUE]

Message ==
  [t : {"none", "manifest", "file-begin", "restart", "file-end", "all-done", "abort",
        "ready", "file-ok", "all-done-ok", "chunk"},
   f : 0 .. N, n : Nat, same : BOOLEAN]

Stage == {"idle", "reserve", "restart", "ready", "write", "verify", "link", "publish",
          "recheck", "all-done-ok"}

NoReady == Msg("none", 0)
Idle == [at |-> "idle", f |-> 0]
At(stage, f) == [at |-> stage, f |-> f]

-----------------------------------------------------------------------------
(* The sender *)

Waiting == {"ready", "file-ok", "all-done-ok"}
Ended == {"done", "failed"}

\* sendControl: channel.send throws once the channel is closed.
SendControl(m, next) ==
  IF closed THEN spc' = "throw" /\ UNCHANGED ctl
            ELSE spc' = next /\ ctl' = Append(ctl, m)

\* throwIfSenderFailed, then the step's message.
SendChecked(m, next) ==
  IF sfailed THEN spc' = "throw" /\ UNCHANGED ctl ELSE SendControl(m, next)

SendManifest ==
  /\ spc = "manifest"
  /\ SendChecked(Msg("manifest", 0), "begin")
  /\ UNCHANGED <<bulk, back, closed, sfile, sseq, sready, sfailed, files, receiver, disk>>

SendBegin ==
  /\ spc = "begin" /\ sfile <= N
  /\ SendChecked(Msg("file-begin", sfile), "ready")
  /\ UNCHANGED <<bulk, back, closed, sfile, sseq, sready, sfailed, files, receiver, disk>>

\* verifiedReadyState: the receiver's prefix is trusted only when its hash is the
\* sender's, else the file is restarted from its first byte.
CheckReady ==
  /\ spc = "check"
  /\ sready' = NoReady
  /\ IF sfailed \/ sready.n > Size[sfile]
     THEN spc' = "throw" /\ UNCHANGED <<ctl, sseq>>
     ELSE IF sready.n = 0 \/ sready.same
     THEN spc' = "chunks" /\ sseq' = sready.n /\ UNCHANGED ctl
     ELSE SendControl(Msg("restart", sfile), "ready") /\ UNCHANGED sseq
  /\ UNCHANGED <<bulk, back, closed, sfile, sfailed, files, receiver, disk>>

SendChunk ==
  /\ spc = "chunks" /\ sseq < Size[sfile]
  /\ IF sfailed \/ closed
     THEN spc' = "throw" /\ UNCHANGED <<bulk, sseq>>
     ELSE bulk' = Append(bulk, Chunk(sfile, sseq)) /\ sseq' = sseq + 1 /\ UNCHANGED spc
  /\ UNCHANGED <<ctl, back, closed, sfile, sready, sfailed, files, receiver, disk>>

SendEnd ==
  /\ spc = "chunks" /\ sseq >= Size[sfile]
  /\ SendChecked(Msg("file-end", sfile), "file-ok")
  /\ UNCHANGED <<bulk, back, closed, sfile, sseq, sready, sfailed, files, receiver, disk>>

SendAllDone ==
  /\ spc = "begin" /\ sfile > N
  /\ SendChecked(Msg("all-done", 0), "all-done-ok")
  /\ UNCHANGED <<bulk, back, closed, sfile, sseq, sready, sfailed, files, receiver, disk>>

\* acks.fail: a pending wait is rejected; otherwise the next check throws.
FailSender ==
  /\ sfailed' = TRUE
  /\ spc' = IF spc \in Waiting THEN "throw" ELSE spc
  /\ UNCHANGED <<sfile, sready>>

\* acks.mark: only the acknowledgement that is waited for is accepted.
Expected(m) == m.t \in Waiting /\ m.t = spc /\ (m.t # "all-done-ok" => m.f = sfile)

\* handleSenderControl, on the next message back.
HandleSenderControl ==
  /\ back # <<>> /\ spc \notin Ended
  /\ back' = Tail(back)
  /\ LET m == Head(back)
     IN  IF ~Expected(m) THEN FailSender
         ELSE /\ spc' = CASE m.t = "ready" -> "check"
                          [] m.t = "file-ok" -> "begin"
                          [] OTHER -> "done"
              /\ sready' = IF m.t = "ready" THEN m ELSE sready
              /\ sfile' = IF m.t = "file-ok" THEN sfile + 1 ELSE sfile
              /\ UNCHANGED sfailed
  /\ UNCHANGED <<ctl, bulk, closed, sseq, files, receiver, disk>>

\* control.onclose, bulk.onclose, onerror.
SenderClosed ==
  /\ closed /\ spc \notin Ended /\ ~sfailed
  /\ FailSender
  /\ UNCHANGED <<channels, sseq, files, receiver, disk>>

\* ControlAckWaiter's timer.
SenderTimeout ==
  /\ "timeout" \in Faults /\ spc \in Waiting
  /\ spc' = "throw"
  /\ UNCHANGED <<channels, sfile, sseq, sready, sfailed, files, receiver, disk>>

\* The file changed since it was hashed, or the bulk channel does not drain.
SourceError ==
  /\ "source" \in Faults /\ spc \in {"check", "chunks"}
  /\ spc' = "throw"
  /\ UNCHANGED <<channels, sfile, sseq, sready, sfailed, files, receiver, disk>>

\* The catch of sendFiles: the receiver is told when it still can be.
SenderAbort ==
  /\ spc = "throw"
  /\ spc' = "failed"
  /\ ctl' = IF closed THEN ctl ELSE Append(ctl, Msg("abort", 0))
  /\ UNCHANGED <<bulk, back, closed, sfile, sseq, sready, sfailed, files, receiver, disk>>

\* The finally of the commands send and recv: peer.close().
PeerClose ==
  /\ ~closed /\ (spc \in Ended \/ rdone)
  /\ closed' = TRUE
  /\ UNCHANGED <<ctl, bulk, back, sender, files, receiver, disk>>

\* The connection is lost, or a user interrupts a peer.
LinkDown ==
  /\ "link" \in Faults /\ ~closed
  /\ closed' = TRUE
  /\ UNCHANGED <<ctl, bulk, back, sender, files, receiver, disk>>

-----------------------------------------------------------------------------
(* The receiver: failing *)

Stopped == rfailed \/ rdone

\* failTransfer up to its await; the tasks still queued will return at once.
FailTransfer == rfailed' = TRUE /\ queue' = <<>>

\* A task that throws: its catch calls failTransfer, which returns when stopped.
Throw ==
  /\ task' = Idle
  /\ IF Stopped THEN UNCHANGED <<rfailed, queue>> ELSE FailTransfer

\* Mutant: `done' is not rejected.
FailTailNoReject ==
  /\ rfailed /\ clean = 0
  /\ back' = IF closed THEN back ELSE Append(back, Msg("abort", 0))
  /\ closed' = TRUE
  /\ UNCHANGED <<ctl, bulk, sender, files, receiver, disk>>

\* The rest of failTransfer: abort, close both channels, reject `done'.
FailTail ==
  /\ rfailed /\ clean = 0
  /\ back' = IF closed THEN back ELSE Append(back, Msg("abort", 0))
  /\ closed' = TRUE
  /\ clean' = 1
  /\ UNCHANGED <<ctl, bulk, sender, files, queue, task, manifest, allDone, rfailed,
                 rdone, disk>>

\* Mutant: the cleanup does not stop after the last file.
CleanupFileEndless ==
  /\ clean > 0
  /\ clean' = clean + 1
  /\ UNCHANGED <<channels, sender, files, queue, task, manifest, allDone, rfailed, rdone, disk>>

\* The finally of receiveFiles, one file of the map at a time: published files are taken
\* back, partial files are discarded unless they are kept for a resume.
CleanupFile ==
  /\ clean \in File
  /\ clean' = IF clean \in known THEN clean + 1 ELSE N + 1
  /\ LET mine == {clean} \cap known
     IN  /\ final' = final \ (mine \cap pub)
         /\ pub' = pub \ mine
         /\ part' = IF Resume THEN part ELSE part \ (mine \ done)
  /\ UNCHANGED <<channels, sender, known, bytes, stale, sha, done, queue, task, manifest,
                 allDone, rfailed, rdone, rotten>>

\* The idle timer; maybeResolveDone clears it before the last acknowledgement.
IdleTimeout ==
  /\ "timeout" \in Faults /\ ~Stopped /\ task.at # "all-done-ok"
  /\ FailTransfer
  /\ UNCHANGED <<channels, sender, files, task, manifest, allDone, rdone, clean, disk>>

\* onclose and onerror of either channel.
ReceiverClosed ==
  /\ closed /\ ~Stopped
  /\ FailTransfer
  /\ UNCHANGED <<channels, sender, files, task, manifest, allDone, rdone, clean, disk>>

-----------------------------------------------------------------------------
(* The receiver: the queue *)

Queued == Len(queue) + (IF task = Idle THEN 0 ELSE 1)

\* enqueueReceiveTask.
Enqueue(m) == IF Queued + 1 > MaxQueue THEN FailTransfer
              ELSE queue' = Append(queue, m) /\ UNCHANGED rfailed

ArriveControl ==
  /\ ctl # <<>> /\ ~Stopped
  /\ ctl' = Tail(ctl)
  /\ Enqueue(Head(ctl))
  /\ UNCHANGED <<bulk, back, closed, sender, files, task, manifest, allDone, rdone, clean,
                 disk>>

ArriveBulk ==
  /\ bulk # <<>> /\ ~Stopped
  /\ bulk' = Tail(bulk)
  /\ Enqueue(Head(bulk))
  /\ UNCHANGED <<ctl, back, closed, sender, files, task, manifest, allDone, rdone, clean,
                 disk>>

\* maybeResolveDone.
Resolve(k, d, all) == IF all /\ k \subseteq d THEN At("all-done-ok", 0) ELSE Idle

\* maybeFinalize and then maybeResolveDone, after a chunk or a file-end.
AfterData(f, n, ended) ==
  IF f \notin done /\ ended /\ n >= Size[f] THEN At("verify", f)
  ELSE Resolve(known, done, allDone)


\* The conditions under which a queued message is accepted.
MayBegin(f) == manifest /\ f \in File \ known
MayRestart(f) == f \in known \ (done \cup sha)
MayEnd(f) == f \in known \ sha
MayAllDone == manifest /\ ~allDone /\ known = File

\* Mutant: a chunk that arrives after the file-end is refused.
MayAcceptBeforeEnd(f, seq) ==
  f \in known \ (done \cup sha) /\ seq = bytes[f] /\ bytes[f] < Size[f]

\* handleBulkMessage: the file is open, the chunk is the next one and it fits.
MayAccept(f, seq) ==
  f \in known \ done /\ seq = bytes[f] /\ bytes[f] < Size[f]

\* The running task takes the first message of the queue.
Take(t) ==
  /\ queue # <<>> /\ task = Idle /\ ~Stopped /\ Head(queue).t = t

HandleManifest ==
  /\ Take("manifest") /\ ~manifest
  /\ manifest' = TRUE
  /\ queue' = Tail(queue)
  /\ UNCHANGED <<channels, sender, files, task, allDone, rfailed, rdone, clean, disk>>

\* file-begin, up to its await of reserveOutputFile.
HandleBegin ==
  /\ Take("file-begin") /\ MayBegin(Head(queue).f)
  /\ task' = At("reserve", Head(queue).f)
  /\ queue' = Tail(queue)
  /\ UNCHANGED <<channels, sender, files, manifest, allDone, rfailed, rdone, clean, disk>>

\* restart, up to its await of restartReceiveState.
HandleRestart ==
  /\ Take("restart") /\ MayRestart(Head(queue).f)
  /\ task' = At("restart", Head(queue).f)
  /\ queue' = Tail(queue)
  /\ UNCHANGED <<channels, sender, files, manifest, allDone, rfailed, rdone, clean, disk>>

HandleEnd ==
  /\ Take("file-end") /\ MayEnd(Head(queue).f)
  /\ sha' = sha \cup {Head(queue).f}
  /\ task' = AfterData(Head(queue).f, bytes[Head(queue).f], TRUE)
  /\ queue' = Tail(queue)
  /\ UNCHANGED <<channels, sender, known, bytes, stale, done, pub, manifest, allDone,
                 rfailed, rdone, clean, disk>>

\* A chunk is hashed and counted, then written.
HandleChunk ==
  /\ Take("chunk") /\ MayAccept(Head(queue).f, Head(queue).n)
  /\ bytes' = [bytes EXCEPT ![Head(queue).f] = @ + 1]
  /\ task' = At("write", Head(queue).f)
  /\ queue' = Tail(queue)
  /\ UNCHANGED <<channels, sender, known, stale, sha, done, pub, manifest, allDone,
                 rfailed, rdone, clean, disk>>

HandleAllDone ==
  /\ Take("all-done") /\ MayAllDone
  /\ allDone' = TRUE
  /\ task' = Resolve(known, done, TRUE)
  /\ queue' = Tail(queue)
  /\ UNCHANGED <<channels, sender, files, manifest, rfailed, rdone, clean, disk>>

\* A message out of place, or the sender's abort.
HandleRefused ==
  /\ \/ Take("manifest") /\ manifest
     \/ Take("file-begin") /\ ~MayBegin(Head(queue).f)
     \/ Take("restart") /\ ~MayRestart(Head(queue).f)
     \/ Take("file-end") /\ ~MayEnd(Head(queue).f)
     \/ Take("chunk") /\ ~MayAccept(Head(queue).f, Head(queue).n)
     \/ Take("all-done") /\ ~MayAllDone
     \/ Take("abort")
  /\ FailTransfer
  /\ UNCHANGED <<channels, sender, files, task, manifest, allDone, rdone, clean, disk>>

-----------------------------------------------------------------------------
(* The receiver: what the running task awaits *)

\* reserveOutputFile returned: a fresh partial, or the old one when resuming.
\* Nothing checks here whether the transfer has stopped meanwhile.
ReserveDone ==
  /\ task.at = "reserve"
  /\ LET f == task.f
         kept == Resume /\ f \in part
     IN  /\ known' = known \cup {f}
         /\ part' = part \cup {f}
         /\ bytes' = [bytes EXCEPT ![f] = IF kept THEN @ ELSE 0]
         /\ stale' = IF kept THEN stale ELSE stale \ {f}
         /\ task' = At("ready", f)
  /\ UNCHANGED <<channels, sender, sha, done, pub, queue, manifest, allDone, rfailed, rdone,
                 clean, final, rotten>>

\* restartReceiveState returned: the partial is empty again.
RestartDone ==
  /\ task.at = "restart" /\ task.f \in part
  /\ bytes' = [bytes EXCEPT ![task.f] = 0]
  /\ stale' = stale \ {task.f}
  /\ rotten' = rotten \ {task.f}
  /\ task' = At("ready", task.f)
  /\ UNCHANGED <<channels, sender, known, sha, done, pub, queue, manifest, allDone, rfailed,
                 rdone, clean, part, final>>

\* The ready acknowledgement is sealed: sent unless the transfer has stopped.
SendReady ==
  /\ task.at = "ready"
  /\ IF Stopped \/ closed THEN Throw /\ UNCHANGED back
     ELSE /\ back' = Append(back, Ready(task.f, bytes[task.f], task.f \notin stale))
          /\ task' = Idle
          /\ UNCHANGED <<rfailed, queue>>
  /\ UNCHANGED <<ctl, bulk, closed, sender, files, manifest, allDone, rdone, clean, disk>>

\* Mutant: the last chunk does not finalize a file whose file-end came first.
WriteDoneNoFinalize ==
  /\ task.at = "write" /\ ~Stopped
  /\ task' = Resolve(known, done, allDone)
  /\ UNCHANGED <<channels, sender, files, queue, manifest, allDone, rfailed, rdone, clean,
                 disk>>

\* The chunk is on disk: the file may be complete now.
WriteDone ==
  /\ task.at = "write" /\ ~Stopped
  /\ task' = AfterData(task.f, bytes[task.f], task.f \in sha)
  /\ UNCHANGED <<channels, sender, files, queue, manifest, allDone, rfailed, rdone, clean,
                 disk>>

\* An awaited file operation throws: the disk fails, or the cleanup took the file away.
TaskError ==
  /\ \/ "disk" \in Faults /\ task.at \in {"reserve", "restart", "write", "verify", "link",
                                                "recheck"}
     \/ task.at = "write" /\ Stopped
     \/ task.at \in {"restart", "verify", "link"} /\ task.f \notin part
  /\ Throw
  /\ UNCHANGED <<channels, sender, files, manifest, allDone, rdone, clean, disk>>

-----------------------------------------------------------------------------
(* The receiver: maybeFinalize *)

\* The hash of the accepted bytes and the hash of the partial on disk, against the
\* sender's: on a mismatch the partial is removed.  The file-ok is sealed.
VerifyPart ==
  /\ task.at = "verify" /\ task.f \in part
  /\ IF Stopped THEN Throw /\ UNCHANGED part
     ELSE IF task.f \in stale \cup rotten
     THEN part' = part \ {task.f} /\ Throw
     ELSE task' = At("link", task.f) /\ UNCHANGED <<part, rfailed, queue>>
  /\ UNCHANGED <<channels, sender, files, manifest, allDone, rdone, clean, final, rotten>>

\* publishPartFile: the final name appears ...
PublishLink ==
  /\ task.at = "link" /\ task.f \in part
  /\ final' = final \cup {task.f}
  /\ task' = At("publish", task.f)
  /\ UNCHANGED <<channels, sender, files, queue, manifest, allDone, rfailed, rdone, clean,
                 part, rotten>>

\* Mutant: no stop check follows publishPartFile.
PublishDoneUnchecked ==
  /\ task.at = "publish"
  /\ part' = part \ {task.f}
  /\ pub' = pub \cup {task.f} /\ task' = At("recheck", task.f)
  /\ UNCHANGED <<channels, sender, known, bytes, stale, sha, done, queue, manifest, allDone,
                 rfailed, rdone, clean, final, rotten>>

\* ... the partial goes, publishedIdentity is set; a stopped transfer takes the file back.
PublishDone ==
  /\ task.at = "publish"
  /\ part' = part \ {task.f}
  /\ IF Stopped THEN final' = final \ {task.f} /\ task' = Idle /\ UNCHANGED pub
     ELSE pub' = pub \cup {task.f} /\ task' = At("recheck", task.f) /\ UNCHANGED final
  /\ UNCHANGED <<channels, sender, known, bytes, stale, sha, done, queue, manifest, allDone,
                 rfailed, rdone, clean, rotten>>

\* publishPartFile fails after the final name appeared, and removes it.
PublishError ==
  /\ "disk" \in Faults /\ task.at = "publish"
  /\ final' = final \ {task.f}
  /\ Throw
  /\ UNCHANGED <<channels, sender, files, manifest, allDone, rdone, clean, part, rotten>>

\* Mutant: the published file is not hashed again.
RecheckUnread ==
  /\ task.at = "recheck" /\ ~Stopped /\ ~closed
  /\ back' = Append(back, Msg("file-ok", task.f))
  /\ done' = done \cup {task.f}
  /\ task' = Resolve(known, done \cup {task.f}, allDone)
  /\ UNCHANGED <<ctl, bulk, closed, sender, known, bytes, stale, sha, pub, queue, manifest,
                 allDone, rfailed, rdone, clean, disk>>

\* The published file is hashed again; the sealed file-ok leaves right after the last
\* stop check.
Recheck ==
  /\ task.at = "recheck"
  /\ IF Stopped \/ task.f \in rotten
     THEN /\ final' = final \ (pub \cap {task.f})
          /\ pub' = pub \ {task.f}
          /\ Throw
          /\ UNCHANGED <<back, done>>
     ELSE IF closed
     THEN Throw /\ UNCHANGED <<back, done, pub, final>>
     ELSE /\ back' = Append(back, Msg("file-ok", task.f))
          /\ done' = done \cup {task.f}
          /\ task' = Resolve(known, done \cup {task.f}, allDone)
          /\ UNCHANGED <<pub, final, rfailed, queue>>
  /\ UNCHANGED <<ctl, bulk, closed, sender, known, bytes, stale, sha, manifest, allDone,
                 rdone, clean, part, rotten>>

\* Mutant: the last acknowledgement leaves without a stop check.
SendAllDoneOkUnchecked ==
  /\ task.at = "all-done-ok"
  /\ back' = Append(back, Msg("all-done-ok", 0))
  /\ rdone' = TRUE /\ task' = Idle
  /\ UNCHANGED <<ctl, bulk, closed, sender, files, queue, manifest, allDone, rfailed, clean,
                 disk>>

\* maybeResolveDone's last step: all-done-ok, and the transfer is complete.
SendAllDoneOk ==
  /\ task.at = "all-done-ok"
  /\ IF Stopped \/ closed THEN Throw /\ UNCHANGED <<back, rdone>>
     ELSE /\ back' = Append(back, Msg("all-done-ok", 0))
          /\ rdone' = TRUE
          /\ task' = Idle
          /\ UNCHANGED <<rfailed, queue>>
  /\ UNCHANGED <<ctl, bulk, closed, sender, files, manifest, allDone, clean, disk>>

\* Someone changes a partial file on disk.
Rot ==
  /\ "rot" \in Faults
  /\ \E f \in part \cap known : rotten' = rotten \cup {f}
  /\ UNCHANGED <<channels, sender, files, receiver, part, final>>

-----------------------------------------------------------------------------

\* A resumed receiver may find a partial of an earlier attempt, of these files or not.
Init ==
  /\ ctl = <<>> /\ bulk = <<>> /\ back = <<>> /\ closed = FALSE
  /\ spc = "manifest" /\ sfile = 1 /\ sseq = 0 /\ sready = NoReady /\ sfailed = FALSE
  /\ queue = <<>> /\ task = Idle /\ manifest = FALSE /\ allDone = FALSE
  /\ rfailed = FALSE /\ rdone = FALSE /\ clean = 0
  /\ known = {} /\ sha = {} /\ done = {} /\ pub = {}
  /\ final = {} /\ rotten = {}
  /\ part \in IF Resume THEN SUBSET File ELSE {{}}
  /\ stale \in SUBSET {f \in part : Old[f] > 0}
  /\ bytes = [f \in File |-> IF f \in part THEN Old[f] ELSE 0]

SenderNext ==
  \/ SendManifest \/ SendBegin \/ CheckReady \/ SendChunk \/ SendEnd \/ SendAllDone
  \/ HandleSenderControl \/ SenderClosed \/ SenderTimeout \/ SourceError \/ SenderAbort

Handler ==
  \/ HandleManifest \/ HandleBegin \/ HandleRestart \/ HandleEnd \/ HandleChunk
  \/ HandleAllDone \/ HandleRefused

Awaited ==
  \/ ReserveDone \/ RestartDone \/ SendReady \/ WriteDone \/ TaskError \/ VerifyPart
  \/ PublishLink \/ PublishDone \/ PublishError \/ Recheck \/ SendAllDoneOk

ReceiverNext ==
  \/ ArriveControl \/ ArriveBulk \/ ReceiverClosed \/ IdleTimeout \/ FailTail \/ CleanupFile

Environment == PeerClose \/ LinkDown \/ Rot

\* Both commands have ended and nothing is left to run.
Over == spc \in Ended /\ closed /\ (rdone \/ clean > N) /\ task = Idle

Next == SenderNext \/ Handler \/ Awaited \/ ReceiverNext \/ Environment \/ (Over /\ UNCHANGED vars)

Spec == Init /\ [][Next]_vars

\* The event loops keep running what they can run: timers fire, arrived messages are
\* handled, file operations return, commands close what they opened.
FairSpec ==
  /\ Spec
  /\ WF_vars(SenderNext) /\ WF_vars(Handler \/ Awaited \/ ReceiverNext) /\ WF_vars(PeerClose)

-----------------------------------------------------------------------------
(* Properties *)

ChannelsOK ==
  /\ ctl \in Seq(Message) /\ bulk \in Seq(Message)
  /\ back \in Seq(Message) /\ queue \in Seq(Message)

SenderOK ==
  /\ spc \in {"manifest", "begin", "check", "chunks", "throw"} \cup Waiting \cup Ended
  /\ sfile \in 1 .. N + 1 /\ sseq \in Nat /\ sready \in Message /\ sfailed \in BOOLEAN
  /\ spc \in {"ready", "check", "chunks", "file-ok"} => sfile \in File

FilesOK ==
  /\ known \subseteq File /\ stale \subseteq File /\ sha \subseteq File
  /\ done \subseteq File /\ pub \subseteq File
  /\ part \subseteq File /\ final \subseteq File /\ rotten \subseteq File
  /\ bytes \in [File -> Nat]

ReceiverOK ==
  /\ task \in [at : Stage, f : 0 .. N] /\ clean \in 0 .. N + 1 /\ closed \in BOOLEAN
  /\ manifest \in BOOLEAN /\ allDone \in BOOLEAN /\ rfailed \in BOOLEAN /\ rdone \in BOOLEAN

\* The types of the state of both sides, of the channels between them and of the disk.
TypeOK == ChannelsOK /\ SenderOK /\ FilesOK /\ ReceiverOK

\* An acknowledgement on its way to the sender, or that moved it on, is true of the
\* receiver: a file-ok of a file that is done, all-done-ok of a completed receive.
AcksTrue ==
  /\ \A i \in 1 .. Len(back) :
       /\ back[i].t = "file-ok" => back[i].f \in done
       /\ back[i].t = "all-done-ok" => rdone
  /\ \A f \in File : f < sfile => f \in done
  /\ spc = "done" => rdone

\* Files begin in the order of the manifest, whatever is queued or on its way: the files
\* with a state are the first ones, so that the cleanup may stop at the first without.
BegunInOrder ==
  /\ \A i \in 1 .. Len(ctl) : ctl[i].t = "file-begin" => ctl[i].f <= sfile
  /\ \A i \in 1 .. Len(queue) : queue[i].t = "file-begin" => queue[i].f <= sfile
  /\ \A i \in 1 .. Len(bulk) : bulk[i].t = "chunk"
  /\ task.at = "reserve" => task.f \in File \ known /\ task.f <= sfile
  /\ \A f \in known, g \in File : g < f => g \in known

\* What the running task works on: it finalizes only a complete file that was neither
\* published nor acknowledged before, and completes only a transfer whose files are done.
TaskAgrees ==
  /\ task.at = "idle" => task = Idle
  /\ task.at \notin {"idle", "reserve", "all-done-ok"} => task.f \in known
  /\ task.at = "restart" => task.f \notin done \cup sha
  /\ task.at \in {"verify", "link", "publish", "recheck"} =>
       task.f \in sha \ done /\ bytes[task.f] = Size[task.f]
  /\ task.at \in {"link", "publish", "recheck"} => task.f \notin stale
  /\ task.at \in {"verify", "link", "publish"} => task.f \notin pub
  /\ task.at = "recheck" => task.f \notin part
  /\ task.at = "all-done-ok" => allDone /\ known \subseteq done
  /\ \A f \in File : bytes[f] <= Size[f]

\* The published files are those with an identity to remove them by, plus the one being
\* published: while nothing is cleaned up they are the done ones and the one rechecked.
PublishedAgree ==
  /\ done \subseteq known /\ pub \subseteq known /\ done \cap part = {}
  /\ final = pub \cup (IF task.at = "publish" THEN {task.f} ELSE {})
  /\ clean = 0 => done \subseteq pub
  /\ clean = 0 /\ task.at = "recheck" => task.f \in pub
  /\ ~rfailed => pub \subseteq done \cup (IF task.at = "recheck" THEN {task.f} ELSE {})
  /\ allDone => known = File

\* The cleanup runs only after a failure and leaves no identity behind it; a completed
\* receive has not failed and runs nothing any more.
CleanupAgrees ==
  /\ clean > 0 => rfailed /\ \A f \in pub : f >= clean
  /\ rdone => ~rfailed /\ task = Idle

\* The bookkeeping of both sides, of the channels and of the disk agree at every await.
BookkeepingAgrees ==
  AcksTrue /\ BegunInOrder /\ TaskAgrees /\ PublishedAgree /\ CleanupAgrees

\* What receiveFiles acknowledges is what the sender hashed: every file marked done was
\* complete and its published bytes were checked, also when the partial was resumed from
\* another file's bytes or changed on disk between the two checks.
DoneIsVerified ==
  \A f \in done : f \in sha /\ bytes[f] = Size[f] /\ f \notin stale \cup rotten

\* Without faults, no interleaving of the two channels and no old partial makes the
\* receiver refuse a message, and the sender gives up only after the receiver completed
\* (its last acknowledgement may be lost when the receiver closes the connection).
NoSpuriousFailure ==
  Faults = {} => ~rfailed /\ (sfailed \/ spc \in {"throw", "failed"} => rdone)

\* Where the transfer stands for its users: a receive has failed once its cleanup is over
\* and no task of its queue still runs.
Sent == IF spc = "done" THEN "ok" ELSE IF spc = "failed" THEN "failed" ELSE "running"

Received == IF rdone THEN "ok"
            ELSE IF rfailed /\ clean > N /\ task = Idle THEN "failed" ELSE "running"

Delivery == INSTANCE FileDelivery WITH sent <- Sent, received <- Received, kept <- final

\* The transfer implements FileDelivery: a successful send means a complete receive, a
\* complete receive keeps every file, a failed one keeps none.
ImplementsDelivery == Delivery!Spec

\* Without faults every transfer is received completely.
ReceiveSucceeds == <>rdone

\* Whatever fails, neither side hangs: both commands end and the receiver's cleanup and
\* queue come to rest.
BothEnd == <>[]Over

-----------------------------------------------------------------------------
(* A claim of the documentation the code does not keep *)

\* SECURITY.md: receive work "must re-check transfer failure before mutating transfer
\* state": a failed receive without --resume leaves no partial file behind.
NoOrphanPart == rfailed /\ clean > N /\ task = Idle /\ ~Resume => part = {}

=============================================================================
