--------------------------- MODULE BrowserTransfer ---------------------------
(***************************************************************************)
(* The browser's file transfer: sendBrowserFiles and receiveBrowserFiles   *)
(* of web/main.ts, over the same messages as the CLI's (FileTransfer) but  *)
(* with another storage: a folder of the File System Access API, written   *)
(* through streams that reach the disk when they are closed and lock the   *)
(* file until then, or, without a folder, blobs the browser downloads.     *)
(*                                                                         *)
(* The receiver's queue runs one task at a time, and `task' is the await   *)
(* the running one is in.  A failure is handled at once: failTransfer and  *)
(* the cleanup of receiveBrowserFiles do not wait for that task, which     *)
(* finds out at its next stop check.                                       *)
(***************************************************************************)
EXTENDS Naturals, Sequences, SequencesExt

CONSTANTS
  Plans,    \* the transfers to look at: a set of Plan
  MaxBlob   \* BROWSER_BLOB_FALLBACK_MAX_BYTES, in chunks

\* link: the connection is lost; timeout: a timer fires; source: the sender cannot go
\* on; disk: a storage operation fails; stuck: an entry of the folder cannot be removed.
FaultKind == {"link", "timeout", "source", "disk", "stuck"}

\* A transfer: where it goes, the chunks of its files, RECEIVE_QUEUE_MAX_MESSAGES, what
\* an earlier attempt left (a record of the registry and the partial it names), and what
\* may go wrong.
Plan == [mode : {"blob", "folder", "resume"}, size : Seq(Nat), limit : Nat,
         saved : {"nothing", "same", "other", "missing"}, old : Nat, faults : SUBSET FaultKind]

\* The page offers to resume only a transfer of one file (promptForBrowserAccept), and a
\* partial that holds other bytes than the file holds some.
ASSUME PlanAssumption ==
  /\ MaxBlob \in Nat
  /\ \A p \in Plans : /\ p \in Plan
                      /\ p.mode = "resume" => Len(p.size) = 1 /\ p.old <= p.size[1]
                      /\ p.saved = "other" => p.old > 0
                      /\ p.mode # "resume" => p.saved = "nothing"

VARIABLES
  plan,
  net,  \* the channels: [ctl, bulk, back, open]
  snd,  \* the sender: [at, file, seq, ready, failed]
  rcv,  \* the receiver: [queue, task, manifest, allDone, failed, completed, clean]
  st,   \* BrowserReceiveState of each file: [known, bytes, good, sha, done, named, keep]
  dir   \* storage: [part, final, record, told, saved]

vars == <<plan, net, snd, rcv, st, dir>>

File == 1 .. Len(plan.size)
Fault(f) == f \in plan.faults
Folder == plan.mode # "blob"
Fits == Folder \/ FoldSeq(LAMBDA x, y : x + y, 0, plan.size) <= MaxBlob

Msg(t, f) == [t |-> t, f |-> f, n |-> 0, same |-> TRUE]
Idle == [at |-> "idle", f |-> 0]
At(stage, f) == [at |-> stage, f |-> f]

\* An entry of the folder is absent, empty, or holds bytes of the file.
Init ==
  /\ plan \in Plans
  /\ net = [ctl |-> <<>>, bulk |-> <<>>, back |-> <<>>, open |-> TRUE]
  /\ snd = [at |-> "manifest", file |-> 1, seq |-> 0, ready |-> Msg("none", 0), failed |-> FALSE]
  /\ rcv = [queue |-> <<>>, task |-> Idle, manifest |-> FALSE, allDone |-> FALSE,
            failed |-> FALSE, completed |-> FALSE, clean |-> 0]
  /\ st = [f \in File |-> [known |-> FALSE, bytes |-> 0, good |-> TRUE, sha |-> FALSE,
                           done |-> FALSE, named |-> FALSE, keep |-> plan.mode = "resume"]]
  /\ dir = [part |-> [f \in File |-> IF plan.saved \in {"same", "other"} THEN "data" ELSE "none"],
            final |-> [f \in File |-> "none"],
            record |-> [f \in File |-> plan.saved # "nothing"],
            told |-> FALSE, saved |-> {}]

-----------------------------------------------------------------------------
(* The sender *)

Waiting == {"ready", "file-ok", "all-done-ok"}
Ended == {"done", "failed"}

\* sendControl after throwIfSenderFailed; a closed channel throws.
Sends(at, m, next) ==
  /\ snd.at = at
  /\ IF snd.failed \/ ~net.open
     THEN snd' = [snd EXCEPT !.at = "throw"] /\ UNCHANGED net
     ELSE /\ snd' = [snd EXCEPT !.at = next]
          /\ net' = [net EXCEPT !.ctl = Append(@, m)]
  /\ UNCHANGED <<plan, rcv, st, dir>>

SendManifest == Sends("manifest", Msg("manifest", 0), "begin")
SendBegin == snd.file \in File /\ Sends("begin", Msg("file-begin", snd.file), "ready")
SendAllDone == snd.file \notin File /\ Sends("begin", Msg("all-done", 0), "all-done-ok")
SendEnd ==
  snd.at = "chunks" /\ snd.seq >= plan.size[snd.file]
    /\ Sends("chunks", Msg("file-end", snd.file), "file-ok")

\* verifiedBrowserReadyState: a resumed prefix counts only when its hash is the one of
\* the selected file; otherwise the receiver starts the file again.
VerifiedReady ==
  /\ snd.at = "check"
  /\ LET n == snd.ready.n
         s == [snd EXCEPT !.ready = Msg("none", 0)]
     IN  IF snd.failed \/ n > plan.size[snd.file] \/ (n > 0 /\ ~snd.ready.same /\ ~net.open)
         THEN snd' = [s EXCEPT !.at = "throw"] /\ UNCHANGED net
         ELSE IF n = 0 \/ snd.ready.same
         THEN snd' = [s EXCEPT !.at = "chunks", !.seq = n] /\ UNCHANGED net
         ELSE /\ snd' = [s EXCEPT !.at = "ready"]
              /\ net' = [net EXCEPT !.ctl = Append(@, Msg("restart", snd.file))]
  /\ UNCHANGED <<plan, rcv, st, dir>>

SendChunk ==
  /\ snd.at = "chunks" /\ snd.seq < plan.size[snd.file]
  /\ IF snd.failed \/ ~net.open
     THEN snd' = [snd EXCEPT !.at = "throw"] /\ UNCHANGED net
     ELSE /\ snd' = [snd EXCEPT !.seq = @ + 1]
          /\ net' = [net EXCEPT !.bulk = Append(@, [Msg("chunk", snd.file) EXCEPT !.n = snd.seq])]
  /\ UNCHANGED <<plan, rcv, st, dir>>

\* failed is set and acks.fail rejects the wait there is; else the next check throws.
FailedSender == [snd EXCEPT !.failed = TRUE, !.at = IF @ \in Waiting THEN "throw" ELSE @]

\* handleSenderControl, the messages being opened one after the other: the acknowledgement
\* waited for moves the sender on, any other message fails it.
HandleSenderControl ==
  /\ net.back # <<>> /\ snd.at \notin Ended
  /\ net' = [net EXCEPT !.back = Tail(@)]
  /\ LET m == Head(net.back) IN
     snd' = CASE m.t # snd.at \/ (m.t # "all-done-ok" /\ m.f # snd.file) -> FailedSender
              [] m.t = snd.at /\ m.t = "ready" /\ m.f = snd.file ->
                   [snd EXCEPT !.at = "check", !.ready = m]
              [] m.t = snd.at /\ m.t = "file-ok" /\ m.f = snd.file ->
                   [snd EXCEPT !.at = "begin", !.file = @ + 1]
              [] m.t = snd.at /\ m.t = "all-done-ok" -> [snd EXCEPT !.at = "done"]
  /\ UNCHANGED <<plan, rcv, st, dir>>

\* failSender, by onclose and onerror of the two channels.
SenderClosed ==
  /\ ~net.open /\ snd.at \notin Ended /\ ~snd.failed
  /\ snd' = FailedSender
  /\ UNCHANGED <<plan, net, rcv, st, dir>>

\* The wait's timer; or the file changed since it was hashed, or the bulk channel does
\* not drain.
SenderThrows ==
  /\ \/ Fault("timeout") /\ snd.at \in Waiting
     \/ Fault("source") /\ snd.at \in {"check", "chunks"}
  /\ snd' = [snd EXCEPT !.at = "throw"]
  /\ UNCHANGED <<plan, net, rcv, st, dir>>

\* The catch of sendBrowserFiles.
SenderAbort ==
  /\ snd.at = "throw"
  /\ snd' = [snd EXCEPT !.at = "failed"]
  /\ net' = IF net.open THEN [net EXCEPT !.ctl = Append(@, Msg("abort", 0))] ELSE net
  /\ UNCHANGED <<plan, rcv, st, dir>>

\* pc.close() in the finally of sendFromBrowser and receiveInBrowser; or the link is lost.
PeerClose ==
  /\ net.open /\ (snd.at \in Ended \/ rcv.completed)
  /\ net' = [net EXCEPT !.open = FALSE]
  /\ UNCHANGED <<plan, snd, rcv, st, dir>>

LinkDown ==
  /\ Fault("link") /\ net.open
  /\ net' = [net EXCEPT !.open = FALSE]
  /\ UNCHANGED <<plan, snd, rcv, st, dir>>

-----------------------------------------------------------------------------
(* The receiver: failing and cleaning up *)

Stopped == rcv.failed \/ rcv.completed

\* failTransfer up to its await, of a receiver r; the queued tasks return at once.
Failed(r) == IF r.failed \/ r.completed THEN r ELSE [r EXCEPT !.failed = TRUE, !.queue = <<>>]

\* The running task throws; its catch calls failTransfer.
Throw == rcv' = Failed([rcv EXCEPT !.task = Idle])

\* The rest of failTransfer: an abort, the channels closed, `done' rejected.
FailTail ==
  /\ rcv.failed /\ rcv.clean = 0
  /\ rcv' = [rcv EXCEPT !.clean = 1]
  /\ net' = [net EXCEPT !.open = FALSE,
                        !.back = IF net.open THEN Append(@, Msg("abort", 0)) ELSE @]
  /\ UNCHANGED <<plan, snd, st, dir>>

\* What withLocalReceiveWork covers: the idle timer does not run.
LocalWork == {"create", "restart", "write", "verify", "name", "copy", "recheck", "drop",
              "takeback", "forget", "download"}

\* The idle timer; maybeResolveDone stops it before the last acknowledgement.
IdleTimeout ==
  /\ Fault("timeout") /\ ~Stopped /\ rcv.task.at \notin LocalWork \cup {"all-done-ok"}
  /\ rcv' = Failed(rcv)
  /\ UNCHANGED <<plan, net, snd, st, dir>>

ReceiverClosed ==
  /\ ~net.open /\ ~Stopped
  /\ rcv' = Failed(rcv)
  /\ UNCHANGED <<plan, net, snd, st, dir>>

\* discardBrowserPartialFile of file f: the final file, then the partial.  Removing one
\* that a stream has open fails, and so may any other (stuck): the rest is left and
\* the user is told.  The record is forgotten then, unless that fails, or a partial that
\* is not yet published could not be removed.
Discard(f) ==
  \E forgets \in {TRUE} \cup (IF Fault("disk") THEN {FALSE} ELSE {}) :
    LET named == st[f].named
        gone == [dir EXCEPT !.final[f] = "none", !.part[f] = "none", !.record[f] = @ /\ ~forgets]
        locked == rcv.task = At("copy", f) /\ named
    IN  \/ dir' = gone
        \/ (Fault("stuck") \/ locked)
             /\ dir' = [dir EXCEPT !.told = TRUE, !.record[f] = @ /\ ~(forgets /\ named)]
        \/ Fault("stuck") /\ named /\ dir' = [gone EXCEPT !.part[f] = dir.part[f], !.told = TRUE]

\* Mutant: files that were acknowledged stay.
CleanupUndoneOnly ==
  LET f == rcv.clean IN
  /\ f \in File
  /\ rcv' = [rcv EXCEPT !.clean = IF st[f].known THEN f + 1 ELSE Len(plan.size) + 1]
  /\ IF ~st[f].known \/ ~Folder \/ st[f].done THEN UNCHANGED dir
     ELSE Discard(f)
  /\ UNCHANGED <<plan, net, snd, st>>

\* The finally of receiveBrowserFiles, file by file: what was published is taken back,
\* a partial is kept for a resume (closing its stream writes it) or discarded.
Cleanup ==
  LET f == rcv.clean IN
  /\ f \in File
  /\ rcv' = [rcv EXCEPT !.clean = IF st[f].known THEN f + 1 ELSE Len(plan.size) + 1]
  /\ CASE ~st[f].known \/ ~Folder -> UNCHANGED dir
       [] st[f].known /\ Folder /\ (st[f].named \/ ~st[f].keep) -> Discard(f)
       [] st[f].known /\ Folder /\ ~st[f].named /\ st[f].keep ->
            \/ dir' = [dir EXCEPT !.part[f] = IF @ = "none" THEN @ ELSE "data"]
            \/ Fault("disk") /\ UNCHANGED dir
  /\ UNCHANGED <<plan, net, snd, st>>

-----------------------------------------------------------------------------
(* The receiver: messages *)

\* Mutant: the running task is not counted.
EnqueuedQueueOnly(m) ==
  IF Len(rcv.queue) + 1 > plan.limit THEN Failed(rcv)
  ELSE [rcv EXCEPT !.queue = Append(@, m)]

\* enqueueReceiveTask: the running task counts.
Enqueued(m) ==
  IF Len(rcv.queue) + (IF rcv.task = Idle THEN 0 ELSE 1) + 1 > plan.limit THEN Failed(rcv)
  ELSE [rcv EXCEPT !.queue = Append(@, m)]

ArriveControl ==
  /\ net.ctl # <<>> /\ ~Stopped
  /\ net' = [net EXCEPT !.ctl = Tail(@)]
  /\ rcv' = Enqueued(Head(net.ctl))
  /\ UNCHANGED <<plan, snd, st, dir>>

ArriveBulk ==
  /\ net.bulk # <<>> /\ ~Stopped
  /\ net' = [net EXCEPT !.bulk = Tail(@)]
  /\ rcv' = Enqueued(Head(net.bulk))
  /\ UNCHANGED <<plan, snd, st, dir>>

\* maybeResolveDone, for the states s of the files.
Resolve(s, all) ==
  IF all /\ \A f \in File : s[f].known => s[f].done THEN At("all-done-ok", 0) ELSE Idle

\* maybeDownload and maybeResolveDone after a chunk or a file-end, for the states s.
AfterData(s, f) ==
  IF ~s[f].done /\ s[f].sha /\ s[f].bytes >= plan.size[f]
  THEN At(IF Folder THEN "verify" ELSE "download", f)
  ELSE Resolve(s, rcv.allDone)

First == Head(rcv.queue)

\* Mutant: no chunk is taken after the file-end of its file.
AcceptableInOrder ==
  LET f == First.f IN
  CASE First.t = "manifest" -> ~rcv.manifest /\ Fits
    [] First.t = "file-begin" -> rcv.manifest /\ f \in File /\ ~st[f].known
    [] First.t = "restart" -> st[f].known /\ ~st[f].done /\ ~st[f].sha
    [] First.t = "file-end" -> st[f].known /\ ~st[f].sha
    [] First.t = "all-done" -> rcv.manifest /\ ~rcv.allDone /\ \A g \in File : st[g].known
    [] First.t = "chunk" -> st[f].known /\ ~st[f].sha /\ First.n = st[f].bytes
    [] OTHER -> FALSE

\* The message the queue starts on, and what makes it acceptable.
Acceptable ==
  LET f == First.f IN
  CASE First.t = "manifest" -> ~rcv.manifest /\ Fits
    [] First.t = "file-begin" -> rcv.manifest /\ f \in File /\ ~st[f].known
    [] First.t = "restart" -> st[f].known /\ ~st[f].done /\ ~st[f].sha
    [] First.t = "file-end" -> st[f].known /\ ~st[f].sha
    [] First.t = "all-done" -> rcv.manifest /\ ~rcv.allDone /\ \A g \in File : st[g].known
    [] First.t = "chunk" -> st[f].known /\ ~st[f].done /\ First.n = st[f].bytes
                              /\ st[f].bytes < plan.size[f]
    [] OTHER -> FALSE

Takes(t) == rcv.queue # <<>> /\ rcv.task = Idle /\ ~Stopped /\ First.t = t /\ Acceptable
Started(task) == [rcv EXCEPT !.queue = Tail(@), !.task = task]

HandleManifest ==
  /\ Takes("manifest")
  /\ rcv' = [Started(Idle) EXCEPT !.manifest = TRUE]
  /\ UNCHANGED <<plan, net, snd, st, dir>>

\* file-begin: with a folder its partial is created first.
HandleBegin ==
  /\ Takes("file-begin")
  /\ rcv' = Started(At(IF Folder THEN "create" ELSE "ready", First.f))
  /\ st' = IF Folder THEN st ELSE [st EXCEPT ![First.f].known = TRUE]
  /\ UNCHANGED <<plan, net, snd, dir>>

HandleRestart ==
  /\ Takes("restart")
  /\ rcv' = Started(At("restart", First.f))
  /\ UNCHANGED <<plan, net, snd, st, dir>>

HandleEnd ==
  /\ Takes("file-end")
  /\ st' = [st EXCEPT ![First.f].sha = TRUE]
  /\ rcv' = Started(AfterData(st', First.f))
  /\ UNCHANGED <<plan, net, snd, dir>>

\* handleBulkMessage: written through the stream, or kept in memory.
HandleChunk ==
  /\ Takes("chunk")
  /\ IF Folder
     THEN rcv' = Started(At("write", First.f)) /\ UNCHANGED st
     ELSE /\ st' = [st EXCEPT ![First.f].bytes = @ + 1]
          /\ rcv' = Started(AfterData(st', First.f))
  /\ UNCHANGED <<plan, net, snd, dir>>

HandleAllDone ==
  /\ Takes("all-done")
  /\ rcv' = [Started(Resolve(st, TRUE)) EXCEPT !.allDone = TRUE]
  /\ UNCHANGED <<plan, net, snd, st, dir>>

\* A message out of place, or the sender's abort.
HandleRefused ==
  /\ rcv.queue # <<>> /\ rcv.task = Idle /\ ~Stopped /\ ~Acceptable
  /\ rcv' = Failed(rcv)
  /\ UNCHANGED <<plan, net, snd, st, dir>>

-----------------------------------------------------------------------------
(* The receiver: what the running task awaits *)

Awaits(stage) == rcv.task.at = stage
Next1(stage) == rcv' = [rcv EXCEPT !.task.at = stage]
f0 == rcv.task.f

\* createBrowserReceiveFile: the partial a record names is opened again; otherwise one
\* is created and, to be resumed, recorded.  A state exists only if nothing failed meanwhile.
CreateDone ==
  LET resumed == dir.record[f0] /\ dir.part[f0] # "none" IN
  /\ Awaits("create")
  /\ dir' = [dir EXCEPT !.part[f0] = IF resumed THEN @ ELSE "empty",
                        !.record[f0] = plan.mode = "resume"]
  /\ IF Stopped THEN Throw /\ UNCHANGED st
     ELSE /\ st' = [st EXCEPT ![f0] = [@ EXCEPT !.known = TRUE,
                                                !.bytes = IF resumed THEN plan.old ELSE 0,
                                                !.good = resumed => plan.saved = "same"]]
          /\ Next1("ready")
  /\ UNCHANGED <<plan, net, snd>>

\* ready, with the offset and the prefix's hash.
SendReady ==
  /\ Awaits("ready")
  /\ IF Stopped \/ ~net.open THEN Throw /\ UNCHANGED net
     ELSE /\ net' = [net EXCEPT !.back = Append(@, [Msg("ready", f0) EXCEPT
                                                     !.n = st[f0].bytes, !.same = st[f0].good])]
          /\ rcv' = [rcv EXCEPT !.task = Idle]
  /\ UNCHANGED <<plan, snd, st, dir>>

\* restartBrowserReceiveState: a new stream that begins with nothing.
RestartDone ==
  /\ Awaits("restart")
  /\ st' = [st EXCEPT ![f0].bytes = 0, ![f0].good = TRUE]
  /\ IF Stopped THEN Throw ELSE Next1("ready")
  /\ UNCHANGED <<plan, net, snd, dir>>

\* The chunk is written: it counts, and may complete the file.
WriteDone ==
  /\ Awaits("write")
  /\ IF Stopped THEN Throw /\ UNCHANGED st
     ELSE /\ st' = [st EXCEPT ![f0].bytes = @ + 1]
          /\ rcv' = [rcv EXCEPT !.task = AfterData(st', f0)]
  /\ UNCHANGED <<plan, net, snd, dir>>

\* maybeDownload with a folder.  The hash of what was received is the sender's, or the
\* partial is given up; the stream is closed, the partial on disk hashed, file-ok sealed.
VerifyDone ==
  /\ Awaits("verify")
  /\ IF ~st[f0].good
     THEN /\ st' = [st EXCEPT ![f0].keep = FALSE]
          /\ dir' = [dir EXCEPT !.record[f0] = FALSE] \/ (Fault("disk") /\ UNCHANGED dir)
          /\ Throw
     ELSE /\ dir' = [dir EXCEPT !.part[f0] = IF @ = "none" THEN @ ELSE "data"]
          /\ IF Stopped \/ dir.part[f0] = "none" THEN Throw ELSE Next1("name")
          /\ UNCHANGED st
  /\ UNCHANGED <<plan, net, snd>>

\* publishBrowserPartFile: the final file is created and from now on known by name ...
NameDone ==
  /\ Awaits("name")
  /\ dir' = [dir EXCEPT !.final[f0] = "empty"]
  /\ st' = [st EXCEPT ![f0].named = TRUE]
  /\ Next1(IF Stopped THEN "takeback" ELSE "copy")
  /\ UNCHANGED <<plan, net, snd>>

\* ... the partial is copied into it, which appears when the stream is closed ...
CopyDone ==
  /\ Awaits("copy") /\ dir.final[f0] # "none"
  /\ dir' = [dir EXCEPT !.final[f0] = "data"]
  /\ Next1(IF Stopped THEN "takeback" ELSE "recheck")
  /\ UNCHANGED <<plan, net, snd, st>>

\* ... the copy is hashed ...
RecheckDone ==
  /\ Awaits("recheck")
  /\ Next1(IF Stopped THEN "takeback" ELSE "drop")
  /\ UNCHANGED <<plan, net, snd, st, dir>>

\* The sealed file-ok leaves, and the file is done.
Acknowledge ==
  IF ~net.open THEN Throw /\ UNCHANGED <<net, st>>
  ELSE /\ net' = [net EXCEPT !.back = Append(@, Msg("file-ok", f0))]
       /\ st' = [st EXCEPT ![f0].done = TRUE]
       /\ rcv' = [rcv EXCEPT !.task = Resolve(st', rcv.allDone)]

\* ... and the partial removed.  Then the record is forgotten and the file acknowledged.
DropDone ==
  /\ Awaits("drop")
  /\ dir' = [dir EXCEPT !.part[f0] = "none"]
  /\ CASE Stopped -> Next1("takeback") /\ UNCHANGED <<net, st>>
       [] ~Stopped /\ plan.mode = "resume" -> Next1("forget") /\ UNCHANGED <<net, st>>
       [] ~Stopped /\ plan.mode = "folder" -> Acknowledge
  /\ UNCHANGED <<plan, snd>>

\* forgetBrowserResumePartial: no stop check follows it.
ForgetDone ==
  /\ Awaits("forget")
  /\ dir' = [dir EXCEPT !.record[f0] = FALSE]
  /\ Acknowledge
  /\ UNCHANGED <<plan, snd>>

\* The catch of publishBrowserPartFile removes the final file.
TakenBack ==
  /\ Awaits("takeback")
  /\ \/ /\ dir' = [dir EXCEPT !.final[f0] = "none"]
        /\ st' = [st EXCEPT ![f0].named = FALSE]
     \/ Fault("stuck") /\ UNCHANGED <<dir, st>>
  /\ Throw
  /\ UNCHANGED <<plan, net, snd>>

\* maybeDownload without a folder: file-ok is sealed, the download begins, file-ok leaves.
DownloadDone ==
  /\ Awaits("download")
  /\ IF Stopped THEN Throw /\ UNCHANGED <<net, st, dir>>
     ELSE dir' = [dir EXCEPT !.saved = @ \cup {f0}] /\ Acknowledge
  /\ UNCHANGED <<plan, snd>>

\* A storage operation fails, or the cleanup took its file away.
WorkFails ==
  /\ \/ Fault("disk") /\ rcv.task.at \in LocalWork \ {"takeback", "download"}
                      /\ (Awaits("verify") => st[f0].good)
     \/ Awaits("copy") /\ dir.final[f0] = "none"
  /\ IF rcv.task.at \in {"copy", "recheck", "drop"} THEN Next1("takeback") ELSE Throw
  /\ UNCHANGED <<plan, net, snd, st, dir>>

\* Mutant: the last acknowledgement leaves without a stop check.
SendAllDoneOkUnchecked ==
  /\ Awaits("all-done-ok")
  /\ net' = [net EXCEPT !.back = Append(@, Msg("all-done-ok", 0))]
  /\ rcv' = [rcv EXCEPT !.completed = TRUE, !.task = Idle]
  /\ UNCHANGED <<plan, snd, st, dir>>

\* maybeResolveDone: all-done-ok is sealed and sent, the receive is complete.
SendAllDoneOk ==
  /\ Awaits("all-done-ok")
  /\ IF Stopped \/ ~net.open THEN Throw /\ UNCHANGED net
     ELSE /\ net' = [net EXCEPT !.back = Append(@, Msg("all-done-ok", 0))]
          /\ rcv' = [rcv EXCEPT !.completed = TRUE, !.task = Idle]
  /\ UNCHANGED <<plan, snd, st, dir>>

-----------------------------------------------------------------------------

SenderNext ==
  \/ SendManifest \/ SendBegin \/ VerifiedReady \/ SendChunk \/ SendEnd \/ SendAllDone
  \/ HandleSenderControl \/ SenderClosed \/ SenderThrows \/ SenderAbort

Handler ==
  \/ HandleManifest \/ HandleBegin \/ HandleRestart \/ HandleEnd \/ HandleChunk
  \/ HandleAllDone \/ HandleRefused

Awaited ==
  \/ CreateDone \/ SendReady \/ RestartDone \/ WriteDone \/ VerifyDone \/ NameDone \/ CopyDone
  \/ RecheckDone \/ DropDone \/ ForgetDone \/ TakenBack \/ DownloadDone \/ WorkFails
  \/ SendAllDoneOk

ReceiverNext ==
  Handler \/ Awaited \/ ArriveControl \/ ArriveBulk \/ ReceiverClosed \/ IdleTimeout
    \/ FailTail \/ Cleanup

\* Both sides have ended and no task runs any more.
Over ==
  /\ snd.at \in Ended /\ ~net.open /\ rcv.task = Idle
  /\ rcv.completed \/ rcv.clean > Len(plan.size)

Next == SenderNext \/ ReceiverNext \/ PeerClose \/ LinkDown \/ (Over /\ UNCHANGED vars)

Spec == Init /\ [][Next]_vars

\* Arrived messages are handled, timers fire, storage operations and commands end.
FairSpec == Spec /\ WF_vars(SenderNext) /\ WF_vars(ReceiverNext) /\ WF_vars(PeerClose)

-----------------------------------------------------------------------------
(* Properties *)

Message == [t : {"none", "manifest", "file-begin", "restart", "file-end", "all-done", "abort",
                 "ready", "file-ok", "all-done-ok", "chunk"}, f : Nat, n : Nat, same : BOOLEAN]

TypeOK ==
  /\ plan \in Plan
  /\ net \in [ctl : Seq(Message), bulk : Seq(Message), back : Seq(Message), open : BOOLEAN]
  /\ snd \in [at : {"manifest", "begin", "check", "chunks", "throw"} \cup Waiting \cup Ended,
              file : 1 .. Len(plan.size) + 1, seq : Nat, ready : Message, failed : BOOLEAN]
  /\ rcv \in [queue : Seq(Message),
              task : [at : LocalWork \cup {"idle", "ready", "all-done-ok"}, f : 0 .. Len(plan.size)],
              manifest : BOOLEAN, allDone : BOOLEAN, failed : BOOLEAN, completed : BOOLEAN,
              clean : 0 .. Len(plan.size) + 1]
  /\ Len(rcv.queue) + (IF rcv.task = Idle THEN 0 ELSE 1) <= plan.limit
  /\ st \in [File -> [known : BOOLEAN, bytes : Nat, good : BOOLEAN, sha : BOOLEAN,
                      done : BOOLEAN, named : BOOLEAN, keep : BOOLEAN]]
  /\ dir \in [part : [File -> {"none", "empty", "data"}], final : [File -> {"none", "empty", "data"}],
              record : [File -> BOOLEAN], told : BOOLEAN, saved : SUBSET File]

\* The sender reports success only if the receive completed, and a completed receive has
\* every file, whole and verified, where the user wanted it: no failure, timer or close
\* between two awaits, and no cleanup, takes one back afterwards.
CompletionKept ==
  /\ snd.at = "done" => rcv.completed
  /\ rcv.completed =>
       \A f \in File :
         /\ st[f].done /\ st[f].good /\ st[f].bytes = plan.size[f]
         /\ IF Folder THEN dir.final[f] = "data" /\ dir.part[f] = "none" ELSE f \in dir.saved

\* After a failed receive into a folder, whatever was running when it failed: contents
\* of a file are left there only as a partial that the registry names, to be resumed, or
\* the user was told that the cleanup is incomplete.
FolderAccounted ==
  Over /\ rcv.failed /\ ~rcv.completed /\ ~dir.told =>
    \A f \in File :
      /\ dir.final[f] # "data"
      /\ dir.part[f] = "data" => plan.mode = "resume" /\ dir.record[f]
      /\ plan.mode = "resume" /\ dir.part[f] # "none" => dir.record[f]

\* Both sides come to rest whatever fails; and when nothing does, the receive completes,
\* also from a partial of an earlier attempt that is missing or holds other bytes.
BothEnd == <>[](Over /\ (plan.faults = {} /\ Fits => rcv.completed))
=============================================================================
