------------------------- MODULE FileTransferProofs -------------------------
(***************************************************************************)
(* FileTransfer keeps its types, acknowledges only verified files and      *)
(* implements FileDelivery, for any number and size of files, any partials *)
(* of earlier attempts, any queue bound and any faults; without faults,    *)
(* and with a queue that holds a file, it never fails.                     *)
(*                                                                         *)
(* ImplementsDelivery is about three moments: a sender that succeeds, a    *)
(* receive that completes and a receive that has come to rest after a      *)
(* failure.  BookkeepingAgrees carries what each needs from the steps      *)
(* before it, and is inductive together with the types and                 *)
(* DoneIsVerified.                                                         *)
(***************************************************************************)
EXTENDS FileTransfer, SequenceTheorems, TLAPS

\* What the first message of a queue, and the rest of the queue, are.
LEMMA SeqTail ==
  ASSUME NEW s \in Seq(Message), s # <<>>
  PROVE  /\ Head(s) \in Message /\ Head(s) = s[1] /\ 1 \in 1 .. Len(s)
         /\ Tail(s) \in Seq(Message)
         /\ \A i \in 1 .. Len(Tail(s)) : i + 1 \in 1 .. Len(s) /\ Tail(s)[i] = s[i + 1]
  BY HeadTailProperties

\* A queue with one more message.
LEMMA SeqAppend ==
  ASSUME NEW s \in Seq(Message), NEW e \in Message
  PROVE  /\ Append(s, e) \in Seq(Message)
         /\ \A i \in 1 .. Len(Append(s, e)) :
              Append(s, e)[i] = e \/ (i \in 1 .. Len(s) /\ Append(s, e)[i] = s[i])
  BY AppendProperties

\* The messages the two sides send are messages.
LEMMA MsgType ==
  ASSUME NEW t \in {"none", "manifest", "file-begin", "restart", "file-end", "all-done",
                    "abort", "file-ok", "all-done-ok"}, NEW f \in 0 .. N
  PROVE  Msg(t, f) \in Message /\ Msg(t, f).t = t /\ Msg(t, f).f = f
  BY DEF Msg, Message

\* The chunks the sender sends are messages.
LEMMA DataType ==
  ASSUME NEW f \in 0 .. N, NEW n \in Nat, NEW b \in BOOLEAN
  PROVE  /\ Ready(f, n, b) \in Message /\ Ready(f, n, b).t = "ready"
         /\ Chunk(f, n) \in Message
  BY DEF Ready, Chunk, Message

\* The receiver's steps and the environment's leave the sender alone.
LEMMA SenderAlone ==
  ASSUME Handler \/ Awaited \/ ReceiverNext \/ Environment
  PROVE  UNCHANGED sender
<1>1. ASSUME Handler PROVE UNCHANGED sender
  BY <1>1 DEF Handler, HandleManifest, HandleBegin, HandleRestart, HandleEnd, HandleChunk, HandleAllDone, HandleRefused
<1>2. ASSUME Awaited PROVE UNCHANGED sender
  BY <1>2 DEF Awaited, ReserveDone, RestartDone, SendReady, WriteDone, TaskError, VerifyPart, PublishLink, PublishDone, PublishError, Recheck, SendAllDoneOk
<1>3. ASSUME ReceiverNext \/ Environment PROVE UNCHANGED sender
  BY <1>3 DEF ReceiverNext, ArriveControl, ArriveBulk, ReceiverClosed, IdleTimeout, FailTail, CleanupFile, Environment, PeerClose, LinkDown, Rot
<1>4. QED BY <1>1, <1>2, <1>3

\* The sender's steps leave the receiver, its files and its disk alone.
LEMMA ReceiverAlone ==
  ASSUME SenderNext
  PROVE  UNCHANGED <<closed, files, receiver, disk>>
  BY DEF SenderNext, SendManifest, SendBegin, CheckReady, SendChunk, SendEnd, SendAllDone, HandleSenderControl, SenderClosed, SenderTimeout, SourceError, SenderAbort, channels

-----------------------------------------------------------------------------
(* Types *)

\* Sending a control message appends it, or throws.
LEMMA SendControlType ==
  ASSUME ctl \in Seq(Message), NEW m \in Message, NEW next, SendControl(m, next)
  PROVE  /\ ctl' \in Seq(Message)
         /\ spc' \in {"throw", next}
         /\ \A i \in 1 .. Len(ctl') :
              ctl'[i] = m \/ (i \in 1 .. Len(ctl) /\ ctl'[i] = ctl[i])
  BY SeqAppend DEF SendControl

\* A checked step of the sender appends its message, or throws.
LEMMA SendCheckedType ==
  ASSUME ctl \in Seq(Message), NEW m \in Message, NEW next, SendChecked(m, next)
  PROVE  /\ ctl' \in Seq(Message)
         /\ spc' \in {"throw", next}
         /\ \A i \in 1 .. Len(ctl') :
              ctl'[i] = m \/ (i \in 1 .. Len(ctl) /\ ctl'[i] = ctl[i])
<1>1. CASE sfailed BY <1>1 DEF SendChecked
<1>2. CASE ~sfailed BY <1>2, SendControlType DEF SendChecked
<1>3. QED BY <1>1, <1>2

\* The sender's steps keep the types.
LEMMA SenderType ==
  ASSUME TypeOK, SenderNext
  PROVE  TypeOK'
<1>. USE DEF TypeOK, ChannelsOK, SenderOK
<1>0. N \in Nat BY SizeAssumption
<1>00. \A f \in File : f \in 0 .. N BY <1>0 DEF File
<1>1. ASSUME SendManifest PROVE ChannelsOK' /\ SenderOK'
  <2>1. Msg("manifest", 0) \in Message BY <1>0, MsgType
  <2>2. ctl' \in Seq(Message) /\ spc' \in {"throw", "begin"}
    BY <1>1, <2>1, SendCheckedType DEF SendManifest
  <2>3. QED BY <1>1, <2>2 DEF SendManifest, receiver
<1>2. ASSUME SendBegin PROVE ChannelsOK' /\ SenderOK'
  <2>1. sfile \in File BY <1>0, <1>2 DEF SendBegin, File
  <2>2. Msg("file-begin", sfile) \in Message BY <1>00, <2>1, MsgType
  <2>3. ctl' \in Seq(Message) /\ spc' \in {"throw", "ready"}
    BY <1>2, <2>2, SendCheckedType DEF SendBegin
  <2>4. QED BY <1>2, <2>1, <2>3 DEF SendBegin, receiver, Waiting
<1>3. ASSUME CheckReady PROVE ChannelsOK' /\ SenderOK'
  <2>1. NoReady \in Message BY <1>0, MsgType DEF NoReady
  <2>2. sready.n \in Nat BY DEF Message
  <2>3. sfile \in File BY <1>3 DEF CheckReady
  <2>4. CASE sfailed \/ sready.n > Size[sfile] BY <1>3, <2>1, <2>4 DEF CheckReady, receiver
  <2>5. CASE ~(sfailed \/ sready.n > Size[sfile]) /\ (sready.n = 0 \/ sready.same)
    BY <1>3, <2>1, <2>2, <2>3, <2>5 DEF CheckReady, receiver
  <2>6. CASE ~(sfailed \/ sready.n > Size[sfile]) /\ ~(sready.n = 0 \/ sready.same)
    <3>1. SendControl(Msg("restart", sfile), "ready") /\ UNCHANGED sseq
      BY <1>3, <2>6 DEF CheckReady
    <3>2. Msg("restart", sfile) \in Message BY <1>00, <2>3, MsgType
    <3>3. ctl' \in Seq(Message) /\ spc' \in {"throw", "ready"}
      BY <3>1, <3>2, SendControlType
    <3>4. QED BY <1>3, <2>1, <2>3, <3>1, <3>3 DEF CheckReady, receiver, Waiting
  <2>7. QED BY <2>4, <2>5, <2>6
<1>4. ASSUME SendChunk PROVE ChannelsOK' /\ SenderOK'
  <2>1. sfile \in File BY <1>4 DEF SendChunk
  <2>2. Chunk(sfile, sseq) \in Message BY <1>00, <2>1, DataType
  <2>3. Append(bulk, Chunk(sfile, sseq)) \in Seq(Message) BY <2>2, SeqAppend
  <2>4. CASE sfailed \/ closed BY <1>4, <2>4 DEF SendChunk, receiver
  <2>5. CASE ~(sfailed \/ closed)
    <3>1. bulk' = Append(bulk, Chunk(sfile, sseq)) /\ sseq' = sseq + 1 /\ UNCHANGED spc
      BY <1>4, <2>5 DEF SendChunk
    <3>2. bulk' \in Seq(Message) /\ sseq' \in Nat BY <2>3, <3>1
    <3>3. QED BY <1>4, <2>1, <3>1, <3>2 DEF SendChunk, receiver
  <2>6. QED BY <2>4, <2>5
<1>5. ASSUME SendEnd PROVE ChannelsOK' /\ SenderOK'
  <2>1. sfile \in File BY <1>5 DEF SendEnd
  <2>2. Msg("file-end", sfile) \in Message BY <1>00, <2>1, MsgType
  <2>3. ctl' \in Seq(Message) /\ spc' \in {"throw", "file-ok"}
    BY <1>5, <2>2, SendCheckedType DEF SendEnd
  <2>4. QED BY <1>5, <2>1, <2>3 DEF SendEnd, receiver, Waiting
<1>6. ASSUME SendAllDone PROVE ChannelsOK' /\ SenderOK'
  <2>1. Msg("all-done", 0) \in Message BY <1>0, MsgType
  <2>2. ctl' \in Seq(Message) /\ spc' \in {"throw", "all-done-ok"}
    BY <1>6, <2>1, SendCheckedType DEF SendAllDone
  <2>3. QED BY <1>6, <2>2 DEF SendAllDone, receiver, Waiting
<1>7. ASSUME HandleSenderControl PROVE ChannelsOK' /\ SenderOK'
  <2>1. Tail(back) \in Seq(Message) /\ Head(back) \in Message
    BY <1>7, SeqTail DEF HandleSenderControl
  <2>2. CASE ~Expected(Head(back))
    BY <1>7, <2>1, <2>2 DEF HandleSenderControl, FailSender, receiver, Waiting
  <2>3. CASE Expected(Head(back))
    <3>1. spc \in Waiting /\ Head(back).t = spc BY <1>7, <2>3 DEF HandleSenderControl, Expected
    <3>2. CASE spc = "file-ok"
      <4>1. sfile + 1 \in 1 .. N + 1 BY <1>0, <3>2 DEF File
      <4>2. QED BY <1>7, <2>1, <2>3, <3>1, <3>2, <4>1 DEF HandleSenderControl, receiver
    <3>3. CASE spc = "ready"
      BY <1>7, <2>1, <2>3, <3>1, <3>3 DEF HandleSenderControl, receiver
    <3>4. CASE spc = "all-done-ok"
      BY <1>7, <2>1, <2>3, <3>1, <3>4 DEF HandleSenderControl, receiver, Ended
    <3>5. QED BY <3>1, <3>2, <3>3, <3>4 DEF Waiting
  <2>4. QED BY <2>2, <2>3
<1>8. ASSUME SenderClosed \/ SenderTimeout \/ SourceError PROVE ChannelsOK' /\ SenderOK'
  BY <1>8 DEF SenderClosed, SenderTimeout, SourceError, FailSender, channels, receiver, Waiting
<1>9. ASSUME SenderAbort PROVE ChannelsOK' /\ SenderOK'
  <2>1. Append(ctl, Msg("abort", 0)) \in Seq(Message) BY <1>0, MsgType, SeqAppend
  <2>2. QED BY <1>9, <2>1 DEF SenderAbort, receiver, Ended
<1>10. ChannelsOK' /\ SenderOK'
  BY <1>1, <1>2, <1>3, <1>4, <1>5, <1>6, <1>7, <1>8, <1>9 DEF SenderNext
<1>11. QED BY <1>10, ReceiverAlone DEF FilesOK, ReceiverOK, files, receiver, disk
-----------------------------------------------------------------------------
(* Facts shared by the receiver's steps *)

\* The inductive invariant.
Inv == TypeOK /\ BookkeepingAgrees /\ DoneIsVerified

\* A task is in a stage, for a file or for none.
LEMMA TaskType ==
  /\ Idle \in [at : Stage, f : 0 .. N] /\ Idle.at = "idle"
  /\ \A s \in Stage, f \in 0 .. N :
       /\ At(s, f) \in [at : Stage, f : 0 .. N]
       /\ At(s, f).at = s /\ At(s, f).f = f
  BY SizeAssumption DEF Idle, At, Stage

\* Files are numbered from 1.
LEMMA FileRange == \A f \in File : f \in 0 .. N
  BY SizeAssumption DEF File

\* A task that throws is over, and fails the transfer unless it had stopped.
LEMMA ThrowFacts ==
  ASSUME TypeOK, Throw
  PROVE  /\ task' = Idle
         /\ queue' \in Seq(Message) /\ (queue' = queue \/ queue' = <<>>)
         /\ rfailed' \in BOOLEAN
         /\ rfailed => rfailed'
         /\ rdone => rfailed' = rfailed
         /\ ~rdone => rfailed'
<1>1. CASE Stopped
  BY <1>1 DEF TypeOK, ChannelsOK, ReceiverOK, Throw, Stopped
<1>2. CASE ~Stopped
  <2>1. task' = Idle /\ queue' = <<>> /\ rfailed' = TRUE BY <1>2 DEF Throw, FailTransfer
  <2>2. queue' \in Seq(Message) BY <2>1, EmptySeq
  <2>3. QED BY <1>2, <2>1, <2>2 DEF Stopped
<1>3. QED BY <1>1, <1>2

\* After a chunk or a file-end the task verifies the file, completes the transfer or ends.
LEMMA AfterDataFacts ==
  ASSUME NEW f \in File, NEW n \in Nat, NEW ended \in BOOLEAN
  PROVE  /\ AfterData(f, n, ended) \in [at : Stage, f : 0 .. N]
         /\ \/ /\ AfterData(f, n, ended).at = "verify" /\ AfterData(f, n, ended).f = f
               /\ f \notin done /\ ended /\ n >= Size[f]
            \/ /\ AfterData(f, n, ended).at = "all-done-ok"
               /\ allDone /\ known \subseteq done
            \/ AfterData(f, n, ended) = Idle
<1>1. /\ At("verify", f) \in [at : Stage, f : 0 .. N]
      /\ At("verify", f).at = "verify" /\ At("verify", f).f = f
  BY TaskType, FileRange DEF Stage
<1>2. /\ At("all-done-ok", 0) \in [at : Stage, f : 0 .. N]
      /\ At("all-done-ok", 0).at = "all-done-ok"
  BY TaskType, SizeAssumption DEF Stage
<1>3. QED BY <1>1, <1>2, TaskType DEF AfterData, Resolve

\* The byte count of one file changes, within the file's size.
LEMMA BytesUpdate ==
  ASSUME Inv, NEW f \in File, NEW n \in Nat, n <= Size[f], bytes' = [bytes EXCEPT ![f] = n]
  PROVE  /\ bytes' \in [File -> Nat] /\ \A g \in File : bytes'[g] <= Size[g]
         /\ \A g \in File : g # f => bytes'[g] = bytes[g]
<1>1. bytes \in [File -> Nat] /\ \A g \in File : bytes[g] <= Size[g]
  BY DEF Inv, TypeOK, FilesOK, BookkeepingAgrees, TaskAgrees
<1>2. QED BY <1>1

\* A task starts: what is left of the queue still begins files in order.
LEMMA TakeFacts ==
  ASSUME Inv, NEW t, Take(t), queue' = Tail(queue), UNCHANGED <<channels, sender>>
  PROVE  /\ task = Idle /\ ~rfailed /\ ~rdone
         /\ Head(queue) \in Message /\ Head(queue).t = t
         /\ ChannelsOK'
         /\ \A i \in 1 .. Len(queue') : queue'[i].t = "file-begin" => queue'[i].f <= sfile
         /\ t = "file-begin" => Head(queue).f <= sfile
<1>1. /\ Head(queue) \in Message /\ Head(queue) = queue[1] /\ 1 \in 1 .. Len(queue)
      /\ queue' \in Seq(Message)
      /\ \A i \in 1 .. Len(queue') : i + 1 \in 1 .. Len(queue) /\ queue'[i] = queue[i + 1]
  BY SeqTail DEF Inv, TypeOK, ChannelsOK, Take
<1>2. ChannelsOK' BY <1>1 DEF Inv, TypeOK, ChannelsOK, channels
<1>3. QED BY <1>1, <1>2 DEF Inv, BookkeepingAgrees, BegunInOrder, Take, Stopped

\* A true acknowledgement is sent.
LEMMA Acknowledged ==
  ASSUME Inv, NEW m \in Message, back' = Append(back, m), UNCHANGED sender,
         m.t = "file-ok" => m.f \in done',
         m.t = "all-done-ok" => rdone',
         done \subseteq done', rdone => rdone'
  PROVE  back' \in Seq(Message) /\ AcksTrue'
<1>1. /\ back' \in Seq(Message)
      /\ \A i \in 1 .. Len(back') :
           back'[i] = m \/ (i \in 1 .. Len(back) /\ back'[i] = back[i])
  BY SeqAppend DEF Inv, TypeOK, ChannelsOK
<1>2. QED BY <1>1 DEF Inv, BookkeepingAgrees, AcksTrue, sender

-----------------------------------------------------------------------------
(* The queue's tasks *)

\* The manifest arrives.
LEMMA HandleManifestInv ==
  ASSUME Inv, HandleManifest
  PROVE  Inv'
<1>. USE DEF Inv, TypeOK, BookkeepingAgrees, HandleManifest
<1>1. UNCHANGED sender BY SenderAlone DEF Handler
<1>2. ChannelsOK' /\ BegunInOrder' BY <1>1, TakeFacts DEF BegunInOrder, channels, files, sender
<1>3. SenderOK' /\ AcksTrue' BY <1>1 DEF SenderOK, AcksTrue, sender, channels, files
<1>4. FilesOK' /\ ReceiverOK' BY DEF FilesOK, ReceiverOK, files, disk, channels
<1>5. TaskAgrees' /\ PublishedAgree' /\ CleanupAgrees' /\ DoneIsVerified'
  BY DEF TaskAgrees, PublishedAgree, CleanupAgrees, DoneIsVerified, files, disk
<1>6. QED BY <1>2, <1>3, <1>4, <1>5

\* A file-begin starts to reserve the output of a file without a state.
LEMMA HandleBeginInv ==
  ASSUME Inv, HandleBegin
  PROVE  Inv'
<1>. DEFINE f == Head(queue).f
<1>. USE DEF Inv, TypeOK, BookkeepingAgrees
<1>1. UNCHANGED sender BY SenderAlone DEF Handler
<1>2. /\ Take("file-begin") /\ f \in File \ known /\ task' = At("reserve", f)
      /\ queue' = Tail(queue)
      /\ UNCHANGED <<channels, files, manifest, allDone, rfailed, rdone, clean, disk>>
  BY DEF HandleBegin, MayBegin
<1>3. task'.at = "reserve" /\ task'.f = f /\ task' \in [at : Stage, f : 0 .. N]
  BY <1>2, TaskType, FileRange DEF Stage
<1>4. ChannelsOK' /\ BegunInOrder' BY <1>1, <1>2, <1>3, TakeFacts DEF BegunInOrder, channels, files, sender
<1>5. SenderOK' /\ AcksTrue' BY <1>1, <1>2 DEF SenderOK, AcksTrue, sender, channels, files
<1>6. FilesOK' /\ ReceiverOK' BY <1>2, <1>3 DEF FilesOK, ReceiverOK, files, disk, channels
<1>7. TaskAgrees' BY <1>2, <1>3 DEF TaskAgrees, files
<1>8. PublishedAgree' /\ CleanupAgrees' /\ DoneIsVerified'
  BY <1>2, <1>3, TakeFacts, TaskType, <1>1 DEF PublishedAgree, CleanupAgrees, DoneIsVerified, files, disk
<1>9. QED BY <1>4, <1>5, <1>6, <1>7, <1>8

\* A restart starts to empty the partial of a file that has not ended.
LEMMA HandleRestartInv ==
  ASSUME Inv, HandleRestart
  PROVE  Inv'
<1>. DEFINE f == Head(queue).f
<1>. USE DEF Inv, TypeOK, BookkeepingAgrees
<1>1. UNCHANGED sender BY SenderAlone DEF Handler
<1>2. /\ Take("restart") /\ f \in known \ (done \cup sha) /\ task' = At("restart", f)
      /\ queue' = Tail(queue)
      /\ UNCHANGED <<channels, files, manifest, allDone, rfailed, rdone, clean, disk>>
  BY DEF HandleRestart, MayRestart
<1>3. task'.at = "restart" /\ task'.f = f /\ task' \in [at : Stage, f : 0 .. N]
  BY <1>2, TaskType, FileRange DEF Stage, FilesOK
<1>4. ChannelsOK' /\ BegunInOrder' BY <1>1, <1>2, <1>3, TakeFacts DEF BegunInOrder, channels, files, sender
<1>5. SenderOK' /\ AcksTrue' BY <1>1, <1>2 DEF SenderOK, AcksTrue, sender, channels, files
<1>6. FilesOK' /\ ReceiverOK' BY <1>2, <1>3 DEF FilesOK, ReceiverOK, files, disk, channels
<1>7. TaskAgrees' BY <1>2, <1>3 DEF TaskAgrees, files
<1>8. PublishedAgree' /\ CleanupAgrees' /\ DoneIsVerified'
  BY <1>2, <1>3, TakeFacts, TaskType, <1>1 DEF PublishedAgree, CleanupAgrees, DoneIsVerified, files, disk
<1>9. QED BY <1>4, <1>5, <1>6, <1>7, <1>8

\* A file-end makes the file's hash known; the file may be complete.
LEMMA HandleEndInv ==
  ASSUME Inv, HandleEnd
  PROVE  Inv'
<1>. DEFINE f == Head(queue).f
<1>. USE DEF Inv, TypeOK, BookkeepingAgrees
<1>1. UNCHANGED sender BY SenderAlone DEF Handler
<1>2. /\ Take("file-end") /\ f \in known \ sha /\ f \in File /\ sha' = sha \cup {f}
      /\ task' = AfterData(f, bytes[f], TRUE) /\ queue' = Tail(queue)
      /\ UNCHANGED <<channels, known, bytes, stale, done, pub, manifest, allDone, rfailed,
                     rdone, clean, disk>>
  BY DEF HandleEnd, MayEnd, FilesOK
<1>3. task = Idle /\ ~rfailed /\ ~rdone BY <1>1, <1>2, TakeFacts
<1>4. bytes[f] \in Nat /\ (bytes[f] >= Size[f] => bytes[f] = Size[f])
  BY <1>2, SizeAssumption DEF FilesOK, TaskAgrees
<1>5. /\ task' \in [at : Stage, f : 0 .. N]
      /\ \/ /\ task'.at = "verify" /\ task'.f = f
            /\ f \notin done /\ bytes[f] = Size[f]
         \/ task'.at = "all-done-ok" /\ allDone /\ known \subseteq done
         \/ task' = Idle /\ task'.at = "idle"
  <2>. DEFINE n == bytes[f]
             t == AfterData(f, n, TRUE)
  <2>. HIDE DEF f, n
  <2>1. /\ t \in [at : Stage, f : 0 .. N]
        /\ \/ t.at = "verify" /\ t.f = f /\ f \notin done /\ n >= Size[f]
           \/ t.at = "all-done-ok" /\ allDone /\ known \subseteq done
           \/ t = Idle
    <3>1. f \in File /\ n \in Nat BY <1>2, <1>4 DEF n
    <3>. HIDE <1>2, <1>4
    <3>2. QED BY <3>1, AfterDataFacts
  <2>2. task' = t BY <1>2 DEF n
  <2>. HIDE DEF t
  <2>3. QED BY <1>4, <2>1, <2>2, TaskType DEF n
<1>6. ChannelsOK' /\ BegunInOrder'
  BY <1>1, <1>2, <1>5, TakeFacts DEF BegunInOrder, channels, sender
<1>7. SenderOK' /\ AcksTrue' BY <1>1, <1>2 DEF SenderOK, AcksTrue, sender, channels
<1>8. FilesOK' /\ ReceiverOK' BY <1>2, <1>5 DEF FilesOK, ReceiverOK, disk, channels
<1>9. f \notin done => f \notin pub BY <1>3, TaskType DEF PublishedAgree
<1>10. TaskAgrees' BY <1>2, <1>5, <1>9 DEF TaskAgrees
<1>11. PublishedAgree' /\ CleanupAgrees'
  BY <1>2, <1>3, <1>5, TaskType DEF PublishedAgree, CleanupAgrees, disk
<1>12. DoneIsVerified' BY <1>2 DEF DoneIsVerified, disk
<1>13. QED BY <1>6, <1>7, <1>8, <1>10, <1>11, <1>12

\* The next chunk of an open file is counted.
LEMMA HandleChunkInv ==
  ASSUME Inv, HandleChunk
  PROVE  Inv'
<1>. DEFINE f == Head(queue).f
<1>. USE DEF Inv, TypeOK, BookkeepingAgrees
<1>1. UNCHANGED sender BY SenderAlone DEF Handler
<1>2. /\ Take("chunk") /\ f \in known \ done /\ f \in File /\ bytes[f] < Size[f]
      /\ bytes' = [bytes EXCEPT ![f] = @ + 1]
      /\ task' = At("write", f) /\ queue' = Tail(queue)
      /\ UNCHANGED <<channels, known, stale, sha, done, pub, manifest, allDone, rfailed,
                     rdone, clean, disk>>
  BY DEF HandleChunk, MayAccept, FilesOK
<1>3. task = Idle /\ ~rfailed /\ ~rdone BY <1>1, <1>2, TakeFacts
<1>4. task'.at = "write" /\ task'.f = f /\ task' \in [at : Stage, f : 0 .. N]
  BY <1>2, TaskType, FileRange DEF Stage
<1>5. bytes' \in [File -> Nat] /\ \A g \in File : bytes'[g] <= Size[g]
  <2>1. bytes[f] \in Nat /\ Size[f] \in Nat /\ bytes[f] < Size[f]
    BY <1>2, SizeAssumption DEF FilesOK
  <2>. DEFINE n == bytes[f] + 1
  <2>2. n \in Nat /\ n <= Size[f] BY <2>1
  <2>3. bytes' = [bytes EXCEPT ![f] = n] BY <1>2
  <2>. HIDE DEF n
  <2>4. QED BY <1>2, <2>2, <2>3, BytesUpdate
<1>6. ChannelsOK' /\ BegunInOrder'
  BY <1>1, <1>2, <1>4, TakeFacts DEF BegunInOrder, channels, sender
<1>7. SenderOK' /\ AcksTrue' BY <1>1, <1>2 DEF SenderOK, AcksTrue, sender, channels
<1>8. FilesOK' /\ ReceiverOK' BY <1>2, <1>4, <1>5 DEF FilesOK, ReceiverOK, disk, channels
<1>9. TaskAgrees' BY <1>2, <1>4, <1>5 DEF TaskAgrees
<1>10. PublishedAgree' /\ CleanupAgrees'
  BY <1>2, <1>3, <1>4, TaskType DEF PublishedAgree, CleanupAgrees, disk
<1>11. DoneIsVerified' BY <1>2 DEF DoneIsVerified, FilesOK, disk
<1>12. QED BY <1>6, <1>7, <1>8, <1>9, <1>10, <1>11

\* all-done is taken once every file has a state.
LEMMA HandleAllDoneInv ==
  ASSUME Inv, HandleAllDone
  PROVE  Inv'
<1>. USE DEF Inv, TypeOK, BookkeepingAgrees
<1>1. UNCHANGED sender BY SenderAlone DEF Handler
<1>2. /\ Take("all-done") /\ known = File /\ allDone' = TRUE
      /\ task' = Resolve(known, done, TRUE) /\ queue' = Tail(queue)
      /\ UNCHANGED <<channels, files, manifest, rfailed, rdone, clean, disk>>
  BY DEF HandleAllDone, MayAllDone
<1>3. task = Idle /\ ~rfailed /\ ~rdone BY <1>1, <1>2, TakeFacts
<1>4. /\ task' \in [at : Stage, f : 0 .. N]
      /\ \/ task'.at = "all-done-ok" /\ known \subseteq done
         \/ task' = Idle /\ task'.at = "idle"
  BY <1>2, TaskType, SizeAssumption DEF Resolve, Stage
<1>5. ChannelsOK' /\ BegunInOrder'
  BY <1>1, <1>2, <1>4, TakeFacts DEF BegunInOrder, channels, files, sender
<1>6. SenderOK' /\ AcksTrue' BY <1>1, <1>2 DEF SenderOK, AcksTrue, sender, channels, files
<1>7. FilesOK' /\ ReceiverOK' BY <1>2, <1>4 DEF FilesOK, ReceiverOK, files, disk, channels
<1>8. TaskAgrees' BY <1>2, <1>4 DEF TaskAgrees, files
<1>9. PublishedAgree' /\ CleanupAgrees' /\ DoneIsVerified'
  BY <1>2, <1>3, <1>4, TaskType DEF PublishedAgree, CleanupAgrees, DoneIsVerified, files, disk
<1>10. QED BY <1>5, <1>6, <1>7, <1>8, <1>9

\* The transfer fails at a message, a timer or a closed channel: the queue is dropped.
LEMMA FailedInv ==
  ASSUME Inv, HandleRefused \/ IdleTimeout \/ ReceiverClosed
  PROVE  Inv'
<1>. USE DEF Inv, TypeOK, BookkeepingAgrees
<1>1. /\ rfailed' = TRUE /\ queue' = <<>> /\ ~rdone /\ ~rfailed
      /\ UNCHANGED <<channels, sender, files, task, manifest, allDone, rdone, clean, disk>>
  BY DEF HandleRefused, Take, IdleTimeout, ReceiverClosed, FailTransfer, Stopped
<1>2. queue' \in Seq(Message) /\ Len(queue') = 0 BY <1>1, EmptySeq
<1>3. ChannelsOK' /\ SenderOK' BY <1>1, <1>2 DEF ChannelsOK, SenderOK, channels, sender
<1>4. FilesOK' /\ ReceiverOK' BY <1>1 DEF FilesOK, ReceiverOK, files, disk, channels
<1>5. AcksTrue' /\ BegunInOrder'
  BY <1>1, <1>2 DEF AcksTrue, BegunInOrder, channels, sender, files
<1>6. TaskAgrees' /\ DoneIsVerified' BY <1>1 DEF TaskAgrees, DoneIsVerified, files, disk
<1>7. PublishedAgree' /\ CleanupAgrees'
  BY <1>1 DEF PublishedAgree, CleanupAgrees, files, disk
<1>8. QED BY <1>3, <1>4, <1>5, <1>6, <1>7

-----------------------------------------------------------------------------
(* What the running task awaits *)

\* The output of the next file is reserved.
LEMMA ReserveDoneInv ==
  ASSUME Inv, ReserveDone
  PROVE  Inv'
<1>. DEFINE f == task.f
<1>. USE DEF Inv, TypeOK, BookkeepingAgrees
<1>1. UNCHANGED sender BY SenderAlone DEF Awaited
<1>2. /\ task.at = "reserve" /\ known' = known \cup {f} /\ part' = part \cup {f}
      /\ bytes' = [bytes EXCEPT ![f] = IF Resume /\ f \in part THEN @ ELSE 0]
      /\ stale' \in {stale, stale \ {f}} /\ task' = At("ready", f)
      /\ UNCHANGED <<channels, sha, done, pub, queue, manifest, allDone, rfailed, rdone,
                     clean, final, rotten>>
  BY DEF ReserveDone
<1>3. f \in File \ known /\ f <= sfile BY <1>2 DEF BegunInOrder
<1>4. task'.at = "ready" /\ task'.f = f /\ task' \in [at : Stage, f : 0 .. N]
  BY <1>2, <1>3, TaskType, FileRange DEF Stage
<1>5. /\ bytes' \in [File -> Nat] /\ \A g \in File : bytes'[g] <= Size[g]
      /\ \A g \in File : g # f => bytes'[g] = bytes[g]
  <2>. DEFINE n == IF Resume /\ f \in part THEN bytes[f] ELSE 0
  <2>1. n \in Nat /\ n <= Size[f] BY <1>3, SizeAssumption DEF FilesOK, TaskAgrees
  <2>2. bytes' = [bytes EXCEPT ![f] = n] BY <1>2
  <2>. HIDE DEF n
  <2>3. QED BY <1>3, <2>1, <2>2, BytesUpdate
<1>6. ChannelsOK' /\ SenderOK' BY <1>1, <1>2 DEF ChannelsOK, SenderOK, channels, sender
<1>7. FilesOK' /\ ReceiverOK'
  BY <1>2, <1>3, <1>4, <1>5 DEF FilesOK, ReceiverOK, channels
<1>8. AcksTrue' BY <1>1, <1>2 DEF AcksTrue, channels, sender
<1>9. BegunInOrder'
  <2>1. \A g \in File : g < f => g \in known
    BY <1>3, SizeAssumption DEF AcksTrue, PublishedAgree, SenderOK, File
  <2>2. QED BY <1>1, <1>2, <1>4, <2>1 DEF BegunInOrder, channels, sender
<1>10. TaskAgrees' BY <1>2, <1>4, <1>5 DEF TaskAgrees
<1>11. PublishedAgree' /\ CleanupAgrees'
  BY <1>2, <1>3, <1>4 DEF PublishedAgree, CleanupAgrees, FilesOK, Idle
<1>12. DoneIsVerified'
  BY <1>2, <1>3, <1>5 DEF DoneIsVerified, PublishedAgree, FilesOK
<1>13. QED BY <1>6, <1>7, <1>8, <1>9, <1>10, <1>11, <1>12

\* The partial of a file that has not ended is empty again.
LEMMA RestartDoneInv ==
  ASSUME Inv, RestartDone
  PROVE  Inv'
<1>. DEFINE f == task.f
<1>. USE DEF Inv, TypeOK, BookkeepingAgrees
<1>1. UNCHANGED sender BY SenderAlone DEF Awaited
<1>2. /\ task.at = "restart" /\ f \in part
      /\ bytes' = [bytes EXCEPT ![f] = 0] /\ stale' = stale \ {f}
      /\ rotten' = rotten \ {f} /\ task' = At("ready", f)
      /\ UNCHANGED <<channels, known, sha, done, pub, queue, manifest, allDone, rfailed,
                     rdone, clean, part, final>>
  BY DEF RestartDone
<1>3. f \in File /\ f \in known /\ f \notin done \cup sha BY <1>2 DEF TaskAgrees, FilesOK
<1>4. task'.at = "ready" /\ task'.f = f /\ task' \in [at : Stage, f : 0 .. N]
  BY <1>2, <1>3, TaskType, FileRange DEF Stage
<1>5. /\ bytes' \in [File -> Nat] /\ \A g \in File : bytes'[g] <= Size[g]
      /\ \A g \in File : g # f => bytes'[g] = bytes[g]
  <2>1. 0 \in Nat /\ 0 <= Size[f] BY <1>3, SizeAssumption
  <2>2. QED BY <1>2, <1>3, <2>1, BytesUpdate
<1>6. ChannelsOK' /\ SenderOK' BY <1>1, <1>2 DEF ChannelsOK, SenderOK, channels, sender
<1>7. FilesOK' /\ ReceiverOK' BY <1>2, <1>4, <1>5 DEF FilesOK, ReceiverOK, channels
<1>8. AcksTrue' /\ BegunInOrder'
  BY <1>1, <1>2, <1>4 DEF AcksTrue, BegunInOrder, channels, sender
<1>9. TaskAgrees' BY <1>2, <1>3, <1>4, <1>5 DEF TaskAgrees
<1>10. PublishedAgree' /\ CleanupAgrees'
  BY <1>2, <1>4 DEF PublishedAgree, CleanupAgrees, Idle
<1>11. DoneIsVerified' BY <1>2, <1>3, <1>5 DEF DoneIsVerified, FilesOK
<1>12. QED BY <1>6, <1>7, <1>8, <1>9, <1>10, <1>11

\* A task throws, and at most takes back the partial or the published file it was
\* working on.
LEMMA ThrowInv ==
  ASSUME Inv, Throw, task # Idle,
         UNCHANGED <<channels, sender, known, bytes, stale, sha, done, manifest, allDone,
                     rdone, clean, rotten>>,
         part' \subseteq part,
         \/ UNCHANGED <<pub, final>> /\ task.at # "publish"
         \/ /\ task.at \in {"publish", "recheck"}
            /\ pub' = pub \ {task.f} /\ final' = final \ {task.f}
  PROVE  Inv'
<1>. USE DEF Inv, TypeOK, BookkeepingAgrees
<1>1. /\ task' = Idle /\ task'.at = "idle"
      /\ queue' \in Seq(Message) /\ (queue' = queue \/ queue' = <<>>)
      /\ rfailed' \in BOOLEAN /\ rfailed'
  BY ThrowFacts, TaskType DEF CleanupAgrees
<1>2. ~rdone BY DEF CleanupAgrees
<1>3. ChannelsOK' /\ SenderOK' BY <1>1 DEF ChannelsOK, SenderOK, channels, sender
<1>4. FilesOK' /\ ReceiverOK' BY <1>1, TaskType DEF FilesOK, ReceiverOK, channels
<1>5. AcksTrue' /\ BegunInOrder'
  BY <1>1 DEF AcksTrue, BegunInOrder, channels, sender, ChannelsOK
<1>6. TaskAgrees' BY <1>1 DEF TaskAgrees
<1>7. PublishedAgree'
  BY <1>1 DEF PublishedAgree, TaskAgrees
<1>8. CleanupAgrees' /\ DoneIsVerified'
  BY <1>1, <1>2 DEF CleanupAgrees, DoneIsVerified, PublishedAgree
<1>9. QED BY <1>3, <1>4, <1>5, <1>6, <1>7, <1>8

\* An awaited file operation fails.
LEMMA TaskErrorInv ==
  ASSUME Inv, TaskError
  PROVE  Inv'
  BY ThrowInv DEF TaskError, Idle, files, disk

\* publishPartFile removes the name it had created.
LEMMA PublishErrorInv ==
  ASSUME Inv, PublishError
  PROVE  Inv'
<1>1. task.at = "publish" /\ task # Idle /\ Throw /\ final' = final \ {task.f}
  BY DEF PublishError, Idle
<1>2. pub' = pub \ {task.f}
  BY <1>1 DEF PublishError, files, Inv, BookkeepingAgrees, TaskAgrees
<1>3. QED BY <1>1, <1>2, ThrowInv DEF PublishError, files

\* The ready acknowledgement is sent, or the transfer had stopped.
LEMMA SendReadyInv ==
  ASSUME Inv, SendReady
  PROVE  Inv'
<1>. USE DEF Inv, TypeOK, BookkeepingAgrees
<1>1. CASE Stopped \/ closed
  BY <1>1, ThrowInv DEF SendReady, Idle, channels, files, disk
<1>2. CASE ~(Stopped \/ closed)
  <2>. DEFINE m == Ready(task.f, bytes[task.f], task.f \notin stale)
  <2>1. /\ task.at = "ready" /\ back' = Append(back, m) /\ task' = Idle
        /\ UNCHANGED <<ctl, bulk, closed, sender, files, manifest, allDone, rdone, clean, disk,
                       rfailed, queue>>
    BY <1>2 DEF SendReady
  <2>2. task.f \in File BY <2>1 DEF TaskAgrees, FilesOK
  <2>3. bytes[task.f] \in Nat BY <2>2 DEF FilesOK
  <2>4. m \in Message /\ m.t = "ready" BY <2>2, <2>3, FileRange, DataType
  <2>. HIDE DEF m
  <2>5. back' \in Seq(Message) /\ AcksTrue' BY <2>1, <2>4, Acknowledged DEF files
  <2>6. task'.at = "idle" /\ task' \in [at : Stage, f : 0 .. N] BY <2>1, TaskType
  <2>7. ChannelsOK' /\ SenderOK' BY <2>1, <2>5 DEF ChannelsOK, SenderOK, sender
  <2>8. FilesOK' /\ ReceiverOK' BY <2>1, <2>6 DEF FilesOK, ReceiverOK, files, disk
  <2>9. BegunInOrder' /\ TaskAgrees'
    BY <2>1, <2>6 DEF BegunInOrder, TaskAgrees, files, sender
  <2>10. PublishedAgree' /\ CleanupAgrees' /\ DoneIsVerified'
    BY <2>1, <2>6 DEF PublishedAgree, CleanupAgrees, DoneIsVerified, files, disk
  <2>11. QED BY <2>5, <2>7, <2>8, <2>9, <2>10
<1>3. QED BY <1>1, <1>2

\* A chunk is on disk.
LEMMA WriteDoneInv ==
  ASSUME Inv, WriteDone
  PROVE  Inv'
<1>. DEFINE f == task.f
            n == bytes[f]
            ended == f \in sha
            t == AfterData(f, n, ended)
<1>. USE DEF Inv, TypeOK, BookkeepingAgrees
<1>1. /\ task.at = "write" /\ ~rfailed /\ ~rdone /\ task' = t
      /\ UNCHANGED <<channels, sender, files, queue, manifest, allDone, rfailed, rdone, clean,
                     disk>>
  BY DEF WriteDone, Stopped
<1>2. f \in File /\ f \in known /\ n \in Nat /\ (n >= Size[f] => n = Size[f])
  BY <1>1, SizeAssumption DEF TaskAgrees, FilesOK
<1>3. /\ t \in [at : Stage, f : 0 .. N]
      /\ \/ t.at = "verify" /\ t.f = f /\ f \notin done /\ f \in sha /\ n = Size[f]
         \/ t.at = "all-done-ok" /\ allDone /\ known \subseteq done
         \/ t = Idle /\ t.at = "idle"
  <2>1. ended \in BOOLEAN /\ (ended => f \in sha) OBVIOUS
  <2>. HIDE DEF f, n, ended
  <2>2. /\ t \in [at : Stage, f : 0 .. N]
        /\ \/ t.at = "verify" /\ t.f = f /\ f \notin done /\ ended /\ n >= Size[f]
           \/ t.at = "all-done-ok" /\ allDone /\ known \subseteq done
           \/ t = Idle
    BY <1>2, <2>1, AfterDataFacts
  <2>. HIDE DEF t
  <2>3. QED BY <1>2, <2>1, <2>2, TaskType
<1>. HIDE DEF t
<1>4. ChannelsOK' /\ SenderOK' BY <1>1 DEF ChannelsOK, SenderOK, channels, sender
<1>5. FilesOK' /\ ReceiverOK' BY <1>1, <1>3 DEF FilesOK, ReceiverOK, files, disk, channels
<1>6. AcksTrue' /\ BegunInOrder'
  BY <1>1, <1>3 DEF AcksTrue, BegunInOrder, channels, sender, files
<1>7. f \notin done => f \notin pub BY <1>1 DEF PublishedAgree
<1>8. TaskAgrees' BY <1>1, <1>2, <1>3, <1>7 DEF TaskAgrees, files
<1>9. PublishedAgree' /\ CleanupAgrees' /\ DoneIsVerified'
  BY <1>1, <1>3 DEF PublishedAgree, CleanupAgrees, DoneIsVerified, files, disk
<1>10. QED BY <1>4, <1>5, <1>6, <1>8, <1>9

\* The accepted bytes and the partial on disk are the sender's, or the partial goes.
LEMMA VerifyPartInv ==
  ASSUME Inv, VerifyPart
  PROVE  Inv'
<1>. DEFINE f == task.f
<1>. USE DEF Inv, TypeOK, BookkeepingAgrees
<1>1. CASE Stopped \/ f \in stale \cup rotten
  BY <1>1, ThrowInv DEF VerifyPart, Idle, files
<1>2. CASE ~(Stopped \/ f \in stale \cup rotten)
  <2>1. /\ task.at = "verify" /\ f \in part /\ f \notin stale /\ ~rdone /\ task' = At("link", f)
        /\ UNCHANGED <<channels, sender, files, queue, manifest, allDone, rfailed, rdone,
                       clean, disk>>
    BY <1>2 DEF VerifyPart, Stopped, disk
  <2>2. task'.at = "link" /\ task'.f = f /\ task' \in [at : Stage, f : 0 .. N]
    BY <2>1, TaskType, FileRange DEF Stage, FilesOK
  <2>3. ChannelsOK' /\ SenderOK' BY <2>1 DEF ChannelsOK, SenderOK, channels, sender
  <2>4. FilesOK' /\ ReceiverOK' BY <2>1, <2>2 DEF FilesOK, ReceiverOK, files, disk, channels
  <2>5. AcksTrue' /\ BegunInOrder'
    BY <2>1, <2>2 DEF AcksTrue, BegunInOrder, channels, sender, files
  <2>6. TaskAgrees' BY <2>1, <2>2 DEF TaskAgrees, files
  <2>7. PublishedAgree' /\ CleanupAgrees' /\ DoneIsVerified'
    BY <2>1, <2>2 DEF PublishedAgree, CleanupAgrees, DoneIsVerified, files, disk
  <2>8. QED BY <2>3, <2>4, <2>5, <2>6, <2>7
<1>3. QED BY <1>1, <1>2

\* The final name appears.
LEMMA PublishLinkInv ==
  ASSUME Inv, PublishLink
  PROVE  Inv'
<1>. DEFINE f == task.f
<1>. USE DEF Inv, TypeOK, BookkeepingAgrees
<1>1. /\ task.at = "link" /\ f \in part /\ final' = final \cup {f} /\ task' = At("publish", f)
      /\ UNCHANGED <<channels, sender, files, queue, manifest, allDone, rfailed, rdone, clean,
                     part, rotten>>
  BY DEF PublishLink
<1>2. task'.at = "publish" /\ task'.f = f /\ task' \in [at : Stage, f : 0 .. N]
  BY <1>1, TaskType, FileRange DEF Stage, FilesOK
<1>3. ChannelsOK' /\ SenderOK' BY <1>1 DEF ChannelsOK, SenderOK, channels, sender
<1>4. FilesOK' /\ ReceiverOK' BY <1>1, <1>2 DEF FilesOK, ReceiverOK, files, channels
<1>5. AcksTrue' /\ BegunInOrder'
  BY <1>1, <1>2 DEF AcksTrue, BegunInOrder, channels, sender, files
<1>6. TaskAgrees' BY <1>1, <1>2 DEF TaskAgrees, files
<1>7. PublishedAgree' /\ CleanupAgrees' /\ DoneIsVerified'
  BY <1>1, <1>2 DEF PublishedAgree, CleanupAgrees, DoneIsVerified, files, Idle
<1>8. QED BY <1>3, <1>4, <1>5, <1>6, <1>7

\* The file gets its identity, or is taken back when the transfer had stopped.
LEMMA PublishDoneInv ==
  ASSUME Inv, PublishDone
  PROVE  Inv'
<1>. DEFINE f == task.f
<1>. USE DEF Inv, TypeOK, BookkeepingAgrees
<1>1. /\ task.at = "publish" /\ f \in known /\ f \in File /\ f \notin pub /\ part' = part \ {f}
      /\ UNCHANGED <<channels, sender, known, bytes, stale, sha, done, queue, manifest,
                     allDone, rfailed, rdone, clean, rotten>>
  BY DEF PublishDone, TaskAgrees, FilesOK
<1>2. \/ /\ ~rfailed /\ clean = 0 /\ pub' = pub \cup {f} /\ final' = final
         /\ task' = At("recheck", f)
      \/ rfailed /\ final' = final \ {f} /\ task' = Idle /\ pub' = pub
  BY <1>1 DEF PublishDone, Stopped, CleanupAgrees, ReceiverOK, Idle
<1>3. /\ task' \in [at : Stage, f : 0 .. N]
      /\ task' # Idle => task'.at = "recheck" /\ task'.f = f
      /\ task' = Idle => task'.at = "idle"
  BY <1>1, <1>2, TaskType, FileRange DEF Stage
<1>4. task'.at = "recheck" \/ task' = Idle BY <1>3
<1>5. ChannelsOK' /\ SenderOK' BY <1>1 DEF ChannelsOK, SenderOK, channels, sender
<1>6. FilesOK' /\ ReceiverOK' BY <1>1, <1>2, <1>3 DEF FilesOK, ReceiverOK, channels
<1>7. AcksTrue' /\ BegunInOrder'
  BY <1>1, <1>3 DEF AcksTrue, BegunInOrder, channels, sender
<1>8. TaskAgrees' BY <1>1, <1>2, <1>3 DEF TaskAgrees
<1>9. PublishedAgree'
  <2>1. CASE ~rfailed
    <3>1. task'.at = "recheck" /\ task'.f = f /\ pub' = pub \cup {f} /\ final' = final
      BY <1>1, <1>2, <2>1, TaskType, FileRange DEF Stage
    <3>2. QED BY <1>1, <2>1, <3>1 DEF PublishedAgree
  <2>2. CASE rfailed
    <3>1. task'.at = "idle" /\ pub' = pub /\ final' = final \ {f}
      BY <1>2, <2>2, TaskType
    <3>2. QED BY <1>1, <2>2, <3>1 DEF PublishedAgree
  <2>3. QED BY <2>1, <2>2
<1>10. CleanupAgrees' BY <1>1, <1>2 DEF CleanupAgrees, Idle
<1>11. DoneIsVerified' BY <1>1 DEF DoneIsVerified
<1>12. QED BY <1>5, <1>6, <1>7, <1>8, <1>9, <1>10, <1>11

\* The published file is acknowledged, or taken back.
LEMMA RecheckInv ==
  ASSUME Inv, Recheck
  PROVE  Inv'
<1>. DEFINE f == task.f
<1>. USE DEF Inv, TypeOK, BookkeepingAgrees
<1>0. /\ task.at = "recheck" /\ task # Idle /\ f \in known /\ f \in File
      /\ f \in sha \ done /\ bytes[f] = Size[f] /\ f \notin stale /\ f \notin part
      /\ final = pub
  BY DEF Recheck, Idle, TaskAgrees, FilesOK, PublishedAgree
<1>1. CASE Stopped \/ f \in rotten
  <2>1. final' = final \ {f} /\ pub' = pub \ {f} BY <1>0, <1>1 DEF Recheck
  <2>2. QED BY <1>0, <1>1, <2>1, ThrowInv DEF Recheck, channels
<1>2. CASE ~(Stopped \/ f \in rotten) /\ closed
  BY <1>0, <1>2, ThrowInv DEF Recheck, channels
<1>3. CASE ~(Stopped \/ f \in rotten) /\ ~closed
  <2>. DEFINE m == Msg("file-ok", f)
  <2>1. /\ back' = Append(back, m) /\ done' = done \cup {f}
        /\ task' = Resolve(known, done \cup {f}, allDone)
        /\ f \notin rotten /\ ~rfailed /\ ~rdone
        /\ UNCHANGED <<ctl, bulk, closed, sender, known, bytes, stale, sha, pub, queue, manifest,
                       allDone, rfailed, rdone, clean, disk>>
    BY <1>3 DEF Recheck, Stopped, disk
  <2>2. m \in Message /\ m.t = "file-ok" /\ m.f = f BY <1>0, FileRange, MsgType
  <2>. HIDE DEF m
  <2>3. back' \in Seq(Message) /\ AcksTrue' BY <2>1, <2>2, Acknowledged
  <2>4. /\ task' \in [at : Stage, f : 0 .. N]
        /\ \/ task'.at = "all-done-ok" /\ allDone /\ known \subseteq done'
           \/ task' = Idle /\ task'.at = "idle"
    BY <2>1, TaskType, SizeAssumption DEF Resolve, Stage
  <2>5. clean = 0 /\ f \in pub
    BY <1>0, <2>1 DEF CleanupAgrees, ReceiverOK, PublishedAgree
  <2>6. ChannelsOK' /\ SenderOK' BY <2>1, <2>3 DEF ChannelsOK, SenderOK, sender
  <2>7. FilesOK' /\ ReceiverOK' BY <1>0, <2>1, <2>4 DEF FilesOK, ReceiverOK, disk
  <2>8. BegunInOrder' BY <2>1, <2>4 DEF BegunInOrder, sender
  <2>9. TaskAgrees' BY <2>1, <2>4 DEF TaskAgrees
  <2>10. PublishedAgree' BY <1>0, <2>1, <2>4, <2>5 DEF PublishedAgree, disk
  <2>11. CleanupAgrees' BY <2>1, <2>5 DEF CleanupAgrees
  <2>12. DoneIsVerified' BY <1>0, <2>1 DEF DoneIsVerified, disk
  <2>13. QED BY <2>3, <2>6, <2>7, <2>8, <2>9, <2>10, <2>11, <2>12
<1>4. QED BY <1>1, <1>2, <1>3

\* The receive completes, unless it had stopped.
LEMMA SendAllDoneOkInv ==
  ASSUME Inv, SendAllDoneOk
  PROVE  Inv'
<1>. USE DEF Inv, TypeOK, BookkeepingAgrees
<1>1. CASE Stopped \/ closed
  BY <1>1, ThrowInv DEF SendAllDoneOk, Idle, channels, files, disk
<1>2. CASE ~(Stopped \/ closed)
  <2>. DEFINE m == Msg("all-done-ok", 0)
  <2>1. /\ back' = Append(back, m) /\ rdone' = TRUE /\ task' = Idle /\ ~rfailed
        /\ task.at = "all-done-ok"
        /\ UNCHANGED <<ctl, bulk, closed, sender, files, queue, manifest, allDone, rfailed,
                       clean, disk>>
    BY <1>2 DEF SendAllDoneOk, Stopped
  <2>2. m \in Message /\ m.t = "all-done-ok" BY MsgType, SizeAssumption
  <2>. HIDE DEF m
  <2>3. back' \in Seq(Message) /\ AcksTrue' BY <2>1, <2>2, Acknowledged DEF files
  <2>4. task'.at = "idle" /\ task' \in [at : Stage, f : 0 .. N] BY <2>1, TaskType
  <2>5. ChannelsOK' /\ SenderOK' BY <2>1, <2>3 DEF ChannelsOK, SenderOK, sender
  <2>6. FilesOK' /\ ReceiverOK' BY <2>1, <2>4 DEF FilesOK, ReceiverOK, files, disk
  <2>7. BegunInOrder' /\ TaskAgrees'
    BY <2>1, <2>4 DEF BegunInOrder, TaskAgrees, files, sender
  <2>8. PublishedAgree' /\ CleanupAgrees' /\ DoneIsVerified'
    BY <2>1, <2>4 DEF PublishedAgree, CleanupAgrees, DoneIsVerified, files, disk
  <2>9. QED BY <2>3, <2>5, <2>6, <2>7, <2>8
<1>3. QED BY <1>1, <1>2

-----------------------------------------------------------------------------
(* Arrivals, the end of a failed receive, the environment *)

\* enqueueReceiveTask.
LEMMA EnqueueFacts ==
  ASSUME Inv, NEW m \in Message, Enqueue(m), m.t = "file-begin" => m.f <= sfile
  PROVE  /\ queue' \in Seq(Message) /\ rfailed' \in BOOLEAN
         /\ \A i \in 1 .. Len(queue') : queue'[i].t = "file-begin" => queue'[i].f <= sfile
<1>. USE DEF Inv, TypeOK, BookkeepingAgrees
<1>1. CASE Queued + 1 > MaxQueue
  <2>1. queue' = <<>> /\ rfailed' = TRUE BY <1>1 DEF Enqueue, FailTransfer
  <2>2. QED BY <2>1, EmptySeq
<1>2. CASE ~(Queued + 1 > MaxQueue)
  <2>1. queue' = Append(queue, m) /\ rfailed' = rfailed BY <1>2 DEF Enqueue
  <2>2. /\ queue' \in Seq(Message)
        /\ \A i \in 1 .. Len(queue') :
             queue'[i] = m \/ (i \in 1 .. Len(queue) /\ queue'[i] = queue[i])
    BY <2>1, SeqAppend DEF ChannelsOK
  <2>3. QED BY <2>1, <2>2 DEF BegunInOrder, ReceiverOK
<1>3. QED BY <1>1, <1>2

\* A message enters the queue, or the queue is full and the transfer fails.
LEMMA ArriveInv ==
  ASSUME Inv, ArriveControl \/ ArriveBulk
  PROVE  Inv'
<1>. USE DEF Inv, TypeOK, BookkeepingAgrees
<1>1. /\ ~rdone /\ ~rfailed
      /\ UNCHANGED <<back, closed, sender, files, task, manifest, allDone, rdone, clean, disk>>
  BY DEF ArriveControl, ArriveBulk, Stopped
<1>2. ASSUME ArriveControl
      PROVE  /\ ctl' \in Seq(Message) /\ bulk' = bulk
             /\ queue' \in Seq(Message) /\ rfailed' \in BOOLEAN
             /\ \A i \in 1 .. Len(ctl') : ctl'[i].t = "file-begin" => ctl'[i].f <= sfile
             /\ \A i \in 1 .. Len(queue') : queue'[i].t = "file-begin" => queue'[i].f <= sfile
  <2>1. /\ Head(ctl) \in Message /\ Head(ctl) = ctl[1] /\ 1 \in 1 .. Len(ctl)
        /\ ctl' \in Seq(Message)
        /\ \A i \in 1 .. Len(ctl') : i + 1 \in 1 .. Len(ctl) /\ ctl'[i] = ctl[i + 1]
    BY <1>2, SeqTail DEF ArriveControl, ChannelsOK
  <2>2. Head(ctl).t = "file-begin" => Head(ctl).f <= sfile BY <2>1 DEF BegunInOrder
  <2>3. /\ queue' \in Seq(Message) /\ rfailed' \in BOOLEAN
        /\ \A i \in 1 .. Len(queue') : queue'[i].t = "file-begin" => queue'[i].f <= sfile
    BY <1>2, <2>1, <2>2, EnqueueFacts DEF ArriveControl
  <2>4. QED BY <1>2, <2>1, <2>3 DEF ArriveControl, BegunInOrder
<1>3. ASSUME ArriveBulk
      PROVE  /\ ctl' = ctl /\ bulk' \in Seq(Message)
             /\ queue' \in Seq(Message) /\ rfailed' \in BOOLEAN
             /\ \A i \in 1 .. Len(bulk') : bulk'[i].t = "chunk"
             /\ \A i \in 1 .. Len(queue') : queue'[i].t = "file-begin" => queue'[i].f <= sfile
  <2>1. /\ Head(bulk) \in Message /\ Head(bulk) = bulk[1] /\ 1 \in 1 .. Len(bulk)
        /\ bulk' \in Seq(Message)
        /\ \A i \in 1 .. Len(bulk') : i + 1 \in 1 .. Len(bulk) /\ bulk'[i] = bulk[i + 1]
    BY <1>3, SeqTail DEF ArriveBulk, ChannelsOK
  <2>2. Head(bulk).t = "chunk" BY <2>1 DEF BegunInOrder
  <2>3. /\ queue' \in Seq(Message) /\ rfailed' \in BOOLEAN
        /\ \A i \in 1 .. Len(queue') : queue'[i].t = "file-begin" => queue'[i].f <= sfile
    BY <1>3, <2>1, <2>2, EnqueueFacts DEF ArriveBulk
  <2>4. QED BY <1>3, <2>1, <2>3 DEF ArriveBulk, BegunInOrder
<1>4. ChannelsOK' /\ SenderOK' BY <1>1, <1>2, <1>3 DEF ChannelsOK, SenderOK, sender
<1>5. FilesOK' /\ ReceiverOK' BY <1>1, <1>2, <1>3 DEF FilesOK, ReceiverOK, files, disk
<1>6. AcksTrue' BY <1>1 DEF AcksTrue, sender, files
<1>7. BegunInOrder' BY <1>1, <1>2, <1>3 DEF BegunInOrder, sender, files
<1>8. TaskAgrees' /\ DoneIsVerified' BY <1>1 DEF TaskAgrees, DoneIsVerified, files, disk
<1>9. PublishedAgree' /\ CleanupAgrees'
  BY <1>1 DEF PublishedAgree, CleanupAgrees, ReceiverOK, files, disk
<1>10. QED BY <1>4, <1>5, <1>6, <1>7, <1>8, <1>9

\* The channels close behind an abort and the cleanup starts.
LEMMA FailTailInv ==
  ASSUME Inv, FailTail
  PROVE  Inv'
<1>. USE DEF Inv, TypeOK, BookkeepingAgrees
<1>1. /\ rfailed /\ clean = 0 /\ clean' = 1 /\ closed' = TRUE
      /\ UNCHANGED <<ctl, bulk, sender, files, queue, task, manifest, allDone, rfailed, rdone,
                     disk>>
  BY DEF FailTail
<1>2. back' \in Seq(Message) /\ AcksTrue'
  <2>1. CASE closed BY <1>1, <2>1 DEF FailTail, ChannelsOK, AcksTrue, sender, files
  <2>2. CASE ~closed
    <3>1. Msg("abort", 0) \in Message /\ Msg("abort", 0).t = "abort"
      BY MsgType, SizeAssumption
    <3>2. back' = Append(back, Msg("abort", 0)) BY <2>2 DEF FailTail
    <3>3. QED BY <1>1, <3>1, <3>2, Acknowledged DEF files
  <2>3. QED BY <2>1, <2>2
<1>3. ChannelsOK' /\ SenderOK' BY <1>1, <1>2 DEF ChannelsOK, SenderOK, sender
<1>4. FilesOK' /\ ReceiverOK' BY <1>1, SizeAssumption DEF FilesOK, ReceiverOK, files, disk
<1>5. BegunInOrder' /\ TaskAgrees' /\ DoneIsVerified'
  BY <1>1 DEF BegunInOrder, TaskAgrees, DoneIsVerified, sender, files, disk
<1>6. PublishedAgree' BY <1>1 DEF PublishedAgree, files, disk
<1>7. CleanupAgrees' BY <1>1 DEF CleanupAgrees, FilesOK, File, files
<1>8. QED BY <1>2, <1>3, <1>4, <1>5, <1>6, <1>7

\* The cleanup takes back what one file has left.
LEMMA CleanupFileInv ==
  ASSUME Inv, CleanupFile
  PROVE  Inv'
<1>. USE DEF Inv, TypeOK, BookkeepingAgrees
<1>1. /\ clean \in File /\ clean' = IF clean \in known THEN clean + 1 ELSE N + 1
      /\ part' \subseteq part
      /\ UNCHANGED <<channels, sender, known, bytes, stale, sha, done, queue, task, manifest,
                     allDone, rfailed, rdone, rotten>>
  BY DEF CleanupFile
<1>2. /\ pub' = pub \ {clean} /\ final' = final \ ({clean} \cap pub)
      /\ clean' > 0 /\ clean > 0
  BY <1>1, SizeAssumption DEF CleanupFile, PublishedAgree, File
<1>3. ChannelsOK' /\ SenderOK' BY <1>1 DEF ChannelsOK, SenderOK, channels, sender
<1>4. FilesOK' /\ ReceiverOK'
  <2>1. clean' \in 0 .. N + 1 BY <1>1, SizeAssumption DEF File
  <2>2. FilesOK' BY <1>1, <1>2 DEF FilesOK
  <2>3. ReceiverOK' BY <1>1, <2>1 DEF ReceiverOK, channels
  <2>4. QED BY <2>2, <2>3
<1>5. AcksTrue' /\ BegunInOrder' BY <1>1 DEF AcksTrue, BegunInOrder, channels, sender
<1>6. TaskAgrees' BY <1>1, <1>2 DEF TaskAgrees
<1>7. PublishedAgree' BY <1>1, <1>2 DEF PublishedAgree, TaskAgrees, CleanupAgrees
<1>8. CleanupAgrees'
  <2>1. \A f \in pub : f \in known /\ f >= clean /\ f \in File
    BY <1>2 DEF CleanupAgrees, PublishedAgree, FilesOK
  <2>2. \A f \in pub' : f >= clean'
    BY <1>1, <1>2, <2>1, SizeAssumption DEF BegunInOrder, File
  <2>3. QED BY <1>1, <1>2, <2>2 DEF CleanupAgrees
<1>9. DoneIsVerified' BY <1>1 DEF DoneIsVerified
<1>10. QED BY <1>3, <1>4, <1>5, <1>6, <1>7, <1>8, <1>9

\* A connection that closes, a partial that changes on disk.
LEMMA EnvironmentInv ==
  ASSUME Inv, Environment
  PROVE  Inv'
<1>. USE DEF Inv, TypeOK, BookkeepingAgrees
<1>1. /\ closed' \in BOOLEAN /\ rotten' \subseteq File
      /\ \A f \in done : f \notin rotten => f \notin rotten'
      /\ UNCHANGED <<ctl, bulk, back, sender, files, receiver, part, final>>
  BY DEF Environment, PeerClose, LinkDown, Rot, FilesOK, ReceiverOK, PublishedAgree,
         channels, disk
<1>2. ChannelsOK' /\ SenderOK' BY <1>1 DEF ChannelsOK, SenderOK, sender, receiver
<1>3. FilesOK' /\ ReceiverOK' BY <1>1 DEF FilesOK, ReceiverOK, files, receiver
<1>4. AcksTrue' /\ BegunInOrder'
  BY <1>1 DEF AcksTrue, BegunInOrder, sender, files, receiver
<1>5. TaskAgrees' /\ PublishedAgree' /\ CleanupAgrees'
  BY <1>1 DEF TaskAgrees, PublishedAgree, CleanupAgrees, files, receiver
<1>6. DoneIsVerified' BY <1>1 DEF DoneIsVerified, files
<1>7. QED BY <1>2, <1>3, <1>4, <1>5, <1>6

-----------------------------------------------------------------------------
(* The sender *)

\* The sender begins files in order and moves on only by true acknowledgements.
LEMMA SenderInv ==
  ASSUME Inv, SenderNext
  PROVE  Inv'
<1>. USE DEF Inv, TypeOK, BookkeepingAgrees
<1>1. TypeOK' BY SenderType
<1>2. UNCHANGED <<closed, files, receiver, disk>> BY ReceiverAlone
<1>3. TaskAgrees' /\ PublishedAgree' /\ CleanupAgrees' /\ DoneIsVerified'
  BY <1>2 DEF TaskAgrees, PublishedAgree, CleanupAgrees, DoneIsVerified, files, receiver, disk
<1>4. ASSUME NEW m \in Message, m.t # "file-begin" \/ m.f <= sfile, UNCHANGED <<bulk, sfile>>,
             \A i \in 1 .. Len(ctl') : ctl'[i] = m \/ (i \in 1 .. Len(ctl) /\ ctl'[i] = ctl[i])
      PROVE  BegunInOrder'
  BY <1>2, <1>4 DEF BegunInOrder, files, receiver
<1>5. ASSUME back' = back, sfile' = sfile, spc' # "done" PROVE AcksTrue'
  BY <1>2, <1>5 DEF AcksTrue, files, receiver
<1>6. ASSUME UNCHANGED <<ctl, bulk, sfile>> PROVE BegunInOrder'
  BY <1>2, <1>6 DEF BegunInOrder, files, receiver
<1>7. N \in Nat /\ sfile \in Nat BY SizeAssumption DEF SenderOK
<1>8. ASSUME SendManifest PROVE AcksTrue' /\ BegunInOrder'
  <2>1. Msg("manifest", 0) \in Message /\ Msg("manifest", 0).t = "manifest" BY <1>7, MsgType
  <2>2. /\ spc' \in {"throw", "begin"}
        /\ \A i \in 1 .. Len(ctl') :
             ctl'[i] = Msg("manifest", 0) \/ (i \in 1 .. Len(ctl) /\ ctl'[i] = ctl[i])
    BY <1>8, <2>1, SendCheckedType DEF SendManifest, ChannelsOK
  <2>3. QED BY <1>4, <1>5, <1>8, <2>1, <2>2 DEF SendManifest
<1>9. ASSUME SendBegin PROVE AcksTrue' /\ BegunInOrder'
  <2>. DEFINE m == Msg("file-begin", sfile)
  <2>1. m \in Message /\ m.f = sfile BY <1>7, <1>9, MsgType DEF SendBegin, SenderOK
  <2>2. /\ spc' \in {"throw", "ready"}
        /\ \A i \in 1 .. Len(ctl') : ctl'[i] = m \/ (i \in 1 .. Len(ctl) /\ ctl'[i] = ctl[i])
    BY <1>9, <2>1, SendCheckedType DEF SendBegin, ChannelsOK
  <2>. HIDE DEF m
  <2>3. m.t # "file-begin" \/ m.f <= sfile BY <1>7, <2>1
  <2>4. QED BY <1>4, <1>5, <1>9, <2>1, <2>2, <2>3 DEF SendBegin
<1>10. ASSUME CheckReady PROVE AcksTrue' /\ BegunInOrder'
  <2>. DEFINE m == Msg("restart", sfile)
  <2>1. m \in Message /\ m.t = "restart"
    BY <1>10, FileRange, MsgType DEF CheckReady, SenderOK
  <2>2. /\ spc' \in {"throw", "ready", "chunks"}
        /\ \/ ctl' = ctl
           \/ \A i \in 1 .. Len(ctl') : ctl'[i] = m \/ (i \in 1 .. Len(ctl) /\ ctl'[i] = ctl[i])
    BY <1>10, <2>1, SendControlType DEF CheckReady, ChannelsOK
  <2>. HIDE DEF m
  <2>3. QED BY <1>4, <1>5, <1>6, <1>10, <2>1, <2>2 DEF CheckReady
<1>11. ASSUME SendChunk PROVE AcksTrue' /\ BegunInOrder'
  <2>1. sfile \in 0 .. N /\ sseq \in Nat BY <1>11, FileRange DEF SendChunk, SenderOK
  <2>2. /\ ctl' = ctl /\ back' = back /\ sfile' = sfile /\ spc' \in {"chunks", "throw"}
        /\ bulk' = bulk \/ bulk' = Append(bulk, Chunk(sfile, sseq))
    BY <1>11 DEF SendChunk
  <2>3. \A i \in 1 .. Len(bulk') : bulk'[i].t = "chunk"
    <3>1. CASE bulk' = bulk BY <3>1 DEF BegunInOrder
    <3>2. CASE bulk' = Append(bulk, Chunk(sfile, sseq))
      <4>1. Chunk(sfile, sseq) \in Message /\ Chunk(sfile, sseq).t = "chunk"
        BY <2>1, DataType DEF Chunk
      <4>2. QED BY <3>2, <4>1, SeqAppend DEF BegunInOrder, ChannelsOK
    <3>3. QED BY <2>2, <3>1, <3>2
  <2>4. BegunInOrder' BY <1>2, <2>2, <2>3 DEF BegunInOrder, files, receiver
  <2>5. QED BY <1>5, <2>2, <2>4
<1>12. ASSUME SendEnd PROVE AcksTrue' /\ BegunInOrder'
  <2>. DEFINE m == Msg("file-end", sfile)
  <2>1. m \in Message /\ m.t = "file-end" BY <1>12, FileRange, MsgType DEF SendEnd, SenderOK
  <2>2. /\ spc' \in {"throw", "file-ok"}
        /\ \A i \in 1 .. Len(ctl') : ctl'[i] = m \/ (i \in 1 .. Len(ctl) /\ ctl'[i] = ctl[i])
    BY <1>12, <2>1, SendCheckedType DEF SendEnd, ChannelsOK
  <2>. HIDE DEF m
  <2>3. QED BY <1>4, <1>5, <1>12, <2>1, <2>2 DEF SendEnd
<1>13. ASSUME SendAllDone PROVE AcksTrue' /\ BegunInOrder'
  <2>. DEFINE m == Msg("all-done", 0)
  <2>1. m \in Message /\ m.t = "all-done" BY <1>7, MsgType
  <2>2. /\ spc' \in {"throw", "all-done-ok"}
        /\ \A i \in 1 .. Len(ctl') : ctl'[i] = m \/ (i \in 1 .. Len(ctl) /\ ctl'[i] = ctl[i])
    BY <1>13, <2>1, SendCheckedType DEF SendAllDone, ChannelsOK
  <2>. HIDE DEF m
  <2>3. QED BY <1>4, <1>5, <1>13, <2>1, <2>2 DEF SendAllDone
<1>14. ASSUME HandleSenderControl PROVE AcksTrue' /\ BegunInOrder'
  <2>1. /\ Head(back) \in Message /\ Head(back) = back[1] /\ 1 \in 1 .. Len(back)
        /\ \A i \in 1 .. Len(back') : i + 1 \in 1 .. Len(back) /\ back'[i] = back[i + 1]
        /\ ctl' = ctl /\ bulk' = bulk
    BY <1>14, SeqTail DEF HandleSenderControl, ChannelsOK
  <2>2. CASE ~Expected(Head(back))
    <3>1. sfile' = sfile /\ spc' \in {spc, "throw"}
      BY <1>14, <2>2 DEF HandleSenderControl, FailSender
    <3>2. AcksTrue' BY <1>2, <2>1, <3>1 DEF AcksTrue, files, receiver
    <3>3. QED BY <1>6, <2>1, <3>1, <3>2
  <2>3. CASE Expected(Head(back))
    <3>1. /\ Head(back).t \in Waiting /\ Head(back).t = spc
          /\ spc = "file-ok" => Head(back).f = sfile
      BY <2>3 DEF Expected
    <3>2. /\ sfile' = IF spc = "file-ok" THEN sfile + 1 ELSE sfile
          /\ spc' \in {"check", "begin", "done"}
          /\ spc' = "done" => spc = "all-done-ok"
      BY <1>14, <2>3, <3>1 DEF HandleSenderControl, Waiting
    <3>3. spc = "all-done-ok" => rdone BY <2>1, <3>1 DEF AcksTrue
    <3>4. spc = "file-ok" => sfile \in done BY <2>1, <3>1 DEF AcksTrue
    <3>5. \A f \in File : f < sfile' => f \in done
      BY <1>7, <3>2, <3>4 DEF AcksTrue, File
    <3>6. AcksTrue' BY <1>2, <2>1, <3>2, <3>3, <3>5 DEF AcksTrue, files, receiver
    <3>7. sfile <= sfile' /\ sfile' \in Nat BY <1>7, <3>2
    <3>8. BegunInOrder'
      <4>1. \A k \in Message : k.f <= sfile => k.f <= sfile' BY <1>7, <3>7 DEF Message
      <4>2. task.f <= sfile => task.f <= sfile' BY <1>7, <3>7 DEF ReceiverOK
      <4>3. /\ \A i \in 1 .. Len(ctl) : ctl[i] \in Message
            /\ \A i \in 1 .. Len(queue) : queue[i] \in Message
        BY DEF ChannelsOK
      <4>4. QED BY <1>2, <2>1, <4>1, <4>2, <4>3 DEF BegunInOrder, files, receiver
    <3>9. QED BY <3>6, <3>8
  <2>4. QED BY <2>2, <2>3
<1>15. ASSUME SenderClosed \/ SenderTimeout \/ SourceError PROVE AcksTrue' /\ BegunInOrder'
  <2>1. UNCHANGED <<ctl, bulk, back, sfile>> /\ spc' \in {spc, "throw"} /\ spc # "done"
    BY <1>15 DEF SenderClosed, SenderTimeout, SourceError, FailSender, channels, Waiting, Ended
  <2>2. QED BY <1>5, <1>6, <2>1
<1>16. ASSUME SenderAbort PROVE AcksTrue' /\ BegunInOrder'
  <2>. DEFINE m == Msg("abort", 0)
  <2>1. m \in Message /\ m.t = "abort" BY <1>7, MsgType
  <2>2. /\ spc' = "failed" /\ UNCHANGED <<bulk, back, sfile>>
        /\ ctl' = ctl \/ ctl' = Append(ctl, m)
    BY <1>16 DEF SenderAbort
  <2>3. CASE ctl' = ctl BY <1>5, <1>6, <2>2, <2>3
  <2>4. CASE ctl' = Append(ctl, m)
    <3>1. \A i \in 1 .. Len(ctl') : ctl'[i] = m \/ (i \in 1 .. Len(ctl) /\ ctl'[i] = ctl[i])
      BY <2>1, <2>4, SeqAppend DEF ChannelsOK
    <3>. HIDE DEF m
    <3>2. QED BY <1>4, <1>5, <2>1, <2>2, <3>1
  <2>5. QED BY <2>2, <2>3, <2>4
<1>17. AcksTrue' /\ BegunInOrder'
  BY <1>8, <1>9, <1>10, <1>11, <1>12, <1>13, <1>14, <1>15, <1>16 DEF SenderNext
<1>18. QED BY <1>1, <1>3, <1>17

-----------------------------------------------------------------------------
(* Invariance *)

\* Before anything is sent the bookkeeping agrees: no acknowledgement, no file, no task.
LEMMA InitInv ==
  ASSUME Init
  PROVE  Inv
<1>. USE SizeAssumption, OldAssumption DEF Init
<1>1. ChannelsOK BY EmptySeq DEF ChannelsOK
<1>2. SenderOK
  <2>1. NoReady \in Message BY MsgType DEF NoReady
  <2>2. sfile \in 1 .. N + 1 /\ sseq \in Nat OBVIOUS
  <2>3. QED BY <2>1, <2>2 DEF SenderOK
<1>3. part \subseteq File BY DEF File
<1>4. /\ bytes \in [File -> Nat] /\ \A f \in File : bytes[f] <= Size[f]
  BY DEF File
<1>5. FilesOK BY <1>3, <1>4 DEF FilesOK
<1>6. ReceiverOK
  <2>1. clean \in 0 .. N + 1 OBVIOUS
  <2>2. QED BY <2>1, TaskType DEF ReceiverOK
<1>7. AcksTrue /\ BegunInOrder
  BY TaskType DEF AcksTrue, BegunInOrder, File
<1>8. TaskAgrees BY <1>4, TaskType DEF TaskAgrees
<1>9. PublishedAgree /\ CleanupAgrees /\ DoneIsVerified
  BY TaskType DEF PublishedAgree, CleanupAgrees, DoneIsVerified
<1>10. QED
  BY <1>1, <1>2, <1>5, <1>6, <1>7, <1>8, <1>9 DEF Inv, TypeOK, BookkeepingAgrees

\* Every step of either side, of a channel or of the disk preserves the invariant.
LEMMA NextInv ==
  ASSUME Inv, [Next]_vars
  PROVE  Inv'
<1>1. ASSUME Handler PROVE Inv'
  BY <1>1, HandleManifestInv, HandleBeginInv, HandleRestartInv, HandleEndInv, HandleChunkInv,
     HandleAllDoneInv, FailedInv DEF Handler
<1>2. ASSUME Awaited PROVE Inv'
  BY <1>2, ReserveDoneInv, RestartDoneInv, SendReadyInv, WriteDoneInv, TaskErrorInv,
     VerifyPartInv, PublishLinkInv, PublishDoneInv, PublishErrorInv, RecheckInv,
     SendAllDoneOkInv DEF Awaited
<1>3. ASSUME ReceiverNext PROVE Inv'
  BY <1>3, ArriveInv, FailedInv, FailTailInv, CleanupFileInv DEF ReceiverNext
<1>4. ASSUME UNCHANGED vars PROVE Inv'
  BY <1>4 DEF vars, channels, sender, files, receiver, disk, Inv, TypeOK, ChannelsOK, SenderOK,
     FilesOK, ReceiverOK, BookkeepingAgrees, AcksTrue, BegunInOrder, TaskAgrees,
     PublishedAgree, CleanupAgrees, DoneIsVerified
<1>5. QED BY <1>1, <1>2, <1>3, <1>4, SenderInv, EnvironmentInv DEF Next

\* The inductive invariant holds of every reachable state of a transfer.
THEOREM Invariance == Spec => []Inv
<1>1. Init => Inv BY InitInv
<1>2. Inv /\ [Next]_vars => Inv' BY NextInv
<1>3. QED BY <1>1, <1>2, PTL DEF Spec

\* Both sides, the channels and the disk keep their types.
THEOREM TransferTypes == Spec => []TypeOK
<1>1. Inv => TypeOK BY DEF Inv
<1>2. QED BY <1>1, Invariance, PTL

\* Acknowledgements in flight are true, files begin in order, the running task and the
\* cleanup agree with what is published, at every await of sendFiles and receiveFiles.
THEOREM BookkeepingAlwaysAgrees == Spec => []BookkeepingAgrees
<1>1. Inv => BookkeepingAgrees BY DEF Inv
<1>2. QED BY <1>1, Invariance, PTL

\* receiveFiles marks a file done only when it is complete and its bytes, accepted and on
\* disk, are those the sender hashed.
THEOREM OnlyVerifiedDone == Spec => []DoneIsVerified
<1>1. Inv => DoneIsVerified BY DEF Inv
<1>2. QED BY <1>1, Invariance, PTL

-----------------------------------------------------------------------------
(* Refinement *)

\* A receive that has come to rest after a failure keeps nothing.
LEMMA FailedKeepsNone == Inv /\ Received = "failed" => final = {}
<1>. SUFFICES ASSUME Inv, Received = "failed" PROVE final = {}
  OBVIOUS
<1>. USE DEF Inv, TypeOK, BookkeepingAgrees
<1>1. rfailed /\ clean > N /\ task.at = "idle" BY TaskType DEF Received
<1>2. pub = {} BY <1>1, SizeAssumption DEF CleanupAgrees, FilesOK, ReceiverOK, File
<1>3. QED BY <1>1, <1>2 DEF PublishedAgree

\* The sender's steps change only how the send ended, and it ends well only after the
\* receive completed.
LEMMA SenderRefines ==
  ASSUME Inv, Inv', SenderNext
  PROVE  /\ Received' = Received /\ final' = final
         /\ \/ Sent' = Sent
            \/ Sent = "running" /\ Sent' = "failed"
            \/ Sent = "running" /\ Sent' = "ok" /\ Received = "ok"
<1>1. UNCHANGED <<closed, files, receiver, disk>> BY ReceiverAlone
<1>2. Received' = Received /\ final' = final BY <1>1 DEF Received, receiver, disk
<1>3. Sent = "running"
  BY DEF SenderNext, SendManifest, SendBegin, CheckReady, SendChunk, SendEnd, SendAllDone,
         HandleSenderControl, SenderClosed, SenderTimeout, SourceError, SenderAbort, Waiting,
         Ended, Sent
<1>4. Sent' = "ok" => Received = "ok"
  BY <1>1 DEF Sent, Received, receiver, Inv, BookkeepingAgrees, AcksTrue
<1>5. Sent' \in {"ok", "failed", "running"} BY DEF Sent
<1>6. QED BY <1>2, <1>3, <1>4, <1>5

\* The receiver's steps: what is over stays as it is, the receive completes with every file
\* published, and files come and go one at a time.
LEMMA ReceiverMoves ==
  ASSUME Inv, Handler \/ Awaited \/ ReceiverNext \/ Environment
  PROVE  /\ rdone => rdone' /\ final' = final
         /\ Received = "failed" => UNCHANGED <<task, rfailed, clean, rdone, final>>
         /\ ~rdone /\ rdone' => ~rfailed /\ final = File /\ final' = final
         /\ \/ final' = final
            \/ \E f \in File : final' = final \cup {f} \/ final' = final \ {f}
<1>. USE DEF Inv, TypeOK, BookkeepingAgrees
<1>0. /\ task = Idle => task.at = "idle"
      /\ rdone => ~rfailed /\ task = Idle
      /\ clean > 0 => rfailed
      /\ Received = "failed" => rfailed /\ clean > N /\ task = Idle /\ ~rdone
      /\ clean > N => clean # 0 /\ clean \notin File
  BY TaskType, SizeAssumption DEF CleanupAgrees, Received, ReceiverOK, File
<1>1. ASSUME Handler
      PROVE  ~rfailed /\ ~rdone /\ rdone' = rdone /\ final' = final
  BY <1>1 DEF Handler, HandleManifest, HandleBegin, HandleRestart, HandleEnd, HandleChunk,
     HandleAllDone, HandleRefused, Take, Stopped, disk
<1>2. ASSUME ReserveDone \/ RestartDone \/ SendReady \/ WriteDone \/ TaskError \/ VerifyPart
      PROVE  task.at # "idle" /\ rdone' = rdone /\ final' = final
  BY <1>2 DEF ReserveDone, RestartDone, SendReady, WriteDone, TaskError, VerifyPart, disk
<1>3. ASSUME PublishLink \/ PublishDone \/ PublishError \/ Recheck
      PROVE  /\ task.at # "idle" /\ rdone' = rdone
             /\ \/ final' = final
                \/ \E f \in File : final' = final \cup {f} \/ final' = final \ {f}
  <2>1. task.f \in File BY <1>3 DEF PublishLink, PublishDone, PublishError, Recheck, TaskAgrees, FilesOK
  <2>2. /\ task.at # "idle" /\ rdone' = rdone
        /\ \/ final' = final \/ final' = final \cup {task.f} \/ final' = final \ {task.f}
    BY <1>3 DEF PublishLink, PublishDone, PublishError, Recheck
  <2>3. QED BY <2>1, <2>2
<1>4. ASSUME SendAllDoneOk
      PROVE  /\ task.at # "idle" /\ final' = final
             /\ rdone' # rdone => ~rfailed /\ final = File
  <2>1. /\ task.at = "all-done-ok" /\ final' = final /\ (rdone' # rdone => ~rfailed)
    BY <1>4 DEF SendAllDoneOk, Stopped, disk
  <2>2. ~rfailed => final = File
    BY <1>0, <2>1 DEF TaskAgrees, PublishedAgree, FilesOK, ReceiverOK
  <2>3. QED BY <2>1, <2>2
<1>5. ASSUME ArriveControl \/ ArriveBulk \/ ReceiverClosed \/ IdleTimeout
      PROVE  ~rfailed /\ ~rdone /\ rdone' = rdone /\ final' = final
  BY <1>5 DEF ArriveControl, ArriveBulk, ReceiverClosed, IdleTimeout, Stopped, disk
<1>6. ASSUME FailTail
      PROVE  rfailed /\ clean = 0 /\ rdone' = rdone /\ final' = final
  BY <1>6 DEF FailTail, disk
<1>7. ASSUME CleanupFile
      PROVE  /\ rfailed /\ clean \in File /\ rdone' = rdone
             /\ final' = final \/ final' = final \ {clean}
  BY <1>7, <1>0, SizeAssumption DEF CleanupFile, File
<1>8. ASSUME Environment
      PROVE  UNCHANGED <<task, rfailed, clean, rdone, final>>
  BY <1>8 DEF Environment, PeerClose, LinkDown, Rot, receiver, disk
<1>9. CASE Handler BY <1>0, <1>1, <1>9
<1>10. CASE Awaited BY <1>0, <1>2, <1>3, <1>4, <1>10 DEF Awaited, ReceiverOK
<1>11. CASE ReceiverNext BY <1>0, <1>5, <1>6, <1>7, <1>11 DEF ReceiverNext
<1>12. CASE Environment BY <1>0, <1>8, <1>12
<1>13. QED BY <1>9, <1>10, <1>11, <1>12

\* Every step of the transfer is a step of FileDelivery or changes nothing of it.
LEMMA StepRefines ==
  ASSUME Inv, Inv', [Next]_vars
  PROVE  [Delivery!Next]_(Delivery!vars)
<1>. USE DEF Delivery!Next, Delivery!vars, Delivery!File, Delivery!Publish,
             Delivery!TakeBack, Delivery!ReceiveOk, Delivery!ReceiveFails, Delivery!SendOk,
             Delivery!SendFails
<1>1. CASE SenderNext BY <1>1, SenderRefines
<1>2. CASE Handler \/ Awaited \/ ReceiverNext \/ Environment
  <2>0. UNCHANGED sender BY <1>2, SenderAlone
  <2>1. Sent' = Sent BY <2>0 DEF Sent, sender
  <2>2. Received' = "failed" => final' = {}
    <3>1. (Inv /\ Received = "failed" => final = {})' BY FailedKeepsNone, PTL
    <3>2. QED BY <3>1
  <2>3. CASE Received = "ok"
    <3>1. rdone BY <2>3 DEF Received
    <3>2. rdone' /\ final' = final BY <1>2, <3>1, ReceiverMoves
    <3>3. QED BY <2>1, <2>3, <3>2 DEF Received
  <2>4. CASE Received = "failed"
    BY <1>2, <2>1, <2>4, ReceiverMoves DEF Received
  <2>5. CASE Received = "running"
    <3>1. ~rdone BY <2>5 DEF Received
    <3>2. CASE Received' = "ok"
      <4>1. rdone' BY <3>2 DEF Received
      <4>2. final = File /\ final' = final BY <1>2, <3>1, <4>1, ReceiverMoves
      <4>3. QED BY <2>1, <2>5, <3>2, <4>2 DEF File
    <3>3. CASE Received' = "failed" BY <2>1, <2>2, <2>5, <3>3
    <3>4. CASE Received' = "running"
      BY <1>2, <2>1, <2>5, <3>4, ReceiverMoves DEF File
    <3>5. QED BY <3>2, <3>3, <3>4 DEF Received
  <2>6. QED BY <2>3, <2>4, <2>5 DEF Received
<1>3. CASE UNCHANGED vars
  BY <1>3 DEF vars, sender, receiver, disk, Sent, Received
<1>4. QED BY <1>1, <1>2, <1>3 DEF Next

\* The transfer implements FileDelivery: whatever interleaving, fault or queue bound, a
\* sender that succeeds has a receiver that kept every file, and a receive that failed
\* keeps none.
THEOREM TransferImplementsDelivery == Spec => ImplementsDelivery
<1>1. Init => Delivery!Init BY DEF Init, Delivery!Init, Sent, Received
<1>2. Inv /\ Inv' /\ [Next]_vars => [Delivery!Next]_(Delivery!vars) BY StepRefines
<1>3. QED BY <1>1, <1>2, Invariance, PTL DEF Spec, ImplementsDelivery, Delivery!Spec

-----------------------------------------------------------------------------
(***************************************************************************)
(* Without faults both sides stay in step.  NoSpuriousFailure says that no *)
(* message is refused, and so needs to know every message that is queued   *)
(* or on its way: Phase names them for each place the sender can be in.    *)
(* The two channels are not ordered with respect to each other, hence the  *)
(* file-end may be anywhere among the chunks.                              *)
(***************************************************************************)

\* The queue holds the first two messages, and a file with its file-end.
QueueSuffices == 2 <= MaxQueue /\ \A f \in File : Size[f] + 1 <= MaxQueue

\* Nothing has gone wrong on either side.
Calm ==
  /\ ~rfailed /\ ~sfailed /\ ~closed /\ rotten = {}
  /\ spc \notin {"throw", "failed", "done"}

\* The files before the sender's are done, its own is not known before it is begun, and an
\* old partial that is not the sender's is not empty.
FilesInStep ==
  /\ \A f \in known : f < sfile \/ (f = sfile /\ spc \notin {"manifest", "begin"})
  /\ sha \subseteq known
  /\ \A f \in stale : bytes[f] > 0
  /\ allDone => spc = "all-done-ok"

\* The control messages that the receiver has not handled, queued or on their way.
Ahead(w) == queue \o ctl = w

Manifest == Msg("manifest", 0)

\* Nothing is sent yet.
Starting ==
  /\ spc = "manifest" /\ ~manifest /\ bulk = <<>> /\ back = <<>> /\ task = Idle
  /\ Ahead(<<>>)

\* The manifest is on its way; the next message need not wait for it.
Announced ==
  /\ ~manifest /\ bulk = <<>> /\ back = <<>> /\ task = Idle /\ ~allDone
  /\ \/ spc = "begin" /\ Ahead(<<Manifest>>)
     \/ spc = "ready" /\ Ahead(<<Manifest, Msg("file-begin", sfile)>>) /\ sfile \notin known
     \/ spc = "all-done-ok" /\ sfile > N /\ Ahead(<<Manifest, Msg("all-done", 0)>>)

\* Every file begun is acknowledged.
Between ==
  manifest /\ spc = "begin" /\ bulk = <<>> /\ back = <<>> /\ task = Idle /\ Ahead(<<>>)

\* The file is neither ended nor done, and has its partial once it is known.
Unstarted == sfile \notin sha \cup done /\ (sfile \in known => sfile \in part)

\* The ready acknowledgement of the state the receiver is in.
Answer == Ready(sfile, bytes[sfile], sfile \notin stale)

\* The sender waits for a ready: the file-begin or the restart is ahead, its task is running
\* or the answer is on its way.
Opening ==
  /\ manifest /\ spc = "ready" /\ bulk = <<>> /\ Unstarted
  /\ \/ Ahead(<<Msg("file-begin", sfile)>>) /\ task = Idle /\ back = <<>> /\ sfile \notin known
     \/ Ahead(<<Msg("restart", sfile)>>) /\ task = Idle /\ back = <<>> /\ sfile \in known
     \/ Ahead(<<>>) /\ task = At("reserve", sfile) /\ back = <<>> /\ sfile \notin known
     \/ Ahead(<<>>) /\ task = At("restart", sfile) /\ back = <<>> /\ sfile \in known
     \/ Ahead(<<>>) /\ task = At("ready", sfile) /\ back = <<>> /\ sfile \in known
     \/ Ahead(<<>>) /\ task = Idle /\ back = <<Answer>> /\ sfile \in known

\* The sender has the answer, and it is still true of the receiver.
Checking ==
  /\ manifest /\ spc = "check" /\ bulk = <<>> /\ back = <<>> /\ Unstarted
  /\ Ahead(<<>>) /\ task = Idle /\ sready = Answer /\ sfile \in known

\* The chunks in the queue, when the file-end is at e (past the queue when it is not in it).
Queue(e) ==
  /\ e \in 1 .. Len(queue) + 1
  /\ \A i \in 1 .. Len(queue) :
       queue[i] = IF i < e THEN Chunk(sfile, bytes[sfile] + (i - 1))
                  ELSE IF i = e THEN Msg("file-end", sfile)
                  ELSE Chunk(sfile, bytes[sfile] + (i - 2))

\* The number of chunks in the queue.
Queuing(e) == IF e <= Len(queue) THEN Len(queue) - 1 ELSE Len(queue)

\* The chunks on their way follow those in the queue, up to the next one to send.
Coming(e) ==
  /\ \A i \in 1 .. Len(bulk) : bulk[i] = Chunk(sfile, bytes[sfile] + Queuing(e) + (i - 1))
  /\ sseq = bytes[sfile] + Queuing(e) + Len(bulk)
  /\ sseq <= Size[sfile]

\* The file-end is not sent yet, is on its way, is in the queue or has been handled.
EndAt(e) ==
  \/ spc = "chunks" /\ ctl = <<>> /\ e = Len(queue) + 1 /\ sfile \notin sha
  \/ /\ spc = "file-ok" /\ sseq = Size[sfile]
     /\ \/ ctl = <<Msg("file-end", sfile)>> /\ e = Len(queue) + 1 /\ sfile \notin sha
        \/ ctl = <<>> /\ e <= Len(queue) /\ sfile \notin sha
        \/ ctl = <<>> /\ e = Len(queue) + 1 /\ sfile \in sha

\* Chunks and the file-end are sent and handled, in any order of the two channels.
Streaming ==
  /\ manifest /\ sfile \in known \ (done \cup stale) /\ back = <<>>
  /\ task.at \notin {"publish", "recheck"} => sfile \in part
  /\ \/ task = Idle
     \/ task = At("write", sfile) /\ bytes[sfile] > 0
     \/ task.at \in {"verify", "link", "publish", "recheck"} /\ task.f = sfile
  /\ \E e \in 1 .. Len(queue) + 1 : Queue(e) /\ Coming(e) /\ EndAt(e)

\* The file is done and its acknowledgement on its way.
Acknowledging ==
  /\ manifest /\ spc = "file-ok" /\ bulk = <<>> /\ Ahead(<<>>) /\ task = Idle
  /\ sfile \in done /\ back = <<Msg("file-ok", sfile)>>

\* Every file is done; the end of the transfer is ahead or its task is running.
Finishing ==
  /\ manifest /\ spc = "all-done-ok" /\ sfile > N /\ bulk = <<>> /\ back = <<>>
  /\ \/ Ahead(<<Msg("all-done", 0)>>) /\ task = Idle /\ ~allDone
     \/ Ahead(<<>>) /\ task = At("all-done-ok", 0)

\* Where the two sides are, together.
Phase ==
  \/ Starting \/ Announced \/ Between \/ Opening \/ Checking \/ Streaming \/ Acknowledging
  \/ Finishing

\* Both sides are in step; inductive, with Inv, until the receive completes.
OnTrack == Calm /\ FilesInStep /\ Phase
Plain == rdone \/ OnTrack

\* What the step lemmas assume of the state before the step.
Smooth == Inv /\ OnTrack /\ ~rdone /\ Faults = {} /\ QueueSuffices

\* Two queues one after the other, when the second one's first message moves over.
LEMMA MoveOver ==
  ASSUME NEW q \in Seq(Message), NEW c \in Seq(Message), c # <<>>
  PROVE  /\ Append(q, Head(c)) \o Tail(c) = q \o c
         /\ Len(q) + 1 <= Len(q \o c)
<1>1. /\ Head(c) \in Message /\ Tail(c) \in Seq(Message) /\ Len(Tail(c)) = Len(c) - 1
      /\ Len(c) \in Nat /\ Len(c) > 0 /\ Head(c) = c[1]
      /\ \A i \in 1 .. Len(Tail(c)) : Tail(c)[i] = c[i + 1]
  BY HeadTailProperties, LenProperties
<1>2. /\ Append(q, Head(c)) \in Seq(Message) /\ Len(Append(q, Head(c))) = Len(q) + 1
      /\ Len(q) \in Nat
      /\ \A i \in 1 .. Len(q) : Append(q, Head(c))[i] = q[i]
      /\ Append(q, Head(c))[Len(q) + 1] = Head(c)
  BY <1>1, AppendProperties, LenProperties
<1>3. /\ Append(q, Head(c)) \o Tail(c) \in Seq(Message)
      /\ Len(Append(q, Head(c)) \o Tail(c)) = Len(q) + Len(c)
      /\ \A i \in 1 .. Len(q) + Len(c) :
           (Append(q, Head(c)) \o Tail(c))[i]
             = IF i <= Len(q) + 1 THEN Append(q, Head(c))[i] ELSE Tail(c)[i - (Len(q) + 1)]
  BY <1>1, <1>2, ConcatProperties
<1>4. /\ q \o c \in Seq(Message) /\ Len(q \o c) = Len(q) + Len(c)
      /\ \A i \in 1 .. Len(q) + Len(c) :
           (q \o c)[i] = IF i <= Len(q) THEN q[i] ELSE c[i - Len(q)]
  BY ConcatProperties
<1>5. ASSUME NEW i \in 1 .. Len(q) + Len(c)
      PROVE  (Append(q, Head(c)) \o Tail(c))[i] = (q \o c)[i]
  BY <1>1, <1>2, <1>3, <1>4
<1>6. Append(q, Head(c)) \o Tail(c) = q \o c BY <1>3, <1>4, <1>5, SeqEqual
<1>7. QED BY <1>1, <1>2, <1>4, <1>6

\* Two queues one after the other, when the first message is taken or the last one added.
LEMMA TakeFirst ==
  ASSUME NEW q \in Seq(Message), NEW c \in Seq(Message), q # <<>>
  PROVE  /\ q \o c \in Seq(Message) /\ q \o c # <<>>
         /\ Head(q) = Head(q \o c)
         /\ Tail(q) \o c = Tail(q \o c)
<1>1. /\ Head(q) \in Message /\ Tail(q) \in Seq(Message) /\ Len(Tail(q)) = Len(q) - 1
      /\ Len(q) \in Nat /\ Len(q) > 0 /\ Head(q) = q[1] /\ Len(c) \in Nat
      /\ \A i \in 1 .. Len(Tail(q)) : Tail(q)[i] = q[i + 1]
  BY HeadTailProperties, LenProperties
<1>2. /\ Tail(q) \o c \in Seq(Message) /\ Len(Tail(q) \o c) = Len(q) + Len(c) - 1
      /\ \A i \in 1 .. (Len(q) + Len(c)) - 1 :
           (Tail(q) \o c)[i] = IF i <= Len(q) - 1 THEN Tail(q)[i] ELSE c[i - (Len(q) - 1)]
  BY <1>1, ConcatProperties
<1>3. /\ q \o c \in Seq(Message) /\ Len(q \o c) = Len(q) + Len(c)
      /\ \A i \in 1 .. Len(q) + Len(c) :
           (q \o c)[i] = IF i <= Len(q) THEN q[i] ELSE c[i - Len(q)]
  BY ConcatProperties
<1>4. q \o c # <<>> BY <1>1, <1>3, EmptySeq
<1>5. /\ Head(q \o c) = (q \o c)[1] /\ Tail(q \o c) \in Seq(Message)
      /\ Len(Tail(q \o c)) = Len(q) + Len(c) - 1
      /\ \A i \in 1 .. (Len(q) + Len(c)) - 1 : Tail(q \o c)[i] = (q \o c)[i + 1]
  BY <1>1, <1>3, <1>4, HeadTailProperties
<1>6. ASSUME NEW i \in 1 .. (Len(q) + Len(c)) - 1
      PROVE  (Tail(q) \o c)[i] = Tail(q \o c)[i]
  BY <1>1, <1>2, <1>3, <1>5
<1>7. Tail(q) \o c = Tail(q \o c) BY <1>1, <1>2, <1>5, <1>6, SeqEqual
<1>8. QED BY <1>1, <1>3, <1>4, <1>5, <1>7

\* Two queues one after the other, when a message is added to the second.
LEMMA AddLast ==
  ASSUME NEW q \in Seq(Message), NEW c \in Seq(Message), NEW m \in Message
  PROVE  q \o Append(c, m) = Append(q \o c, m)
<1>1. /\ Append(c, m) \in Seq(Message) /\ Len(Append(c, m)) = Len(c) + 1
      /\ Len(c) \in Nat /\ Len(q) \in Nat
      /\ \A i \in 1 .. Len(c) : Append(c, m)[i] = c[i]
      /\ Append(c, m)[Len(c) + 1] = m
  BY AppendProperties, LenProperties
<1>2. /\ q \o Append(c, m) \in Seq(Message)
      /\ Len(q \o Append(c, m)) = Len(q) + Len(c) + 1
      /\ \A i \in 1 .. (Len(q) + Len(c)) + 1 :
           (q \o Append(c, m))[i] = IF i <= Len(q) THEN q[i] ELSE Append(c, m)[i - Len(q)]
  BY <1>1, ConcatProperties
<1>3. /\ q \o c \in Seq(Message) /\ Len(q \o c) = Len(q) + Len(c)
      /\ \A i \in 1 .. Len(q) + Len(c) :
           (q \o c)[i] = IF i <= Len(q) THEN q[i] ELSE c[i - Len(q)]
  BY ConcatProperties
<1>4. /\ Append(q \o c, m) \in Seq(Message) /\ Len(Append(q \o c, m)) = Len(q) + Len(c) + 1
      /\ \A i \in 1 .. Len(q) + Len(c) : Append(q \o c, m)[i] = (q \o c)[i]
      /\ Append(q \o c, m)[(Len(q) + Len(c)) + 1] = m
  BY <1>3, AppendProperties
<1>5. ASSUME NEW i \in 1 .. (Len(q) + Len(c)) + 1
      PROVE  (q \o Append(c, m))[i] = Append(q \o c, m)[i]
  BY <1>1, <1>2, <1>3, <1>4
<1>6. QED BY <1>1, <1>2, <1>4, <1>5, SeqEqual

\* Two queues one after the other are empty when both are.
LEMMA BothEmpty ==
  ASSUME NEW q \in Seq(Message), NEW c \in Seq(Message)
  PROVE  q \o c = <<>> <=> q = <<>> /\ c = <<>>
<1>1. q \o c \in Seq(Message) /\ Len(q \o c) = Len(q) + Len(c) BY ConcatProperties
<1>2. Len(q) \in Nat /\ Len(c) \in Nat BY LenProperties
<1>3. \A s \in Seq(Message) : s = <<>> <=> Len(s) = 0 BY EmptySeq
<1>4. QED BY <1>1, <1>2, <1>3

\* Short queues.
LEMMA ShortQueues ==
  ASSUME NEW a \in Message, NEW b \in Message
  PROVE  /\ <<>> \in Seq(Message) /\ Len(<<>>) = 0
         /\ <<a>> \in Seq(Message) /\ <<a>> # <<>> /\ Len(<<a>>) = 1
         /\ Head(<<a>>) = a /\ Tail(<<a>>) = <<>> /\ Append(<<>>, a) = <<a>>
         /\ <<a, b>> \in Seq(Message) /\ <<a, b>> # <<>> /\ Len(<<a, b>>) = 2
         /\ Head(<<a, b>>) = a /\ Tail(<<a, b>>) = <<b>> /\ Append(<<a>>, b) = <<a, b>>
<1>1. <<>> \in Seq(Message) /\ Len(<<>>) = 0 OBVIOUS
<1>2. <<a>> \in Seq(Message) /\ <<a>> # <<>> /\ Len(<<a>>) = 1 OBVIOUS
<1>3. Head(<<a>>) = a /\ Tail(<<a>>) = <<>> OBVIOUS
<1>4. Append(<<>>, a) = <<a>> OBVIOUS
<1>5. <<a, b>> \in Seq(Message) /\ <<a, b>> # <<>> /\ Len(<<a, b>>) = 2 OBVIOUS
<1>6. Head(<<a, b>>) = a OBVIOUS
<1>7. Tail(<<a, b>>) = <<b>>
  <2>1. /\ Tail(<<a, b>>) \in Seq(Message) /\ Len(Tail(<<a, b>>)) = 1
        /\ Tail(<<a, b>>)[1] = b
    BY <1>5, HeadTailProperties
  <2>2. <<b>> \in Seq(Message) /\ Len(<<b>>) = 1 /\ <<b>>[1] = b OBVIOUS
  <2>3. QED BY <2>1, <2>2, SeqEqual
<1>8. Append(<<a>>, b) = <<a, b>>
  <2>1. /\ Append(<<a>>, b) \in Seq(Message) /\ Len(Append(<<a>>, b)) = 2
        /\ Append(<<a>>, b)[1] = a /\ Append(<<a>>, b)[2] = b
    BY <1>2, AppendProperties
  <2>2. \A i \in 1 .. 2 : Append(<<a>>, b)[i] = <<a, b>>[i] BY <2>1
  <2>3. QED BY <1>5, <2>1, <2>2, SeqEqual
<1>9. QED BY <1>1, <1>2, <1>3, <1>4, <1>5, <1>6, <1>7, <1>8

\* What holds of both sides in every phase.
LEMMA SmoothFacts ==
  ASSUME Smooth
  PROVE  /\ queue \in Seq(Message) /\ ctl \in Seq(Message)
         /\ bulk \in Seq(Message) /\ back \in Seq(Message)
         /\ task \in [at : Stage, f : 0 .. N]
         /\ N \in Nat /\ sfile \in 1 .. N + 1
         /\ bytes \in [File -> Nat] /\ \A f \in File : bytes[f] <= Size[f] /\ Size[f] \in Nat
         /\ \A f \in File : f < sfile => f \in done /\ f \in known
         /\ done \subseteq known /\ known \subseteq File
         /\ ~Stopped /\ ~rfailed /\ ~rdone /\ ~closed /\ ~sfailed /\ rotten = {}
         /\ spc \notin {"throw", "failed", "done"}
         /\ spc \in {"ready", "check", "chunks", "file-ok"} => sfile \in File
  BY SizeAssumption DEF Smooth, Inv, TypeOK, ChannelsOK, SenderOK, FilesOK, ReceiverOK, BookkeepingAgrees, AcksTrue, TaskAgrees, PublishedAgree, OnTrack, Calm, Stopped

\* The control messages of both sides are messages.
LEMMA ControlMessages ==
  /\ Manifest \in Message /\ Msg("all-done", 0) \in Message
  /\ \A f \in File :
       /\ Msg("file-begin", f) \in Message /\ Msg("restart", f) \in Message
       /\ Msg("file-end", f) \in Message /\ Msg("file-ok", f) \in Message
  BY SizeAssumption, FileRange, MsgType DEF Manifest

\* Without a failure a control message is sent.
LEMMA SentControl ==
  ASSUME Smooth, NEW m \in Message, NEW next, SendChecked(m, next) \/ SendControl(m, next)
  PROVE  spc' = next /\ ctl' = Append(ctl, m) /\ queue \o ctl' = Append(queue \o ctl, m)
<1>1. spc' = next /\ ctl' = Append(ctl, m)
  BY SmoothFacts DEF SendChecked, SendControl
<1>2. queue \in Seq(Message) /\ ctl \in Seq(Message) BY SmoothFacts
<1>3. queue \o Append(ctl, m) = Append(queue \o ctl, m) BY <1>2, AddLast
<1>4. QED BY <1>1, <1>3

\* The sender announces the transfer.
LEMMA SendManifestOn ==
  ASSUME Smooth, SendManifest
  PROVE  Plain'
<1>1. Starting /\ FilesInStep
  BY DEF SendManifest, Smooth, OnTrack, Phase, Announced, Between, Opening, Checking, Streaming, EndAt, Acknowledging, Finishing, Starting
<1>2. Manifest \in Message BY ControlMessages
<1>3. spc' = "begin" /\ queue \o ctl' = Append(queue \o ctl, Manifest)
  BY <1>2, SentControl DEF SendManifest, Manifest
<1>4. Append(<<>>, Manifest) = <<Manifest>> BY <1>2, ShortQueues
<1>5. Ahead(<<Manifest>>)'
  BY <1>1, <1>3, <1>4 DEF SendManifest, Starting, Ahead, receiver
<1>6. Announced'
  BY <1>1, <1>3, <1>5 DEF SendManifest, Starting, Announced, FilesInStep, receiver
<1>7. Calm' BY <1>3 DEF Smooth, OnTrack, Calm, SendManifest, receiver, disk
<1>8. FilesInStep' BY <1>1, <1>3 DEF FilesInStep, SendManifest, Starting, receiver, files
<1>9. QED BY <1>6, <1>7, <1>8 DEF Plain, OnTrack, Phase

\* The sender begins a file.
LEMMA SendBeginOn ==
  ASSUME Smooth, SendBegin
  PROVE  Plain'
<1>0. sfile \in File /\ sfile \notin known /\ sfile \notin sha \cup done /\ ~allDone
  BY SmoothFacts DEF SendBegin, Smooth, OnTrack, FilesInStep, File
<1>1. FilesInStep /\ ((Announced /\ Ahead(<<Manifest>>)) \/ Between)
  BY DEF SendBegin, Smooth, OnTrack, Phase, Announced, Between, Opening, Checking, Streaming, EndAt, Acknowledging, Finishing, Starting
<1>2. Manifest \in Message /\ Msg("file-begin", sfile) \in Message BY <1>0, ControlMessages
<1>3. /\ spc' = "ready"
      /\ queue \o ctl' = Append(queue \o ctl, Msg("file-begin", sfile))
  BY <1>2, SentControl DEF SendBegin
<1>4. /\ Append(<<>>, Msg("file-begin", sfile)) = <<Msg("file-begin", sfile)>>
      /\ Append(<<Manifest>>, Msg("file-begin", sfile)) = <<Manifest, Msg("file-begin", sfile)>>
  BY <1>2, ShortQueues
<1>5. ASSUME Announced, Ahead(<<Manifest>>) PROVE Phase'
  <2>1. Ahead(<<Manifest, Msg("file-begin", sfile)>>)'
    BY <1>3, <1>4, <1>5 DEF SendBegin, Ahead, receiver
  <2>2. QED BY <1>0, <1>3, <1>5, <2>1 DEF SendBegin, Announced, Phase, receiver, files
<1>6. ASSUME Between PROVE Phase'
  <2>1. Ahead(<<Msg("file-begin", sfile)>>)'
    BY <1>3, <1>4, <1>6 DEF SendBegin, Between, Ahead, receiver
  <2>2. Opening' BY <1>0, <1>3, <1>6, <2>1 DEF SendBegin, Between, Opening, Unstarted, receiver, files, disk
  <2>3. QED BY <2>2 DEF Phase
<1>7. Calm' BY <1>3 DEF Smooth, OnTrack, Calm, SendBegin, receiver, disk
<1>8. FilesInStep' BY <1>0, <1>1, <1>3 DEF FilesInStep, SendBegin, receiver, files
<1>9. QED BY <1>1, <1>5, <1>6, <1>7, <1>8 DEF Plain, OnTrack

\* After the last file the sender says so.
LEMMA SendAllDoneOn ==
  ASSUME Smooth, SendAllDone
  PROVE  Plain'
<1>0. ~allDone
  BY SmoothFacts DEF SendAllDone, Smooth, OnTrack, FilesInStep, File
<1>1. FilesInStep /\ ((Announced /\ Ahead(<<Manifest>>)) \/ Between)
  BY DEF SendAllDone, Smooth, OnTrack, Phase, Announced, Between, Opening, Checking, Streaming, EndAt, Acknowledging, Finishing, Starting
<1>2. Manifest \in Message /\ Msg("all-done", 0) \in Message BY ControlMessages
<1>3. /\ spc' = "all-done-ok"
      /\ queue \o ctl' = Append(queue \o ctl, Msg("all-done", 0))
  BY <1>2, SentControl DEF SendAllDone
<1>4. /\ Append(<<>>, Msg("all-done", 0)) = <<Msg("all-done", 0)>>
      /\ Append(<<Manifest>>, Msg("all-done", 0)) = <<Manifest, Msg("all-done", 0)>>
  BY <1>2, ShortQueues
<1>5. ASSUME Announced, Ahead(<<Manifest>>) PROVE Phase'
  <2>1. Ahead(<<Manifest, Msg("all-done", 0)>>)'
    BY <1>3, <1>4, <1>5 DEF SendAllDone, Ahead, receiver
  <2>2. QED BY <1>0, <1>3, <1>5, <2>1 DEF SendAllDone, Announced, Phase, receiver, files
<1>6. ASSUME Between PROVE Phase'
  <2>1. Ahead(<<Msg("all-done", 0)>>)'
    BY <1>3, <1>4, <1>6 DEF SendAllDone, Between, Ahead, receiver
  <2>2. Finishing' BY <1>0, <1>3, <1>6, <2>1 DEF SendAllDone, Between, Finishing, receiver
  <2>3. QED BY <2>2 DEF Phase
<1>7. Calm' BY <1>3 DEF Smooth, OnTrack, Calm, SendAllDone, receiver, disk
<1>8. FilesInStep' BY <1>0, <1>1, <1>3 DEF FilesInStep, SendAllDone, receiver, files
<1>9. QED BY <1>1, <1>5, <1>6, <1>7, <1>8 DEF Plain, OnTrack

\* The sender trusts the receiver's prefix, or has the file restarted.
LEMMA CheckReadyOn ==
  ASSUME Smooth, CheckReady
  PROVE  Plain'
<1>0. sfile \in File /\ bytes[sfile] \in Nat /\ bytes[sfile] <= Size[sfile] /\ Size[sfile] \in Nat
  BY SmoothFacts DEF CheckReady
<1>1. FilesInStep /\ Checking
  BY DEF CheckReady, Smooth, OnTrack, Phase, Announced, Between, Opening, Checking, Streaming, EndAt, Acknowledging, Finishing, Starting
<1>2. sready.n = bytes[sfile] /\ (sready.same => sfile \notin stale)
  BY <1>1 DEF Checking, Answer, Ready
<1>3. ~sfailed /\ ~(sready.n > Size[sfile]) BY <1>0, <1>2, SmoothFacts
<1>4. queue = <<>> /\ ctl = <<>> BY <1>1, SmoothFacts, BothEmpty DEF Checking, Ahead
<1>5. ASSUME sready.n = 0 \/ sready.same
      PROVE  Calm' /\ FilesInStep' /\ Phase'
  <2>1. spc' = "chunks" /\ sseq' = bytes[sfile] /\ UNCHANGED ctl
    BY <1>2, <1>3, <1>5 DEF CheckReady
  <2>2. sfile \in known \ (done \cup stale) /\ sfile \in part /\ sfile \notin sha
    <3>1. sfile \notin stale BY <1>0, <1>1, <1>2, <1>5 DEF FilesInStep
    <3>2. QED BY <1>1, <3>1 DEF Checking, Unstarted
  <2>3. Len(queue) = 0 /\ Len(bulk) = 0 /\ 1 \in 1 .. Len(queue) + 1
    BY <1>1, <1>4 DEF Checking
  <2>4. Queue(1)' BY <2>3 DEF Queue, CheckReady, receiver
  <2>5. Coming(1)' BY <1>0, <2>1, <2>3 DEF Coming, Queuing, CheckReady, receiver, files
  <2>6. EndAt(1)' BY <1>4, <2>1, <2>2, <2>3 DEF EndAt, CheckReady, receiver, files
  <2>7. Streaming'
    BY <1>1, <2>2, <2>3, <2>4, <2>5, <2>6 DEF Streaming, Checking, CheckReady, receiver, files, disk
  <2>8. Calm' BY <2>1 DEF Smooth, OnTrack, Calm, CheckReady, receiver, disk
  <2>9. FilesInStep' BY <1>1, <2>1 DEF FilesInStep, Checking, CheckReady, receiver, files
  <2>10. QED BY <2>7, <2>8, <2>9 DEF Phase
<1>6. ASSUME ~(sready.n = 0 \/ sready.same)
      PROVE  Calm' /\ FilesInStep' /\ Phase'
  <2>1. Msg("restart", sfile) \in Message BY <1>0, ControlMessages
  <2>2. SendControl(Msg("restart", sfile), "ready") BY <1>3, <1>6 DEF CheckReady
  <2>3. spc' = "ready" /\ queue \o ctl' = Append(queue \o ctl, Msg("restart", sfile))
    BY <2>1, <2>2, SentControl
  <2>4. Ahead(<<Msg("restart", sfile)>>)'
    BY <1>1, <2>1, <2>3, ShortQueues DEF Ahead, Checking, CheckReady, receiver
  <2>5. Opening'
    BY <1>1, <2>3, <2>4 DEF Opening, Checking, Unstarted, CheckReady, receiver, files, disk
  <2>6. Calm' BY <2>3 DEF Smooth, OnTrack, Calm, CheckReady, receiver, disk
  <2>7. FilesInStep' BY <1>1, <2>3 DEF FilesInStep, Checking, CheckReady, receiver, files
  <2>8. QED BY <2>5, <2>6, <2>7 DEF Phase
<1>7. QED BY <1>5, <1>6 DEF Plain, OnTrack

\* A chunk leaves the sender.
LEMMA SendChunkOn ==
  ASSUME Smooth, SendChunk
  PROVE  Plain'
<1>0. sfile \in File /\ bytes[sfile] \in Nat /\ Size[sfile] \in Nat /\ bulk \in Seq(Message)
  BY SmoothFacts DEF SendChunk
<1>1. FilesInStep /\ Streaming
  BY DEF SendChunk, Smooth, OnTrack, Phase, Announced, Between, Opening, Checking, Streaming, Acknowledging, Finishing, Starting
<1>2. PICK e \in 1 .. Len(queue) + 1 : Queue(e) /\ Coming(e) /\ EndAt(e) BY <1>1 DEF Streaming
<1>3. /\ bulk' = Append(bulk, Chunk(sfile, sseq)) /\ sseq' = sseq + 1 /\ UNCHANGED spc
  BY SmoothFacts DEF SendChunk
<1>4. /\ e = Len(queue) + 1 /\ Len(queue) \in Nat /\ Queuing(e) = Len(queue) /\ Queuing(e)' = Len(queue)
      /\ UNCHANGED queue
  BY <1>2, SmoothFacts, LenProperties DEF EndAt, SendChunk, Queuing, receiver
<1>5. /\ sseq = bytes[sfile] + Len(queue) + Len(bulk) /\ sseq < Size[sfile] /\ sseq \in Nat
      /\ Len(bulk) \in Nat
  BY <1>0, <1>2, <1>4, LenProperties DEF Coming, SendChunk
<1>6. Chunk(sfile, sseq) \in Message BY <1>0, <1>5, FileRange, DataType
<1>7. /\ bulk' \in Seq(Message) /\ Len(bulk') = Len(bulk) + 1
      /\ \A i \in 1 .. Len(bulk) : bulk'[i] = bulk[i]
      /\ bulk'[Len(bulk) + 1] = Chunk(sfile, sseq)
  BY <1>0, <1>3, <1>6, AppendProperties
<1>8. UNCHANGED <<sfile, bytes>> BY DEF SendChunk, files
<1>9. ASSUME NEW i \in 1 .. Len(bulk')
      PROVE  bulk'[i] = Chunk(sfile, bytes[sfile] + Len(queue) + (i - 1))
  <2>1. CASE i \in 1 .. Len(bulk) BY <1>2, <1>4, <1>7, <2>1 DEF Coming
  <2>2. CASE i = Len(bulk) + 1
    <3>1. bytes[sfile] + Len(queue) + (i - 1) = sseq BY <1>0, <1>4, <1>5, <2>2
    <3>2. QED BY <1>7, <2>2, <3>1
  <2>3. QED BY <1>5, <1>7, <2>1, <2>2
<1>10. Coming(e)'
  <2>0. sseq' = sseq + 1 /\ Len(bulk') = Len(bulk) + 1 /\ Len(queue) \in Nat
    BY <1>3, <1>4, <1>7
  <2>1. sseq' = bytes[sfile] + Len(queue) + Len(bulk') BY <1>0, <1>5, <2>0
  <2>2. sseq' <= Size[sfile] BY <1>0, <1>3, <1>5
  <2>3. QED BY <1>4, <1>8, <1>9, <2>1, <2>2 DEF Coming
<1>11. Queue(e)' BY <1>2, <1>4, <1>8 DEF Queue
<1>12. EndAt(e)' BY <1>2, <1>3, <1>4, <1>8 DEF EndAt, SendChunk, files
<1>13. Streaming'
  BY <1>1, <1>4, <1>10, <1>11, <1>12 DEF Streaming, SendChunk, receiver, files, disk
<1>14. Calm' BY <1>3 DEF Smooth, OnTrack, Calm, SendChunk, receiver, disk
<1>15. FilesInStep' BY <1>1, <1>3 DEF FilesInStep, SendChunk, receiver, files
<1>16. QED BY <1>13, <1>14, <1>15 DEF Plain, OnTrack, Phase

\* The file-end leaves the sender.
LEMMA SendEndOn ==
  ASSUME Smooth, SendEnd
  PROVE  Plain'
<1>0. sfile \in File /\ Size[sfile] \in Nat BY SmoothFacts DEF SendEnd
<1>1. FilesInStep /\ Streaming
  BY DEF SendEnd, Smooth, OnTrack, Phase, Announced, Between, Opening, Checking, Streaming, Acknowledging, Finishing, Starting
<1>2. PICK e \in 1 .. Len(queue) + 1 : Queue(e) /\ Coming(e) /\ EndAt(e) BY <1>1 DEF Streaming
<1>3. Msg("file-end", sfile) \in Message BY <1>0, ControlMessages
<1>4. spc' = "file-ok" /\ ctl' = Append(ctl, Msg("file-end", sfile))
  BY <1>3, SentControl DEF SendEnd
<1>5. ctl = <<>> /\ e = Len(queue) + 1 /\ sfile \notin sha BY <1>2 DEF EndAt, SendEnd
<1>6. ctl' = <<Msg("file-end", sfile)>> BY <1>3, <1>4, <1>5, ShortQueues
<1>7. sseq = Size[sfile] BY <1>0, <1>2 DEF SendEnd, Coming, Smooth, Inv, TypeOK, SenderOK
<1>8. UNCHANGED <<sfile, sseq, bytes, bulk, queue>> BY DEF SendEnd, files, receiver
<1>9. Queue(e)' BY <1>2, <1>8 DEF Queue
<1>10. Coming(e)' BY <1>2, <1>8 DEF Coming, Queuing
<1>11. EndAt(e)' BY <1>4, <1>5, <1>6, <1>7, <1>8 DEF EndAt, SendEnd, files
<1>12. Streaming'
  BY <1>1, <1>8, <1>9, <1>10, <1>11 DEF Streaming, SendEnd, receiver, files, disk
<1>13. Calm' BY <1>4 DEF Smooth, OnTrack, Calm, SendEnd, receiver, disk
<1>14. FilesInStep' BY <1>1, <1>4 DEF FilesInStep, SendEnd, receiver, files, EndAt, Streaming
<1>15. QED BY <1>12, <1>13, <1>14 DEF Plain, OnTrack, Phase

\* The acknowledgement that arrives is the one the sender waits for.
LEMMA HandleSenderControlOn ==
  ASSUME Smooth, HandleSenderControl
  PROVE  Plain'
<1>1. FilesInStep /\ (Opening \/ Acknowledging)
  BY DEF HandleSenderControl, Smooth, OnTrack, Phase, Announced, Between, Opening, Checking, Streaming, Acknowledging, Finishing, Starting
<1>0. sfile \in File /\ bytes[sfile] \in Nat
  BY <1>1, SmoothFacts DEF Opening, Acknowledging
<1>2. ASSUME Opening PROVE Calm' /\ FilesInStep' /\ Phase'
  <2>1. back = <<Answer>> /\ task = Idle /\ Ahead(<<>>) /\ sfile \in known
    BY <1>2 DEF Opening, HandleSenderControl
  <2>2. Answer \in Message BY <1>0, FileRange, DataType DEF Answer
  <2>3. Head(back) = Answer /\ Tail(back) = <<>> BY <2>1, <2>2, ShortQueues
  <2>4. Answer.t = "ready" /\ Answer.f = sfile BY DEF Answer, Ready
  <2>5. Expected(Answer) BY <1>2, <2>4 DEF Expected, Opening, Waiting
  <2>6. spc' = "check" /\ sready' = Answer /\ sfile' = sfile /\ back' = <<>> /\ UNCHANGED sfailed
    BY <2>3, <2>4, <2>5 DEF HandleSenderControl
  <2>7. Answer' = Answer BY <2>6 DEF Answer, HandleSenderControl, files
  <2>8. Checking'
    BY <1>2, <2>1, <2>6, <2>7 DEF Checking, Opening, Unstarted, Ahead, HandleSenderControl, receiver, files, disk
  <2>9. Calm' BY <2>6 DEF Smooth, OnTrack, Calm, HandleSenderControl, receiver, disk
  <2>10. FilesInStep'
    BY <1>1, <1>2, <2>6 DEF FilesInStep, Opening, HandleSenderControl, receiver, files
  <2>11. QED BY <2>8, <2>9, <2>10 DEF Phase
<1>3. ASSUME Acknowledging PROVE Calm' /\ FilesInStep' /\ Phase'
  <2> DEFINE m == Msg("file-ok", sfile)
  <2>1. m \in Message /\ m.t = "file-ok" /\ m.f = sfile BY <1>0, FileRange, MsgType
  <2>2. back = <<m>> BY <1>3 DEF Acknowledging
  <2>3. Head(back) = m /\ Tail(back) = <<>> BY <2>1, <2>2, ShortQueues
  <2> HIDE DEF m
  <2>4. Expected(m) BY <1>3, <2>1 DEF Expected, Acknowledging, Waiting
  <2>5. spc' = "begin" /\ sfile' = sfile + 1 /\ back' = <<>> /\ UNCHANGED sfailed
    BY <2>1, <2>3, <2>4 DEF HandleSenderControl
  <2>6. Between'
    BY <1>3, <2>5 DEF Between, Acknowledging, Ahead, HandleSenderControl, receiver
  <2>7. Calm' BY <2>5 DEF Smooth, OnTrack, Calm, HandleSenderControl, receiver, disk
  <2>8. FilesInStep'
    <3>1. \A f \in known : f \in File /\ (f < sfile \/ f = sfile)
      BY <1>1, SmoothFacts DEF FilesInStep
    <3>2. \A f \in known : f < sfile + 1 BY <1>0, <3>1 DEF File
    <3>3. QED BY <1>1, <1>3, <2>5, <3>2 DEF FilesInStep, Acknowledging, HandleSenderControl, receiver, files
  <2>9. QED BY <2>6, <2>7, <2>8 DEF Phase
<1>4. QED BY <1>1, <1>2, <1>3 DEF Plain, OnTrack

\* While the queue has room a message is queued.
LEMMA EnqueueRoom ==
  ASSUME NEW m, Enqueue(m), Queued \in Nat, MaxQueue \in Nat, Queued + 1 <= MaxQueue
  PROVE  queue' = Append(queue, m) /\ UNCHANGED rfailed
  BY DEF Enqueue

\* Control messages are queued in the order in which they were sent.
LEMMA ArriveControlOn ==
  ASSUME Smooth, ArriveControl
  PROVE  Plain'
<1>0. /\ queue \in Seq(Message) /\ ctl \in Seq(Message) /\ ctl # <<>> /\ Len(queue) \in Nat
      /\ MaxQueue \in Nat /\ 2 <= MaxQueue /\ N \in Nat
  BY SmoothFacts, LenProperties, OptionAssumption DEF ArriveControl, Smooth, QueueSuffices
<1>1. Append(queue, Head(ctl)) \o Tail(ctl) = queue \o ctl /\ Len(queue) + 1 <= Len(queue \o ctl)
  BY <1>0, MoveOver
<1>2. FilesInStep /\ (Announced \/ Opening \/ Finishing \/ Streaming)
  <2>1. ~Ahead(<<>>) BY <1>0, BothEmpty DEF Ahead
  <2>2. QED BY <2>1 DEF Smooth, OnTrack, Phase, Starting, Between, Checking, Acknowledging
<1>3. ASSUME Announced \/ Opening \/ Finishing
      PROVE  Phase' /\ UNCHANGED rfailed
  <2>0. ~Ahead(<<>>) BY <1>0, BothEmpty DEF Ahead
  <2>1. task = Idle /\ Len(queue \o ctl) \in {1, 2}
    <3>1. CASE Announced
      <4>1. spc \in {"ready"} => sfile \in File BY SmoothFacts
      <4>2. QED BY <3>1, <4>1, ControlMessages, ShortQueues DEF Announced, Ahead
    <3>2. CASE Opening
      <4>1. sfile \in File BY <3>2, SmoothFacts DEF Opening
      <4>2. QED BY <2>0, <3>2, <4>1, ControlMessages, ShortQueues DEF Opening, Ahead
    <3>3. CASE Finishing
      BY <2>0, <3>3, ControlMessages, ShortQueues DEF Finishing, Ahead
    <3>4. QED BY <1>3, <3>1, <3>2, <3>3
  <2>2. Queued = Len(queue) BY <1>0, <2>1 DEF Queued
  <2>3. Queued \in Nat /\ Queued + 1 <= MaxQueue BY <1>0, <1>1, <2>1, <2>2
  <2>4. queue' = Append(queue, Head(ctl)) /\ UNCHANGED rfailed
    BY <1>0, <2>3, EnqueueRoom DEF ArriveControl
  <2>5. queue' \o ctl' = queue \o ctl BY <1>1, <2>4 DEF ArriveControl
  <2>6. UNCHANGED <<bulk, back, spc, sfile, task, manifest, allDone, known, bytes, stale, sha, done, part>>
    BY DEF ArriveControl, sender, files, disk
  <2>7. CASE Announced BY <2>4, <2>5, <2>6, <2>7 DEF Phase, Announced, Ahead
  <2>8. CASE Opening BY <2>4, <2>5, <2>6, <2>8 DEF Phase, Opening, Ahead, Unstarted, Answer
  <2>9. CASE Finishing BY <2>4, <2>5, <2>6, <2>9 DEF Phase, Finishing, Ahead
  <2>10. QED BY <1>3, <2>4, <2>7, <2>8, <2>9
<1>4. ASSUME Streaming PROVE Phase' /\ UNCHANGED rfailed
  <2>0. sfile \in File /\ bytes[sfile] \in Nat /\ Size[sfile] \in Nat /\ Size[sfile] + 1 <= MaxQueue
        /\ bulk \in Seq(Message) /\ Len(bulk) \in Nat
    BY <1>4, SmoothFacts, LenProperties DEF Smooth, QueueSuffices, Streaming
  <2>1. PICK e \in 1 .. Len(queue) + 1 : Queue(e) /\ Coming(e) /\ EndAt(e)
    BY <1>4 DEF Streaming
  <2>2. /\ spc = "file-ok" /\ sseq = Size[sfile] /\ ctl = <<Msg("file-end", sfile)>>
        /\ e = Len(queue) + 1 /\ sfile \notin sha
    BY <1>0, <2>1 DEF EndAt
  <2>3. Msg("file-end", sfile) \in Message BY <2>0, ControlMessages
  <2>4. Head(ctl) = Msg("file-end", sfile) /\ Tail(ctl) = <<>> BY <2>2, <2>3, ShortQueues
  <2>5. Queuing(e) = Len(queue) BY <1>0, <2>2 DEF Queuing
  <2>6. bytes[sfile] + Len(queue) + Len(bulk) = Size[sfile] BY <2>1, <2>2, <2>5 DEF Coming
  <2>7. task = Idle \/ (task = At("write", sfile) /\ bytes[sfile] > 0)
    <3>1. task.at \in {"verify", "link", "publish", "recheck"} => task.f \in sha
      BY DEF Smooth, Inv, BookkeepingAgrees, TaskAgrees
    <3>2. QED BY <1>4, <2>2, <3>1 DEF Streaming
  <2>8. Queued \in Nat /\ Queued + 1 <= MaxQueue BY <1>0, <2>0, <2>6, <2>7 DEF Queued
  <2>9. queue' = Append(queue, Msg("file-end", sfile)) /\ UNCHANGED rfailed
    BY <1>0, <2>4, <2>8, EnqueueRoom DEF ArriveControl
  <2>10. /\ queue' \in Seq(Message) /\ Len(queue') = Len(queue) + 1
         /\ \A i \in 1 .. Len(queue) : queue'[i] = queue[i]
         /\ queue'[Len(queue) + 1] = Msg("file-end", sfile)
    BY <1>0, <2>3, <2>9, AppendProperties
  <2>11. UNCHANGED <<bulk, back, spc, sfile, sseq, task, manifest, allDone, known, bytes, stale, sha, done, part>>
    BY DEF ArriveControl, sender, files, disk
  <2>12. e \in 1 .. Len(queue') + 1 /\ e <= Len(queue') BY <1>0, <2>2, <2>10
  <2>13. Queue(e)'
    <3>1. ASSUME NEW i \in 1 .. Len(queue')
          PROVE  queue'[i] = IF i < e THEN Chunk(sfile, bytes[sfile] + (i - 1))
                             ELSE IF i = e THEN Msg("file-end", sfile)
                             ELSE Chunk(sfile, bytes[sfile] + (i - 2))
      <4>1. CASE i \in 1 .. Len(queue) BY <1>0, <2>1, <2>2, <2>10, <4>1 DEF Queue
      <4>2. CASE i = Len(queue) + 1 BY <1>0, <2>2, <2>10, <4>2
      <4>3. QED BY <1>0, <2>10, <4>1, <4>2
    <3>2. QED BY <2>11, <2>12, <3>1 DEF Queue
  <2>14. Queuing(e)' = Len(queue) BY <1>0, <2>10, <2>12 DEF Queuing
  <2>15. Coming(e)' BY <2>1, <2>5, <2>11, <2>14 DEF Coming
  <2>16. EndAt(e)' BY <2>2, <2>4, <2>11, <2>12 DEF EndAt, ArriveControl
  <2>17. Streaming' BY <1>4, <2>11, <2>12, <2>13, <2>15, <2>16 DEF Streaming
  <2>18. QED BY <2>9, <2>17 DEF Phase
<1>5. Phase' /\ UNCHANGED rfailed BY <1>2, <1>3, <1>4
<1>6. Calm' BY <1>5 DEF Smooth, OnTrack, Calm, ArriveControl, sender, disk
<1>7. FilesInStep' BY <1>2 DEF FilesInStep, ArriveControl, sender, files
<1>8. QED BY <1>5, <1>6, <1>7 DEF Plain, OnTrack

\* A sum of which one part moves from one summand to another.
LEMMA Moved ==
  \A a, b, c \in Int : /\ a + b + ((c + 1) - 1) = a + (b + 1) + (c - 1)
                        /\ a + b + c = a + (b + 1) + (c - 1)
  OBVIOUS

\* Chunks are queued in the order in which they were sent, before or after the file-end.
LEMMA ArriveBulkOn ==
  ASSUME Smooth, ArriveBulk
  PROVE  Plain'
<1>0. /\ queue \in Seq(Message) /\ bulk \in Seq(Message) /\ bulk # <<>> /\ Len(queue) \in Nat
      /\ MaxQueue \in Nat /\ Len(bulk) \in Nat /\ Len(bulk) > 0
  BY SmoothFacts, LenProperties, EmptySeq, OptionAssumption DEF ArriveBulk
<1>1. FilesInStep /\ Streaming
  BY <1>0 DEF Smooth, OnTrack, Phase, Announced, Between, Opening, Checking, Acknowledging, Finishing, Starting
<1>2. /\ sfile \in File /\ bytes[sfile] \in Nat /\ Size[sfile] \in Nat
      /\ Size[sfile] + 1 <= MaxQueue
  BY <1>1, SmoothFacts DEF Smooth, QueueSuffices, Streaming
<1>3. PICK e \in 1 .. Len(queue) + 1 : Queue(e) /\ Coming(e) /\ EndAt(e)
  BY <1>1 DEF Streaming
<1> DEFINE k == Queuing(e)
           c == Chunk(sfile, bytes[sfile] + k)
<1>4. /\ k \in Nat /\ Len(queue) <= k + 1 /\ (e > Len(queue) => Len(queue) = k)
      /\ (e <= Len(queue) => Len(queue) = k + 1)
  BY <1>0, <1>3 DEF Queuing
<1>5. bytes[sfile] + k + Len(bulk) <= Size[sfile] BY <1>3 DEF Coming
<1>6. Head(bulk) = c
  <2>1. Head(bulk) = bulk[1] /\ 1 \in 1 .. Len(bulk) BY <1>0
  <2>2. bulk[1] = Chunk(sfile, bytes[sfile] + k + (1 - 1)) BY <1>3, <2>1 DEF Coming
  <2>3. bytes[sfile] + k + (1 - 1) = bytes[sfile] + k BY <1>2, <1>4
  <2>4. QED BY <2>1, <2>2, <2>3
<1>7. c \in Message
  <2>1. bytes[sfile] + k \in Nat /\ sfile \in 0 .. N BY <1>2, <1>4, FileRange
  <2>2. QED BY <2>1, DataType
<1>8. task = Idle \/ (task = At("write", sfile) /\ bytes[sfile] > 0)
  <2>1. task.at \in {"verify", "link", "publish", "recheck"} => bytes[task.f] = Size[task.f]
    BY DEF Smooth, Inv, BookkeepingAgrees, TaskAgrees
  <2>2. bytes[sfile] # Size[sfile] BY <1>0, <1>2, <1>4, <1>5
  <2>3. QED BY <1>1, <2>1, <2>2 DEF Streaming
<1> HIDE DEF k, c
<1>9. Queued \in Nat /\ Queued + 1 <= MaxQueue BY <1>0, <1>2, <1>4, <1>5, <1>8 DEF Queued
<1>10. queue' = Append(queue, c) /\ UNCHANGED rfailed
  BY <1>0, <1>6, <1>9, EnqueueRoom DEF ArriveBulk
<1>11. /\ queue' \in Seq(Message) /\ Len(queue') = Len(queue) + 1
       /\ \A i \in 1 .. Len(queue) : queue'[i] = queue[i]
       /\ queue'[Len(queue) + 1] = c
  BY <1>0, <1>7, <1>10, AppendProperties
<1>12. /\ bulk' \in Seq(Message) /\ Len(bulk') = Len(bulk) - 1
       /\ \A i \in 1 .. Len(bulk') : bulk'[i] = bulk[i + 1]
  BY <1>0, HeadTailProperties DEF ArriveBulk
<1>13. UNCHANGED <<ctl, back, spc, sfile, sseq, task, manifest, allDone, known, bytes, stale, sha, done, part>>
  BY DEF ArriveBulk, sender, files, disk
<1>14. PICK d \in 1 .. Len(queue) + 2 :
         (e <= Len(queue) /\ d = e) \/ (e = Len(queue) + 1 /\ d = Len(queue) + 2)
  <2>1. CASE e <= Len(queue) BY <1>0, <2>1
  <2>2. CASE e = Len(queue) + 1 BY <1>0, <2>2
  <2>3. QED BY <1>0, <2>1, <2>2
<1>15. d \in 1 .. Len(queue') + 1 BY <1>0, <1>11, <1>14
<1>16. Queue(d)'
  <2>1. ASSUME NEW i \in 1 .. Len(queue')
        PROVE  queue'[i] = IF i < d THEN Chunk(sfile, bytes[sfile] + (i - 1))
                           ELSE IF i = d THEN Msg("file-end", sfile)
                           ELSE Chunk(sfile, bytes[sfile] + (i - 2))
    <3>1. CASE i \in 1 .. Len(queue)
      <4>1. queue'[i] = queue[i] BY <1>11, <3>1
      <4>2. (i < d <=> i < e) /\ (i = d <=> i = e) BY <1>0, <1>14, <3>1
      <4>3. QED BY <1>3, <3>1, <4>1, <4>2 DEF Queue
    <3>2. CASE i = Len(queue) + 1
      <4>1. CASE e <= Len(queue)
        <5>0. i = k + 2 /\ i > d /\ k \in Nat BY <1>0, <1>4, <1>14, <3>2, <4>1
        <5>1. bytes[sfile] + (i - 2) = bytes[sfile] + k BY <1>2, <5>0
        <5>2. QED BY <1>0, <1>11, <1>14, <3>2, <4>1, <5>0, <5>1 DEF c
      <4>2. CASE e = Len(queue) + 1
        <5>1. i < d /\ bytes[sfile] + (i - 1) = bytes[sfile] + k BY <1>0, <1>2, <1>4, <1>14, <3>2, <4>2
        <5>2. QED BY <1>0, <1>11, <1>14, <3>2, <4>2, <5>1 DEF c
      <4>3. QED BY <1>0, <4>1, <4>2
    <3>3. QED BY <1>0, <1>11, <3>1, <3>2
  <2>2. QED BY <1>13, <1>15, <2>1 DEF Queue
<1>17. Queuing(d)' = k + 1 BY <1>0, <1>4, <1>11, <1>14 DEF Queuing
<1>18. Coming(d)'
  <2>1. ASSUME NEW i \in 1 .. Len(bulk')
        PROVE  bulk'[i] = Chunk(sfile, bytes[sfile] + (k + 1) + (i - 1))
    <3>1. i + 1 \in 1 .. Len(bulk) BY <1>0, <1>12
    <3>2. bulk[i + 1] = Chunk(sfile, bytes[sfile] + k + ((i + 1) - 1)) BY <1>3, <3>1 DEF Coming, k
    <3>0. i \in Nat /\ k \in Nat BY <1>4, <3>1
    <3>3. bytes[sfile] + k + ((i + 1) - 1) = bytes[sfile] + (k + 1) + (i - 1)
      <4>1. bytes[sfile] \in Int /\ k \in Int /\ i \in Int BY <1>2, <3>0
      <4>2. QED BY <4>1, Moved
    <3>4. QED BY <1>12, <3>2, <3>3
  <2>2. sseq = bytes[sfile] + (k + 1) + Len(bulk')
    <3>1. sseq = bytes[sfile] + k + Len(bulk) BY <1>3 DEF Coming, k
    <3>2. Len(bulk') = Len(bulk) - 1 /\ Len(bulk) \in Nat /\ k \in Nat BY <1>0, <1>4, <1>12
    <3>3. bytes[sfile] \in Int /\ k \in Int /\ Len(bulk) \in Int BY <1>2, <3>2
    <3>4. bytes[sfile] + k + Len(bulk) = bytes[sfile] + (k + 1) + (Len(bulk) - 1)
      BY <3>3, Moved
    <3>5. QED BY <3>1, <3>2, <3>4
  <2>3. sseq <= Size[sfile] BY <1>3 DEF Coming
  <2>4. QED BY <1>13, <1>17, <2>1, <2>2, <2>3 DEF Coming
<1>19. EndAt(d)' BY <1>0, <1>3, <1>11, <1>13, <1>14 DEF EndAt
<1>20. Streaming' BY <1>1, <1>13, <1>15, <1>16, <1>18, <1>19 DEF Streaming
<1>21. Calm' BY <1>10 DEF Smooth, OnTrack, Calm, ArriveBulk, sender, disk
<1>22. FilesInStep' BY <1>1 DEF FilesInStep, ArriveBulk, sender, files
<1>23. QED BY <1>20, <1>21, <1>22 DEF Plain, OnTrack, Phase

\* The first control message is the one its phase says; the rest stays ahead.
LEMMA FirstAhead ==
  ASSUME Smooth, queue # <<>>, queue' = Tail(queue), UNCHANGED ctl,
         NEW a \in Message, NEW b \in Message
  PROVE  /\ ~Ahead(<<>>)
         /\ Ahead(<<a>>) => Head(queue) = a /\ Ahead(<<>>)'
         /\ Ahead(<<a, b>>) => Head(queue) = a /\ Ahead(<<b>>)'
<1>1. queue \in Seq(Message) /\ ctl \in Seq(Message) BY SmoothFacts
<1>2. Head(queue) = Head(queue \o ctl) /\ Tail(queue) \o ctl = Tail(queue \o ctl)
  BY <1>1, TakeFirst
<1>3. Head(<<a>>) = a /\ Tail(<<a>>) = <<>> /\ Head(<<a, b>>) = a /\ Tail(<<a, b>>) = <<b>>
  BY ShortQueues
<1>4. ~Ahead(<<>>) BY <1>1, BothEmpty DEF Ahead
<1>5. QED BY <1>2, <1>3, <1>4 DEF Ahead

\* The chunks and the file-end in the queue: what comes first, and what follows it.
LEMMA FirstQueued ==
  ASSUME Smooth, Streaming, queue # <<>>,
         NEW e \in 1 .. Len(queue) + 1, Queue(e), Coming(e), EndAt(e)
  PROVE  /\ e = 1 => Head(queue) = Msg("file-end", sfile) /\ sfile \notin sha
         /\ e > 1 => /\ Head(queue) = Chunk(sfile, bytes[sfile])
                     /\ bytes[sfile] < Size[sfile]
         /\ Tail(queue) \in Seq(Message) /\ Len(Tail(queue)) = Len(queue) - 1 /\ Len(queue) \in Nat
         /\ Len(queue) > 0
         /\ \A i \in 1 .. Len(Tail(queue)) : i + 1 \in 1 .. Len(queue) /\ Tail(queue)[i] = queue[i + 1]
<1>1. queue \in Seq(Message) BY SmoothFacts
<1>2. /\ Head(queue) = queue[1] /\ 1 \in 1 .. Len(queue)
      /\ Tail(queue) \in Seq(Message) /\ Len(Tail(queue)) = Len(queue) - 1 /\ Len(queue) \in Nat
      /\ Len(queue) > 0
      /\ \A i \in 1 .. Len(Tail(queue)) : i + 1 \in 1 .. Len(queue) /\ Tail(queue)[i] = queue[i + 1]
  BY <1>1, HeadTailProperties, LenProperties
<1>3. ASSUME e = 1 PROVE Head(queue) = Msg("file-end", sfile) /\ sfile \notin sha
  BY <1>2, <1>3 DEF Queue, EndAt
<1>4. ASSUME e > 1 PROVE Head(queue) = Chunk(sfile, bytes[sfile]) /\ bytes[sfile] < Size[sfile]
  <2>1. sfile \in File /\ bytes[sfile] \in Nat /\ Size[sfile] \in Nat /\ Len(bulk) \in Nat
    BY SmoothFacts, LenProperties DEF Streaming
  <2>2. queue[1] = Chunk(sfile, bytes[sfile] + (1 - 1)) BY <1>2, <1>4 DEF Queue
  <2>3. bytes[sfile] + (1 - 1) = bytes[sfile] BY <2>1
  <2>4. Queuing(e) \in Nat /\ Queuing(e) >= 1 BY <1>2, <1>4 DEF Queuing
  <2>5. bytes[sfile] + Queuing(e) + Len(bulk) <= Size[sfile] BY DEF Coming
  <2>6. bytes[sfile] < Size[sfile] BY <2>1, <2>4, <2>5
  <2>7. QED BY <1>2, <2>2, <2>3, <2>6
<1>5. QED BY <1>2, <1>3, <1>4

\* Whatever the running task takes from the queue, it accepts.
LEMMA FrontIs ==
  ASSUME Smooth, queue # <<>>, task = Idle
  PROVE  \/ Announced /\ Head(queue) = Manifest
         \/ Opening /\ Head(queue) = Msg("file-begin", sfile) /\ sfile \notin known
         \/ Opening /\ Head(queue) = Msg("restart", sfile) /\ sfile \in known
         \/ Finishing /\ Head(queue) = Msg("all-done", 0) /\ ~allDone
         \/ Streaming /\ Head(queue) = Msg("file-end", sfile) /\ sfile \notin sha
         \/ /\ Streaming /\ Head(queue) = Chunk(sfile, bytes[sfile])
            /\ bytes[sfile] < Size[sfile]
<1>0. queue \in Seq(Message) /\ ctl \in Seq(Message) BY SmoothFacts
<1>1. /\ \A a \in Message : Ahead(<<a>>) => Head(queue) = a
      /\ \A a, b \in Message : Ahead(<<a, b>>) => Head(queue) = a
  <2>1. Head(queue) = Head(queue \o ctl) BY <1>0, TakeFirst
  <2>2. QED BY <2>1, ShortQueues DEF Ahead
<1>2. ~Ahead(<<>>) BY <1>0, BothEmpty DEF Ahead
<1>3. Announced \/ Opening \/ Finishing \/ Streaming
  BY <1>2 DEF Smooth, OnTrack, Phase, Starting, Between, Checking, Acknowledging
<1>4. Idle.at = "idle" /\ \A s \in Stage, f \in 0 .. N : At(s, f).at = s BY TaskType
<1>5. CASE Announced
  <2>1. spc = "ready" => Msg("file-begin", sfile) \in Message BY SmoothFacts, ControlMessages
  <2>2. Manifest \in Message /\ Msg("all-done", 0) \in Message BY ControlMessages
  <2>3. QED BY <1>1, <1>5, <2>1, <2>2 DEF Announced
<1>6. CASE Opening
  <2>1. sfile \in File BY <1>6, SmoothFacts DEF Opening
  <2>2. Msg("file-begin", sfile) \in Message /\ Msg("restart", sfile) \in Message
    BY <2>1, ControlMessages
  <2>3. QED BY <1>1, <1>2, <1>6, <2>2 DEF Opening
<1>7. CASE Finishing
  <2>1. Msg("all-done", 0) \in Message BY ControlMessages
  <2>2. QED BY <1>1, <1>2, <1>7, <2>1 DEF Finishing
<1>8. CASE Streaming
  <2>1. PICK e \in 1 .. Len(queue) + 1 : Queue(e) /\ Coming(e) /\ EndAt(e)
    BY <1>8 DEF Streaming
  <2>2. CASE e = 1 BY <1>8, <2>1, <2>2, FirstQueued
  <2>3. CASE e > 1 BY <1>8, <2>1, <2>3, FirstQueued
  <2>4. QED BY <2>1, <2>2, <2>3
<1>9. QED BY <1>3, <1>5, <1>6, <1>7, <1>8

\* The messages by their type.
LEMMA TypeOfMessages ==
  /\ Manifest.t = "manifest"
  /\ \A f : /\ Msg("file-begin", f).t = "file-begin" /\ Msg("file-begin", f).f = f
            /\ Msg("restart", f).t = "restart" /\ Msg("restart", f).f = f
            /\ Msg("file-end", f).t = "file-end" /\ Msg("file-end", f).f = f
            /\ Msg("all-done", f).t = "all-done"
  /\ \A f, n : Chunk(f, n).t = "chunk" /\ Chunk(f, n).f = f /\ Chunk(f, n).n = n
  BY DEF Msg, Manifest, Chunk

\* No message is refused.
LEMMA HandleRefusedOn ==
  ASSUME Smooth, HandleRefused
  PROVE  FALSE
<1>0. queue # <<>> /\ task = Idle BY DEF HandleRefused, Take
<1>1. File \subseteq Nat /\ N \in Nat /\ File = 1 .. N BY SizeAssumption DEF File
<1>2. CASE Announced /\ Head(queue) = Manifest
  BY <1>2, TypeOfMessages DEF HandleRefused, Take, Announced
<1>3. CASE Opening /\ Head(queue) = Msg("file-begin", sfile) /\ sfile \notin known
  <2>1. sfile \in File /\ manifest BY <1>3, SmoothFacts DEF Opening
  <2>2. QED BY <1>3, <2>1, TypeOfMessages DEF HandleRefused, Take, MayBegin
<1>4. CASE Opening /\ Head(queue) = Msg("restart", sfile) /\ sfile \in known
  BY <1>4, TypeOfMessages DEF HandleRefused, Take, MayRestart, Opening, Unstarted
<1>5. CASE Finishing /\ Head(queue) = Msg("all-done", 0) /\ ~allDone
  <2>1. \A f \in File : f < sfile BY <1>1, <1>5, SmoothFacts DEF Finishing
  <2>2. known = File BY <2>1, SmoothFacts
  <2>3. QED BY <1>5, <2>2, TypeOfMessages DEF HandleRefused, Take, MayAllDone, Finishing
<1>6. CASE Streaming /\ Head(queue) = Msg("file-end", sfile) /\ sfile \notin sha
  BY <1>6, TypeOfMessages DEF HandleRefused, Take, MayEnd, Streaming
<1>7. CASE Streaming /\ Head(queue) = Chunk(sfile, bytes[sfile]) /\ bytes[sfile] < Size[sfile]
  BY <1>7, TypeOfMessages DEF HandleRefused, Take, MayAccept, Streaming
<1>8. QED BY <1>0, <1>2, <1>3, <1>4, <1>5, <1>6, <1>7, FrontIs

\* The manifest is handled.
LEMMA HandleManifestOn ==
  ASSUME Smooth, HandleManifest
  PROVE  Plain'
<1>0. /\ queue # <<>> /\ task = Idle /\ Head(queue).t = "manifest" /\ queue' = Tail(queue)
      /\ UNCHANGED <<ctl, bulk, back, closed, sender, files, disk, task, allDone, rfailed, rdone>>
  BY DEF HandleManifest, Take, channels
<1>1. Announced /\ FilesInStep
  BY <1>0, FrontIs, TypeOfMessages DEF Smooth, OnTrack
<1>2. Manifest \in Message /\ Msg("all-done", 0) \in Message BY ControlMessages
<1>3. Phase'
  <2>1. CASE spc = "begin" /\ Ahead(<<Manifest>>)
    <3>1. Ahead(<<>>)' BY <1>0, <1>2, <2>1, FirstAhead
    <3>2. Between' BY <1>0, <1>1, <2>1, <3>1 DEF Between, Announced, HandleManifest, sender
    <3>3. QED BY <3>2 DEF Phase
  <2>2. CASE spc = "ready" /\ Ahead(<<Manifest, Msg("file-begin", sfile)>>) /\ sfile \notin known
    <3>0. Msg("file-begin", sfile) \in Message BY <2>2, SmoothFacts, ControlMessages
    <3>1. Ahead(<<Msg("file-begin", sfile)>>)'
      <4> DEFINE b == Msg("file-begin", sfile)
      <4>1. b \in Message /\ Ahead(<<Manifest, b>>) BY <3>0, <2>2
      <4>2. PICK c \in Message : c = b BY <4>1
      <4>3. Ahead(<<c>>)' BY <1>0, <1>2, <4>1, <4>2, FirstAhead
      <4>4. b' = b BY <1>0 DEF sender
      <4>5. QED BY <4>2, <4>3, <4>4
    <3>2. sfile \notin sha \cup done BY <1>1, <2>2, SmoothFacts DEF FilesInStep
    <3>3. Opening'
      BY <1>0, <1>1, <2>2, <3>1, <3>2 DEF Opening, Unstarted, Announced, HandleManifest, sender, files, disk
    <3>4. QED BY <3>3 DEF Phase
  <2>3. CASE spc = "all-done-ok" /\ sfile > N /\ Ahead(<<Manifest, Msg("all-done", 0)>>)
    <3>1. Ahead(<<Msg("all-done", 0)>>)' BY <1>0, <1>2, <2>3, FirstAhead
    <3>2. Finishing' BY <1>0, <1>1, <2>3, <3>1 DEF Finishing, Announced, HandleManifest, sender
    <3>3. QED BY <3>2 DEF Phase
  <2>4. QED BY <1>1, <2>1, <2>2, <2>3 DEF Announced
<1>4. Calm' BY <1>0 DEF Smooth, OnTrack, Calm, sender, disk
<1>5. FilesInStep' BY <1>0, <1>1 DEF FilesInStep, sender, files
<1>6. QED BY <1>3, <1>4, <1>5 DEF Plain, OnTrack

\* A file-begin or a restart starts its task.
LEMMA HandleOpenOn ==
  ASSUME Smooth, HandleBegin \/ HandleRestart
  PROVE  Plain'
<1>0. /\ queue # <<>> /\ task = Idle /\ queue' = Tail(queue)
      /\ Head(queue).t \in {"file-begin", "restart"}
      /\ Head(queue).t = "file-begin" => task' = At("reserve", Head(queue).f)
      /\ Head(queue).t = "restart" => task' = At("restart", Head(queue).f)
      /\ UNCHANGED <<ctl, bulk, back, closed, sender, files, disk, manifest, allDone, rfailed, rdone>>
  BY DEF HandleBegin, HandleRestart, Take, channels
<1>1. Opening /\ FilesInStep
  BY <1>0, FrontIs, TypeOfMessages DEF Smooth, OnTrack
<1>2. sfile \in File BY <1>1, SmoothFacts DEF Opening
<1>3. Msg("file-begin", sfile) \in Message /\ Msg("restart", sfile) \in Message
  BY <1>2, ControlMessages
<1>4. Opening'
  <2>1. CASE Ahead(<<Msg("file-begin", sfile)>>) /\ back = <<>> /\ sfile \notin known
    <3>1. Head(queue) = Msg("file-begin", sfile) /\ Ahead(<<>>)'
      BY <1>0, <1>3, <2>1, FirstAhead
    <3>2. task' = At("reserve", sfile) BY <1>0, <3>1, TypeOfMessages
    <3>3. QED BY <1>0, <1>1, <2>1, <3>1, <3>2 DEF Opening, Unstarted, sender, files, disk
  <2>2. CASE Ahead(<<Msg("restart", sfile)>>) /\ back = <<>> /\ sfile \in known
    <3>1. Head(queue) = Msg("restart", sfile) /\ Ahead(<<>>)'
      BY <1>0, <1>3, <2>2, FirstAhead
    <3>2. task' = At("restart", sfile) BY <1>0, <3>1, TypeOfMessages
    <3>3. QED BY <1>0, <1>1, <2>2, <3>1, <3>2 DEF Opening, Unstarted, sender, files, disk
  <2>3. ~Ahead(<<>>) BY <1>0, <1>3, FirstAhead
  <2>4. QED BY <1>1, <2>1, <2>2, <2>3 DEF Opening
<1>5. Calm' BY <1>0 DEF Smooth, OnTrack, Calm, sender, disk
<1>6. FilesInStep' BY <1>0, <1>1 DEF FilesInStep, sender, files
<1>7. QED BY <1>4, <1>5, <1>6 DEF Plain, OnTrack, Phase

\* The end of the transfer is handled once every file is done.
LEMMA HandleAllDoneOn ==
  ASSUME Smooth, HandleAllDone
  PROVE  Plain'
<1>0. /\ queue # <<>> /\ task = Idle /\ queue' = Tail(queue) /\ Head(queue).t = "all-done"
      /\ allDone' /\ task' = Resolve(known, done, TRUE)
      /\ UNCHANGED <<ctl, bulk, back, closed, sender, files, disk, manifest, rfailed, rdone>>
  BY DEF HandleAllDone, Take, channels
<1>1. Finishing /\ FilesInStep
  BY <1>0, FrontIs, TypeOfMessages DEF Smooth, OnTrack
<1>2. File \subseteq Nat /\ N \in Nat /\ File = 1 .. N BY SizeAssumption DEF File
<1>3. \A f \in File : f < sfile BY <1>1, <1>2, SmoothFacts DEF Finishing
<1>4. known \subseteq done BY <1>3, SmoothFacts
<1>5. task' = At("all-done-ok", 0) BY <1>0, <1>4 DEF Resolve
<1>6. Msg("all-done", 0) \in Message BY ControlMessages
<1>7. ~Ahead(<<>>) BY <1>0, <1>6, FirstAhead
<1>8. Ahead(<<>>)' BY <1>0, <1>1, <1>6, <1>7, FirstAhead DEF Finishing
<1>9. Finishing' BY <1>0, <1>1, <1>5, <1>8 DEF Finishing, sender
<1>10. Calm' BY <1>0 DEF Smooth, OnTrack, Calm, sender, disk
<1>11. FilesInStep' BY <1>0, <1>1 DEF FilesInStep, Finishing, sender, files
<1>12. QED BY <1>9, <1>10, <1>11 DEF Plain, OnTrack, Phase

\* The file-end is handled, before or after the file's last chunk.
LEMMA HandleEndOn ==
  ASSUME Smooth, HandleEnd
  PROVE  Plain'
<1>0. /\ queue # <<>> /\ task = Idle /\ queue' = Tail(queue) /\ Head(queue).t = "file-end"
      /\ sha' = sha \cup {Head(queue).f}
      /\ task' = AfterData(Head(queue).f, bytes[Head(queue).f], TRUE)
      /\ UNCHANGED <<ctl, bulk, back, closed, spc, sfile, sseq, sfailed, known, bytes, stale, done, part,
                     rotten, manifest, allDone, rfailed, rdone>>
  BY DEF HandleEnd, Take, channels, sender, disk
<1>1. Streaming /\ FilesInStep /\ Head(queue).f = sfile
  BY <1>0, FrontIs, TypeOfMessages DEF Smooth, OnTrack
<1>2. sfile \in File /\ bytes[sfile] \in Nat
  BY <1>1, SmoothFacts DEF Streaming
<1>3. PICK e \in 1 .. Len(queue) + 1 : Queue(e) /\ Coming(e) /\ EndAt(e)
  BY <1>1 DEF Streaming
<1>4. /\ Tail(queue) \in Seq(Message) /\ Len(Tail(queue)) = Len(queue) - 1 /\ Len(queue) \in Nat
      /\ Len(queue) > 0
      /\ \A i \in 1 .. Len(Tail(queue)) :
           i + 1 \in 1 .. Len(queue) /\ Tail(queue)[i] = queue[i + 1]
  BY <1>0, <1>1, <1>3, FirstQueued
<1>5. e = 1 BY <1>0, <1>1, <1>3, FirstQueued, TypeOfMessages
<1>6. spc = "file-ok" /\ sseq = Size[sfile] /\ ctl = <<>> BY <1>3, <1>4, <1>5 DEF EndAt
<1>20. Len(queue') = Len(queue) - 1 /\ Len(queue') \in Nat BY <1>0, <1>4
<1>7. PICK d \in 1 .. Len(queue') + 1 : d = Len(queue') + 1 BY <1>20
<1>8. Queue(d)'
  <2>1. ASSUME NEW i \in 1 .. Len(queue')
        PROVE  i < d /\ queue'[i] = Chunk(sfile, bytes[sfile] + (i - 1))
    <3>1. i + 1 \in 1 .. Len(queue) /\ queue'[i] = queue[i + 1] /\ i \in Nat /\ i > 0 BY <1>0, <1>4
    <3>2. queue[i + 1] = Chunk(sfile, bytes[sfile] + ((i + 1) - 2)) BY <1>3, <1>5, <3>1 DEF Queue
    <3>3. (i + 1) - 2 = i - 1 BY <3>1
    <3>4. i < d BY <1>0, <1>4, <1>7
    <3>5. QED BY <3>1, <3>2, <3>3, <3>4
  <2>2. QED BY <1>0, <1>7, <2>1 DEF Queue
<1>9. Queuing(d)' = Queuing(e)
  <2>1. Queuing(d)' = Len(queue') BY <1>7, <1>20 DEF Queuing
  <2>0. Len(queue) \in Nat /\ e <= Len(queue) BY <1>4, <1>5
  <2>2. Queuing(e) = Len(queue) - 1 BY <2>0 DEF Queuing
  <2>3. QED BY <1>20, <2>1, <2>2
<1>10. Coming(d)' BY <1>0, <1>3, <1>9 DEF Coming
<1>11. EndAt(d)' BY <1>0, <1>1, <1>6, <1>7 DEF EndAt
<1>12. ~allDone BY <1>1, <1>6 DEF FilesInStep
<1>13. task' = Idle \/ (task'.at = "verify" /\ task'.f = sfile)
  BY <1>0, <1>1, <1>2, <1>12, AfterDataFacts
<1>14. sfile \in part BY <1>0, <1>1, TaskType DEF Streaming
<1>15. Streaming'
  BY <1>0, <1>1, <1>7, <1>8, <1>10, <1>11, <1>13, <1>14 DEF Streaming
<1>16. Calm' BY <1>0 DEF Smooth, OnTrack, Calm
<1>17. FilesInStep' BY <1>0, <1>1 DEF FilesInStep, Streaming
<1>18. QED BY <1>15, <1>16, <1>17 DEF Plain, OnTrack, Phase

\* A chunk is handled: it is the next one.
LEMMA HandleChunkOn ==
  ASSUME Smooth, HandleChunk
  PROVE  Plain'
<1>0. /\ queue # <<>> /\ task = Idle /\ queue' = Tail(queue) /\ Head(queue).t = "chunk"
      /\ bytes' = [bytes EXCEPT ![Head(queue).f] = @ + 1]
      /\ task' = At("write", Head(queue).f)
      /\ UNCHANGED <<ctl, bulk, back, closed, spc, sfile, sseq, sfailed, known, stale, sha, done, part,
                     rotten, manifest, allDone, rfailed, rdone>>
  BY DEF HandleChunk, Take, channels, sender, disk
<1>1. Streaming /\ FilesInStep /\ Head(queue).f = sfile
  BY <1>0, FrontIs, TypeOfMessages DEF Smooth, OnTrack
<1>2. sfile \in File /\ bytes[sfile] \in Nat /\ bytes \in [File -> Nat]
  BY <1>1, SmoothFacts DEF Streaming
<1>3. PICK e \in 1 .. Len(queue) + 1 : Queue(e) /\ Coming(e) /\ EndAt(e)
  BY <1>1 DEF Streaming
<1>4. /\ Tail(queue) \in Seq(Message) /\ Len(Tail(queue)) = Len(queue) - 1 /\ Len(queue) \in Nat
      /\ Len(queue) > 0
      /\ \A i \in 1 .. Len(Tail(queue)) :
           i + 1 \in 1 .. Len(queue) /\ Tail(queue)[i] = queue[i + 1]
  BY <1>0, <1>1, <1>3, FirstQueued
<1>5. e > 1
  <2>1. e # 1 BY <1>0, <1>1, <1>3, FirstQueued, TypeOfMessages
  <2>2. QED BY <1>4, <2>1
<1>6. bytes'[sfile] = bytes[sfile] + 1 /\ \A f \in File : bytes'[f] >= bytes[f]
  BY <1>0, <1>1, <1>2
<1>7. PICK d \in 1 .. Len(queue') + 1 : d = e - 1 BY <1>0, <1>4, <1>5
<1>8. Queue(d)'
  <2>1. ASSUME NEW i \in 1 .. Len(queue')
        PROVE  queue'[i] = IF i < d THEN Chunk(sfile, bytes'[sfile] + (i - 1))
                           ELSE IF i = d THEN Msg("file-end", sfile)
                           ELSE Chunk(sfile, bytes'[sfile] + (i - 2))
    <3>1. i + 1 \in 1 .. Len(queue) /\ queue'[i] = queue[i + 1] /\ i \in Nat /\ i > 0 BY <1>0, <1>4
    <3>2. queue[i + 1] = IF i + 1 < e THEN Chunk(sfile, bytes[sfile] + ((i + 1) - 1))
                         ELSE IF i + 1 = e THEN Msg("file-end", sfile)
                         ELSE Chunk(sfile, bytes[sfile] + ((i + 1) - 2))
      BY <1>3, <3>1 DEF Queue
    <3>3. /\ bytes[sfile] + ((i + 1) - 1) = bytes'[sfile] + (i - 1)
          /\ bytes[sfile] + ((i + 1) - 2) = bytes'[sfile] + (i - 2)
      <4>1. bytes'[sfile] = bytes[sfile] + 1 /\ bytes[sfile] \in Int /\ i \in Int
        BY <1>2, <1>6, <3>1
      <4>2. QED BY <4>1
    <3>4. (i + 1 < e <=> i < d) /\ (i + 1 = e <=> i = d) BY <1>4, <1>7, <3>1
    <3>5. QED BY <3>1, <3>2, <3>3, <3>4
  <2>2. QED BY <1>0, <1>7, <2>1 DEF Queue
<1>9. Queuing(d)' = Queuing(e) - 1 /\ Queuing(e) \in Nat BY <1>0, <1>4, <1>5, <1>7 DEF Queuing
<1>10. bytes'[sfile] + Queuing(d)' = bytes[sfile] + Queuing(e) BY <1>2, <1>6, <1>9
<1>11. Coming(d)' BY <1>0, <1>3, <1>10 DEF Coming
<1>12. EndAt(d)'
  <2>1. (d = Len(queue') + 1 <=> e = Len(queue) + 1) /\ (d <= Len(queue') <=> e <= Len(queue))
    BY <1>0, <1>4, <1>7
  <2>2. QED BY <1>0, <1>3, <2>1 DEF EndAt
<1>13. task' = At("write", sfile) /\ bytes'[sfile] > 0 /\ task'.at = "write"
  BY <1>0, <1>1, <1>2, <1>6 DEF At
<1>14. sfile \in part BY <1>0, <1>1, TaskType DEF Streaming
<1>15. Streaming'
  BY <1>0, <1>1, <1>7, <1>8, <1>11, <1>12, <1>13, <1>14 DEF Streaming
<1>16. Calm' BY <1>0 DEF Smooth, OnTrack, Calm
<1>17. FilesInStep'
  <2>1. \A f \in stale : bytes'[f] > 0
    <3>1. \A f \in stale : f \in File /\ bytes[f] > 0 /\ bytes[f] \in Nat /\ bytes'[f] \in Nat
      BY <1>0, <1>1, <1>2 DEF FilesInStep, Smooth, Inv, TypeOK, FilesOK
    <3>2. QED BY <1>6, <3>1
  <2>2. QED BY <1>0, <1>1, <2>1 DEF FilesInStep
<1>18. QED BY <1>15, <1>16, <1>17 DEF Plain, OnTrack, Phase

\* The file is reserved or restarted: its partial is there, and empty unless it is resumed.
LEMMA OpenDoneOn ==
  ASSUME Smooth, ReserveDone \/ RestartDone
  PROVE  Plain'
<1>0. task.at \in {"reserve", "restart"} BY DEF ReserveDone, RestartDone
<1>1. Opening /\ FilesInStep /\ Ahead(<<>>) /\ back = <<>> /\ task.f = sfile /\ sfile \in File
  <2>1. Opening /\ FilesInStep
    BY <1>0, TaskType, SizeAssumption DEF Smooth, OnTrack, Phase, Starting, Announced, Between, Checking, Streaming, Acknowledging, Finishing, At, Idle
  <2>2. sfile \in File BY <2>1, SmoothFacts DEF Opening
  <2>3. QED BY <1>0, <2>1, <2>2 DEF Opening, At, Idle
<1>2. /\ UNCHANGED <<channels, sender, sha, done, queue, manifest, allDone, rfailed, rdone>>
      /\ known' = known \cup {sfile} /\ part' = part \cup {sfile} /\ task' = At("ready", sfile)
      /\ stale' \subseteq stale /\ rotten' = {}
      /\ bytes' = [bytes EXCEPT ![sfile] = 0] \/ bytes' = bytes
      /\ bytes' = bytes \/ sfile \notin stale'
  <2>1. CASE ReserveDone
    <3>1. rotten' = {} BY <2>1, SmoothFacts DEF ReserveDone
    <3>2. /\ bytes' = [bytes EXCEPT ![sfile] = 0] \/ bytes' = bytes
          /\ bytes' = bytes \/ sfile \notin stale'
          /\ stale' \subseteq stale
      <4>1. CASE Resume /\ sfile \in part
        BY <1>1, <2>1, <4>1, SmoothFacts DEF ReserveDone
      <4>2. CASE ~(Resume /\ sfile \in part) BY <1>1, <2>1, <4>2 DEF ReserveDone
      <4>3. QED BY <4>1, <4>2
    <3>3. QED BY <1>1, <2>1, <3>1, <3>2 DEF ReserveDone
  <2>2. CASE RestartDone
    <3>1. task = At("restart", sfile) /\ sfile \in known
      BY <1>1, <2>2 DEF Opening, RestartDone, At, Idle
    <3>2. sfile \in part BY <1>1, <2>2 DEF RestartDone
    <3>3. rotten' = {} BY <2>2, SmoothFacts DEF RestartDone
    <3>4. known' = known /\ part' = part BY <2>2 DEF RestartDone
    <3>5. QED BY <1>1, <2>2, <3>1, <3>2, <3>3, <3>4 DEF RestartDone
  <2>3. QED BY <2>1, <2>2
<1>3. Opening'
  <2>1. UNCHANGED <<manifest, spc, sfile, bulk, back, ctl, queue, sha, done>> BY <1>2 DEF channels, sender
  <2>2. QED BY <1>1, <1>2, <2>1 DEF Opening, Unstarted, Ahead
<1>4. Calm' BY <1>2 DEF Smooth, OnTrack, Calm, channels, sender
<1>5. FilesInStep'
  <2>1. \A f \in stale' : bytes'[f] > 0
    <3>1. \A f \in stale : f \in File /\ bytes[f] > 0
      BY <1>1 DEF FilesInStep, Smooth, Inv, TypeOK, FilesOK
    <3>2. bytes \in [File -> Nat] BY SmoothFacts
    <3>3. QED BY <1>1, <1>2, <3>1, <3>2
  <2>2. UNCHANGED <<spc, sfile>> BY <1>2 DEF sender
  <2>3. QED BY <1>1, <1>2, <2>1, <2>2 DEF FilesInStep, Opening
<1>6. QED BY <1>3, <1>4, <1>5 DEF Plain, OnTrack, Phase

\* The receiver says where it is.
LEMMA SendReadyOn ==
  ASSUME Smooth, SendReady
  PROVE  Plain'
<1>0. task.at = "ready" BY DEF SendReady
<1>1. Opening /\ FilesInStep /\ Ahead(<<>>) /\ back = <<>> /\ task.f = sfile /\ sfile \in known
  <2>1. Opening /\ FilesInStep
    BY <1>0, TaskType, SizeAssumption DEF Smooth, OnTrack, Phase, Starting, Announced, Between, Checking, Streaming, Acknowledging, Finishing, At, Idle
  <2>2. QED BY <1>0, <2>1 DEF Opening, At, Idle
<1>2. /\ back' = Append(back, Answer) /\ task' = Idle
      /\ UNCHANGED <<ctl, bulk, closed, sender, files, manifest, allDone, rdone, disk, rfailed, queue>>
  BY <1>1, SmoothFacts DEF SendReady, Answer
<1>3. Answer \in Message
  BY <1>1, SmoothFacts, FileRange, DataType DEF Answer
<1>4. back' = <<Answer>> BY <1>1, <1>2, <1>3, ShortQueues
<1>5. Answer' = Answer BY <1>2 DEF Answer, sender, files
<1>6. Opening' BY <1>1, <1>2, <1>4, <1>5 DEF Opening, Unstarted, Ahead, sender, files, disk
<1>7. Calm' BY <1>2 DEF Smooth, OnTrack, Calm, sender, disk
<1>8. FilesInStep' BY <1>1, <1>2 DEF FilesInStep, sender, files
<1>9. QED BY <1>6, <1>7, <1>8 DEF Plain, OnTrack, Phase

\* While the running task works on the file, what is queued and on its way stays.
LEMMA TaskMoves ==
  ASSUME Smooth, Streaming, UNCHANGED <<channels, sender, known, bytes, stale, sha, done, queue,
                                        manifest, allDone, rfailed, rotten>>,
         task'.at \notin {"publish", "recheck"} => sfile \in part',
         task' = Idle \/ (task'.at \in {"verify", "link", "publish", "recheck"} /\ task'.f = sfile)
  PROVE  Plain'
<1>1. UNCHANGED <<ctl, bulk, back, closed, spc, sfile, sseq, sfailed>> BY DEF channels, sender
<1>2. PICK e \in 1 .. Len(queue) + 1 : Queue(e) /\ Coming(e) /\ EndAt(e) BY DEF Streaming
<1>3. Queue(e)' /\ Coming(e)' /\ EndAt(e)' BY <1>1, <1>2 DEF Queue, Coming, Queuing, EndAt
<1>4. Streaming' BY <1>1, <1>3 DEF Streaming
<1>5. Calm' BY <1>1 DEF Smooth, OnTrack, Calm
<1>6. FilesInStep' BY <1>1 DEF Smooth, OnTrack, FilesInStep
<1>7. QED BY <1>4, <1>5, <1>6 DEF Plain, OnTrack, Phase

\* The running task works on the file that is streamed.
LEMMA TaskStreaming ==
  ASSUME Smooth, task.at \in {"write", "verify", "link", "publish", "recheck"}
  PROVE  Streaming /\ task.f = sfile /\ ~allDone /\ sfile \in File
<1>1. Streaming /\ FilesInStep
  BY TaskType, SizeAssumption DEF Smooth, OnTrack, Phase, Starting, Announced, Between, Opening, Checking, Acknowledging, Finishing, At, Idle
<1>2. task.f = sfile BY <1>1 DEF Streaming, At, Idle
<1>3. spc # "all-done-ok" BY <1>1 DEF Streaming, EndAt
<1>4. QED BY <1>1, <1>2, <1>3, SmoothFacts DEF FilesInStep, Streaming

\* A chunk is written.
LEMMA WriteDoneOn ==
  ASSUME Smooth, WriteDone
  PROVE  Plain'
<1>1. Streaming /\ task.f = sfile /\ ~allDone /\ sfile \in File
  BY TaskStreaming DEF WriteDone
<1>2. task' = Idle \/ (task'.at = "verify" /\ task'.f = sfile)
  <2>1. task' = AfterData(sfile, bytes[sfile], sfile \in sha) BY <1>1 DEF WriteDone
  <2>2. bytes[sfile] \in Nat /\ (sfile \in sha) \in BOOLEAN BY <1>1, SmoothFacts
  <2>3. QED BY <1>1, <2>1, <2>2, AfterDataFacts
<1>3. sfile \in part' BY <1>1 DEF WriteDone, Streaming, disk
<1>4. QED BY <1>1, <1>2, <1>3, TaskMoves DEF WriteDone, files, disk

\* The file is verified: it is the sender's.
LEMMA VerifyPartOn ==
  ASSUME Smooth, VerifyPart
  PROVE  Plain'
<1>1. Streaming /\ task.f = sfile /\ sfile \in File BY TaskStreaming DEF VerifyPart
<1>2. sfile \notin stale \cup rotten BY <1>1, SmoothFacts DEF Streaming
<1>3. task' = At("link", sfile) /\ UNCHANGED <<part, rfailed, queue>>
  BY <1>1, <1>2, SmoothFacts DEF VerifyPart
<1>4. task'.at = "link" /\ task'.f = sfile BY <1>3 DEF At
<1>5. sfile \in part' BY <1>1, <1>3 DEF VerifyPart
<1>6. QED BY <1>1, <1>3, <1>4, <1>5, TaskMoves DEF VerifyPart, files

\* The file is published.
LEMMA PublishOn ==
  ASSUME Smooth, PublishLink \/ PublishDone
  PROVE  Plain'
<1>1. Streaming /\ task.f = sfile /\ sfile \in File
  BY TaskStreaming DEF PublishLink, PublishDone
<1>2. task'.at \in {"publish", "recheck"} /\ task'.f = sfile
  BY <1>1, SmoothFacts DEF PublishLink, PublishDone, At
<1>3. UNCHANGED <<channels, sender, known, bytes, stale, sha, done, queue, manifest, allDone, rfailed, rotten>>
  BY DEF PublishLink, PublishDone, files
<1>4. QED BY <1>1, <1>2, <1>3, TaskMoves

\* The published file is acknowledged; nothing is left in either channel.
LEMMA RecheckOn ==
  ASSUME Smooth, Recheck
  PROVE  Plain'
<1>0. task.at = "recheck" BY DEF Recheck
<1>1. Streaming /\ task.f = sfile /\ ~allDone /\ sfile \in File BY <1>0, TaskStreaming
<1>2. FilesInStep BY DEF Smooth, OnTrack
<1>3. /\ back' = Append(back, Msg("file-ok", sfile)) /\ done' = done \cup {sfile}
      /\ task' = Resolve(known, done \cup {sfile}, allDone)
      /\ UNCHANGED <<ctl, bulk, closed, sender, known, bytes, stale, sha, manifest, allDone, rdone, rotten,
                     rfailed, queue>>
  BY <1>1, SmoothFacts DEF Recheck
<1>4. task' = Idle BY <1>1, <1>3 DEF Resolve
<1>5. Msg("file-ok", sfile) \in Message BY <1>1, ControlMessages
<1>6. back' = <<Msg("file-ok", sfile)>> BY <1>1, <1>3, <1>5, ShortQueues DEF Streaming
<1>7. sfile \in sha /\ bytes[sfile] = Size[sfile]
  BY <1>0, <1>1 DEF Smooth, Inv, BookkeepingAgrees, TaskAgrees
<1>8. PICK e \in 1 .. Len(queue) + 1 : Queue(e) /\ Coming(e) /\ EndAt(e)
  BY <1>1 DEF Streaming
<1>9. spc = "file-ok" /\ ctl = <<>> /\ e = Len(queue) + 1 BY <1>7, <1>8 DEF EndAt
<1>10. /\ queue \in Seq(Message) /\ bulk \in Seq(Message)
       /\ Len(queue) \in Nat /\ Len(bulk) \in Nat /\ bytes[sfile] \in Nat
  BY <1>1, SmoothFacts, LenProperties
<1>11. Queuing(e) = Len(queue) BY <1>9, <1>10 DEF Queuing
<1>12. bytes[sfile] + Len(queue) + Len(bulk) <= bytes[sfile] BY <1>7, <1>8, <1>11 DEF Coming
<1>13. Len(queue) = 0 /\ Len(bulk) = 0 BY <1>10, <1>12
<1>14. queue = <<>> /\ bulk = <<>> BY <1>10, <1>13, EmptySeq
<1>15. Ahead(<<>>)' BY <1>3, <1>9, <1>14, BothEmpty, EmptySeq DEF Ahead
<1>16. Acknowledging'
  BY <1>1, <1>3, <1>4, <1>6, <1>9, <1>14, <1>15 DEF Acknowledging, Streaming, sender
<1>17. Calm' BY <1>3 DEF Smooth, OnTrack, Calm, sender
<1>18. FilesInStep' BY <1>2, <1>3 DEF FilesInStep, sender
<1>19. QED BY <1>16, <1>17, <1>18 DEF Plain, OnTrack, Phase

\* No file operation fails.
LEMMA NoTaskError ==
  ASSUME Smooth, TaskError \/ PublishError
  PROVE  FALSE
<1>1. ~Stopped /\ Faults = {} BY SmoothFacts DEF Smooth
<1>2. task.at \in {"restart", "verify", "link"} /\ task.f \notin part
  BY <1>1 DEF TaskError, PublishError
<1>3. CASE task.at = "restart"
  <2>1. Opening
    BY <1>3, TaskType, SizeAssumption DEF Smooth, OnTrack, Phase, Starting, Announced, Between, Checking, Streaming, Acknowledging, Finishing, At, Idle
  <2>2. QED BY <1>2, <1>3, <2>1 DEF Opening, Unstarted, At, Idle
<1>4. CASE task.at \in {"verify", "link"}
  BY <1>2, <1>4, TaskStreaming DEF Streaming
<1>5. QED BY <1>2, <1>3, <1>4

\* The last acknowledgement completes the receive.
LEMMA SendAllDoneOkOn ==
  ASSUME Smooth, SendAllDoneOk
  PROVE  rdone'
  BY SmoothFacts DEF SendAllDoneOk

\* No timer, no lost connection and no change of a file on disk.
LEMMA NoFault ==
  ASSUME Smooth
  PROVE  /\ ~SenderClosed /\ ~SenderTimeout /\ ~SourceError /\ ~SenderAbort
         /\ ~ReceiverClosed /\ ~IdleTimeout /\ ~FailTail /\ ~CleanupFile
         /\ ~PeerClose /\ ~LinkDown /\ ~Rot
<1>1. /\ ~closed /\ ~rfailed /\ ~rdone /\ Faults = {} /\ spc \notin {"throw", "failed", "done"}
  BY SmoothFacts DEF Smooth
<1>2. clean = 0
  BY <1>1, SizeAssumption DEF Smooth, Inv, TypeOK, ReceiverOK, BookkeepingAgrees, CleanupAgrees
<1>3. clean \notin File BY <1>2 DEF File
<1>4. QED
  BY <1>1, <1>3 DEF SenderClosed, SenderTimeout, SourceError, SenderAbort, ReceiverClosed, IdleTimeout, FailTail, CleanupFile, PeerClose, LinkDown, Rot, Ended

\* A completed receive stays completed.
LEMMA DoneStays ==
  ASSUME Inv, rdone, [Next]_vars
  PROVE  rdone'
<1>1. CASE SenderNext BY <1>1, ReceiverAlone DEF receiver
<1>2. CASE Handler
  BY <1>2 DEF Handler, HandleManifest, HandleBegin, HandleRestart, HandleEnd, HandleChunk, HandleAllDone, HandleRefused
<1>3. CASE Awaited
  BY <1>3 DEF Awaited, ReserveDone, RestartDone, SendReady, WriteDone, TaskError, VerifyPart, PublishLink, PublishDone, PublishError, Recheck, SendAllDoneOk
<1>4. CASE ReceiverNext \/ Environment
  BY <1>4 DEF ReceiverNext, ArriveControl, ArriveBulk, ReceiverClosed, IdleTimeout, FailTail, CleanupFile, Environment, PeerClose, LinkDown, Rot, receiver
<1>5. CASE UNCHANGED vars BY <1>5 DEF vars, receiver
<1>6. QED BY <1>1, <1>2, <1>3, <1>4, <1>5 DEF Next

\* The transfer starts on track.
LEMMA InitOn ==
  ASSUME Init
  PROVE  Plain
<1>1. N \in Nat /\ \A f \in File : Old[f] \in Nat BY SizeAssumption, OldAssumption
<1>2. Ahead(<<>>) BY BothEmpty, EmptySeq DEF Init, Ahead
<1>3. Starting BY <1>2 DEF Init, Starting
<1>4. Calm BY DEF Init, Calm
<1>5. \A f \in stale : bytes[f] > 0
  <2>1. part \subseteq File BY DEF Init
  <2>2. QED BY <2>1 DEF Init
<1>6. FilesInStep BY <1>5 DEF Init, FilesInStep
<1>7. QED BY <1>3, <1>4, <1>6 DEF Plain, OnTrack, Phase

\* Every step stays on track.
LEMMA NextOn ==
  ASSUME Faults = {}, QueueSuffices, Inv, Plain, [Next]_vars
  PROVE  Plain'
<1>1. CASE rdone BY <1>1, DoneStays DEF Plain
<1>2. CASE ~rdone
  <2>0. Smooth BY <1>2 DEF Smooth, Plain
  <2>1. CASE SenderNext
    BY <2>0, <2>1, SendManifestOn, SendBeginOn, CheckReadyOn, SendChunkOn, SendEndOn, SendAllDoneOn, HandleSenderControlOn, NoFault
    DEF SenderNext
  <2>2. CASE Handler
    BY <2>0, <2>2, HandleManifestOn, HandleOpenOn, HandleEndOn, HandleChunkOn, HandleAllDoneOn, HandleRefusedOn
    DEF Handler
  <2>3. CASE Awaited
    <3>1. rdone' => Plain' BY DEF Plain
    <3>2. QED
      BY <2>0, <2>3, <3>1, OpenDoneOn, SendReadyOn, WriteDoneOn, NoTaskError, VerifyPartOn, PublishOn, RecheckOn, SendAllDoneOkOn
      DEF Awaited
  <2>4. CASE ReceiverNext \/ Environment
    BY <2>0, <2>4, ArriveControlOn, ArriveBulkOn, NoFault DEF ReceiverNext, Environment
  <2>5. CASE UNCHANGED vars
    BY <2>5 DEF Plain, OnTrack, Calm, FilesInStep, Phase, Starting, Announced, Between, Opening, Checking, Streaming, Acknowledging, Finishing, Ahead, Unstarted, Answer, Queue, Queuing, Coming, EndAt, vars, channels, sender, files, receiver, disk
  <2>6. QED BY <2>1, <2>2, <2>3, <2>4, <2>5 DEF Next
<1>3. QED BY <1>1, <1>2

\* Without faults, and with a queue that holds a file with its file-end, no interleaving of
\* the two channels and no old partial makes the receiver refuse a message, and the sender
\* gives up only after the receiver completed, whatever the files and their sizes.
THEOREM PlainTransferSucceeds == QueueSuffices => (Spec => []NoSpuriousFailure)
<1>1. CASE Faults # {}
  <2>1. NoSpuriousFailure BY <1>1 DEF NoSpuriousFailure
  <2>2. QED BY <2>1, PTL
<1>2. CASE Faults = {}
  <2>1. SUFFICES ASSUME QueueSuffices PROVE Spec => []NoSpuriousFailure OBVIOUS
  <2>2. Init => Plain BY InitOn
  <2>3. Inv /\ Plain /\ [Next]_vars => Plain' BY <1>2, <2>1, NextOn
  <2>4. Inv /\ Plain => NoSpuriousFailure
    BY DEF Inv, BookkeepingAgrees, CleanupAgrees, Plain, OnTrack, Calm, NoSpuriousFailure
  <2>5. QED BY <2>2, <2>3, <2>4, Invariance, PTL DEF Spec
<1>3. QED BY <1>1, <1>2
=============================================================================
