---------------------------- MODULE BrowserProofs ----------------------------
(***************************************************************************)
(* What is proved of the browser's receiver: of one transfer               *)
(* (BrowserTransfer) and of the stores behind resuming (BrowserResume).    *)
(***************************************************************************)
EXTENDS BrowserTransfer, BrowserResume, SequenceTheorems, FiniteSetTheorems, TLAPS

-----------------------------------------------------------------------------
(***************************************************************************)
(* The three invariants of BrowserTransfer for every set of plans: any     *)
(* number of files of any length, any queue limit, any leftover of an      *)
(* earlier attempt and any combination of faults.                          *)
(*                                                                         *)
(* The receiver's failure does not wait for the running task, so the       *)
(* cleanup and the task work on the same folder.  `TaskSound' says what    *)
(* holds of the file of the running task at each of its awaits, `FileSound' *)
(* what holds of a file whatever runs, before, while and after the cleanup *)
(* passes it.  What the messages in flight may say is kept as the sets     *)
(* `Forth' and `Back' they are drawn from, which only grow.                *)
(***************************************************************************)

\* What may be on the way to the receiver, or wait in its queue: a file is begun after the
\* ones before it, and its chunks and its end come after its prefix was verified.
Forth ==
  {m \in Message :
     /\ m.t \in {"file-begin", "restart", "file-end", "chunk"} => m.f \in File
     /\ m.t = "file-begin" => m.f <= snd.file
     /\ m.t \in {"file-end", "chunk"} => st[m.f].known /\ st[m.f].good}

\* What may be on the way back.
Back ==
  {m \in Message :
     /\ m.t \in {"ready", "file-ok", "all-done-ok", "abort"}
     /\ m.t \in {"ready", "file-ok"} => m.f \in File
     /\ m.t = "ready" => /\ st[m.f].known /\ (m.same => st[m.f].good)
                         /\ m.same \/ m.n > 0
     /\ m.t = "file-ok" => st[m.f].done
     /\ m.t = "all-done-ok" => rcv.completed}

\* TypeOK, and what the channels and the queue hold.
Typed ==
  /\ TypeOK /\ plan \in Plans
  /\ net.ctl \in Seq(Forth) /\ net.bulk \in Seq(Forth) /\ rcv.queue \in Seq(Forth)
  /\ net.back \in Seq(Back)

\* Where the sender is.
SenderSound ==
  /\ snd.at \in {"ready", "check", "chunks", "file-ok"} => snd.file \in File
  /\ snd.at = "check" => /\ st[snd.file].known
                         /\ snd.ready.same => st[snd.file].good
                         /\ snd.ready.same \/ snd.ready.n > 0
  /\ snd.at = "chunks" => st[snd.file].known /\ st[snd.file].good
  /\ snd.at = "done" => rcv.completed

\* How the receiver's flags go together.
FlagsSound ==
  /\ ~(rcv.failed /\ rcv.completed)
  /\ rcv.clean > 0 => rcv.failed /\ ~net.open
  /\ rcv.allDone => \A f \in File : st[f].known
  /\ rcv.completed => \A f \in File : st[f].done

\* The stages of a file that is complete and being checked or published.
Publishing == {"verify", "name", "copy", "recheck", "drop", "forget"}

\* The file of the running task.
TaskSound ==
  LET k == rcv.task
      x == st[k.f]
  IN  /\ k.at = "idle" => k.f = 0
      /\ k.at \in LocalWork \cup {"ready"} => k.f \in File
      /\ k.at \in (LocalWork \cup {"ready"}) \ {"create"} => x.known
      /\ k.at = "create" => ~x.known /\ k.f <= snd.file
      /\ k.at \in LocalWork => ~x.done
      /\ k.at \in Publishing \cup {"create", "write", "takeback"} => Folder
      /\ k.at = "download" => ~Folder
      /\ k.at \in Publishing \cup {"download"} => x.bytes = plan.size[k.f]
      /\ k.at \in Publishing \cup {"download", "write"} => x.good
      /\ k.at = "write" => x.bytes < plan.size[k.f]
      /\ k.at = "copy" => x.named
      /\ k.at \in {"recheck", "drop", "forget"} /\ rcv.clean = 0 => dir.final[k.f] = "data"
      /\ k.at = "forget" => dir.part[k.f] = "none"
      /\ k.at = "copy" /\ rcv.clean > k.f /\ ~dir.told => dir.final[k.f] = "none"
      /\ k.at = "all-done-ok" => \A f \in File : st[f].done

\* One file, whatever runs.
FileSound(f) ==
  LET x == st[f]
  IN  /\ x.bytes <= plan.size[f]
      /\ x.done => x.known /\ x.good /\ x.bytes = plan.size[f]
      /\ x.done /\ rcv.clean = 0 =>
           IF Folder THEN dir.final[f] = "data" /\ dir.part[f] = "none" ELSE f \in dir.saved
      /\ x.named => x.known
      /\ ~x.named => dir.final[f] = "none"
      /\ x.known => f <= snd.file
      /\ f < snd.file => x.done
      /\ x.keep => plan.mode = "resume"
      /\ ~x.good => x.known /\ x.bytes > 0
      /\ dir.record[f] => plan.mode = "resume"
      /\ plan.mode = "blob" => dir.part[f] = "none" /\ ~x.named /\ x.good
      /\ plan.mode = "folder" /\ ~x.known => dir.part[f] # "data"
      /\ plan.mode = "resume" /\ ~dir.told /\ dir.part[f] # "none" => dir.record[f]
      /\ ~x.known /\ ~Stopped /\ dir.part[f] # "none" => plan.saved \in {"same", "other"}
      /\ rcv.clean > f /\ ~dir.told =>
           dir.final[f] # "data" /\ (plan.mode = "folder" /\ x.known => dir.part[f] = "none")

\* The inductive invariant.
Inv == Typed /\ SenderSound /\ FlagsSound /\ TaskSound /\ \A f \in File : FileSound(f)

-----------------------------------------------------------------------------
(* The types of the variables, and what is in flight *)

NetSet == [ctl : Seq(Message), bulk : Seq(Message), back : Seq(Message), open : BOOLEAN]

SndSet ==
  [at : {"manifest", "begin", "check", "chunks", "throw"} \cup Waiting \cup Ended,
   file : 1 .. Len(plan.size) + 1, seq : Nat, ready : Message, failed : BOOLEAN]

TaskSet == [at : LocalWork \cup {"idle", "ready", "all-done-ok"}, f : 0 .. Len(plan.size)]

RcvSet ==
  [queue : Seq(Message), task : TaskSet, manifest : BOOLEAN, allDone : BOOLEAN,
   failed : BOOLEAN, completed : BOOLEAN, clean : 0 .. Len(plan.size) + 1]

StSet ==
  [known : BOOLEAN, bytes : Nat, good : BOOLEAN, sha : BOOLEAN, done : BOOLEAN,
   named : BOOLEAN, keep : BOOLEAN]

DirSet ==
  [part : [File -> {"none", "empty", "data"}], final : [File -> {"none", "empty", "data"}],
   record : [File -> BOOLEAN], told : BOOLEAN, saved : SUBSET File]

\* TypeOK by those names.
LEMMA Types ==
  TypeOK <=> /\ plan \in Plan /\ net \in NetSet /\ snd \in SndSet /\ rcv \in RcvSet
             /\ Len(rcv.queue) + (IF rcv.task = Idle THEN 0 ELSE 1) <= plan.limit
             /\ st \in [File -> StSet] /\ dir \in DirSet
  BY DEF TypeOK, NetSet, SndSet, TaskSet, RcvSet, StSet, DirSet

\* The same of the next state.
LEMMA TypesNext ==
  TypeOK' <=> /\ plan' \in Plan /\ net' \in NetSet /\ snd' \in SndSet' /\ rcv' \in RcvSet'
              /\ Len(rcv'.queue) + (IF rcv'.task = Idle THEN 0 ELSE 1) <= plan'.limit
              /\ st' \in [File' -> StSet] /\ dir' \in DirSet'
  BY DEF TypeOK, NetSet, SndSet, TaskSet, RcvSet, StSet, DirSet

\* A plan's files have natural numbers of chunks.
LEMMA Sizes ==
  ASSUME TypeOK
  PROVE  /\ Len(plan.size) \in Nat /\ plan.limit \in Nat /\ plan.old \in Nat
         /\ File = 1 .. Len(plan.size)
         /\ \A f \in File : f \in Nat /\ f > 0 /\ plan.size[f] \in Nat
<1>1. plan \in Plan BY Types
<1>2. plan.size \in Seq(Nat) /\ plan.limit \in Nat /\ plan.old \in Nat BY <1>1 DEF Plan
<1>3. Len(plan.size) \in Nat /\ \A f \in 1 .. Len(plan.size) : plan.size[f] \in Nat BY <1>2
<1>4. QED BY <1>2, <1>3 DEF File

\* A sequence over a set is one over every larger set.
LEMMA SeqGrows ==
  ASSUME NEW S, NEW T, S \subseteq T, NEW q \in Seq(S)
  PROVE  q \in Seq(T)
<1>1. Len(q) \in Nat /\ q \in [1 .. Len(q) -> S] OBVIOUS
<1>2. q \in [1 .. Len(q) -> T] BY <1>1
<1>3. QED BY <1>1, <1>2

\* What may be in flight only grows.
LEMMA Grows ==
  ASSUME TypeOK, plan' = plan, snd'.file \in Nat, snd.file <= snd'.file,
         rcv.completed => rcv'.completed,
         \A f \in File : /\ st[f].known => st'[f].known
                         /\ st[f].known /\ st[f].good => st'[f].good
                         /\ st[f].done => st'[f].done
  PROVE  /\ File' = File
         /\ \A m \in Forth : m \in Forth'
         /\ \A m \in Back : m \in Back'
         /\ \A q \in Seq(Forth) : q \in Seq(Forth')
         /\ \A q \in Seq(Back) : q \in Seq(Back')
<1>1. File' = File BY DEF File
<1>2. snd.file \in Nat BY Types, Sizes DEF SndSet
<1>3. \A m \in Message : m.f \in Nat BY DEF Message
<1>4. \A m \in Forth : m \in Forth'
  BY <1>1, <1>2, <1>3 DEF Forth
<1>5. \A m \in Back : m \in Back'
  BY <1>1, <1>3 DEF Back
<1>6. Forth \subseteq Forth' /\ Back \subseteq Back' BY <1>4, <1>5
<1>. HIDE DEF Forth, Back
<1>7. \A q \in Seq(Forth) : q \in Seq(Forth') BY <1>6, SeqGrows
<1>8. \A q \in Seq(Back) : q \in Seq(Back') BY <1>6, SeqGrows
<1>9. QED BY <1>1, <1>4, <1>5, <1>7, <1>8

-----------------------------------------------------------------------------
(* The sender *)

\* A step of the sender and of the channels: it says nothing the receiver has not earned.
LEMMA SenderKeeps ==
  ASSUME Inv, UNCHANGED <<plan, rcv, st, dir>>, net' \in NetSet, snd' \in SndSet,
         net'.ctl \in Seq(Forth'), net'.bulk \in Seq(Forth'), net'.back \in Seq(Back'),
         net'.open => net.open,
         \/ snd'.file = snd.file
         \/ snd.file \in File /\ snd'.file = snd.file + 1 /\ st[snd.file].done,
         SenderSound'
  PROVE  Inv'
<1>1. TypeOK BY DEF Inv, Typed
<1>2. File' = File /\ SndSet' = SndSet /\ RcvSet' = RcvSet /\ DirSet' = DirSet
  BY DEF File, SndSet, RcvSet, DirSet, TaskSet
<1>3. snd.file \in Nat /\ snd'.file \in Nat /\ snd.file <= snd'.file
  BY <1>1, Types, Sizes DEF SndSet
<1>4. Typed'
  <2>1. TypeOK' BY <1>1, <1>2, Types, TypesNext
  <2>2. rcv'.queue \in Seq(Forth')
    <3>1. rcv.queue \in Seq(Forth) BY DEF Inv, Typed
    <3>2. QED BY <1>1, <1>3, <3>1, Grows
  <2>3. QED BY <2>1, <2>2 DEF Typed, Inv
<1>5. FlagsSound' BY <1>2 DEF FlagsSound, Inv
<1>6. TaskSound'
  <2>1. rcv.task.f \in Nat BY <1>1, Types, Sizes DEF RcvSet, TaskSet
  <2>2. Folder' = Folder BY DEF Folder
  <2>3. QED BY <1>2, <1>3, <2>1, <2>2 DEF TaskSound, Inv
<1>7. ASSUME NEW f \in File PROVE FileSound(f)'
  <2>1. FileSound(f) BY DEF Inv
  <2>2. f \in Nat BY <1>1, Sizes
  <2>3. f < snd'.file => st[f].done BY <1>3, <2>1, <2>2 DEF FileSound
  <2>4. st[f].known => f <= snd'.file BY <1>3, <2>1, <2>2 DEF FileSound
  <2>5. QED BY <2>1, <2>3, <2>4 DEF FileSound, Folder, Stopped
<1>8. QED BY <1>2, <1>4, <1>5, <1>6, <1>7 DEF Inv

\* What the sender and the channels are before a step.
LEMMA SenderTypes ==
  ASSUME Inv
  PROVE  /\ TypeOK /\ snd \in SndSet /\ net \in NetSet /\ snd.file \in Nat
         /\ net.ctl \in Seq(Forth) /\ net.bulk \in Seq(Forth) /\ net.back \in Seq(Back)
         /\ SenderSound
         /\ snd.file \in File <=> snd.file <= Len(plan.size)
         /\ Len(plan.size) \in Nat /\ Forth \subseteq Message /\ Back \subseteq Message
<1>1. TypeOK BY DEF Inv, Typed
<1>2. snd \in SndSet /\ net \in NetSet BY <1>1, Types
<1>3. Len(plan.size) \in Nat /\ File = 1 .. Len(plan.size) BY <1>1, Sizes
<1>4. snd.file \in 1 .. Len(plan.size) + 1 BY <1>2 DEF SndSet
<1>5. QED BY <1>1, <1>2, <1>3, <1>4 DEF Inv, Typed, Forth, Back

\* A message of the sender.
LEMMA SendsKeeps ==
  ASSUME Inv, NEW at, NEW m \in Forth, NEW next, Sends(at, m, next),
         next \in {"begin", "ready", "all-done-ok", "file-ok"},
         next \in {"ready", "file-ok"} => snd.file \in File
  PROVE  Inv'
<1>1. /\ TypeOK /\ snd \in SndSet /\ net \in NetSet /\ snd.file \in Nat
      /\ net.ctl \in Seq(Forth) /\ net.bulk \in Seq(Forth) /\ net.back \in Seq(Back)
      /\ SenderSound /\ Forth \subseteq Message
  BY SenderTypes
<1>2. UNCHANGED <<plan, rcv, st, dir>> BY DEF Sends
<1>3. /\ snd' \in SndSet /\ snd'.file = snd.file
      /\ snd'.at = "throw" \/ snd'.at = next
  BY <1>1 DEF Sends, SndSet, Waiting
<1>4. /\ net'.ctl \in Seq(Forth) /\ net'.bulk = net.bulk /\ net'.back = net.back
      /\ net'.open = net.open /\ net' \in NetSet
  <2>. DEFINE q == Append(net.ctl, m)
  <2>1. q \in Seq(Forth) BY <1>1
  <2>2. q \in Seq(Message) BY <1>1, <2>1, SeqGrows
  <2>3. net' = net \/ net' = [net EXCEPT !.ctl = q] BY DEF Sends
  <2>. HIDE DEF q
  <2>4. QED BY <1>1, <2>1, <2>2, <2>3 DEF NetSet
<1>5. SenderSound' BY <1>2, <1>3 DEF SenderSound, File
<1>6. /\ net'.ctl \in Seq(Forth') /\ net'.bulk \in Seq(Forth') /\ net'.back \in Seq(Back')
  BY <1>1, <1>2, <1>3, <1>4, Grows
<1>7. QED BY <1>2, <1>3, <1>4, <1>5, <1>6, SenderKeeps

\* The messages of the sender are among those expected.
LEMMA ForthMessages ==
  ASSUME Inv
  PROVE  /\ Msg("manifest", 0) \in Forth /\ Msg("all-done", 0) \in Forth
         /\ Msg("abort", 0) \in Forth
         /\ snd.file \in File =>
              /\ Msg("file-begin", snd.file) \in Forth /\ Msg("restart", snd.file) \in Forth
         /\ snd.at = "chunks" =>
              /\ Msg("file-end", snd.file) \in Forth
              /\ snd.seq \in Nat => [Msg("chunk", snd.file) EXCEPT !.n = snd.seq] \in Forth
<1>1. snd.file \in Nat /\ SenderSound BY SenderTypes
<1>2. /\ Msg("manifest", 0) \in Forth /\ Msg("all-done", 0) \in Forth
      /\ Msg("abort", 0) \in Forth
  BY DEF Msg, Forth, Message
<1>3. snd.file \in File =>
        /\ Msg("file-begin", snd.file) \in Forth /\ Msg("restart", snd.file) \in Forth
  BY <1>1 DEF Msg, Forth, Message
<1>4. ASSUME snd.at = "chunks"
      PROVE  /\ Msg("file-end", snd.file) \in Forth
             /\ snd.seq \in Nat => [Msg("chunk", snd.file) EXCEPT !.n = snd.seq] \in Forth
  <2>1. snd.file \in File /\ st[snd.file].known /\ st[snd.file].good
    BY <1>1, <1>4 DEF SenderSound
  <2>2. QED BY <1>1, <2>1 DEF Msg, Forth, Message
<1>5. QED BY <1>2, <1>3, <1>4

\* The sender's steps that send one message or fail.
LEMMA SendStep ==
  ASSUME Inv, SendManifest \/ SendBegin \/ SendAllDone \/ SendEnd
  PROVE  Inv'
<1>1. CASE SendManifest
  BY <1>1, ForthMessages, SendsKeeps DEF SendManifest
<1>2. CASE SendBegin
  BY <1>2, ForthMessages, SendsKeeps DEF SendBegin
<1>3. CASE SendAllDone
  BY <1>3, ForthMessages, SendsKeeps DEF SendAllDone
<1>4. CASE SendEnd
  <2>1. snd.at = "chunks" BY <1>4 DEF SendEnd
  <2>2. snd.file \in File BY <2>1, SenderTypes DEF SenderSound
  <2>3. QED BY <1>4, <2>1, <2>2, ForthMessages, SendsKeeps DEF SendEnd
<1>5. QED BY <1>1, <1>2, <1>3, <1>4

\* verifiedBrowserReadyState: what follows rests on the prefix the receiver announced.
LEMMA VerifiedReadyStep ==
  ASSUME Inv, VerifiedReady
  PROVE  Inv'
<1>1. /\ TypeOK /\ snd \in SndSet /\ net \in NetSet /\ snd.file \in Nat
      /\ net.ctl \in Seq(Forth) /\ net.bulk \in Seq(Forth) /\ net.back \in Seq(Back)
      /\ SenderSound /\ Forth \subseteq Message
  BY SenderTypes
<1>2. UNCHANGED <<plan, rcv, st, dir>> BY DEF VerifiedReady
<1>3. snd.at = "check" /\ snd.file \in File BY <1>1 DEF VerifiedReady, SenderSound
<1>. DEFINE s == [snd EXCEPT !.ready = Msg("none", 0)]
            n == snd.ready.n
            q == Append(net.ctl, Msg("restart", snd.file))
<1>4. Msg("none", 0) \in Message /\ n \in Nat BY <1>1 DEF Msg, Message, SndSet
<1>5. /\ s \in SndSet /\ s.file = snd.file
  BY <1>1, <1>4 DEF SndSet
<1>6. q \in Seq(Forth) BY <1>1, <1>3, ForthMessages
<1>7. q \in Seq(Message) BY <1>1, <1>6, SeqGrows
<1>8. \/ snd' = [s EXCEPT !.at = "throw"] /\ net' = net
      \/ /\ snd' = [s EXCEPT !.at = "chunks", !.seq = n] /\ net' = net
         /\ n = 0 \/ snd.ready.same
      \/ snd' = [s EXCEPT !.at = "ready"] /\ net' = [net EXCEPT !.ctl = q]
  BY DEF VerifiedReady
<1>. HIDE DEF s, q
<1>9. /\ net'.ctl \in Seq(Forth) /\ net'.bulk = net.bulk /\ net'.back = net.back
      /\ net'.open = net.open /\ net' \in NetSet
  BY <1>1, <1>6, <1>7, <1>8 DEF NetSet
<1>10. /\ snd' \in SndSet /\ snd'.file = snd.file
       /\ \/ snd'.at \in {"throw", "ready"}
          \/ snd'.at = "chunks" /\ (n = 0 \/ snd.ready.same)
  BY <1>4, <1>5, <1>8 DEF SndSet, Waiting
<1>11. n = 0 \/ snd.ready.same => st[snd.file].known /\ st[snd.file].good
  BY <1>1, <1>3, <1>4 DEF SenderSound
<1>12. SenderSound' BY <1>2, <1>3, <1>10, <1>11 DEF SenderSound, File
<1>13. /\ net'.ctl \in Seq(Forth') /\ net'.bulk \in Seq(Forth') /\ net'.back \in Seq(Back')
  BY <1>1, <1>2, <1>9, <1>10, Grows
<1>14. QED BY <1>2, <1>9, <1>10, <1>12, <1>13, SenderKeeps

\* A chunk.
LEMMA SendChunkStep ==
  ASSUME Inv, SendChunk
  PROVE  Inv'
<1>1. /\ TypeOK /\ snd \in SndSet /\ net \in NetSet /\ snd.file \in Nat
      /\ net.ctl \in Seq(Forth) /\ net.bulk \in Seq(Forth) /\ net.back \in Seq(Back)
      /\ SenderSound /\ Forth \subseteq Message
  BY SenderTypes
<1>2. UNCHANGED <<plan, rcv, st, dir>> /\ snd.at = "chunks" BY DEF SendChunk
<1>3. snd.seq \in Nat BY <1>1 DEF SndSet
<1>. DEFINE m == [Msg("chunk", snd.file) EXCEPT !.n = snd.seq]
            q == Append(net.bulk, m)
<1>4. m \in Forth BY <1>2, <1>3, ForthMessages
<1>5. \/ snd' = [snd EXCEPT !.at = "throw"] /\ net' = net
      \/ snd' = [snd EXCEPT !.seq = snd.seq + 1] /\ net' = [net EXCEPT !.bulk = q]
  BY DEF SendChunk
<1>. HIDE DEF m
<1>6. q \in Seq(Forth) BY <1>1, <1>4
<1>7. q \in Seq(Message) BY <1>1, <1>6, SeqGrows
<1>. HIDE DEF q
<1>8. /\ net'.ctl = net.ctl /\ net'.bulk \in Seq(Forth) /\ net'.back = net.back
      /\ net'.open = net.open /\ net' \in NetSet
  BY <1>1, <1>5, <1>6, <1>7 DEF NetSet
<1>9. /\ snd' \in SndSet /\ snd'.file = snd.file
      /\ snd'.at = "throw" \/ (snd'.at = snd.at /\ snd'.ready = snd.ready)
  BY <1>1, <1>3, <1>5 DEF SndSet
<1>10. SenderSound' BY <1>1, <1>2, <1>9 DEF SenderSound, File
<1>11. /\ net'.ctl \in Seq(Forth') /\ net'.bulk \in Seq(Forth') /\ net'.back \in Seq(Back')
  BY <1>1, <1>2, <1>8, <1>9, Grows
<1>12. QED BY <1>2, <1>8, <1>9, <1>10, <1>11, SenderKeeps

\* A sender that has failed.
LEMMA FailedSenderSound ==
  ASSUME Inv
  PROVE  /\ FailedSender \in SndSet /\ FailedSender.file = snd.file
         /\ FailedSender.at = "throw" \/ FailedSender.at = snd.at
         /\ FailedSender.ready = snd.ready
  BY SenderTypes DEF FailedSender, SndSet

\* A step that changes the sender only in its stage or its failure.
LEMMA SenderStops ==
  ASSUME Inv, UNCHANGED <<plan, rcv, st, dir>>, snd' \in SndSet, snd'.file = snd.file,
         \/ snd'.at \in {"throw", "failed"}
         \/ snd'.at = snd.at /\ snd'.ready = snd.ready,
         net' \in NetSet, net'.ctl \in Seq(Forth), net'.bulk = net.bulk,
         net'.back \in Seq(Back), net'.open => net.open
  PROVE  Inv'
<1>1. /\ TypeOK /\ snd.file \in Nat /\ net.bulk \in Seq(Forth) /\ SenderSound
  BY SenderTypes
<1>2. SenderSound' BY <1>1 DEF SenderSound, File
<1>3. /\ net'.ctl \in Seq(Forth') /\ net'.bulk \in Seq(Forth') /\ net'.back \in Seq(Back')
  BY <1>1, Grows
<1>4. QED BY <1>2, <1>3, SenderKeeps

\* handleSenderControl: an acknowledgement says what the receiver has done.
LEMMA HandleSenderControlStep ==
  ASSUME Inv, HandleSenderControl
  PROVE  Inv'
<1>1. /\ TypeOK /\ snd \in SndSet /\ net \in NetSet /\ snd.file \in Nat
      /\ net.ctl \in Seq(Forth) /\ net.bulk \in Seq(Forth) /\ net.back \in Seq(Back)
      /\ SenderSound /\ Back \subseteq Message /\ Len(plan.size) \in Nat
      /\ snd.file \in File <=> snd.file <= Len(plan.size)
  BY SenderTypes
<1>2. UNCHANGED <<plan, rcv, st, dir>> BY DEF HandleSenderControl
<1>. DEFINE m == Head(net.back)
            q == Tail(net.back)
<1>3. net.back # <<>> /\ net' = [net EXCEPT !.back = q] BY DEF HandleSenderControl
<1>4. m \in Back /\ q \in Seq(Back) BY <1>1, <1>3
<1>5. q \in Seq(Message) /\ m \in Message BY <1>1, <1>4, SeqGrows
<1>6. \/ snd' = FailedSender
      \/ /\ m.t = snd.at /\ m.t = "ready" /\ m.f = snd.file
         /\ snd' = [snd EXCEPT !.at = "check", !.ready = m]
      \/ /\ m.t = snd.at /\ m.t = "file-ok" /\ m.f = snd.file
         /\ snd' = [snd EXCEPT !.at = "begin", !.file = snd.file + 1]
      \/ /\ m.t = snd.at /\ m.t = "all-done-ok" /\ snd' = [snd EXCEPT !.at = "done"]
  <2>1. snd.at # "abort" BY <1>1 DEF SndSet, Waiting, Ended
  <2>2. snd.at = m.t => m.t \in {"ready", "file-ok", "all-done-ok"}
    BY <1>4, <2>1 DEF Back
  <2>3. QED BY <2>2 DEF HandleSenderControl
<1>. HIDE DEF m, q
<1>7. /\ net'.ctl = net.ctl /\ net'.bulk = net.bulk /\ net'.back \in Seq(Back)
      /\ net'.open = net.open /\ net' \in NetSet
  BY <1>1, <1>3, <1>4, <1>5 DEF NetSet
<1>8. CASE snd' = FailedSender
  BY <1>1, <1>2, <1>7, <1>8, FailedSenderSound, SenderStops
<1>9. CASE /\ m.t = snd.at /\ m.t = "ready" /\ m.f = snd.file
           /\ snd' = [snd EXCEPT !.at = "check", !.ready = m]
  <2>1. snd' \in SndSet /\ snd'.file = snd.file /\ snd'.at = "check" /\ snd'.ready = m
    BY <1>1, <1>5, <1>9 DEF SndSet
  <2>2. m.f \in File /\ st[m.f].known /\ (m.same => st[m.f].good) /\ (m.same \/ m.n > 0)
    BY <1>4, <1>9 DEF Back
  <2>3. SenderSound' BY <1>2, <1>9, <2>1, <2>2 DEF SenderSound, File
  <2>4. /\ net'.ctl \in Seq(Forth') /\ net'.bulk \in Seq(Forth') /\ net'.back \in Seq(Back')
    BY <1>1, <1>2, <1>7, <2>1, Grows
  <2>5. QED BY <1>2, <1>7, <2>1, <2>3, <2>4, SenderKeeps
<1>10. CASE /\ m.t = snd.at /\ m.t = "file-ok" /\ m.f = snd.file
            /\ snd' = [snd EXCEPT !.at = "begin", !.file = snd.file + 1]
  <2>1. snd.file \in File /\ st[snd.file].done BY <1>4, <1>10 DEF Back
  <2>2. snd' \in SndSet /\ snd'.file = snd.file + 1 /\ snd'.at = "begin"
    <3>. DEFINE g == snd.file + 1
    <3>1. g \in 1 .. Len(plan.size) + 1 BY <1>1, <2>1
    <3>2. snd' = [snd EXCEPT !.at = "begin", !.file = g] BY <1>10
    <3>3. SUFFICES snd' \in SndSet /\ snd'.file = g /\ snd'.at = "begin" OBVIOUS
    <3>. HIDE DEF g
    <3>4. QED BY <1>1, <3>1, <3>2 DEF SndSet
  <2>3. SenderSound' BY <1>2, <2>2 DEF SenderSound, File
  <2>4. /\ net'.ctl \in Seq(Forth') /\ net'.bulk \in Seq(Forth') /\ net'.back \in Seq(Back')
    BY <1>1, <1>2, <1>7, <2>2, Grows
  <2>5. QED BY <1>2, <1>7, <2>1, <2>2, <2>3, <2>4, SenderKeeps
<1>11. CASE /\ m.t = snd.at /\ m.t = "all-done-ok" /\ snd' = [snd EXCEPT !.at = "done"]
  <2>1. rcv.completed BY <1>4, <1>11 DEF Back
  <2>2. snd' \in SndSet /\ snd'.file = snd.file /\ snd'.at = "done"
    BY <1>1, <1>11 DEF SndSet, Ended
  <2>3. SenderSound' BY <1>2, <2>1, <2>2 DEF SenderSound, File
  <2>4. /\ net'.ctl \in Seq(Forth') /\ net'.bulk \in Seq(Forth') /\ net'.back \in Seq(Back')
    BY <1>1, <1>2, <1>7, <2>2, Grows
  <2>5. QED BY <1>2, <1>7, <2>2, <2>3, <2>4, SenderKeeps
<1>12. QED BY <1>6, <1>8, <1>9, <1>10, <1>11

\* The sender fails, and its catch sends an abort.
LEMMA SenderFailsStep ==
  ASSUME Inv, SenderClosed \/ SenderThrows \/ SenderAbort
  PROVE  Inv'
<1>1. /\ TypeOK /\ snd \in SndSet /\ net \in NetSet /\ snd.file \in Nat
      /\ net.ctl \in Seq(Forth) /\ net.bulk \in Seq(Forth) /\ net.back \in Seq(Back)
      /\ Forth \subseteq Message
  BY SenderTypes
<1>2. UNCHANGED <<plan, rcv, st, dir>> BY DEF SenderClosed, SenderThrows, SenderAbort
<1>3. CASE SenderClosed
  BY <1>1, <1>2, <1>3, FailedSenderSound, SenderStops DEF SenderClosed
<1>4. CASE SenderThrows
  <2>1. snd' \in SndSet /\ snd'.file = snd.file /\ snd'.at = "throw" /\ net' = net
    BY <1>1, <1>4 DEF SenderThrows, SndSet
  <2>2. QED BY <1>1, <1>2, <2>1, SenderStops
<1>5. CASE SenderAbort
  <2>. DEFINE q == Append(net.ctl, Msg("abort", 0))
  <2>1. snd' \in SndSet /\ snd'.file = snd.file /\ snd'.at = "failed"
    BY <1>1, <1>5 DEF SenderAbort, SndSet, Ended
  <2>2. q \in Seq(Forth) BY <1>1, ForthMessages
  <2>3. q \in Seq(Message) BY <1>1, <2>2, SeqGrows
  <2>4. net' = net \/ net' = [net EXCEPT !.ctl = q] BY <1>5 DEF SenderAbort
  <2>. HIDE DEF q
  <2>5. /\ net'.ctl \in Seq(Forth) /\ net'.bulk = net.bulk /\ net'.back = net.back
        /\ net'.open = net.open /\ net' \in NetSet
    BY <1>1, <2>2, <2>3, <2>4 DEF NetSet
  <2>6. QED BY <1>1, <1>2, <2>1, <2>5, SenderStops
<1>6. QED BY <1>3, <1>4, <1>5

\* The connection ends.
LEMMA CloseStep ==
  ASSUME Inv, PeerClose \/ LinkDown
  PROVE  Inv'
<1>1. /\ snd \in SndSet /\ net \in NetSet
      /\ net.ctl \in Seq(Forth) /\ net.bulk \in Seq(Forth) /\ net.back \in Seq(Back)
  BY SenderTypes
<1>2. UNCHANGED <<plan, snd, rcv, st, dir>> /\ net' = [net EXCEPT !.open = FALSE]
  BY DEF PeerClose, LinkDown
<1>3. /\ net' \in NetSet /\ net'.ctl = net.ctl /\ net'.bulk = net.bulk
      /\ net'.back = net.back /\ net'.open = FALSE
  BY <1>1, <1>2 DEF NetSet
<1>4. QED BY <1>1, <1>2, <1>3, SenderStops

-----------------------------------------------------------------------------
(* The receiver: what a step must show *)

\* What the receiver and its storage are before a step.
LEMMA ReceiverTypes ==
  ASSUME Inv
  PROVE  /\ TypeOK /\ rcv \in RcvSet /\ net \in NetSet /\ snd \in SndSet
         /\ st \in [File -> StSet] /\ dir \in DirSet
         /\ rcv.queue \in Seq(Forth) /\ rcv.queue \in Seq(Message) /\ Len(rcv.queue) \in Nat
         /\ rcv.task \in TaskSet /\ rcv.task.f \in Nat /\ rcv.clean \in Nat
         /\ Len(rcv.queue) + (IF rcv.task = Idle THEN 0 ELSE 1) <= plan.limit
         /\ FlagsSound /\ TaskSound /\ \A f \in File : FileSound(f)
<1>1. TypeOK BY DEF Inv, Typed
<1>2. /\ rcv \in RcvSet /\ st \in [File -> StSet] /\ dir \in DirSet /\ net \in NetSet
      /\ snd \in SndSet
      /\ Len(rcv.queue) + (IF rcv.task = Idle THEN 0 ELSE 1) <= plan.limit
  BY <1>1, Types
<1>3. Len(plan.size) \in Nat BY <1>1, Sizes
<1>4. rcv.task \in TaskSet /\ rcv.clean \in Nat /\ rcv.queue \in Seq(Message)
  BY <1>2, <1>3 DEF RcvSet
<1>5. rcv.task.f \in Nat BY <1>3, <1>4 DEF TaskSet
<1>6. Len(rcv.queue) \in Nat BY <1>4
<1>7. rcv.queue \in Seq(Forth) BY DEF Inv, Typed
<1>8. FlagsSound /\ TaskSound /\ \A f \in File : FileSound(f) BY DEF Inv
<1>9. QED BY <1>1, <1>2, <1>4, <1>5, <1>6, <1>7, <1>8

\* The channels after a step of the receiver.
Channels ==
  /\ net' \in NetSet /\ net'.ctl \in Seq(Forth) /\ net'.bulk \in Seq(Forth)
  /\ net'.back \in Seq(Back') /\ (net'.open => net.open)

\* The receiver's queue and flags after it.
Receives ==
  /\ rcv' \in RcvSet /\ rcv'.queue \in Seq(Forth)
  /\ Len(rcv'.queue) + (IF rcv'.task = Idle THEN 0 ELSE 1) <= plan.limit
  /\ rcv.failed => rcv'.failed
  /\ rcv.completed => rcv'.completed
  /\ ~(rcv'.failed /\ rcv'.completed)

\* What a file has reached stays so.
Advances ==
  \A f \in File : /\ st[f].known => st'[f].known
                  /\ st[f].known /\ st[f].good => st'[f].good
                  /\ st[f].done => st'[f].done

\* A step of the receiver.
LEMMA ReceiverKeeps ==
  ASSUME Inv, UNCHANGED <<plan, snd>>, Channels, Receives, Advances,
         st' \in [File -> StSet], dir' \in DirSet,
         FlagsSound', TaskSound', \A f \in File : FileSound(f)'
  PROVE  Inv'
<1>1. /\ TypeOK /\ snd \in SndSet /\ snd.file \in Nat /\ SenderSound
  BY SenderTypes
<1>2. File' = File /\ SndSet' = SndSet /\ RcvSet' = RcvSet /\ DirSet' = DirSet
  BY DEF File, SndSet, RcvSet, DirSet, TaskSet
<1>3. plan \in Plan /\ plan \in Plans BY <1>1, Types DEF Inv, Typed
<1>4. TypeOK' BY <1>1, <1>2, <1>3, TypesNext DEF Channels, Receives
<1>5. /\ net'.ctl \in Seq(Forth') /\ net'.bulk \in Seq(Forth') /\ rcv'.queue \in Seq(Forth')
  <2>1. rcv.completed => rcv'.completed BY DEF Receives
  <2>2. /\ net'.ctl \in Seq(Forth) /\ net'.bulk \in Seq(Forth) /\ rcv'.queue \in Seq(Forth)
    BY DEF Channels, Receives
  <2>3. QED BY <1>1, <2>1, <2>2, Grows DEF Advances
<1>6. Typed' BY <1>3, <1>4, <1>5 DEF Typed, Channels
<1>7. SenderSound' BY <1>1, <1>2 DEF SenderSound, Advances, Receives
<1>8. QED BY <1>2, <1>6, <1>7 DEF Inv

\* The channels are left alone.
LEMMA ChannelsSame ==
  ASSUME Inv, UNCHANGED <<plan, snd, net>>, Receives, Advances
  PROVE  Channels
<1>1. /\ TypeOK /\ snd.file \in Nat /\ net \in NetSet
      /\ net.ctl \in Seq(Forth) /\ net.bulk \in Seq(Forth) /\ net.back \in Seq(Back)
  BY SenderTypes
<1>2. rcv.completed => rcv'.completed BY DEF Receives
<1>3. net.back \in Seq(Back') BY <1>1, <1>2, Grows DEF Advances
<1>4. QED BY <1>1, <1>3 DEF Channels

\* A message goes back that says what holds.
LEMMA ChannelsReply ==
  ASSUME Inv, UNCHANGED <<plan, snd>>, Receives, Advances, NEW m, m \in Back',
         net' = [net EXCEPT !.back = Append(@, m)]
  PROVE  Channels
<1>1. /\ TypeOK /\ snd.file \in Nat /\ net \in NetSet
      /\ net.ctl \in Seq(Forth) /\ net.bulk \in Seq(Forth) /\ net.back \in Seq(Back)
  BY SenderTypes
<1>2. rcv.completed => rcv'.completed BY DEF Receives
<1>3. net.back \in Seq(Back') BY <1>1, <1>2, Grows DEF Advances
<1>. DEFINE q == Append(net.back, m)
<1>4. q \in Seq(Back') BY <1>3
<1>5. Back' \subseteq Message BY DEF Back, Message
<1>6. q \in Seq(Message) BY <1>4, <1>5, SeqGrows
<1>7. net' = [net EXCEPT !.back = q] OBVIOUS
<1>. HIDE DEF q
<1>8. /\ net' \in NetSet /\ net'.back = q /\ net'.ctl = net.ctl /\ net'.bulk = net.bulk
      /\ net'.open = net.open
  BY <1>1, <1>6, <1>7 DEF NetSet
<1>9. QED BY <1>1, <1>4, <1>8 DEF Channels

\* A file that a step leaves alone.
LEMMA FileSame ==
  ASSUME Inv, UNCHANGED <<plan, snd>>, NEW f \in File, st'[f] = st[f],
         dir'.part[f] = dir.part[f], dir'.final[f] = dir.final[f],
         dir'.record[f] = dir.record[f], dir.told => dir'.told,
         f \in dir.saved => f \in dir'.saved,
         rcv'.clean \in Nat, rcv'.clean = 0 => rcv.clean = 0,
         rcv'.clean > f => rcv.clean > f \/ ~st[f].known,
         Stopped => Stopped'
  PROVE  FileSound(f)'
<1>1. FileSound(f) BY DEF Inv
<1>2. QED BY <1>1 DEF FileSound, Folder

\* No task runs after the step.
LEMMA TaskIdle ==
  ASSUME rcv'.task = Idle
  PROVE  TaskSound'
  BY DEF Idle, TaskSound, LocalWork, Publishing

\* The task goes on with its file as it was.
LEMMA TaskSame ==
  ASSUME Inv, UNCHANGED <<plan, snd, st, dir>>, rcv'.task = rcv.task, rcv'.clean \in Nat,
         rcv'.clean = rcv.clean \/ (rcv.clean = 0 /\ rcv'.clean = 1)
  PROVE  TaskSound'
<1>1. TaskSound /\ TypeOK /\ rcv.task.f \in Nat /\ rcv.clean \in Nat BY ReceiverTypes
<1>2. rcv.task.at \in LocalWork => rcv.task.f > 0 BY <1>1, Sizes DEF TaskSound
<1>3. File' = File /\ Folder' = Folder BY DEF File, Folder
<1>4. QED BY <1>1, <1>2, <1>3 DEF TaskSound, LocalWork

\* A step of the receiver that touches no file.
LEMMA ReceiverRests ==
  ASSUME Inv, UNCHANGED <<plan, snd, st, dir>>, Channels, Receives,
         \/ rcv'.clean = rcv.clean
         \/ rcv.clean = 0 /\ rcv'.clean = 1 /\ rcv'.failed /\ ~net'.open,
         rcv'.allDone /\ ~rcv.allDone => \A f \in File : st[f].known,
         rcv'.completed /\ ~rcv.completed => \A f \in File : st[f].done,
         TaskSound'
  PROVE  Inv'
<1>1. /\ st \in [File -> StSet] /\ dir \in DirSet /\ FlagsSound /\ rcv.clean \in Nat
      /\ TypeOK
  BY ReceiverTypes
<1>2. rcv'.clean \in Nat BY <1>1
<1>3. FlagsSound' BY <1>1 DEF FlagsSound, File, Channels, Receives
<1>4. ASSUME NEW f \in File PROVE FileSound(f)'
  <2>1. f \in Nat /\ f > 0 BY <1>1, Sizes
  <2>2. rcv'.clean > f => rcv.clean > f BY <1>1, <2>1
  <2>3. Stopped => Stopped' BY DEF Stopped, Receives
  <2>4. rcv'.clean = 0 => rcv.clean = 0 BY <1>1
  <2>5. QED BY <1>1, <1>2, <2>2, <2>3, <2>4, FileSame
<1>5. Advances BY DEF Advances
<1>6. QED BY <1>1, <1>3, <1>4, <1>5, ReceiverKeeps

\* failTransfer up to its await.
LEMMA FailedReceiver ==
  ASSUME Inv, NEW r, r \in RcvSet, r.queue \in Seq(Forth),
         ~(r.failed /\ r.completed),
         Len(r.queue) + (IF r.task = Idle THEN 0 ELSE 1) <= plan.limit
  PROVE  LET s == Failed(r)
         IN  /\ s \in RcvSet /\ s.queue \in Seq(Forth)
             /\ s.task = r.task /\ s.clean = r.clean /\ s.allDone = r.allDone
             /\ s.manifest = r.manifest /\ s.completed = r.completed
             /\ r.failed => s.failed
             /\ s.failed \/ s.completed
             /\ ~(s.failed /\ s.completed)
             /\ Len(s.queue) + (IF s.task = Idle THEN 0 ELSE 1) <= plan.limit
<1>. DEFINE e == <<>>
            s == Failed(r)
<1>1. e \in Seq(Forth) /\ e \in Seq(Message) /\ Len(e) = 0 OBVIOUS
<1>2. plan.limit \in Nat /\ Len(r.queue) \in Nat BY ReceiverTypes, Sizes
<1>3. \/ s = r /\ (r.failed \/ r.completed)
      \/ s = [r EXCEPT !.failed = TRUE, !.queue = e] /\ ~r.completed
  BY DEF Failed
<1>. HIDE DEF e, s
<1>4. s \in RcvSet /\ s.queue \in Seq(Forth) BY <1>1, <1>3 DEF RcvSet
<1>5. /\ s.task = r.task /\ s.clean = r.clean /\ s.allDone = r.allDone
      /\ s.manifest = r.manifest /\ s.completed = r.completed
      /\ r.failed => s.failed
      /\ s.failed \/ s.completed
      /\ ~(s.failed /\ s.completed)
  BY <1>3 DEF RcvSet
<1>6. Len(s.queue) = Len(r.queue) \/ Len(s.queue) = 0 BY <1>1, <1>3 DEF RcvSet
<1>7. Len(s.queue) + (IF s.task = Idle THEN 0 ELSE 1) <= plan.limit
  <2>. DEFINE n == Len(s.queue)
              k == Len(r.queue)
  <2>1. n \in Nat /\ k \in Nat /\ n <= k BY <1>2, <1>6
  <2>2. CASE r.task = Idle
    <3>1. k + 0 <= plan.limit BY <2>2
    <3>. HIDE DEF n, k
    <3>2. n + 0 <= plan.limit BY <1>2, <2>1, <3>1
    <3>3. QED BY <1>5, <2>2, <3>2 DEF n
  <2>3. CASE r.task # Idle
    <3>1. k + 1 <= plan.limit BY <2>3
    <3>. HIDE DEF n, k
    <3>2. n + 1 <= plan.limit BY <1>2, <2>1, <3>1
    <3>3. QED BY <1>5, <2>3, <3>2 DEF n
  <2>4. QED BY <2>2, <2>3
<1>8. QED BY <1>4, <1>5, <1>7 DEF s

\* The receiver fails while a task may run.
LEMMA FailedStep ==
  ASSUME Inv, rcv' = Failed(rcv), UNCHANGED <<plan, net, snd, st, dir>>
  PROVE  Inv'
<1>1. /\ rcv \in RcvSet /\ rcv.queue \in Seq(Forth) /\ FlagsSound /\ net \in NetSet
      /\ Len(rcv.queue) + (IF rcv.task = Idle THEN 0 ELSE 1) <= plan.limit
      /\ rcv.clean \in Nat
  BY ReceiverTypes
<1>2. ~(rcv.failed /\ rcv.completed) BY <1>1 DEF FlagsSound
<1>3. /\ rcv' \in RcvSet /\ rcv'.queue \in Seq(Forth)
      /\ rcv'.task = rcv.task /\ rcv'.clean = rcv.clean /\ rcv'.allDone = rcv.allDone
      /\ rcv'.completed = rcv.completed /\ (rcv.failed => rcv'.failed)
      /\ ~(rcv'.failed /\ rcv'.completed)
      /\ Len(rcv'.queue) + (IF rcv'.task = Idle THEN 0 ELSE 1) <= plan.limit
  BY <1>1, <1>2, FailedReceiver
<1>4. TaskSound' BY <1>1, <1>3, TaskSame
<1>5. Receives BY <1>3 DEF Receives
<1>6. Advances BY DEF Advances
<1>7. Channels BY <1>5, <1>6, ChannelsSame
<1>8. QED BY <1>3, <1>4, <1>5, <1>7, ReceiverRests

\* The running task throws.
LEMMA Thrown ==
  ASSUME Inv, Throw
  PROVE  /\ Receives /\ rcv'.task = Idle /\ rcv'.clean = rcv.clean
         /\ rcv'.allDone = rcv.allDone /\ rcv'.completed = rcv.completed /\ Stopped'
<1>. DEFINE r == [rcv EXCEPT !.task = Idle]
<1>1. /\ rcv \in RcvSet /\ rcv.queue \in Seq(Forth) /\ FlagsSound /\ TypeOK
      /\ Len(rcv.queue) + (IF rcv.task = Idle THEN 0 ELSE 1) <= plan.limit
      /\ Len(rcv.queue) \in Nat
  BY ReceiverTypes
<1>2. Idle \in TaskSet BY <1>1, Sizes DEF Idle, TaskSet
<1>3. /\ r \in RcvSet /\ r.queue = rcv.queue /\ r.task = Idle /\ r.clean = rcv.clean
      /\ r.allDone = rcv.allDone /\ r.failed = rcv.failed /\ r.completed = rcv.completed
  BY <1>1, <1>2 DEF RcvSet
<1>4. rcv' = Failed(r) BY DEF Throw
<1>. HIDE DEF r
<1>5. Len(r.queue) + (IF r.task = Idle THEN 0 ELSE 1) <= plan.limit
  <2>1. Len(r.queue) = Len(rcv.queue) /\ r.task = Idle BY <1>3
  <2>2. plan.limit \in Nat BY <1>1, Sizes
  <2>3. Len(rcv.queue) <= plan.limit
    <3>1. CASE rcv.task = Idle BY <1>1, <2>2, <3>1
    <3>2. CASE rcv.task # Idle BY <1>1, <2>2, <3>2
    <3>3. QED BY <3>1, <3>2
  <2>4. QED BY <1>1, <2>1, <2>3
<1>6. ~(r.failed /\ r.completed) BY <1>1, <1>3 DEF FlagsSound
<1>7. r.queue \in Seq(Forth) BY <1>1, <1>3
<1>8. /\ rcv' \in RcvSet /\ rcv'.queue \in Seq(Forth)
      /\ rcv'.task = r.task /\ rcv'.clean = r.clean /\ rcv'.allDone = r.allDone
      /\ rcv'.completed = r.completed /\ (r.failed => rcv'.failed)
      /\ rcv'.failed \/ rcv'.completed
      /\ ~(rcv'.failed /\ rcv'.completed)
      /\ Len(rcv'.queue) + (IF rcv'.task = Idle THEN 0 ELSE 1) <= plan.limit
  BY <1>3, <1>4, <1>5, <1>6, <1>7, FailedReceiver
<1>9. QED BY <1>3, <1>8 DEF Receives, Stopped

\* The running task throws and nothing else happens.
LEMMA ThrowStep ==
  ASSUME Inv, Throw, UNCHANGED <<plan, net, snd, st, dir>>
  PROVE  Inv'
<1>1. /\ Receives /\ rcv'.task = Idle /\ rcv'.clean = rcv.clean
      /\ rcv'.allDone = rcv.allDone /\ rcv'.completed = rcv.completed
  BY Thrown
<1>2. Advances BY DEF Advances
<1>3. Channels BY <1>1, <1>2, ChannelsSame
<1>4. TaskSound' BY <1>1, TaskIdle
<1>5. QED BY <1>1, <1>3, <1>4, ReceiverRests

\* The queue starts on its first message.
LEMMA Starts ==
  ASSUME Inv, rcv.queue # <<>>, rcv.task = Idle, NEW k \in TaskSet,
         \/ rcv' = Started(k)
         \/ rcv' = [Started(k) EXCEPT !.manifest = TRUE]
         \/ rcv' = [Started(k) EXCEPT !.allDone = TRUE]
  PROVE  /\ Receives /\ rcv'.task = k /\ rcv'.clean = rcv.clean
         /\ rcv'.failed = rcv.failed /\ rcv'.completed = rcv.completed
         /\ rcv'.allDone = rcv.allDone \/ rcv' = [Started(k) EXCEPT !.allDone = TRUE]
<1>. DEFINE q == Tail(rcv.queue)
            r == Started(k)
<1>1. /\ rcv \in RcvSet /\ rcv.queue \in Seq(Forth) /\ FlagsSound /\ TypeOK
      /\ Len(rcv.queue) + (IF rcv.task = Idle THEN 0 ELSE 1) <= plan.limit
      /\ Len(rcv.queue) \in Nat /\ rcv.queue \in Seq(Message)
  BY ReceiverTypes
<1>2. q \in Seq(Forth) /\ q \in Seq(Message) /\ Len(q) = Len(rcv.queue) - 1
  BY <1>1
<1>3. r = [rcv EXCEPT !.queue = q, !.task = k] BY DEF Started
<1>4. r \in RcvSet /\ r.queue = q /\ r.task = k /\ r.clean = rcv.clean
      /\ r.failed = rcv.failed /\ r.completed = rcv.completed /\ r.allDone = rcv.allDone
  BY <1>1, <1>2, <1>3 DEF RcvSet
<1>5. rcv' = r \/ rcv' = [r EXCEPT !.manifest = TRUE] \/ rcv' = [r EXCEPT !.allDone = TRUE]
  OBVIOUS
<1>6. SUFFICES /\ Receives /\ rcv'.task = k /\ rcv'.clean = rcv.clean
               /\ rcv'.failed = rcv.failed /\ rcv'.completed = rcv.completed
               /\ rcv'.allDone = rcv.allDone \/ rcv' = [r EXCEPT !.allDone = TRUE]
  OBVIOUS
<1>. HIDE DEF q, r
<1>7. rcv' \in RcvSet /\ rcv'.queue = q /\ rcv'.task = k /\ rcv'.clean = rcv.clean
      /\ rcv'.failed = rcv.failed /\ rcv'.completed = rcv.completed
  BY <1>4, <1>5 DEF RcvSet
<1>8. Len(q) + 1 <= plan.limit /\ Len(q) \in Nat
  <2>1. plan.limit \in Nat BY <1>1, Sizes
  <2>2. Len(q) \in Nat BY <1>2
  <2>3. Len(rcv.queue) + 0 <= plan.limit BY <1>1
  <2>4. QED BY <1>1, <1>2, <2>1, <2>2, <2>3
<1>9. Len(rcv'.queue) + (IF rcv'.task = Idle THEN 0 ELSE 1) <= plan.limit
  <2>1. plan.limit \in Nat BY <1>1, Sizes
  <2>2. Len(q) + 0 <= plan.limit BY <1>8, <2>1
  <2>3. QED BY <1>7, <1>8, <2>2
<1>10. Receives BY <1>1, <1>2, <1>7, <1>9 DEF Receives, FlagsSound
<1>11. rcv'.allDone = rcv.allDone \/ rcv' = [r EXCEPT !.allDone = TRUE]
  BY <1>4, <1>5 DEF RcvSet
<1>12. QED BY <1>7, <1>10, <1>11

\* The running task goes on.
LEMMA Goes ==
  ASSUME Inv, rcv.task # Idle, NEW k \in TaskSet, rcv' = [rcv EXCEPT !.task = k]
  PROVE  /\ Receives /\ rcv'.task = k /\ rcv'.clean = rcv.clean
         /\ rcv'.failed = rcv.failed /\ rcv'.completed = rcv.completed
         /\ rcv'.allDone = rcv.allDone
<1>1. /\ rcv \in RcvSet /\ rcv.queue \in Seq(Forth) /\ FlagsSound /\ TypeOK
      /\ Len(rcv.queue) + (IF rcv.task = Idle THEN 0 ELSE 1) <= plan.limit
      /\ Len(rcv.queue) \in Nat
  BY ReceiverTypes
<1>2. plan.limit \in Nat BY <1>1, Sizes
<1>3. /\ rcv' \in RcvSet /\ rcv'.queue = rcv.queue /\ rcv'.task = k
      /\ rcv'.clean = rcv.clean /\ rcv'.allDone = rcv.allDone
      /\ rcv'.failed = rcv.failed /\ rcv'.completed = rcv.completed
  BY <1>1 DEF RcvSet
<1>4. Len(rcv.queue) + 1 <= plan.limit BY <1>1
<1>5. Len(rcv.queue) + 0 <= plan.limit BY <1>1, <1>2, <1>4
<1>6. Len(rcv'.queue) + (IF rcv'.task = Idle THEN 0 ELSE 1) <= plan.limit
  BY <1>3, <1>4, <1>5
<1>7. QED BY <1>1, <1>3, <1>6 DEF Receives, FlagsSound

\* To the next await of the same file.
LEMMA GoesOn ==
  ASSUME Inv, rcv.task # Idle,
         NEW stage \in LocalWork \cup {"ready", "all-done-ok"}, Next1(stage)
  PROVE  /\ Receives /\ rcv'.task = At(stage, rcv.task.f) /\ rcv'.clean = rcv.clean
         /\ rcv'.failed = rcv.failed /\ rcv'.completed = rcv.completed
         /\ rcv'.allDone = rcv.allDone
<1>1. rcv \in RcvSet /\ rcv.task \in TaskSet BY ReceiverTypes
<1>. DEFINE k == [rcv.task EXCEPT !.at = stage]
<1>2. k \in TaskSet /\ k = At(stage, rcv.task.f) BY <1>1 DEF TaskSet, At
<1>3. rcv' = [rcv EXCEPT !.task = k] BY <1>1 DEF Next1, RcvSet
<1>. HIDE DEF k
<1>4. QED BY <1>2, <1>3, Goes

-----------------------------------------------------------------------------
(* The receiver: steps that leave the files as they are *)

\* A message arrives; too many of them fail the receiver.
LEMMA ArriveStep ==
  ASSUME Inv, ArriveControl \/ ArriveBulk
  PROVE  Inv'
<1>1. /\ rcv \in RcvSet /\ rcv.queue \in Seq(Forth) /\ FlagsSound /\ TypeOK
      /\ Len(rcv.queue) + (IF rcv.task = Idle THEN 0 ELSE 1) <= plan.limit
      /\ Len(rcv.queue) \in Nat /\ rcv.clean \in Nat
  BY ReceiverTypes
<1>2. /\ snd.file \in Nat /\ net \in NetSet /\ Forth \subseteq Message
      /\ net.ctl \in Seq(Forth) /\ net.bulk \in Seq(Forth) /\ net.back \in Seq(Back)
  BY SenderTypes
<1>3. PICK m \in Forth : /\ rcv' = Enqueued(m) /\ net' \in NetSet
                         /\ net'.ctl \in Seq(Forth) /\ net'.bulk \in Seq(Forth)
                         /\ net'.back = net.back /\ net'.open = net.open
  <2>1. CASE ArriveControl
    <3>. DEFINE q == Tail(net.ctl)
    <3>1. q \in Seq(Forth) /\ Head(net.ctl) \in Forth BY <1>2, <2>1 DEF ArriveControl
    <3>2. q \in Seq(Message) BY <1>2, <3>1, SeqGrows
    <3>3. net' = [net EXCEPT !.ctl = q] BY <2>1 DEF ArriveControl
    <3>. HIDE DEF q
    <3>4. /\ net' \in NetSet /\ net'.ctl \in Seq(Forth) /\ net'.bulk \in Seq(Forth)
          /\ net'.back = net.back /\ net'.open = net.open
      BY <1>2, <3>1, <3>2, <3>3 DEF NetSet
    <3>5. QED BY <2>1, <3>1, <3>4 DEF ArriveControl
  <2>2. CASE ArriveBulk
    <3>. DEFINE q == Tail(net.bulk)
    <3>1. q \in Seq(Forth) /\ Head(net.bulk) \in Forth BY <1>2, <2>2 DEF ArriveBulk
    <3>2. q \in Seq(Message) BY <1>2, <3>1, SeqGrows
    <3>3. net' = [net EXCEPT !.bulk = q] BY <2>2 DEF ArriveBulk
    <3>. HIDE DEF q
    <3>4. /\ net' \in NetSet /\ net'.ctl \in Seq(Forth) /\ net'.bulk \in Seq(Forth)
          /\ net'.back = net.back /\ net'.open = net.open
      BY <1>2, <3>1, <3>2, <3>3 DEF NetSet
    <3>5. QED BY <2>2, <3>1, <3>4 DEF ArriveBulk
  <2>3. QED BY <2>1, <2>2
<1>4. UNCHANGED <<plan, snd, st, dir>> BY DEF ArriveControl, ArriveBulk
<1>5. ~(rcv.failed /\ rcv.completed) BY <1>1 DEF FlagsSound
<1>6. /\ Receives /\ rcv'.task = rcv.task /\ rcv'.clean = rcv.clean
      /\ rcv'.allDone = rcv.allDone /\ rcv'.completed = rcv.completed
  <2>1. CASE rcv' = Failed(rcv)
    <3>1. /\ rcv' \in RcvSet /\ rcv'.queue \in Seq(Forth)
          /\ rcv'.task = rcv.task /\ rcv'.clean = rcv.clean /\ rcv'.allDone = rcv.allDone
          /\ rcv'.completed = rcv.completed /\ (rcv.failed => rcv'.failed)
          /\ ~(rcv'.failed /\ rcv'.completed)
          /\ Len(rcv'.queue) + (IF rcv'.task = Idle THEN 0 ELSE 1) <= plan.limit
      BY <1>1, <1>5, <2>1, FailedReceiver
    <3>2. QED BY <3>1 DEF Receives
  <2>2. CASE rcv' # Failed(rcv)
    <3>. DEFINE q == Append(rcv.queue, m)
                one == IF rcv.task = Idle THEN 0 ELSE 1
    <3>1. rcv' = [rcv EXCEPT !.queue = q] /\ ~(Len(rcv.queue) + one + 1 > plan.limit)
      BY <1>3, <2>2 DEF Enqueued
    <3>2. q \in Seq(Forth) /\ Len(q) = Len(rcv.queue) + 1 BY <1>1
    <3>3. q \in Seq(Message) BY <1>2, <3>2, SeqGrows
    <3>4. one \in Nat /\ plan.limit \in Nat BY <1>1, Sizes
    <3>5. SUFFICES /\ rcv' \in RcvSet /\ rcv'.queue = q /\ rcv'.task = rcv.task
                   /\ rcv'.clean = rcv.clean /\ rcv'.allDone = rcv.allDone
                   /\ rcv'.failed = rcv.failed /\ rcv'.completed = rcv.completed
                   /\ Len(q) + one <= plan.limit
      BY <1>5, <3>2 DEF Receives
    <3>. HIDE DEF q, one
    <3>6. Len(q) + one <= plan.limit BY <1>1, <3>1, <3>2, <3>4
    <3>7. QED BY <1>1, <3>1, <3>3, <3>6 DEF RcvSet
  <2>3. QED BY <2>1, <2>2
<1>7. TaskSound' BY <1>1, <1>4, <1>6, TaskSame
<1>8. Channels
  <2>1. \A f \in File : /\ st[f].known => st'[f].known
                        /\ st[f].known /\ st[f].good => st'[f].good
                        /\ st[f].done => st'[f].done
    BY <1>4
  <2>2. net.back \in Seq(Back') BY <1>1, <1>2, <1>4, <1>6, <2>1, Grows
  <2>3. QED BY <1>3, <2>2 DEF Channels
<1>9. QED BY <1>4, <1>6, <1>7, <1>8, ReceiverRests

\* The first message of the queue.
LEMMA FirstSound ==
  ASSUME Inv, NEW t, Takes(t)
  PROVE  /\ rcv.queue # <<>> /\ rcv.task = Idle /\ ~rcv.failed /\ ~rcv.completed
         /\ First \in Forth /\ First.t = t /\ Acceptable /\ First.f \in Nat
         /\ t \in {"file-begin", "restart", "file-end", "chunk"} => First.f \in File
         /\ t = "file-begin" => First.f <= snd.file
         /\ t \in {"file-end", "chunk"} => st[First.f].known /\ st[First.f].good
<1>1. rcv.queue \in Seq(Forth) BY ReceiverTypes
<1>2. rcv.queue # <<>> /\ rcv.task = Idle /\ First.t = t /\ Acceptable /\ ~Stopped BY DEF Takes
<1>3. First \in Forth BY <1>1, <1>2 DEF First
<1>4. QED BY <1>2, <1>3 DEF Forth, Stopped, Message

\* A handler that only starts a task, or none.
LEMMA HandlerRests ==
  ASSUME Inv, NEW t, Takes(t), NEW k \in TaskSet,
         rcv' = Started(k) \/ rcv' = [Started(k) EXCEPT !.manifest = TRUE],
         UNCHANGED <<plan, net, snd, st, dir>>, TaskSound'
  PROVE  Inv'
<1>1. rcv.queue # <<>> /\ rcv.task = Idle BY FirstSound
<1>2. /\ Receives /\ rcv'.task = k /\ rcv'.clean = rcv.clean
      /\ rcv'.failed = rcv.failed /\ rcv'.completed = rcv.completed
  BY <1>1, Starts
<1>3. rcv'.allDone = rcv.allDone
  <2>. DEFINE q == Tail(rcv.queue)
  <2>1. rcv \in RcvSet BY ReceiverTypes
  <2>2. \/ rcv' = [rcv EXCEPT !.queue = q, !.task = k]
        \/ rcv' = [[rcv EXCEPT !.queue = q, !.task = k] EXCEPT !.manifest = TRUE]
    BY DEF Started
  <2>. HIDE DEF q
  <2>3. QED BY <2>1, <2>2 DEF RcvSet
<1>4. Advances BY DEF Advances
<1>5. Channels BY <1>2, <1>4, ChannelsSame
<1>6. QED BY <1>2, <1>3, <1>5, ReceiverRests

\* The manifest starts no task.
LEMMA HandleManifestStep ==
  ASSUME Inv, HandleManifest
  PROVE  Inv'
<1>1. TypeOK BY ReceiverTypes
<1>2. Idle \in TaskSet BY <1>1, Sizes DEF Idle, TaskSet
<1>. DEFINE t == "manifest"
<1>3. Takes(t) /\ UNCHANGED <<plan, net, snd, st, dir>> BY DEF HandleManifest
<1>. HIDE DEF t
<1>4. rcv' = [Started(Idle) EXCEPT !.manifest = TRUE] BY DEF HandleManifest
<1>5. rcv'.task = Idle BY <1>2, <1>3, <1>4, FirstSound, Starts
<1>6. TaskSound' BY <1>5, TaskIdle
<1>7. QED BY <1>2, <1>3, <1>4, <1>6, HandlerRests

\* file-begin into a folder.
LEMMA HandleBeginFolder ==
  ASSUME Inv, HandleBegin, Folder
  PROVE  Inv'
<1>. DEFINE t == "file-begin"
            k == At("create", First.f)
<1>1. Takes(t) /\ UNCHANGED <<plan, net, snd, st, dir>> /\ rcv' = Started(k)
  BY DEF HandleBegin
<1>2. First.f \in File /\ First.f <= snd.file BY <1>1, FirstSound
<1>3. ~st[First.f].known BY <1>1, FirstSound DEF Acceptable
<1>4. ~st[First.f].done BY <1>2, <1>3, ReceiverTypes DEF FileSound
<1>5. TypeOK BY ReceiverTypes
<1>6. k \in TaskSet BY <1>2, <1>5, Sizes DEF At, TaskSet, LocalWork
<1>7. rcv'.task = k
  <2>. HIDE DEF t, k
  <2>1. QED BY <1>1, <1>6, FirstSound, Starts
<1>8. TaskSound'
  <2>1. rcv'.task.at = "create" /\ rcv'.task.f = First.f BY <1>7 DEF At
  <2>2. File' = File /\ Folder' BY <1>1 DEF File, Folder
  <2>3. QED BY <1>1, <1>2, <1>3, <1>4, <2>1, <2>2 DEF TaskSound, LocalWork, Publishing
<1>. HIDE DEF t, k
<1>9. QED BY <1>1, <1>6, <1>8, HandlerRests

\* A restart is asked for only of a file that is not done.
LEMMA HandleRestartStep ==
  ASSUME Inv, HandleRestart
  PROVE  Inv'
<1>. DEFINE t == "restart"
            k == At("restart", First.f)
<1>1. Takes(t) /\ UNCHANGED <<plan, net, snd, st, dir>> /\ rcv' = Started(k)
  BY DEF HandleRestart
<1>2. First.f \in File BY <1>1, FirstSound
<1>3. st[First.f].known /\ ~st[First.f].done BY <1>1, FirstSound DEF Acceptable
<1>5. TypeOK BY ReceiverTypes
<1>6. k \in TaskSet BY <1>2, <1>5, Sizes DEF At, TaskSet, LocalWork
<1>7. rcv'.task = k
  <2>. HIDE DEF t, k
  <2>1. QED BY <1>1, <1>6, FirstSound, Starts
<1>8. TaskSound'
  <2>1. rcv'.task.at = "restart" /\ rcv'.task.f = First.f BY <1>7 DEF At
  <2>2. File' = File BY <1>1 DEF File
  <2>3. QED BY <1>1, <1>2, <1>3, <2>1, <2>2 DEF TaskSound, LocalWork, Publishing
<1>. HIDE DEF t, k
<1>9. QED BY <1>1, <1>6, <1>8, HandlerRests

\* A chunk to be written.
LEMMA HandleChunkFolder ==
  ASSUME Inv, HandleChunk, Folder
  PROVE  Inv'
<1>. DEFINE t == "chunk"
            k == At("write", First.f)
<1>1. Takes(t) /\ UNCHANGED <<plan, net, snd, st, dir>> /\ rcv' = Started(k)
  BY DEF HandleChunk
<1>2. First.f \in File /\ st[First.f].known /\ st[First.f].good BY <1>1, FirstSound
<1>3. ~st[First.f].done /\ st[First.f].bytes < plan.size[First.f]
  BY <1>1, FirstSound DEF Acceptable
<1>5. TypeOK BY ReceiverTypes
<1>6. k \in TaskSet BY <1>2, <1>5, Sizes DEF At, TaskSet, LocalWork
<1>7. rcv'.task = k
  <2>. HIDE DEF t, k
  <2>1. QED BY <1>1, <1>6, FirstSound, Starts
<1>8. TaskSound'
  <2>1. rcv'.task.at = "write" /\ rcv'.task.f = First.f BY <1>7 DEF At
  <2>2. File' = File /\ Folder' BY <1>1 DEF File, Folder
  <2>3. QED BY <1>1, <1>2, <1>3, <2>1, <2>2 DEF TaskSound, LocalWork, Publishing
<1>. HIDE DEF t, k
<1>9. QED BY <1>1, <1>6, <1>8, HandlerRests

\* all-done: every file has been begun, and the task resolves when they are all done.
LEMMA HandleAllDoneStep ==
  ASSUME Inv, HandleAllDone
  PROVE  Inv'
<1>. DEFINE t == "all-done"
            k == Resolve(st, TRUE)
<1>1. Takes(t) /\ UNCHANGED <<plan, net, snd, st, dir>>
      /\ rcv' = [Started(k) EXCEPT !.allDone = TRUE]
  BY DEF HandleAllDone
<1>2. \A f \in File : st[f].known BY <1>1, FirstSound DEF Acceptable
<1>3. TypeOK BY ReceiverTypes
<1>4. k = Idle \/ (k = At("all-done-ok", 0) /\ \A f \in File : st[f].done)
  BY <1>2 DEF Resolve
<1>. HIDE DEF k
<1>5. k \in TaskSet BY <1>3, <1>4, Sizes DEF At, Idle, TaskSet
<1>. HIDE DEF t
<1>6. /\ Receives /\ rcv'.task = k /\ rcv'.clean = rcv.clean
      /\ rcv'.failed = rcv.failed /\ rcv'.completed = rcv.completed
  BY <1>1, <1>5, FirstSound, Starts
<1>7. TaskSound'
  <2>1. CASE k = Idle BY <1>6, <2>1, TaskIdle
  <2>2. CASE k = At("all-done-ok", 0) /\ \A f \in File : st[f].done
    <3>1. rcv'.task.at = "all-done-ok" BY <1>6, <2>2 DEF At
    <3>2. File' = File BY <1>1 DEF File
    <3>3. QED BY <1>1, <2>2, <3>1, <3>2 DEF TaskSound, LocalWork, Publishing
  <2>3. QED BY <1>4, <2>1, <2>2
<1>8. Advances BY <1>1 DEF Advances
<1>9. Channels BY <1>1, <1>6, <1>8, ChannelsSame
<1>10. QED BY <1>1, <1>2, <1>6, <1>7, <1>9, ReceiverRests

\* The steps that only fail the receiver.
LEMMA FailStep ==
  ASSUME Inv, HandleRefused \/ IdleTimeout \/ ReceiverClosed
  PROVE  Inv'
  BY FailedStep DEF HandleRefused, IdleTimeout, ReceiverClosed

\* The rest of failTransfer: from here on the channels are closed.
LEMMA FailTailStep ==
  ASSUME Inv, FailTail
  PROVE  Inv'
<1>1. /\ rcv \in RcvSet /\ rcv.queue \in Seq(Forth) /\ FlagsSound /\ TypeOK
      /\ Len(rcv.queue) + (IF rcv.task = Idle THEN 0 ELSE 1) <= plan.limit
  BY ReceiverTypes
<1>2. /\ snd.file \in Nat /\ net \in NetSet
      /\ net.ctl \in Seq(Forth) /\ net.bulk \in Seq(Forth) /\ net.back \in Seq(Back)
  BY SenderTypes
<1>3. /\ UNCHANGED <<plan, snd, st, dir>> /\ rcv.failed /\ rcv.clean = 0
      /\ rcv' = [rcv EXCEPT !.clean = 1]
  BY DEF FailTail
<1>4. 1 \in 0 .. Len(plan.size) + 1 BY <1>1, Sizes
<1>5. /\ rcv' \in RcvSet /\ rcv'.queue = rcv.queue /\ rcv'.task = rcv.task
      /\ rcv'.clean = 1 /\ rcv'.failed = rcv.failed /\ rcv'.completed = rcv.completed
      /\ rcv'.allDone = rcv.allDone
  BY <1>1, <1>3, <1>4 DEF RcvSet
<1>6. Receives BY <1>1, <1>5 DEF Receives, FlagsSound
<1>7. TaskSound' BY <1>3, <1>5, TaskSame
<1>8. net.back \in Seq(Back')
  <2>1. \A f \in File : /\ st[f].known => st'[f].known
                        /\ st[f].known /\ st[f].good => st'[f].good
                        /\ st[f].done => st'[f].done
    BY <1>3
  <2>2. QED BY <1>1, <1>2, <1>3, <1>5, <2>1, Grows
<1>9. Msg("abort", 0) \in Back' BY DEF Msg, Back, Message
<1>. DEFINE q == IF net.open THEN Append(net.back, Msg("abort", 0)) ELSE net.back
<1>10. q \in Seq(Back') BY <1>8, <1>9
<1>11. q \in Seq(Message)
  <2>1. Back' \subseteq Message BY DEF Back, Message
  <2>2. QED BY <1>10, <2>1, SeqGrows
<1>12. net' = [net EXCEPT !.open = FALSE, !.back = q] BY <1>2 DEF FailTail, NetSet
<1>. HIDE DEF q
<1>13. /\ net' \in NetSet /\ net'.back = q /\ net'.ctl = net.ctl /\ net'.bulk = net.bulk
       /\ net'.open = FALSE
  BY <1>2, <1>11, <1>12 DEF NetSet
<1>14. Channels BY <1>2, <1>10, <1>13 DEF Channels
<1>15. QED BY <1>3, <1>5, <1>6, <1>7, <1>13, <1>14, ReceiverRests

\* A task that waits for something runs.
LEMMA TaskRuns ==
  ASSUME Inv, rcv.task.at # "idle"
  PROVE  rcv.task # Idle /\ (rcv.task.at # "all-done-ok" => rcv.task.f \in File)
<1>1. TaskSound /\ rcv.task \in TaskSet BY ReceiverTypes
<1>2. QED BY <1>1 DEF TaskSound, TaskSet, Idle

\* The catch of publishBrowserPartFile.
LEMMA TaskTakeback ==
  ASSUME Inv, plan' = plan, rcv.task.at \in Publishing,
         rcv'.task = At("takeback", rcv.task.f),
         st'[rcv.task.f].known, ~st'[rcv.task.f].done
  PROVE  TaskSound'
<1>1. TaskSound BY ReceiverTypes
<1>2. rcv'.task.at = "takeback" /\ rcv'.task.f = rcv.task.f BY DEF At
<1>3. rcv.task.f \in File /\ Folder BY <1>1 DEF TaskSound, Publishing, LocalWork
<1>4. File' = File /\ Folder' = Folder BY DEF File, Folder
<1>5. QED BY <1>2, <1>3, <1>4 DEF TaskSound, LocalWork, Publishing

\* ready: what it says of the prefix is so.
LEMMA SendReadyStep ==
  ASSUME Inv, SendReady
  PROVE  Inv'
<1>1. CASE Throw /\ UNCHANGED net BY <1>1, ThrowStep DEF SendReady
<1>2. CASE ~(Throw /\ UNCHANGED net)
  <2>. DEFINE m == [Msg("ready", f0) EXCEPT !.n = st[f0].bytes, !.same = st[f0].good]
  <2>1. /\ net' = [net EXCEPT !.back = Append(@, m)] /\ rcv' = [rcv EXCEPT !.task = Idle]
        /\ UNCHANGED <<plan, snd, st, dir>> /\ rcv.task.at = "ready"
    BY <1>2 DEF SendReady, Awaits
  <2>2. TypeOK /\ TaskSound /\ st \in [File -> StSet] /\ \A f \in File : FileSound(f)
    BY ReceiverTypes
  <2>3. rcv.task # Idle BY <2>1, TaskRuns
  <2>4. f0 \in File /\ st[f0].known BY <2>1, <2>2 DEF TaskSound, f0
  <2>5. Idle \in TaskSet BY <2>2, Sizes DEF Idle, TaskSet
  <2>6. /\ Receives /\ rcv'.task = Idle /\ rcv'.clean = rcv.clean
        /\ rcv'.failed = rcv.failed /\ rcv'.completed = rcv.completed
        /\ rcv'.allDone = rcv.allDone
    BY <2>1, <2>3, <2>5, Goes
  <2>7. m \in Back'
    <3>1. st[f0] \in StSet /\ f0 \in Nat BY <2>2, <2>4, Sizes
    <3>2. m \in Message /\ m.t = "ready" /\ m.f = f0 /\ m.n = st[f0].bytes
          /\ m.same = st[f0].good
      BY <3>1 DEF Msg, Message, StSet
    <3>3. m.same \/ m.n > 0 BY <2>2, <2>4, <3>2 DEF FileSound
    <3>4. st' = st /\ File' = File BY <2>1 DEF File
    <3>. HIDE DEF m
    <3>5. QED BY <2>4, <3>2, <3>3, <3>4 DEF Back
  <2>8. Advances BY <2>1 DEF Advances
  <2>. HIDE DEF m
  <2>9. Channels BY <2>1, <2>6, <2>7, <2>8, ChannelsReply
  <2>10. TaskSound' BY <2>6, TaskIdle
  <2>11. QED BY <2>1, <2>6, <2>9, <2>10, ReceiverRests
<1>3. QED BY <1>1, <1>2

\* The running task goes on and no file changes.
LEMMA GoesRests ==
  ASSUME Inv, rcv.task # Idle, NEW stage \in LocalWork \cup {"ready", "all-done-ok"},
         Next1(stage), UNCHANGED <<plan, net, snd, st, dir>>,
         rcv'.task = At(stage, rcv.task.f) /\ rcv'.clean = rcv.clean => TaskSound'
  PROVE  Inv'
<1>1. /\ Receives /\ rcv'.task = At(stage, rcv.task.f) /\ rcv'.clean = rcv.clean
      /\ rcv'.failed = rcv.failed /\ rcv'.completed = rcv.completed
      /\ rcv'.allDone = rcv.allDone
  BY GoesOn
<1>2. Advances BY DEF Advances
<1>3. Channels BY <1>1, <1>2, ChannelsSame
<1>4. TaskSound' BY <1>1
<1>5. QED BY <1>1, <1>3, <1>4, ReceiverRests

\* The copy is hashed; a receive that stopped takes the final file back.
LEMMA RecheckDoneStep ==
  ASSUME Inv, RecheckDone
  PROVE  Inv'
<1>1. rcv.task.at = "recheck" /\ UNCHANGED <<plan, net, snd, st, dir>>
  BY DEF RecheckDone, Awaits
<1>2. TaskSound BY ReceiverTypes
<1>3. rcv.task # Idle BY <1>1, TaskRuns
<1>4. rcv.task.f \in File /\ st[rcv.task.f].known /\ ~st[rcv.task.f].done
  BY <1>1, <1>2 DEF TaskSound, LocalWork
<1>. DEFINE a == "takeback"
            b == "drop"
<1>5. Next1(a) \/ Next1(b) BY DEF RecheckDone
<1>6. CASE Next1(a)
  <2>1. rcv'.task = At(a, rcv.task.f) => TaskSound'
    BY <1>1, <1>4, TaskTakeback DEF Publishing
  <2>2. a \in LocalWork BY DEF LocalWork
  <2>. HIDE DEF a
  <2>3. QED BY <1>1, <1>3, <1>6, <2>1, <2>2, GoesRests
<1>7. CASE Next1(b)
  <2>1. ASSUME rcv'.task = At(b, rcv.task.f), rcv'.clean = rcv.clean PROVE TaskSound'
    <3>1. rcv'.task.at = "drop" /\ rcv'.task.f = rcv.task.f BY <2>1 DEF At
    <3>2. File' = File /\ Folder' = Folder BY <1>1 DEF File, Folder
    <3>3. QED BY <1>1, <1>2, <1>4, <2>1, <3>1, <3>2 DEF TaskSound, LocalWork, Publishing
  <2>2. b \in LocalWork BY DEF LocalWork
  <2>. HIDE DEF b
  <2>3. QED BY <1>1, <1>3, <1>7, <2>1, <2>2, GoesRests
<1>8. QED BY <1>5, <1>6, <1>7

\* A storage operation fails.
LEMMA WorkFailsStep ==
  ASSUME Inv, WorkFails
  PROVE  Inv'
<1>1. UNCHANGED <<plan, net, snd, st, dir>> BY DEF WorkFails
<1>. DEFINE a == "takeback"
<1>2. Throw \/ (Next1(a) /\ rcv.task.at \in {"copy", "recheck", "drop"}) BY DEF WorkFails
<1>3. CASE Throw BY <1>1, <1>3, ThrowStep
<1>4. CASE Next1(a) /\ rcv.task.at \in {"copy", "recheck", "drop"}
  <2>1. TaskSound BY ReceiverTypes
  <2>2. rcv.task # Idle BY <1>4, TaskRuns
  <2>3. rcv.task.f \in File /\ st[rcv.task.f].known /\ ~st[rcv.task.f].done
    BY <1>4, <2>1 DEF TaskSound, LocalWork
  <2>4. rcv'.task = At(a, rcv.task.f) => TaskSound'
    BY <1>1, <1>4, <2>3, TaskTakeback DEF Publishing
  <2>5. a \in LocalWork BY DEF LocalWork
  <2>. HIDE DEF a
  <2>6. QED BY <1>1, <1>4, <2>2, <2>4, <2>5, GoesRests
<1>5. QED BY <1>2, <1>3, <1>4

\* all-done-ok leaves when every file is done, and completes the receive.
LEMMA SendAllDoneOkStep ==
  ASSUME Inv, SendAllDoneOk
  PROVE  Inv'
<1>1. CASE Throw /\ UNCHANGED net BY <1>1, ThrowStep DEF SendAllDoneOk
<1>2. CASE ~(Throw /\ UNCHANGED net)
  <2>. DEFINE m == Msg("all-done-ok", 0)
  <2>1. /\ net' = [net EXCEPT !.back = Append(@, m)]
        /\ rcv' = [rcv EXCEPT !.completed = TRUE, !.task = Idle]
        /\ UNCHANGED <<plan, snd, st, dir>> /\ rcv.task.at = "all-done-ok"
        /\ ~rcv.failed
    BY <1>2 DEF SendAllDoneOk, Awaits, Stopped
  <2>2. /\ TypeOK /\ TaskSound /\ rcv \in RcvSet /\ rcv.queue \in Seq(Forth)
        /\ Len(rcv.queue) + (IF rcv.task = Idle THEN 0 ELSE 1) <= plan.limit
        /\ Len(rcv.queue) \in Nat /\ plan.limit \in Nat
    BY ReceiverTypes, Sizes
  <2>3. rcv.task # Idle BY <2>1, TaskRuns
  <2>4. \A f \in File : st[f].done BY <2>1, <2>2 DEF TaskSound
  <2>5. Idle \in TaskSet BY <2>2, Sizes DEF Idle, TaskSet
  <2>6. /\ rcv' \in RcvSet /\ rcv'.queue = rcv.queue /\ rcv'.task = Idle
        /\ rcv'.clean = rcv.clean /\ rcv'.failed = rcv.failed /\ rcv'.completed
        /\ rcv'.allDone = rcv.allDone
    BY <2>1, <2>2, <2>5 DEF RcvSet
  <2>7. Len(rcv'.queue) + (IF rcv'.task = Idle THEN 0 ELSE 1) <= plan.limit
    <3>1. Len(rcv.queue) + 1 <= plan.limit BY <2>2, <2>3
    <3>2. Len(rcv.queue) + 0 <= plan.limit BY <2>2, <3>1
    <3>3. QED BY <2>6, <3>2
  <2>8. Receives BY <2>1, <2>2, <2>6, <2>7 DEF Receives
  <2>9. m \in Back' BY <2>6 DEF Msg, Back, Message
  <2>10. Advances BY <2>1 DEF Advances
  <2>. HIDE DEF m
  <2>11. Channels BY <2>1, <2>8, <2>9, <2>10, ChannelsReply
  <2>12. TaskSound' BY <2>6, TaskIdle
  <2>13. QED BY <2>1, <2>4, <2>6, <2>8, <2>11, <2>12, ReceiverRests
<1>3. QED BY <1>1, <1>2

-----------------------------------------------------------------------------
(* The receiver: steps on one file *)

\* The storage of the other files is left alone.
Alone(g) ==
  /\ \A f \in File \ {g} : /\ dir'.part[f] = dir.part[f] /\ dir'.final[f] = dir.final[f]
                           /\ dir'.record[f] = dir.record[f]
  /\ dir.told => dir'.told
  /\ dir.saved \subseteq dir'.saved

\* The state of one file changes.
LEMMA StateNew ==
  ASSUME Inv, NEW g \in File, NEW x \in StSet, st' = [st EXCEPT ![g] = x],
         st[g].known => x.known, st[g].known /\ st[g].good => x.good, st[g].done => x.done
  PROVE  /\ st' \in [File -> StSet] /\ st'[g] = x /\ \A f \in File \ {g} : st'[f] = st[f]
         /\ Advances
<1>1. st \in [File -> StSet] BY ReceiverTypes
<1>2. QED BY <1>1 DEF Advances

\* A step of the receiver that works on one file.
LEMMA ReceiverWorks ==
  ASSUME Inv, UNCHANGED <<plan, snd>>, Channels, Receives, Advances, NEW g \in File,
         st' \in [File -> StSet], dir' \in DirSet,
         \A f \in File \ {g} : st'[f] = st[f],
         Alone(g), rcv'.clean = rcv.clean, rcv'.allDone = rcv.allDone,
         rcv'.completed = rcv.completed, TaskSound', FileSound(g)'
  PROVE  Inv'
<1>1. FlagsSound /\ rcv.clean \in Nat BY ReceiverTypes
<1>2. FlagsSound' BY <1>1 DEF FlagsSound, File, Channels, Receives, Advances
<1>3. ASSUME NEW f \in File PROVE FileSound(f)'
  <2>1. Stopped => Stopped' BY DEF Stopped, Receives
  <2>2. CASE f = g BY <2>2
  <2>3. CASE f # g
    <3>1. /\ dir'.part[f] = dir.part[f] /\ dir'.final[f] = dir.final[f]
          /\ dir'.record[f] = dir.record[f] /\ (dir.told => dir'.told)
          /\ f \in dir.saved => f \in dir'.saved
      BY <2>3 DEF Alone
    <3>2. st'[f] = st[f] BY <2>3
    <3>3. QED BY <1>1, <2>1, <3>1, <3>2, FileSame
  <2>4. QED BY <2>2, <2>3
<1>4. QED BY <1>2, <1>3, ReceiverKeeps

\* maybeResolveDone.
LEMMA ResolveSound ==
  ASSUME Inv, plan' = plan, Advances, rcv'.task = Resolve(st', rcv.allDone)
  PROVE  TaskSound' /\ Resolve(st', rcv.allDone) \in TaskSet
<1>1. FlagsSound /\ TypeOK BY ReceiverTypes
<1>2. rcv.allDone => \A f \in File : st'[f].known BY <1>1 DEF FlagsSound, Advances
<1>. DEFINE k == Resolve(st', rcv.allDone)
<1>3. k = Idle \/ (k = At("all-done-ok", 0) /\ \A f \in File : st'[f].done)
  BY <1>2 DEF Resolve
<1>4. rcv'.task = k OBVIOUS
<1>5. SUFFICES TaskSound' /\ k \in TaskSet OBVIOUS
<1>. HIDE DEF k
<1>6. k \in TaskSet BY <1>1, <1>3, Sizes DEF At, Idle, TaskSet
<1>7. CASE k = Idle BY <1>4, <1>6, <1>7, TaskIdle
<1>8. CASE k = At("all-done-ok", 0) /\ \A f \in File : st'[f].done
  <2>1. rcv'.task.at = "all-done-ok" BY <1>4, <1>8 DEF At
  <2>2. File' = File BY DEF File
  <2>3. TaskSound' BY <1>8, <2>1, <2>2 DEF TaskSound, LocalWork, Publishing
  <2>4. QED BY <1>6, <2>3
<1>9. QED BY <1>3, <1>7, <1>8

\* maybeDownload and maybeResolveDone.
LEMMA AfterDataSound ==
  ASSUME Inv, plan' = plan, Advances, NEW f \in File, st' \in [File -> StSet],
         st'[f].known, st'[f].good, st'[f].bytes <= plan.size[f],
         rcv'.task = AfterData(st', f)
  PROVE  TaskSound' /\ AfterData(st', f) \in TaskSet
<1>1. TypeOK BY ReceiverTypes
<1>2. plan.size[f] \in Nat /\ f \in 0 .. Len(plan.size) BY <1>1, Sizes
<1>3. st'[f].bytes \in Nat BY DEF StSet
<1>4. CASE ~st'[f].done /\ st'[f].sha /\ st'[f].bytes >= plan.size[f]
  <2>. DEFINE k == At(IF Folder THEN "verify" ELSE "download", f)
  <2>1. AfterData(st', f) = k BY <1>4 DEF AfterData
  <2>2. k \in TaskSet BY <1>2 DEF At, TaskSet, LocalWork
  <2>3. rcv'.task.at = (IF Folder THEN "verify" ELSE "download") /\ rcv'.task.f = f
    BY <2>1 DEF At
  <2>4. st'[f].bytes = plan.size[f] BY <1>2, <1>3, <1>4
  <2>5. File' = File /\ Folder' = Folder BY DEF File, Folder
  <2>6. TaskSound' BY <1>4, <2>3, <2>4, <2>5 DEF TaskSound, LocalWork, Publishing
  <2>7. QED BY <2>1, <2>2, <2>6
<1>5. CASE ~(~st'[f].done /\ st'[f].sha /\ st'[f].bytes >= plan.size[f])
  <2>1. AfterData(st', f) = Resolve(st', rcv.allDone) BY <1>5 DEF AfterData
  <2>2. QED BY <2>1, ResolveSound
<1>6. QED BY <1>4, <1>5

\* Before a failure no cleanup has begun.
LEMMA NotCleaned ==
  ASSUME Inv, ~rcv.failed
  PROVE  rcv.clean = 0
  BY ReceiverTypes DEF FlagsSound

\* file-begin without a folder.
LEMMA HandleBeginBlob ==
  ASSUME Inv, HandleBegin, ~Folder
  PROVE  Inv'
<1>. DEFINE t == "file-begin"
<1>0. PICK g \in File : g = First.f
  BY FirstSound DEF HandleBegin
<1>. DEFINE k == At("ready", g)
            x == [st[g] EXCEPT !.known = TRUE]
<1>1. Takes(t) /\ UNCHANGED <<plan, net, snd, dir>> /\ rcv' = Started(k)
      /\ st' = [st EXCEPT ![g].known = TRUE]
  BY <1>0 DEF HandleBegin
<1>2. g \in File /\ g <= snd.file /\ ~rcv.failed /\ ~rcv.completed BY <1>0, <1>1, FirstSound
<1>3. ~st[g].known BY <1>0, <1>1, FirstSound DEF Acceptable
<1>4. /\ TypeOK /\ st \in [File -> StSet] /\ dir \in DirSet /\ FileSound(g)
      /\ rcv.clean = 0
  BY <1>2, ReceiverTypes, NotCleaned
<1>5. /\ x \in StSet /\ x.known /\ x.bytes = st[g].bytes /\ x.good = st[g].good
      /\ x.done = st[g].done /\ x.named = st[g].named /\ x.keep = st[g].keep
  BY <1>2, <1>4 DEF StSet
<1>6. st' = [st EXCEPT ![g] = x] BY <1>1
<1>7. k \in TaskSet BY <1>2, <1>4, Sizes DEF At, TaskSet
<1>. HIDE DEF t, k, x
<1>8. /\ Receives /\ rcv'.task = k /\ rcv'.clean = rcv.clean
      /\ rcv'.failed = rcv.failed /\ rcv'.completed = rcv.completed
  BY <1>1, <1>7, FirstSound, Starts
<1>9. rcv'.allDone = rcv.allDone
  <2>. DEFINE q == Tail(rcv.queue)
  <2>1. rcv \in RcvSet BY ReceiverTypes
  <2>2. rcv' = [rcv EXCEPT !.queue = q, !.task = k] BY <1>1 DEF Started
  <2>. HIDE DEF q
  <2>3. QED BY <2>1, <2>2 DEF RcvSet
<1>10. /\ st' \in [File -> StSet] /\ st'[g] = x /\ \A f \in File \ {g} : st'[f] = st[f]
       /\ Advances
  BY <1>2, <1>5, <1>6, StateNew
<1>11. Channels BY <1>1, <1>8, <1>10, ChannelsSame
<1>12. Alone(g) /\ dir' \in DirSet BY <1>1, <1>4 DEF Alone, DirSet, File
<1>13. TaskSound'
  <2>1. rcv'.task.at = "ready" /\ rcv'.task.f = g BY <1>8 DEF k, At
  <2>2. File' = File BY <1>1 DEF File
  <2>3. QED BY <1>2, <1>5, <1>10, <2>1, <2>2 DEF TaskSound, LocalWork, Publishing
<1>14. FileSound(g)'
  <2>1. plan.mode = "blob" BY DEF Folder
  <2>2. ~st[g].done BY <1>3, <1>4 DEF FileSound
  <2>3. QED BY <1>1, <1>2, <1>3, <1>4, <1>5, <1>8, <1>10, <2>1, <2>2 DEF FileSound, Folder
<1>15. QED BY <1>1, <1>2, <1>8, <1>9, <1>10, <1>11, <1>12, <1>13, <1>14, ReceiverWorks

\* file-end: the hash is known, and the file may be complete.
LEMMA HandleEndStep ==
  ASSUME Inv, HandleEnd
  PROVE  Inv'
<1>. DEFINE t == "file-end"
<1>0. PICK g \in File : g = First.f
  BY FirstSound DEF HandleEnd
<1>. DEFINE k == AfterData(st', g)
            x == [st[g] EXCEPT !.sha = TRUE]
<1>1. Takes(t) /\ UNCHANGED <<plan, net, snd, dir>> /\ rcv' = Started(k)
      /\ st' = [st EXCEPT ![g].sha = TRUE]
  BY <1>0 DEF HandleEnd
<1>2. g \in File /\ st[g].known /\ st[g].good /\ ~rcv.failed BY <1>0, <1>1, FirstSound
<1>3. /\ TypeOK /\ st \in [File -> StSet] /\ dir \in DirSet /\ FileSound(g)
      /\ rcv.clean = 0
  BY <1>2, ReceiverTypes, NotCleaned
<1>4. /\ x \in StSet /\ x.known = st[g].known /\ x.bytes = st[g].bytes
      /\ x.good = st[g].good /\ x.done = st[g].done /\ x.named = st[g].named
      /\ x.keep = st[g].keep
  BY <1>2, <1>3 DEF StSet
<1>5. st' = [st EXCEPT ![g] = x] BY <1>1
<1>6. rcv'.task = k
  <2>1. rcv \in RcvSet BY ReceiverTypes
  <2>2. rcv' = [rcv EXCEPT !.queue = Tail(rcv.queue), !.task = k] BY <1>1 DEF Started
  <2>. HIDE DEF k
  <2>3. QED BY <2>1, <2>2 DEF RcvSet
<1>. HIDE DEF t, x
<1>7. /\ st' \in [File -> StSet] /\ st'[g] = x /\ \A f \in File \ {g} : st'[f] = st[f]
      /\ Advances BY <1>2, <1>4, <1>5, StateNew
<1>8. x.bytes <= plan.size[g] BY <1>3, <1>4 DEF FileSound
<1>9. TaskSound' /\ k \in TaskSet BY <1>1, <1>2, <1>4, <1>6, <1>7, <1>8, AfterDataSound
<1>. HIDE DEF k
<1>10. /\ Receives /\ rcv'.clean = rcv.clean
       /\ rcv'.failed = rcv.failed /\ rcv'.completed = rcv.completed
  BY <1>1, <1>9, FirstSound, Starts
<1>11. rcv'.allDone = rcv.allDone
  <2>. DEFINE q == Tail(rcv.queue)
  <2>1. rcv \in RcvSet BY ReceiverTypes
  <2>2. rcv' = [rcv EXCEPT !.queue = q, !.task = k] BY <1>1 DEF Started
  <2>. HIDE DEF q
  <2>3. QED BY <2>1, <2>2 DEF RcvSet
<1>12. Channels BY <1>1, <1>7, <1>10, ChannelsSame
<1>13. Alone(g) /\ dir' \in DirSet BY <1>1, <1>3 DEF Alone, DirSet, File
<1>14. FileSound(g)'
  BY <1>1, <1>2, <1>3, <1>4, <1>7, <1>10 DEF FileSound, Folder, Stopped
<1>15. QED BY <1>1, <1>2, <1>7, <1>9, <1>10, <1>11, <1>12, <1>13, <1>14, ReceiverWorks

\* A chunk kept in memory.
LEMMA HandleChunkBlob ==
  ASSUME Inv, HandleChunk, ~Folder
  PROVE  Inv'
<1>. DEFINE t == "chunk"
<1>0. PICK g \in File : g = First.f
  BY FirstSound DEF HandleChunk
<1>. DEFINE k == AfterData(st', g)
            x == [st[g] EXCEPT !.bytes = st[g].bytes + 1]
<1>1. Takes(t) /\ UNCHANGED <<plan, net, snd, dir>> /\ rcv' = Started(k)
      /\ st' = [st EXCEPT ![g].bytes = @ + 1]
  BY <1>0 DEF HandleChunk
<1>2. g \in File /\ st[g].known /\ st[g].good /\ ~rcv.failed BY <1>0, <1>1, FirstSound
<1>3. /\ TypeOK /\ st \in [File -> StSet] /\ dir \in DirSet /\ FileSound(g)
      /\ rcv.clean = 0
  BY <1>2, ReceiverTypes, NotCleaned
<1>4. ~st[g].done /\ st[g].bytes < plan.size[g] BY <1>0, <1>1, FirstSound DEF Acceptable
<1>5. st[g].bytes \in Nat /\ plan.size[g] \in Nat BY <1>2, <1>3, Sizes DEF StSet
<1>6. /\ x \in StSet /\ x.known = st[g].known /\ x.bytes = st[g].bytes + 1
      /\ x.good = st[g].good /\ x.done = st[g].done /\ x.named = st[g].named
      /\ x.keep = st[g].keep
  <2>. DEFINE y == st[g]
              n == y.bytes + 1
  <2>1. y \in StSet /\ n \in Nat BY <1>3, <1>5
  <2>2. x = [y EXCEPT !.bytes = n] OBVIOUS
  <2>3. SUFFICES /\ x \in StSet /\ x.known = y.known /\ x.bytes = n /\ x.good = y.good
                 /\ x.done = y.done /\ x.named = y.named /\ x.keep = y.keep
    OBVIOUS
  <2>. HIDE DEF x, y, n
  <2>4. QED BY <2>1, <2>2 DEF StSet
<1>7. st' = [st EXCEPT ![g] = x] BY <1>1
<1>8. rcv'.task = k
  <2>1. rcv \in RcvSet BY ReceiverTypes
  <2>2. rcv' = [rcv EXCEPT !.queue = Tail(rcv.queue), !.task = k] BY <1>1 DEF Started
  <2>. HIDE DEF k
  <2>3. QED BY <2>1, <2>2 DEF RcvSet
<1>. HIDE DEF t, x
<1>9. /\ st' \in [File -> StSet] /\ st'[g] = x /\ \A f \in File \ {g} : st'[f] = st[f]
      /\ Advances BY <1>2, <1>6, <1>7, StateNew
<1>10. x.bytes <= plan.size[g] BY <1>4, <1>5, <1>6
<1>11. TaskSound' /\ k \in TaskSet BY <1>1, <1>2, <1>6, <1>8, <1>9, <1>10, AfterDataSound
<1>. HIDE DEF k
<1>12. /\ Receives /\ rcv'.clean = rcv.clean
       /\ rcv'.failed = rcv.failed /\ rcv'.completed = rcv.completed
  BY <1>1, <1>11, FirstSound, Starts
<1>13. rcv'.allDone = rcv.allDone
  <2>. DEFINE q == Tail(rcv.queue)
  <2>1. rcv \in RcvSet BY ReceiverTypes
  <2>2. rcv' = [rcv EXCEPT !.queue = q, !.task = k] BY <1>1 DEF Started
  <2>. HIDE DEF q
  <2>3. QED BY <2>1, <2>2 DEF RcvSet
<1>14. Channels BY <1>1, <1>9, <1>12, ChannelsSame
<1>15. Alone(g) /\ dir' \in DirSet BY <1>1, <1>3 DEF Alone, DirSet, File
<1>16. FileSound(g)'
  BY <1>1, <1>2, <1>3, <1>4, <1>6, <1>9, <1>10, <1>12 DEF FileSound, Folder, Stopped
<1>17. QED BY <1>1, <1>2, <1>9, <1>11, <1>12, <1>13, <1>14, <1>15, <1>16, ReceiverWorks

\* A partial changes, and perhaps the record of it.
LEMMA PartNew ==
  ASSUME Inv, NEW g \in File, NEW a \in {"none", "empty", "data"}, NEW c \in BOOLEAN,
         \/ dir' = [dir EXCEPT !.part[g] = a] /\ c = dir.record[g]
         \/ dir' = [dir EXCEPT !.part[g] = a, !.record[g] = c]
  PROVE  /\ dir' \in DirSet /\ Alone(g) /\ dir'.part[g] = a /\ dir'.record[g] = c
         /\ dir'.final[g] = dir.final[g] /\ dir'.told = dir.told /\ dir'.saved = dir.saved
<1>1. dir \in DirSet BY ReceiverTypes
<1>. DEFINE p == [dir.part EXCEPT ![g] = a]
            w == [dir.record EXCEPT ![g] = c]
<1>2. /\ p \in [File -> {"none", "empty", "data"}] /\ w \in [File -> BOOLEAN]
      /\ p[g] = a /\ w[g] = c
      /\ \A f \in File \ {g} : p[f] = dir.part[f] /\ w[f] = dir.record[f]
  BY <1>1 DEF DirSet
<1>3. dir' = [dir EXCEPT !.part = p, !.record = w]
  <2>1. CASE dir' = [dir EXCEPT !.part[g] = a, !.record[g] = c] BY <1>1, <2>1 DEF DirSet
  <2>2. CASE dir' = [dir EXCEPT !.part[g] = a] /\ c = dir.record[g]
    <3>1. w = dir.record BY <1>1, <2>2 DEF DirSet
    <3>2. dir' = [dir EXCEPT !.part = p] BY <1>1, <2>2 DEF DirSet
    <3>. HIDE DEF p, w
    <3>3. QED BY <1>1, <3>1, <3>2 DEF DirSet
  <2>3. QED BY <2>1, <2>2
<1>. HIDE DEF p, w
<1>4. dir' \in DirSet BY <1>1, <1>2, <1>3 DEF DirSet
<1>5. dir'.part = p /\ dir'.record = w /\ dir'.final = dir.final /\ dir'.told = dir.told
      /\ dir'.saved = dir.saved
  BY <1>1, <1>3 DEF DirSet
<1>6. QED BY <1>2, <1>4, <1>5 DEF Alone

\* A final file changes.
LEMMA FinalNew ==
  ASSUME Inv, NEW g \in File, NEW a \in {"none", "empty", "data"},
         dir' = [dir EXCEPT !.final[g] = a]
  PROVE  /\ dir' \in DirSet /\ Alone(g) /\ dir'.final[g] = a
         /\ dir'.part[g] = dir.part[g] /\ dir'.record[g] = dir.record[g]
         /\ dir'.told = dir.told /\ dir'.saved = dir.saved
<1>1. dir \in DirSet BY ReceiverTypes
<1>2. dir' \in DirSet BY <1>1 DEF DirSet
<1>3. /\ dir'.final[g] = a /\ dir'.part[g] = dir.part[g] /\ dir'.record[g] = dir.record[g]
      /\ dir'.told = dir.told /\ dir'.saved = dir.saved
  BY <1>1 DEF DirSet
<1>4. \A f \in File \ {g} : /\ dir'.part[f] = dir.part[f] /\ dir'.final[f] = dir.final[f]
                            /\ dir'.record[f] = dir.record[f]
  BY <1>1 DEF DirSet
<1>5. QED BY <1>2, <1>3, <1>4 DEF Alone

\* A record is forgotten.
LEMMA RecordNew ==
  ASSUME Inv, NEW g \in File, dir' = [dir EXCEPT !.record[g] = FALSE]
  PROVE  /\ dir' \in DirSet /\ Alone(g) /\ dir'.record[g] = FALSE
         /\ dir'.part[g] = dir.part[g] /\ dir'.final[g] = dir.final[g]
         /\ dir'.told = dir.told /\ dir'.saved = dir.saved
<1>1. dir \in DirSet BY ReceiverTypes
<1>2. dir' \in DirSet BY <1>1 DEF DirSet
<1>3. /\ dir'.record[g] = FALSE /\ dir'.part[g] = dir.part[g] /\ dir'.final[g] = dir.final[g]
      /\ dir'.told = dir.told /\ dir'.saved = dir.saved
  BY <1>1 DEF DirSet
<1>4. \A f \in File \ {g} : /\ dir'.part[f] = dir.part[f] /\ dir'.final[f] = dir.final[f]
                            /\ dir'.record[f] = dir.record[f]
  BY <1>1 DEF DirSet
<1>5. QED BY <1>2, <1>3, <1>4 DEF Alone

\* The states of the files stay.
LEMMA StateSame ==
  ASSUME Inv, st' = st
  PROVE  st' \in [File -> StSet] /\ Advances /\ \A g \in File : st'[g] = st[g]
  BY ReceiverTypes DEF Advances

\* The running task throws after it worked on its file.
LEMMA ThrowWorks ==
  ASSUME Inv, UNCHANGED <<plan, net, snd>>, Throw, NEW g \in File, Advances,
         st' \in [File -> StSet], dir' \in DirSet, Alone(g),
         \A f \in File \ {g} : st'[f] = st[f],
         rcv'.clean = rcv.clean /\ Stopped' => FileSound(g)'
  PROVE  Inv'
<1>1. /\ Receives /\ rcv'.task = Idle /\ rcv'.clean = rcv.clean
      /\ rcv'.allDone = rcv.allDone /\ rcv'.completed = rcv.completed /\ Stopped'
  BY Thrown
<1>2. Channels BY <1>1, ChannelsSame
<1>3. TaskSound' BY <1>1, TaskIdle
<1>4. FileSound(g)' BY <1>1
<1>5. QED BY <1>1, <1>2, <1>3, <1>4, ReceiverWorks

\* The running task goes on after it worked on its file.
LEMMA GoesWorks ==
  ASSUME Inv, UNCHANGED <<plan, net, snd>>, NEW g \in File, g = rcv.task.f, Advances,
         rcv.task # Idle, NEW stage \in LocalWork \cup {"ready", "all-done-ok"},
         Next1(stage), st' \in [File -> StSet], dir' \in DirSet, Alone(g),
         \A f \in File \ {g} : st'[f] = st[f],
         rcv'.clean = rcv.clean /\ rcv'.task = At(stage, g) => TaskSound',
         rcv'.clean = rcv.clean /\ Stopped' = Stopped => FileSound(g)'
  PROVE  Inv'
<1>1. /\ Receives /\ rcv'.task = At(stage, rcv.task.f) /\ rcv'.clean = rcv.clean
      /\ rcv'.failed = rcv.failed /\ rcv'.completed = rcv.completed
      /\ rcv'.allDone = rcv.allDone
  BY GoesOn
<1>2. Channels BY <1>1, ChannelsSame
<1>3. Stopped' = Stopped BY <1>1 DEF Stopped
<1>4. TaskSound' BY <1>1
<1>5. FileSound(g)' BY <1>1, <1>3
<1>6. QED BY <1>1, <1>2, <1>4, <1>5, ReceiverWorks

\* createBrowserReceiveFile: a partial is taken up again only where the plan left one, and
\* a file has a state only when nothing failed meanwhile.
LEMMA CreateDoneStep ==
  ASSUME Inv, CreateDone
  PROVE  Inv'
<1>1. rcv.task.at = "create" /\ UNCHANGED <<plan, net, snd>> BY DEF CreateDone, Awaits
<1>2. PICK g \in File : g = rcv.task.f BY <1>1, TaskRuns
<1>3. /\ TypeOK /\ TaskSound /\ FileSound(g) /\ st \in [File -> StSet] /\ dir \in DirSet
      /\ rcv.clean \in Nat
  BY ReceiverTypes
<1>4. /\ ~st[g].known /\ g <= snd.file /\ ~st[g].done /\ Folder /\ rcv.task # Idle
  BY <1>1, <1>2, <1>3, TaskRuns DEF TaskSound, LocalWork
<1>5. ~st[g].named /\ st[g].good /\ dir.final[g] = "none" BY <1>3, <1>4 DEF FileSound
<1>. DEFINE resumed == dir.record[g] /\ dir.part[g] # "none"
            a == IF resumed THEN dir.part[g] ELSE "empty"
            c == plan.mode = "resume"
<1>6. a \in {"none", "empty", "data"} /\ c \in BOOLEAN BY <1>3 DEF DirSet
<1>7. dir' = [dir EXCEPT !.part[g] = a, !.record[g] = c] BY <1>2 DEF CreateDone, f0
<1>8. /\ dir' \in DirSet /\ Alone(g) /\ dir'.part[g] = a /\ dir'.record[g] = c
      /\ dir'.final[g] = dir.final[g] /\ dir'.told = dir.told /\ dir'.saved = dir.saved
  <2>. HIDE DEF a, c
  <2>1. QED BY <1>6, <1>7, PartNew
<1>9. resumed => plan.mode = "resume" BY <1>3 DEF FileSound
<1>10. CASE Stopped
  <2>1. Throw /\ st' = st BY <1>10 DEF CreateDone
  <2>2. st' \in [File -> StSet] /\ Advances /\ \A f \in File : st'[f] = st[f]
    BY <2>1, StateSame
  <2>3. ASSUME rcv'.clean = rcv.clean, Stopped' PROVE FileSound(g)'
    BY <1>1, <1>3, <1>4, <1>5, <1>8, <1>9, <2>2, <2>3 DEF FileSound, Folder
  <2>4. QED BY <1>1, <1>8, <2>1, <2>2, <2>3, ThrowWorks
<1>11. CASE ~Stopped
  <2>. DEFINE n == IF resumed THEN plan.old ELSE 0
              good == resumed => plan.saved = "same"
              x == [st[g] EXCEPT !.known = TRUE, !.bytes = n, !.good = good]
              s == "ready"
  <2>1. Next1(s) /\ st' = [st EXCEPT ![g] = x] BY <1>2, <1>11 DEF CreateDone, f0
  <2>2. n \in Nat /\ good \in BOOLEAN BY <1>3, Sizes
  <2>3. n <= plan.size[g]
    <3>1. CASE resumed
      <4>1. plan.mode = "resume" /\ plan \in Plans BY <1>9, <3>1 DEF Inv, Typed
      <4>2. Len(plan.size) = 1 /\ plan.old <= plan.size[1] BY <4>1, PlanAssumption
      <4>3. g = 1 BY <1>3, <4>2, Sizes
      <4>4. QED BY <3>1, <4>2, <4>3
    <3>2. CASE ~resumed BY <1>3, <3>2, Sizes
    <3>3. QED BY <3>1, <3>2
  <2>4. ~good => n > 0
    <3>1. ASSUME ~good PROVE n > 0
      <4>1. resumed /\ plan.saved # "same" BY <3>1
      <4>2. plan.saved \in {"same", "other"}
        BY <1>3, <1>4, <1>11, <4>1 DEF FileSound
      <4>3. plan.old > 0 BY <4>1, <4>2, PlanAssumption DEF Inv, Typed
      <4>4. QED BY <4>1, <4>3
    <3>2. QED BY <3>1
  <2>5. rcv.clean = 0 BY <1>11, NotCleaned DEF Stopped
  <2>6. s \in LocalWork \cup {"ready", "all-done-ok"} OBVIOUS
  <2>. HIDE DEF n, good
  <2>7. /\ x \in StSet /\ x.known /\ x.bytes = n /\ x.good = good
        /\ x.done = st[g].done /\ x.named = st[g].named /\ x.keep = st[g].keep
    BY <1>3, <2>2 DEF StSet
  <2>. HIDE DEF x
  <2>8. /\ st' \in [File -> StSet] /\ st'[g] = x /\ \A f \in File \ {g} : st'[f] = st[f]
        /\ Advances
    BY <1>4, <2>1, <2>7, StateNew
  <2>9. ASSUME rcv'.task = At(s, g) PROVE TaskSound'
    <3>1. rcv'.task.at = "ready" /\ rcv'.task.f = g BY <2>9 DEF At
    <3>2. File' = File BY <1>1 DEF File
    <3>3. QED BY <1>1, <2>7, <2>8, <3>1, <3>2 DEF TaskSound, LocalWork, Publishing
  <2>10. ASSUME rcv'.clean = rcv.clean PROVE FileSound(g)'
    <3>1. rcv'.clean = 0 /\ g \in Nat /\ g > 0 BY <1>3, <2>5, <2>10, Sizes
    <3>2. /\ plan' = plan /\ snd' = snd /\ st'[g] = x /\ x.known /\ ~x.done /\ ~x.named
          /\ x.keep = st[g].keep /\ dir'.final[g] = "none"
      BY <1>1, <1>4, <1>5, <1>8, <2>7, <2>8
    <3>3. x.bytes <= plan.size[g] /\ (~x.good => x.bytes > 0) BY <2>3, <2>4, <2>7
    <3>4. /\ dir'.record[g] => plan.mode = "resume"
          /\ plan.mode = "resume" => dir'.record[g]
      BY <1>8
    <3>5. (g < snd.file => x.done) /\ (x.keep => plan.mode = "resume") /\ plan.mode # "blob"
      BY <1>3, <1>4, <2>7 DEF FileSound, Folder
    <3>6. QED BY <1>4, <3>1, <3>2, <3>3, <3>4, <3>5 DEF FileSound, Folder
  <2>. HIDE DEF s
  <2>11. QED BY <1>1, <1>2, <1>4, <1>8, <2>1, <2>6, <2>8, <2>9, <2>10, GoesWorks
<1>12. QED BY <1>10, <1>11

\* restartBrowserReceiveState.
LEMMA RestartDoneStep ==
  ASSUME Inv, RestartDone
  PROVE  Inv'
<1>1. rcv.task.at = "restart" /\ UNCHANGED <<plan, net, snd, dir>> BY DEF RestartDone, Awaits
<1>2. PICK g \in File : g = rcv.task.f BY <1>1, TaskRuns
<1>3. /\ TypeOK /\ TaskSound /\ FileSound(g) /\ st \in [File -> StSet] /\ dir \in DirSet
  BY ReceiverTypes
<1>4. /\ st[g].known /\ ~st[g].done /\ rcv.task # Idle
  BY <1>1, <1>2, <1>3, TaskRuns DEF TaskSound, LocalWork
<1>. DEFINE x == [st[g] EXCEPT !.bytes = 0, !.good = TRUE]
            s == "ready"
<1>5. st' = [st EXCEPT ![g] = x] /\ (Throw \/ Next1(s)) BY <1>2, <1>3 DEF RestartDone, f0
<1>6. /\ x \in StSet /\ x.known /\ x.bytes = 0 /\ x.good
      /\ x.done = st[g].done /\ x.named = st[g].named /\ x.keep = st[g].keep
  BY <1>3, <1>4 DEF StSet
<1>. HIDE DEF x
<1>7. /\ st' \in [File -> StSet] /\ st'[g] = x /\ \A f \in File \ {g} : st'[f] = st[f]
      /\ Advances
  BY <1>4, <1>5, <1>6, StateNew
<1>8. Alone(g) /\ dir' \in DirSet BY <1>1, <1>3 DEF Alone, DirSet, File
<1>9. plan.size[g] \in Nat BY <1>3, Sizes
<1>10. ASSUME rcv'.clean = rcv.clean PROVE FileSound(g)'
  BY <1>1, <1>3, <1>4, <1>6, <1>7, <1>9, <1>10 DEF FileSound, Folder
<1>11. CASE Throw BY <1>1, <1>7, <1>8, <1>10, <1>11, ThrowWorks
<1>12. CASE Next1(s)
  <2>1. ASSUME rcv'.task = At(s, g) PROVE TaskSound'
    <3>1. rcv'.task.at = "ready" /\ rcv'.task.f = g BY <2>1 DEF At
    <3>2. File' = File BY <1>1 DEF File
    <3>3. QED BY <1>1, <1>6, <1>7, <3>1, <3>2 DEF TaskSound, LocalWork, Publishing
  <2>2. s \in LocalWork \cup {"ready", "all-done-ok"} OBVIOUS
  <2>. HIDE DEF s
  <2>3. QED BY <1>1, <1>2, <1>4, <1>7, <1>8, <1>10, <1>12, <2>1, <2>2, GoesWorks
<1>13. QED BY <1>5, <1>11, <1>12

\* A chunk is written.
LEMMA WriteDoneStep ==
  ASSUME Inv, WriteDone
  PROVE  Inv'
<1>1. rcv.task.at = "write" /\ UNCHANGED <<plan, net, snd, dir>> BY DEF WriteDone, Awaits
<1>2. PICK g \in File : g = rcv.task.f BY <1>1, TaskRuns
<1>3. /\ TypeOK /\ TaskSound /\ FileSound(g) /\ st \in [File -> StSet] /\ dir \in DirSet
  BY ReceiverTypes
<1>4. /\ st[g].known /\ st[g].good /\ ~st[g].done /\ st[g].bytes < plan.size[g]
      /\ rcv.task # Idle
  BY <1>1, <1>2, <1>3, TaskRuns DEF TaskSound, LocalWork
<1>5. CASE Stopped BY <1>1, <1>5, ThrowStep DEF WriteDone
<1>6. CASE ~Stopped
  <2>. DEFINE y == st[g]
              n == y.bytes + 1
              x == [y EXCEPT !.bytes = n]
              k == AfterData(st', g)
  <2>1. st' = [st EXCEPT ![g] = x] /\ rcv' = [rcv EXCEPT !.task = k]
    BY <1>2, <1>6 DEF WriteDone, f0
  <2>2. y \in StSet /\ n \in Nat /\ n <= plan.size[g] BY <1>3, <1>4, Sizes DEF StSet
  <2>3. /\ x \in StSet /\ x.known = y.known /\ x.bytes = n /\ x.good = y.good
        /\ x.done = y.done /\ x.named = y.named /\ x.keep = y.keep
    <3>. HIDE DEF y, n
    <3>1. QED BY <2>2 DEF StSet
  <2>. HIDE DEF n, x
  <2>4. /\ st' \in [File -> StSet] /\ st'[g] = x /\ \A f \in File \ {g} : st'[f] = st[f]
        /\ Advances
    BY <1>4, <2>1, <2>3, StateNew
  <2>5. rcv'.task = k
    <3>1. rcv \in RcvSet BY ReceiverTypes
    <3>. HIDE DEF k
    <3>2. QED BY <2>1, <3>1 DEF RcvSet
  <2>6. TaskSound' /\ k \in TaskSet
    BY <1>1, <1>4, <2>2, <2>3, <2>4, <2>5, AfterDataSound
  <2>. HIDE DEF k
  <2>7. /\ Receives /\ rcv'.clean = rcv.clean
        /\ rcv'.failed = rcv.failed /\ rcv'.completed = rcv.completed
        /\ rcv'.allDone = rcv.allDone
    BY <1>4, <2>1, <2>6, Goes
  <2>8. Channels BY <1>1, <2>4, <2>7, ChannelsSame
  <2>9. Alone(g) /\ dir' \in DirSet BY <1>1, <1>3 DEF Alone, DirSet, File
  <2>10. FileSound(g)'
    BY <1>1, <1>3, <1>4, <2>2, <2>3, <2>4, <2>7 DEF FileSound, Folder, Stopped
  <2>11. QED BY <1>1, <2>4, <2>6, <2>7, <2>8, <2>9, <2>10, ReceiverWorks
<1>7. QED BY <1>5, <1>6

\* maybeDownload: what was received is what was sent, so the partial is closed.
LEMMA VerifyDoneStep ==
  ASSUME Inv, VerifyDone
  PROVE  Inv'
<1>1. rcv.task.at = "verify" /\ UNCHANGED <<plan, net, snd>> BY DEF VerifyDone, Awaits
<1>2. PICK g \in File : g = rcv.task.f BY <1>1, TaskRuns
<1>3. /\ TypeOK /\ TaskSound /\ FileSound(g) /\ st \in [File -> StSet] /\ dir \in DirSet
  BY ReceiverTypes
<1>4. /\ st[g].known /\ st[g].good /\ ~st[g].done /\ st[g].bytes = plan.size[g] /\ Folder
      /\ rcv.task # Idle
  BY <1>1, <1>2, <1>3, TaskRuns DEF TaskSound, LocalWork, Publishing
<1>. DEFINE a == IF dir.part[g] = "none" THEN dir.part[g] ELSE "data"
            c == dir.record[g]
            s == "name"
<1>5. /\ dir' = [dir EXCEPT !.part[g] = a] /\ st' = st /\ (Throw \/ Next1(s))
  BY <1>2, <1>4 DEF VerifyDone, f0
<1>6. a \in {"none", "empty", "data"} /\ c \in BOOLEAN BY <1>3 DEF DirSet
<1>7. (a = "none" <=> dir.part[g] = "none") /\ c = dir.record[g] OBVIOUS
<1>. HIDE DEF a, c
<1>8. /\ dir' \in DirSet /\ Alone(g) /\ dir'.part[g] = a /\ dir'.record[g] = c
      /\ dir'.final[g] = dir.final[g] /\ dir'.told = dir.told /\ dir'.saved = dir.saved
  BY <1>5, <1>6, <1>7, PartNew
<1>9. st' \in [File -> StSet] /\ Advances /\ \A f \in File : st'[f] = st[f]
  BY <1>5, StateSame
<1>10. ASSUME rcv'.clean = rcv.clean PROVE FileSound(g)'
  BY <1>1, <1>3, <1>4, <1>7, <1>8, <1>9, <1>10 DEF FileSound, Folder
<1>11. CASE Throw BY <1>1, <1>8, <1>9, <1>10, <1>11, ThrowWorks
<1>12. CASE Next1(s)
  <2>1. ASSUME rcv'.task = At(s, g) PROVE TaskSound'
    <3>1. rcv'.task.at = "name" /\ rcv'.task.f = g BY <2>1 DEF At
    <3>2. File' = File /\ Folder' = Folder BY <1>1 DEF File, Folder
    <3>3. QED BY <1>1, <1>4, <1>9, <3>1, <3>2 DEF TaskSound, LocalWork, Publishing
  <2>2. s \in LocalWork \cup {"ready", "all-done-ok"} BY DEF LocalWork
  <2>. HIDE DEF s
  <2>3. QED BY <1>1, <1>2, <1>4, <1>8, <1>9, <1>10, <1>12, <2>1, <2>2, GoesWorks
<1>13. QED BY <1>5, <1>11, <1>12

\* publishBrowserPartFile: the final file has a name.
LEMMA NameDoneStep ==
  ASSUME Inv, NameDone
  PROVE  Inv'
<1>1. rcv.task.at = "name" /\ UNCHANGED <<plan, net, snd>> BY DEF NameDone, Awaits
<1>2. PICK g \in File : g = rcv.task.f BY <1>1, TaskRuns
<1>3. /\ TypeOK /\ TaskSound /\ FileSound(g) /\ st \in [File -> StSet] /\ dir \in DirSet
  BY ReceiverTypes
<1>4. /\ st[g].known /\ st[g].good /\ ~st[g].done /\ st[g].bytes = plan.size[g] /\ Folder
      /\ rcv.task # Idle
  BY <1>1, <1>2, <1>3, TaskRuns DEF TaskSound, LocalWork, Publishing
<1>. DEFINE a == "empty"
            x == [st[g] EXCEPT !.named = TRUE]
            s == "takeback"
            t == "copy"
<1>5. /\ dir' = [dir EXCEPT !.final[g] = a] /\ st' = [st EXCEPT ![g] = x]
      /\ Next1(s) \/ (Next1(t) /\ ~Stopped)
  BY <1>2 DEF NameDone, f0
<1>6. a \in {"none", "empty", "data"} /\ a # "data" OBVIOUS
<1>. HIDE DEF a
<1>7. /\ dir' \in DirSet /\ Alone(g) /\ dir'.final[g] = a
      /\ dir'.part[g] = dir.part[g] /\ dir'.record[g] = dir.record[g]
      /\ dir'.told = dir.told /\ dir'.saved = dir.saved
  BY <1>5, <1>6, FinalNew
<1>8. /\ x \in StSet /\ x.named /\ x.known = st[g].known /\ x.bytes = st[g].bytes
      /\ x.good = st[g].good /\ x.done = st[g].done /\ x.keep = st[g].keep
  BY <1>3 DEF StSet
<1>. HIDE DEF x
<1>9. /\ st' \in [File -> StSet] /\ st'[g] = x /\ \A f \in File \ {g} : st'[f] = st[f]
      /\ Advances
  BY <1>4, <1>5, <1>8, StateNew
<1>10. ASSUME rcv'.clean = rcv.clean PROVE FileSound(g)'
  BY <1>1, <1>3, <1>4, <1>6, <1>7, <1>8, <1>9, <1>10 DEF FileSound, Folder
<1>11. CASE Next1(s)
  <2>1. rcv'.task = At(s, g) => TaskSound'
    BY <1>1, <1>2, <1>4, <1>8, <1>9, TaskTakeback DEF Publishing
  <2>2. s \in LocalWork \cup {"ready", "all-done-ok"} BY DEF LocalWork
  <2>. HIDE DEF s
  <2>3. QED BY <1>1, <1>2, <1>4, <1>7, <1>9, <1>10, <1>11, <2>1, <2>2, GoesWorks
<1>12. CASE Next1(t) /\ ~Stopped
  <2>1. rcv.clean = 0 BY <1>12, NotCleaned DEF Stopped
  <2>2. ASSUME rcv'.task = At(t, g), rcv'.clean = rcv.clean PROVE TaskSound'
    <3>1. rcv'.task.at = "copy" /\ rcv'.task.f = g BY <2>2 DEF At
    <3>2. File' = File /\ Folder' = Folder BY <1>1 DEF File, Folder
    <3>3. ~(rcv'.clean > g) BY <1>3, <2>1, <2>2, Sizes
    <3>4. QED BY <1>1, <1>4, <1>8, <1>9, <3>1, <3>2, <3>3
            DEF TaskSound, LocalWork, Publishing
  <2>3. t \in LocalWork \cup {"ready", "all-done-ok"} BY DEF LocalWork
  <2>. HIDE DEF t
  <2>4. QED BY <1>1, <1>2, <1>4, <1>7, <1>9, <1>10, <1>12, <2>2, <2>3, GoesWorks
<1>13. QED BY <1>5, <1>11, <1>12

\* ... and its contents, unless the cleanup took it away meanwhile.
LEMMA CopyDoneStep ==
  ASSUME Inv, CopyDone
  PROVE  Inv'
<1>1. rcv.task.at = "copy" /\ UNCHANGED <<plan, net, snd, st>> BY DEF CopyDone, Awaits
<1>2. PICK g \in File : g = rcv.task.f BY <1>1, TaskRuns
<1>3. /\ TypeOK /\ TaskSound /\ FileSound(g) /\ st \in [File -> StSet] /\ dir \in DirSet
  BY ReceiverTypes
<1>4. /\ st[g].known /\ st[g].good /\ ~st[g].done /\ st[g].bytes = plan.size[g] /\ Folder
      /\ rcv.task # Idle /\ st[g].named
      /\ rcv.clean > g /\ ~dir.told => dir.final[g] = "none"
  BY <1>1, <1>2, <1>3, TaskRuns DEF TaskSound, LocalWork, Publishing
<1>. DEFINE a == "data"
            s == "takeback"
            t == "recheck"
<1>5. /\ dir' = [dir EXCEPT !.final[g] = a] /\ (Next1(s) \/ Next1(t)) /\ dir.final[g] # "none"
  BY <1>2 DEF CopyDone, f0
<1>6. a \in {"none", "empty", "data"} OBVIOUS
<1>7. /\ dir' \in DirSet /\ Alone(g) /\ dir'.final[g] = "data"
      /\ dir'.part[g] = dir.part[g] /\ dir'.record[g] = dir.record[g]
      /\ dir'.told = dir.told /\ dir'.saved = dir.saved
  <2>1. SUFFICES /\ dir' \in DirSet /\ Alone(g) /\ dir'.final[g] = a
                 /\ dir'.part[g] = dir.part[g] /\ dir'.record[g] = dir.record[g]
                 /\ dir'.told = dir.told /\ dir'.saved = dir.saved
    OBVIOUS
  <2>. HIDE DEF a
  <2>2. QED BY <1>5, <1>6, FinalNew
<1>8. st' \in [File -> StSet] /\ Advances /\ \A f \in File : st'[f] = st[f]
  BY <1>1, StateSame
<1>9. ASSUME rcv'.clean = rcv.clean PROVE FileSound(g)'
  BY <1>1, <1>3, <1>4, <1>5, <1>7, <1>8, <1>9 DEF FileSound, Folder
<1>10. CASE Next1(s)
  <2>1. rcv'.task = At(s, g) => TaskSound'
    BY <1>1, <1>2, <1>4, <1>8, TaskTakeback DEF Publishing
  <2>2. s \in LocalWork \cup {"ready", "all-done-ok"} BY DEF LocalWork
  <2>. HIDE DEF s
  <2>3. QED BY <1>1, <1>2, <1>4, <1>7, <1>8, <1>9, <1>10, <2>1, <2>2, GoesWorks
<1>11. CASE Next1(t)
  <2>1. ASSUME rcv'.task = At(t, g) PROVE TaskSound'
    <3>1. rcv'.task.at = "recheck" /\ rcv'.task.f = g BY <2>1 DEF At
    <3>2. File' = File /\ Folder' = Folder BY <1>1 DEF File, Folder
    <3>3. QED BY <1>1, <1>4, <1>7, <1>8, <3>1, <3>2 DEF TaskSound, LocalWork, Publishing
  <2>2. t \in LocalWork \cup {"ready", "all-done-ok"} BY DEF LocalWork
  <2>. HIDE DEF t
  <2>3. QED BY <1>1, <1>2, <1>4, <1>7, <1>8, <1>9, <1>11, <2>1, <2>2, GoesWorks
<1>12. QED BY <1>5, <1>10, <1>11

\* file-ok leaves for a file that is complete and where it belongs.
LEMMA AcknowledgeStep ==
  ASSUME Inv, UNCHANGED <<plan, snd>>, Acknowledge, NEW g \in File, g = rcv.task.f,
         rcv.task # Idle, st[g].known, st[g].good, ~st[g].done, st[g].bytes = plan.size[g],
         dir' \in DirSet, Alone(g), dir'.final[g] = dir.final[g], dir'.told = dir.told,
         dir'.part[g] = dir.part[g] \/ dir'.part[g] = "none",
         dir'.record[g] => dir.record[g],
         dir'.part[g] # "none" => dir'.record[g] = dir.record[g],
         rcv.clean = 0 => IF Folder THEN dir'.final[g] = "data" /\ dir'.part[g] = "none"
                                    ELSE g \in dir'.saved
  PROVE  Inv'
<1>1. /\ TypeOK /\ FlagsSound /\ FileSound(g) /\ st \in [File -> StSet] /\ dir \in DirSet
  BY ReceiverTypes
<1>2. /\ dir.part[g] = "none" => dir'.part[g] = "none"
      /\ dir'.part[g] = "data" => dir.part[g] = "data"
  OBVIOUS
<1>3. CASE ~net.open
  <2>1. Throw /\ net' = net /\ st' = st BY <1>3 DEF Acknowledge
  <2>2. st' \in [File -> StSet] /\ Advances /\ \A f \in File : st'[f] = st[f]
    BY <2>1, StateSame
  <2>3. ASSUME rcv'.clean = rcv.clean PROVE FileSound(g)'
    BY <1>1, <1>2, <2>2, <2>3 DEF FileSound, Folder
  <2>4. QED BY <2>1, <2>2, <2>3, ThrowWorks
<1>4. CASE net.open
  <2>. DEFINE m == Msg("file-ok", g)
              x == [st[g] EXCEPT !.done = TRUE]
              k == Resolve(st', rcv.allDone)
  <2>1. /\ net' = [net EXCEPT !.back = Append(@, m)] /\ st' = [st EXCEPT ![g] = x]
        /\ rcv' = [rcv EXCEPT !.task = k]
    BY <1>4 DEF Acknowledge, f0
  <2>2. /\ x \in StSet /\ x.done /\ x.known = st[g].known /\ x.bytes = st[g].bytes
        /\ x.good = st[g].good /\ x.named = st[g].named /\ x.keep = st[g].keep
    BY <1>1 DEF StSet
  <2>. HIDE DEF x
  <2>3. /\ st' \in [File -> StSet] /\ st'[g] = x /\ \A f \in File \ {g} : st'[f] = st[f]
        /\ Advances
    BY <2>1, <2>2, StateNew
  <2>4. rcv'.task = k
    <3>1. rcv \in RcvSet BY ReceiverTypes
    <3>. HIDE DEF k
    <3>2. QED BY <2>1, <3>1 DEF RcvSet
  <2>5. TaskSound' /\ k \in TaskSet BY <2>3, <2>4, ResolveSound
  <2>. HIDE DEF k
  <2>6. /\ Receives /\ rcv'.clean = rcv.clean
        /\ rcv'.failed = rcv.failed /\ rcv'.completed = rcv.completed
        /\ rcv'.allDone = rcv.allDone
    BY <2>1, <2>5, Goes
  <2>7. m \in Back'
    <3>1. g \in Nat BY <1>1, Sizes
    <3>2. st'[g].done /\ File' = File BY <2>2, <2>3 DEF File
    <3>3. m \in Message /\ m.t = "file-ok" /\ m.f = g BY <3>1 DEF Msg, Message
    <3>. HIDE DEF m
    <3>4. QED BY <3>2, <3>3 DEF Back
  <2>. HIDE DEF m
  <2>8. Channels BY <2>1, <2>3, <2>6, <2>7, ChannelsReply
  <2>9. FileSound(g)'
    <3>1. rcv.clean = 0 BY <1>1, <1>4, ReceiverTypes DEF FlagsSound
    <3>2. rcv'.clean = 0 /\ ~(rcv'.clean > g) BY <1>1, <2>6, <3>1, Sizes
    <3>3. /\ plan' = plan /\ snd' = snd /\ st'[g] = x /\ x.known /\ x.good
          /\ x.bytes = plan.size[g]
      BY <2>2, <2>3
    <3>4. plan.size[g] \in Nat BY <1>1, Sizes
    <3>5. IF Folder THEN dir'.final[g] = "data" /\ dir'.part[g] = "none"
                    ELSE g \in dir'.saved
      BY <3>1
    <3>6. QED BY <1>1, <1>2, <2>2, <3>2, <3>3, <3>4, <3>5 DEF FileSound, Folder
  <2>10. QED BY <2>3, <2>5, <2>6, <2>8, <2>9, ReceiverWorks
<1>5. QED BY <1>3, <1>4

\* ... and the partial is gone.
LEMMA DropDoneStep ==
  ASSUME Inv, DropDone
  PROVE  Inv'
<1>1. rcv.task.at = "drop" /\ UNCHANGED <<plan, snd>> BY DEF DropDone, Awaits
<1>2. PICK g \in File : g = rcv.task.f BY <1>1, TaskRuns
<1>3. /\ TypeOK /\ TaskSound /\ FileSound(g) /\ st \in [File -> StSet] /\ dir \in DirSet
  BY ReceiverTypes
<1>4. /\ st[g].known /\ st[g].good /\ ~st[g].done /\ st[g].bytes = plan.size[g] /\ Folder
      /\ rcv.task # Idle
      /\ rcv.clean = 0 => dir.final[g] = "data"
  BY <1>1, <1>2, <1>3, TaskRuns DEF TaskSound, LocalWork, Publishing
<1>. DEFINE a == "none"
            c == dir.record[g]
            s == "takeback"
            t == "forget"
<1>5. dir' = [dir EXCEPT !.part[g] = a] BY <1>2 DEF DropDone, f0
<1>6. /\ dir' \in DirSet /\ Alone(g) /\ dir'.part[g] = "none" /\ dir'.record[g] = dir.record[g]
      /\ dir'.final[g] = dir.final[g] /\ dir'.told = dir.told /\ dir'.saved = dir.saved
  <2>1. a \in {"none", "empty", "data"} /\ c \in BOOLEAN /\ c = dir.record[g]
    BY <1>3 DEF DirSet
  <2>2. SUFFICES /\ dir' \in DirSet /\ Alone(g) /\ dir'.part[g] = a
                 /\ dir'.record[g] = dir.record[g] /\ dir'.final[g] = dir.final[g]
                 /\ dir'.told = dir.told /\ dir'.saved = dir.saved
    OBVIOUS
  <2>. HIDE DEF a, c
  <2>3. QED BY <1>5, <2>1, PartNew
<1>7. \/ Next1(s) /\ UNCHANGED <<net, st>>
      \/ Next1(t) /\ UNCHANGED <<net, st>>
      \/ Acknowledge
  <2>1. plan.mode \in {"resume", "folder"} BY <1>3, <1>4, Types DEF Plan, Folder
  <2>2. QED BY <2>1 DEF DropDone
<1>8. ASSUME st' = st, rcv'.clean = rcv.clean PROVE FileSound(g)'
  BY <1>1, <1>3, <1>4, <1>6, <1>8 DEF FileSound, Folder
<1>9. CASE Next1(s) /\ UNCHANGED <<net, st>>
  <2>1. st' \in [File -> StSet] /\ Advances /\ \A f \in File : st'[f] = st[f]
    BY <1>9, StateSame
  <2>2. rcv'.task = At(s, g) => TaskSound'
    BY <1>1, <1>2, <1>4, <2>1, TaskTakeback DEF Publishing
  <2>3. s \in LocalWork \cup {"ready", "all-done-ok"} BY DEF LocalWork
  <2>. HIDE DEF s
  <2>4. QED BY <1>1, <1>2, <1>4, <1>6, <1>8, <1>9, <2>1, <2>2, <2>3, GoesWorks
<1>10. CASE Next1(t) /\ UNCHANGED <<net, st>>
  <2>1. st' \in [File -> StSet] /\ Advances /\ \A f \in File : st'[f] = st[f]
    BY <1>10, StateSame
  <2>2. ASSUME rcv'.task = At(t, g), rcv'.clean = rcv.clean PROVE TaskSound'
    <3>1. rcv'.task.at = "forget" /\ rcv'.task.f = g BY <2>2 DEF At
    <3>2. File' = File /\ Folder' = Folder BY <1>1 DEF File, Folder
    <3>3. QED BY <1>1, <1>4, <1>6, <2>1, <2>2, <3>1, <3>2
            DEF TaskSound, LocalWork, Publishing
  <2>3. t \in LocalWork \cup {"ready", "all-done-ok"} BY DEF LocalWork
  <2>. HIDE DEF t
  <2>4. QED BY <1>1, <1>2, <1>4, <1>6, <1>8, <1>10, <2>1, <2>2, <2>3, GoesWorks
<1>11. CASE Acknowledge
  <2>1. rcv.clean = 0 => IF Folder THEN dir'.final[g] = "data" /\ dir'.part[g] = "none"
                                   ELSE g \in dir'.saved
    BY <1>4, <1>6
  <2>2. QED BY <1>1, <1>2, <1>4, <1>6, <1>11, <2>1, AcknowledgeStep
<1>12. QED BY <1>7, <1>9, <1>10, <1>11

\* forgetBrowserResumePartial: no stop check follows, but after a cleanup has begun the
\* channels are closed and the acknowledgement throws.
LEMMA ForgetDoneStep ==
  ASSUME Inv, ForgetDone
  PROVE  Inv'
<1>1. rcv.task.at = "forget" /\ UNCHANGED <<plan, snd>> /\ Acknowledge
  BY DEF ForgetDone, Awaits
<1>2. PICK g \in File : g = rcv.task.f BY <1>1, TaskRuns
<1>3. /\ TypeOK /\ TaskSound /\ FileSound(g) /\ st \in [File -> StSet] /\ dir \in DirSet
  BY ReceiverTypes
<1>4. /\ st[g].known /\ st[g].good /\ ~st[g].done /\ st[g].bytes = plan.size[g] /\ Folder
      /\ rcv.task # Idle /\ dir.part[g] = "none"
      /\ rcv.clean = 0 => dir.final[g] = "data"
  BY <1>1, <1>2, <1>3, TaskRuns DEF TaskSound, LocalWork, Publishing
<1>5. dir' = [dir EXCEPT !.record[g] = FALSE] BY <1>2 DEF ForgetDone, f0
<1>6. /\ dir' \in DirSet /\ Alone(g) /\ dir'.record[g] = FALSE
      /\ dir'.part[g] = dir.part[g] /\ dir'.final[g] = dir.final[g]
      /\ dir'.told = dir.told /\ dir'.saved = dir.saved
  BY <1>5, RecordNew
<1>7. rcv.clean = 0 => IF Folder THEN dir'.final[g] = "data" /\ dir'.part[g] = "none"
                                 ELSE g \in dir'.saved
  BY <1>4, <1>6
<1>8. QED BY <1>1, <1>2, <1>4, <1>6, <1>7, AcknowledgeStep

\* A download begins.
LEMMA DownloadDoneStep ==
  ASSUME Inv, DownloadDone
  PROVE  Inv'
<1>1. rcv.task.at = "download" /\ UNCHANGED <<plan, snd>> BY DEF DownloadDone, Awaits
<1>2. PICK g \in File : g = rcv.task.f BY <1>1, TaskRuns
<1>3. /\ TypeOK /\ TaskSound /\ FileSound(g) /\ st \in [File -> StSet] /\ dir \in DirSet
  BY ReceiverTypes
<1>4. /\ st[g].known /\ st[g].good /\ ~st[g].done /\ st[g].bytes = plan.size[g] /\ ~Folder
      /\ rcv.task # Idle
  BY <1>1, <1>2, <1>3, TaskRuns DEF TaskSound, LocalWork, Publishing
<1>5. CASE Stopped BY <1>1, <1>5, ThrowStep DEF DownloadDone
<1>6. CASE ~Stopped
  <2>. DEFINE w == dir.saved \cup {g}
  <2>1. dir' = [dir EXCEPT !.saved = w] /\ Acknowledge BY <1>2, <1>6 DEF DownloadDone, f0
  <2>2. w \in SUBSET File /\ g \in w /\ dir.saved \subseteq w BY <1>3 DEF DirSet
  <2>. HIDE DEF w
  <2>3. /\ dir' \in DirSet /\ dir'.record = dir.record /\ dir'.part = dir.part
        /\ dir'.final = dir.final /\ dir'.told = dir.told /\ dir'.saved = w
    BY <1>3, <2>1, <2>2 DEF DirSet
  <2>4. Alone(g) BY <2>2, <2>3 DEF Alone
  <2>5. rcv.clean = 0 => IF Folder THEN dir'.final[g] = "data" /\ dir'.part[g] = "none"
                                   ELSE g \in dir'.saved
    BY <1>4, <2>2, <2>3
  <2>6. QED BY <1>1, <1>2, <1>4, <2>1, <2>3, <2>4, <2>5, AcknowledgeStep
<1>7. QED BY <1>5, <1>6

\* The catch of publishBrowserPartFile.
LEMMA TakenBackStep ==
  ASSUME Inv, TakenBack
  PROVE  Inv'
<1>1. rcv.task.at = "takeback" /\ UNCHANGED <<plan, net, snd>> /\ Throw
  BY DEF TakenBack, Awaits
<1>2. PICK g \in File : g = rcv.task.f BY <1>1, TaskRuns
<1>3. /\ TypeOK /\ TaskSound /\ FileSound(g) /\ st \in [File -> StSet] /\ dir \in DirSet
  BY ReceiverTypes
<1>4. st[g].known /\ ~st[g].done BY <1>1, <1>2, <1>3 DEF TaskSound, LocalWork
<1>5. CASE UNCHANGED <<dir, st>> BY <1>1, <1>5, ThrowStep
<1>6. CASE ~UNCHANGED <<dir, st>>
  <2>. DEFINE a == "none"
              x == [st[g] EXCEPT !.named = FALSE]
  <2>1. dir' = [dir EXCEPT !.final[g] = a] /\ st' = [st EXCEPT ![g] = x]
    BY <1>2, <1>6 DEF TakenBack, f0
  <2>2. /\ dir' \in DirSet /\ Alone(g) /\ dir'.final[g] = "none"
        /\ dir'.part[g] = dir.part[g] /\ dir'.record[g] = dir.record[g]
        /\ dir'.told = dir.told /\ dir'.saved = dir.saved
    <3>1. SUFFICES /\ dir' \in DirSet /\ Alone(g) /\ dir'.final[g] = a
                   /\ dir'.part[g] = dir.part[g] /\ dir'.record[g] = dir.record[g]
                   /\ dir'.told = dir.told /\ dir'.saved = dir.saved
      OBVIOUS
    <3>2. a \in {"none", "empty", "data"} OBVIOUS
    <3>. HIDE DEF a
    <3>3. QED BY <2>1, <3>2, FinalNew
  <2>3. /\ x \in StSet /\ ~x.named /\ x.known = st[g].known /\ x.bytes = st[g].bytes
        /\ x.good = st[g].good /\ x.done = st[g].done /\ x.keep = st[g].keep
    BY <1>3 DEF StSet
  <2>. HIDE DEF x
  <2>4. /\ st' \in [File -> StSet] /\ st'[g] = x /\ \A f \in File \ {g} : st'[f] = st[f]
        /\ Advances
    BY <2>1, <2>3, StateNew
  <2>5. ASSUME rcv'.clean = rcv.clean PROVE FileSound(g)'
    BY <1>1, <1>3, <1>4, <2>2, <2>3, <2>4, <2>5 DEF FileSound, Folder
  <2>6. QED BY <1>1, <2>2, <2>4, <2>5, ThrowWorks
<1>7. QED BY <1>5, <1>6

-----------------------------------------------------------------------------
(* The cleanup *)

\* discardBrowserPartialFile: the two entries are gone, or the user is told.
LEMMA DiscardSound ==
  ASSUME Inv, NEW g \in File, Discard(g)
  PROVE  /\ dir' \in DirSet /\ Alone(g)
         /\ dir'.record[g] => dir.record[g]
         /\ dir'.final[g] = dir.final[g] \/ dir'.final[g] = "none"
         /\ dir'.part[g] = dir.part[g] \/ dir'.part[g] = "none"
         /\ ~dir'.told => dir'.final[g] = "none" /\ dir'.part[g] = "none"
<1>1. dir \in DirSet BY ReceiverTypes
<1>2. PICK forgets \in BOOLEAN :
        LET gone == [dir EXCEPT !.final[g] = "none", !.part[g] = "none",
                                !.record[g] = @ /\ ~forgets]
        IN  \/ dir' = gone
            \/ dir' = [dir EXCEPT !.told = TRUE, !.record[g] = @ /\ ~(forgets /\ st[g].named)]
            \/ dir' = [gone EXCEPT !.part[g] = dir.part[g], !.told = TRUE]
  BY DEF Discard
<1>. DEFINE fin == [dir.final EXCEPT ![g] = "none"]
            par == [dir.part EXCEPT ![g] = "none"]
            rec(c) == [dir.record EXCEPT ![g] = dir.record[g] /\ ~c]
            c1 == forgets
            c2 == forgets /\ st[g].named
<1>3. /\ fin \in [File -> {"none", "empty", "data"}] /\ fin[g] = "none"
      /\ \A f \in File \ {g} : fin[f] = dir.final[f]
  BY <1>1 DEF DirSet
<1>4. /\ par \in [File -> {"none", "empty", "data"}] /\ par[g] = "none"
      /\ \A f \in File \ {g} : par[f] = dir.part[f]
  BY <1>1 DEF DirSet
<1>5. ASSUME NEW c
      PROVE  /\ rec(c) \in [File -> BOOLEAN] /\ (rec(c)[g] => dir.record[g])
             /\ \A f \in File \ {g} : rec(c)[f] = dir.record[f]
  <2>1. dir.record \in [File -> BOOLEAN] BY <1>1 DEF DirSet
  <2>2. QED BY <2>1
<1>6. \/ dir' = [dir EXCEPT !.final = fin, !.part = par, !.record = rec(c1)]
      \/ dir' = [dir EXCEPT !.told = TRUE, !.record = rec(c2)]
      \/ dir' = [dir EXCEPT !.final = fin, !.record = rec(c1), !.told = TRUE]
  <2>. DEFINE gone == [dir EXCEPT !.final = fin, !.part = par, !.record = rec(c1)]
  <2>1. gone = [dir EXCEPT !.final[g] = "none", !.part[g] = "none",
                           !.record[g] = @ /\ ~forgets]
    BY <1>1 DEF DirSet
  <2>2. CASE dir' = gone BY <2>2
  <2>3. CASE dir' = [dir EXCEPT !.told = TRUE,
                                !.record[g] = @ /\ ~(forgets /\ st[g].named)]
    BY <1>1, <2>3 DEF DirSet
  <2>4. CASE dir' = [gone EXCEPT !.part[g] = dir.part[g], !.told = TRUE]
    <3>1. [par EXCEPT ![g] = dir.part[g]] = dir.part BY <1>1 DEF DirSet
    <3>2. gone.part = par BY <1>1 DEF DirSet
    <3>. DEFINE q == [gone.part EXCEPT ![g] = dir.part[g]]
    <3>3. q = dir.part BY <3>1, <3>2
    <3>4. dir' = [gone EXCEPT !.part = q, !.told = TRUE] BY <2>4
    <3>. HIDE DEF q, fin, par, rec, c1
    <3>5. dir' = [dir EXCEPT !.final = fin, !.record = rec(c1), !.told = TRUE]
      BY <1>1, <3>3, <3>4 DEF DirSet
    <3>6. QED BY <3>5
  <2>5. QED BY <1>2, <2>1, <2>2, <2>3, <2>4
<1>. HIDE DEF fin, par, rec, c1, c2
<1>7. dir' \in DirSet
  <2>1. rec(c1) \in [File -> BOOLEAN] BY <1>5
  <2>2. rec(c2) \in [File -> BOOLEAN] BY <1>5
  <2>3. CASE dir' = [dir EXCEPT !.final = fin, !.part = par, !.record = rec(c1)]
    BY <1>1, <1>3, <1>4, <2>1, <2>3 DEF DirSet
  <2>4. CASE dir' = [dir EXCEPT !.told = TRUE, !.record = rec(c2)]
    BY <1>1, <2>2, <2>4 DEF DirSet
  <2>5. CASE dir' = [dir EXCEPT !.final = fin, !.record = rec(c1), !.told = TRUE]
    BY <1>1, <1>3, <2>1, <2>5 DEF DirSet
  <2>6. QED BY <1>6, <2>3, <2>4, <2>5
<1>8. /\ dir'.final = dir.final \/ dir'.final = fin
      /\ dir'.part = dir.part \/ dir'.part = par
      /\ dir'.record = rec(c1) \/ dir'.record = rec(c2)
      /\ dir'.told \/ (dir'.final = fin /\ dir'.part = par /\ dir'.told = dir.told)
      /\ dir'.saved = dir.saved
  BY <1>1, <1>6 DEF DirSet
<1>9. QED BY <1>3, <1>4, <1>5, <1>7, <1>8 DEF Alone

\* What the cleanup does to the folder for a file it knows.
LEMMA CleanupDir ==
  ASSUME Inv, Cleanup, NEW g \in File, g = rcv.clean, st[g].known
  PROVE  /\ dir' \in DirSet /\ Alone(g)
         /\ dir'.record[g] => dir.record[g]
         /\ dir'.part[g] = "none" \/ (dir.part[g] # "none")
         /\ dir'.final[g] = dir.final[g] \/ dir'.final[g] = "none"
         /\ ~dir'.told => dir'.final[g] = "none"
         /\ plan.mode = "folder" /\ ~dir'.told => dir'.part[g] = "none"
         /\ ~dir'.told /\ dir'.part[g] # "none" => dir'.record[g] = dir.record[g]
         /\ plan.mode = "blob" => dir' = dir
<1>1. dir \in DirSet /\ FileSound(g) /\ plan \in Plan /\ st \in [File -> StSet]
  BY ReceiverTypes, Types
<1>2. st[g].named \in BOOLEAN /\ st[g].keep \in BOOLEAN BY <1>1 DEF StSet
<1>3. CASE ~Folder
  <2>1. dir' = dir BY <1>3 DEF Cleanup
  <2>2. dir.final[g] = "none" /\ dir.part[g] = "none"
    BY <1>1, <1>3 DEF FileSound, Folder
  <2>3. Alone(g) BY <2>1 DEF Alone
  <2>4. QED BY <1>1, <1>3, <2>1, <2>2, <2>3 DEF Folder
<1>4. CASE Folder /\ (st[g].named \/ ~st[g].keep)
  <2>1. Discard(g) BY <1>4 DEF Cleanup
  <2>2. QED BY <1>4, <2>1, DiscardSound DEF Folder
<1>5. CASE Folder /\ ~st[g].named /\ st[g].keep
  <2>. DEFINE a == IF dir.part[g] = "none" THEN dir.part[g] ELSE "data"
              c == dir.record[g]
  <2>1. dir' = [dir EXCEPT !.part[g] = a] \/ dir' = dir BY <1>5 DEF Cleanup
  <2>2. a \in {"none", "empty", "data"} /\ c \in BOOLEAN BY <1>1 DEF DirSet
  <2>3. dir.final[g] = "none" /\ plan.mode = "resume" BY <1>1, <1>5 DEF FileSound
  <2>4. (a = "none" <=> dir.part[g] = "none") /\ c = dir.record[g] OBVIOUS
  <2>. HIDE DEF a, c
  <2>5. CASE dir' = dir
    <3>1. Alone(g) BY <2>5 DEF Alone
    <3>2. QED BY <1>1, <2>3, <2>5, <3>1
  <2>6. CASE dir' = [dir EXCEPT !.part[g] = a]
    <3>1. /\ dir' \in DirSet /\ Alone(g) /\ dir'.part[g] = a /\ dir'.record[g] = c
          /\ dir'.final[g] = dir.final[g] /\ dir'.told = dir.told
      BY <2>2, <2>4, <2>6, PartNew
    <3>2. QED BY <2>3, <2>4, <3>1
  <2>7. QED BY <2>1, <2>5, <2>6
<1>6. QED BY <1>2, <1>3, <1>4, <1>5

\* The files are begun in their order, so the cleanup, which ends at the first one that was
\* not begun, has passed every file that was.
LEMMA BegunInOrder ==
  ASSUME Inv, NEW f \in File, NEW g \in File, ~st[g].known, f > g
  PROVE  ~st[f].known
<1>1. FileSound(f) /\ FileSound(g) /\ TypeOK BY ReceiverTypes
<1>2. f \in Nat /\ g \in Nat /\ snd.file \in Nat BY <1>1, Sizes, SenderTypes
<1>3. ~st[g].done BY <1>1 DEF FileSound
<1>4. ~(g < snd.file) BY <1>1, <1>3 DEF FileSound
<1>5. QED BY <1>1, <1>2, <1>4 DEF FileSound

\* The finally of receiveBrowserFiles, one file further.
LEMMA CleanupStep ==
  ASSUME Inv, Cleanup
  PROVE  Inv'
<1>1. /\ TypeOK /\ TaskSound /\ FlagsSound /\ rcv \in RcvSet /\ net \in NetSet
      /\ rcv.queue \in Seq(Forth) /\ rcv.clean \in Nat /\ rcv.task.f \in Nat
      /\ Len(rcv.queue) + (IF rcv.task = Idle THEN 0 ELSE 1) <= plan.limit
      /\ \A f \in File : FileSound(f)
  BY ReceiverTypes
<1>2. PICK g \in File : g = rcv.clean BY DEF Cleanup
<1>3. UNCHANGED <<plan, net, snd, st>> BY DEF Cleanup
<1>4. Len(plan.size) \in Nat /\ g \in 1 .. Len(plan.size) /\ File = 1 .. Len(plan.size)
  BY <1>1, <1>2, Sizes
<1>. DEFINE c == IF st[g].known THEN g + 1 ELSE Len(plan.size) + 1
<1>5. c \in 0 .. Len(plan.size) + 1 /\ c \in Nat /\ c > g BY <1>4
<1>6. rcv' = [rcv EXCEPT !.clean = c] BY <1>2 DEF Cleanup
<1>7. /\ st[g].known => c = g + 1
      /\ ~st[g].known => c = Len(plan.size) + 1
  OBVIOUS
<1>. HIDE DEF c
<1>8. /\ rcv' \in RcvSet /\ rcv'.clean = c /\ rcv'.queue = rcv.queue /\ rcv'.task = rcv.task
      /\ rcv'.allDone = rcv.allDone /\ rcv'.failed = rcv.failed
      /\ rcv'.completed = rcv.completed
  BY <1>1, <1>5, <1>6 DEF RcvSet
<1>9. Receives BY <1>1, <1>8 DEF Receives, FlagsSound
<1>10. st' \in [File -> StSet] /\ Advances /\ \A f \in File : st'[f] = st[f]
  BY <1>3, StateSame
<1>11. Channels BY <1>3, <1>9, <1>10, ChannelsSame
<1>12. rcv.failed /\ ~net.open /\ rcv.clean > 0 /\ Stopped /\ Stopped'
  BY <1>1, <1>2, <1>4, <1>8 DEF FlagsSound, Stopped
<1>13. FlagsSound' BY <1>1, <1>3, <1>8, <1>10, <1>12 DEF FlagsSound, File
<1>14. ~st[g].known => dir' = dir BY <1>2 DEF Cleanup
<1>15. dir' \in DirSet /\ Alone(g)
  <2>1. dir \in DirSet BY ReceiverTypes
  <2>2. CASE st[g].known BY <1>2, <2>2, CleanupDir
  <2>3. CASE ~st[g].known BY <1>14, <2>1, <2>3 DEF Alone
  <2>4. QED BY <2>2, <2>3
<1>16. ASSUME NEW f \in File PROVE c > f => rcv.clean > f \/ f = g \/ ~st[f].known
  <2>1. f \in Nat BY <1>4
  <2>2. CASE st[g].known BY <1>2, <1>4, <1>7, <2>1, <2>2
  <2>3. CASE ~st[g].known
    <3>1. f > g => ~st[f].known BY <2>3, BegunInOrder
    <3>2. QED BY <1>2, <1>4, <2>1, <3>1
  <2>4. QED BY <2>2, <2>3
<1>17. ASSUME NEW f \in File PROVE FileSound(f)'
  <2>1. CASE f # g \/ ~st[g].known
    <3>1. /\ dir'.part[f] = dir.part[f] /\ dir'.final[f] = dir.final[f]
          /\ dir'.record[f] = dir.record[f] /\ (dir.told => dir'.told)
          /\ f \in dir.saved => f \in dir'.saved
      <4>1. CASE f # g BY <1>15, <4>1 DEF Alone
      <4>2. CASE ~st[g].known BY <1>14, <4>2
      <4>3. QED BY <2>1, <4>1, <4>2
    <3>2. rcv'.clean > f => rcv.clean > f \/ ~st[f].known BY <1>8, <1>16, <2>1
    <3>3. rcv'.clean \in Nat /\ rcv'.clean # 0 BY <1>4, <1>5, <1>8
    <3>4. QED BY <1>3, <1>10, <1>12, <3>1, <3>2, <3>3, FileSame
  <2>2. CASE f = g /\ st[g].known
    <3>1. /\ Alone(g)
          /\ dir'.record[g] => dir.record[g]
          /\ dir'.part[g] = "none" \/ (dir.part[g] # "none")
          /\ dir'.final[g] = dir.final[g] \/ dir'.final[g] = "none"
          /\ ~dir'.told => dir'.final[g] = "none"
          /\ plan.mode = "folder" /\ ~dir'.told => dir'.part[g] = "none"
          /\ ~dir'.told /\ dir'.part[g] # "none" => dir'.record[g] = dir.record[g]
          /\ plan.mode = "blob" => dir' = dir
      BY <1>2, <2>2, CleanupDir
    <3>2. rcv'.clean # 0 /\ plan' = plan /\ snd' = snd /\ st'[g] = st[g]
      BY <1>3, <1>4, <1>5, <1>8, <1>10
    <3>3. dir.told => dir'.told BY <3>1 DEF Alone
    <3>4. FileSound(g) BY <1>1
    <3>5. FileSound(g)' BY <2>2, <3>1, <3>2, <3>3, <3>4 DEF FileSound, Folder
    <3>6. QED BY <2>2, <3>5
  <2>3. QED BY <2>1, <2>2
<1>18. TaskSound'
  <2>. DEFINE k == rcv.task
  <2>1. rcv'.task = k /\ rcv'.clean # 0 BY <1>4, <1>5, <1>8
  <2>2. k.at = "forget" => dir'.part[k.f] = "none"
    <3>1. SUFFICES ASSUME k.at = "forget" PROVE dir'.part[k.f] = "none" OBVIOUS
    <3>2. k.f \in File /\ dir.part[k.f] = "none" /\ st[k.f].known
      BY <1>1, <3>1 DEF TaskSound, LocalWork
    <3>3. CASE k.f = g
      <4>1. st[g].known BY <3>2, <3>3
      <4>2. dir'.part[g] = "none" \/ dir.part[g] # "none" BY <1>2, <4>1, CleanupDir
      <4>3. QED BY <3>2, <3>3, <4>2
    <3>4. CASE k.f # g BY <1>15, <3>2, <3>4 DEF Alone
    <3>5. QED BY <3>3, <3>4
  <2>3. k.at = "copy" /\ rcv'.clean > k.f /\ ~dir'.told => dir'.final[k.f] = "none"
    <3>1. SUFFICES ASSUME k.at = "copy", rcv'.clean > k.f, ~dir'.told
                   PROVE  dir'.final[k.f] = "none"
      OBVIOUS
    <3>2. /\ k.f \in File /\ st[k.f].known
          /\ rcv.clean > k.f /\ ~dir.told => dir.final[k.f] = "none"
      BY <1>1, <3>1 DEF TaskSound, LocalWork
    <3>3. ~dir.told BY <1>15, <3>1 DEF Alone
    <3>4. CASE k.f = g
      <4>1. st[g].known BY <3>2, <3>4
      <4>2. ~dir'.told => dir'.final[g] = "none" BY <1>2, <4>1, CleanupDir
      <4>3. QED BY <3>1, <3>4, <4>2
    <3>5. CASE k.f # g
      <4>1. rcv.clean > k.f BY <1>8, <1>16, <3>1, <3>2, <3>5
      <4>2. dir'.final[k.f] = dir.final[k.f] BY <1>15, <3>2, <3>5 DEF Alone
      <4>3. QED BY <3>2, <3>3, <4>1, <4>2
    <3>6. QED BY <3>4, <3>5
  <2>4. File' = File /\ Folder' = Folder BY <1>3 DEF File, Folder
  <2>5. QED BY <1>1, <1>3, <2>1, <2>2, <2>3, <2>4 DEF TaskSound
<1>19. QED BY <1>3, <1>9, <1>10, <1>11, <1>13, <1>15, <1>17, <1>18, ReceiverKeeps

-----------------------------------------------------------------------------
(* The invariant and the theorems *)

\* The transfer begins in the invariant ...
LEMMA InitInv ==
  ASSUME Init
  PROVE  Inv
<1>1. plan \in Plans /\ plan \in Plan BY PlanAssumption DEF Init
<1>2. /\ Len(plan.size) \in Nat /\ plan.limit \in Nat /\ plan.old \in Nat
      /\ \A f \in File : f \in Nat /\ f > 0 /\ plan.size[f] \in Nat
  <2>1. plan.size \in Seq(Nat) /\ plan.limit \in Nat /\ plan.old \in Nat BY <1>1 DEF Plan
  <2>2. \A f \in 1 .. Len(plan.size) : plan.size[f] \in Nat BY <2>1
  <2>3. QED BY <2>1, <2>2 DEF File
<1>. DEFINE e == <<>>
<1>3. /\ e \in Seq(Message) /\ e \in Seq(Forth) /\ e \in Seq(Back) /\ Len(e) = 0
  OBVIOUS
<1>4. net = [ctl |-> e, bulk |-> e, back |-> e, open |-> TRUE] BY DEF Init
<1>5. Msg("none", 0) \in Message BY DEF Msg, Message
<1>6. Idle \in TaskSet BY <1>2 DEF Idle, TaskSet
<1>7. rcv = [queue |-> e, task |-> Idle, manifest |-> FALSE, allDone |-> FALSE,
             failed |-> FALSE, completed |-> FALSE, clean |-> 0]
  BY DEF Init
<1>. HIDE DEF e
<1>8. net \in NetSet /\ net.ctl = e /\ net.bulk = e /\ net.back = e
  BY <1>3, <1>4 DEF NetSet
<1>9. /\ rcv \in RcvSet /\ rcv.queue = e /\ rcv.task = Idle /\ rcv.clean = 0
      /\ ~rcv.allDone /\ ~rcv.failed /\ ~rcv.completed
  BY <1>2, <1>3, <1>6, <1>7 DEF RcvSet
<1>10. snd \in SndSet /\ snd.at = "manifest" /\ snd.file = 1
  BY <1>2, <1>5 DEF Init, SndSet
<1>11. /\ st \in [File -> StSet]
       /\ \A f \in File : /\ ~st[f].known /\ st[f].bytes = 0 /\ st[f].good /\ ~st[f].done
                          /\ ~st[f].named /\ (st[f].keep => plan.mode = "resume")
  BY DEF Init, StSet
<1>12. /\ dir \in DirSet /\ ~dir.told
       /\ \A f \in File : /\ dir.final[f] = "none"
                          /\ dir.record[f] <=> plan.saved # "nothing"
                          /\ dir.part[f] # "none" => plan.saved \in {"same", "other"}
  BY DEF Init, DirSet
<1>13. plan.mode # "resume" => plan.saved = "nothing" BY <1>1, PlanAssumption
<1>14. Len(rcv.queue) + (IF rcv.task = Idle THEN 0 ELSE 1) <= plan.limit
  BY <1>2, <1>3, <1>9
<1>15. TypeOK BY <1>1, <1>8, <1>9, <1>10, <1>11, <1>12, <1>14, Types
<1>16. Typed BY <1>1, <1>3, <1>8, <1>9, <1>15 DEF Typed
<1>17. SenderSound BY <1>10 DEF SenderSound
<1>18. FlagsSound BY <1>9 DEF FlagsSound
<1>19. TaskSound BY <1>9 DEF TaskSound, Idle, LocalWork, Publishing
<1>20. ASSUME NEW f \in File PROVE FileSound(f)
  BY <1>2, <1>9, <1>10, <1>11, <1>12, <1>13 DEF FileSound
<1>21. QED BY <1>16, <1>17, <1>18, <1>19, <1>20 DEF Inv

\* Nothing happens.
LEMMA StutterInv ==
  ASSUME Inv, UNCHANGED vars
  PROVE  Inv'
<1>1. /\ snd \in SndSet /\ net \in NetSet
      /\ net.ctl \in Seq(Forth) /\ net.back \in Seq(Back)
  BY SenderTypes
<1>2. QED BY <1>1, SenderStops DEF vars

\* ... and every step keeps it.
LEMMA NextInv ==
  ASSUME Inv, [Next]_vars
  PROVE  Inv'
<1>1. CASE SenderNext
  BY <1>1, SendStep, VerifiedReadyStep, SendChunkStep, HandleSenderControlStep,
     SenderFailsStep
     DEF SenderNext
<1>2. CASE HandleBegin BY <1>2, HandleBeginFolder, HandleBeginBlob
<1>3. CASE HandleChunk BY <1>3, HandleChunkFolder, HandleChunkBlob
<1>4. CASE Handler
  BY <1>2, <1>3, <1>4, HandleManifestStep, HandleRestartStep, HandleEndStep,
     HandleAllDoneStep, FailStep
     DEF Handler
<1>5. CASE Awaited
  BY <1>5, CreateDoneStep, SendReadyStep, RestartDoneStep, WriteDoneStep, VerifyDoneStep,
     NameDoneStep, CopyDoneStep, RecheckDoneStep, DropDoneStep, ForgetDoneStep,
     TakenBackStep, DownloadDoneStep, WorkFailsStep, SendAllDoneOkStep
     DEF Awaited
<1>6. CASE ReceiverNext
  BY <1>4, <1>5, <1>6, ArriveStep, FailStep, FailTailStep, CleanupStep DEF ReceiverNext
<1>7. CASE PeerClose \/ LinkDown BY <1>7, CloseStep
<1>8. CASE UNCHANGED vars BY <1>8, StutterInv
<1>9. QED BY <1>1, <1>6, <1>7, <1>8 DEF Next

\* So it always holds.
LEMMA Invariance == Spec => []Inv
<1>1. Init => Inv BY InitInv
<1>2. Inv /\ [Next]_vars => Inv' BY NextInv
<1>3. QED BY <1>1, <1>2, PTL DEF Spec

\* The receiver's queue, counting the task that runs, never exceeds
\* RECEIVE_QUEUE_MAX_MESSAGES, a file's state stays one of its stages, and every message is
\* one of the protocol: sendBrowserFiles and receiveBrowserFiles of web/main.ts.
THEOREM BrowserTypesCorrect == Spec => []TypeOK
<1>1. Inv => TypeOK BY DEF Inv, Typed
<1>2. QED BY <1>1, Invariance, PTL

\* sendBrowserFiles reports success only after receiveBrowserFiles completed, and a
\* completed receive has every file whole and verified in its place: no failure, timer or
\* close between two awaits of the running task, and no cleanup, takes one back.
THEOREM CompletionAlwaysKept == Spec => []CompletionKept
<1>1. ASSUME Inv PROVE CompletionKept
  <2>1. SenderSound /\ FlagsSound /\ \A f \in File : FileSound(f) BY <1>1 DEF Inv
  <2>2. snd.at = "done" => rcv.completed BY <2>1 DEF SenderSound
  <2>3. ASSUME rcv.completed, NEW f \in File
        PROVE  /\ st[f].done /\ st[f].good /\ st[f].bytes = plan.size[f]
               /\ IF Folder THEN dir.final[f] = "data" /\ dir.part[f] = "none"
                            ELSE f \in dir.saved
    <3>1. st[f].done BY <2>1, <2>3 DEF FlagsSound
    <3>2. rcv.clean = 0
      <4>1. rcv.clean \in Nat BY <1>1, ReceiverTypes
      <4>2. QED BY <2>1, <2>3, <4>1 DEF FlagsSound
    <3>3. QED BY <2>1, <3>1, <3>2 DEF FileSound
  <2>4. QED BY <2>2, <2>3 DEF CompletionKept
<1>2. QED BY <1>1, Invariance, PTL

\* After a failed receive into a folder, whatever the running task was at when
\* failTransfer and the cleanup of receiveBrowserFiles overtook it, contents are left only
\* in a partial that the registry names, or the user was told of what is left.
THEOREM FolderAlwaysAccounted == Spec => []FolderAccounted
<1>1. ASSUME Inv PROVE FolderAccounted
  <2>1. TypeOK /\ rcv.clean \in Nat /\ plan \in Plan BY <1>1, ReceiverTypes, Types
  <2>2. SUFFICES ASSUME Over, rcv.failed, ~rcv.completed, ~dir.told, NEW f \in File
                 PROVE  /\ dir.final[f] # "data"
                        /\ dir.part[f] = "data" => plan.mode = "resume" /\ dir.record[f]
                        /\ plan.mode = "resume" /\ dir.part[f] # "none" => dir.record[f]
    BY DEF FolderAccounted
  <2>3. rcv.clean > f
    <3>1. rcv.clean > Len(plan.size) BY <2>2 DEF Over
    <3>2. QED BY <2>1, <3>1, Sizes
  <2>4. FileSound(f) BY <1>1 DEF Inv
  <2>5. plan.mode \in {"blob", "folder", "resume"} BY <2>1 DEF Plan
  <2>6. QED BY <2>2, <2>3, <2>4, <2>5 DEF FileSound
<1>2. QED BY <1>1, Invariance, PTL

-----------------------------------------------------------------------------
(***************************************************************************)
(* The stores behind resuming keep their types, whatever the pages do to   *)
(* each other's records, and with one page and databases that do not fail  *)
(* a partial that holds data is found again.                               *)
(*                                                                         *)
(* A set of records is read, kept by a page across awaits and written as a *)
(* whole, so the limit and the identifiers have to be kept in every such   *)
(* set.  A partial that is made and not yet remembered is in none of them. *)
(*                                                                         *)
(* A registry is replaced by clearing it and writing it again.  What names *)
(* a partial meanwhile is what the page is about to write: `InForce' is    *)
(* the registry as it will be, and `Orderly' says of it what KeptIsFound   *)
(* says of the registry at rest.                                           *)
(***************************************************************************)

\* The awaits of an operation between the reading of the registry and its writing.
Reading == {"read", "replace", "wipe", "rewrite", "write"}
\* Those at which the pruning of the page may still run.
Early == {"idle", "key", "store", "reset", "keyed", "giveup", "unstore", "read"}
\* Those of a receive that goes on with a key.
Receiving == {"open", "create", "moving", "done", "discard"}

\* A set of records that is, was or will be a registry.
Registered(S, n) ==
  /\ S \subseteq Record /\ IsFiniteSet(S) /\ Cardinality(S) <= MaxRecords /\ Registry(S)
  /\ \A r \in S : r.part <= n

Sets == {reg.recs, legacy} \cup {tab[t].old : t \in Tabs} \cup {tab[t].snap : t \in Tabs}

\* The page made a partial and has not remembered it.
MakingAt(y) == y.at \in Reading /\ y.for = "remember"
Making(t) == MakingAt(tab[t])

\* No registry, and nothing read from one, names that partial.
Unremembered(t) ==
  Making(t) => /\ tab[t].part \in 1 .. made
               /\ \A S \in Sets : \A r \in S : r.part # tab[t].part
               /\ \A u \in Tabs \ {t} : Making(u) => tab[u].part # tab[t].part

\* What the await of page t's operation says about its key and its pruning.
StageAt(t, y) ==
  /\ y.at \in Reading => y.for # "none"
  /\ y.at = "write" => y.for \notin {"find", "names"}
  /\ y.key.kind = "stored" => y.key.id # 0
  /\ y.at \in Receiving \/ (y.at \in Reading /\ y.for # "names") => y.key.kind = "stored"
  /\ y.at = "closed" => y.prune = "none"
  /\ t \notin world.tabs => y.at = "closed"
  /\ y.prune # "none" => y.at \in Early

Stage(t) == StageAt(t, tab[t])

Base ==
  /\ world \in Worlds
  /\ \A e \in Event : may[e] <= world.may[e]
  /\ \A S \in Sets : Registered(S, made)
  /\ \A p, q \in disk : p.part <= made /\ (p.part = q.part => p = q)
  /\ \A t \in Tabs : Unremembered(t) /\ Stage(t)

TypeInv == ResumeTypeOK /\ Base

\* What the invariant says of one page.
Grounds(t, x) ==
  /\ x \in Page /\ StageAt(t, x)
  /\ Registered(reg.recs, made) /\ Registered(x.old, made) /\ Registered(x.snap, made)
  /\ MakingAt(x) => /\ x.part \in 1 .. made
                    /\ \A r \in reg.recs \cup x.old \cup x.snap : r.part # x.part
  /\ disk \subseteq Partial /\ \A p, q \in disk : p.part <= made /\ (p.part = q.part => p = q)

\* The files records are made for.
Known == world.want \cup {r.file : r \in world.recs \cup world.legacy}

\* The records that will be in the registry when a replacement under way is through.
InForce(x) ==
  IF x.prune \in {"clear", "write"} THEN x.old
  ELSE IF x.at \in {"replace", "rewrite"} THEN x.snap ELSE reg.recs

\* The record and the partial of the file that is received.
Own(x, S) == {r \in S : r.key = x.key.id /\ r.file = x.file}
PartOf(x) == {p \in disk : p.part = x.part}

\* Nobody has to find this partial, or one of these records names it.
Lost(p) == p.part <= horizon \/ p.part \in left
Named(p, S) == \E r \in S : r.part = p.part /\ r.file = p.file

\* Nothing failed; records of older versions are read before there is anything else.
Undisturbed(x) ==
  /\ ~reg.broken /\ may["storage"] = 0
  /\ x.prune # "wipe" /\ x.at \notin {"wipe", "unstore", "giveup"}
  /\ legacy # {} => x.at = "closed"
  /\ (legacy # {} \/ (x.prune = "read" /\ x.old # {})) /\ reg.recs = {} => disk = {}

\* The page uses the stored key, and so do all records.
Keying(x) ==
  /\ \A r \in reg.recs \cup legacy \cup InForce(x) : r.key = keyDb /\ r.file \in Known
  /\ x.prune # "none" => \A r \in x.old : r.key = keyDb /\ r.file \in Known
  /\ x.key = NoKey \/ (x.key.kind = "stored" /\ x.key.id = keyDb)
  /\ x.at = "store" => keyDb = 0
  /\ x.at = "reset" => reg.recs = {} /\ legacy = {} /\ (x.prune # "none" => x.old = {})
  /\ x.at = "unkey" => reg.recs = {} /\ x.key = NoKey

\* A partial with data is named, unless it is being given up.
Reachable(x) ==
  \A p \in disk : p.data => Lost(p) \/ Named(p, InForce(x)) \/ (x.at = "discard" /\ p.part = x.part)

\* What a record names is a partial of its file.
Agree(x) == \A r \in InForce(x), p \in disk : r.part = p.part => r.file = p.file

\* What the record and the partial of the received file are at each await.
OwnFile(x) ==
  /\ x.at \in {"key", "store", "reset", "keyed"} \cup Receiving \/ (x.at \in Reading /\ x.for # "names")
       => x.file \in world.want
  /\ x.at \in {"open", "moving"} => \E r \in Own(x, InForce(x)) : r.part = x.part
  /\ x.at \in {"create", "done", "discard"} \/ MakingAt(x) => Own(x, InForce(x)) = {}
  /\ MakingAt(x) => \A p \in disk : p.part = x.part => p.file = x.file
  /\ x.at = "done" \/ (x.at \in Reading /\ x.for \in {"gone", "publish", "again"}) => PartOf(x) = {}
  /\ x.at \in Reading /\ x.for \in {"gone", "publish", "again", "mismatch"} =>
       \A r \in Own(x, InForce(x)) : r.part = x.part
  /\ x.at \in {"write", "pick"} => reg.recs = x.snap
  /\ x.at = "erase" => \A p \in disk : p.data => Lost(p)
  /\ x.at = "read" /\ x.prune # "none" => x.for \in {"find", "names"}

\* Where the page may be closed, a registry is never replaced and no partial given up.
Closable(x) ==
  world.may["close"] > 0 =>
    /\ horizon = 0 /\ legacy = {} /\ x.old = {}
    /\ x.prune \in {"none", "read"} /\ x.at \notin {"replace", "rewrite"}
    /\ \A r \in reg.recs : ~r.extra /\ r.part # 0
    /\ x.at \in Reading => x.for # "mismatch"
    /\ x.at = "discard" => PartOf(x) = {}

Orderly(x) == Undisturbed(x) /\ Keying(x) /\ Reachable(x) /\ Agree(x) /\ OwnFile(x) /\ Closable(x)

CalmInv == Calm => \A t \in world.tabs : Orderly(tab[t])
-----------------------------------------------------------------------------
(* Sets of records *)

\* The bounds are numbers.
LEMMA Numbers == MaxRecords \in Nat /\ MaxRecords # 0 /\ MaxKey \in Nat /\ MaxPart \in Nat /\ Files # {}
  BY WorldAssumption

\* The empty registry.
LEMMA EmptyRegistered == ResumeTypeOK => Registered({}, made)
<1>1. Cardinality({}) = 0 /\ IsFiniteSet({})  BY FS_EmptySet
<1>2. QED BY <1>1, Numbers DEF Registered, Registry

\* A smaller set of records.
LEMMA SubsetRegistered ==
  ASSUME NEW S, NEW T, T \subseteq S, Registered(S, made)
  PROVE  Registered(T, made)
<1>1. IsFiniteSet(T) /\ Cardinality(T) <= Cardinality(S)  BY FS_Subset DEF Registered
<1>2. Cardinality(T) \in Nat /\ Cardinality(S) \in Nat  BY <1>1, FS_CardinalityType DEF Registered
<1>3. Cardinality(T) <= MaxRecords  BY <1>1, <1>2, Numbers DEF Registered
<1>4. QED BY <1>1, <1>3 DEF Registered, Registry

\* What sanitizeBrowserResumeRegistry keeps.
LEMMA SanitizedMembers ==
  ASSUME NEW S, S \subseteq Record
  PROVE  /\ \A r \in Sanitized(S) :
              /\ r \in Record /\ r.part # 0 /\ Fresh(r) /\ ~r.extra
              /\ \E q \in S : r.key = q.key /\ r.file = q.file /\ r.part = q.part
         /\ \A q \in S : q.part # 0 /\ Fresh(q) =>
              \E r \in Sanitized(S) : r.key = q.key /\ r.file = q.file /\ r.part = q.part
<1> DEFINE clean(r) == [r EXCEPT !.extra = FALSE]
<1>1. \A q \in Record : /\ clean(q) \in Record /\ ~clean(q).extra
                       /\ clean(q).key = q.key /\ clean(q).file = q.file /\ clean(q).part = q.part
  BY DEF Record
<1>2. Sanitized(S) = {clean(q) : q \in {u \in S : u.part # 0 /\ Fresh(u)}}  BY DEF Sanitized
<1>3. \A q \in S : q \in Record  OBVIOUS
<1> HIDE DEF clean
<1>4. QED BY <1>1, <1>2, <1>3 DEF Fresh

\* The scrubbed registry is one.
LEMMA SanitizedRegistered ==
  ASSUME NEW S, Registered(S, made)
  PROVE  Registered(Sanitized(S), made)
<1> DEFINE T == {s \in S : s.part # 0 /\ Fresh(s)}
           clean(r) == [r EXCEPT !.extra = FALSE]
<1>1. Registered(T, made)  BY SubsetRegistered
<1>2. Sanitized(S) = {clean(r) : r \in T}  BY DEF Sanitized
<1>3. IsFiniteSet({clean(r) : r \in T}) /\ Cardinality({clean(r) : r \in T}) <= Cardinality(T)
  <2>1. IsFiniteSet(T)  BY <1>1 DEF Registered
  <2> DEFINE f == [r \in T |-> clean(r)]
             U == {clean(r) : r \in T}
  <2>2. f \in Surjection(T, U)  BY DEF Surjection
  <2>3. QED BY <2>1, <2>2, FS_Surjection
<1>4. Cardinality(Sanitized(S)) \in Nat /\ Cardinality(T) \in Nat  BY <1>1, <1>2, <1>3, FS_CardinalityType DEF Registered
<1>5. Cardinality(Sanitized(S)) <= MaxRecords  BY <1>1, <1>2, <1>3, <1>4, Numbers DEF Registered
<1>6. Sanitized(S) \subseteq Record /\ \A r \in Sanitized(S) : r.part <= made
  BY SanitizedMembers DEF Registered
<1>7. Registry(Sanitized(S))
  <2> SUFFICES ASSUME NEW q \in T, NEW u \in T
               PROVE  \/ clean(q) = clean(u)
                      \/ /\ <<clean(q).key, clean(q).file>> # <<clean(u).key, clean(u).file>>
                         /\ clean(q).part = 0 \/ clean(q).part # clean(u).part
    BY <1>2 DEF Registry
  <2>1. q \in Record /\ u \in Record  BY DEF Registered
  <2>2. clean(q).key = q.key /\ clean(q).file = q.file /\ clean(q).part = q.part  BY <2>1 DEF Record
  <2>3. clean(u).key = u.key /\ clean(u).file = u.file /\ clean(u).part = u.part  BY <2>1 DEF Record
  <2>4. q = u \/ (<<q.key, q.file>> # <<u.key, u.file>> /\ (q.part = 0 \/ q.part # u.part))
    BY <1>1 DEF Registered, Registry
  <2>5. QED BY <2>2, <2>3, <2>4
<1>8. QED BY <1>2, <1>3, <1>5, <1>6, <1>7 DEF Registered

\* The newest MaxRecords of a set whose records are of different age are not more than that.
LEMMA NewestBounded ==
  ASSUME NEW all, IsFiniteSet(all), \A r \in all : r.part \in Nat,
         \A r, s \in all : r.part = s.part => r = s
  PROVE  Cardinality({s \in all : Cardinality({u \in all : u.part > s.part}) < MaxRecords}) <= MaxRecords
<1> DEFINE newer(s) == {u \in all : u.part > s.part}
           T == {s \in all : Cardinality(newer(s)) < MaxRecords}
           rank == [s \in T |-> Cardinality(newer(s)) + 1]
<1>1. \A s \in all : IsFiniteSet(newer(s)) /\ Cardinality(newer(s)) \in Nat
  <2> TAKE s \in all
  <2>1. IsFiniteSet(newer(s))  BY FS_Subset
  <2>2. QED BY <2>1, FS_CardinalityType
<1>2. rank \in [T -> 1 .. MaxRecords] /\ \A s \in T : s \in all /\ rank[s] = Cardinality(newer(s)) + 1
  <2> HIDE DEF newer
  <2>1. \A s \in T : s \in all /\ rank[s] = Cardinality(newer(s)) + 1  OBVIOUS
  <2>2. \A s \in T : Cardinality(newer(s)) \in Nat /\ Cardinality(newer(s)) < MaxRecords  BY <1>1
  <2>3. \A s \in T : Cardinality(newer(s)) + 1 \in 1 .. MaxRecords
    <3> TAKE s \in T
    <3>1. PICK n : n = Cardinality(newer(s))  OBVIOUS
    <3>2. n \in Nat /\ n < MaxRecords  BY <2>2, <3>1
    <3>3. n + 1 \in 1 .. MaxRecords  BY <3>2, Numbers
    <3>4. QED BY <3>1, <3>3
  <2>4. QED BY <2>3, <2>1
<1>3. ASSUME NEW s \in T, NEW u \in T, s.part < u.part  PROVE rank[s] # rank[u]
  <2>1. u \in newer(s) /\ u \notin newer(u)  BY <1>3
  <2>2. newer(u) \subseteq newer(s)
    <3> SUFFICES ASSUME NEW v \in newer(u) PROVE v.part > s.part  OBVIOUS
    <3>1. v.part \in Nat /\ u.part \in Nat /\ s.part \in Nat /\ v.part > u.part  OBVIOUS
    <3>2. QED BY <1>3, <3>1
  <2>3. Cardinality(newer(u)) < Cardinality(newer(s))
    <3> DEFINE A == newer(s)
               B == newer(u)
    <3>1. IsFiniteSet(A) /\ B \subseteq A /\ B # A  BY <1>1, <2>1, <2>2
    <3> HIDE DEF A, B
    <3>2. Cardinality(B) < Cardinality(A)
      <4>1. Cardinality(B) <= Cardinality(A) /\ (Cardinality(B) = Cardinality(A) => B = A) /\ IsFiniteSet(B)
        BY <3>1, FS_Subset
      <4>2. Cardinality(B) \in Nat /\ Cardinality(A) \in Nat  BY <3>1, <4>1, FS_CardinalityType
      <4>3. QED BY <3>1, <4>1, <4>2
    <3>3. QED BY <3>2 DEF A, B
  <2>4. rank[s] = Cardinality(newer(s)) + 1 /\ rank[u] = Cardinality(newer(u)) + 1 /\ s \in all /\ u \in all
    BY <1>2
  <2> HIDE DEF rank, newer, T
  <2>5. QED BY <1>1, <2>3, <2>4
<1>4. \A s, u \in T : rank[s] = rank[u] => s = u
  <2> SUFFICES ASSUME NEW s \in T, NEW u \in T, rank[s] = rank[u], s # u PROVE FALSE  OBVIOUS
  <2> HIDE DEF rank, newer
  <2>1. s \in all /\ u \in all  OBVIOUS
  <2>2. s.part \in Nat /\ u.part \in Nat /\ s.part # u.part  BY <2>1
  <2>3. s.part < u.part \/ u.part < s.part  BY <2>2
  <2>4. QED BY <1>3, <2>3
<1>5. rank \in Injection(T, 1 .. MaxRecords)
  <2> HIDE DEF rank, T
  <2> QED BY <1>2, <1>4 DEF Injection, IsInjective
<1>6. IsFiniteSet(1 .. MaxRecords) /\ Cardinality(1 .. MaxRecords) = MaxRecords
  <2>1. 1 \in Int /\ MaxRecords \in Int /\ MaxRecords - 1 + 1 = MaxRecords /\ ~(1 > MaxRecords)  BY Numbers
  <2>2. QED BY <2>1, FS_Interval
<1>7. QED
  <2> HIDE DEF rank, T
  <2>1. Cardinality(T) <= Cardinality(1 .. MaxRecords)  BY <1>5, <1>6, FS_Injection
  <2>2. QED BY <1>6, <2>1 DEF T

\* What rememberBrowserResumePartial writes.
LEMMA RememberedRegistered ==
  ASSUME NEW S, Registered(S, made), NEW r \in Record, r.part <= made, made \in Nat, horizon \in Nat,
         \A s \in S : s.part # r.part
  PROVE  Registered(Remembered(S, r), made) /\ \A s \in Remembered(S, r) : s \in S \/ s = r
<1> DEFINE T == {s \in S : <<s.key, s.file>> # <<r.key, r.file>> /\ Fresh(s)}
           all == T \cup {r}
           R == {s \in all : Cardinality({u \in all : u.part > s.part}) < MaxRecords}
<1>1. Remembered(S, r) = R  BY DEF Remembered
<1>2. Registered(T, made)  BY SubsetRegistered
<1>3. IsFiniteSet(all)  BY <1>2, FS_AddElement DEF Registered
<1>4. \A s \in all : s \in Record /\ s.part \in Nat /\ s.part <= made  BY Numbers DEF Registered, Record
<1>5. \A s \in T : s.part # 0
  <2> SUFFICES ASSUME NEW s \in T PROVE s.part # 0  OBVIOUS
  <2>1. s.part > horizon /\ s.part \in Nat  BY <1>4 DEF Fresh
  <2>2. QED BY <2>1
<1>6. \A s, u \in all : s = u \/ (<<s.key, s.file>> # <<u.key, u.file>> /\ s.part # u.part)
  <2> SUFFICES ASSUME NEW s \in all, NEW u \in all, s # u
               PROVE  <<s.key, s.file>> # <<u.key, u.file>> /\ s.part # u.part
    OBVIOUS
  <2>1. CASE s \in T /\ u \in T  BY <1>2, <1>5, <2>1 DEF Registered, Registry
  <2>2. CASE s = r /\ u \in T  BY <2>2
  <2>3. CASE s \in T /\ u = r  BY <2>3
  <2>4. QED BY <2>1, <2>2, <2>3
<1> HIDE DEF T
<1>7. Cardinality(R) <= MaxRecords
  <2> HIDE DEF all
  <2> QED BY <1>3, <1>4, <1>6, NewestBounded
<1>8. IsFiniteSet(R)
  <2> HIDE DEF all
  <2>1. R \in SUBSET all  OBVIOUS
  <2> HIDE DEF R
  <2>2. QED BY <1>3, <2>1, FS_Subset
<1>9. R \subseteq all  OBVIOUS
<1>10. Registry(R)
  <2> HIDE DEF R, all
  <2> QED BY <1>6, <1>9 DEF Registry
<1>11. Registered(R, made)
  <2> HIDE DEF R, all
  <2> QED BY <1>4, <1>7, <1>8, <1>9, <1>10 DEF Registered
<1>12. QED BY <1>1, <1>9, <1>11 DEF T

\* What forgetBrowserResumePartial writes.
LEMMA ForgottenRegistered ==
  ASSUME NEW S, Registered(S, made), NEW k, NEW f
  PROVE  Registered(Forgotten(S, k, f), made) /\ Forgotten(S, k, f) \subseteq S
  BY SubsetRegistered DEF Forgotten

-----------------------------------------------------------------------------
(* The pages *)

\* Where an operation goes when it has read the registry.
LEMMA FoundShape ==
  ASSUME NEW t \in Tabs, tab[t] \in Page, NEW S, S \subseteq Record
  PROVE  LET y == Found(t, S) IN
         /\ y \in Page
         /\ y.prune = tab[t].prune /\ y.old = tab[t].old /\ y.for = tab[t].for
         /\ y.file = tab[t].file /\ y.key = tab[t].key
         /\ y.snap = S \/ y.snap = {}
         /\ \/ /\ tab[t].for = "find" /\ y.at = "open"
               /\ \E r \in Own(tab[t], S) : r.part = y.part
            \/ tab[t].for = "find" /\ y.at = "create" /\ Own(tab[t], S) = {}
            \/ tab[t].for = "names" /\ y.at = "pick" /\ y.snap = S
            \/ tab[t].for \notin {"find", "names"} /\ y.at = "write" /\ y.snap = S /\ y.part = tab[t].part
<1>1. CASE tab[t].for = "find" /\ Own(tab[t], S) # {}
  <2>1. PICK r : r \in Own(tab[t], S) /\ r = CHOOSE q \in Own(tab[t], S) : TRUE  BY <1>1
  <2>2. r \in S /\ r.part \in 0 .. MaxPart  BY <2>1 DEF Own, Record
  <2>3. Found(t, S) = [tab[t] EXCEPT !.at = "open", !.snap = S, !.part = r.part]
    <3>1. Own(tab[t], S) = {q \in S : q.key = tab[t].key.id /\ q.file = tab[t].file}  BY DEF Own
    <3>2. QED BY <1>1, <2>1, <3>1 DEF Found
  <2>4. QED BY <1>1, <2>1, <2>2, <2>3 DEF Page
<1>2. CASE tab[t].for = "find" /\ Own(tab[t], S) = {}
  <2>1. Found(t, S) = [tab[t] EXCEPT !.at = "create", !.snap = {}]  BY <1>2 DEF Found, Own
  <2>2. QED BY <1>2, <2>1 DEF Page
<1>3. CASE tab[t].for = "names"
  <2>1. Found(t, S) = [tab[t] EXCEPT !.at = "pick", !.snap = S]  BY <1>3 DEF Found
  <2>2. QED BY <1>3, <2>1 DEF Page
<1>4. CASE tab[t].for \notin {"find", "names"}
  <2>1. Found(t, S) = [tab[t] EXCEPT !.at = "write", !.snap = S]  BY <1>4 DEF Found
  <2>2. QED BY <1>4, <2>1 DEF Page
<1>5. QED BY <1>1, <1>2, <1>3, <1>4

\* Where the records of a set S written or kept by page t come from: from another such
\* set, or S is the one that remembers the page's partial.
Comes(t, y, S) ==
  /\ Registered(S, made')
  /\ \A r \in S : \/ \E U \in Sets : \E q \in U : q.part = r.part
                  \/ Making(t) /\ ~MakingAt(y) /\ r.part = tab[t].part

\* What a step of page t has to show about the sets of records and the pages.
LEMMA Moves ==
  ASSUME TypeInv, NEW t \in Tabs, NEW y \in Page, tab' = [tab EXCEPT ![t] = y],
         made' \in 0 .. MaxPart, made' >= made, world' = world,
         Comes(t, y, reg'.recs), Comes(t, y, legacy'), Comes(t, y, y.old), Comes(t, y, y.snap),
         StageAt(t, y),
         MakingAt(y) => \/ Making(t) /\ y.part = tab[t].part
                        \/ y.part = made + 1 /\ made' = made + 1
  PROVE  /\ tab' \in [Tabs -> Page]
         /\ \A S \in Sets' : Registered(S, made')
         /\ \A u \in Tabs : Unremembered(u)' /\ Stage(u)'
         /\ tab'[t] = y /\ \A u \in Tabs \ {t} : tab'[u] = tab[u]
<1>1. tab \in [Tabs -> Page] /\ made \in Nat /\ made' \in Nat /\ MaxPart \in Nat
  BY Numbers DEF TypeInv, ResumeTypeOK
<1>2. tab'[t] = y /\ tab' \in [Tabs -> Page] /\ \A u \in Tabs \ {t} : tab'[u] = tab[u]  BY <1>1
<1>3. \A S \in Sets : Registered(S, made')
  <2> SUFFICES ASSUME NEW S \in Sets PROVE Registered(S, made')  OBVIOUS
  <2>1. PICK U : U = S  OBVIOUS
  <2>2. Registered(U, made)  BY <2>1 DEF TypeInv, Base
  <2>3. \A r \in U : r.part \in Nat  BY <2>2, Numbers DEF Registered, Record
  <2>4. \A r \in U : r.part <= made'  BY <1>1, <2>2, <2>3 DEF Registered
  <2>5. Registered(U, made')  BY <2>2, <2>4 DEF Registered
  <2>6. QED BY <2>1, <2>5
<1>4. ASSUME NEW S \in Sets'  PROVE S \in Sets \/ Comes(t, y, S)
  <2>1. S = reg'.recs \/ S = legacy' \/ (\E u \in Tabs : S = tab'[u].old) \/ (\E u \in Tabs : S = tab'[u].snap)
    BY DEF Sets
  <2>2. \A u \in Tabs \ {t} : tab'[u].old \in Sets /\ tab'[u].snap \in Sets  BY <1>2 DEF Sets
  <2>3. QED BY <1>2, <2>1, <2>2
<1>5. \A S \in Sets' : Registered(S, made')
  BY <1>3, <1>4 DEF Comes
<1>6. \A S \in Sets' : \A r \in S : \/ \E U \in Sets : \E q \in U : q.part = r.part
                                    \/ Making(t) /\ ~MakingAt(y) /\ r.part = tab[t].part
  BY <1>4 DEF Comes
<1>7. \A U \in Sets : \A q \in U : q.part \in Nat /\ q.part <= made
  BY <1>1 DEF TypeInv, Base, Registered, Record
<1>8. \A u \in Tabs \ {t} : Making(u)' <=> Making(u)  BY <1>2 DEF Making
<1>9. \A u \in Tabs : Unremembered(u)  BY DEF TypeInv, Base
<1>10. ASSUME NEW u \in Tabs \ {t}  PROVE Unremembered(u)'
  <2> SUFFICES ASSUME Making(u)
               PROVE  /\ tab[u].part \in 1 .. made'
                      /\ \A S \in Sets' : \A r \in S : r.part # tab[u].part
                      /\ \A v \in Tabs \ {u} : Making(v)' => tab'[v].part # tab[u].part
    BY <1>2, <1>8 DEF Unremembered
  <2>1. /\ tab[u].part \in 1 .. made
        /\ \A S \in Sets : \A r \in S : r.part # tab[u].part
        /\ \A v \in Tabs \ {u} : Making(v) => tab[v].part # tab[u].part
    BY <1>9 DEF Unremembered
  <2>2. tab[u].part \in 1 .. made' /\ tab[u].part # made + 1  BY <1>1, <2>1
  <2>3. \A S \in Sets' : \A r \in S : r.part # tab[u].part  BY <1>6, <2>1
  <2>4. \A v \in Tabs \ {u} : Making(v)' => tab'[v].part # tab[u].part
    <3>1. ASSUME NEW v \in Tabs \ {u, t}, Making(v)' PROVE tab'[v].part # tab[u].part  BY <1>2, <1>8, <2>1, <3>1
    <3>2. ASSUME Making(t)' PROVE tab'[t].part # tab[u].part  BY <1>2, <2>1, <2>2, <3>2 DEF Making
    <3>3. QED BY <3>1, <3>2
  <2>5. QED BY <2>2, <2>3, <2>4
<1>11. Unremembered(t)'
  <2> SUFFICES ASSUME MakingAt(y)
               PROVE  /\ y.part \in 1 .. made'
                      /\ \A S \in Sets' : \A r \in S : r.part # y.part
                      /\ \A v \in Tabs \ {t} : Making(v)' => tab'[v].part # y.part
    BY <1>2 DEF Unremembered, Making
  <2>1. CASE Making(t) /\ y.part = tab[t].part
    <3>1. /\ tab[t].part \in 1 .. made
          /\ \A S \in Sets : \A r \in S : r.part # tab[t].part
          /\ \A v \in Tabs \ {t} : Making(v) => tab[v].part # tab[t].part
      BY <1>9, <2>1 DEF Unremembered
    <3>2. y.part \in 1 .. made'  BY <1>1, <2>1, <3>1
    <3>3. \A S \in Sets' : \A r \in S : r.part # y.part  BY <1>6, <2>1, <3>1
    <3>4. \A v \in Tabs \ {t} : Making(v)' => tab'[v].part # y.part  BY <1>2, <1>8, <2>1, <3>1
    <3>5. QED BY <3>2, <3>3, <3>4
  <2>2. CASE y.part = made + 1 /\ made' = made + 1
    <3>1. y.part \in 1 .. made'  BY <1>1, <2>2
    <3>2. \A U \in Sets : \A q \in U : q.part # y.part  BY <1>1, <1>7, <2>2
    <3>3. \A S \in Sets' : \A r \in S : r.part # y.part  BY <1>6, <3>2
    <3>4. \A v \in Tabs \ {t} : Making(v) => tab[v].part # y.part  BY <1>1, <1>9, <2>2 DEF Unremembered
    <3>5. \A v \in Tabs \ {t} : Making(v)' => tab'[v].part # y.part  BY <1>2, <1>8, <3>4
    <3>6. QED BY <3>1, <3>3, <3>5
  <2>3. QED BY <2>1, <2>2
<1>12. \A u \in Tabs : Stage(u)'
  <2>1. ASSUME NEW u \in Tabs \ {t} PROVE Stage(u)'  BY <1>2 DEF Stage, StageAt, TypeInv, Base
  <2>2. Stage(t)'  BY <1>2 DEF Stage, StageAt
  <2>3. QED BY <2>1, <2>2
<1>13. QED BY <1>2, <1>5, <1>10, <1>11, <1>12

\* A set that was a registry still is one.
LEMMA ComesKept ==
  ASSUME TypeInv, made' \in 0 .. MaxPart, made' >= made, NEW t \in Tabs, NEW y, NEW S \in Sets
  PROVE  Comes(t, y, S)
<1>1. Registered(S, made) /\ made \in Nat /\ made' \in Nat  BY Numbers DEF TypeInv, ResumeTypeOK, Base
<1>2. \A r \in S : r.part \in Nat /\ r.part <= made  BY <1>1, Numbers DEF Registered, Record
<1>3. \A r \in S : r.part <= made'  BY <1>1, <1>2
<1>4. QED BY <1>1, <1>3 DEF Comes, Registered

\* So is a part of one.
LEMMA ComesSubset ==
  ASSUME TypeInv, made' \in 0 .. MaxPart, made' >= made, NEW t \in Tabs, NEW y, NEW U \in Sets,
         NEW S, S \subseteq U
  PROVE  Comes(t, y, S)
<1>1. Comes(t, y, U)  BY ComesKept
<1>2. PICK n : n = made'  OBVIOUS
<1>3. Registered(S, made') 
  <2>1. Registered(U, n)  BY <1>1, <1>2 DEF Comes
  <2>2. IsFiniteSet(S) /\ Cardinality(S) <= Cardinality(U)  BY <2>1, FS_Subset DEF Registered
  <2>3. Cardinality(S) \in Nat /\ Cardinality(U) \in Nat  BY <2>1, <2>2, FS_CardinalityType DEF Registered
  <2>4. Cardinality(S) <= MaxRecords  BY <2>1, <2>2, <2>3, Numbers DEF Registered
  <2>5. QED BY <1>2, <2>1, <2>2, <2>4 DEF Registered, Registry
<1>4. QED BY <1>3 DEF Comes

\* So is the empty one.
LEMMA ComesEmpty ==
  ASSUME TypeInv, made' \in 0 .. MaxPart, made' >= made, NEW t \in Tabs, NEW y
  PROVE  Comes(t, y, {})
  BY ComesSubset DEF Sets

\* So is a scrubbed one.
LEMMA ComesSanitized ==
  ASSUME TypeInv, made' = made, NEW t \in Tabs, NEW y, NEW S \in Sets
  PROVE  Comes(t, y, Sanitized(S))
<1>1. Registered(S, made)  BY DEF TypeInv, Base
<1>2. Registered(Sanitized(S), made)  BY <1>1, SanitizedRegistered
<1>3. \A r \in Sanitized(S) : \E q \in S : r.part = q.part  BY <1>1, SanitizedMembers DEF Registered
<1>4. QED BY <1>2, <1>3 DEF Comes

\* What is left of the permitted events.
LEMMA MayStep ==
  ASSUME TypeInv, world' = world, UNCHANGED may \/ \E e \in Event : May(e)
  PROVE  may' \in [Event -> Nat] /\ \A e \in Event : may'[e] <= world'.may[e]
<1>1. may \in [Event -> Nat] /\ \A e \in Event : may[e] <= world.may[e]  BY DEF TypeInv, ResumeTypeOK, Base
<1>2. world.may \in [Event -> Nat]  BY WorldAssumption DEF TypeInv, Base, World
<1>3. CASE UNCHANGED may  BY <1>1, <1>3
<1>4. ASSUME NEW e \in Event, May(e)
      PROVE  may' \in [Event -> Nat] /\ \A d \in Event : may'[d] <= world.may[d]
  <2>1. may[e] \in Nat /\ may[e] > 0 /\ may' = [may EXCEPT ![e] = may[e] - 1]  BY <1>1, <1>4 DEF May
  <2>2. may[e] - 1 \in Nat /\ may[e] - 1 <= may[e]  BY <2>1
  <2>3. may' \in [Event -> Nat] /\ may'[e] = may[e] - 1 /\ \A d \in Event \ {e} : may'[d] = may[d]  BY <1>1, <2>1, <2>2
  <2>4. may'[e] <= world.may[e]  BY <1>1, <1>2, <2>1, <2>3
  <2>5. QED BY <1>1, <2>3, <2>4
<1>5. QED BY <1>3, <1>4

\* A step of page t that leaves it as y, with the stores as they are afterwards.
Turn(t, y) ==
  /\ y \in Page /\ tab' = [tab EXCEPT ![t] = y] /\ StageAt(t, y)
  /\ MakingAt(y) => \/ Making(t) /\ y.part = tab[t].part
                    \/ y.part = made + 1 /\ made' = made + 1
  /\ made' \in 0 .. MaxPart /\ made' >= made /\ world' = world
  /\ UNCHANGED may \/ \E e \in Event : May(e)
  /\ keyDb' \in 0 .. MaxKey /\ keys' \in 0 .. MaxKey
  /\ reg' \in [broken : BOOLEAN, recs : SUBSET Record]
  /\ Comes(t, y, reg'.recs) /\ Comes(t, y, legacy') /\ Comes(t, y, y.old) /\ Comes(t, y, y.snap)
  /\ disk' \subseteq Partial
  /\ \A p, q \in disk' : p.part <= made' /\ (p.part = q.part => p = q)
  /\ horizon' = horizon /\ received' \subseteq Files /\ left' \subseteq 1 .. MaxPart

\* Such a step keeps the type invariant and leaves the other pages as they were.
LEMMA Turned ==
  ASSUME TypeInv, NEW t \in Tabs, NEW y, Turn(t, y)
  PROVE  TypeInv' /\ tab'[t] = y /\ \A u \in Tabs \ {t} : tab'[u] = tab[u]
<1>1. /\ tab' \in [Tabs -> Page]
      /\ \A S \in Sets' : Registered(S, made')
      /\ \A u \in Tabs : Unremembered(u)' /\ Stage(u)'
      /\ tab'[t] = y /\ \A u \in Tabs \ {t} : tab'[u] = tab[u]
  BY Moves DEF Turn
<1>2. may' \in [Event -> Nat] /\ \A e \in Event : may'[e] <= world'.may[e]  BY MayStep DEF Turn
<1>3. Registered(reg'.recs, made') /\ Registered(legacy', made')  BY DEF Turn, Comes
<1>4. ResumeTypeOK'  BY <1>1, <1>2, <1>3 DEF Turn, ResumeTypeOK, TypeInv, Registered
<1>5. world' \in Worlds  BY DEF Turn, TypeInv, Base
<1>6. Base'  BY <1>1, <1>2, <1>5 DEF Turn, Base
<1>7. QED BY <1>1, <1>4, <1>6 DEF TypeInv

\* What the type invariant says of one page.
LEMMA PageFacts ==
  ASSUME TypeInv, NEW t \in Tabs
  PROVE  /\ tab \in [Tabs -> Page] /\ tab[t] \in Page /\ StageAt(t, tab[t])
         /\ {reg.recs, legacy, tab[t].old, tab[t].snap} \subseteq Sets
         /\ reg.recs \subseteq Record /\ legacy \subseteq Record
         /\ tab[t].old \subseteq Record /\ tab[t].snap \subseteq Record
         /\ made \in Nat /\ made <= MaxPart /\ horizon \in Nat /\ keys \in Nat /\ keyDb \in Nat
  BY Numbers DEF TypeInv, ResumeTypeOK, Base, Stage, Sets, Page

\* A step that makes no partial: it leaves the page as y, and the registry is the old
\* one or written.
LEMMA StoreTurn ==
  ASSUME TypeInv, NEW t \in Tabs, NEW y \in Page, tab' = [tab EXCEPT ![t] = y], StageAt(t, y),
         MakingAt(y) => Making(t) /\ y.part = tab[t].part,
         UNCHANGED <<world, horizon, made, disk, left>>, received' \subseteq Files,
         UNCHANGED may \/ \E e \in Event : May(e),
         keyDb' \in 0 .. MaxKey, keys' \in 0 .. MaxKey,
         reg' = reg \/ (reg'.broken = FALSE /\ reg' = Holds(reg'.recs) /\ Comes(t, y, reg'.recs)),
         legacy' \in {legacy, {}}, Comes(t, y, y.old), Comes(t, y, y.snap)
  PROVE  Turn(t, y)
<1>1. made' \in 0 .. MaxPart /\ made' >= made /\ made \in Nat  BY Numbers DEF TypeInv, ResumeTypeOK
<1>2. Comes(t, y, legacy')
  <2>1. Comes(t, y, {})  BY <1>1, ComesEmpty
  <2>2. Comes(t, y, legacy)  BY <1>1, ComesKept DEF Sets
  <2>3. QED BY <2>1, <2>2
<1>3. Comes(t, y, reg'.recs)
  <2>1. Comes(t, y, reg.recs)  BY <1>1, ComesKept DEF Sets
  <2>2. QED BY <2>1
<1>4. reg' \in [broken : BOOLEAN, recs : SUBSET Record]
  <2>1. reg'.recs \subseteq Record  BY <1>3 DEF Comes, Registered
  <2>2. CASE reg' = reg  BY <2>2 DEF TypeInv, ResumeTypeOK
  <2>3. CASE reg' = Holds(reg'.recs)
    <3>1. PICK S : S = reg'.recs  OBVIOUS
    <3>2. reg' = [broken |-> FALSE, recs |-> S] /\ S \subseteq Record  BY <2>1, <2>3, <3>1 DEF Holds
    <3>3. QED BY <3>2
  <2>4. QED BY <2>2, <2>3
<1>5. /\ disk' \subseteq Partial /\ left' \subseteq 1 .. MaxPart
      /\ \A p, q \in disk' : p.part <= made' /\ (p.part = q.part => p = q)
  BY DEF TypeInv, ResumeTypeOK, Base
<1>6. QED BY <1>1, <1>2, <1>3, <1>4, <1>5 DEF Turn

\* Such a step that keeps what the page has read.
LEMMA PlainTurn ==
  ASSUME TypeInv, NEW t \in Tabs, NEW y \in Page, tab' = [tab EXCEPT ![t] = y], StageAt(t, y),
         MakingAt(y) => Making(t) /\ y.part = tab[t].part,
         UNCHANGED <<world, horizon, made, disk, left>>, received' \subseteq Files,
         UNCHANGED may \/ \E e \in Event : May(e),
         keyDb' \in 0 .. MaxKey, keys' \in 0 .. MaxKey,
         reg' = reg \/ reg' = Holds({}) \/ reg' = Holds(tab[t].old) \/ reg' = Holds(tab[t].snap),
         legacy' \in {legacy, {}}, y.old \in Sets \cup {{}}, y.snap \in Sets \cup {{}}
  PROVE  Turn(t, y)
<1>1. made' \in 0 .. MaxPart /\ made' >= made  BY Numbers DEF TypeInv, ResumeTypeOK
<1>2. \A S \in Sets \cup {{}} : Comes(t, y, S)  BY <1>1, ComesKept, ComesEmpty
<1>3. tab[t].old \in Sets /\ tab[t].snap \in Sets  BY PageFacts
<1>4. reg' = reg \/ (reg'.broken = FALSE /\ reg' = Holds(reg'.recs) /\ Comes(t, y, reg'.recs))
  BY <1>2, <1>3 DEF Holds
<1>5. QED BY <1>2, <1>4, StoreTurn

\* The stores are what they were, or a request failed.
LEMMA StorageMay ==
  ASSUME NEW e \in Event, May(e)
  PROVE  UNCHANGED may \/ \E d \in Event : May(d)
  OBVIOUS

\* A closed page.
LEMMA ClosedPage ==
  /\ Closed \in Page /\ Closed.prune = "none" /\ Closed.at = "closed" /\ Closed.for = "none"
  /\ Closed.old = {} /\ Closed.snap = {} /\ Closed.key = NoKey /\ Closed.part = 0
<1>1. PICK f : f \in Files /\ f = CHOOSE g \in Files : TRUE  BY Numbers
<1>2. Closed = [prune |-> "none", old |-> {}, at |-> "closed", for |-> "none", file |-> f, snap |-> {}, key |-> NoKey, part |-> 0]
  BY <1>1 DEF Closed
<1>3. NoKey \in [id : 0 .. MaxKey, kind : {"none", "stored", "page"}] /\ 0 \in 0 .. MaxPart  BY Numbers DEF NoKey
<1>4. QED BY <1>1, <1>2, <1>3 DEF Page

\* The page is loaded: the records older versions left come to it.
LEMMA LoadTurn ==
  ASSUME TypeInv, NEW t \in Tabs, Load(t)
  PROVE  \E y : Turn(t, y)
<1> DEFINE y == [Closed EXCEPT !.prune = "read", !.at = "idle", !.old = legacy]
<1>1. y \in Page /\ y.prune = "read" /\ y.at = "idle" /\ y.old = legacy /\ y.snap = {} /\ y.key = NoKey
  <2>1. legacy \subseteq Record  BY PageFacts
  <2>2. QED BY <2>1, ClosedPage DEF Page
<1>2. tab' = [tab EXCEPT ![t] = y]  BY DEF Load
<1> HIDE DEF y
<1>3. StageAt(t, y)  BY <1>1 DEF StageAt, Load, Reading, Receiving, Early, NoKey
<1>4. ~MakingAt(y)  BY <1>1 DEF MakingAt, Reading
<1>5. y.old \in Sets /\ legacy' = {}  BY <1>1, PageFacts DEF Load
<1>6. UNCHANGED <<world, horizon, made, disk, left, may, keyDb, keys, reg, received>>  BY DEF Load, env
<1>7. Turn(t, y)
  <2>1. received' \subseteq Files /\ keyDb' \in 0 .. MaxKey /\ keys' \in 0 .. MaxKey  BY <1>6 DEF TypeInv, ResumeTypeOK
  <2>2. QED BY <1>1, <1>2, <1>3, <1>4, <1>5, <1>6, <2>1, PlainTurn
<1>8. QED BY <1>7


\* The pruning reads the registry and keeps what it will write.
LEMMA PruneReadTurn ==
  ASSUME TypeInv, NEW t \in Tabs, PruneRead(t)
  PROVE  \E y : Turn(t, y)
<1> DEFINE value == IF reg.recs = {} THEN tab[t].old ELSE reg.recs
           y(next, S) == [tab[t] EXCEPT !.prune = next, !.old = S]
<1>1. value \in Sets /\ value \subseteq Record  BY PageFacts
<1>2. PICK next, S : /\ tab' = [tab EXCEPT ![t].prune = next, ![t].old = S]
                     /\ \/ next = "wipe" /\ S = {}
                        \/ next = "none" /\ S = {}
                        \/ next = "clear" /\ S = Sanitized(value)
                     /\ UNCHANGED may \/ May("storage")
  <2> DEFINE to(n, T) == tab' = [tab EXCEPT ![t].prune = n, ![t].old = T]
  <2>1. \/ to("wipe", {}) /\ (UNCHANGED may \/ May("storage"))
        \/ to("none", {}) /\ UNCHANGED may
        \/ to("clear", Sanitized(value)) /\ UNCHANGED may
    BY DEF PruneRead, Unless
  <2>2. QED BY <2>1
<1>3. UNCHANGED <<world, horizon, made, disk, left, keyDb, keys, reg, received, legacy>>  BY DEF PruneRead, env
<1>4. S \subseteq Record /\ Comes(t, y(next, S), S)
  <2>1. made' = made /\ made' \in 0 .. MaxPart /\ made' >= made  BY <1>3, PageFacts, Numbers
  <2>2. Comes(t, y(next, S), {}) /\ Comes(t, y(next, S), Sanitized(value))
    <3> HIDE DEF y, value
    <3> QED BY <1>1, <2>1, ComesEmpty, ComesSanitized
  <2>3. Comes(t, y(next, S), S)  BY <1>2, <2>2
  <2>4. QED BY <2>3 DEF Comes, Registered
<1>5. tab' = [tab EXCEPT ![t] = y(next, S)] /\ y(next, S) \in Page
  <2>1. next \in {"none", "clear", "wipe"} /\ S \subseteq Record  BY <1>2, <1>4
  <2>2. tab \in [Tabs -> Page] /\ tab[t] \in Page  BY PageFacts
  <2>3. tab' = [tab EXCEPT ![t].prune = next, ![t].old = S]  BY <1>2
  <2> HIDE DEF value
  <2>4. QED BY <2>1, <2>2, <2>3 DEF Page
<1>6. /\ y(next, S).prune = next /\ y(next, S).old = S /\ y(next, S).at = tab[t].at /\ y(next, S).for = tab[t].for
      /\ y(next, S).part = tab[t].part /\ y(next, S).snap = tab[t].snap /\ y(next, S).key = tab[t].key
  BY PageFacts DEF Page
<1> HIDE DEF y, value
<1>7. StageAt(t, y(next, S))  BY <1>2, <1>6, PageFacts DEF StageAt, PruneRead, Early
<1>8. MakingAt(y(next, S)) => Making(t) /\ y(next, S).part = tab[t].part  BY <1>6 DEF MakingAt, Making
<1>9. Comes(t, y(next, S), y(next, S).snap)
  <2>1. made' \in 0 .. MaxPart /\ made' >= made  BY <1>3, PageFacts, Numbers
  <2>2. QED BY <1>6, <2>1, ComesKept, PageFacts
<1>10. received' \subseteq Files /\ keyDb' \in 0 .. MaxKey /\ keys' \in 0 .. MaxKey  BY <1>3 DEF TypeInv, ResumeTypeOK
<1>11. UNCHANGED may \/ \E e \in Event : May(e)  BY <1>2 DEF Event
<1>12. Turn(t, y(next, S))
  BY <1>3, <1>4, <1>5, <1>6, <1>7, <1>8, <1>9, <1>10, <1>11, StoreTurn
<1>13. QED BY <1>12

\* A page that leaves its operation and what it has read alone.
LEMMA SameMaking ==
  ASSUME NEW t \in Tabs, NEW y, y.at = tab[t].at, y.for = tab[t].for, y.part = tab[t].part
  PROVE  MakingAt(y) => Making(t) /\ y.part = tab[t].part
  BY DEF MakingAt, Making

\* It clears the registry,
LEMMA PruneClearTurn ==
  ASSUME TypeInv, NEW t \in Tabs, PruneClear(t)
  PROVE  \E y : Turn(t, y)
<1> DEFINE next == IF tab[t].prune = "clear" /\ tab[t].old # {} THEN "write" ELSE "none"
           y == [tab[t] EXCEPT !.prune = next]
<1>1. tab' = [tab EXCEPT ![t] = y] /\ y \in Page  BY PageFacts DEF Page, PruneClear
<1>2. /\ y.prune = next /\ y.old = tab[t].old /\ y.at = tab[t].at /\ y.for = tab[t].for
      /\ y.part = tab[t].part /\ y.snap = tab[t].snap /\ y.key = tab[t].key
  BY PageFacts DEF Page
<1> HIDE DEF y
<1>3. StageAt(t, y)  BY <1>2, PageFacts DEF StageAt, PruneClear, Early
<1>4. UNCHANGED <<world, horizon, made, disk, left, keyDb, keys, received>> /\ legacy' = {}  BY DEF PruneClear, env
<1>5. (reg' = reg \/ reg' = Holds({})) /\ (UNCHANGED may \/ \E e \in Event : May(e))
  BY DEF PruneClear, Unless, Deleted, Event
<1>6. received' \subseteq Files /\ keyDb' \in 0 .. MaxKey /\ keys' \in 0 .. MaxKey  BY <1>4 DEF TypeInv, ResumeTypeOK
<1>7. y.old \in Sets /\ y.snap \in Sets  BY <1>2, PageFacts
<1>8. MakingAt(y) => Making(t) /\ y.part = tab[t].part  BY <1>2, SameMaking
<1>9. Turn(t, y)  BY <1>1, <1>3, <1>4, <1>5, <1>6, <1>7, <1>8, PlainTurn
<1>10. QED BY <1>9

\* and writes what it kept, which was a registry when it was read.
LEMMA PruneWriteTurn ==
  ASSUME TypeInv, NEW t \in Tabs, PruneWrite(t)
  PROVE  \E y : Turn(t, y)
<1> DEFINE y == [tab[t] EXCEPT !.prune = "none"]
<1>1. tab' = [tab EXCEPT ![t] = y] /\ y \in Page
  <2>1. tab \in [Tabs -> Page] /\ tab[t] \in Page  BY PageFacts
  <2>2. y \in Page  BY <2>1 DEF Page
  <2>3. tab' = [tab EXCEPT ![t] = y]  BY <2>1 DEF PruneWrite
  <2>4. QED BY <2>2, <2>3
<1>2. /\ y.prune = "none" /\ y.old = tab[t].old /\ y.at = tab[t].at /\ y.for = tab[t].for
      /\ y.part = tab[t].part /\ y.snap = tab[t].snap /\ y.key = tab[t].key
  BY PageFacts DEF Page
<1> HIDE DEF y
<1>3. StageAt(t, y)  BY <1>2, PageFacts DEF StageAt, PruneWrite
<1>4. UNCHANGED <<world, horizon, made, disk, left, keyDb, keys, received, legacy>>  BY DEF PruneWrite, env
<1>5. (reg' = reg \/ reg' = Holds(tab[t].old)) /\ (UNCHANGED may \/ \E e \in Event : May(e))
  BY DEF PruneWrite, Unless, Event
<1>6. received' \subseteq Files /\ keyDb' \in 0 .. MaxKey /\ keys' \in 0 .. MaxKey  BY <1>4 DEF TypeInv, ResumeTypeOK
<1>7. y.old \in Sets /\ y.snap \in Sets  BY <1>2, PageFacts
<1>8. MakingAt(y) => Making(t) /\ y.part = tab[t].part  BY <1>2, SameMaking
<1>9. Turn(t, y)  BY <1>1, <1>3, <1>4, <1>5, <1>6, <1>7, <1>8, PlainTurn
<1>10. QED BY <1>9

-----------------------------------------------------------------------------
(* Reading and writing the registry in an operation *)

\* The page has read S, a registry or nothing.
LEMMA FoundTurn ==
  ASSUME TypeInv, NEW t \in Tabs, NEW S \in Sets \cup {{}}, tab' = [tab EXCEPT ![t] = Found(t, S)],
         tab[t].at \in {"read", "replace", "wipe", "rewrite"}, tab[t].prune = "none",
         UNCHANGED <<world, horizon, made, disk, left>>, received' \subseteq Files,
         UNCHANGED may \/ \E e \in Event : May(e),
         keyDb' \in 0 .. MaxKey, keys' \in 0 .. MaxKey,
         reg' = reg \/ reg' = Holds({}) \/ reg' = Holds(tab[t].snap),
         legacy' \in {legacy, {}}
  PROVE  Turn(t, Found(t, S))
<1>1. S \subseteq Record  BY DEF TypeInv, Base, Registered
<1>2. PICK y : y = Found(t, S)  OBVIOUS
<1>3. /\ y \in Page
      /\ y.prune = tab[t].prune /\ y.old = tab[t].old /\ y.for = tab[t].for
      /\ y.file = tab[t].file /\ y.key = tab[t].key
      /\ y.snap = S \/ y.snap = {}
      /\ \/ tab[t].for = "find" /\ y.at = "open"
         \/ tab[t].for = "find" /\ y.at = "create"
         \/ tab[t].for = "names" /\ y.at = "pick"
         \/ tab[t].for \notin {"find", "names"} /\ y.at = "write" /\ y.part = tab[t].part
  BY <1>1, <1>2, FoundShape, PageFacts
<1>4. StageAt(t, y)  BY <1>3, PageFacts DEF StageAt, Reading, Receiving
<1>5. MakingAt(y) => Making(t) /\ y.part = tab[t].part  BY <1>3 DEF MakingAt, Making, Reading
<1>6. y.old \in Sets /\ y.snap \in Sets \cup {{}}  BY <1>3, PageFacts
<1>7. QED BY <1>2, <1>3, <1>4, <1>5, <1>6, PlainTurn

\* The operation reads the registry.
LEMMA ReadTurn ==
  ASSUME TypeInv, NEW t \in Tabs, Read(t)
  PROVE  \E y : Turn(t, y)
<1> DEFINE x == tab[t]
<1>1. UNCHANGED <<world, horizon, made, disk, left, keyDb, keys, received, legacy, reg>>  BY DEF Read, env
<1>2. received' \subseteq Files /\ keyDb' \in 0 .. MaxKey /\ keys' \in 0 .. MaxKey  BY <1>1 DEF TypeInv, ResumeTypeOK
<1>3. made' = made /\ made' \in 0 .. MaxPart /\ made' >= made  BY <1>1, PageFacts, Numbers
<1>4. x.at = "read" /\ x.prune = "none"  BY DEF Read, Ready
<1>5. CASE tab' = [tab EXCEPT ![t].at = "wipe", ![t].snap = {}] /\ (UNCHANGED may \/ May("storage"))
  <2> DEFINE y == [tab[t] EXCEPT !.at = "wipe", !.snap = {}]
  <2>1. tab' = [tab EXCEPT ![t] = y] /\ y \in Page
    <3>1. tab \in [Tabs -> Page] /\ tab[t] \in Page  BY PageFacts
    <3>2. y \in Page  BY <3>1 DEF Page
    <3>3. tab' = [tab EXCEPT ![t].at = "wipe", ![t].snap = {}]  BY <1>5
    <3>4. tab' = [tab EXCEPT ![t] = y]  BY <3>1, <3>3 DEF Page
    <3>5. QED BY <3>2, <3>4
  <2>2. /\ y.prune = x.prune /\ y.old = x.old /\ y.at = "wipe" /\ y.for = x.for
        /\ y.part = x.part /\ y.snap = {} /\ y.key = x.key
    BY PageFacts DEF Page
  <2> HIDE DEF y
  <2>3. StageAt(t, y)  BY <1>4, <2>2, PageFacts DEF StageAt, Reading, Receiving
  <2>4. MakingAt(y) => Making(t) /\ y.part = x.part  BY <1>4, <2>2 DEF MakingAt, Making, Reading
  <2>5. y.old \in Sets /\ y.snap \in Sets \cup {{}}  BY <2>2, PageFacts
  <2>6. UNCHANGED may \/ \E e \in Event : May(e)  BY <1>5 DEF Event
  <2>7. Turn(t, y)  BY <1>1, <1>2, <2>1, <2>3, <2>4, <2>5, <2>6, PlainTurn
  <2>8. QED BY <2>7
<1>6. CASE tab' = [tab EXCEPT ![t].at = "replace", ![t].snap = Sanitized(reg.recs)] /\ UNCHANGED may
  <2> DEFINE y == [tab[t] EXCEPT !.at = "replace", !.snap = Sanitized(reg.recs)]
  <2>1. Comes(t, y, Sanitized(reg.recs)) /\ Sanitized(reg.recs) \subseteq Record
    <3> HIDE DEF y
    <3>1. Comes(t, y, Sanitized(reg.recs))  BY <1>3, ComesSanitized, PageFacts
    <3>2. QED BY <3>1 DEF Comes, Registered
  <2>2. tab' = [tab EXCEPT ![t] = y] /\ y \in Page
    <3>1. PICK S : S = Sanitized(reg.recs)  OBVIOUS
    <3>2. tab' = [tab EXCEPT ![t].at = "replace", ![t].snap = S] /\ S \subseteq Record  BY <1>6, <2>1, <3>1
    <3>3. tab \in [Tabs -> Page] /\ tab[t] \in Page  BY PageFacts
    <3>4. QED BY <3>1, <3>2, <3>3 DEF Page
  <2>3. /\ y.prune = x.prune /\ y.old = x.old /\ y.at = "replace" /\ y.for = x.for
        /\ y.part = x.part /\ y.snap = Sanitized(reg.recs) /\ y.key = x.key
    BY PageFacts DEF Page
  <2> HIDE DEF y
  <2>4. StageAt(t, y)  BY <1>4, <2>3, PageFacts DEF StageAt, Reading, Receiving
  <2>5. MakingAt(y) => Making(t) /\ y.part = x.part  BY <1>4, <2>3 DEF MakingAt, Making, Reading
  <2>6. Comes(t, y, y.old) /\ Comes(t, y, y.snap)  BY <1>3, <2>1, <2>3, ComesKept, PageFacts
  <2>7. Turn(t, y)  BY <1>1, <1>2, <1>6, <2>2, <2>4, <2>5, <2>6, StoreTurn
  <2>8. QED BY <2>7
<1>7. CASE tab' = [tab EXCEPT ![t] = Found(t, reg.recs)] /\ UNCHANGED may
  <2>1. Turn(t, Found(t, reg.recs))  BY <1>1, <1>2, <1>4, <1>7, FoundTurn, PageFacts
  <2>2. QED BY <2>1
<1>8. QED BY <1>5, <1>6, <1>7 DEF Read, Unless

\* A step in which no partial is made or removed and the registry is at most cleared.
Quiet ==
  /\ UNCHANGED <<world, horizon, made, disk, left>> /\ received' \subseteq Files
  /\ UNCHANGED may \/ \E e \in Event : May(e)
  /\ keyDb' \in 0 .. MaxKey /\ keys' \in 0 .. MaxKey
  /\ reg' = reg \/ reg' = Holds({})
  /\ legacy' \in {legacy, {}}

\* Such a step that takes the operation to another await.
LEMMA OpTurn ==
  ASSUME TypeInv, NEW t \in Tabs, Quiet, tab[t].at # "closed",
         NEW a \in {"idle", "key", "store", "reset", "unstore", "giveup", "keyed", "open", "create",
                    "moving", "done", "discard", "pick", "erase", "unkey"},
         Op(t, a), a \in Receiving => tab[t].key.kind = "stored", tab[t].prune # "none" => a \in Early
  PROVE  \E y : Turn(t, y)
<1> DEFINE y == [tab[t] EXCEPT !.at = a]
<1>1. tab' = [tab EXCEPT ![t] = y] /\ y \in Page
  <2>1. tab \in [Tabs -> Page] /\ tab[t] \in Page  BY PageFacts
  <2>2. y \in Page  BY <2>1 DEF Page
  <2>3. tab' = [tab EXCEPT ![t] = y]  BY <2>1 DEF Op
  <2>4. QED BY <2>2, <2>3
<1>2. /\ y.prune = tab[t].prune /\ y.old = tab[t].old /\ y.at = a /\ y.for = tab[t].for
      /\ y.part = tab[t].part /\ y.snap = tab[t].snap /\ y.key = tab[t].key
  BY PageFacts DEF Page
<1> HIDE DEF y
<1>3. StageAt(t, y)  BY <1>2, PageFacts DEF StageAt, Reading
<1>4. ~MakingAt(y)  BY <1>2 DEF MakingAt, Reading
<1>5. y.old \in Sets /\ y.snap \in Sets  BY <1>2, PageFacts
<1>6. Turn(t, y)  BY <1>1, <1>3, <1>4, <1>5, PlainTurn DEF Quiet
<1>7. QED BY <1>6

\* Such a step after which the operation reads the registry.
LEMMA ReadForTurn ==
  ASSUME TypeInv, NEW t \in Tabs, Quiet, tab[t].at # "closed",
         NEW w \in {"find", "gone", "publish", "mismatch", "again", "names"},
         ReadFor(t, w), w # "names" => tab[t].key.kind = "stored"
  PROVE  \E y : Turn(t, y)
<1> DEFINE y == [tab[t] EXCEPT !.at = "read", !.for = w]
<1>1. tab' = [tab EXCEPT ![t] = y] /\ y \in Page
  <2>1. tab \in [Tabs -> Page] /\ tab[t] \in Page  BY PageFacts
  <2>2. tab' = [tab EXCEPT ![t].at = "read", ![t].for = w]  BY DEF ReadFor
  <2>3. w \in {"none", "find", "remember", "gone", "publish", "mismatch", "again", "names"}  OBVIOUS
  <2>4. y \in Page  BY <2>1, <2>3 DEF Page
  <2>5. tab' = [tab EXCEPT ![t] = y]  BY <2>1, <2>2 DEF Page
  <2>6. QED BY <2>4, <2>5
<1>2. /\ y.prune = tab[t].prune /\ y.old = tab[t].old /\ y.at = "read" /\ y.for = w
      /\ y.part = tab[t].part /\ y.snap = tab[t].snap /\ y.key = tab[t].key
  BY PageFacts DEF Page
<1> HIDE DEF y
<1>3. StageAt(t, y)  BY <1>2, PageFacts DEF StageAt, Reading, Receiving, Early
<1>4. ~MakingAt(y)  BY <1>2 DEF MakingAt
<1>5. y.old \in Sets /\ y.snap \in Sets  BY <1>2, PageFacts
<1>6. Turn(t, y)  BY <1>1, <1>3, <1>4, <1>5, PlainTurn DEF Quiet
<1>7. QED BY <1>6

\* A registry with something to scrub is cleared,
LEMMA ReadClearTurn ==
  ASSUME TypeInv, NEW t \in Tabs, ReadClear(t)
  PROVE  \E y : Turn(t, y)
<1>1. Quiet
  BY Numbers DEF Quiet, ReadClear, Unless, Deleted, env, Event, TypeInv, ResumeTypeOK
<1>2. tab[t].prune = "none" /\ tab[t].at \in {"replace", "wipe"}  BY PageFacts DEF StageAt, Early, ReadClear
<1>3. CASE tab[t].at = "replace" /\ tab[t].snap # {}
  <2> DEFINE y == [tab[t] EXCEPT !.at = "rewrite"]
  <2>1. tab' = [tab EXCEPT ![t] = y] /\ y \in Page
    <3>1. tab \in [Tabs -> Page] /\ tab[t] \in Page  BY PageFacts
    <3>2. y \in Page  BY <3>1 DEF Page
    <3>3. tab' = [tab EXCEPT ![t] = y]  BY <1>3, <3>1 DEF ReadClear
    <3>4. QED BY <3>2, <3>3
  <2>2. /\ y.prune = tab[t].prune /\ y.old = tab[t].old /\ y.at = "rewrite" /\ y.for = tab[t].for
        /\ y.part = tab[t].part /\ y.snap = tab[t].snap /\ y.key = tab[t].key
    BY PageFacts DEF Page
  <2> HIDE DEF y
  <2>3. StageAt(t, y)  BY <1>2, <1>3, <2>2, PageFacts DEF StageAt, Reading, Receiving
  <2>4. MakingAt(y) => Making(t) /\ y.part = tab[t].part  BY <1>3, <2>2 DEF MakingAt, Making, Reading
  <2>5. y.old \in Sets /\ y.snap \in Sets  BY <2>2, PageFacts
  <2>6. Turn(t, y)  BY <1>1, <2>1, <2>3, <2>4, <2>5, PlainTurn DEF Quiet
  <2>7. QED BY <2>6
<1>4. CASE ~(tab[t].at = "replace" /\ tab[t].snap # {})
  <2>1. tab' = [tab EXCEPT ![t] = Found(t, {})]  BY <1>4 DEF ReadClear
  <2>2. Turn(t, Found(t, {}))  BY <1>1, <1>2, <2>1, FoundTurn DEF Quiet
  <2>3. QED BY <2>2
<1>5. QED BY <1>3, <1>4

\* and written again.
LEMMA ReadWriteTurn ==
  ASSUME TypeInv, NEW t \in Tabs, ReadWrite(t)
  PROVE  \E y : Turn(t, y)
<1>1. UNCHANGED <<world, horizon, made, disk, left, keyDb, keys, received, legacy>>  BY DEF ReadWrite, env
<1>2. received' \subseteq Files /\ keyDb' \in 0 .. MaxKey /\ keys' \in 0 .. MaxKey  BY <1>1 DEF TypeInv, ResumeTypeOK
<1>3. (reg' = reg \/ reg' = Holds(tab[t].snap)) /\ (UNCHANGED may \/ \E e \in Event : May(e))
  BY DEF ReadWrite, Unless, Event
<1>4. tab[t].prune = "none" /\ tab[t].at = "rewrite"  BY PageFacts DEF StageAt, Early, ReadWrite
<1>5. tab' = [tab EXCEPT ![t] = Found(t, tab[t].snap)]  BY DEF ReadWrite
<1>6. tab[t].snap \in Sets  BY PageFacts
<1>7. Turn(t, Found(t, tab[t].snap))  BY <1>1, <1>2, <1>3, <1>4, <1>5, <1>6, FoundTurn
<1>8. QED BY <1>7

\* What an operation goes on with when it has written the registry.
LEMMA WriteTurn ==
  ASSUME TypeInv, NEW t \in Tabs, Write(t)
  PROVE  \E y : Turn(t, y)
<1> DEFINE k == tab[t].key.id
           r == [key |-> k, file |-> tab[t].file, part |-> tab[t].part, extra |-> FALSE]
           why == tab[t].for
           S == tab[t].snap
           out == IF why = "remember" THEN Remembered(S, r) ELSE Forgotten(S, k, tab[t].file)
<1>1. tab[t].prune = "none" /\ tab[t].at = "write" /\ why \in {"remember", "gone", "publish", "mismatch", "again"}
      /\ tab[t].key.kind = "stored" /\ k # 0
  BY PageFacts DEF StageAt, Early, Reading, Write, Page
<1>2. UNCHANGED <<world, horizon, made, disk, left, keyDb, keys, received, legacy>>  BY DEF Write, env
<1>3. received' \subseteq Files /\ keyDb' \in 0 .. MaxKey /\ keys' \in 0 .. MaxKey  BY <1>2 DEF TypeInv, ResumeTypeOK
<1>4. made' = made /\ made' \in 0 .. MaxPart /\ made' >= made  BY <1>2, PageFacts, Numbers
<1>5. PICK a : /\ a \in {"moving", "create", "done", "discard", "idle"} /\ Op(t, a)
               /\ \/ reg' = Holds(out) /\ UNCHANGED may
                  \/ reg' = reg /\ May("storage")
  <2>1. CASE reg' = Holds(out) /\ UNCHANGED may /\ Op(t, CASE why = "remember" -> "moving" [] why = "gone" -> "create"
                       [] why = "publish" -> "done" [] why = "mismatch" -> "discard"
                       [] why = "again" -> "idle")
    BY <1>1, <2>1
  <2>2. CASE reg' = reg /\ May("storage") /\ Op(t, CASE why = "gone" -> "create" [] why = "again" -> "idle"
                       [] why \notin {"gone", "again"} -> "discard")
    BY <1>1, <2>2
  <2>3. QED BY <2>1, <2>2 DEF Write, Unless
<1> DEFINE y == [tab[t] EXCEPT !.at = a]
<1>6. tab' = [tab EXCEPT ![t] = y] /\ y \in Page  BY <1>5, PageFacts DEF Page, Op
<1>7. /\ y.prune = tab[t].prune /\ y.old = tab[t].old /\ y.at = a /\ y.for = tab[t].for
      /\ y.part = tab[t].part /\ y.snap = tab[t].snap /\ y.key = tab[t].key
  BY PageFacts DEF Page
<1> HIDE DEF y
<1>8. StageAt(t, y)  BY <1>1, <1>5, <1>7, PageFacts DEF StageAt, Reading
<1>9. ~MakingAt(y)  BY <1>5, <1>7 DEF MakingAt, Reading
<1>10. Comes(t, y, y.old) /\ Comes(t, y, y.snap)  BY <1>4, <1>7, ComesKept, PageFacts
<1>11. Comes(t, y, out)
  <2>1. CASE why = "remember"
    <3>1. Making(t)  BY <1>1, <2>1 DEF Making, MakingAt, Reading
    <3>2. tab[t].part \in 1 .. made /\ \A s \in S : s.part # tab[t].part
      BY <3>1, PageFacts DEF TypeInv, Base, Unremembered
    <3>3. r \in Record /\ r.part = tab[t].part
      <4>1. k \in 1 .. MaxKey /\ tab[t].file \in Files /\ tab[t].part \in 0 .. MaxPart
        BY <1>1, PageFacts, Numbers DEF Page
      <4>2. QED BY <4>1 DEF Record
    <3>4. Registered(S, made) /\ made \in Nat /\ horizon \in Nat  BY PageFacts DEF TypeInv, Base
    <3>5. r.part <= made /\ \A s \in S : s.part # r.part  BY <3>2, <3>3, <3>4
    <3> HIDE DEF r, S
    <3>6. Registered(Remembered(S, r), made) /\ \A s \in Remembered(S, r) : s \in S \/ s = r
      BY <3>3, <3>4, <3>5, RememberedRegistered
    <3>7. \A s \in Remembered(S, r) : (\E U \in Sets : \E q \in U : q.part = s.part) \/ s.part = tab[t].part
      <4>1. S \in Sets  BY PageFacts DEF S
      <4>2. QED BY <3>3, <3>6, <4>1
    <3>8. out = Remembered(S, r)  BY <2>1
    <3>9. QED BY <1>4, <1>9, <3>1, <3>6, <3>7, <3>8 DEF Comes
  <2>2. CASE why # "remember"
    <3>1. out \subseteq S /\ S \in Sets  BY <2>2, PageFacts DEF Forgotten
    <3> HIDE DEF out, S
    <3>2. QED BY <1>4, <3>1, ComesSubset
  <2>3. QED BY <2>1, <2>2
<1>12. reg' = reg \/ (reg'.broken = FALSE /\ reg' = Holds(reg'.recs) /\ Comes(t, y, reg'.recs))
  <2> HIDE DEF out
  <2> QED BY <1>5, <1>11 DEF Holds
<1>13. UNCHANGED may \/ \E e \in Event : May(e)  BY <1>5 DEF Event
<1>14. Turn(t, y)  BY <1>2, <1>3, <1>6, <1>8, <1>9, <1>10, <1>12, <1>13, StoreTurn
<1>15. QED BY <1>14

-----------------------------------------------------------------------------
(* The lookup key *)

\* The stores after a step that changes none of them.
LEMMA QuietStores ==
  ASSUME TypeInv, UNCHANGED <<env, keyDb, reg, legacy, disk>>, UNCHANGED may \/ \E e \in Event : May(e)
  PROVE  Quiet
  BY DEF Quiet, env, TypeInv, ResumeTypeOK

\* A receive begins.
LEMMA StartReceiveTurn ==
  ASSUME TypeInv, NEW t \in Tabs, NEW f \in Files, StartReceive(t, f)
  PROVE  \E y : Turn(t, y)
<1>1. PICK a : a \in {"key", "keyed"} /\ tab' = [tab EXCEPT ![t].file = f, ![t].part = 0, ![t].at = a]
  BY DEF StartReceive
<1> DEFINE y == [tab[t] EXCEPT !.file = f, !.part = 0, !.at = a]
<1>2. tab' = [tab EXCEPT ![t] = y] /\ y \in Page
  <2>1. tab \in [Tabs -> Page] /\ tab[t] \in Page /\ 0 \in 0 .. MaxPart  BY PageFacts, Numbers
  <2>2. QED BY <1>1, <2>1 DEF Page
<1>3. y.prune = tab[t].prune /\ y.old = tab[t].old /\ y.at = a /\ y.snap = tab[t].snap /\ y.key = tab[t].key
  BY PageFacts DEF Page
<1> HIDE DEF y
<1>4. tab[t].at = "idle" /\ Quiet  BY QuietStores DEF StartReceive
<1>5. StageAt(t, y)  BY <1>1, <1>3, <1>4, PageFacts DEF StageAt, Reading, Receiving, Early
<1>6. ~MakingAt(y)  BY <1>1, <1>3 DEF MakingAt, Reading
<1>7. y.old \in Sets /\ y.snap \in Sets  BY <1>3, PageFacts
<1>8. Turn(t, y)  BY <1>2, <1>4, <1>5, <1>6, <1>7, PlainTurn DEF Quiet
<1>9. QED BY <1>8

\* Such a step that also gives the page a key.
LEMMA KeyTurn ==
  ASSUME TypeInv, NEW t \in Tabs, Quiet, tab[t].at \in (Early \cup {"erase"}) \ {"read"},
         NEW a \in {"keyed", "reset", "unkey"}, NEW k \in [id : 0 .. MaxKey, kind : {"none", "stored", "page"}],
         tab' = [tab EXCEPT ![t].at = a, ![t].key = k],
         k.kind = "stored" => k.id # 0, tab[t].prune # "none" => a \in Early
  PROVE  \E y : Turn(t, y)
<1> DEFINE y == [tab[t] EXCEPT !.at = a, !.key = k]
<1>1. tab' = [tab EXCEPT ![t] = y] /\ y \in Page
  <2>1. tab \in [Tabs -> Page] /\ tab[t] \in Page  BY PageFacts
  <2>2. QED BY <2>1 DEF Page
<1>2. y.prune = tab[t].prune /\ y.old = tab[t].old /\ y.at = a /\ y.snap = tab[t].snap /\ y.key = k
  BY PageFacts DEF Page
<1> HIDE DEF y
<1>3. StageAt(t, y)  BY <1>2, PageFacts DEF StageAt, Reading, Receiving, Early
<1>4. ~MakingAt(y)  BY <1>2 DEF MakingAt, Reading
<1>5. y.old \in Sets /\ y.snap \in Sets  BY <1>2, PageFacts
<1>6. Turn(t, y)  BY <1>1, <1>3, <1>4, <1>5, PlainTurn DEF Quiet
<1>7. QED BY <1>6

\* The stored key is read,
LEMMA KeyReadTurn ==
  ASSUME TypeInv, NEW t \in Tabs, KeyRead(t)
  PROVE  \E y : Turn(t, y)
<1>1. UNCHANGED may \/ \E e \in Event : May(e)  BY DEF KeyRead, Unless, Event
<1>2. Quiet /\ tab[t].at = "key"  BY <1>1, QuietStores DEF KeyRead
<1>3. CASE Op(t, "store") \/ Op(t, "giveup")
  <2>1. CASE Op(t, "store")  BY <1>2, <2>1, OpTurn DEF Receiving, Early
  <2>2. CASE Op(t, "giveup")  BY <1>2, <2>2, OpTurn DEF Receiving, Early
  <2>3. QED BY <1>3, <2>1, <2>2
<1>4. CASE keyDb # 0 /\ tab' = [tab EXCEPT ![t].at = "keyed", ![t].key = [id |-> keyDb, kind |-> "stored"]]
  <2>1. PICK k : k = [id |-> keyDb, kind |-> "stored"]  OBVIOUS
  <2>2. k \in [id : 0 .. MaxKey, kind : {"none", "stored", "page"}] /\ k.id # 0  BY <1>4, <2>1 DEF TypeInv, ResumeTypeOK
  <2>3. tab' = [tab EXCEPT ![t].at = "keyed", ![t].key = k]  BY <1>4, <2>1
  <2>4. QED BY <1>2, <2>2, <2>3, KeyTurn DEF Early
<1>5. QED BY <1>3, <1>4 DEF KeyRead, Unless

\* or a new one stored,
LEMMA KeyStoreTurn ==
  ASSUME TypeInv, NEW t \in Tabs, KeyStore(t)
  PROVE  \E y : Turn(t, y)
<1>1. keys + 1 \in 0 .. MaxKey /\ keys + 1 # 0  BY PageFacts, Numbers DEF KeyStore
<1>2. Quiet /\ tab[t].at = "store"
  BY <1>1 DEF Quiet, KeyStore, Unless, Event, TypeInv, ResumeTypeOK
<1>3. CASE Op(t, "giveup")  BY <1>2, <1>3, OpTurn DEF Receiving, Early
<1>4. CASE tab' = [tab EXCEPT ![t].at = "reset", ![t].key = [id |-> keys + 1, kind |-> "stored"]]
  <2>1. PICK k : k = [id |-> keys + 1, kind |-> "stored"]  OBVIOUS
  <2>2. k \in [id : 0 .. MaxKey, kind : {"none", "stored", "page"}] /\ k.id # 0  BY <1>1, <2>1
  <2>3. tab' = [tab EXCEPT ![t].at = "reset", ![t].key = k]  BY <1>4, <2>1
  <2>4. QED BY <1>2, <2>2, <2>3, KeyTurn DEF Early
<1>5. QED BY <1>3, <1>4 DEF KeyStore, Unless

\* the records made with another one cleared,
LEMMA KeyResetTurn ==
  ASSUME TypeInv, NEW t \in Tabs, KeyReset(t)
  PROVE  \E y : Turn(t, y)
<1>1. Quiet /\ tab[t].at = "reset"
  BY DEF Quiet, KeyReset, Unless, Event, Deleted, env, TypeInv, ResumeTypeOK
<1>2. CASE Op(t, "keyed")  BY <1>1, <1>2, OpTurn DEF Receiving, Early
<1>3. CASE Op(t, "unstore")  BY <1>1, <1>3, OpTurn DEF Receiving, Early
<1>4. QED BY <1>2, <1>3 DEF KeyReset, Unless

\* A key for this page only.
LEMMA UnpersistentTurn ==
  ASSUME TypeInv, NEW t \in Tabs, Quiet, tab[t].at \in {"unstore", "giveup"}, Unpersistent(t)
  PROVE  \E y : Turn(t, y)
<1>1. PICK k : k = [id |-> keys, kind |-> "page"]  OBVIOUS
<1>2. k \in [id : 0 .. MaxKey, kind : {"none", "stored", "page"}] /\ k.kind # "stored"
  BY <1>1 DEF TypeInv, ResumeTypeOK
<1>3. tab' = [tab EXCEPT ![t].at = "keyed", ![t].key = k]  BY <1>1 DEF Unpersistent
<1>4. QED BY <1>2, <1>3, KeyTurn DEF Early

\* and the new one deleted again when that fails.
LEMMA KeyUnstoreTurn ==
  ASSUME TypeInv, NEW t \in Tabs, KeyUnstore(t)
  PROVE  \E y : Turn(t, y)
<1>1. Quiet /\ tab[t].at = "unstore"
  BY Numbers DEF Quiet, KeyUnstore, Unless, Event, env, TypeInv, ResumeTypeOK
<1>2. CASE Unpersistent(t)  BY <1>1, <1>2, UnpersistentTurn
<1>3. CASE Op(t, "giveup")  BY <1>1, <1>3, OpTurn DEF Receiving, Early
<1>4. QED BY <1>2, <1>3 DEF KeyUnstore, Unless

\* The outer catch.
LEMMA KeyGiveUpTurn ==
  ASSUME TypeInv, NEW t \in Tabs, KeyGiveUp(t)
  PROVE  \E y : Turn(t, y)
<1>1. Quiet /\ tab[t].at = "giveup"
  BY DEF Quiet, KeyGiveUp, Unless, Event, Deleted, env, TypeInv, ResumeTypeOK
<1>2. QED BY <1>1, UnpersistentTurn DEF KeyGiveUp

\* With a stored key the registry is read, without one the receive ends.
LEMMA KeyedTurn ==
  ASSUME TypeInv, NEW t \in Tabs, Keyed(t)
  PROVE  \E y : Turn(t, y)
<1>1. Quiet /\ tab[t].at = "keyed"  BY QuietStores DEF Keyed
<1>2. CASE tab[t].key.kind = "stored"
  <2>1. ReadFor(t, "find")  BY <1>2 DEF Keyed
  <2>2. QED BY <1>1, <1>2, <2>1, ReadForTurn
<1>3. CASE tab[t].key.kind # "stored"
  <2>1. Op(t, "idle")  BY <1>3 DEF Keyed
  <2>2. QED BY <1>1, <2>1, OpTurn DEF Receiving, Early
<1>4. QED BY <1>2, <1>3

-----------------------------------------------------------------------------
(* The partials *)

\* A step that changes the folder and takes the operation to await a, for w.
LEMMA DiskTurn ==
  ASSUME TypeInv, NEW t \in Tabs, tab[t].at \in Receiving \cup {"pick"}, tab[t].prune = "none",
         NEW a \in {"idle", "discard", "erase", "read"},
         NEW w \in {"none", "find", "remember", "gone", "publish", "mismatch", "again", "names"},
         tab' = [tab EXCEPT ![t].at = a, ![t].for = w],
         a = "read" => w \notin {"none", "remember"} /\ tab[t].at \in Receiving,
         a = "discard" => tab[t].at \in Receiving,
         UNCHANGED <<world, horizon, made, keyDb, keys, reg, legacy>>,
         UNCHANGED may \/ \E e \in Event : May(e),
         disk' \subseteq Partial,
         \A p, q \in disk' : p.part <= made' /\ (p.part = q.part => p = q),
         received' \subseteq Files, left' \subseteq 1 .. MaxPart
  PROVE  \E y : Turn(t, y)
<1> DEFINE y == [tab[t] EXCEPT !.at = a, !.for = w]
<1>1. tab' = [tab EXCEPT ![t] = y] /\ y \in Page
  <2>1. tab \in [Tabs -> Page] /\ tab[t] \in Page  BY PageFacts
  <2>2. y \in Page  BY <2>1 DEF Page
  <2>3. tab' = [tab EXCEPT ![t] = y]  BY <2>1 DEF Page
  <2>4. QED BY <2>2, <2>3
<1>2. /\ y.prune = tab[t].prune /\ y.old = tab[t].old /\ y.at = a /\ y.for = w
      /\ y.part = tab[t].part /\ y.snap = tab[t].snap /\ y.key = tab[t].key
  BY PageFacts DEF Page
<1> HIDE DEF y
<1>3. StageAt(t, y)  BY <1>2, PageFacts DEF StageAt, Reading, Receiving, Early
<1>4. ~MakingAt(y)  BY <1>2 DEF MakingAt, Reading
<1>5. made' \in 0 .. MaxPart /\ made' >= made  BY PageFacts, Numbers
<1>6. Comes(t, y, y.old) /\ Comes(t, y, y.snap) /\ Comes(t, y, legacy) /\ Comes(t, y, reg.recs)
  BY <1>2, <1>5, ComesKept, PageFacts
<1>7. /\ keyDb' \in 0 .. MaxKey /\ keys' \in 0 .. MaxKey
      /\ reg' \in [broken : BOOLEAN, recs : SUBSET Record]
  BY DEF TypeInv, ResumeTypeOK
<1>8. Turn(t, y)  BY <1>1, <1>3, <1>4, <1>5, <1>6, <1>7 DEF Turn
<1>9. QED BY <1>8

\* An operation that stays for what it was.
LEMMA OpFor ==
  ASSUME TypeInv, NEW t \in Tabs, NEW a, Op(t, a)
  PROVE  tab' = [tab EXCEPT ![t].at = a, ![t].for = tab[t].for]
<1>1. tab \in [Tabs -> Page] /\ tab[t] \in Page  BY PageFacts
<1>2. PICK w : w = tab[t].for  OBVIOUS
<1>3. [tab[t] EXCEPT !.at = a] = [tab[t] EXCEPT !.at = a, !.for = w]  BY <1>1, <1>2 DEF Page
<1>4. tab' = [tab EXCEPT ![t] = [tab[t] EXCEPT !.at = a]]  BY DEF Op
<1>5. tab' = [tab EXCEPT ![t] = [tab[t] EXCEPT !.at = a, !.for = w]]  BY <1>3, <1>4
<1>6. [tab EXCEPT ![t] = [tab[t] EXCEPT !.at = a, !.for = w]] = [tab EXCEPT ![t].at = a, ![t].for = w]
  BY <1>1 DEF Page
<1>7. QED BY <1>2, <1>5, <1>6

\* The partials of a folder some were removed from.
LEMMA FewerParts ==
  ASSUME TypeInv, disk' \subseteq disk, made' = made
  PROVE  /\ disk' \subseteq Partial
         /\ \A p, q \in disk' : p.part <= made' /\ (p.part = q.part => p = q)
  BY DEF TypeInv, ResumeTypeOK, Base

\* The partial is opened or found missing.
LEMMA OpenPartTurn ==
  ASSUME TypeInv, NEW t \in Tabs, OpenPart(t)
  PROVE  \E y : Turn(t, y)
<1>1. Quiet /\ tab[t].at = "open"  BY QuietStores DEF OpenPart
<1>2. tab[t].key.kind = "stored" /\ tab[t].prune = "none"  BY <1>1, PageFacts DEF StageAt, Receiving, Early
<1>3. CASE Op(t, "moving")  BY <1>1, <1>2, <1>3, OpTurn
<1>4. CASE ReadFor(t, "gone")  BY <1>1, <1>2, <1>4, ReadForTurn
<1>5. QED BY <1>3, <1>4 DEF OpenPart

\* A partial is made: its number is new, so nothing names it.
LEMMA CreatePartTurn ==
  ASSUME TypeInv, NEW t \in Tabs, CreatePart(t)
  PROVE  \E y : Turn(t, y)
<1> DEFINE y == [tab[t] EXCEPT !.at = "read", !.for = "remember", !.part = made + 1]
           new == [part |-> made + 1, file |-> tab[t].file, data |-> FALSE]
<1>1. made + 1 \in 0 .. MaxPart /\ made' = made + 1 /\ made' >= made /\ made \in Nat /\ made + 1 \in 1 .. MaxPart
  BY PageFacts, Numbers DEF CreatePart
<1>2. tab' = [tab EXCEPT ![t] = y] /\ y \in Page
  <2>1. tab \in [Tabs -> Page] /\ tab[t] \in Page  BY PageFacts
  <2>2. tab' = [tab EXCEPT ![t].at = "read", ![t].for = "remember", ![t].part = made + 1]  BY DEF CreatePart
  <2>3. PICK n : n = made + 1  OBVIOUS
  <2>4. tab' = [tab EXCEPT ![t].at = "read", ![t].for = "remember", ![t].part = n]  BY <2>2, <2>3
  <2>5. y = [tab[t] EXCEPT !.at = "read", !.for = "remember", !.part = n]  BY <2>3
  <2>6. n \in 0 .. MaxPart  BY <1>1, <2>3
  <2> HIDE DEF y
  <2>7. y \in Page  BY <2>1, <2>5, <2>6 DEF Page
  <2>8. tab' = [tab EXCEPT ![t] = y]  BY <2>1, <2>4, <2>5 DEF Page
  <2>9. QED BY <2>7, <2>8
<1>3. /\ y.prune = tab[t].prune /\ y.old = tab[t].old /\ y.at = "read" /\ y.for = "remember"
      /\ y.part = made + 1 /\ y.snap = tab[t].snap /\ y.key = tab[t].key
  BY PageFacts DEF Page
<1> HIDE DEF y
<1>4. tab[t].at = "create"  BY DEF CreatePart
<1>5. StageAt(t, y)  BY <1>3, <1>4, PageFacts DEF StageAt, Reading, Receiving, Early
<1>6. Comes(t, y, y.old) /\ Comes(t, y, y.snap) /\ Comes(t, y, legacy) /\ Comes(t, y, reg.recs)
  BY <1>1, <1>3, ComesKept, PageFacts
<1>7. disk' \subseteq Partial /\ \A p, q \in disk' : p.part <= made' /\ (p.part = q.part => p = q)
  <2>1. disk' = disk \cup {new}  BY DEF CreatePart
  <2>2. new \in Partial /\ new.part = made + 1
    <3>1. tab[t].file \in Files  BY PageFacts DEF Page
    <3>2. QED BY <1>1, <3>1 DEF Partial
  <2>3. \A p \in disk : p \in Partial /\ p.part \in Nat /\ p.part <= made  BY Numbers DEF TypeInv, ResumeTypeOK, Base, Partial
  <2>4. \A p, q \in disk : p.part = q.part => p = q  BY DEF TypeInv, Base
  <2> HIDE DEF new
  <2>5. \A p \in disk : p.part # made + 1 /\ p.part <= made + 1  BY <1>1, <2>3
  <2>6. made + 1 <= made + 1  BY <1>1
  <2>7. QED BY <1>1, <2>1, <2>2, <2>3, <2>4, <2>5, <2>6
<1>8. /\ keyDb' \in 0 .. MaxKey /\ keys' \in 0 .. MaxKey /\ left' \subseteq 1 .. MaxPart /\ received' \subseteq Files
      /\ reg' \in [broken : BOOLEAN, recs : SUBSET Record]
  BY DEF TypeInv, ResumeTypeOK, CreatePart
<1>9. UNCHANGED <<world, may, reg, legacy, horizon>>  BY DEF CreatePart
<1>10. Turn(t, y)  BY <1>1, <1>2, <1>3, <1>5, <1>6, <1>7, <1>8, <1>9 DEF Turn
<1>11. QED BY <1>10

\* The transfer fails and the partial is written.
LEMMA TransferFailsTurn ==
  ASSUME TypeInv, NEW t \in Tabs, TransferFails(t)
  PROVE  \E y : Turn(t, y)
<1> DEFINE kept(p) == [p EXCEPT !.data = TRUE]
<1>1. tab[t].at = "moving" /\ tab[t].prune = "none"  BY PageFacts DEF TransferFails, StageAt, Early
<1>2. UNCHANGED <<world, horizon, made, keyDb, keys, reg, legacy, received, left>> /\ May("fail")  BY DEF TransferFails, env
<1>3. \A p \in disk : /\ p \in Partial /\ p.part <= made /\ kept(p) \in Partial /\ kept(p).part = p.part
  BY DEF TypeInv, ResumeTypeOK, Base, Partial
<1>4. \A p, q \in disk : p.part = q.part => p = q  BY DEF TypeInv, Base
<1>5. disk' = (disk \ Mine(t)) \cup {kept(p) : p \in Mine(t)} /\ Mine(t) \subseteq disk /\ \A p \in disk : p \in Mine(t) <=> p.part = tab[t].part
  BY DEF TransferFails, Mine
<1> HIDE DEF kept
<1>6. disk' \subseteq Partial /\ \A p, q \in disk' : p.part <= made' /\ (p.part = q.part => p = q)
  <2>1. \A p \in disk' : \E q \in disk : /\ p \in Partial /\ p.part = q.part
                                         /\ p = IF q.part = tab[t].part THEN kept(q) ELSE q
    BY <1>3, <1>5
  <2>2. QED BY <1>2, <1>3, <1>4, <2>1
<1>7. tab' = [tab EXCEPT ![t].at = "idle", ![t].for = tab[t].for]  BY OpFor DEF TransferFails
<1>8. tab[t].for \in {"none", "find", "remember", "gone", "publish", "mismatch", "again", "names"}
  BY PageFacts DEF Page
<1>9. received' \subseteq Files /\ left' \subseteq 1 .. MaxPart  BY <1>2 DEF TypeInv, ResumeTypeOK
<1>10. UNCHANGED may \/ \E e \in Event : May(e)  BY <1>2 DEF Event
<1>11. QED BY <1>1, <1>2, <1>6, <1>7, <1>8, <1>9, <1>10, DiskTurn DEF Receiving

\* The hash differs.
LEMMA TransferMismatchesTurn ==
  ASSUME TypeInv, NEW t \in Tabs, TransferMismatches(t)
  PROVE  \E y : Turn(t, y)
<1>1. UNCHANGED may \/ \E e \in Event : May(e)  BY DEF TransferMismatches, Event
<1>2. Quiet /\ tab[t].at = "moving"  BY <1>1, QuietStores DEF TransferMismatches
<1>3. tab[t].key.kind = "stored"  BY <1>2, PageFacts DEF StageAt, Receiving
<1>4. QED BY <1>2, <1>3, ReadForTurn DEF TransferMismatches

\* A step that removes the page's partial and goes on.
LEMMA RemovalTurn ==
  ASSUME TypeInv, NEW t \in Tabs, tab[t].at \in {"moving", "discard"}, disk' = disk \ Mine(t),
         NEW w \in {"publish", "again"}, Op(t, "idle") \/ ReadFor(t, w),
         UNCHANGED <<env, may, keyDb, reg, legacy>>
  PROVE  \E y : Turn(t, y)
<1>1. tab[t].prune = "none"  BY PageFacts DEF StageAt, Early
<1>2. UNCHANGED <<world, horizon, made, keyDb, keys, reg, legacy, received, left, may>>  BY DEF env
<1>3. disk' \subseteq Partial /\ \A p, q \in disk' : p.part <= made' /\ (p.part = q.part => p = q)  BY <1>2, FewerParts
<1>4. received' \subseteq Files /\ left' \subseteq 1 .. MaxPart  BY <1>2 DEF TypeInv, ResumeTypeOK
<1>5. tab[t].for \in {"none", "find", "remember", "gone", "publish", "mismatch", "again", "names"}
  BY PageFacts DEF Page
<1>6. CASE Op(t, "idle")
  <2>1. tab' = [tab EXCEPT ![t].at = "idle", ![t].for = tab[t].for]  BY <1>6, OpFor
  <2>2. QED BY <1>1, <1>2, <1>3, <1>4, <1>5, <2>1, DiskTurn DEF Receiving
<1>7. CASE ReadFor(t, w)
  <2>1. tab' = [tab EXCEPT ![t].at = "read", ![t].for = w]  BY <1>7 DEF ReadFor
  <2>2. QED BY <1>1, <1>2, <1>3, <1>4, <2>1, DiskTurn DEF Receiving
<1>8. QED BY <1>6, <1>7

\* The file is published.
LEMMA TransferPublishesTurn ==
  ASSUME TypeInv, NEW t \in Tabs, TransferPublishes(t)
  PROVE  \E y : Turn(t, y)
<1>1. Op(t, "idle") \/ ReadFor(t, "publish")  BY DEF TransferPublishes
<1>2. QED BY <1>1, RemovalTurn DEF TransferPublishes

\* The partial is discarded.
LEMMA DiscardPartTurn ==
  ASSUME TypeInv, NEW t \in Tabs, DiscardPart(t)
  PROVE  \E y : Turn(t, y)
<1>1. Op(t, "idle") \/ ReadFor(t, "again")  BY DEF DiscardPart
<1>2. QED BY <1>1, RemovalTurn DEF DiscardPart

\* The receive is acknowledged, or the file taken back.
LEMMA DoneTurn ==
  ASSUME TypeInv, NEW t \in Tabs, Done(t)
  PROVE  \E y : Turn(t, y)
<1>1. tab[t].at = "done" /\ tab[t].file \in Files  BY PageFacts DEF Done, Page
<1>2. received' \subseteq Files  BY <1>1 DEF Done, Unless, TypeInv, ResumeTypeOK
<1>3. Quiet  BY <1>2 DEF Quiet, Done, Unless, Event, TypeInv, ResumeTypeOK
<1>4. tab[t].key.kind = "stored" /\ tab[t].prune = "none"  BY <1>1, PageFacts DEF StageAt, Receiving, Early
<1>5. CASE Op(t, "idle")  BY <1>1, <1>3, <1>4, <1>5, OpTurn
<1>6. CASE Op(t, "discard")  BY <1>1, <1>3, <1>4, <1>6, OpTurn
<1>7. QED BY <1>5, <1>6 DEF Done, Unless

-----------------------------------------------------------------------------
(* The clear action and the events *)

\* The clear action begins,
LEMMA StartClearTurn ==
  ASSUME TypeInv, NEW t \in Tabs, StartClear(t)
  PROVE  \E y : Turn(t, y)
<1>1. UNCHANGED may \/ \E e \in Event : May(e)  BY DEF StartClear, Event
<1>2. Quiet /\ tab[t].at = "idle"  BY <1>1, QuietStores DEF StartClear
<1>3. QED BY <1>2, ReadForTurn DEF StartClear

\* removes partials,
LEMMA ClearPartsTurn ==
  ASSUME TypeInv, NEW t \in Tabs, ClearParts(t)
  PROVE  \E y : Turn(t, y)
<1>1. tab[t].at = "pick" /\ tab[t].prune = "none"  BY PageFacts DEF ClearParts, StageAt, Early
<1>2. UNCHANGED <<world, may, keyDb, reg, legacy, horizon, keys, made, received>>  BY DEF ClearParts
<1>3. disk' \subseteq disk /\ left' \subseteq left \cup {p.part : p \in disk}  BY DEF ClearParts
<1>4. disk' \subseteq Partial /\ \A p, q \in disk' : p.part <= made' /\ (p.part = q.part => p = q)
  BY <1>2, <1>3, FewerParts
<1>5. received' \subseteq Files /\ left' \subseteq 1 .. MaxPart
  <2>1. \A p \in disk : p.part \in 1 .. MaxPart  BY DEF TypeInv, ResumeTypeOK, Partial
  <2>2. QED BY <1>2, <1>3, <2>1 DEF TypeInv, ResumeTypeOK
<1>6. tab[t].for \in {"none", "find", "remember", "gone", "publish", "mismatch", "again", "names"}
  BY PageFacts DEF Page
<1>7. tab' = [tab EXCEPT ![t].at = "erase", ![t].for = tab[t].for]  BY OpFor DEF ClearParts
<1>8. QED BY <1>1, <1>2, <1>4, <1>5, <1>6, <1>7, DiskTurn

\* the registry
LEMMA ClearRegistryTurn ==
  ASSUME TypeInv, NEW t \in Tabs, ClearRegistry(t)
  PROVE  \E y : Turn(t, y)
<1>1. tab[t].at = "erase" /\ tab[t].prune = "none"  BY PageFacts DEF ClearRegistry, StageAt, Early
<1>2. Quiet  BY DEF Quiet, ClearRegistry, Unless, Event, Deleted, env, TypeInv, ResumeTypeOK
<1>3. CASE Op(t, "idle")  BY <1>1, <1>2, <1>3, OpTurn DEF Receiving
<1>4. CASE tab' = [tab EXCEPT ![t].at = "unkey", ![t].key = NoKey]
  <2>1. PICK k : k = NoKey  OBVIOUS
  <2>2. k \in [id : 0 .. MaxKey, kind : {"none", "stored", "page"}] /\ k.kind # "stored"  BY <2>1, Numbers DEF NoKey
  <2>3. tab' = [tab EXCEPT ![t].at = "unkey", ![t].key = k]  BY <1>4, <2>1
  <2>4. QED BY <1>1, <1>2, <2>2, <2>3, KeyTurn
<1>5. QED BY <1>3, <1>4 DEF ClearRegistry, Unless

\* and the key.
LEMMA ClearKeyTurn ==
  ASSUME TypeInv, NEW t \in Tabs, ClearKey(t)
  PROVE  \E y : Turn(t, y)
<1>1. tab[t].at = "unkey"  BY DEF ClearKey
<1>2. Quiet  BY Numbers DEF Quiet, ClearKey, Unless, Event, env, TypeInv, ResumeTypeOK
<1>3. QED BY <1>1, <1>2, OpTurn DEF Receiving, Early, ClearKey

\* The page is closed and forgets everything.
LEMMA ClosePageTurn ==
  ASSUME TypeInv, NEW t \in Tabs, ClosePage(t)
  PROVE  \E y : Turn(t, y)
<1>1. UNCHANGED may \/ \E e \in Event : May(e)  BY DEF ClosePage, Event
<1>2. Quiet  BY <1>1, QuietStores DEF ClosePage
<1>3. PICK y : y = Closed  OBVIOUS
<1>4. y \in Page /\ y.at = "closed" /\ y.prune = "none" /\ y.old = {} /\ y.snap = {} /\ y.key = NoKey
  BY <1>3, ClosedPage
<1>5. tab' = [tab EXCEPT ![t] = y]  BY <1>3 DEF ClosePage
<1>6. StageAt(t, y)  BY <1>4 DEF StageAt, Reading, Receiving, NoKey
<1>7. ~MakingAt(y)  BY <1>4 DEF MakingAt, Reading
<1>8. Turn(t, y)  BY <1>2, <1>4, <1>5, <1>6, <1>7, PlainTurn DEF Quiet
<1>9. QED BY <1>8

\* Time passes.
LEMMA ExpireKeeps ==
  ASSUME TypeInv, Expire
  PROVE  TypeInv'
<1>1. UNCHANGED <<world, keyDb, reg, legacy, disk, tab, keys, made, received, left>>  BY DEF Expire
<1>2. horizon' \in 0 .. MaxPart
  <2>1. PICK n \in horizon + 1 .. made : horizon' = n  BY DEF Expire
  <2>2. horizon \in Nat /\ made \in Nat /\ made <= MaxPart  BY Numbers DEF TypeInv, ResumeTypeOK
  <2>3. QED BY <2>1, <2>2, Numbers
<1>3. may' \in [Event -> Nat] /\ \A e \in Event : may'[e] <= world'.may[e]
  BY <1>1, MayStep DEF Expire, Event
<1>4. ResumeTypeOK'  BY <1>1, <1>2, <1>3 DEF TypeInv, ResumeTypeOK
<1>5. Sets' = Sets  BY <1>1 DEF Sets
<1>6. \A t \in Tabs : (Unremembered(t)' <=> Unremembered(t)) /\ (Stage(t)' <=> Stage(t))
  BY <1>1, <1>5 DEF Unremembered, Making, MakingAt, Stage, StageAt
<1>7. Base'  BY <1>1, <1>3, <1>5, <1>6 DEF TypeInv, Base
<1>8. QED BY <1>4, <1>7 DEF TypeInv

\* A page's step.
PageStep(t) ==
  \/ Load(t) \/ Prune(t) \/ Operation(t) \/ StartClear(t) \/ ClosePage(t)
  \/ \E f \in Files : StartReceive(t, f)

\* Whatever a page does, the others are as they were.
LEMMA PageTurn ==
  ASSUME TypeInv, NEW t \in Tabs, PageStep(t)
  PROVE  \E y : Turn(t, y)
<1>1. CASE Load(t)  BY <1>1, LoadTurn
<1>2. CASE Prune(t)  BY <1>2, PruneReadTurn, PruneClearTurn, PruneWriteTurn DEF Prune
<1>3. CASE StartClear(t) \/ ClosePage(t)  BY <1>3, StartClearTurn, ClosePageTurn
<1>4. CASE \E f \in Files : StartReceive(t, f)  BY <1>4, StartReceiveTurn
<1>5. CASE Operation(t)
  <2>1. CASE Read(t) \/ ReadClear(t) \/ ReadWrite(t) \/ Write(t)
    BY <2>1, ReadTurn, ReadClearTurn, ReadWriteTurn, WriteTurn
  <2>2. CASE KeyRead(t) \/ KeyStore(t) \/ KeyReset(t) \/ KeyUnstore(t) \/ KeyGiveUp(t) \/ Keyed(t)
    BY <2>2, KeyReadTurn, KeyStoreTurn, KeyResetTurn, KeyUnstoreTurn, KeyGiveUpTurn, KeyedTurn
  <2>3. CASE OpenPart(t) \/ CreatePart(t) \/ TransferFails(t) \/ TransferMismatches(t)
    BY <2>3, OpenPartTurn, CreatePartTurn, TransferFailsTurn, TransferMismatchesTurn
  <2>4. CASE TransferPublishes(t) \/ Done(t) \/ DiscardPart(t)
    BY <2>4, TransferPublishesTurn, DoneTurn, DiscardPartTurn
  <2>5. CASE ClearParts(t) \/ ClearRegistry(t) \/ ClearKey(t)
    BY <2>5, ClearPartsTurn, ClearRegistryTurn, ClearKeyTurn
  <2>6. QED BY <1>5, <2>1, <2>2, <2>3, <2>4, <2>5 DEF Operation
<1>6. QED BY <1>1, <1>2, <1>3, <1>4, <1>5 DEF PageStep

\* The worlds to begin with are as the assumption says.
LEMMA InitTypes == ResumeInit => TypeInv
<1> SUFFICES ASSUME ResumeInit PROVE TypeInv  OBVIOUS
<1>1. world \in Worlds /\ world \in World  BY WorldAssumption DEF ResumeInit
<1>2. /\ world.key \in 0 .. MaxKey /\ world.keys \in 0 .. MaxKey /\ world.made \in 0 .. MaxPart
      /\ world.recs \subseteq Record /\ world.legacy \subseteq Record /\ world.disk \subseteq Partial
      /\ world.broken \in BOOLEAN /\ world.may \in [Event -> Nat]
  BY <1>1 DEF World
<1>3. Registered(world.recs, world.made) /\ Registered(world.legacy, world.made)
  BY <1>1, <1>2, WorldAssumption DEF Registered
<1>4. Registered({}, world.made)
  <2>1. Cardinality({}) = 0 /\ IsFiniteSet({})  BY FS_EmptySet
  <2>2. QED BY <2>1, Numbers DEF Registered, Registry
<1>5. \A t \in Tabs : tab[t] = Closed  BY DEF ResumeInit
<1>6. reg = [broken |-> world.broken, recs |-> IF world.broken THEN {} ELSE world.recs]
      /\ legacy = world.legacy /\ made = world.made /\ disk = world.disk
  BY DEF ResumeInit
<1>7. Registered(reg.recs, made) /\ Registered(legacy, made) /\ Registered({}, made)
  BY <1>3, <1>4, <1>6
<1>8. \A S \in Sets : Registered(S, made)  BY <1>5, <1>7, ClosedPage DEF Sets
<1>9. \A t \in Tabs : Unremembered(t) /\ Stage(t)
  BY <1>5, ClosedPage DEF Unremembered, Making, MakingAt, Stage, StageAt, Reading, Receiving, NoKey
<1>10. reg \in [broken : BOOLEAN, recs : SUBSET Record]
  <2>1. PICK R : R = (IF world.broken THEN {} ELSE world.recs)  OBVIOUS
  <2>2. R \subseteq Record /\ reg = [broken |-> world.broken, recs |-> R]  BY <1>2, <1>6, <2>1
  <2>3. QED BY <1>2, <2>2
<1>11. tab \in [Tabs -> Page]  BY ClosedPage DEF ResumeInit
<1>12. ResumeTypeOK
  <2>1. horizon = 0 /\ received = {} /\ left = {} /\ may = world.may /\ keyDb = world.key /\ keys = world.keys  BY DEF ResumeInit
  <2>2. Cardinality(reg.recs) <= MaxRecords /\ Registry(reg.recs)  BY <1>7 DEF Registered
  <2>3. 0 \in 0 .. MaxPart  BY Numbers
  <2>4. QED BY <1>2, <1>6, <1>10, <1>11, <2>1, <2>2, <2>3 DEF ResumeTypeOK
<1>13. \A e \in Event : may[e] <= world.may[e]
  <2>1. may = world.may /\ \A e \in Event : world.may[e] \in Nat  BY <1>2 DEF ResumeInit
  <2>2. QED BY <2>1
<1>14. \A p, q \in disk : p.part <= made /\ (p.part = q.part => p = q)  BY <1>1, <1>6, WorldAssumption
<1>15. QED BY <1>1, <1>8, <1>9, <1>12, <1>13, <1>14 DEF TypeInv, Base

\* Every step keeps the type invariant.
LEMMA NextTypes == TypeInv /\ [ResumeNext]_resumeVars => TypeInv'
<1> SUFFICES ASSUME TypeInv, [ResumeNext]_resumeVars PROVE TypeInv'  OBVIOUS
<1>1. CASE Expire  BY <1>1, ExpireKeeps
<1>2. ASSUME NEW t \in Tabs, PageStep(t) PROVE TypeInv'
  <2>1. PICK y : Turn(t, y)  BY <1>2, PageTurn
  <2>2. QED BY <2>1, Turned
<1>3. CASE UNCHANGED resumeVars
  <2>1. Sets' = Sets  BY <1>3 DEF Sets, resumeVars
  <2>2. \A t \in Tabs : (Unremembered(t)' <=> Unremembered(t)) /\ (Stage(t)' <=> Stage(t))
    BY <1>3, <2>1 DEF Unremembered, Making, MakingAt, Stage, StageAt, resumeVars
  <2>3. QED BY <1>3, <2>1, <2>2 DEF TypeInv, ResumeTypeOK, Base, resumeVars
<1>4. QED BY <1>1, <1>2, <1>3 DEF ResumeNext, PageStep

\* Whatever the pages, the user and the databases do: the registry never holds more than
\* MAX_BROWSER_RESUME_RECORDS records, one for an identifier and one for a partial, although
\* every page replaces it as a whole by what it read before some await.
THEOREM ResumeTypes == ResumeSpec => []ResumeTypeOK
<1>1. ResumeSpec => []TypeInv  BY InitTypes, NextTypes, PTL DEF ResumeSpec
<1>2. TypeInv => ResumeTypeOK  BY DEF TypeInv
<1>3. QED BY <1>1, <1>2, PTL

-----------------------------------------------------------------------------
(* One page and databases that do not fail *)

\* What the type invariant says of one page.
LEMMA GroundsHold ==
  ASSUME TypeInv, NEW t \in Tabs
  PROVE  Grounds(t, tab[t])
<1>1. {reg.recs, tab[t].old, tab[t].snap} \subseteq Sets /\ tab[t] \in Page /\ StageAt(t, tab[t])  BY PageFacts
<1>2. Unremembered(t)  BY DEF TypeInv, Base
<1>3. \A S \in Sets : Registered(S, made)  BY DEF TypeInv, Base
<1>4. MakingAt(tab[t]) => /\ tab[t].part \in 1 .. made
                          /\ \A r \in reg.recs \cup tab[t].old \cup tab[t].snap : r.part # tab[t].part
  BY <1>1, <1>2 DEF Unremembered, Making
<1>5. disk \subseteq Partial /\ \A p, q \in disk : p.part <= made /\ (p.part = q.part => p = q)
  BY DEF TypeInv, ResumeTypeOK, Base
<1>6. QED BY <1>1, <1>3, <1>4, <1>5 DEF Grounds

\* A page's state is orderly when the record it is equal to is.
LEMMA OrderlyNext ==
  ASSUME NEW t \in Tabs, NEW y, tab'[t] = y, Orderly(y)'
  PROVE  Orderly(tab[t])'
<1>1. InForce(tab[t])' = InForce(y)'  BY DEF InForce
<1>2. Undisturbed(tab[t])' /\ Keying(tab[t])' /\ Reachable(tab[t])' /\ Agree(tab[t])' /\ Closable(tab[t])'
  BY <1>1 DEF Orderly, Undisturbed, Keying, Reachable, Agree, Closable, PartOf
<1>3. OwnFile(tab[t])'  BY <1>1 DEF Orderly, OwnFile, Own, PartOf, MakingAt
<1>4. QED BY <1>2, <1>3 DEF Orderly

\* A step of the operation that leaves the stores alone.
LEMMA Continues ==
  ASSUME NEW x \in Page, NEW y \in Page, Orderly(x),
         UNCHANGED <<world, keyDb, reg, legacy, disk, horizon, left>>, may'["storage"] = 0,
         y.prune = x.prune, y.old = x.old, InForce(y) = InForce(x), x.at # "closed",
         y.at \notin {"closed", "wipe", "unstore", "giveup"}, x.at = "discard" => PartOf(x) = {},
         Keying(y), OwnFile(y), Closable(y)
  PROVE  Orderly(y)'
<1>1. InForce(y)' = InForce(x)  BY DEF InForce
<1>2. Undisturbed(y)'  BY DEF Orderly, Undisturbed
<1>3. Keying(y)'  BY <1>1 DEF Keying, Known
<1>4. Reachable(y)'  BY <1>1 DEF Orderly, Reachable, Lost, PartOf
<1>5. Agree(y)'  BY <1>1 DEF Orderly, Agree
<1>6. OwnFile(y)'  BY <1>1 DEF OwnFile, PartOf, Lost
<1>7. Closable(y)'  BY DEF Closable, PartOf
<1>8. QED BY <1>2, <1>3, <1>4, <1>5, <1>6, <1>7 DEF Orderly

\* The same step when the registry is not replaced meanwhile.
LEMMA SameForce ==
  ASSUME NEW x, NEW y, y.prune = x.prune, y.old = x.old,
         x.at \notin {"replace", "rewrite"}, y.at \notin {"replace", "rewrite"}
  PROVE  InForce(y) = InForce(x)
  BY DEF InForce

\* A receive begins, of a file that is wanted.
LEMMA StartReceiveCalm ==
  ASSUME NEW t, NEW x \in Page, NEW y \in Page, Grounds(t, x), Orderly(x),
         UNCHANGED <<world, keyDb, reg, legacy, disk, horizon, left>>, may'["storage"] = 0,
         x.at = "idle", NEW f \in world.want,
         y = [x EXCEPT !.file = f, !.part = 0, !.at = IF x.key = NoKey THEN "key" ELSE "keyed"]
  PROVE  Orderly(y)'
<1>1. /\ y.prune = x.prune /\ y.old = x.old /\ y.key = x.key /\ y.file = f /\ y.snap = x.snap /\ y.for = x.for
      /\ y.at \in {"key", "keyed"}
  BY DEF Page
<1>2. InForce(y) = InForce(x)  BY <1>1, SameForce
<1>3. Keying(y)  BY <1>1, <1>2 DEF Orderly, Keying
<1>4. OwnFile(y)  BY <1>1 DEF OwnFile, Reading, Receiving, MakingAt
<1>5. Closable(y)  BY <1>1 DEF Orderly, Closable, Reading
<1>6. QED BY <1>1, <1>2, <1>3, <1>4, <1>5, Continues

\* The stored key is read.
LEMMA KeyReadCalm ==
  ASSUME NEW t, NEW x \in Page, NEW y \in Page, Grounds(t, x), Orderly(x),
         UNCHANGED <<world, keyDb, reg, legacy, disk, horizon, left>>, may'["storage"] = 0,
         x.at = "key",
         \/ keyDb = 0 /\ y = [x EXCEPT !.at = "store"]
         \/ keyDb # 0 /\ y = [x EXCEPT !.at = "keyed", !.key = [id |-> keyDb, kind |-> "stored"]]
  PROVE  Orderly(y)'
<1>1. /\ y.prune = x.prune /\ y.old = x.old /\ y.file = x.file /\ y.snap = x.snap /\ y.for = x.for
      /\ \/ y.at = "store" /\ keyDb = 0 /\ y.key = x.key
         \/ y.at = "keyed" /\ y.key.kind = "stored" /\ y.key.id = keyDb
  <2>1. CASE keyDb = 0 /\ y = [x EXCEPT !.at = "store"]  BY <2>1 DEF Page
  <2>2. CASE y = [x EXCEPT !.at = "keyed", !.key = [id |-> keyDb, kind |-> "stored"]]
    <3>1. PICK k : k = [id |-> keyDb, kind |-> "stored"]  OBVIOUS
    <3>2. y = [x EXCEPT !.at = "keyed", !.key = k]  BY <2>2, <3>1
    <3>3. y.key = k /\ y.at = "keyed" /\ y.prune = x.prune /\ y.old = x.old /\ y.file = x.file /\ y.snap = x.snap /\ y.for = x.for
      BY <3>2 DEF Page
    <3>4. QED BY <3>1, <3>3
  <2>3. QED BY <2>1, <2>2
<1>2. InForce(y) = InForce(x)  BY <1>1, SameForce
<1>3. Keying(y)  BY <1>1, <1>2 DEF Orderly, Keying
<1>4. OwnFile(y)  BY <1>1 DEF Orderly, OwnFile, Reading, Receiving, MakingAt
<1>5. Closable(y)  BY <1>1 DEF Orderly, Closable, Reading
<1>6. QED BY <1>1, <1>2, <1>3, <1>4, <1>5, Continues

\* A new key is stored only when there is none, and then there is no record.
LEMMA KeyStoreCalm ==
  ASSUME NEW t, NEW x \in Page, NEW y \in Page, Grounds(t, x), Orderly(x), NEW k,
         UNCHANGED <<world, reg, legacy, disk, horizon, left>>, may'["storage"] = 0, keyDb' = k,
         x.at = "store", y = [x EXCEPT !.at = "reset", !.key = [id |-> k, kind |-> "stored"]]
  PROVE  Orderly(y)'
<1>1. /\ y.prune = x.prune /\ y.old = x.old /\ y.file = x.file /\ y.snap = x.snap /\ y.for = x.for
      /\ y.at = "reset" /\ y.key.kind = "stored" /\ y.key.id = k
  BY DEF Page
<1>2. InForce(y)' = InForce(x)  BY <1>1 DEF InForce
<1>3. keyDb = 0 /\ legacy = {}  BY DEF Orderly, Keying, Undisturbed
<1>4. \A r \in Record : r.key # 0  BY DEF Record
<1>5. reg.recs \subseteq Record /\ InForce(x) \subseteq Record /\ x.old \subseteq Record
  BY DEF Grounds, Registered, InForce
<1>6. reg.recs = {} /\ InForce(x) = {} /\ (x.prune # "none" => x.old = {})
  <2>1. \A r \in reg.recs \cup InForce(x) : r.key = 0  BY <1>3 DEF Orderly, Keying
  <2>2. x.prune # "none" => \A r \in x.old : r.key = 0  BY <1>3 DEF Orderly, Keying
  <2>3. QED BY <1>4, <1>5, <2>1, <2>2
<1>7. Undisturbed(y)'  BY <1>1, <1>3 DEF Orderly, Undisturbed
<1>8. Keying(y)'  BY <1>1, <1>2, <1>3, <1>6 DEF Keying
<1>9. Reachable(y)'  BY <1>1, <1>2 DEF Orderly, Reachable, Lost, Named
<1>10. Agree(y)'  BY <1>2 DEF Orderly, Agree
<1>11. OwnFile(y)'  BY <1>1 DEF Orderly, OwnFile, Reading, Receiving, MakingAt
<1>12. Closable(y)'  BY <1>1 DEF Orderly, Closable, Reading
<1>13. QED BY <1>7, <1>8, <1>9, <1>10, <1>11, <1>12 DEF Orderly

\* There is no record to clear then.
LEMMA KeyResetCalm ==
  ASSUME NEW t, NEW x \in Page, NEW y \in Page, Grounds(t, x), Orderly(x),
         UNCHANGED <<world, keyDb, disk, horizon, left>>, may'["storage"] = 0,
         reg' = Holds({}), legacy' = {}, x.at = "reset", x.prune = "none",
         y = [x EXCEPT !.at = "keyed"]
  PROVE  Orderly(y)'
<1>1. /\ y.prune = x.prune /\ y.old = x.old /\ y.file = x.file /\ y.snap = x.snap /\ y.for = x.for
      /\ y.at = "keyed" /\ y.key = x.key
  BY DEF Page
<1>2. reg.recs = {} /\ reg'.recs = {} /\ reg'.broken = FALSE  BY DEF Orderly, Keying, Holds
<1>3. InForce(y)' = {} /\ InForce(x) = {}  BY <1>1, <1>2 DEF InForce
<1>4. Undisturbed(y)'  BY <1>1, <1>2 DEF Orderly, Undisturbed
<1>5. Keying(y)'  BY <1>1, <1>2, <1>3 DEF Orderly, Keying
<1>6. Reachable(y)'  BY <1>1, <1>3 DEF Orderly, Reachable, Lost, Named
<1>7. Agree(y)'  BY <1>3 DEF Agree
<1>8. OwnFile(y)'  BY <1>1 DEF Orderly, OwnFile, Reading, Receiving, MakingAt
<1>9. Closable(y)'  BY <1>1, <1>2 DEF Orderly, Closable, Reading
<1>10. QED BY <1>4, <1>5, <1>6, <1>7, <1>8, <1>9 DEF Orderly

\* The operation begins to read the registry, or ends.
LEMMA KeyedCalm ==
  ASSUME NEW t, NEW x \in Page, NEW y \in Page, Grounds(t, x), Orderly(x),
         UNCHANGED <<world, keyDb, reg, legacy, disk, horizon, left>>, may'["storage"] = 0,
         \/ x.at = "keyed" /\ y = [x EXCEPT !.at = "read", !.for = "find"]
         \/ x.at = "keyed" /\ y = [x EXCEPT !.at = "idle"]
         \/ x.at = "idle" /\ y = [x EXCEPT !.at = "read", !.for = "names"]
  PROVE  Orderly(y)'
<1>1. /\ y.prune = x.prune /\ y.old = x.old /\ y.file = x.file /\ y.snap = x.snap /\ y.key = x.key
      /\ \/ x.at = "keyed" /\ y.at = "read" /\ y.for = "find"
         \/ x.at = "keyed" /\ y.at = "idle"
         \/ x.at = "idle" /\ y.at = "read" /\ y.for = "names"
  <2>1. CASE x.at = "keyed" /\ y = [x EXCEPT !.at = "read", !.for = "find"]  BY <2>1 DEF Page
  <2>2. CASE x.at = "keyed" /\ y = [x EXCEPT !.at = "idle"]  BY <2>2 DEF Page
  <2>3. CASE x.at = "idle" /\ y = [x EXCEPT !.at = "read", !.for = "names"]  BY <2>3 DEF Page
  <2>4. QED BY <2>1, <2>2, <2>3
<1>2. InForce(y) = InForce(x)  BY <1>1, SameForce
<1>3. Keying(y)  BY <1>1, <1>2 DEF Orderly, Keying
<1>4. OwnFile(y)  BY <1>1 DEF Orderly, OwnFile, Reading, Receiving, MakingAt
<1>5. Closable(y)  BY <1>1 DEF Orderly, Closable, Reading
<1>6. QED BY <1>1, <1>2, <1>3, <1>4, <1>5, Continues

\* There is nothing to scrub from a registry of valid records that have not expired.
LEMMA CleanUnchanged ==
  ASSUME NEW S, S \subseteq Record, horizon = 0, \A r \in S : ~r.extra /\ r.part # 0
  PROVE  ~Changed(S)
<1> DEFINE clean(r) == [r EXCEPT !.extra = FALSE]
<1>1. \A r \in S : clean(r) = r  BY DEF Record
<1>2. \A r \in S : r.part > horizon  BY Numbers DEF Record
<1>3. {s \in S : s.part # 0 /\ Fresh(s)} = S  BY <1>2 DEF Fresh
<1>4. Sanitized(S) = {clean(r) : r \in S}  BY <1>3 DEF Sanitized
<1> HIDE DEF clean
<1>5. QED BY <1>1, <1>4 DEF Changed

\* The pruning of the page: the registry, or what an older version left, is scrubbed.
LEMMA PruneReadCalm ==
  ASSUME NEW t, NEW x \in Page, NEW y \in Page, Grounds(t, x), Orderly(x), horizon \in Nat,
         UNCHANGED <<world, keyDb, reg, legacy, disk, horizon, left>>, may'["storage"] = 0,
         x.prune = "read", NEW value, value = (IF reg.recs = {} THEN x.old ELSE reg.recs),
         \/ (x.old # {} \/ Changed(value)) /\ y = [x EXCEPT !.prune = "clear", !.old = Sanitized(value)]
         \/ x.old = {} /\ y = [x EXCEPT !.prune = "none", !.old = {}]
  PROVE  Orderly(y)'
<1>1. PICK S : S = Sanitized(value)  OBVIOUS
<1>2. /\ y.at = x.at /\ y.file = x.file /\ y.snap = x.snap /\ y.for = x.for /\ y.key = x.key /\ y.part = x.part
      /\ \/ y.prune = "clear" /\ y.old = S /\ (x.old # {} \/ Changed(value))
         \/ y.prune = "none" /\ y.old = {} /\ x.old = {}
  <2>1. CASE (x.old # {} \/ Changed(value)) /\ y = [x EXCEPT !.prune = "clear", !.old = Sanitized(value)]
    <3>1. y = [x EXCEPT !.prune = "clear", !.old = S]  BY <1>1, <2>1
    <3>2. QED BY <2>1, <3>1 DEF Page
  <2>2. CASE x.old = {} /\ y = [x EXCEPT !.prune = "none", !.old = {}]  BY <2>2 DEF Page
  <2>3. QED BY <2>1, <2>2
<1>3. x.at \in {"idle", "key", "store", "reset", "keyed", "read"}
  BY DEF Grounds, StageAt, Early, Orderly, Undisturbed
<1>4. InForce(x) = reg.recs  BY <1>3 DEF InForce
<1>5. value \subseteq Record  BY DEF Grounds, Registered
<1>6. /\ \A r \in S : r.part # 0 /\ \E q \in value : r.key = q.key /\ r.file = q.file /\ r.part = q.part
      /\ \A q \in value : q.part # 0 /\ q.part > horizon =>
           \E r \in S : r.key = q.key /\ r.file = q.file /\ r.part = q.part
  BY <1>1, <1>5, SanitizedMembers DEF Fresh
<1>7. InForce(y)' = IF y.prune = "clear" THEN S ELSE reg.recs  BY <1>2, <1>3 DEF InForce
<1>8. \A r \in S : r.key = keyDb /\ r.file \in Known
  <2>1. \A q \in value : q.key = keyDb /\ q.file \in Known  BY DEF Orderly, Keying
  <2>2. QED BY <1>6, <2>1
<1>9. \A p \in disk : p.part # 0 /\ p.part \in Nat  BY Numbers DEF Grounds, Partial
<1>10. Undisturbed(y)'  BY <1>2, <1>3 DEF Orderly, Undisturbed
<1>11. Keying(y)'
  <2>1. y.at = "reset" => y.old = {}
    <3>1. x.at = "reset" => value = {}  BY DEF Orderly, Keying
    <3>2. x.at = "reset" => S = {}  BY <1>6, <3>1
    <3>3. QED BY <1>2, <3>2
  <2>2. QED BY <1>2, <1>3, <1>7, <1>8, <2>1 DEF Orderly, Keying, Known
<1>12. Reachable(y)'
  <2>1. ASSUME NEW p \in disk, p.data, ~Lost(p) PROVE Named(p, IF y.prune = "clear" THEN S ELSE reg.recs)
    <3>1. Named(p, reg.recs)  BY <1>3, <1>4, <2>1 DEF Orderly, Reachable
    <3>2. PICK q \in reg.recs : q.part = p.part /\ q.file = p.file  BY <3>1 DEF Named
    <3>3. q \in value /\ q.part # 0 /\ q.part > horizon  BY <1>9, <2>1, <3>2 DEF Lost
    <3>4. \E r \in S : r.part = p.part /\ r.file = p.file  BY <1>6, <3>2, <3>3
    <3>5. QED BY <3>1, <3>4 DEF Named
  <2>2. QED BY <1>7, <2>1 DEF Reachable, Lost, Named
<1>13. Agree(y)'
  <2>1. \A q \in value : \A p \in disk : q.part = p.part => q.file = p.file
    <3>1. CASE reg.recs # {}  BY <1>4, <3>1 DEF Orderly, Agree
    <3>2. CASE reg.recs = {}  BY <3>2 DEF Orderly, Undisturbed
    <3>3. QED BY <3>1, <3>2
  <2>2. \A r \in S : \A p \in disk : r.part = p.part => r.file = p.file  BY <1>6, <2>1
  <2>3. \A r \in reg.recs : \A p \in disk : r.part = p.part => r.file = p.file  BY <1>4 DEF Orderly, Agree
  <2>4. QED BY <1>7, <2>2, <2>3 DEF Agree
<1>14. OwnFile(y)'
  <2>1. MakingAt(y) <=> MakingAt(x)  BY <1>2 DEF MakingAt
  <2>2. y.at = "read" => y.for \in {"find", "names"}  BY <1>2 DEF Orderly, OwnFile
  <2>3. y.at \in Reading => y.at = "read"  BY <1>2, <1>3 DEF Reading
  <2>4. QED BY <1>2, <1>3, <2>1, <2>2, <2>3 DEF Orderly, OwnFile, Receiving, MakingAt
<1>15. Closable(y)'
  <2>1. ASSUME world.may["close"] > 0 PROVE y.prune = "none"
    <3>1. x.old = {} /\ horizon = 0 /\ \A r \in reg.recs : ~r.extra /\ r.part # 0  BY <2>1 DEF Orderly, Closable
    <3>2. value = reg.recs  BY <3>1
    <3>3. ~Changed(value)  BY <1>5, <3>1, <3>2, CleanUnchanged
    <3>4. QED BY <1>2, <3>1, <3>3
  <2>2. QED BY <1>2, <1>3, <2>1 DEF Orderly, Closable, PartOf
<1>16. QED BY <1>10, <1>11, <1>12, <1>13, <1>14, <1>15 DEF Orderly

\* The registry is cleared; what the page will write is in force.
LEMMA PruneClearCalm ==
  ASSUME NEW t, NEW x \in Page, NEW y \in Page, Grounds(t, x), Orderly(x),
         UNCHANGED <<world, keyDb, disk, horizon, left>>, may'["storage"] = 0,
         reg' = Holds({}), legacy' = {}, x.prune = "clear",
         y = [x EXCEPT !.prune = IF x.old # {} THEN "write" ELSE "none"]
  PROVE  Orderly(y)'
<1>1. /\ y.at = x.at /\ y.file = x.file /\ y.snap = x.snap /\ y.for = x.for /\ y.key = x.key /\ y.part = x.part
      /\ y.old = x.old /\ (y.prune = "write" \/ (y.prune = "none" /\ x.old = {}))
  BY DEF Page
<1>2. x.at \in {"idle", "key", "store", "reset", "keyed", "read"}
  BY DEF Grounds, StageAt, Early, Orderly, Undisturbed
<1>3. reg'.recs = {} /\ reg'.broken = FALSE  BY DEF Holds
<1>4. InForce(y)' = x.old /\ InForce(x) = x.old  BY <1>1, <1>2, <1>3 DEF InForce
<1>5. Undisturbed(y)'  BY <1>1, <1>2, <1>3 DEF Orderly, Undisturbed
<1>6. Keying(y)'
  <2>1. \A r \in x.old : r.key = keyDb /\ r.file \in Known  BY DEF Orderly, Keying
  <2>2. x.key = NoKey \/ (x.key.kind = "stored" /\ x.key.id = keyDb)  BY DEF Orderly, Keying
  <2>3. (x.at = "store" => keyDb = 0) /\ (x.at = "reset" => x.old = {})  BY DEF Orderly, Keying
  <2>4. Known' = Known  BY DEF Known
  <2>5. QED BY <1>1, <1>2, <1>3, <1>4, <2>1, <2>2, <2>3, <2>4 DEF Keying
<1>7. Reachable(y)'  BY <1>1, <1>4 DEF Orderly, Reachable, Lost, Named
<1>8. Agree(y)'  BY <1>4 DEF Orderly, Agree
<1>9. OwnFile(y)'
  <2>1. y.at = "read" => y.for \in {"find", "names"}  BY <1>1 DEF Orderly, OwnFile
  <2>2. y.at \in Reading => y.at = "read"  BY <1>1, <1>2 DEF Reading
  <2>3. QED BY <1>1, <1>2, <2>1, <2>2 DEF Orderly, OwnFile, Receiving, MakingAt
<1>10. Closable(y)'  BY DEF Orderly, Closable
<1>11. QED BY <1>5, <1>6, <1>7, <1>8, <1>9, <1>10 DEF Orderly

\* It is written.
LEMMA PruneWriteCalm ==
  ASSUME NEW t, NEW x \in Page, NEW y \in Page, Grounds(t, x), Orderly(x),
         UNCHANGED <<world, keyDb, disk, horizon, left, legacy>>, may'["storage"] = 0,
         reg' = Holds(x.old), x.prune = "write", y = [x EXCEPT !.prune = "none"]
  PROVE  Orderly(y)'
<1>1. /\ y.at = x.at /\ y.file = x.file /\ y.snap = x.snap /\ y.for = x.for /\ y.key = x.key /\ y.part = x.part
      /\ y.old = x.old /\ y.prune = "none"
  BY DEF Page
<1>2. x.at \in {"idle", "key", "store", "reset", "keyed", "read"}
  BY DEF Grounds, StageAt, Early, Orderly, Undisturbed
<1>3. reg'.recs = x.old /\ reg'.broken = FALSE  BY DEF Holds
<1>4. InForce(y)' = x.old /\ InForce(x) = x.old  BY <1>1, <1>2, <1>3 DEF InForce
<1>5. legacy = {}  BY <1>2 DEF Orderly, Undisturbed
<1>6. Undisturbed(y)'  BY <1>1, <1>2, <1>3, <1>5 DEF Orderly, Undisturbed
<1>7. Keying(y)'  BY <1>1, <1>2, <1>3, <1>4, <1>5 DEF Orderly, Keying, Known
<1>8. Reachable(y)'  BY <1>1, <1>4 DEF Orderly, Reachable, Lost, Named
<1>9. Agree(y)'  BY <1>4 DEF Orderly, Agree
<1>10. OwnFile(y)'
  <2>1. y.at = "read" => y.for \in {"find", "names"}  BY <1>1 DEF Orderly, OwnFile
  <2>2. y.at \in Reading => y.at = "read"  BY <1>1, <1>2 DEF Reading
  <2>3. QED BY <1>1, <1>2, <2>1, <2>2 DEF Orderly, OwnFile, Receiving, MakingAt
<1>11. Closable(y)'  BY DEF Orderly, Closable
<1>12. QED BY <1>6, <1>7, <1>8, <1>9, <1>10, <1>11 DEF Orderly

\* The page takes the records older versions left.
LEMMA LoadCalm ==
  ASSUME NEW t, NEW x \in Page, NEW y \in Page, Grounds(t, x), Orderly(x),
         UNCHANGED <<world, keyDb, reg, disk, horizon, left>>, may'["storage"] = 0,
         legacy' = {}, x.at = "closed", NEW L, L = legacy,
         y = [Closed EXCEPT !.prune = "read", !.at = "idle", !.old = L]
  PROVE  Orderly(y)'
<1>1. y.prune = "read" /\ y.at = "idle" /\ y.old = L /\ y.snap = {} /\ y.key = NoKey  BY ClosedPage DEF Page
<1>2. x.prune = "none"  BY DEF Grounds, StageAt
<1>3. InForce(y)' = reg.recs /\ InForce(x) = reg.recs  BY <1>1, <1>2 DEF InForce
<1>4. Undisturbed(y)'  BY <1>1 DEF Orderly, Undisturbed
<1>5. Keying(y)'  BY <1>1, <1>3 DEF Orderly, Keying, Known
<1>6. Reachable(y)'  BY <1>1, <1>3 DEF Orderly, Reachable, Lost, Named
<1>7. Agree(y)'  BY <1>3 DEF Orderly, Agree
<1>8. OwnFile(y)'  BY <1>1 DEF OwnFile, Reading, Receiving, MakingAt
<1>9. Closable(y)'  BY <1>1, <1>2 DEF Orderly, Closable, Reading
<1>10. QED BY <1>4, <1>5, <1>6, <1>7, <1>8, <1>9 DEF Orderly

\* A page is closed at an await.
LEMMA ClosePageCalm ==
  ASSUME NEW t, NEW x \in Page, Grounds(t, x), Orderly(x), world.may["close"] > 0,
         UNCHANGED <<world, keyDb, reg, legacy, disk, horizon, left>>, may'["storage"] = 0,
         NEW y, y = Closed
  PROVE  Orderly(y)'
<1>1. y.prune = "none" /\ y.at = "closed" /\ y.old = {} /\ y.snap = {} /\ y.key = NoKey  BY ClosedPage
<1>2. /\ horizon = 0 /\ legacy = {} /\ x.prune \in {"none", "read"} /\ x.at \notin {"replace", "rewrite"}
      /\ x.at = "discard" => PartOf(x) = {}
  BY DEF Orderly, Closable
<1>3. InForce(y)' = reg.recs /\ InForce(x) = reg.recs  BY <1>1, <1>2 DEF InForce
<1>4. Undisturbed(y)'  BY <1>1, <1>2 DEF Orderly, Undisturbed
<1>5. Keying(y)'  BY <1>1, <1>2, <1>3 DEF Orderly, Keying, Known
<1>6. Reachable(y)'  BY <1>1, <1>2, <1>3 DEF Orderly, Reachable, Lost, Named, PartOf
<1>7. Agree(y)'  BY <1>3 DEF Orderly, Agree
<1>8. OwnFile(y)'  BY <1>1 DEF OwnFile, Reading, Receiving, MakingAt
<1>9. Closable(y)'  BY <1>1, <1>2 DEF Orderly, Closable, Reading
<1>10. QED BY <1>4, <1>5, <1>6, <1>7, <1>8, <1>9 DEF Orderly

\* The operation reads a registry with something to scrub.
LEMMA ReadCalm ==
  ASSUME NEW t, NEW x \in Page, NEW y \in Page, Grounds(t, x), Orderly(x), horizon \in Nat,
         UNCHANGED <<world, keyDb, reg, legacy, disk, horizon, left>>, may'["storage"] = 0,
         x.at = "read", x.prune = "none", Changed(reg.recs),
         NEW S, S = Sanitized(reg.recs), y = [x EXCEPT !.at = "replace", !.snap = S]
  PROVE  Orderly(y)'
<1>1. /\ y.prune = x.prune /\ y.old = x.old /\ y.file = x.file /\ y.for = x.for /\ y.key = x.key /\ y.part = x.part
      /\ y.at = "replace" /\ y.snap = S
  BY DEF Page
<1>2. InForce(x) = reg.recs /\ InForce(y)' = S  BY <1>1 DEF InForce
<1>3. reg.recs \subseteq Record  BY DEF Grounds, Registered
<1>4. /\ \A r \in S : \E q \in reg.recs : r.key = q.key /\ r.file = q.file /\ r.part = q.part
      /\ \A q \in reg.recs : q.part # 0 /\ q.part > horizon =>
           \E r \in S : r.key = q.key /\ r.file = q.file /\ r.part = q.part
  BY <1>3, SanitizedMembers DEF Fresh
<1>5. \A p \in disk : p.part # 0 /\ p.part \in Nat  BY Numbers DEF Grounds, Partial
<1>6. legacy = {}  BY DEF Orderly, Undisturbed
<1>7. Undisturbed(y)'  BY <1>1, <1>6 DEF Orderly, Undisturbed
<1>8. Keying(y)'
  <2>1. \A r \in S : r.key = keyDb /\ r.file \in Known  BY <1>4 DEF Orderly, Keying
  <2>2. QED BY <1>1, <1>2, <1>6, <2>1 DEF Orderly, Keying, Known
<1>9. Reachable(y)'
  <2>1. ASSUME NEW p \in disk, p.data, ~Lost(p) PROVE Named(p, S)
    <3>1. PICK q \in reg.recs : q.part = p.part /\ q.file = p.file  BY <1>2, <2>1 DEF Orderly, Reachable, Named
    <3>2. q.part # 0 /\ q.part > horizon  BY <1>5, <2>1, <3>1 DEF Lost
    <3>3. QED BY <1>4, <3>1, <3>2 DEF Named
  <2>2. QED BY <1>2, <2>1 DEF Reachable, Lost
<1>10. Agree(y)'  BY <1>2, <1>4 DEF Orderly, Agree
<1>11. OwnFile(y)'
  <2>1. MakingAt(y) <=> MakingAt(x)  BY <1>1 DEF MakingAt, Reading
  <2>2. \A r \in Own(y, S) : \E q \in Own(x, reg.recs) : r.part = q.part  BY <1>1, <1>4 DEF Own
  <2>3. x.at \in Reading /\ y.at \in Reading  BY <1>1 DEF Reading
  <2>4. (MakingAt(y) => Own(y, S) = {}) /\ (y.for \in {"gone", "publish", "again", "mismatch"} => \A r \in Own(y, S) : r.part = y.part)
    BY <1>1, <1>2, <2>1, <2>2, <2>3 DEF Orderly, OwnFile
  <2>5. PartOf(y)' = PartOf(x)  BY <1>1 DEF PartOf
  <2>6. QED BY <1>1, <1>2, <2>1, <2>3, <2>4, <2>5 DEF Orderly, OwnFile, Own, Receiving
<1>12. Closable(y)'
  <2>1. ~(world.may["close"] > 0)  BY <1>3, CleanUnchanged DEF Orderly, Closable
  <2>2. QED BY <2>1 DEF Closable
<1>13. QED BY <1>7, <1>8, <1>9, <1>10, <1>11, <1>12 DEF Orderly

\* The first half of the replacement.
LEMMA ReadClearCalm ==
  ASSUME NEW t, NEW x \in Page, NEW y \in Page, Grounds(t, x), Orderly(x),
         UNCHANGED <<world, keyDb, disk, horizon, left>>, may'["storage"] = 0,
         reg' = Holds({}), legacy' = {}, x.at = "replace", y = [x EXCEPT !.at = "rewrite"]
  PROVE  Orderly(y)'
<1>1. /\ y.prune = x.prune /\ y.old = x.old /\ y.file = x.file /\ y.for = x.for /\ y.key = x.key /\ y.part = x.part
      /\ y.at = "rewrite" /\ y.snap = x.snap
  BY DEF Page
<1>2. x.prune = "none"  BY DEF Grounds, StageAt, Early
<1>3. InForce(x) = x.snap /\ InForce(y)' = x.snap  BY <1>1, <1>2 DEF InForce
<1>4. reg'.recs = {} /\ reg'.broken = FALSE  BY DEF Holds
<1>5. Undisturbed(y)'  BY <1>1, <1>2, <1>4 DEF Orderly, Undisturbed
<1>6. Keying(y)'  BY <1>1, <1>2, <1>3, <1>4 DEF Orderly, Keying, Known
<1>7. Reachable(y)'  BY <1>1, <1>3 DEF Orderly, Reachable, Lost, Named
<1>8. Agree(y)'  BY <1>3 DEF Orderly, Agree
<1>9. OwnFile(y)'  BY <1>1, <1>3 DEF Orderly, OwnFile, Own, PartOf, Reading, Receiving, MakingAt
<1>10. Closable(y)'  BY DEF Orderly, Closable
<1>11. QED BY <1>5, <1>6, <1>7, <1>8, <1>9, <1>10 DEF Orderly

\* The operation goes on with what it read, which is what the registry holds now.
LEMMA FoundCalm ==
  ASSUME NEW t, NEW x \in Page, NEW y \in Page, Grounds(t, x), Orderly(x), NEW S, S = InForce(x),
         UNCHANGED <<world, keyDb, disk, horizon, left>>, may'["storage"] = 0,
         reg' = Holds(S), legacy' \in {legacy, {}}, x.at \in {"read", "replace", "rewrite"}, x.prune = "none",
         y.prune = x.prune, y.old = x.old, y.for = x.for, y.file = x.file, y.key = x.key,
         \/ /\ x.for = "find" /\ y.at = "open"
            /\ \E r \in Own(x, S) : r.part = y.part
         \/ x.for = "find" /\ y.at = "create" /\ Own(x, S) = {}
         \/ x.for = "names" /\ y.at = "pick" /\ y.snap = S
         \/ x.for \notin {"find", "names"} /\ y.at = "write" /\ y.snap = S /\ y.part = x.part
  PROVE  Orderly(y)'
<1>1. reg'.recs = S /\ reg'.broken = FALSE  BY DEF Holds
<1>2. InForce(y)' = S  BY <1>1 DEF InForce
<1>3. legacy = {} /\ legacy' = {}  BY DEF Orderly, Undisturbed
<1>4. Undisturbed(y)'  BY <1>1, <1>3 DEF Orderly, Undisturbed
<1>5. Keying(y)'  BY <1>1, <1>2, <1>3 DEF Orderly, Keying, Known
<1>6. Reachable(y)'  BY <1>2 DEF Orderly, Reachable, Lost, Named
<1>7. Agree(y)'  BY <1>2 DEF Orderly, Agree
<1>8. OwnFile(y)'
  <2>1. Own(y, S) = Own(x, S)  BY DEF Own
  <2>2. MakingAt(y) => MakingAt(x) /\ y.part = x.part  BY DEF MakingAt, Reading
  <2>3. x.at \in Reading  BY DEF Reading
  <2>4. y.at = "write" => PartOf(y)' = PartOf(x) /\ y.part = x.part  BY DEF PartOf
  <2>5. y.at \in Reading => y.at = "write"  BY DEF Reading
  <2>6. x.for # "names" => x.file \in world.want  BY <2>3 DEF Orderly, OwnFile
  <2>7. x.for \in {"gone", "publish", "again"} => PartOf(x) = {}  BY <2>3 DEF Orderly, OwnFile
  <2>8. x.for \in {"gone", "publish", "again", "mismatch"} => \A r \in Own(x, S) : r.part = x.part
    BY <2>3 DEF Orderly, OwnFile
  <2>9. MakingAt(x) => Own(x, S) = {} /\ \A p \in disk : p.part = x.part => p.file = x.file
    BY DEF Orderly, OwnFile
  <2>10. y.at \in {"open", "create", "pick", "write"}  OBVIOUS
  <2> HIDE DEF Own, PartOf
  <2>11. Own(y, InForce(y))' = Own(x, S)  BY <1>2, <2>1 DEF Own
  <2>12. QED BY <1>1, <2>2, <2>4, <2>5, <2>6, <2>7, <2>8, <2>9, <2>10, <2>11 DEF OwnFile, Receiving
<1>9. Closable(y)'
  <2>1. ASSUME world.may["close"] > 0 PROVE S = reg.recs  BY <2>1 DEF Orderly, Closable, InForce
  <2>2. x.at \in Reading  BY DEF Reading
  <2>3. QED BY <1>1, <1>3, <2>1, <2>2 DEF Orderly, Closable
<1>10. QED BY <1>4, <1>5, <1>6, <1>7, <1>8, <1>9 DEF Orderly

\* There are as many known files as records at most.
LEMMA KnownFinite ==
  ASSUME TypeInv, Calm
  PROVE  IsFiniteSet(Known) /\ Cardinality(Known) <= MaxRecords
<1> DEFINE R == world.recs \cup world.legacy
           F == {r.file : r \in R}
           f == [r \in R |-> r.file]
<1>1. world \in Worlds  BY DEF TypeInv, Base
<1>2. IsFiniteSet(world.recs) /\ IsFiniteSet(world.legacy) /\ IsFiniteSet(world.want)  BY <1>1, WorldAssumption
<1>3. IsFiniteSet(R)  BY <1>2, FS_Union
<1>4. f \in Surjection(R, F)  BY DEF Surjection
<1>5. IsFiniteSet(F)
  <2> HIDE DEF f, F, R
  <2> QED BY <1>3, <1>4, FS_Surjection
<1>6. Known = world.want \cup F  BY DEF Known
<1>7. IsFiniteSet(Known)
  <2> HIDE DEF F
  <2> QED BY <1>2, <1>5, <1>6, FS_Union
<1>8. Cardinality(Known) <= MaxRecords  BY DEF Calm, Known
<1>9. QED BY <1>7, <1>8

\* When there are no more files than records, remembering one drops no other.
LEMMA RememberedAlone ==
  ASSUME NEW S, Registered(S, made), NEW r \in Record, NEW F, IsFiniteSet(F), Cardinality(F) <= MaxRecords,
         \A s \in S \cup {r} : s.key = r.key /\ s.file \in F
  PROVE  Remembered(S, r) = {s \in S : <<s.key, s.file>> # <<r.key, r.file>> /\ Fresh(s)} \cup {r}
<1> DEFINE T == {s \in S : <<s.key, s.file>> # <<r.key, r.file>> /\ Fresh(s)}
           all == T \cup {r}
           newer(s) == {u \in all : u.part > s.part}
           f == [s \in all |-> s.file]
<1>1. Remembered(S, r) = {s \in all : Cardinality(newer(s)) < MaxRecords}  BY DEF Remembered
<1>2. \A s, u \in all : s.file = u.file => s = u
  <2> SUFFICES ASSUME NEW s \in all, NEW u \in all, s.file = u.file PROVE s = u  OBVIOUS
  <2>1. s.key = u.key  OBVIOUS
  <2>2. CASE s \in T /\ u \in T  BY <2>1, <2>2 DEF Registered, Registry
  <2>3. CASE s = r /\ u \in T  BY <2>1, <2>3
  <2>4. CASE s \in T /\ u = r  BY <2>1, <2>4
  <2>5. QED BY <2>2, <2>3, <2>4
<1>3. f \in [all -> F] /\ \A s \in all : f[s] = s.file  OBVIOUS
<1> HIDE DEF T
<1>4. f \in Injection(all, F)
  <2> HIDE DEF all, f
  <2> QED BY <1>2, <1>3 DEF Injection, IsInjective
<1>5. IsFiniteSet(all) /\ Cardinality(all) <= Cardinality(F)
  <2> HIDE DEF all, f
  <2> QED BY <1>4, FS_Injection
<1>6. \A s \in all : s.part \in Nat  BY Numbers DEF T, Record, Registered
<1>7. ASSUME NEW s \in all PROVE Cardinality(newer(s)) < MaxRecords
  <2>1. newer(s) \in SUBSET all /\ s \notin newer(s)
    <3>1. ~(s.part > s.part)  BY <1>6
    <3>2. QED BY <3>1
  <2> DEFINE A == newer(s)
  <2>2. A \in SUBSET all /\ A # all  BY <2>1
  <2> HIDE DEF A, all
  <2>3. IsFiniteSet(A) /\ Cardinality(A) <= Cardinality(all) /\ (Cardinality(all) = Cardinality(A) => all = A)
    BY <1>5, <2>2, FS_Subset
  <2>4. Cardinality(A) \in Nat /\ Cardinality(all) \in Nat /\ Cardinality(F) \in Nat  BY <1>5, <2>3, FS_CardinalityType
  <2>5. Cardinality(A) < MaxRecords  BY <1>5, <2>2, <2>3, <2>4, Numbers
  <2>6. QED BY <2>5 DEF A
<1>8. QED
  <2>1. {s \in all : Cardinality(newer(s)) < MaxRecords} = all
    <3> HIDE DEF newer, all
    <3> QED BY <1>7
  <2>2. QED BY <1>1, <2>1 DEF T

\* The registry is written: the page's record is new in it, or gone.
LEMMA WriteCalm ==
  ASSUME NEW t, NEW x \in Page, NEW y \in Page, Grounds(t, x), Orderly(x), made \in Nat, horizon \in Nat,
         IsFiniteSet(Known), Cardinality(Known) <= MaxRecords,
         UNCHANGED <<world, keyDb, disk, horizon, left, legacy>>, may'["storage"] = 0,
         x.at = "write", NEW out, reg' = Holds(out), NEW r,
         r = [key |-> x.key.id, file |-> x.file, part |-> x.part, extra |-> FALSE],
         NEW a, y = [x EXCEPT !.at = a],
         \/ x.for = "remember" /\ a = "moving" /\ out = Remembered(x.snap, r)
         \/ x.for = "gone" /\ a = "create" /\ out = Forgotten(x.snap, x.key.id, x.file)
         \/ x.for = "publish" /\ a = "done" /\ out = Forgotten(x.snap, x.key.id, x.file)
         \/ x.for = "mismatch" /\ a = "discard" /\ out = Forgotten(x.snap, x.key.id, x.file)
         \/ x.for = "again" /\ a = "idle" /\ out = Forgotten(x.snap, x.key.id, x.file)
  PROVE  Orderly(y)'
<1>1. /\ y.prune = x.prune /\ y.old = x.old /\ y.file = x.file /\ y.for = x.for /\ y.key = x.key /\ y.part = x.part
      /\ y.at = a /\ y.snap = x.snap
  BY DEF Page
<1>2. reg'.recs = out /\ reg'.broken = FALSE  BY DEF Holds
<1>3. x.prune = "none" /\ x.key.kind = "stored" /\ x.key.id # 0 /\ x.at \in Reading /\ legacy = {}
  BY DEF Grounds, StageAt, Early, Reading, Orderly, Undisturbed
<1>4. x.key.id = keyDb /\ x.file \in world.want /\ x.file \in Known
  <2>1. x.key # NoKey  BY <1>3 DEF NoKey
  <2>2. x.for # "names"  OBVIOUS
  <2>3. QED BY <1>3, <2>1, <2>2 DEF Orderly, Keying, OwnFile, Known
<1>5. reg.recs = x.snap /\ InForce(x) = x.snap  BY <1>3 DEF Orderly, OwnFile, InForce
<1>6. Registered(x.snap, made) /\ x.snap \subseteq Record /\ \A s \in x.snap : s.key = keyDb /\ s.file \in Known
  BY <1>5 DEF Grounds, Registered, Orderly, Keying
<1>7. InForce(y)' = out  BY <1>1, <1>2, <1>3 DEF InForce
<1>8. y.at \notin {"closed", "wipe", "unstore", "giveup", "store", "reset", "unkey", "erase", "write", "pick", "read",
                  "key", "keyed", "replace", "rewrite", "open"}
  BY <1>1
<1>9. ~MakingAt(y) /\ y.at \notin Reading  BY <1>8 DEF MakingAt, Reading
<1>10. \A p, q \in disk : p.part = q.part => p = q  BY DEF Grounds
<1>11. \A p \in disk : p.part \in Nat  BY Numbers DEF Grounds, Partial
<1>12. Undisturbed(y)'  BY <1>1, <1>2, <1>3, <1>8 DEF Orderly, Undisturbed
<1>13. CASE x.for = "remember"
  <2>1. a = "moving" /\ out = Remembered(x.snap, r) /\ MakingAt(x)  BY <1>3, <1>13 DEF MakingAt
  <2>2. r.key = keyDb /\ r.file = x.file /\ r.part = x.part /\ r.extra = FALSE  BY <1>4
  <2>3. x.part \in 1 .. made /\ x.part # 0  BY <2>1 DEF Grounds
  <2>4. r \in Record
    <3>1. x.key.id \in 1 .. MaxKey /\ x.file \in Files /\ x.part \in 0 .. MaxPart  BY <1>3, Numbers DEF Page
    <3>2. QED BY <3>1 DEF Record
  <2>5. out = {s \in x.snap : <<s.key, s.file>> # <<r.key, r.file>> /\ Fresh(s)} \cup {r}
    <3>1. \A s \in x.snap \cup {r} : s.key = r.key /\ s.file \in Known  BY <1>4, <1>6, <2>2
    <3>2. QED BY <1>6, <2>1, <2>4, <3>1, RememberedAlone
  <2>6. \A s \in x.snap : <<s.key, s.file>> # <<r.key, r.file>>
    <3>1. Own(x, x.snap) = {}  BY <1>5, <2>1 DEF Orderly, OwnFile
    <3>2. QED BY <1>4, <2>2, <3>1 DEF Own
  <2>7. Keying(y)'
    <3>1. \A s \in out : s.key = keyDb /\ s.file \in Known  BY <1>4, <1>6, <2>2, <2>5
    <3>2. QED BY <1>1, <1>2, <1>3, <1>7, <1>8, <3>1 DEF Orderly, Keying, Known
  <2>8. Reachable(y)'
    <3>1. ASSUME NEW p \in disk, p.data, ~Lost(p) PROVE Named(p, out)
      <4>1. PICK s \in x.snap : s.part = p.part /\ s.file = p.file  BY <1>5, <3>1 DEF Orderly, Reachable, Named
      <4>2. Fresh(s)  BY <1>11, <3>1, <4>1 DEF Fresh, Lost
      <4>3. s \in out  BY <2>5, <2>6, <4>1, <4>2
      <4>4. QED BY <4>1, <4>3 DEF Named
    <3>2. QED BY <1>7, <3>1 DEF Reachable, Lost
  <2>9. Agree(y)'
    <3>1. \A p \in disk : p.part = x.part => p.file = x.file  BY <2>1 DEF Orderly, OwnFile
    <3>2. \A s \in x.snap : \A p \in disk : s.part = p.part => s.file = p.file  BY <1>5 DEF Orderly, Agree
    <3>3. \A s \in out : s \in x.snap \/ s = r  BY <2>5
    <3>4. QED BY <1>7, <2>2, <3>1, <3>2, <3>3 DEF Agree
  <2>10. OwnFile(y)'
    <3>1. r \in Own(y, out) /\ r.part = y.part  BY <1>1, <1>4, <2>2, <2>5 DEF Own
    <3>2. y.at = "moving"  BY <1>1, <2>1
    <3>3. \E s \in Own(y, InForce(y))' : s.part = y.part  BY <1>7, <3>1 DEF Own
    <3>4. QED BY <1>1, <1>4, <1>9, <3>2, <3>3 DEF OwnFile
  <2>11. Closable(y)'
    <3>1. \A s \in out : s \in x.snap \/ s = r  BY <2>5
    <3>2. QED BY <1>1, <1>2, <1>5, <1>8, <1>9, <2>1, <2>2, <2>3, <3>1 DEF Orderly, Closable
  <2>12. QED BY <1>12, <2>7, <2>8, <2>9, <2>10, <2>11 DEF Orderly
<1>14. CASE x.for # "remember"
  <2>1. out = {s \in x.snap : <<s.key, s.file>> # <<x.key.id, x.file>>}  BY <1>14 DEF Forgotten
  <2>2. x.for \in {"gone", "publish", "again", "mismatch"}  BY <1>14
  <2>3. \A s \in Own(x, x.snap) : s.part = x.part  BY <1>3, <1>5, <2>2 DEF Orderly, OwnFile
  <2>4. x.for # "mismatch" => PartOf(x) = {} /\ PartOf(y)' = {}
    <3>1. x.for # "mismatch" => PartOf(x) = {}  BY <1>3, <2>2 DEF Orderly, OwnFile
    <3>2. PartOf(y)' = PartOf(x)  BY <1>1 DEF PartOf
    <3>3. QED BY <3>1, <3>2
  <2>5. Own(y, out) = {}  BY <1>1, <2>1 DEF Own
  <2>6. Keying(y)'  BY <1>1, <1>2, <1>3, <1>6, <1>7, <1>8, <2>1 DEF Orderly, Keying, Known
  <2>7. Reachable(y)'
    <3>1. ASSUME NEW p \in disk, p.data, ~Lost(p), ~(a = "discard" /\ p.part = x.part) PROVE Named(p, out)
      <4>1. PICK s \in x.snap : s.part = p.part /\ s.file = p.file  BY <1>5, <3>1 DEF Orderly, Reachable, Named
      <4>2. s.part # x.part
        <5>1. CASE x.for = "mismatch"  BY <3>1, <4>1, <5>1
        <5>2. CASE x.for # "mismatch"  BY <2>4, <4>1, <5>2 DEF PartOf
        <5>3. QED BY <5>1, <5>2
      <4>3. s \in out  BY <2>1, <2>3, <4>2 DEF Own
      <4>4. QED BY <4>1, <4>3 DEF Named
    <3>2. QED BY <1>1, <1>7, <3>1 DEF Reachable, Lost
  <2>8. Agree(y)'  BY <1>5, <1>7, <2>1 DEF Orderly, Agree
  <2>9. OwnFile(y)'
    <3>1. Own(y, InForce(y))' = {}  BY <1>7, <2>5 DEF Own
    <3>2. y.at \in {"create", "done", "discard", "idle"}  BY <1>1, <1>14
    <3>3. y.at = "done" => x.for # "mismatch"  BY <1>1
    <3>4. QED BY <1>1, <1>4, <1>9, <2>4, <3>1, <3>2, <3>3 DEF OwnFile
  <2>10. Closable(y)'
    <3>1. world.may["close"] > 0 => x.for # "mismatch"  BY <1>3 DEF Orderly, Closable
    <3>2. QED BY <1>1, <1>2, <1>5, <1>8, <1>9, <2>1, <2>4, <3>1 DEF Orderly, Closable
  <2>11. QED BY <1>12, <2>6, <2>7, <2>8, <2>9, <2>10 DEF Orderly
<1>15. QED BY <1>13, <1>14

\* The records of a registry for one identifier are one.
LEMMA OneOwn ==
  ASSUME NEW S, Registered(S, made), NEW x, \E r \in Own(x, S) : r.part = x.part
  PROVE  \A r \in Own(x, S) : r.part = x.part
  BY DEF Registered, Registry, Own

\* The page looks for the partial its record names.
LEMMA OpenPartCalm ==
  ASSUME NEW t, NEW x \in Page, NEW y \in Page, Grounds(t, x), Orderly(x),
         UNCHANGED <<world, keyDb, reg, legacy, disk, horizon, left>>, may'["storage"] = 0,
         x.at = "open",
         \/ y = [x EXCEPT !.at = "moving"]
         \/ PartOf(x) = {} /\ y = [x EXCEPT !.at = "read", !.for = "gone"]
  PROVE  Orderly(y)'
<1>1. /\ y.prune = x.prune /\ y.old = x.old /\ y.file = x.file /\ y.snap = x.snap /\ y.key = x.key /\ y.part = x.part
      /\ \/ y.at = "moving"
         \/ PartOf(x) = {} /\ y.at = "read" /\ y.for = "gone"
  <2>1. CASE y = [x EXCEPT !.at = "moving"]  BY <2>1 DEF Page
  <2>2. CASE PartOf(x) = {} /\ y = [x EXCEPT !.at = "read", !.for = "gone"]  BY <2>2 DEF Page
  <2>3. QED BY <2>1, <2>2
<1>2. InForce(y) = InForce(x)  BY <1>1, SameForce
<1>3. x.prune = "none"  BY DEF Grounds, StageAt, Early
<1>4. Keying(y)  BY <1>1, <1>2, <1>3 DEF Orderly, Keying
<1>5. OwnFile(y)
  <2>1. x.file \in world.want /\ \E r \in Own(x, InForce(x)) : r.part = x.part
    BY DEF Orderly, OwnFile, Receiving
  <2>2. InForce(x) = reg.recs  BY <1>3 DEF InForce
  <2>3. \A r \in Own(x, InForce(x)) : r.part = x.part  BY <2>1, <2>2, OneOwn DEF Grounds
  <2>4. Own(y, InForce(y)) = Own(x, InForce(x)) /\ PartOf(y) = PartOf(x)  BY <1>1, <1>2 DEF Own, PartOf
  <2>5. ~MakingAt(y)  BY <1>1 DEF MakingAt, Reading
  <2>6. QED BY <1>1, <1>3, <2>1, <2>3, <2>4, <2>5 DEF OwnFile, Reading
<1>6. Closable(y)  BY <1>1 DEF Orderly, Closable, Reading
<1>7. QED BY <1>1, <1>2, <1>4, <1>5, <1>6, Continues

\* A partial is made, empty and under a name no record has.
LEMMA CreatePartCalm ==
  ASSUME NEW t, NEW x \in Page, NEW y \in Page, Grounds(t, x), Orderly(x), made \in Nat,
         UNCHANGED <<world, keyDb, reg, legacy, horizon, left>>, may'["storage"] = 0,
         x.at = "create", NEW n, n = made + 1, NEW q, q = [part |-> n, file |-> x.file, data |-> FALSE],
         disk' = disk \cup {q}, y = [x EXCEPT !.at = "read", !.for = "remember", !.part = n]
  PROVE  Orderly(y)'
<1>1. /\ y.prune = x.prune /\ y.old = x.old /\ y.file = x.file /\ y.snap = x.snap /\ y.key = x.key /\ y.part = n
      /\ y.at = "read" /\ y.for = "remember"
  BY DEF Page
<1>2. x.prune = "none" /\ legacy = {}  BY DEF Grounds, StageAt, Early, Orderly, Undisturbed
<1>3. InForce(x) = reg.recs /\ InForce(y)' = reg.recs  BY <1>1, <1>2 DEF InForce
<1>4. q.part = n /\ q.file = x.file /\ ~q.data  OBVIOUS
<1>5. \A p \in disk : p.part # n
  <2>1. \A p \in disk : p.part \in Nat /\ p.part <= made  BY Numbers DEF Grounds, Partial
  <2>2. QED BY <2>1
<1>6. \A r \in reg.recs : r.part # n
  <2>1. \A r \in reg.recs : r.part \in Nat /\ r.part <= made  BY Numbers DEF Grounds, Registered, Record
  <2>2. QED BY <2>1
<1>7. Undisturbed(y)'  BY <1>1, <1>2 DEF Orderly, Undisturbed
<1>8. Keying(y)'  BY <1>1, <1>2, <1>3 DEF Orderly, Keying, Known
<1>9. Reachable(y)'  BY <1>3, <1>4 DEF Orderly, Reachable, Lost, Named
<1>10. Agree(y)'  BY <1>3, <1>4, <1>6 DEF Orderly, Agree
<1>11. OwnFile(y)'
  <2>1. x.file \in world.want /\ Own(x, reg.recs) = {}  BY <1>3 DEF Orderly, OwnFile, Receiving
  <2>2. Own(y, InForce(y))' = {}  BY <1>1, <1>3, <2>1 DEF Own
  <2>3. \A p \in disk' : p.part = n => p.file = x.file  BY <1>4, <1>5
  <2>4. QED BY <1>1, <1>2, <2>1, <2>2, <2>3 DEF OwnFile
<1>12. Closable(y)'  BY <1>1 DEF Orderly, Closable
<1>13. QED BY <1>7, <1>8, <1>9, <1>10, <1>11, <1>12 DEF Orderly

\* A transfer fails: what has arrived is kept, and the page's record names it.
LEMMA TransferFailsCalm ==
  ASSUME NEW t, NEW x \in Page, NEW y \in Page, Grounds(t, x), Orderly(x),
         UNCHANGED <<world, keyDb, reg, legacy, horizon, left>>, may'["storage"] = 0,
         x.at = "moving", disk' = (disk \ PartOf(x)) \cup {[p EXCEPT !.data = TRUE] : p \in PartOf(x)},
         y = [x EXCEPT !.at = "idle"]
  PROVE  Orderly(y)'
<1>1. /\ y.prune = x.prune /\ y.old = x.old /\ y.file = x.file /\ y.snap = x.snap /\ y.key = x.key /\ y.part = x.part
      /\ y.at = "idle" /\ y.for = x.for
  BY DEF Page
<1>2. x.prune = "none" /\ legacy = {}  BY DEF Grounds, StageAt, Early, Orderly, Undisturbed
<1>3. InForce(x) = reg.recs /\ InForce(y)' = reg.recs  BY <1>1, <1>2 DEF InForce
<1>4. \A q \in disk' : \/ q \in disk
                       \/ \E p \in disk : q.part = p.part /\ q.file = p.file /\ p.part = x.part
  <2>1. \A p \in disk : LET q == [p EXCEPT !.data = TRUE] IN q.part = p.part /\ q.file = p.file
    BY DEF Grounds, Partial
  <2>2. QED BY <2>1 DEF PartOf
<1>5. PICK r \in reg.recs : r.part = x.part  BY <1>3 DEF Orderly, OwnFile, Own
<1>6. Undisturbed(y)'  BY <1>1, <1>2 DEF Orderly, Undisturbed
<1>7. Keying(y)'  BY <1>1, <1>2, <1>3 DEF Orderly, Keying, Known
<1>8. Reachable(y)'
  <2> SUFFICES ASSUME NEW q \in disk', q.data PROVE Lost(q) \/ Named(q, reg.recs)
    BY <1>3 DEF Reachable, Lost, Named
  <2>1. CASE q \in disk  BY <1>3, <2>1 DEF Orderly, Reachable
  <2>2. CASE q \notin disk
    <3>1. PICK p \in disk : q.part = p.part /\ q.file = p.file /\ p.part = x.part  BY <1>4, <2>2
    <3>2. r.file = p.file  BY <1>3, <1>5, <3>1 DEF Orderly, Agree
    <3>3. QED BY <1>5, <3>1, <3>2 DEF Named
  <2>3. QED BY <2>1, <2>2
<1>9. Agree(y)'  BY <1>3, <1>4 DEF Orderly, Agree
<1>10. OwnFile(y)'  BY <1>1, <1>2 DEF OwnFile, Reading, Receiving, MakingAt
<1>11. Closable(y)'  BY <1>1 DEF Orderly, Closable, Reading
<1>12. QED BY <1>6, <1>7, <1>8, <1>9, <1>10, <1>11 DEF Orderly

\* A hash that differs: not where the page may be closed.
LEMMA MismatchCalm ==
  ASSUME NEW t, NEW x \in Page, NEW y \in Page, Grounds(t, x), Orderly(x), ~(world.may["close"] > 0),
         UNCHANGED <<world, keyDb, reg, legacy, disk, horizon, left>>, may'["storage"] = 0,
         x.at = "moving", y = [x EXCEPT !.at = "read", !.for = "mismatch"]
  PROVE  Orderly(y)'
<1>1. /\ y.prune = x.prune /\ y.old = x.old /\ y.file = x.file /\ y.snap = x.snap /\ y.key = x.key /\ y.part = x.part
      /\ y.at = "read" /\ y.for = "mismatch"
  BY DEF Page
<1>2. InForce(y) = InForce(x)  BY <1>1, SameForce
<1>3. x.prune = "none"  BY DEF Grounds, StageAt, Early
<1>4. Keying(y)  BY <1>1, <1>2, <1>3 DEF Orderly, Keying
<1>5. OwnFile(y)
  <2>1. x.file \in world.want /\ \E r \in Own(x, InForce(x)) : r.part = x.part
    BY DEF Orderly, OwnFile, Receiving
  <2>2. InForce(x) = reg.recs  BY <1>3 DEF InForce
  <2>3. \A r \in Own(x, InForce(x)) : r.part = x.part  BY <2>1, <2>2, OneOwn DEF Grounds
  <2>4. Own(y, InForce(y)) = Own(x, InForce(x))  BY <1>1, <1>2 DEF Own
  <2>5. ~MakingAt(y)  BY <1>1 DEF MakingAt, Reading
  <2>6. QED BY <1>1, <1>3, <2>1, <2>3, <2>4, <2>5 DEF OwnFile
<1>6. Closable(y)  BY DEF Closable
<1>7. QED BY <1>1, <1>2, <1>4, <1>5, <1>6, Continues

\* A step of the operation that removes partials and leaves the registry alone.
LEMMA Removes ==
  ASSUME NEW x \in Page, NEW y \in Page, Orderly(x),
         UNCHANGED <<world, keyDb, reg, legacy, horizon, left>>, may'["storage"] = 0, disk' \subseteq disk,
         y.prune = x.prune, y.old = x.old, y.key = x.key, InForce(y) = InForce(x), x.at # "closed",
         y.at \notin {"closed", "wipe", "unstore", "giveup", "store", "reset", "unkey"},
         x.at = "discard" => \A p \in disk' : p.part # x.part,
         OwnFile(y)', Closable(y)'
  PROVE  Orderly(y)'
<1>1. InForce(y)' = InForce(x)  BY DEF InForce
<1>2. Undisturbed(y)'  BY DEF Orderly, Undisturbed
<1>3. Keying(y)'  BY <1>1 DEF Orderly, Keying, Known
<1>4. Reachable(y)'  BY <1>1 DEF Orderly, Reachable, Lost, Named
<1>5. Agree(y)'  BY <1>1 DEF Orderly, Agree
<1>6. QED BY <1>2, <1>3, <1>4, <1>5 DEF Orderly

\* The partial is removed before its record, when it is published, and after it when it
\* is discarded.
LEMMA RemovalCalm ==
  ASSUME NEW t, NEW x \in Page, NEW y \in Page, Grounds(t, x), Orderly(x),
         UNCHANGED <<world, keyDb, reg, legacy, horizon, left>>, may'["storage"] = 0,
         x.at \in {"moving", "discard"}, disk' = disk \ PartOf(x),
         \/ y = [x EXCEPT !.at = "idle"]
         \/ x.at = "moving" /\ y = [x EXCEPT !.at = "read", !.for = "publish"]
         \/ x.at = "discard" /\ y = [x EXCEPT !.at = "read", !.for = "again"]
  PROVE  Orderly(y)'
<1>1. /\ y.prune = x.prune /\ y.old = x.old /\ y.file = x.file /\ y.snap = x.snap /\ y.key = x.key /\ y.part = x.part
      /\ \/ y.at = "idle"
         \/ y.at = "read" /\ y.for = "publish" /\ x.at = "moving"
         \/ y.at = "read" /\ y.for = "again" /\ x.at = "discard"
  <2>1. CASE y = [x EXCEPT !.at = "idle"]  BY <2>1 DEF Page
  <2>2. CASE x.at = "moving" /\ y = [x EXCEPT !.at = "read", !.for = "publish"]  BY <2>2 DEF Page
  <2>3. CASE x.at = "discard" /\ y = [x EXCEPT !.at = "read", !.for = "again"]  BY <2>3 DEF Page
  <2>4. QED BY <2>1, <2>2, <2>3
<1>2. x.prune = "none"  BY DEF Grounds, StageAt, Early
<1>3. InForce(y) = InForce(x)  BY <1>1, SameForce
<1>4. disk' \subseteq disk /\ \A p \in disk' : p.part # x.part  BY DEF PartOf
<1>5. OwnFile(y)'
  <2>1. x.file \in world.want  BY DEF Orderly, OwnFile, Receiving
  <2>2. InForce(x) = reg.recs  BY <1>2 DEF InForce
  <2>3. \A r \in Own(x, InForce(x)) : r.part = x.part
    <3>1. CASE x.at = "moving"
      <4>1. \E r \in Own(x, InForce(x)) : r.part = x.part  BY <3>1 DEF Orderly, OwnFile
      <4>2. QED BY <2>2, <4>1, OneOwn DEF Grounds
    <3>2. CASE x.at = "discard"  BY <3>2 DEF Orderly, OwnFile
    <3>3. QED BY <3>1, <3>2
  <2>4. InForce(y)' = reg.recs  BY <1>1, <1>2 DEF InForce
  <2>5. Own(y, InForce(y))' = Own(x, InForce(x))  BY <1>1, <2>2, <2>4 DEF Own
  <2>6. PartOf(y)' = {}  BY <1>1, <1>4 DEF PartOf
  <2>7. ~MakingAt(y)  BY <1>1 DEF MakingAt, Reading
  <2>8. y.at \notin Receiving  BY <1>1 DEF Receiving
  <2>9. QED BY <1>1, <1>2, <2>1, <2>3, <2>5, <2>6, <2>7, <2>8 DEF OwnFile
<1>6. Closable(y)'  BY <1>1 DEF Orderly, Closable, Reading
<1>7. QED BY <1>1, <1>3, <1>4, <1>5, <1>6, Removes

\* The end of a receive; a file that is taken back has no partial any more.
LEMMA DoneCalm ==
  ASSUME NEW t, NEW x \in Page, NEW y \in Page, Grounds(t, x), Orderly(x),
         UNCHANGED <<world, keyDb, reg, legacy, disk, horizon, left>>, may'["storage"] = 0,
         x.at = "done", NEW a \in {"idle", "discard"}, y = [x EXCEPT !.at = a]
  PROVE  Orderly(y)'
<1>1. /\ y.prune = x.prune /\ y.old = x.old /\ y.file = x.file /\ y.snap = x.snap /\ y.key = x.key /\ y.part = x.part
      /\ y.at = a /\ y.for = x.for
  BY DEF Page
<1>2. InForce(y) = InForce(x)  BY <1>1, SameForce
<1>3. x.file \in world.want /\ Own(x, InForce(x)) = {} /\ PartOf(x) = {}  BY DEF Orderly, OwnFile, Receiving
<1>4. Own(y, InForce(y)) = {} /\ PartOf(y) = {}  BY <1>1, <1>2, <1>3 DEF Own, PartOf
<1>5. Keying(y)  BY <1>1, <1>2 DEF Orderly, Keying
<1>6. OwnFile(y)  BY <1>1, <1>3, <1>4 DEF OwnFile, Reading, MakingAt
<1>7. Closable(y)  BY <1>1, <1>4 DEF Orderly, Closable, Reading
<1>8. QED BY <1>1, <1>2, <1>5, <1>6, <1>7, Continues

\* The user clears the state: the partials the registry names are removed, or the user is
\* told about them.
LEMMA ClearPartsCalm ==
  ASSUME NEW t, NEW x \in Page, NEW y \in Page, Grounds(t, x), Orderly(x),
         UNCHANGED <<world, keyDb, reg, legacy, horizon>>, may'["storage"] = 0,
         x.at = "pick", NEW named, named = {p \in disk : \E r \in x.snap : r.part = p.part},
         \/ disk' = disk \ named /\ left' = left
         \/ disk' = disk /\ left' = left \cup {p.part : p \in named},
         y = [x EXCEPT !.at = "erase"]
  PROVE  Orderly(y)'
<1>1. /\ y.prune = x.prune /\ y.old = x.old /\ y.file = x.file /\ y.snap = x.snap /\ y.key = x.key /\ y.part = x.part
      /\ y.at = "erase" /\ y.for = x.for
  BY DEF Page
<1>2. x.prune = "none" /\ legacy = {}  BY DEF Grounds, StageAt, Early, Orderly, Undisturbed
<1>3. InForce(x) = x.snap /\ reg.recs = x.snap /\ InForce(y)' = x.snap  BY <1>1, <1>2 DEF InForce, Orderly, OwnFile
<1>4. disk' \subseteq disk  OBVIOUS
<1>5. \A p \in disk' : p.data => Lost(p)'
  <2> SUFFICES ASSUME NEW p \in disk', p.data PROVE Lost(p)'  OBVIOUS
  <2>1. Lost(p) \/ p \in named  BY <1>3, <1>4 DEF Orderly, Reachable, Named
  <2>2. CASE Lost(p)  BY <2>2 DEF Lost
  <2>3. CASE p \in named  BY <2>3 DEF Lost
  <2>4. QED BY <2>1, <2>2, <2>3
<1>6. Undisturbed(y)'  BY <1>1, <1>2, <1>4 DEF Orderly, Undisturbed
<1>7. Keying(y)'  BY <1>1, <1>2, <1>3 DEF Orderly, Keying, Known
<1>8. Reachable(y)'  BY <1>5 DEF Reachable
<1>9. Agree(y)'  BY <1>3, <1>4 DEF Orderly, Agree
<1>10. OwnFile(y)'  BY <1>1, <1>2, <1>5 DEF OwnFile, Reading, Receiving, MakingAt
<1>11. Closable(y)'  BY <1>1 DEF Orderly, Closable, Reading
<1>12. QED BY <1>6, <1>7, <1>8, <1>9, <1>10, <1>11 DEF Orderly

\* Then the registry goes.
LEMMA ClearRegistryCalm ==
  ASSUME NEW t, NEW x \in Page, NEW y \in Page, Grounds(t, x), Orderly(x),
         UNCHANGED <<world, keyDb, disk, horizon, left>>, may'["storage"] = 0,
         x.at = "erase", reg' = Holds({}), legacy' = {}, y = [x EXCEPT !.at = "unkey", !.key = NoKey]
  PROVE  Orderly(y)'
<1>1. /\ y.prune = x.prune /\ y.old = x.old /\ y.file = x.file /\ y.snap = x.snap /\ y.key = NoKey /\ y.part = x.part
      /\ y.at = "unkey" /\ y.for = x.for
  BY DEF Page
<1>2. x.prune = "none" /\ legacy = {}  BY DEF Grounds, StageAt, Early, Orderly, Undisturbed
<1>3. reg'.recs = {} /\ reg'.broken = FALSE  BY DEF Holds
<1>4. InForce(y)' = {}  BY <1>1, <1>2, <1>3 DEF InForce
<1>5. Undisturbed(y)'  BY <1>1, <1>2, <1>3 DEF Orderly, Undisturbed
<1>6. Keying(y)'  BY <1>1, <1>2, <1>3, <1>4 DEF Keying
<1>7. Reachable(y)'  BY DEF Orderly, OwnFile, Reachable, Lost
<1>8. Agree(y)'  BY <1>4 DEF Agree
<1>9. OwnFile(y)'  BY <1>1, <1>2 DEF OwnFile, Reading, Receiving, MakingAt
<1>10. Closable(y)'  BY <1>1, <1>2, <1>3 DEF Orderly, Closable, Reading
<1>11. QED BY <1>5, <1>6, <1>7, <1>8, <1>9, <1>10 DEF Orderly

\* And the key, which no record is made with then.
LEMMA ClearKeyCalm ==
  ASSUME NEW t, NEW x \in Page, NEW y \in Page, Grounds(t, x), Orderly(x),
         UNCHANGED <<world, reg, legacy, disk, horizon, left>>, may'["storage"] = 0,
         x.at = "unkey", y = [x EXCEPT !.at = "idle"]
  PROVE  Orderly(y)'
<1>1. /\ y.prune = x.prune /\ y.old = x.old /\ y.file = x.file /\ y.snap = x.snap /\ y.key = x.key /\ y.part = x.part
      /\ y.at = "idle" /\ y.for = x.for
  BY DEF Page
<1>2. x.prune = "none" /\ legacy = {}  BY DEF Grounds, StageAt, Early, Orderly, Undisturbed
<1>3. reg.recs = {} /\ x.key = NoKey  BY DEF Orderly, Keying
<1>4. InForce(y)' = {} /\ InForce(x) = {}  BY <1>1, <1>2, <1>3 DEF InForce
<1>5. Undisturbed(y)'  BY <1>1, <1>2 DEF Orderly, Undisturbed
<1>6. Keying(y)'  BY <1>1, <1>2, <1>3, <1>4 DEF Keying
<1>7. Reachable(y)'  BY <1>1, <1>4 DEF Orderly, Reachable, Lost, Named
<1>8. Agree(y)'  BY <1>4 DEF Agree
<1>9. OwnFile(y)'  BY <1>1, <1>2 DEF OwnFile, Reading, Receiving, MakingAt
<1>10. Closable(y)'  BY <1>1 DEF Orderly, Closable, Reading
<1>11. QED BY <1>5, <1>6, <1>7, <1>8, <1>9, <1>10 DEF Orderly

\* Time passes, where no page may be closed.
LEMMA ExpireCalm ==
  ASSUME NEW x, Orderly(x), ~(world.may["close"] > 0), horizon \in Nat, horizon' \in Nat, horizon' >= horizon,
         disk \subseteq Partial, UNCHANGED <<world, keyDb, reg, legacy, disk, left>>, may'["storage"] = 0
  PROVE  Orderly(x)'
<1>1. InForce(x)' = InForce(x)  BY DEF InForce
<1>2. \A p \in disk : Lost(p) => Lost(p)'
  <2>1. \A p \in disk : p.part \in Nat  BY Numbers DEF Partial
  <2>2. QED BY <2>1 DEF Lost
<1>3. Undisturbed(x)' /\ Keying(x)' /\ Agree(x)'  BY <1>1 DEF Orderly, Undisturbed, Keying, Known, Agree
<1>4. Reachable(x)'  BY <1>1, <1>2 DEF Orderly, Reachable, Named
<1>5. OwnFile(x)'  BY <1>1, <1>2 DEF Orderly, OwnFile, Own, PartOf
<1>6. Closable(x)'  BY DEF Closable
<1>7. QED BY <1>3, <1>4, <1>5, <1>6 DEF Orderly

-----------------------------------------------------------------------------
(* What the actions come to when nothing fails *)

\* A step of page t from x to y, in an orderly state.
Scene(t, x, y) ==
  /\ TypeInv /\ Calm /\ tab \in [Tabs -> Page] /\ x = tab[t] /\ x \in Page
  /\ Grounds(t, x) /\ Orderly(x) /\ made \in Nat /\ horizon \in Nat
  /\ y \in Page /\ tab'[t] = y

\* No request fails.
LEMMA NoFailure ==
  ASSUME NEW x, Orderly(x), may \in [Event -> Nat]
  PROVE  /\ ~May("storage")
         /\ UNCHANGED may => may'["storage"] = 0
         /\ \A e \in Event : May(e) => may'["storage"] = 0
<1>1. may["storage"] = 0 /\ "storage" \in Event  BY DEF Orderly, Undisturbed, Event
<1>2. ~May("storage")  BY <1>1 DEF May
<1>3. ASSUME NEW e \in Event, May(e) PROVE may'["storage"] = 0
  <2>1. e # "storage"  BY <1>2, <1>3
  <2>2. PICK n : may' = [may EXCEPT ![e] = n]  BY <1>3 DEF May
  <2>3. QED BY <1>1, <2>1, <2>2
<1>4. QED BY <1>1, <1>2, <1>3

\* The page after a step that only takes the operation to another await,
LEMMA OpLeaves ==
  ASSUME NEW t \in Tabs, NEW x, NEW y, Scene(t, x, y), NEW a, Op(t, a)
  PROVE  y = [x EXCEPT !.at = a]
<1>1. tab \in [Tabs -> Page] /\ x = tab[t] /\ y = tab'[t]  BY DEF Scene
<1>2. QED BY <1>1 DEF Op

\* or to the reading of the registry.
LEMMA ReadForLeaves ==
  ASSUME NEW t \in Tabs, NEW x, NEW y, Scene(t, x, y), NEW w, ReadFor(t, w)
  PROVE  y = [x EXCEPT !.at = "read", !.for = w]
<1>1. tab \in [Tabs -> Page] /\ x = tab[t] /\ y = tab'[t]  BY DEF Scene
<1>2. tab'[t] = [tab[t] EXCEPT !.at = "read", !.for = w]  BY <1>1 DEF ReadFor, Page
<1>3. QED BY <1>1, <1>2

\* The stores of a step without failure.
LEMMA SceneFacts ==
  ASSUME NEW t \in Tabs, NEW x, NEW y, Scene(t, x, y)
  PROVE  /\ ~May("storage") /\ (UNCHANGED may => may'["storage"] = 0)
         /\ \A e \in Event : May(e) => may'["storage"] = 0
         /\ may \in [Event -> Nat] /\ \A e \in Event : may[e] <= world.may[e]
         /\ world.may \in [Event -> Nat]
         /\ ~reg.broken /\ reg \in [broken : BOOLEAN, recs : SUBSET Record] /\ reg = Holds(reg.recs)
<1>1. may \in [Event -> Nat] /\ \A e \in Event : may[e] <= world.may[e]  BY DEF Scene, TypeInv, ResumeTypeOK, Base
<1>2. world.may \in [Event -> Nat]  BY WorldAssumption DEF Scene, TypeInv, Base, World
<1>3. ~reg.broken /\ reg \in [broken : BOOLEAN, recs : SUBSET Record]  BY DEF Scene, Orderly, Undisturbed, TypeInv, ResumeTypeOK
<1>4. reg = Holds(reg.recs)  BY <1>3 DEF Holds
<1>5. QED BY <1>1, <1>2, <1>3, <1>4, NoFailure DEF Scene

\* The page is loaded.
LEMMA LoadScene ==
  ASSUME NEW t \in Tabs, NEW x, NEW y, Scene(t, x, y), Load(t)
  PROVE  Orderly(y)'
<1>1. PICK L : L = legacy  OBVIOUS
<1>2. x.at = "closed" /\ y = [Closed EXCEPT !.prune = "read", !.at = "idle", !.old = L]  BY <1>1 DEF Scene, Load
<1>3. UNCHANGED <<world, keyDb, reg, disk, horizon, left>> /\ legacy' = {}  BY DEF Load, env
<1>4. may'["storage"] = 0  BY SceneFacts DEF Load
<1>5. QED BY <1>1, <1>2, <1>3, <1>4, LoadCalm DEF Scene

\* The pruning takes a step.
LEMMA PruneScene ==
  ASSUME NEW t \in Tabs, NEW x, NEW y, Scene(t, x, y), Prune(t)
  PROVE  Orderly(y)'
<1>0. tab \in [Tabs -> Page] /\ x = tab[t] /\ y = tab'[t] /\ ~reg.broken /\ ~May("storage")  BY SceneFacts DEF Scene
<1>1. CASE PruneRead(t)
  <2>1. PICK value : value = IF reg.recs = {} THEN x.old ELSE reg.recs  OBVIOUS
  <2>2. x.prune = "read"  BY <1>0, <1>1 DEF PruneRead
  <2>3. UNCHANGED <<world, keyDb, reg, legacy, disk, horizon, left>>  BY <1>1 DEF PruneRead, env
  <2>4. /\ UNCHANGED may
        /\ \/ /\ x.old # {} \/ Changed(value)
              /\ tab' = [tab EXCEPT ![t].prune = "clear", ![t].old = Sanitized(value)]
           \/ /\ x.old = {}
              /\ tab' = [tab EXCEPT ![t].prune = "none", ![t].old = {}]
    BY <1>0, <1>1, <2>1 DEF PruneRead, Unless
  <2>5. may'["storage"] = 0  BY <2>4, SceneFacts
  <2>6. \/ (x.old # {} \/ Changed(value)) /\ y = [x EXCEPT !.prune = "clear", !.old = Sanitized(value)]
        \/ x.old = {} /\ y = [x EXCEPT !.prune = "none", !.old = {}]
    <3>1. PICK S : S = Sanitized(value)  OBVIOUS
    <3>2. ASSUME tab' = [tab EXCEPT ![t].prune = "clear", ![t].old = S]
          PROVE  tab'[t] = [tab[t] EXCEPT !.prune = "clear", !.old = S]
      BY <1>0, <3>2 DEF Page
    <3>3. ASSUME tab' = [tab EXCEPT ![t].prune = "none", ![t].old = {}]
          PROVE  tab'[t] = [tab[t] EXCEPT !.prune = "none", !.old = {}]
      BY <1>0, <3>3 DEF Page
    <3>4. QED BY <1>0, <2>4, <3>1, <3>2, <3>3
  <2>7. QED BY <2>1, <2>2, <2>3, <2>5, <2>6, PruneReadCalm DEF Scene
<1>2. CASE PruneClear(t)
  <2>1. x.prune = "clear"  BY <1>0, <1>2 DEF PruneClear, Scene, Orderly, Undisturbed
  <2>2. y = [x EXCEPT !.prune = IF x.old # {} THEN "write" ELSE "none"]  BY <1>0, <1>2, <2>1 DEF PruneClear
  <2>3. UNCHANGED <<world, keyDb, disk, horizon, left>> /\ legacy' = {}  BY <1>2 DEF PruneClear, env
  <2>4. UNCHANGED may /\ reg' = Holds({})  BY <1>0, <1>2 DEF PruneClear, Unless, Deleted
  <2>5. may'["storage"] = 0  BY <2>4, SceneFacts
  <2>6. QED BY <2>1, <2>2, <2>3, <2>4, <2>5, PruneClearCalm DEF Scene
<1>3. CASE PruneWrite(t)
  <2>1. x.prune = "write"  BY <1>0, <1>3 DEF PruneWrite
  <2>2. y = [x EXCEPT !.prune = "none"]  BY <1>0, <1>3 DEF PruneWrite
  <2>3. UNCHANGED <<world, keyDb, disk, horizon, left, legacy>>  BY <1>3 DEF PruneWrite, env
  <2>4. UNCHANGED may /\ reg' = Holds(x.old)  BY <1>0, <1>3 DEF PruneWrite, Unless
  <2>5. may'["storage"] = 0  BY <2>4, SceneFacts
  <2>6. QED BY <2>1, <2>2, <2>3, <2>4, <2>5, PruneWriteCalm DEF Scene
<1>4. QED BY <1>1, <1>2, <1>3 DEF Prune

\* What Found makes of a registry.
LEMMA FoundLeaves ==
  ASSUME NEW t \in Tabs, NEW x, NEW y, Scene(t, x, y), NEW S, y = Found(t, S),
         x.at \in Reading, x.for # "none"
  PROVE  /\ y.prune = x.prune /\ y.old = x.old /\ y.for = x.for /\ y.file = x.file /\ y.key = x.key
         /\ \/ /\ x.for = "find" /\ y.at = "open"
               /\ \E r \in Own(x, S) : r.part = y.part
            \/ x.for = "find" /\ y.at = "create" /\ Own(x, S) = {}
            \/ x.for = "names" /\ y.at = "pick" /\ y.snap = S
            \/ x.for \notin {"find", "names"} /\ y.at = "write" /\ y.snap = S /\ y.part = x.part
<1>1. x = tab[t] /\ x \in Page  BY DEF Scene
<1> DEFINE mine == {r \in S : r.key = x.key.id /\ r.file = x.file}
<1>2. mine = Own(x, S)  BY DEF Own
<1>3. CASE x.for = "find" /\ mine # {}
  <2>1. PICK q : q = CHOOSE r \in mine : TRUE  OBVIOUS
  <2>2. q \in mine  BY <1>3, <2>1
  <2>3. PICK n : n = q.part  OBVIOUS
  <2>4. y = [x EXCEPT !.at = "open", !.snap = S, !.part = n]  BY <1>1, <1>3, <2>1, <2>3 DEF Found
  <2>5. /\ y.prune = x.prune /\ y.old = x.old /\ y.for = x.for /\ y.file = x.file /\ y.key = x.key
        /\ y.at = "open" /\ y.part = n
    BY <1>1, <2>4 DEF Page
  <2>6. QED BY <1>2, <1>3, <2>2, <2>3, <2>5
<1>4. CASE x.for = "find" /\ mine = {}
  <2>1. y = [x EXCEPT !.at = "create", !.snap = {}]  BY <1>1, <1>4 DEF Found
  <2>2. QED BY <1>1, <1>2, <1>4, <2>1 DEF Page
<1>5. CASE x.for = "names"
  <2>1. y = [x EXCEPT !.at = "pick", !.snap = S]  BY <1>1, <1>5 DEF Found
  <2>2. QED BY <1>1, <1>5, <2>1 DEF Page
<1>6. CASE x.for \notin {"find", "names"}
  <2>1. y = [x EXCEPT !.at = "write", !.snap = S]  BY <1>1, <1>6 DEF Found
  <2>2. QED BY <1>1, <1>6, <2>1 DEF Page
<1>7. QED BY <1>3, <1>4, <1>5, <1>6

\* The operation reads or replaces the registry.
LEMMA ReadScene ==
  ASSUME NEW t \in Tabs, NEW x, NEW y, Scene(t, x, y), Read(t) \/ ReadClear(t) \/ ReadWrite(t)
  PROVE  Orderly(y)'
<1>0. /\ tab \in [Tabs -> Page] /\ x = tab[t] /\ y = tab'[t] /\ ~reg.broken /\ ~May("storage")
      /\ reg = Holds(reg.recs) /\ x.at \notin {"wipe", "unstore", "giveup"}
      /\ (x.at \in Reading => x.for # "none")
  BY SceneFacts DEF Scene, Orderly, Undisturbed, Grounds, StageAt
<1>1. CASE Read(t)
  <2>1. x.at = "read" /\ x.prune = "none" /\ x.at \in Reading  BY <1>0, <1>1 DEF Read, Ready, Reading
  <2>2. UNCHANGED <<world, keyDb, reg, legacy, disk, horizon, left>>  BY <1>1 DEF Read, env
  <2>3. /\ UNCHANGED may
        /\ \/ /\ Changed(reg.recs)
              /\ tab' = [tab EXCEPT ![t].at = "replace", ![t].snap = Sanitized(reg.recs)]
           \/ tab' = [tab EXCEPT ![t] = Found(t, reg.recs)]
    BY <1>0, <1>1 DEF Read, Unless
  <2>4. may'["storage"] = 0  BY <2>3, SceneFacts
  <2>5. PICK S : S = Sanitized(reg.recs)  OBVIOUS
  <2>6. CASE Changed(reg.recs) /\ tab' = [tab EXCEPT ![t].at = "replace", ![t].snap = Sanitized(reg.recs)]
    <3>1. tab' = [tab EXCEPT ![t].at = "replace", ![t].snap = S]  BY <2>5, <2>6
    <3>2. tab'[t] = [tab[t] EXCEPT !.at = "replace", !.snap = S]  BY <1>0, <3>1 DEF Page
    <3>3. y = [x EXCEPT !.at = "replace", !.snap = S]  BY <1>0, <3>2
    <3>4. Changed(reg.recs)  BY <2>6
    <3>5. x \in Page /\ y \in Page /\ Grounds(t, x) /\ Orderly(x) /\ horizon \in Nat  BY DEF Scene
    <3>6. x.at = "read" /\ x.prune = "none"  BY <2>1
    <3>7. QED BY <2>2, <2>4, <2>5, <3>3, <3>4, <3>5, <3>6, ReadCalm
  <2>7. CASE tab' = [tab EXCEPT ![t] = Found(t, reg.recs)]
    <3>1. PICK R : R = reg.recs  OBVIOUS
    <3>2. y = Found(t, R)  BY <1>0, <2>7, <3>1
    <3>3. R = InForce(x)  BY <2>1, <3>1 DEF InForce
    <3>4. reg' = Holds(R)  BY <1>0, <2>2, <3>1
    <3>5. legacy' \in {legacy, {}}  BY <2>2
    <3>6. QED BY <1>0, <2>1, <2>2, <2>4, <3>2, <3>3, <3>4, <3>5, FoundLeaves, FoundCalm DEF Scene
  <2>8. QED BY <2>3, <2>6, <2>7
<1>2. CASE ReadClear(t)
  <2>1. x.at = "replace" /\ x.at \in Reading  BY <1>0, <1>2 DEF ReadClear, Reading
  <2>2. UNCHANGED <<world, keyDb, disk, horizon, left>> /\ legacy' = {}  BY <1>2 DEF ReadClear, env
  <2>3. UNCHANGED may /\ reg' = Holds({})  BY <1>0, <1>2 DEF ReadClear, Unless, Deleted
  <2>4. may'["storage"] = 0  BY <2>3, SceneFacts
  <2>5. CASE x.snap # {}
    <3>1. y = [x EXCEPT !.at = "rewrite"]  BY <1>0, <1>2, <2>1, <2>5 DEF ReadClear
    <3>2. QED BY <2>1, <2>2, <2>3, <2>4, <3>1, ReadClearCalm DEF Scene
  <2>6. CASE x.snap = {}
    <3>1. y = Found(t, {})  BY <1>0, <1>2, <2>1, <2>6 DEF ReadClear
    <3>2. x.prune = "none"  BY <2>1 DEF Scene, Grounds, StageAt, Early
    <3>3. {} = InForce(x)  BY <2>1, <2>6, <3>2 DEF InForce
    <3>4. QED BY <1>0, <2>1, <2>2, <2>3, <2>4, <3>1, <3>2, <3>3, FoundLeaves, FoundCalm DEF Scene
  <2>7. QED BY <2>5, <2>6
<1>3. CASE ReadWrite(t)
  <2>1. x.at = "rewrite" /\ x.at \in Reading  BY <1>0, <1>3 DEF ReadWrite, Reading
  <2>2. UNCHANGED <<world, keyDb, disk, horizon, left, legacy>>  BY <1>3 DEF ReadWrite, env
  <2>3. PICK S : S = x.snap  OBVIOUS
  <2>4. UNCHANGED may /\ reg' = Holds(S)  BY <1>0, <1>3, <2>3 DEF ReadWrite, Unless
  <2>5. may'["storage"] = 0  BY <2>4, SceneFacts
  <2>6. y = Found(t, S)  BY <1>0, <1>3, <2>3 DEF ReadWrite
  <2>7. x.prune = "none"  BY <2>1 DEF Scene, Grounds, StageAt, Early
  <2>8. S = InForce(x)  BY <2>1, <2>3, <2>7 DEF InForce
  <2>9. QED BY <1>0, <2>1, <2>2, <2>4, <2>5, <2>6, <2>7, <2>8, FoundLeaves, FoundCalm DEF Scene
<1>4. QED BY <1>1, <1>2, <1>3

\* The operation writes the registry.
LEMMA WriteScene ==
  ASSUME NEW t \in Tabs, NEW x, NEW y, Scene(t, x, y), Write(t)
  PROVE  Orderly(y)'
<1>0. tab \in [Tabs -> Page] /\ x = tab[t] /\ x \in Page /\ y = tab'[t] /\ ~May("storage")  BY SceneFacts DEF Scene
<1>1. PICK r : r = [key |-> x.key.id, file |-> x.file, part |-> x.part, extra |-> FALSE]  OBVIOUS
<1>2. x.at = "write" /\ x.for \in {"remember", "gone", "publish", "mismatch", "again"}
  <2>1. x.at = "write"  BY <1>0 DEF Write
  <2>2. x.at \in Reading  BY <2>1 DEF Reading
  <2>3. x.for # "none" /\ x.for \notin {"find", "names"}  BY <2>1, <2>2 DEF Scene, Grounds, StageAt
  <2>4. QED BY <1>0, <2>1, <2>3 DEF Page
<1>3. UNCHANGED <<world, keyDb, disk, horizon, left, legacy>>  BY DEF Write, env
<1>4. PICK a : a = CASE x.for = "remember" -> "moving" [] x.for = "gone" -> "create"
                     [] x.for = "publish" -> "done" [] x.for = "mismatch" -> "discard"
                     [] x.for = "again" -> "idle"
  OBVIOUS
<1>5. PICK out : out = IF x.for = "remember" THEN Remembered(x.snap, r) ELSE Forgotten(x.snap, x.key.id, x.file)
  OBVIOUS
<1>6. UNCHANGED may /\ reg' = Holds(out) /\ Op(t, a)  BY <1>0, <1>1, <1>4, <1>5 DEF Write, Unless
<1>7. may'["storage"] = 0  BY <1>6, SceneFacts
<1>8. y = [x EXCEPT !.at = a]  BY <1>6, OpLeaves
<1>9. \/ x.for = "remember" /\ a = "moving" /\ out = Remembered(x.snap, r)
      \/ x.for = "gone" /\ a = "create" /\ out = Forgotten(x.snap, x.key.id, x.file)
      \/ x.for = "publish" /\ a = "done" /\ out = Forgotten(x.snap, x.key.id, x.file)
      \/ x.for = "mismatch" /\ a = "discard" /\ out = Forgotten(x.snap, x.key.id, x.file)
      \/ x.for = "again" /\ a = "idle" /\ out = Forgotten(x.snap, x.key.id, x.file)
  <2>1. CASE x.for = "remember"  BY <1>4, <1>5, <2>1
  <2>2. CASE x.for = "gone"  BY <1>4, <1>5, <2>2
  <2>3. CASE x.for = "publish"  BY <1>4, <1>5, <2>3
  <2>4. CASE x.for = "mismatch"  BY <1>4, <1>5, <2>4
  <2>5. CASE x.for = "again"  BY <1>4, <1>5, <2>5
  <2>6. QED BY <1>2, <2>1, <2>2, <2>3, <2>4, <2>5
<1>10. IsFiniteSet(Known) /\ Cardinality(Known) <= MaxRecords  BY KnownFinite DEF Scene
<1>11. QED BY <1>1, <1>2, <1>3, <1>6, <1>7, <1>8, <1>9, <1>10, WriteCalm DEF Scene

\* The operation gets its key; the steps after a failing request do not occur.
LEMMA KeyScene ==
  ASSUME NEW t \in Tabs, NEW x, NEW y, Scene(t, x, y),
         KeyRead(t) \/ KeyStore(t) \/ KeyReset(t) \/ KeyUnstore(t) \/ KeyGiveUp(t) \/ Keyed(t)
  PROVE  Orderly(y)'
<1>0. /\ tab \in [Tabs -> Page] /\ x = tab[t] /\ y = tab'[t] /\ ~May("storage")
      /\ x.at \notin {"wipe", "unstore", "giveup"}
  BY SceneFacts DEF Scene, Orderly, Undisturbed
<1>1. CASE KeyRead(t)
  <2>1. x.at = "key"  BY <1>0, <1>1 DEF KeyRead
  <2>2. UNCHANGED <<world, keyDb, reg, legacy, disk, horizon, left>>  BY <1>1 DEF KeyRead, env
  <2>3. /\ UNCHANGED may
        /\ \/ keyDb = 0 /\ Op(t, "store")
           \/ keyDb # 0 /\ tab' = [tab EXCEPT ![t].at = "keyed", ![t].key = [id |-> keyDb, kind |-> "stored"]]
    BY <1>0, <1>1 DEF KeyRead, Unless
  <2>4. may'["storage"] = 0  BY <2>3, SceneFacts
  <2>5. ASSUME tab' = [tab EXCEPT ![t].at = "keyed", ![t].key = [id |-> keyDb, kind |-> "stored"]]
        PROVE  y = [x EXCEPT !.at = "keyed", !.key = [id |-> keyDb, kind |-> "stored"]]
    <3>1. PICK k : k = [id |-> keyDb, kind |-> "stored"]  OBVIOUS
    <3>2. tab' = [tab EXCEPT ![t].at = "keyed", ![t].key = k]  BY <2>5, <3>1
    <3>3. tab'[t] = [tab[t] EXCEPT !.at = "keyed", !.key = k]  BY <1>0, <3>2 DEF Page
    <3>4. QED BY <1>0, <3>1, <3>3
  <2>6. \/ keyDb = 0 /\ y = [x EXCEPT !.at = "store"]
        \/ keyDb # 0 /\ y = [x EXCEPT !.at = "keyed", !.key = [id |-> keyDb, kind |-> "stored"]]
    BY <2>3, <2>5, OpLeaves
  <2>7. QED BY <2>1, <2>2, <2>4, <2>6, KeyReadCalm DEF Scene
<1>2. CASE KeyStore(t)
  <2>1. PICK k : k = keys + 1  OBVIOUS
  <2>2. x.at = "store"  BY <1>0, <1>2 DEF KeyStore
  <2>3. UNCHANGED <<world, reg, legacy, disk, horizon, left>>  BY <1>2 DEF KeyStore
  <2>4. /\ UNCHANGED may /\ keyDb' = k
        /\ tab' = [tab EXCEPT ![t].at = "reset", ![t].key = [id |-> k, kind |-> "stored"]]
    BY <1>0, <1>2, <2>1 DEF KeyStore, Unless
  <2>5. may'["storage"] = 0  BY <2>4, SceneFacts
  <2>6. y = [x EXCEPT !.at = "reset", !.key = [id |-> k, kind |-> "stored"]]
    <3>1. PICK c : c = [id |-> k, kind |-> "stored"]  OBVIOUS
    <3>2. tab' = [tab EXCEPT ![t].at = "reset", ![t].key = c]  BY <2>4, <3>1
    <3>3. tab'[t] = [tab[t] EXCEPT !.at = "reset", !.key = c]  BY <1>0, <3>2 DEF Page
    <3>4. QED BY <1>0, <3>1, <3>3
  <2>7. QED BY <2>2, <2>3, <2>4, <2>5, <2>6, KeyStoreCalm DEF Scene
<1>3. CASE KeyReset(t)
  <2>1. x.at = "reset" /\ x.prune = "none"  BY <1>0, <1>3 DEF KeyReset, Ready
  <2>2. UNCHANGED <<world, keyDb, disk, horizon, left>> /\ legacy' = {}  BY <1>3 DEF KeyReset, env
  <2>3. UNCHANGED may /\ reg' = Holds({}) /\ Op(t, "keyed")  BY <1>0, <1>3 DEF KeyReset, Unless, Deleted
  <2>4. may'["storage"] = 0  BY <2>3, SceneFacts
  <2>5. y = [x EXCEPT !.at = "keyed"]  BY <2>3, OpLeaves
  <2>6. QED BY <2>1, <2>2, <2>3, <2>4, <2>5, KeyResetCalm DEF Scene
<1>4. CASE KeyUnstore(t) \/ KeyGiveUp(t)  BY <1>0, <1>4 DEF KeyUnstore, KeyGiveUp
<1>5. CASE Keyed(t)
  <2>1. x.at = "keyed"  BY <1>0, <1>5 DEF Keyed
  <2>2. UNCHANGED <<world, keyDb, reg, legacy, disk, horizon, left>>  BY <1>5 DEF Keyed, env
  <2>3. may'["storage"] = 0  BY <1>5, SceneFacts DEF Keyed
  <2>4. ReadFor(t, "find") \/ Op(t, "idle")  BY <1>5 DEF Keyed
  <2>5. y = [x EXCEPT !.at = "read", !.for = "find"] \/ y = [x EXCEPT !.at = "idle"]
    BY <2>4, OpLeaves, ReadForLeaves
  <2>6. QED BY <2>1, <2>2, <2>3, <2>5, KeyedCalm DEF Scene
<1>6. QED BY <1>1, <1>2, <1>3, <1>4, <1>5

\* The receive opens or makes its partial, or the transfer does not succeed.
LEMMA PartScene ==
  ASSUME NEW t \in Tabs, NEW x, NEW y, Scene(t, x, y),
         OpenPart(t) \/ CreatePart(t) \/ TransferFails(t) \/ TransferMismatches(t)
  PROVE  Orderly(y)'
<1>0. tab \in [Tabs -> Page] /\ x = tab[t] /\ y = tab'[t]  BY DEF Scene
<1>1. CASE OpenPart(t)
  <2>1. x.at = "open"  BY <1>0, <1>1 DEF OpenPart
  <2>2. UNCHANGED <<world, keyDb, reg, legacy, disk, horizon, left>>  BY <1>1 DEF OpenPart, env
  <2>3. may'["storage"] = 0  BY <1>1, SceneFacts DEF OpenPart
  <2>4. Op(t, "moving") \/ (PartOf(x) = {} /\ ReadFor(t, "gone"))  BY <1>0, <1>1 DEF OpenPart, PartOf
  <2>5. y = [x EXCEPT !.at = "moving"] \/ (PartOf(x) = {} /\ y = [x EXCEPT !.at = "read", !.for = "gone"])
    BY <2>4, OpLeaves, ReadForLeaves
  <2>6. QED BY <2>1, <2>2, <2>3, <2>5, OpenPartCalm DEF Scene
<1>2. CASE CreatePart(t)
  <2>1. PICK n : n = made + 1  OBVIOUS
  <2>2. PICK q : q = [part |-> n, file |-> x.file, data |-> FALSE]  OBVIOUS
  <2>3. x.at = "create"  BY <1>0, <1>2 DEF CreatePart
  <2>4. UNCHANGED <<world, keyDb, reg, legacy, horizon, left>> /\ disk' = disk \cup {q}
    BY <1>0, <1>2, <2>1, <2>2 DEF CreatePart
  <2>5. may'["storage"] = 0  BY <1>2, SceneFacts DEF CreatePart
  <2>6. tab' = [tab EXCEPT ![t].at = "read", ![t].for = "remember", ![t].part = n]  BY <1>2, <2>1 DEF CreatePart
  <2>7. tab'[t] = [tab[t] EXCEPT !.at = "read", !.for = "remember", !.part = n]  BY <1>0, <2>6 DEF Page
  <2>8. y = [x EXCEPT !.at = "read", !.for = "remember", !.part = n]  BY <1>0, <2>7
  <2>9. QED BY <2>1, <2>2, <2>3, <2>4, <2>5, <2>8, CreatePartCalm DEF Scene
<1>3. CASE TransferFails(t)
  <2>1. x.at = "moving" /\ May("fail") /\ Op(t, "idle")  BY <1>0, <1>3 DEF TransferFails
  <2>2. UNCHANGED <<world, keyDb, reg, legacy, horizon, left>>  BY <1>3 DEF TransferFails, env
  <2>3. Mine(t) = PartOf(x)  BY <1>0 DEF Mine, PartOf
  <2>4. disk' = (disk \ PartOf(x)) \cup {[p EXCEPT !.data = TRUE] : p \in PartOf(x)}
    BY <1>3, <2>3 DEF TransferFails
  <2>5. may'["storage"] = 0  BY <2>1, SceneFacts DEF Event
  <2>6. y = [x EXCEPT !.at = "idle"]  BY <2>1, OpLeaves
  <2>7. QED BY <2>1, <2>2, <2>4, <2>5, <2>6, TransferFailsCalm DEF Scene
<1>4. CASE TransferMismatches(t)
  <2>1. x.at = "moving" /\ May("mismatch") /\ ReadFor(t, "mismatch")  BY <1>0, <1>4 DEF TransferMismatches
  <2>2. UNCHANGED <<world, keyDb, reg, legacy, disk, horizon, left>>  BY <1>4 DEF TransferMismatches, env
  <2>3. may'["storage"] = 0  BY <2>1, SceneFacts DEF Event
  <2>4. y = [x EXCEPT !.at = "read", !.for = "mismatch"]  BY <2>1, ReadForLeaves
  <2>5. ~(world.may["close"] > 0)
    <3>1. "mismatch" \in Event  BY DEF Event
    <3>2. may["mismatch"] > 0  BY <2>1 DEF May
    <3>3. world.may["mismatch"] # 0
      <4>1. may["mismatch"] \in Nat /\ world.may["mismatch"] \in Nat /\ may["mismatch"] <= world.may["mismatch"]
        BY <3>1, SceneFacts
      <4>2. QED BY <3>2, <4>1
    <3>4. QED BY <3>3 DEF Scene, Calm
  <2>6. QED BY <2>1, <2>2, <2>3, <2>4, <2>5, MismatchCalm DEF Scene
<1>5. QED BY <1>1, <1>2, <1>3, <1>4

\* The receive ends.
LEMMA EndScene ==
  ASSUME NEW t \in Tabs, NEW x, NEW y, Scene(t, x, y),
         TransferPublishes(t) \/ Done(t) \/ DiscardPart(t)
  PROVE  Orderly(y)'
<1>0. tab \in [Tabs -> Page] /\ x = tab[t] /\ y = tab'[t] /\ Mine(t) = PartOf(x)  BY DEF Scene, Mine, PartOf
<1>1. CASE TransferPublishes(t) \/ DiscardPart(t)
  <2>1. UNCHANGED <<world, keyDb, reg, legacy, horizon, left>>  BY <1>1 DEF TransferPublishes, DiscardPart, env
  <2>2. disk' = disk \ PartOf(x) /\ may'["storage"] = 0
    BY <1>0, <1>1, SceneFacts DEF TransferPublishes, DiscardPart
  <2>3. \/ x.at \in {"moving", "discard"} /\ Op(t, "idle")
        \/ x.at = "moving" /\ ReadFor(t, "publish")
        \/ x.at = "discard" /\ ReadFor(t, "again")
    BY <1>0, <1>1 DEF TransferPublishes, DiscardPart
  <2>4. \/ y = [x EXCEPT !.at = "idle"]
        \/ x.at = "moving" /\ y = [x EXCEPT !.at = "read", !.for = "publish"]
        \/ x.at = "discard" /\ y = [x EXCEPT !.at = "read", !.for = "again"]
    BY <2>3, OpLeaves, ReadForLeaves
  <2>5. QED BY <2>1, <2>2, <2>3, <2>4, RemovalCalm DEF Scene
<1>2. CASE Done(t)
  <2>1. x.at = "done"  BY <1>0, <1>2 DEF Done
  <2>2. UNCHANGED <<world, keyDb, reg, legacy, disk, horizon, left>>  BY <1>2 DEF Done
  <2>3. may'["storage"] = 0
    <3>1. UNCHANGED may \/ May("fail")  BY <1>2 DEF Done, Unless
    <3>2. QED BY <3>1, SceneFacts DEF Event
  <2>4. PICK a \in {"idle", "discard"} : Op(t, a)  BY <1>2 DEF Done, Unless
  <2>5. y = [x EXCEPT !.at = a]  BY <2>4, OpLeaves
  <2>6. QED BY <2>1, <2>2, <2>3, <2>5, DoneCalm DEF Scene
<1>3. QED BY <1>1, <1>2

\* The clear action takes a step; no other page has a partial open.
LEMMA ClearScene ==
  ASSUME NEW t \in Tabs, NEW x, NEW y, Scene(t, x, y), world.tabs = {t},
         ClearParts(t) \/ ClearRegistry(t) \/ ClearKey(t)
  PROVE  Orderly(y)'
<1>0. tab \in [Tabs -> Page] /\ x = tab[t] /\ y = tab'[t] /\ ~May("storage")  BY SceneFacts DEF Scene
<1>1. CASE ClearParts(t)
  <2>1. PICK named : named = {p \in disk : \E r \in x.snap : r.part = p.part}  OBVIOUS
  <2>2. x.at = "pick" /\ Op(t, "erase")  BY <1>0, <1>1 DEF ClearParts
  <2>3. UNCHANGED <<world, keyDb, reg, legacy, horizon>>  BY <1>1 DEF ClearParts
  <2>4. may'["storage"] = 0  BY <1>1, SceneFacts DEF ClearParts
  <2>5. \A u \in Tabs : tab[u].at # "moving"
    <3>1. ASSUME NEW u \in Tabs, u # t PROVE tab[u].at = "closed"
      <4>1. StageAt(u, tab[u])  BY PageFacts DEF Scene
      <4>2. QED BY <3>1, <4>1 DEF StageAt
    <3>2. QED BY <1>0, <2>2, <3>1
  <2>6. \/ disk' = disk \ named /\ left' = left
        \/ \E kept \in SUBSET named : /\ kept = named
                                      /\ disk' = disk \ (named \ kept)
                                      /\ left' = left \cup {p.part : p \in kept}
    <3> DEFINE busy == {p \in named : \E u \in Tabs : tab[u].at = "moving" /\ tab[u].part = p.part}
    <3>1. busy = {}  BY <2>5
    <3>2. \/ disk' = disk \ named /\ left' = left
          \/ \E kept \in SUBSET named : /\ kept = named \/ busy # {}
                                        /\ disk' = disk \ (named \ kept)
                                        /\ left' = left \cup {p.part : p \in kept}
      BY <1>0, <1>1, <2>1 DEF ClearParts
    <3>3. QED BY <3>1, <3>2
  <2>7. \/ disk' = disk \ named /\ left' = left
        \/ disk' = disk /\ left' = left \cup {p.part : p \in named}
    BY <2>6
  <2>8. y = [x EXCEPT !.at = "erase"]  BY <2>2, OpLeaves
  <2>9. x \in Page /\ y \in Page /\ Grounds(t, x) /\ Orderly(x)  BY DEF Scene
  <2>10. x.at = "pick"  BY <2>2
  <2>11. QED BY <2>1, <2>3, <2>4, <2>7, <2>8, <2>9, <2>10, ClearPartsCalm
<1>2. CASE ClearRegistry(t)
  <2>1. x.at = "erase"  BY <1>0, <1>2 DEF ClearRegistry
  <2>2. UNCHANGED <<world, keyDb, disk, horizon, left>> /\ legacy' = {}  BY <1>2 DEF ClearRegistry, env
  <2>3. /\ UNCHANGED may /\ reg' = Holds({})
        /\ tab' = [tab EXCEPT ![t].at = "unkey", ![t].key = NoKey]
    BY <1>0, <1>2 DEF ClearRegistry, Unless, Deleted
  <2>4. may'["storage"] = 0  BY <2>3, SceneFacts
  <2>5. tab'[t] = [tab[t] EXCEPT !.at = "unkey", !.key = NoKey]
    <3>1. PICK k : k = NoKey  OBVIOUS
    <3>2. tab' = [tab EXCEPT ![t].at = "unkey", ![t].key = k]  BY <2>3, <3>1
    <3>3. tab'[t] = [tab[t] EXCEPT !.at = "unkey", !.key = k]  BY <1>0, <3>2 DEF Page
    <3>4. QED BY <3>1, <3>3
  <2>6. y = [x EXCEPT !.at = "unkey", !.key = NoKey]  BY <1>0, <2>5
  <2>7. QED BY <2>1, <2>2, <2>3, <2>4, <2>6, ClearRegistryCalm DEF Scene
<1>3. CASE ClearKey(t)
  <2>1. x.at = "unkey" /\ Op(t, "idle")  BY <1>0, <1>3 DEF ClearKey
  <2>2. UNCHANGED <<world, reg, legacy, disk, horizon, left>>  BY <1>3 DEF ClearKey, env
  <2>3. may'["storage"] = 0  BY <1>0, <1>3, SceneFacts DEF ClearKey, Unless
  <2>4. y = [x EXCEPT !.at = "idle"]  BY <2>1, OpLeaves
  <2>5. QED BY <2>1, <2>2, <2>3, <2>4, ClearKeyCalm DEF Scene
<1>4. QED BY <1>1, <1>2, <1>3

\* An operation begins, or the page is closed.
LEMMA StartScene ==
  ASSUME NEW t \in Tabs, NEW x, NEW y, Scene(t, x, y),
         StartClear(t) \/ ClosePage(t) \/ \E f \in Files : StartReceive(t, f)
  PROVE  Orderly(y)'
<1>0. tab \in [Tabs -> Page] /\ x = tab[t] /\ y = tab'[t]  BY DEF Scene
<1>1. CASE StartClear(t)
  <2>1. x.at = "idle" /\ May("clear") /\ ReadFor(t, "names")  BY <1>0, <1>1 DEF StartClear
  <2>2. UNCHANGED <<world, keyDb, reg, legacy, disk, horizon, left>>  BY <1>1 DEF StartClear, env
  <2>3. may'["storage"] = 0  BY <2>1, SceneFacts DEF Event
  <2>4. y = [x EXCEPT !.at = "read", !.for = "names"]  BY <2>1, ReadForLeaves
  <2>5. QED BY <2>1, <2>2, <2>3, <2>4, KeyedCalm DEF Scene
<1>2. CASE ClosePage(t)
  <2>1. May("close") /\ y = Closed  BY <1>0, <1>2 DEF ClosePage
  <2>2. UNCHANGED <<world, keyDb, reg, legacy, disk, horizon, left>>  BY <1>2 DEF ClosePage, env
  <2>3. may'["storage"] = 0  BY <2>1, SceneFacts DEF Event
  <2>4. world.may["close"] > 0
    <3>1. "close" \in Event  BY DEF Event
    <3>2. may["close"] \in Nat /\ world.may["close"] \in Nat /\ may["close"] <= world.may["close"]
      BY <3>1, SceneFacts
    <3>3. QED BY <2>1, <3>2 DEF May
  <2>5. QED BY <2>1, <2>2, <2>3, <2>4, ClosePageCalm DEF Scene
<1>3. ASSUME NEW f \in Files, StartReceive(t, f) PROVE Orderly(y)'
  <2>1. x.at = "idle" /\ f \in world.want  BY <1>0, <1>3 DEF StartReceive
  <2>2. UNCHANGED <<world, keyDb, reg, legacy, disk, horizon, left>>  BY <1>3 DEF StartReceive, env
  <2>3. may'["storage"] = 0  BY <1>3, SceneFacts DEF StartReceive
  <2>4. PICK a : a = IF x.key = NoKey THEN "key" ELSE "keyed"  OBVIOUS
  <2>5. tab' = [tab EXCEPT ![t].file = f, ![t].part = 0, ![t].at = a]  BY <1>0, <1>3, <2>4 DEF StartReceive
  <2>6. tab'[t] = [tab[t] EXCEPT !.file = f, !.part = 0, !.at = a]  BY <1>0, <2>5 DEF Page
  <2>7. y = [x EXCEPT !.file = f, !.part = 0, !.at = IF x.key = NoKey THEN "key" ELSE "keyed"]
    BY <1>0, <2>4, <2>6
  <2>8. QED BY <2>1, <2>2, <2>3, <2>7, StartReceiveCalm DEF Scene
<1>4. QED BY <1>1, <1>2, <1>3

-----------------------------------------------------------------------------
(* A partial with data is found *)

\* Only a page of the world takes a step.
LEMMA StepsOfTabs ==
  ASSUME TypeInv, NEW t \in Tabs, PageStep(t)
  PROVE  t \in world.tabs
<1>1. t \notin world.tabs => tab[t].at = "closed" /\ tab[t].prune = "none"  BY PageFacts DEF StageAt
<1>2. CASE Load(t)  BY <1>2 DEF Load
<1>3. CASE Prune(t)  BY <1>1, <1>3 DEF Prune, PruneRead, PruneClear, PruneWrite
<1>4. CASE StartClear(t) \/ ClosePage(t)  BY <1>1, <1>4 DEF StartClear, ClosePage
<1>5. CASE \E f \in Files : StartReceive(t, f)  BY <1>1, <1>5 DEF StartReceive
<1>6. CASE Operation(t)
  BY <1>1, <1>6 DEF Operation, Read, ReadClear, ReadWrite, Write, KeyRead, KeyStore, KeyReset, KeyUnstore,
     KeyGiveUp, Keyed, OpenPart, CreatePart, TransferFails, TransferMismatches, TransferPublishes, Done,
     DiscardPart, ClearParts, ClearRegistry, ClearKey
<1>7. QED BY <1>2, <1>3, <1>4, <1>5, <1>6 DEF PageStep

\* In a calm world there is one page.
LEMMA OneTab ==
  ASSUME TypeInv, Calm, NEW t \in world.tabs
  PROVE  world.tabs = {t} /\ t \in Tabs
<1>1. world \in World /\ IsFiniteSet(world.tabs)  BY WorldAssumption DEF TypeInv, Base
<1>2. \E u : world.tabs = {u}  BY <1>1, FS_Singleton DEF Calm
<1>3. QED BY <1>1, <1>2 DEF World

\* Every step of the page.
LEMMA SceneKeeps ==
  ASSUME NEW t \in Tabs, NEW x, NEW y, Scene(t, x, y), world.tabs = {t}, PageStep(t)
  PROVE  Orderly(y)'
<1>1. CASE Load(t) \/ Prune(t)  BY <1>1, LoadScene, PruneScene
<1>2. CASE StartClear(t) \/ ClosePage(t) \/ \E f \in Files : StartReceive(t, f)  BY <1>2, StartScene
<1>3. CASE Operation(t)
  <2>1. CASE Read(t) \/ ReadClear(t) \/ ReadWrite(t) \/ Write(t)  BY <2>1, ReadScene, WriteScene
  <2>2. CASE KeyRead(t) \/ KeyStore(t) \/ KeyReset(t) \/ KeyUnstore(t) \/ KeyGiveUp(t) \/ Keyed(t)
    BY <2>2, KeyScene
  <2>3. CASE OpenPart(t) \/ CreatePart(t) \/ TransferFails(t) \/ TransferMismatches(t)  BY <2>3, PartScene
  <2>4. CASE TransferPublishes(t) \/ Done(t) \/ DiscardPart(t)  BY <2>4, EndScene
  <2>5. CASE ClearParts(t) \/ ClearRegistry(t) \/ ClearKey(t)  BY <2>5, ClearScene
  <2>6. QED BY <1>3, <2>1, <2>2, <2>3, <2>4, <2>5 DEF Operation
<1>4. QED BY <1>1, <1>2, <1>3 DEF PageStep

\* A step of the page keeps it orderly.
LEMMA PageStepCalm ==
  ASSUME TypeInv, CalmInv, NEW t \in Tabs, PageStep(t)
  PROVE  CalmInv'
<1>1. PICK y : Turn(t, y)  BY PageTurn
<1>2. TypeInv' /\ tab'[t] = y /\ y \in Page /\ world' = world /\ horizon' = horizon  BY <1>1, Turned DEF Turn
<1>3. Calm' => Calm  BY <1>2 DEF Calm, Changed, Sanitized, Fresh
<1> SUFFICES ASSUME Calm PROVE \A u \in world'.tabs : Orderly(tab[u])'  BY <1>3 DEF CalmInv
<1>4. t \in world.tabs  BY StepsOfTabs
<1>5. world.tabs = {t}  BY <1>4, OneTab
<1>6. PICK x : x = tab[t]  OBVIOUS
<1>7. Scene(t, x, y)
  <2>1. Grounds(t, tab[t])  BY GroundsHold
  <2>2. Orderly(tab[t])  BY <1>4 DEF CalmInv
  <2>3. QED BY <1>2, <1>6, <2>1, <2>2, PageFacts DEF Scene
<1>8. Orderly(y)'  BY <1>5, <1>7, SceneKeeps
<1>10. world'.tabs = {t}  BY <1>2, <1>5
<1>11. ASSUME NEW u \in world'.tabs PROVE Orderly(tab[u])'
  <2>1. u = t  BY <1>10, <1>11
  <2>2. tab'[u] = y  BY <1>2, <2>1
  <2>3. QED BY <1>8, <2>1, <2>2, OrderlyNext
<1>12. QED BY <1>11

\* So does the passing of time, in a world where the page is not closed.
LEMMA ExpireStepCalm ==
  ASSUME TypeInv, CalmInv, Expire
  PROVE  CalmInv'
<1>1. UNCHANGED <<world, keyDb, reg, legacy, disk, tab, keys, made, received, left>> /\ May("expire")  BY DEF Expire
<1>2. horizon \in Nat /\ horizon' \in Nat /\ horizon' >= horizon
  <2>1. PICK n \in horizon + 1 .. made : horizon' = n  BY DEF Expire
  <2>2. horizon \in Nat /\ made \in Nat  BY Numbers DEF TypeInv, ResumeTypeOK
  <2>3. QED BY <2>1, <2>2
<1>3. world.may["expire"] # 0
  <2>1. "expire" \in Event  BY DEF Event
  <2>2. may["expire"] \in Nat /\ may["expire"] <= world.may["expire"]  BY <2>1 DEF TypeInv, ResumeTypeOK, Base
  <2>3. world.may["expire"] \in Nat  BY <2>1, WorldAssumption DEF TypeInv, Base, World
  <2>4. QED BY <1>1, <2>2, <2>3 DEF May
<1> SUFFICES ASSUME Calm' PROVE \A u \in world'.tabs : Orderly(tab[u])'  BY DEF CalmInv
<1>4. ~(world.may["close"] > 0) /\ Calm  BY <1>1, <1>3 DEF Calm
<1>5. ASSUME NEW u \in world.tabs PROVE Orderly(tab[u])'
  <2>1. PICK x : x = tab[u]  OBVIOUS
  <2>2. u \in Tabs  BY <1>4, OneTab
  <2>3. Orderly(tab[u])  BY <1>4 DEF CalmInv
  <2>4. Orderly(x)  BY <2>1, <2>3
  <2>5. may \in [Event -> Nat] /\ disk \subseteq Partial  BY DEF TypeInv, ResumeTypeOK
  <2>6. may'["storage"] = 0  BY <1>1, <2>4, <2>5, NoFailure DEF Event
  <2>7. Orderly(x)'  BY <1>1, <1>2, <1>4, <2>4, <2>5, <2>6, ExpireCalm
  <2>8. tab'[u] = x  BY <1>1, <2>1
  <2>9. QED BY <2>2, <2>7, <2>8, OrderlyNext
<1>6. QED BY <1>1, <1>5

\* A calm world is orderly to begin with.
LEMMA InitCalm == ResumeInit => CalmInv
<1> SUFFICES ASSUME ResumeInit, Calm, NEW t \in world.tabs PROVE Orderly(tab[t])  BY DEF CalmInv
<1>1. TypeInv  BY InitTypes
<1>2. t \in Tabs  BY <1>1, OneTab
<1>3. PICK x : x = tab[t]  OBVIOUS
<1>4. x = Closed  BY <1>2, <1>3 DEF ResumeInit
<1>5. /\ x.prune = "none" /\ x.at = "closed" /\ x.old = {} /\ x.snap = {} /\ x.key = NoKey
  BY <1>4, ClosedPage
<1>6. /\ reg.recs = world.recs /\ reg.broken = FALSE /\ legacy = world.legacy /\ keyDb = world.key
      /\ disk = world.disk /\ horizon = 0 /\ may = world.may
  BY DEF ResumeInit, Calm
<1>7. InForce(x) = world.recs  BY <1>5, <1>6 DEF InForce
<1>8. world.recs \subseteq Record /\ Registry(world.recs) /\ world.disk \subseteq Partial
  BY <1>1, WorldAssumption DEF TypeInv, Base, World
<1>9. \A p \in world.disk : \E r \in world.recs : r.part = p.part /\ r.file = p.file  BY DEF Calm
<1>10. Undisturbed(x)  BY <1>5, <1>6, <1>9 DEF Undisturbed, Calm
<1>11. Keying(x)  BY <1>5, <1>6, <1>7 DEF Keying, Calm, Known
<1>12. Reachable(x)  BY <1>6, <1>7, <1>9 DEF Reachable, Named
<1>13. Agree(x)
  <2> SUFFICES ASSUME NEW r \in world.recs, NEW p \in world.disk, r.part = p.part PROVE r.file = p.file
    BY <1>6, <1>7 DEF Agree
  <2>1. PICK s \in world.recs : s.part = p.part /\ s.file = p.file  BY <1>9
  <2>2. p.part # 0  BY <1>8, Numbers DEF Partial
  <2>3. QED BY <1>8, <2>1, <2>2 DEF Registry
<1>14. OwnFile(x)  BY <1>5 DEF OwnFile, Reading, Receiving, MakingAt
<1>15. Closable(x)
  <2> SUFFICES ASSUME world.may["close"] > 0
               PROVE  world.legacy = {} /\ \A r \in world.recs : ~r.extra /\ r.part # 0
    BY <1>5, <1>6 DEF Closable, Reading
  <2>1. world.legacy = {} /\ ~Changed(world.recs)  BY DEF Calm
  <2>2. Sanitized(world.recs) = world.recs  BY <2>1 DEF Changed
  <2>3. \A r \in Sanitized(world.recs) : ~r.extra /\ r.part # 0  BY <1>8, SanitizedMembers
  <2>4. QED BY <2>1, <2>2, <2>3
<1>16. QED BY <1>3, <1>10, <1>11, <1>12, <1>13, <1>14, <1>15 DEF Orderly

\* Every step keeps the page of a calm world orderly.
LEMMA NextCalm == TypeInv /\ CalmInv /\ [ResumeNext]_resumeVars => CalmInv'
<1> SUFFICES ASSUME TypeInv, CalmInv, [ResumeNext]_resumeVars PROVE CalmInv'  OBVIOUS
<1>1. CASE Expire  BY <1>1, ExpireStepCalm
<1>2. ASSUME NEW t \in Tabs, PageStep(t) PROVE CalmInv'  BY <1>2, PageStepCalm
<1>3. CASE UNCHANGED resumeVars
  <2>1. Calm' => Calm  BY <1>3 DEF resumeVars, Calm, Changed, Sanitized, Fresh
  <2> SUFFICES ASSUME Calm, NEW u \in world'.tabs PROVE Orderly(tab[u])'  BY <2>1 DEF CalmInv
  <2>2. u \in world.tabs /\ u \in Tabs  BY <1>3, OneTab DEF resumeVars
  <2>3. PICK x : x = tab[u]  OBVIOUS
  <2>4. Orderly(tab[u])  BY <2>2 DEF CalmInv
  <2>5. Orderly(x)  BY <2>3, <2>4
  <2>6. InForce(x)' = InForce(x)  BY <1>3 DEF resumeVars, InForce
  <2>7. Undisturbed(x)' /\ Keying(x)' /\ Agree(x)'  BY <1>3, <2>5, <2>6 DEF resumeVars, Orderly, Undisturbed, Keying, Known, Agree
  <2>8. Reachable(x)' /\ Closable(x)'  BY <1>3, <2>5, <2>6 DEF resumeVars, Orderly, Reachable, Lost, Named, Closable, PartOf
  <2>9. OwnFile(x)'  BY <1>3, <2>5, <2>6 DEF resumeVars, Orderly, OwnFile, Own, PartOf, Lost
  <2>10. Orderly(x)'  BY <2>7, <2>8, <2>9 DEF Orderly
  <2>11. tab'[u] = x  BY <1>3, <2>3 DEF resumeVars
  <2>12. QED BY <2>2, <2>10, <2>11, OrderlyNext
<1>4. QED BY <1>1, <1>2, <1>3 DEF ResumeNext, PageStep

\* With one page and databases that do not fail, a partial that holds data is named by a
\* record of its file made with the stored key whenever no operation is under way, although
\* the registry is cleared before it is written again, a record goes before its partial or
\* after it, the page may be closed at every await, and the pruning of the page runs beside
\* its first operation; except for what expired and what the user was told about.
THEOREM KeptAlwaysFound == ResumeSpec => []KeptIsFound
<1>1. ResumeSpec => [](TypeInv /\ CalmInv)
  <2>1. ResumeInit => TypeInv /\ CalmInv  BY InitTypes, InitCalm
  <2>2. TypeInv /\ CalmInv /\ [ResumeNext]_resumeVars => TypeInv' /\ CalmInv'  BY NextTypes, NextCalm
  <2>3. QED BY <2>1, <2>2, PTL DEF ResumeSpec
<1>2. TypeInv /\ CalmInv => KeptIsFound
  <2> SUFFICES ASSUME TypeInv, CalmInv, Calm, Rest, NEW p \in disk, p.data PROVE Findable(p)
    BY DEF KeptIsFound
  <2>1. PICK t : t \in world.tabs
    <3>1. IsFiniteSet(world.tabs)  BY WorldAssumption DEF TypeInv, Base
    <3>2. QED BY <3>1, FS_Singleton DEF Calm
  <2>2. t \in Tabs  BY <2>1, OneTab
  <2>3. tab[t].at \in {"idle", "closed"} /\ tab[t].prune = "none"  BY <2>2 DEF Rest
  <2>4. InForce(tab[t]) = reg.recs  BY <2>3 DEF InForce
  <2>5. Orderly(tab[t])  BY <2>1 DEF CalmInv
  <2>6. Lost(p) \/ Named(p, reg.recs)  BY <2>3, <2>4, <2>5 DEF Orderly, Reachable
  <2>7. \A r \in reg.recs : r.key = keyDb  BY <2>5 DEF Orderly, Keying
  <2>8. QED BY <2>6, <2>7 DEF Findable, Lost, Named
<1>3. QED BY <1>1, <1>2, PTL
=============================================================================
