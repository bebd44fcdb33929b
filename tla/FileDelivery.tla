---------------------------- MODULE FileDelivery ----------------------------
(***************************************************************************)
(* What a file transfer promises its two users (sendFiles and receiveFiles *)
(* of src/cli/transfer.ts): the sender is told "ok" only when the receiver *)
(* has kept every file, and a receive that fails keeps none.  A sender may *)
(* fail although the receive succeeded: its last acknowledgement was lost. *)
(***************************************************************************)
EXTENDS Naturals

CONSTANT N

VARIABLES
  sent,      \* how sendFiles ended
  received,  \* how receiveFiles ended
  kept       \* the files the receiver has published

vars == <<sent, received, kept>>

File == 1 .. N

Init == sent = "running" /\ received = "running" /\ kept = {}

\* While the receive runs its files come one at a time, and may be taken back.
Publish(f) ==
  /\ received = "running"
  /\ kept' = kept \cup {f}
  /\ UNCHANGED <<sent, received>>

TakeBack(f) ==
  /\ received = "running"
  /\ kept' = kept \ {f}
  /\ UNCHANGED <<sent, received>>

ReceiveOk ==
  /\ received = "running" /\ kept = File
  /\ received' = "ok"
  /\ UNCHANGED <<sent, kept>>

ReceiveFails ==
  /\ received = "running"
  /\ received' = "failed" /\ kept' = {}
  /\ UNCHANGED sent

SendOk ==
  /\ sent = "running" /\ received = "ok"
  /\ sent' = "ok"
  /\ UNCHANGED <<received, kept>>

SendFails ==
  /\ sent = "running"
  /\ sent' = "failed"
  /\ UNCHANGED <<received, kept>>

Next ==
  \/ \E f \in File : Publish(f) \/ TakeBack(f)
  \/ ReceiveOk \/ ReceiveFails \/ SendOk \/ SendFails

Spec == Init /\ [][Next]_vars
=============================================================================
