----------------------------- MODULE MCPairing ------------------------------
(* Instances of Pairing for TLC. *)
EXTENDS Pairing, TLC

CONSTANTS s1, s2

\* Nothing goes wrong; reads bring several messages; clients give up; the server refuses
\* or expires.
FaultMix == {{}, {"batch"}, {"batch", "interrupt", "timeout", "source"},
             {"expiry", "taken", "turn"}}
NoFaults == {{}}

\* Commands only; a page that receives; pages only.
Mixed == {{}, {Receiver}, Client}
NoBrowsers == {{}}

\* No definition names a sender.
SenderSymmetry == Permutations(Sender)
=============================================================================
