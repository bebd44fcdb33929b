------------------------- MODULE MCSignalingServer -------------------------
(* Instances of SignalingServer for TLC. *)
EXTENDS SignalingServer, TLC

CONSTANTS p1, p2, p3, a1

\* All connections come from one address, so its limits bind them together.
OneAddress == [p \in Peer |-> a1]

\* Connections, and codes, are interchangeable when one address serves all.
PeerSymmetry == Permutations(Peer)
PeerAndCodeSymmetry == Permutations(Peer) \cup Permutations(Code)
=============================================================================
