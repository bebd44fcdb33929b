--------------------------- MODULE MCFileTransfer ---------------------------
(* Instances of FileTransfer for TLC. *)
EXTENDS FileTransfer

\* Two files of two chunks; the partials hold one chunk.
TwoFiles == <<2, 2>>
TwoOld == <<1, 1>>

\* An empty file between two others; the last partial is complete.
ThreeFiles == <<3, 0, 2>>
ThreeOld == <<1, 0, 2>>
=============================================================================
