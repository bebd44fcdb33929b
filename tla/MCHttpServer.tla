---------------------------- MODULE MCHttpServer ----------------------------
(* Instances of HttpServer for TLC. *)
EXTENDS HttpServer, TLC

CONSTANTS r1, r2, r3, r4, a1

\* Requests of one address, for two files of two bytes and two of one byte.
OneOrigin == [r \in Request |-> a1]
Sizes == [r \in Request |-> IF r \in {r1, r2} THEN 2 ELSE 1]
Limits == [l \in Limiter |-> IF l = "http" THEN 2 ELSE 1]

\* Requests for files of one size are interchangeable.
RequestSymmetry == Permutations({r1, r2}) \cup Permutations({r3, r4})
=============================================================================
