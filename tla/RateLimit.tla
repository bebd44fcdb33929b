------------------------------ MODULE RateLimit ------------------------------
(***************************************************************************)
(* The window of src/server/rate-limit.ts: what is kept of the times at    *)
(* which an address hit a limiter, and when a hit is allowed.  A refused   *)
(* hit is recorded like an allowed one.  Times are taken from a clock that *)
(* does not go back.                                                       *)
(***************************************************************************)
EXTENDS Naturals, Sequences

CONSTANT Window    \* windowMs

ASSUME WindowAssumption == Window \in Nat \ {0}

InWindow(time, now) == now - time < Window

\* The newest n elements of a sequence.
Newest(s, n) == IF Len(s) <= n THEN s ELSE SubSeq(s, Len(s) - n + 1, Len(s))

\* retainRecentSortedHits: the loop goes back from the newest time to the first one
\* outside the window.
RetainRecent(values, now) ==
  LET start == CHOOSE i \in 0 .. Len(values) :
                 /\ \A j \in i + 1 .. Len(values) : InWindow(values[j], now)
                 /\ i > 0 => ~InWindow(values[i], now)
  IN  SubSeq(values, start + 1, Len(values))

\* Mutant: only maxHits times are kept.
RecordHitShort(values, now, maxHits) ==
  Newest(Append(RetainRecent(values, now), now), maxHits)

\* recordFixedWindowHit: maxHits + 1 times are enough to tell a hit over the limit.
RecordHit(values, now, maxHits) ==
  Newest(Append(RetainRecent(values, now), now), maxHits + 1)

Allowed(values, maxHits) == Len(values) <= maxHits
=============================================================================
