--------------------------- MODULE MCBrowserResume ---------------------------
(* Instances of BrowserResume for TLC. *)
EXTENDS BrowserResume

CONSTANTS a, b, c, t1, t2

Times(S, n) == [e \in Event |-> IF e \in S THEN n ELSE 0]
Rec(k, f, p, x) == [key |-> k, file |-> f, part |-> p, extra |-> x]
Part(f, p) == [part |-> p, file |-> f, data |-> TRUE]

\* One lookup key and two partials were made before.
Start(k, recs, broken, old, parts, who, want, events) ==
  [key |-> k, recs |-> recs, broken |-> broken, legacy |-> old, disk |-> parts, keys |-> 1,
   made |-> 2, tabs |-> who, want |-> want, may |-> events]

Tidy == Start(1, {Rec(1, b, 1, FALSE)}, FALSE, {}, {Part(b, 1)}, {t1}, {a, b}, Times({}, 0))
Untidy == [Tidy EXCEPT !.recs = {Rec(1, b, 1, TRUE), Rec(1, a, 0, FALSE)}]

\* What the stores may hold when nothing fails any more.
Leftovers ==
  {[Tidy EXCEPT !.key = k, !.recs = R, !.broken = x, !.legacy = L, !.disk = D] :
     k \in {0, 1}, R \in {{}, Tidy.recs, Untidy.recs}, x \in BOOLEAN,
     L \in {{}, {Rec(1, c, 2, TRUE)}}, D \in {{}, Tidy.disk}}

\* One page: closed at any await; or records to scrub; a failing database; more
\* partials than records.
OnePage ==
  {[Tidy EXCEPT !.may = Times({"close", "fail", "clear"}, 1)],
   [Untidy EXCEPT !.may = Times({"expire", "fail", "clear", "mismatch"}, 1)],
   [Untidy EXCEPT !.may = Times({"storage"}, 2), !.key = 0],
   [Tidy EXCEPT !.may = Times({"storage", "clear", "fail"}, 1)],
   [Tidy EXCEPT !.may = Times({"fail"}, 2), !.recs = @ \cup {Rec(1, c, 2, FALSE)},
                !.disk = @ \cup {Part(c, 2)}]}

\* Two pages at once.
TwoPages == {[Tidy EXCEPT !.tabs = {t1, t2}, !.key = k] : k \in {0, 1}}

\* Where partials are stranded: two pages that change the registry at once, a failing
\* database, a page closed while it gives a partial up or replaces the registry.
Orphaned ==
  {[Tidy EXCEPT !.tabs = {t1, t2}, !.may = Times({"fail"}, 1)],
   [Tidy EXCEPT !.may = Times({"storage"}, 1)],
   [Tidy EXCEPT !.may = Times({"close", "mismatch"}, 1)],
   [Untidy EXCEPT !.may = Times({"close"}, 1)]}

Mixed == Leftovers \cup OnePage \cup TwoPages
=============================================================================
