----------------------------- MODULE HttpServer -----------------------------
(***************************************************************************)
(* The HTTP side of src/server/index.ts: the request callback with its two *)
(* rate limiters, and serveStatic, which reads a file between awaits under *)
(* a budget of bytes in flight.  The reservation of a response's bytes is  *)
(* released by the response's `finish' and `close' events, or by the error *)
(* paths; a client may leave at any await.                                 *)
(*                                                                         *)
(* A request is in the stage of serveStatic it awaits.  Routes that answer *)
(* at once are over when the callback returns.                             *)
(***************************************************************************)
EXTENDS RateLimit, FiniteSets

CONSTANTS
  Request,      \* the requests, each used once
  Address,      \* client addresses
  From,         \* the address of each request
  Size,         \* bytes of the file a request asks for
  MaxInFlight,  \* STATIC_MAX_IN_FLIGHT_BYTES
  MaxHits,      \* the limit of each limiter
  CloseFails,   \* closing a file may fail
  MaxTime       \* bound on the clock

Limiter == {"http", "ice"}
Route == {"static", "ice", "other"}
Stage == {"new", "lookup", "reading", "closing", "sending", "finished", "over"}

ASSUME RequestAssumption ==
  /\ IsFiniteSet(Request) /\ From \in [Request -> Address] /\ Size \in [Request -> Nat]
  /\ MaxInFlight \in Nat /\ MaxHits \in [Limiter -> Nat] /\ MaxTime \in Nat
  /\ CloseFails \in BOOLEAN

VARIABLES
  now,       \* Date.now()
  hits,      \* the maps of the limiters: the times they keep
  log,       \* the times of all hits (history)
  stage,     \* where serveStatic is with a request
  gone,      \* requests whose connection is closed
  held,      \* reservations not released yet
  inFlight   \* staticInFlightBytes

limits == <<hits, log>>
serving == <<stage, gone, held, inFlight>>
vars == <<now, limits, serving>>

Init ==
  /\ now = 0
  /\ hits = [l \in Limiter |-> [a \in Address |-> <<>>]]
  /\ log = [l \in Limiter |-> [a \in Address |-> <<>>]]
  /\ stage = [r \in Request |-> "new"]
  /\ gone = {} /\ held = {} /\ inFlight = 0

-----------------------------------------------------------------------------
(* The request callback *)

\* hitFixedWindowRateLimit, for each of the limiters ls.
Hit(ls, a) ==
  /\ hits' = [l \in Limiter |-> IF l \notin ls THEN hits[l]
                ELSE [hits[l] EXCEPT ![a] = RecordHit(@, now, MaxHits[l])]]
  /\ log' = [l \in Limiter |-> IF l \notin ls THEN log[l]
               ELSE [log[l] EXCEPT ![a] = Append(@, now)]]

Admits(l, a) == Allowed(RecordHit(hits[l][a], now, MaxHits[l]), MaxHits[l])

\* Every request hits the first limiter; one that passes it and asks for the ICE
\* configuration hits the second.  Only a static route goes on behind the callback.
Arrive(r, route) ==
  /\ stage[r] = "new"
  /\ LET a == From[r]
         passed == Admits("http", a)
     IN  /\ Hit(IF passed /\ route = "ice" THEN Limiter ELSE {"http"}, a)
         /\ stage' = [stage EXCEPT ![r] = IF passed /\ route = "static" THEN "lookup"
                                                                       ELSE "over"]
  /\ UNCHANGED <<now, gone, held, inFlight>>

\* The limiters' share of the expiry interval: pruneFixedWindowRateLimits.
Prune ==
  /\ hits' = [l \in Limiter |-> [a \in Address |-> RetainRecent(hits[l][a], now)]]
  /\ UNCHANGED <<now, log, serving>>

Tick ==
  /\ now < MaxTime
  /\ now' = now + 1
  /\ UNCHANGED <<limits, serving>>

-----------------------------------------------------------------------------
(* serveStatic *)

\* Mutant: a reservation may be released by both events.
ReleaseAgain(r) ==
  /\ held' = held \ {r}
  /\ inFlight' = IF inFlight >= Size[r] THEN inFlight - Size[r] ELSE 0

\* The closure reserveStaticResponseBytes returns: the first call counts.
Release(r) ==
  /\ held' = held \ {r}
  /\ inFlight' = IF r \notin held THEN inFlight
                 ELSE IF inFlight >= Size[r] THEN inFlight - Size[r] ELSE 0

End(r) == stage' = [stage EXCEPT ![r] = "over"]

\* The path is refused, missing, too large or changes before it is read.
LookupError(r) ==
  /\ stage[r] = "lookup"
  /\ End(r)
  /\ UNCHANGED <<now, limits, gone, held, inFlight>>

\* Mutant: the size is checked on its own only.
ReserveUnchecked(r) ==
  /\ stage[r] = "lookup"
  /\ inFlight' = inFlight + Size[r] /\ held' = held \cup {r}
  /\ stage' = [stage EXCEPT ![r] = "reading"]
  /\ UNCHANGED <<now, limits, gone>>

\* reserveStaticResponseBytes, once the open file's size is known: refused when the
\* budget does not suffice, else the body is allocated and read.
Reserve(r) ==
  /\ stage[r] = "lookup"
  /\ IF inFlight + Size[r] > MaxInFlight THEN End(r) /\ UNCHANGED <<held, inFlight>>
     ELSE /\ inFlight' = inFlight + Size[r]
          /\ held' = held \cup {r}
          /\ stage' = [stage EXCEPT ![r] = "reading"]
  /\ UNCHANGED <<now, limits, gone>>

\* The file changed while it was read, or could not be read.
ReadError(r) ==
  /\ stage[r] = "reading"
  /\ End(r) /\ Release(r)
  /\ UNCHANGED <<now, limits, gone>>

\* The body is read: the release is the caller's now, the file is being closed.
ReadDone(r) ==
  /\ stage[r] = "reading"
  /\ stage' = [stage EXCEPT ![r] = "closing"]
  /\ UNCHANGED <<now, limits, gone, held, inFlight>>

\* handle.close() rejects: readStaticFile throws and its result is dropped.
CloseError(r) ==
  /\ CloseFails /\ stage[r] = "closing"
  /\ End(r)
  /\ UNCHANGED <<now, limits, gone, held, inFlight>>

\* The body is not the one of the asset manifest.
IntegrityError(r) ==
  /\ stage[r] = "closing"
  /\ End(r) /\ Release(r)
  /\ UNCHANGED <<now, limits, gone>>

\* The listeners are registered and the response is ended.  A connection that closed
\* before has had its `close' event and will have no other.
Respond(r) ==
  /\ stage[r] = "closing"
  /\ stage' = [stage EXCEPT ![r] = IF r \in gone THEN "over" ELSE "sending"]
  /\ UNCHANGED <<now, limits, gone, held, inFlight>>

\* The response's `finish' event ...
Finish(r) ==
  /\ stage[r] = "sending"
  /\ stage' = [stage EXCEPT ![r] = "finished"]
  /\ Release(r)
  /\ UNCHANGED <<now, limits, gone>>

\* ... and the `close' event that follows it.
Close(r) ==
  /\ stage[r] = "finished"
  /\ End(r) /\ Release(r)
  /\ UNCHANGED <<now, limits, gone>>

\* The client closes the connection, or a timeout of the server does.
ClientGone(r) ==
  /\ stage[r] \notin {"new", "finished", "over"} /\ r \notin gone
  /\ gone' = gone \cup {r}
  /\ IF stage[r] = "sending" THEN End(r) /\ Release(r)
                             ELSE UNCHANGED <<stage, held, inFlight>>
  /\ UNCHANGED <<now, limits>>

Serve(r) ==
  \/ LookupError(r) \/ Reserve(r) \/ ReadError(r) \/ ReadDone(r) \/ CloseError(r)
  \/ IntegrityError(r) \/ Respond(r) \/ Finish(r) \/ Close(r) \/ ClientGone(r)

Next ==
  \/ Prune \/ Tick
  \/ \E r \in Request, route \in Route : Arrive(r, route)
  \/ \E r \in Request : Serve(r)

Spec == Init /\ [][Next]_vars

-----------------------------------------------------------------------------
(* Properties *)

\* The types of the limiters and of the requests; the budget is never exceeded.
TypeOK ==
  /\ now \in 0 .. MaxTime
  /\ hits \in [Limiter -> [Address -> Seq(0 .. MaxTime)]]
  /\ log \in [Limiter -> [Address -> Seq(0 .. MaxTime)]]
  /\ stage \in [Request -> Stage]
  /\ gone \subseteq Request /\ held \subseteq Request
  /\ inFlight \in 0 .. MaxInFlight

\* The hits of an address within the window that ends now, of all there ever were.
Recent(l, a) == {i \in 1 .. Len(log[l][a]) : InWindow(log[l][a][i], now)}

\* The truncated and pruned times decide as the full history would: the next request of
\* an address is admitted exactly when fewer than maxHits of its requests, admitted or
\* not, lie in the window.
LimitExact ==
  \A l \in Limiter, a \in Address :
    Admits(l, a) <=> Cardinality(Recent(l, a)) < MaxHits[l]

\* Requests whose body is in memory, from its allocation to the end of the response.
Resident == {r \in Request : stage[r] \in {"reading", "closing", "sending"}}

\* The bytes of the files that the requests rs ask for.
Bytes(rs) == UNION {{r} \X (1 .. Size[r]) : r \in rs}

\* The bytes of all bodies in memory are covered by the budget, whatever events release
\* a reservation how often.
BudgetCoversBodies == Cardinality(Bytes(Resident)) <= inFlight

-----------------------------------------------------------------------------
(* A claim of the documentation the code does not keep *)

\* SECURITY.md: static responses reserve "until the HTTP response finishes or closes":
\* when every request is over, nothing is reserved.
BudgetReturned == (\A r \in Request : stage[r] \in {"new", "over"}) => inFlight = 0
=============================================================================
