-------------------------- MODULE HttpServerProofs --------------------------
(***************************************************************************)
(* Proofs about HttpServer: the rate limiters decide as the full history   *)
(* of hits would, for every window and every limit, and the bodies of the  *)
(* static responses are covered by a budget that stays within its bound.   *)
(***************************************************************************)
EXTENDS HttpServer, SequenceTheorems, FiniteSetTheorems, WellFoundedInduction, TLAPS

-----------------------------------------------------------------------------
(* The window *)

\* A set of natural numbers that is not empty has a least element.
LEMMA LeastNatural ==
  ASSUME NEW T \in SUBSET Nat, T # {}
  PROVE  \E x \in T : \A y \in T : x <= y
<1>1. \E x \in T : \A y \in T : ~(<<y, x>> \in OpToRel(<, Nat))
  BY WFMin, NatLessThanWellFounded, Zenon
<1>2. \A x, y \in Nat : <<y, x>> \in OpToRel(<, Nat) <=> y < x
  BY Zenon DEF OpToRel
<1>3. \E x \in T : \A y \in T : ~(y < x)
  BY <1>1, <1>2, Zenon
<1>4. QED BY <1>3

\* What retainRecentSortedHits returns: the longest tail of times in the window.
LEMMA RetainFacts ==
  ASSUME NEW S \in SUBSET Nat, NEW v \in Seq(S), NEW t \in Nat
  PROVE  LET kept == RetainRecent(v, t)
             s == Len(v) - Len(kept)
         IN  /\ kept \in Seq(S) /\ Len(kept) <= Len(v)
             /\ \A j \in s + 1 .. Len(v) : InWindow(v[j], t)
             /\ s > 0 => ~InWindow(v[s], t)
             /\ \A i \in 1 .. Len(kept) : kept[i] = v[s + i]
<1> DEFINE P(i) == /\ \A j \in i + 1 .. Len(v) : InWindow(v[j], t)
                   /\ i > 0 => ~InWindow(v[i], t)
           T == {n \in 0 .. Len(v) : \A j \in n + 1 .. Len(v) : InWindow(v[j], t)}
           start == CHOOSE i \in 0 .. Len(v) : P(i)
<1>0. Len(v) \in Nat
  OBVIOUS
<1>1. Len(v) \in T
  BY <1>0
<1>2. PICK x \in T : \A y \in T : x <= y
  <2>1. T \in SUBSET Nat
    BY <1>0
  <2>2. QED BY <1>1, <2>1, LeastNatural, Zenon
<1> HIDE DEF P
<1>3. x > 0 => ~InWindow(v[x], t)
  <2> SUFFICES ASSUME x > 0, InWindow(v[x], t) PROVE FALSE
    OBVIOUS
  <2>1. x - 1 \in T
    BY <1>0
  <2>2. x <= x - 1
    BY <1>2, <2>1
  <2>3. QED BY <2>2, <1>0, <1>2
<1>4. \E i \in 0 .. Len(v) : P(i)
  BY <1>2, <1>3 DEF P
<1>5. start \in 0 .. Len(v) /\ P(start)
  BY <1>4, Zenon
<1>6. RetainRecent(v, t) = SubSeq(v, start + 1, Len(v))
  BY Zenon DEF RetainRecent, P
<1> HIDE DEF start
<1>7. \A i \in start + 1 .. Len(v) : v[i] \in S
  BY <1>5, <1>0
<1>8. /\ SubSeq(v, start + 1, Len(v)) \in Seq(S)
      /\ Len(SubSeq(v, start + 1, Len(v))) = Len(v) - start
      /\ \A i \in 1 .. Len(v) - start : SubSeq(v, start + 1, Len(v))[i] = v[start + i]
  BY <1>5, <1>0, <1>7, SubSeqProperties
<1> DEFINE kept == RetainRecent(v, t)
<1> HIDE DEF kept
<1>9. kept \in Seq(S) /\ Len(kept) = Len(v) - start
  BY <1>6, <1>8 DEF kept
<1>10. \A i \in 1 .. Len(v) - start : kept[i] = v[start + i]
  BY <1>6, <1>8 DEF kept
<1>11. Len(v) - Len(kept) = start
  BY <1>9, <1>5, <1>0
<1>12. QED BY <1>5, <1>9, <1>10, <1>11, <1>0 DEF P, kept

\* The newest n elements.
LEMMA NewestFacts ==
  ASSUME NEW S, NEW v \in Seq(S), NEW n \in Nat
  PROVE  LET kept == Newest(v, n)
         IN  /\ kept \in Seq(S)
             /\ Len(kept) = IF Len(v) <= n THEN Len(v) ELSE n
             /\ \A i \in 1 .. Len(kept) : kept[i] = v[Len(v) - Len(kept) + i]
<1>0. Len(v) \in Nat
  OBVIOUS
<1>1. CASE Len(v) <= n
  BY <1>0, <1>1 DEF Newest
<1>2. CASE ~(Len(v) <= n)
  <2>1. \A i \in Len(v) - n + 1 .. Len(v) : v[i] \in S
    BY <1>0, <1>2
  <2>2. /\ SubSeq(v, Len(v) - n + 1, Len(v)) \in Seq(S)
        /\ Len(SubSeq(v, Len(v) - n + 1, Len(v))) = n
        /\ \A i \in 1 .. n : SubSeq(v, Len(v) - n + 1, Len(v))[i] = v[Len(v) - n + i]
    BY <1>0, <1>2, <2>1, SubSeqProperties
  <2>3. QED BY <1>0, <1>2, <2>2 DEF Newest
<1>3. QED BY <1>1, <1>2

-----------------------------------------------------------------------------
(* What is kept follows the history *)

\* H is the tail of the history L; what it lacks is outside the window at t, unless H
\* alone exceeds the limit M.
Tracks(H, L, M, t) ==
  /\ Len(H) <= Len(L)
  /\ \A i, j \in 1 .. Len(L) : i <= j => L[i] <= L[j]
  /\ \A i \in 1 .. Len(L) : L[i] <= t
  /\ \A i \in 1 .. Len(H) : H[i] = L[Len(L) - Len(H) + i]
  /\ Len(H) > M \/ \A i \in 1 .. Len(L) - Len(H) : ~InWindow(L[i], t)

\* Pruning keeps the tail of what matters.
LEMMA RetainTracks ==
  ASSUME NEW S \in SUBSET Nat, NEW H \in Seq(S), NEW L \in Seq(S), NEW M \in Nat,
         NEW t \in Nat, Tracks(H, L, M, t)
  PROVE  /\ Tracks(RetainRecent(H, t), L, M, t)
         /\ Len(RetainRecent(H, t)) > M
              \/ \A i \in 1 .. Len(L) - Len(RetainRecent(H, t)) : ~InWindow(L[i], t)
<1> DEFINE R == RetainRecent(H, t)
           s == Len(H) - Len(R)
<1>0. Len(H) \in Nat /\ Len(L) \in Nat /\ Len(H) <= Len(L)
  BY DEF Tracks
<1>1. /\ R \in Seq(S) /\ Len(R) <= Len(H)
      /\ s > 0 => ~InWindow(H[s], t)
      /\ \A i \in 1 .. Len(R) : R[i] = H[s + i]
  BY RetainFacts
<1> HIDE DEF R
<1>2. Len(R) \in Nat
  BY <1>1
<1>3. \A i \in 1 .. Len(R) : R[i] = L[Len(L) - Len(R) + i]
  BY <1>0, <1>1, <1>2 DEF Tracks
<1>4. CASE s = 0
  BY <1>0, <1>1, <1>2, <1>3, <1>4 DEF Tracks, R
<1>5. CASE s > 0
  <2>1. s \in 1 .. Len(H) /\ Len(L) - Len(H) + s \in 1 .. Len(L)
    BY <1>0, <1>2, <1>1, <1>5
  <2>2. ~InWindow(L[Len(L) - Len(H) + s], t)
    BY <1>1, <1>5, <2>1 DEF Tracks
  <2>3. \A i \in 1 .. Len(L) - Len(R) : i <= Len(L) - Len(H) + s /\ i \in 1 .. Len(L)
    BY <1>0, <1>2, <2>1
  <2> DEFINE last == Len(L) - Len(H) + s
  <2>4. \A i \in 1 .. Len(L) : L[i] \in S
    BY <1>0
  <2>5. ASSUME NEW i \in 1 .. Len(L) - Len(R) PROVE ~InWindow(L[i], t)
    <3>1. i \in 1 .. Len(L) /\ last \in 1 .. Len(L) /\ i <= last
      BY <2>1, <2>3
    <3>2. L[i] <= L[last] /\ L[i] \in Nat /\ L[last] \in Nat
      BY <3>1, <2>4 DEF Tracks
    <3>3. QED BY <3>2, <2>2, WindowAssumption DEF InWindow
  <2>6. QED BY <1>0, <1>2, <1>1, <1>3, <2>5 DEF Tracks, R
<1>6. QED BY <1>0, <1>1, <1>2, <1>4, <1>5

\* A hit enters the history and the tail that is kept of it.
LEMMA RecordTracks ==
  ASSUME NEW S \in SUBSET Nat, NEW H \in Seq(S), NEW L \in Seq(S), NEW M \in Nat,
         NEW t \in S, Tracks(H, L, M, t)
  PROVE  /\ RecordHit(H, t, M) \in Seq(S)
         /\ Append(L, t) \in Seq(S)
         /\ Tracks(RecordHit(H, t, M), Append(L, t), M, t)
<1> DEFINE R == RetainRecent(H, t)
           A == Append(R, t)
           K == RecordHit(H, t, M)
           B == Append(L, t)
<1>0. t \in Nat
  OBVIOUS
<1>1. R \in Seq(S)
  BY <1>0, RetainFacts
<1>2. Tracks(R, L, M, t)
  BY <1>0, RetainTracks
<1> HIDE DEF R
<1>3. /\ A \in Seq(S) /\ Len(A) = Len(R) + 1 /\ A[Len(R) + 1] = t
      /\ \A i \in 1 .. Len(R) : A[i] = R[i]
  BY <1>1, AppendProperties
<1>4. /\ B \in Seq(S) /\ Len(B) = Len(L) + 1 /\ B[Len(L) + 1] = t
      /\ \A i \in 1 .. Len(L) : B[i] = L[i]
  BY AppendProperties
<1>5. K = Newest(A, M + 1)
  BY DEF RecordHit, R
<1> HIDE DEF A, B
<1>6. /\ K \in Seq(S)
      /\ Len(K) = IF Len(A) <= M + 1 THEN Len(A) ELSE M + 1
      /\ \A i \in 1 .. Len(K) : K[i] = A[Len(A) - Len(K) + i]
  BY <1>3, <1>5, NewestFacts
<1> HIDE DEF K
<1>7. Len(L) \in Nat /\ Len(R) \in Nat /\ Len(R) <= Len(L) /\ Len(K) \in Nat /\ Len(K) <= Len(A)
  BY <1>1, <1>2, <1>3, <1>6 DEF Tracks
<1>8. \A i \in 1 .. Len(A) : A[i] = B[Len(B) - Len(A) + i]
  <2> SUFFICES ASSUME NEW i \in 1 .. Len(A) PROVE A[i] = B[Len(B) - Len(A) + i]
    OBVIOUS
  <2>1. CASE i = Len(R) + 1
    BY <2>1, <1>3, <1>4, <1>7
  <2>2. CASE i \in 1 .. Len(R)
    <3>1. R[i] = L[Len(L) - Len(R) + i] /\ Len(L) - Len(R) + i \in 1 .. Len(L)
      BY <2>2, <1>2, <1>7 DEF Tracks
    <3>2. Len(B) - Len(A) + i = Len(L) - Len(R) + i
      BY <1>3, <1>4, <1>7
    <3>3. QED BY <2>2, <3>1, <3>2, <1>3, <1>4
  <2>3. QED BY <2>1, <2>2, <1>3, <1>7
<1>9. \A i \in 1 .. Len(K) : K[i] = B[Len(B) - Len(K) + i]
  <2> SUFFICES ASSUME NEW i \in 1 .. Len(K) PROVE K[i] = B[Len(B) - Len(K) + i]
    OBVIOUS
  <2>1. Len(A) \in Nat /\ Len(B) \in Nat
    BY <1>3, <1>4, <1>7
  <2>2. Len(A) - Len(K) + i \in 1 .. Len(A)
    BY <2>1, <1>7
  <2>3. Len(B) - Len(A) + (Len(A) - Len(K) + i) = Len(B) - Len(K) + i
    BY <2>1, <1>7
  <2>4. QED BY <2>2, <2>3, <1>6, <1>8
<1>10. \A i \in 1 .. Len(B) : B[i] \in Nat /\ B[i] <= t
  <2>1. \A i \in 1 .. Len(L) : L[i] \in S /\ L[i] <= t
    BY <1>7, <1>2 DEF Tracks
  <2>2. \A i \in 1 .. Len(B) : i \in 1 .. Len(L) \/ i = Len(L) + 1
    BY <1>4, <1>7
  <2>3. ASSUME NEW i \in 1 .. Len(B) PROVE B[i] \in S /\ B[i] <= t
    BY <2>1, <2>2, <1>4, <1>0
  <2>4. QED BY <2>3
<1>11. \A i, j \in 1 .. Len(B) : i <= j => B[i] <= B[j]
  <2> SUFFICES ASSUME NEW i \in 1 .. Len(B), NEW j \in 1 .. Len(B), i <= j
               PROVE  B[i] <= B[j]
    OBVIOUS
  <2>1. CASE j = Len(L) + 1
    BY <2>1, <1>4, <1>10
  <2>2. CASE j \in 1 .. Len(L)
    <3>1. i \in 1 .. Len(L)
      BY <2>2, <1>7
    <3>2. QED BY <2>2, <3>1, <1>4, <1>2 DEF Tracks
  <2>3. QED BY <2>1, <2>2, <1>4, <1>7
<1>12. Len(K) > M \/ \A i \in 1 .. Len(B) - Len(K) : ~InWindow(B[i], t)
  <2>1. CASE Len(R) >= M
    BY <2>1, <1>3, <1>6, <1>7
  <2>2. CASE Len(R) < M
    <3>1. Len(K) = Len(R) + 1
      BY <2>2, <1>3, <1>6, <1>7
    <3>2. \A i \in 1 .. Len(L) - Len(R) : ~InWindow(L[i], t)
      BY <2>2, <1>7, <1>2 DEF Tracks
    <3>3. \A i \in 1 .. Len(B) - Len(K) : i \in 1 .. Len(L) - Len(R) /\ i \in 1 .. Len(L)
      BY <3>1, <1>4, <1>7
    <3>4. QED BY <3>2, <3>3, <1>4
  <2>3. QED BY <2>1, <2>2, <1>7
<1>13. Len(K) <= Len(B)
  BY <1>3, <1>4, <1>7
<1>14. Tracks(K, B, M, t)
  BY <1>9, <1>10, <1>11, <1>12, <1>13 DEF Tracks
<1>15. QED BY <1>4, <1>6, <1>14 DEF K, B

\* Time passes: what was outside the window stays outside.
LEMMA TickTracks ==
  ASSUME NEW S \in SUBSET Nat, NEW H \in Seq(S), NEW L \in Seq(S), NEW M \in Nat,
         NEW t \in Nat, Tracks(H, L, M, t)
  PROVE  Tracks(H, L, M, t + 1)
<1>0. Len(H) \in Nat /\ Len(L) \in Nat
  OBVIOUS
<1>1. \A i \in 1 .. Len(L) : L[i] \in S
  BY <1>0
<1>2. \A i \in 1 .. Len(L) : L[i] \in Nat /\ L[i] <= t
  BY <1>1 DEF Tracks
<1>3. \A i \in 1 .. Len(L) : L[i] <= t + 1 /\ (~InWindow(L[i], t) => ~InWindow(L[i], t + 1))
  BY <1>2, WindowAssumption DEF InWindow
<1>4. \A i \in 1 .. Len(L) - Len(H) : i \in 1 .. Len(L)
  BY <1>0
<1>5. QED BY <1>3, <1>4 DEF Tracks

\* The decision on the next hit is the one the full history gives.
LEMMA TracksDecides ==
  ASSUME NEW S \in SUBSET Nat, NEW H \in Seq(S), NEW L \in Seq(S), NEW M \in Nat,
         NEW t \in S, Tracks(H, L, M, t)
  PROVE  Allowed(RecordHit(H, t, M), M)
           <=> Cardinality({i \in 1 .. Len(L) : InWindow(L[i], t)}) < M
<1> DEFINE R == RetainRecent(H, t)
           A == Append(R, t)
           I == {i \in 1 .. Len(L) : InWindow(L[i], t)}
           s == Len(H) - Len(R)
           J == Len(L) - Len(R) + 1 .. Len(L)
<1>0. t \in Nat
  OBVIOUS
<1>1. /\ R \in Seq(S) /\ Len(R) <= Len(H)
      /\ \A j \in s + 1 .. Len(H) : InWindow(H[j], t)
  BY <1>0, RetainFacts
<1>2. /\ Tracks(R, L, M, t)
      /\ Len(R) > M \/ \A i \in 1 .. Len(L) - Len(R) : ~InWindow(L[i], t)
  BY <1>0, RetainTracks
<1>3. /\ \A i \in 1 .. Len(R) : R[i] = H[s + i]
  BY <1>0, RetainFacts
<1> HIDE DEF R
<1>4. A \in Seq(S) /\ Len(A) = Len(R) + 1
  BY <1>1, AppendProperties
<1>5. RecordHit(H, t, M) = Newest(A, M + 1)
  BY DEF RecordHit, R
<1> HIDE DEF A
<1>6. Len(RecordHit(H, t, M)) = IF Len(A) <= M + 1 THEN Len(A) ELSE M + 1
  BY <1>4, <1>5, NewestFacts
<1>7. Len(R) \in Nat /\ Len(H) \in Nat /\ Len(L) \in Nat /\ Len(R) <= Len(L)
  BY <1>1, <1>2 DEF Tracks
<1>8. Allowed(RecordHit(H, t, M), M) <=> Len(R) < M
  BY <1>4, <1>6, <1>7 DEF Allowed
<1>9. \A i \in 1 .. Len(R) : InWindow(R[i], t)
  <2> SUFFICES ASSUME NEW i \in 1 .. Len(R) PROVE InWindow(R[i], t)
    OBVIOUS
  <2>1. s + i \in s + 1 .. Len(H)
    BY <1>7, <1>1
  <2>2. QED BY <2>1, <1>1, <1>3
<1>10. J \subseteq I
  <2> SUFFICES ASSUME NEW j \in J PROVE j \in 1 .. Len(L) /\ InWindow(L[j], t)
    OBVIOUS
  <2> DEFINE k == j - (Len(L) - Len(R))
  <2>1. k \in 1 .. Len(R) /\ j = Len(L) - Len(R) + k /\ j \in 1 .. Len(L)
    BY <1>7
  <2>2. R[k] = L[j]
    BY <2>1, <1>2 DEF Tracks
  <2>3. QED BY <2>1, <2>2, <1>9
<1>11. IsFiniteSet(J) /\ Cardinality(J) = Len(R)
  <2>1. Len(L) - Len(R) + 1 \in Int /\ Len(L) \in Int
    BY <1>7
  <2>2. IsFiniteSet(J) /\ Cardinality(J) = IF Len(L) - Len(R) + 1 > Len(L) THEN 0
                                            ELSE Len(L) - (Len(L) - Len(R) + 1) + 1
    BY <2>1, FS_Interval, Zenon
  <2>3. QED BY <2>2, <1>7
<1>12. IsFiniteSet(1 .. Len(L)) /\ I \in SUBSET (1 .. Len(L))
  BY <1>7, FS_Interval
<1>13. IsFiniteSet(I)
  BY <1>12, FS_Subset
<1>14. Cardinality(I) \in Nat /\ Len(R) <= Cardinality(I)
  BY <1>10, <1>11, <1>13, FS_Subset, FS_CardinalityType
<1>15. CASE Len(R) > M
  BY <1>15, <1>7, <1>8, <1>14
<1>16. CASE \A i \in 1 .. Len(L) - Len(R) : ~InWindow(L[i], t)
  <2>1. I \subseteq J
    BY <1>7, <1>16
  <2>2. I = J
    BY <2>1, <1>10
  <2>3. QED BY <2>2, <1>11, <1>8
<1>17. QED BY <1>2, <1>15, <1>16

-----------------------------------------------------------------------------
(* Every limiter follows its history; every stage and counter keeps its range *)

Time == 0 .. MaxTime

HitsTrack ==
  \A l \in Limiter, a \in Address : Tracks(hits[l][a], log[l][a], MaxHits[l], now)

Inv == TypeOK /\ HitsTrack

\* At the start nothing has been hit, reserved or asked for.
LEMMA InitInv == Init => Inv
<1> SUFFICES ASSUME Init PROVE Inv
  OBVIOUS
<1>1. <<>> \in Seq(Time)
  OBVIOUS
<1>2. TypeOK
  BY <1>1, RequestAssumption DEF Init, TypeOK, Time, Stage
<1>3. HitsTrack
  BY DEF Init, HitsTrack, Tracks
<1>4. QED BY <1>2, <1>3 DEF Inv

\* A step that leaves clock and limiters alone leaves what they track alone.
LEMMA LimitsAlone ==
  ASSUME HitsTrack, UNCHANGED <<now, limits>>
  PROVE  HitsTrack'
  BY DEF HitsTrack, limits

\* A released reservation leaves the budget within its range.
LEMMA ReleaseType ==
  ASSUME TypeOK, NEW r \in Request, Release(r)
  PROVE  (held \subseteq Request)' /\ (inFlight \in 0 .. MaxInFlight)'
<1>1. Size[r] \in Nat /\ MaxInFlight \in Nat
  BY RequestAssumption
<1>2. QED BY <1>1 DEF TypeOK, Release

\* The request callback records its hits.
LEMMA ArriveInv ==
  ASSUME Inv, NEW r \in Request, NEW route \in Route, Arrive(r, route)
  PROVE  Inv'
<1> DEFINE a == From[r]
           ls == IF Admits("http", a) /\ route = "ice" THEN Limiter ELSE {"http"}
<1>1. a \in Address /\ Time \in SUBSET Nat /\ now \in Time
  BY RequestAssumption DEF Inv, TypeOK, Time
<1>2. /\ Hit(ls, a)
      /\ stage' \in [Request -> Stage]
      /\ UNCHANGED <<now, gone, held, inFlight>>
  BY DEF Arrive, Inv, TypeOK, Stage
<1> HIDE DEF a, ls
<1>3. ASSUME NEW l \in Limiter
      PROVE  /\ hits[l] \in [Address -> Seq(Time)] /\ log[l] \in [Address -> Seq(Time)]
             /\ MaxHits[l] \in Nat
             /\ \A b \in Address : Tracks(hits[l][b], log[l][b], MaxHits[l], now)
  BY RequestAssumption DEF Inv, TypeOK, HitsTrack, Time
<1>4. ASSUME NEW l \in Limiter
      PROVE  /\ RecordHit(hits[l][a], now, MaxHits[l]) \in Seq(Time)
             /\ Append(log[l][a], now) \in Seq(Time)
             /\ Tracks(RecordHit(hits[l][a], now, MaxHits[l]), Append(log[l][a], now),
                       MaxHits[l], now)
  <2>1. hits[l][a] \in Seq(Time) /\ log[l][a] \in Seq(Time) /\ MaxHits[l] \in Nat
    BY <1>1, <1>3
  <2>2. Tracks(hits[l][a], log[l][a], MaxHits[l], now)
    BY <1>1, <1>3
  <2>3. QED BY <1>1, <2>1, <2>2, RecordTracks
<1>5. ASSUME NEW l \in Limiter
      PROVE  /\ hits'[l] \in [Address -> Seq(Time)] /\ log'[l] \in [Address -> Seq(Time)]
             /\ \A b \in Address : Tracks(hits'[l][b], log'[l][b], MaxHits[l], now)
  <2>1. CASE l \notin ls
    BY <2>1, <1>2, <1>3 DEF Hit
  <2>2. CASE l \in ls
    <3>1. /\ hits'[l] = [hits[l] EXCEPT ![a] = RecordHit(hits[l][a], now, MaxHits[l])]
          /\ log'[l] = [log[l] EXCEPT ![a] = Append(log[l][a], now)]
      BY <2>2, <1>2 DEF Hit
    <3>2. QED BY <3>1, <1>1, <1>3, <1>4
  <2>3. QED BY <2>1, <2>2
<1>6. DOMAIN hits' = Limiter /\ DOMAIN log' = Limiter
      /\ hits' = [l \in Limiter |-> hits'[l]] /\ log' = [l \in Limiter |-> log'[l]]
  BY <1>2 DEF Hit
<1>7. hits' \in [Limiter -> [Address -> Seq(Time)]] /\ log' \in [Limiter -> [Address -> Seq(Time)]]
  BY <1>5, <1>6
<1>8. TypeOK'
  BY <1>2, <1>7 DEF Inv, TypeOK, Time
<1>9. HitsTrack'
  BY <1>2, <1>5 DEF HitsTrack
<1>10. QED BY <1>8, <1>9 DEF Inv

\* The expiry interval prunes every limiter.
LEMMA PruneInv == Inv /\ Prune => Inv'
<1> SUFFICES ASSUME Inv, Prune PROVE Inv'
  OBVIOUS
<1>1. Time \in SUBSET Nat /\ now \in Nat
  BY DEF Inv, TypeOK, Time
<1>2. ASSUME NEW l \in Limiter, NEW a \in Address
      PROVE  /\ RetainRecent(hits[l][a], now) \in Seq(Time)
             /\ Tracks(RetainRecent(hits[l][a], now), log[l][a], MaxHits[l], now)
  <2>1. hits[l][a] \in Seq(Time) /\ log[l][a] \in Seq(Time) /\ MaxHits[l] \in Nat
    BY RequestAssumption DEF Inv, TypeOK, Time
  <2>2. Tracks(hits[l][a], log[l][a], MaxHits[l], now)
    BY DEF Inv, HitsTrack
  <2>3. QED BY <1>1, <2>1, <2>2, RetainTracks, RetainFacts
<1>3. /\ hits' = [l \in Limiter |-> [a \in Address |-> RetainRecent(hits[l][a], now)]]
      /\ UNCHANGED <<now, log, stage, gone, held, inFlight>>
  BY DEF Prune, serving
<1>4. hits' \in [Limiter -> [Address -> Seq(Time)]]
  BY <1>2, <1>3
<1>5. TypeOK'
  BY <1>3, <1>4 DEF Inv, TypeOK, Time
<1>6. HitsTrack'
  BY <1>2, <1>3 DEF HitsTrack
<1>7. QED BY <1>5, <1>6 DEF Inv

\* The clock ticks.
LEMMA TickInv == Inv /\ Tick => Inv'
<1> SUFFICES ASSUME Inv, Tick PROVE Inv'
  OBVIOUS
<1>1. Time \in SUBSET Nat /\ now \in Nat
  BY DEF Inv, TypeOK, Time
<1>2. now' = now + 1 /\ UNCHANGED <<hits, log, stage, gone, held, inFlight>>
  BY DEF Tick, limits, serving
<1>3. ASSUME NEW l \in Limiter, NEW a \in Address
      PROVE  Tracks(hits[l][a], log[l][a], MaxHits[l], now + 1)
  <2>1. hits[l][a] \in Seq(Time) /\ log[l][a] \in Seq(Time) /\ MaxHits[l] \in Nat
    BY RequestAssumption DEF Inv, TypeOK, Time
  <2>2. Tracks(hits[l][a], log[l][a], MaxHits[l], now)
    BY DEF Inv, HitsTrack
  <2>3. QED BY <1>1, <2>1, <2>2, TickTracks
<1>4. HitsTrack'
  BY <1>2, <1>3 DEF HitsTrack
<1>5. TypeOK'
  BY <1>2, RequestAssumption DEF Inv, TypeOK, Tick
<1>6. QED BY <1>4, <1>5 DEF Inv

\* The awaits of serveStatic and the events of its response.
LEMMA ServeInv ==
  ASSUME Inv, NEW r \in Request, Serve(r)
  PROVE  Inv'
<1>1. Size[r] \in Nat /\ MaxInFlight \in Nat
  BY RequestAssumption
<1>2. UNCHANGED <<now, limits>>
  BY DEF Serve, LookupError, Reserve, ReadError, ReadDone, CloseError, IntegrityError,
         Respond, Finish, Close, ClientGone
<1>3. HitsTrack'
  BY <1>2, LimitsAlone DEF Inv
<1>4. stage' \in [Request -> Stage]
  BY DEF Inv, TypeOK, Stage, Serve, LookupError, Reserve, ReadError, ReadDone, CloseError,
         IntegrityError, Respond, Finish, Close, ClientGone, End
<1>5. (gone \subseteq Request)'
  BY DEF Inv, TypeOK, Serve, LookupError, Reserve, ReadError, ReadDone, CloseError,
         IntegrityError, Respond, Finish, Close, ClientGone
<1>6. (held \subseteq Request)' /\ (inFlight \in 0 .. MaxInFlight)'
  <2>1. CASE Release(r)
    BY <2>1, ReleaseType DEF Inv
  <2>2. CASE UNCHANGED <<held, inFlight>>
    BY <2>2 DEF Inv, TypeOK
  <2>3. CASE Reserve(r)
    BY <2>3, <1>1 DEF Inv, TypeOK, Reserve
  <2>4. QED
    BY <2>1, <2>2, <2>3 DEF Serve, LookupError, ReadError, ReadDone, CloseError,
       IntegrityError, Respond, Finish, Close, ClientGone
<1>7. QED BY <1>2, <1>3, <1>4, <1>5, <1>6 DEF Inv, TypeOK, limits

\* Inv is inductive.
THEOREM Invariance == Spec => []Inv
<1>1. ASSUME Inv, [Next]_vars PROVE Inv'
  <2>1. CASE UNCHANGED vars
    <3>1. UNCHANGED <<now, hits, log, stage, gone, held, inFlight>>
      BY <2>1 DEF vars, limits, serving
    <3>2. HitsTrack'
      BY <1>1, <3>1, LimitsAlone DEF Inv, limits
    <3>3. TypeOK'
      BY <1>1, <3>1 DEF Inv, TypeOK
    <3>4. QED BY <3>2, <3>3 DEF Inv
  <2>2. CASE Next
    BY <1>1, <2>2, PruneInv, TickInv, ArriveInv, ServeInv DEF Next
  <2>3. QED BY <1>1, <2>1, <2>2
<1>2. QED BY <1>1, InitInv, PTL DEF Spec

\* The limiters, the stages of the requests and the budget keep their types; in
\* particular staticInFlightBytes never exceeds its limit.
THEOREM HttpTypes == Spec => []TypeOK
<1>1. Inv => TypeOK
  BY DEF Inv
<1>2. QED BY <1>1, Invariance, PTL

\* recordFixedWindowHit and pruneFixedWindowRateLimits forget only what cannot matter: the
\* truncated times decide every hit as the full history would.
THEOREM LimitAlwaysExact == Spec => []LimitExact
<1>1. Inv => LimitExact
  <2> SUFFICES ASSUME Inv, NEW l \in Limiter, NEW a \in Address
               PROVE  Admits(l, a) <=> Cardinality(Recent(l, a)) < MaxHits[l]
    BY DEF LimitExact
  <2>1. Time \in SUBSET Nat /\ now \in Time
    BY DEF Inv, TypeOK, Time
  <2>2. hits[l][a] \in Seq(Time) /\ log[l][a] \in Seq(Time) /\ MaxHits[l] \in Nat
    BY RequestAssumption DEF Inv, TypeOK, Time
  <2>3. Tracks(hits[l][a], log[l][a], MaxHits[l], now)
    BY DEF Inv, HitsTrack
  <2>4. Allowed(RecordHit(hits[l][a], now, MaxHits[l]), MaxHits[l])
          <=> Cardinality({i \in 1 .. Len(log[l][a]) : InWindow(log[l][a][i], now)})
                < MaxHits[l]
    BY <2>1, <2>2, <2>3, TracksDecides
  <2>5. QED BY <2>4, Zenon DEF Admits, Recent
<1>2. QED BY <1>1, Invariance, PTL

-----------------------------------------------------------------------------
(* The byte budget *)

\* The counter is exactly the reservations that are not released, and every body in
\* memory has one.
Covered ==
  /\ IsFiniteSet(Bytes(held)) /\ inFlight = Cardinality(Bytes(held))
  /\ \A r \in Request : /\ stage[r] \in {"new", "lookup"} => r \notin held
                        /\ stage[r] \in {"reading", "closing", "sending"} => r \in held

\* The bytes of one file.
LEMMA FileBytes ==
  ASSUME NEW r \in Request
  PROVE  /\ Bytes({r}) = {r} \X (1 .. Size[r])
         /\ IsFiniteSet(Bytes({r})) /\ Cardinality(Bytes({r})) = Size[r] /\ Size[r] \in Nat
<1>1. Size[r] \in Nat
  BY RequestAssumption
<1>2. Bytes({r}) = {r} \X (1 .. Size[r])
  BY Zenon DEF Bytes
<1>3. IsFiniteSet(1 .. Size[r]) /\ Cardinality(1 .. Size[r]) = Size[r]
  BY <1>1, FS_Interval
<1>4. IsFiniteSet({r}) /\ Cardinality({r}) = 1
  BY FS_Singleton
<1>5. /\ IsFiniteSet({r} \X (1 .. Size[r]))
      /\ Cardinality({r} \X (1 .. Size[r])) = Cardinality({r}) * Cardinality(1 .. Size[r])
  BY <1>3, <1>4, FS_Product, Zenon
<1>6. Cardinality({r}) * Cardinality(1 .. Size[r]) = Size[r]
  BY <1>1, <1>3, <1>4
<1>7. QED BY <1>1, <1>2, <1>5, <1>6

\* The bytes of two sets of requests.
LEMMA BytesOf ==
  ASSUME NEW R, NEW T
  PROVE  /\ Bytes(R \cup T) = Bytes(R) \cup Bytes(T)
         /\ R \cap T = {} => Bytes(R) \cap Bytes(T) = {}
         /\ R \subseteq T => Bytes(R) \subseteq Bytes(T)
<1>1. ASSUME NEW Q, NEW b
      PROVE  b \in Bytes(Q) <=> \E r \in Q : b \in {r} \X (1 .. Size[r])
  BY Zenon DEF Bytes
<1> DEFINE Of(b, r) == b \in {r} \X (1 .. Size[r])
<1>2. ASSUME NEW b, NEW r, NEW q, Of(b, r), Of(b, q)
      PROVE  r = q
  <2>1. b[1] = r /\ b[1] = q
    BY <1>2
  <2>2. QED BY <2>1
<1>3. ASSUME NEW b
      PROVE  /\ b \in Bytes(R) <=> \E r \in R : Of(b, r)
             /\ b \in Bytes(T) <=> \E r \in T : Of(b, r)
             /\ b \in Bytes(R \cup T) <=> \E r \in R \cup T : Of(b, r)
  BY <1>1
<1> HIDE DEF Of
<1>4. Bytes(R \cup T) = Bytes(R) \cup Bytes(T)
  BY <1>3
<1>5. R \cap T = {} => Bytes(R) \cap Bytes(T) = {}
  BY <1>2, <1>3
<1>6. R \subseteq T => Bytes(R) \subseteq Bytes(T)
  BY <1>3
<1>7. QED BY <1>4, <1>5, <1>6

\* A reservation that is made for a file none is held for.
LEMMA ReserveCounts ==
  ASSUME NEW R, NEW r \in Request, r \notin R, IsFiniteSet(Bytes(R))
  PROVE  /\ IsFiniteSet(Bytes(R \cup {r}))
         /\ Cardinality(Bytes(R \cup {r})) = Cardinality(Bytes(R)) + Size[r]
         /\ Cardinality(Bytes(R)) \in Nat
<1>1. Bytes(R \cup {r}) = Bytes(R) \cup Bytes({r}) /\ Bytes(R) \cap Bytes({r}) = {}
  <2>1. R \cap {r} = {}
    OBVIOUS
  <2>2. QED BY <2>1, BytesOf, Zenon
<1>2. IsFiniteSet(Bytes({r})) /\ Cardinality(Bytes({r})) = Size[r] /\ Size[r] \in Nat
  BY FileBytes
<1>3. Cardinality(Bytes(R)) \in Nat
  BY FS_CardinalityType
<1>4. Cardinality(Bytes(R) \cap Bytes({r})) = 0
  BY <1>1, FS_EmptySet
<1>5. /\ IsFiniteSet(Bytes(R) \cup Bytes({r}))
      /\ Cardinality(Bytes(R) \cup Bytes({r}))
           = Cardinality(Bytes(R)) + Cardinality(Bytes({r})) - Cardinality(Bytes(R) \cap Bytes({r}))
  BY <1>2, FS_Union, Zenon
<1>6. Cardinality(Bytes(R)) + Size[r] - 0 = Cardinality(Bytes(R)) + Size[r]
  BY <1>2, <1>3
<1>7. Cardinality(Bytes(R) \cup Bytes({r})) = Cardinality(Bytes(R)) + Size[r]
  BY <1>2, <1>4, <1>5, <1>6, Zenon
<1>8. QED BY <1>1, <1>3, <1>5, <1>7, Zenon

\* Releasing, the first time or again, keeps the counter exact.
LEMMA ReleaseCounts ==
  ASSUME Inv, Covered, NEW r \in Request, Release(r)
  PROVE  /\ IsFiniteSet(Bytes(held')) /\ inFlight' = Cardinality(Bytes(held'))
         /\ held' = held \ {r}
<1>1. held' = held \ {r}
  BY DEF Release
<1>2. CASE r \notin held
  <2>1. held' = held /\ inFlight' = inFlight
    BY <1>1, <1>2 DEF Release
  <2>2. QED BY <1>1, <2>1 DEF Covered
<1>3. CASE r \in held
  <2>1. held = held' \cup {r} /\ r \notin held'
    BY <1>1, <1>3
  <2>2. IsFiniteSet(Bytes(held'))
    <3>1. Bytes(held') \subseteq Bytes(held)
      BY <1>1, BytesOf
    <3>2. QED BY <3>1, FS_Subset DEF Covered
  <2>3. /\ Cardinality(Bytes(held)) = Cardinality(Bytes(held')) + Size[r]
        /\ Cardinality(Bytes(held')) \in Nat
    BY <2>1, <2>2, ReserveCounts
  <2>4. Size[r] \in Nat /\ inFlight = Cardinality(Bytes(held))
    BY RequestAssumption DEF Covered
  <2>5. inFlight' = inFlight - Size[r]
    BY <1>3, <2>3, <2>4 DEF Release
  <2>6. QED BY <1>1, <2>2, <2>3, <2>4, <2>5
<1>4. QED BY <1>2, <1>3

\* The awaits of serveStatic and the events of its response keep the counter exact.
LEMMA ServeCovers ==
  ASSUME Inv, Covered, NEW r \in Request, Serve(r)
  PROVE  Covered'
<1>1. stage \in [Request -> Stage] /\ \A q \in Request : q # r => stage'[q] = stage[q]
  BY DEF Inv, TypeOK, Serve, LookupError, Reserve, ReadError, ReadDone, CloseError,
         IntegrityError, Respond, Finish, Close, ClientGone, End
<1>2. CASE Release(r) /\ stage'[r] \in {"over", "finished"}
  <2>1. /\ IsFiniteSet(Bytes(held')) /\ inFlight' = Cardinality(Bytes(held'))
        /\ held' = held \ {r}
    BY <1>2, ReleaseCounts
  <2>2. QED BY <1>1, <1>2, <2>1 DEF Covered, Bytes
<1>3. CASE /\ UNCHANGED <<held, inFlight>>
           /\ stage'[r] = "over" \/ stage'[r] = stage[r]
              \/ (stage[r] \in {"reading", "closing"} /\ stage'[r] \in {"closing", "sending"})
  BY <1>1, <1>3 DEF Covered, Bytes
<1>4. CASE stage[r] = "lookup" /\ held' = held \cup {r} /\ inFlight' = inFlight + Size[r]
           /\ stage'[r] = "reading"
  <2>1. r \notin held
    BY <1>4 DEF Covered
  <2>2. /\ IsFiniteSet(Bytes(held'))
        /\ Cardinality(Bytes(held')) = Cardinality(Bytes(held)) + Size[r]
    BY <1>4, <2>1, ReserveCounts DEF Covered
  <2>3. inFlight' = Cardinality(Bytes(held'))
    BY <1>4, <2>2 DEF Covered
  <2>4. QED BY <1>1, <1>4, <2>2, <2>3 DEF Covered, Bytes
<1>5. QED
  BY <1>1, <1>2, <1>3, <1>4 DEF Serve, LookupError, Reserve, ReadError, ReadDone, CloseError,
     IntegrityError, Respond, Finish, Close, ClientGone, End

\* No other step touches a reservation.
LEMMA OtherCovers ==
  ASSUME Inv, Covered,
         \/ UNCHANGED vars \/ Prune \/ Tick
         \/ \E r \in Request, route \in Route : Arrive(r, route)
  PROVE  Covered'
<1>1. UNCHANGED <<held, inFlight>>
  BY DEF vars, serving, Prune, Tick, Arrive
<1>2. \A q \in Request : stage'[q] = stage[q] \/ (stage[q] = "new" /\ stage'[q] \in {"lookup", "over"})
  BY DEF Inv, TypeOK, vars, serving, Prune, Tick, Arrive
<1>3. QED BY <1>1, <1>2 DEF Covered, Bytes

\* The bodies in memory, from their allocation to the end of the response, never hold more
\* bytes than are reserved, whichever of finish, close and the error paths release a
\* reservation, in whichever order and how often.
THEOREM BudgetAlwaysCoversBodies == Spec => []BudgetCoversBodies
<1>1. Init => Covered
  <2> SUFFICES ASSUME Init PROVE Covered
    OBVIOUS
  <2>1. Bytes({}) = {}
    BY Zenon DEF Bytes
  <2>2. QED BY <2>1, FS_EmptySet DEF Init, Covered
<1>2. ASSUME Inv, Covered, [Next]_vars PROVE Covered'
  BY <1>2, ServeCovers, OtherCovers DEF Next
<1>3. Inv /\ Covered => BudgetCoversBodies
  <2> SUFFICES ASSUME Inv, Covered PROVE Cardinality(Bytes(Resident)) <= inFlight
    BY DEF BudgetCoversBodies
  <2>1. Resident \subseteq held
    BY DEF Covered, Resident
  <2>2. Bytes(Resident) \subseteq Bytes(held)
    BY <2>1, BytesOf
  <2>3. QED BY <2>2, FS_Subset DEF Covered
<1>4. QED BY <1>1, <1>2, <1>3, Invariance, PTL DEF Spec
=============================================================================
