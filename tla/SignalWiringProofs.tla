------------------------- MODULE SignalWiringProofs -------------------------
(***************************************************************************)
(* Candidates are delivered exactly once (SignalWiring, CandidatesDelivered), *)
(* for every number of candidates, every limit and every world.            *)
(*                                                                         *)
(* A candidate that the server has relayed to c is in `Known(c)': in a     *)
(* frame on its way, kept early, in a job that opens it, or remembered by  *)
(* the replay guard.  While c can still be wired without a loss, the       *)
(* server's count is the size of that set (Counted), because a candidate   *)
(* that waits at its sender is not in it yet (Fresh).  What the guard      *)
(* remembers is queued or handed over, never both and never twice (Queue), *)
(* and whoever finds a queue after the remote description has a job that   *)
(* drains it (Jobs, Queue).  When nothing is on its way, all three agree.  *)
(***************************************************************************)
EXTENDS SignalWiring, SequenceTheorems, FiniteSetTheorems, TLAPS

-----------------------------------------------------------------------------
(* The inductive invariant *)

Kinds == {"offer", "answer", "candidate"}
Stages == {"ice", "offering", "linking", "moving", "hung", "over", "crashed"}
Awaits == {"opening", "applying", "answering", "sealing", "draining"}

\* Candidates are numbered from 1; descriptions are not numbered.
SignalFrame ==
  {s \in [type : {"signal"}, kind : Kinds, n : Nat, copy : {0, 1}] : s.kind = "candidate" <=> s.n # 0}
PlainFrame == [type : {"bye", "close", "error"}]
AnyFrame == SignalFrame \cup PlainFrame
JobSet == [sig : SignalFrame, at : Awaits]

Typed ==
  /\ world \in World
  /\ stage \in [Side -> Stages]
  /\ why \in [Side -> {"none", "failed", "crashed", "cancelled", "complete"}]
  /\ wired \in [Side -> BOOLEAN] /\ remote \in [Side -> BOOLEAN] /\ local \in [Side -> BOOLEAN]
  /\ pcOpen \in [Side -> BOOLEAN] /\ linked \in BOOLEAN /\ replayed \in BOOLEAN
  /\ sock \in [Side -> {"open", "closing", "closed"}] /\ chans \subseteq Label
  /\ emitted \in [Side -> Nat]
  /\ queued \in [Side -> Seq(Nat)] /\ added \in [Side -> Seq(Nat)]
  /\ early \in [Side -> Seq(SignalFrame)] /\ sealing \in [Side -> Seq(SignalFrame)]
  /\ up \in [Side -> Seq(AnyFrame)] /\ down \in [Side -> Seq(AnyFrame)]
  /\ jobs \in [Side -> SUBSET JobSet] /\ seen \in [Side -> SUBSET (Kinds \X Nat)]
  /\ relay \in [live : BOOLEAN, offer : BOOLEAN, answer : BOOLEAN, count : [Side -> Nat]]

\* A frame of q brings candidate n.
IsCandidate(f) == f.type = "signal" /\ f.kind = "candidate"
Carries(q, n) == \E i \in DOMAIN q : IsCandidate(q[i]) /\ q[i].n = n

\* No candidate is in q twice.
Distinct(q) ==
  \A i, k \in DOMAIN q : IsCandidate(q[i]) /\ IsCandidate(q[k]) /\ q[i].n = q[k].n => i = k

\* The candidates that the server has relayed to c.
Opening(c, n) == \E j \in jobs[c] : j.at = "opening" /\ IsCandidate(j.sig) /\ j.sig.n = n
Known(c) ==
  {n \in Nat : \/ Carries(down[c], n) \/ Carries(early[c], n) \/ Opening(c, n)
               \/ <<"candidate", n>> \in seen[c]}

\* The limits, and what the stages say of the wiring.
Local(c) ==
  /\ wired[c] => stage[c] \in {"offering", "linking"} /\ sock[c] # "closed"
  /\ stage[c] = "ice" =>
       /\ ~wired[c] /\ jobs[c] = {} /\ seen[c] = {} /\ queued[c] = <<>> /\ added[c] = <<>>
  /\ Len(queued[c]) <= MaxQueued /\ Len(early[c]) <= MaxEarly /\ emitted[c] <= world.cands[c]

\* A job that has had a description accepted.
Describing(j) == j.sig.kind # "candidate" /\ j.at # "opening"
\* The description a side accepts.
Wanted(c) == IF c = "sender" THEN "answer" ELSE "offer"

\* At most one description is applied, and an answer is sealed by the job that made it.
Jobs(c) ==
  /\ \A j \in jobs[c] : Describing(j) => Key(j.sig) \in seen[c] /\ j.sig.kind = Wanted(c)
  /\ \A j, k \in jobs[c] : Describing(j) /\ Describing(k) => j = k
  /\ \A j \in jobs[c] : j.at \in {"answering", "sealing"} => Describing(j)
  /\ \A j \in jobs[c] : j.at \in {"answering", "sealing", "draining"} => remote[c]
  /\ \A j \in jobs[c] : j.at = "applying" /\ j.sig.kind = "candidate" => remote[c]
  /\ \A i, k \in DOMAIN sealing[c] :
       sealing[c][i].kind = "answer" /\ sealing[c][k].kind = "answer" => i = k
  /\ (\E i \in DOMAIN sealing[c] : sealing[c][i].kind = "answer")
       => \E j \in jobs[c] : j.at = "sealing"

\* The candidates remembered are queued or handed over, once each.
Queue(c) ==
  /\ \A i, k \in DOMAIN queued[c] : queued[c][i] = queued[c][k] => i = k
  /\ \A i \in DOMAIN queued[c] : queued[c][i] \notin Range(added[c])
  /\ IsFiniteSet(Range(added[c])) /\ Cardinality(Range(added[c])) = Len(added[c])
  /\ \A n \in Range(queued[c]) \cup Range(added[c]) : <<"candidate", n>> \in seen[c]
  /\ wired[c] => \A n \in Nat : <<"candidate", n>> \in seen[c]
                                  => n \in Range(queued[c]) \cup Range(added[c])

\* Nothing is handed over too early, and no queue is left behind.
Drained(c) ==
  /\ added[c] # <<>> => remote[c]
  /\ wired[c] /\ remote[c] /\ queued[c] # <<>>
       => \E j \in jobs[c] : j.at \in {"answering", "sealing", "draining"}

\* A candidate of c that is not relayed yet is waiting once, and is new to the other side.
Fresh(c) ==
  /\ Distinct(sealing[c]) /\ Distinct(up[c])
  /\ \A n \in Nat : ~(Carries(sealing[c], n) /\ Carries(up[c], n))
  /\ \A n \in Nat : Carries(sealing[c], n) \/ Carries(up[c], n)
                      => n \in 1..emitted[c] /\ n \notin Known(Other(c))
  /\ Known(Other(c)) \subseteq 1..emitted[c]

\* No signal to c has been lost.
Lossless(c) == wired[c] \/ (stage[c] = "ice" /\ sock[c] = "open")
Counted(c) == Lossless(c) => relay.count[Other(c)] = Cardinality(Known(c))

Inv ==
  /\ Typed
  /\ \A c \in Side : Local(c) /\ Jobs(c) /\ Queue(c) /\ Drained(c) /\ Fresh(c) /\ Counted(c)

-----------------------------------------------------------------------------
(* Sequences of frames *)

\* A plain frame brings no candidate.
LEMMA PlainFrames ==
  ASSUME NEW f \in PlainFrame
  PROVE  ~IsCandidate(f) /\ f \in AnyFrame
BY DEF PlainFrame, IsCandidate, AnyFrame

\* A sequence of signals and one more.
LEMMA AppendSignal ==
  ASSUME NEW q \in Seq(SignalFrame), NEW f \in SignalFrame
  PROVE  /\ Append(q, f) \in Seq(SignalFrame) /\ Len(Append(q, f)) = Len(q) + 1
         /\ \A n : Carries(Append(q, f), n) <=> (Carries(q, n) \/ (IsCandidate(f) /\ f.n = n))
         /\ Distinct(q) /\ (IsCandidate(f) => ~Carries(q, f.n)) => Distinct(Append(q, f))
<1> DEFINE r == Append(q, f)
<1>1. r \in Seq(SignalFrame) /\ Len(r) = Len(q) + 1 OBVIOUS
<1>2. DOMAIN r = 1..(Len(q) + 1) /\ DOMAIN q = 1..Len(q) /\ Len(q) \in Nat OBVIOUS
<1>3. \A i \in 1..Len(q) : r[i] = q[i] OBVIOUS
<1>4. r[Len(q) + 1] = f OBVIOUS
<1> HIDE DEF r
<1>5. \A n : Carries(r, n) <=> (Carries(q, n) \/ (IsCandidate(f) /\ f.n = n))
  BY <1>2, <1>3, <1>4 DEF Carries
<1>6. ASSUME Distinct(q), IsCandidate(f) => ~Carries(q, f.n) PROVE Distinct(r)
  BY <1>2, <1>3, <1>4, <1>6 DEF Carries, Distinct
<1> QED BY <1>1, <1>5, <1>6 DEF r

\* The same for frames of any kind.
LEMMA AppendFrame ==
  ASSUME NEW q \in Seq(AnyFrame), NEW f \in AnyFrame
  PROVE  /\ Append(q, f) \in Seq(AnyFrame) /\ Len(Append(q, f)) = Len(q) + 1
         /\ \A n : Carries(Append(q, f), n) <=> (Carries(q, n) \/ (IsCandidate(f) /\ f.n = n))
         /\ Distinct(q) /\ (IsCandidate(f) => ~Carries(q, f.n)) => Distinct(Append(q, f))
<1> DEFINE r == Append(q, f)
<1>1. r \in Seq(AnyFrame) /\ Len(r) = Len(q) + 1 OBVIOUS
<1>2. DOMAIN r = 1..(Len(q) + 1) /\ DOMAIN q = 1..Len(q) /\ Len(q) \in Nat OBVIOUS
<1>3. \A i \in 1..Len(q) : r[i] = q[i] OBVIOUS
<1>4. r[Len(q) + 1] = f OBVIOUS
<1> HIDE DEF r
<1>5. \A n : Carries(r, n) <=> (Carries(q, n) \/ (IsCandidate(f) /\ f.n = n))
  BY <1>2, <1>3, <1>4 DEF Carries
<1>6. ASSUME Distinct(q), IsCandidate(f) => ~Carries(q, f.n) PROVE Distinct(r)
  BY <1>2, <1>3, <1>4, <1>6 DEF Carries, Distinct
<1> QED BY <1>1, <1>5, <1>6 DEF r

\* Taking the first frame away.
LEMMA TailFrame ==
  ASSUME NEW q \in Seq(AnyFrame), q # <<>>
  PROVE  /\ Head(q) \in AnyFrame /\ Tail(q) \in Seq(AnyFrame)
         /\ \A n : Carries(q, n) <=> (Carries(Tail(q), n) \/ (IsCandidate(Head(q)) /\ Head(q).n = n))
         /\ Distinct(q) => /\ Distinct(Tail(q))
                           /\ IsCandidate(Head(q)) => ~Carries(Tail(q), Head(q).n)
<1> DEFINE r == Tail(q)  h == Head(q)
<1>1. r \in Seq(AnyFrame) /\ h \in AnyFrame OBVIOUS
<1>2. Len(q) \in Nat /\ Len(q) > 0 /\ DOMAIN r = 1..(Len(q) - 1) /\ DOMAIN q = 1..Len(q) OBVIOUS
<1>3. \A i \in 1..(Len(q) - 1) : r[i] = q[i + 1] OBVIOUS
<1>4. h = q[1] OBVIOUS
<1> HIDE DEF r, h
<1>5. \A n : Carries(r, n) \/ (IsCandidate(h) /\ h.n = n) => Carries(q, n)
  <2> TAKE n
  <2>1. ASSUME Carries(r, n) PROVE Carries(q, n)
    <3>1. PICK i \in DOMAIN r : IsCandidate(r[i]) /\ r[i].n = n BY <2>1 DEF Carries
    <3>2. i + 1 \in DOMAIN q /\ r[i] = q[i + 1] BY <1>2, <1>3
    <3> QED BY <3>1, <3>2 DEF Carries
  <2>2. ASSUME IsCandidate(h), h.n = n PROVE Carries(q, n) BY <2>2, <1>2, <1>4 DEF Carries
  <2> QED BY <2>1, <2>2
<1>6. \A n : Carries(q, n) => (Carries(r, n) \/ (IsCandidate(h) /\ h.n = n))
  <2> SUFFICES ASSUME NEW n, Carries(q, n) PROVE Carries(r, n) \/ (IsCandidate(h) /\ h.n = n) OBVIOUS
  <2>1. PICK i \in DOMAIN q : IsCandidate(q[i]) /\ q[i].n = n BY DEF Carries
  <2>2. CASE i = 1 BY <2>1, <2>2, <1>4
  <2>3. CASE i # 1
    <3>1. i - 1 \in DOMAIN r /\ r[i - 1] = q[i] BY <2>3, <1>2, <1>3
    <3> QED BY <3>1, <2>1 DEF Carries
  <2> QED BY <2>2, <2>3
<1>7. ASSUME Distinct(q) PROVE Distinct(r)
  <2> SUFFICES ASSUME NEW i \in DOMAIN r, NEW k \in DOMAIN r,
                      IsCandidate(r[i]), IsCandidate(r[k]), r[i].n = r[k].n
               PROVE  i = k
    BY DEF Distinct
  <2>1. i + 1 \in DOMAIN q /\ k + 1 \in DOMAIN q /\ r[i] = q[i + 1] /\ r[k] = q[k + 1] BY <1>2, <1>3
  <2>2. i + 1 = k + 1 BY <2>1, <1>7 DEF Distinct
  <2> QED BY <2>2, <1>2
<1>8. ASSUME Distinct(q), IsCandidate(h) PROVE ~Carries(r, h.n)
  <2> SUFFICES ASSUME Carries(r, h.n) PROVE FALSE OBVIOUS
  <2>1. PICK i \in DOMAIN r : IsCandidate(r[i]) /\ r[i].n = h.n BY DEF Carries
  <2>2. i + 1 \in DOMAIN q /\ 1 \in DOMAIN q /\ r[i] = q[i + 1] BY <1>2, <1>3
  <2>3. i + 1 = 1 BY <2>1, <2>2, <1>4, <1>8 DEF Distinct
  <2> QED BY <2>3, <1>2
<1> QED BY <1>1, <1>5, <1>6, <1>7, <1>8 DEF r, h

\* Taking one signal out of the middle.
LEMMA RemoveSignal ==
  ASSUME NEW q \in Seq(SignalFrame), NEW i \in 1..Len(q)
  PROVE  /\ RemoveAt(q, i) \in Seq(SignalFrame) /\ Len(RemoveAt(q, i)) = Len(q) - 1
         /\ \A k \in 1..(Len(q) - 1) : RemoveAt(q, i)[k] = IF k < i THEN q[k] ELSE q[k + 1]
<1> DEFINE a == SubSeq(q, 1, i - 1)  b == SubSeq(q, i + 1, Len(q))
<1>1. a \in Seq(SignalFrame) /\ Len(a) = i - 1 /\ \A k \in 1..(i - 1) : a[k] = q[k]
  OBVIOUS
<1>2. b \in Seq(SignalFrame) /\ Len(b) = Len(q) - i /\ \A k \in 1..(Len(q) - i) : b[k] = q[k + i]
  OBVIOUS
<1>3. RemoveAt(q, i) = a \o b BY DEF RemoveAt
<1> HIDE DEF a, b
<1>c. /\ a \o b \in Seq(SignalFrame) /\ Len(a \o b) = Len(a) + Len(b)
      /\ \A k \in 1..(Len(a) + Len(b)) :
           (a \o b)[k] = IF k <= Len(a) THEN a[k] ELSE b[k - Len(a)]
  BY <1>1, <1>2, ConcatProperties, Zenon
<1>4. a \o b \in Seq(SignalFrame) /\ Len(a \o b) = Len(q) - 1 BY <1>1, <1>2, <1>c
<1>5. ASSUME NEW k \in 1..(Len(q) - 1) PROVE (a \o b)[k] = IF k < i THEN q[k] ELSE q[k + 1]
  <2>1. CASE k < i BY <2>1, <1>1, <1>2, <1>c
  <2>2. CASE ~(k < i)
    <3>1. (a \o b)[k] = b[k - (i - 1)] BY <2>2, <1>1, <1>2, <1>c
    <3>2. b[k - (i - 1)] = q[k - (i - 1) + i] /\ k - (i - 1) + i = k + 1 BY <2>2, <1>2
    <3> QED BY <3>1, <3>2, <2>2
  <2> QED BY <2>1, <2>2
<1> QED BY <1>3, <1>4, <1>5

\* What is left after that carries nothing new, nothing twice, and not what was taken.
LEMMA RemoveCarries ==
  ASSUME NEW q \in Seq(SignalFrame), NEW i \in 1..Len(q)
  PROVE  LET r == RemoveAt(q, i) IN
         /\ r \in Seq(SignalFrame)
         /\ \A n : Carries(r, n) => Carries(q, n)
         /\ Distinct(q) => Distinct(r)
         /\ Distinct(q) /\ IsCandidate(q[i]) => ~Carries(r, q[i].n)
         /\ \A k \in DOMAIN r : \E m \in DOMAIN q : r[k] = q[m] /\ m # i
         /\ (\A k, m \in DOMAIN q : q[k].kind = "answer" /\ q[m].kind = "answer" => k = m)
              => \A k, m \in DOMAIN r : r[k].kind = "answer" /\ r[m].kind = "answer" => k = m
<1> DEFINE r == RemoveAt(q, i)
           sh(k) == IF k < i THEN k ELSE k + 1
<1>1. r \in Seq(SignalFrame) /\ Len(r) = Len(q) - 1 BY RemoveSignal
<1>2. \A k \in 1..(Len(q) - 1) : r[k] = IF k < i THEN q[k] ELSE q[k + 1] BY RemoveSignal
<1>3. Len(q) \in Nat /\ DOMAIN q = 1..Len(q) /\ DOMAIN r = 1..(Len(q) - 1)
  <2>1. Len(q) \in Nat /\ DOMAIN q = 1..Len(q) OBVIOUS
  <2>2. DOMAIN r = 1..Len(r) BY <1>1, LenProperties, Zenon
  <2> QED BY <2>1, <2>2, <1>1
<1> HIDE DEF r
<1>4. ASSUME NEW k \in DOMAIN r PROVE sh(k) \in DOMAIN q /\ r[k] = q[sh(k)] /\ sh(k) # i
  BY <1>2, <1>3
<1>5. ASSUME NEW k \in DOMAIN r, NEW m \in DOMAIN r, sh(k) = sh(m) PROVE k = m
  BY <1>5, <1>3
<1> HIDE DEF sh
<1>6. \A n : Carries(r, n) => Carries(q, n) BY <1>4 DEF Carries
<1>7. ASSUME Distinct(q) PROVE Distinct(r) BY <1>7, <1>4, <1>5 DEF Distinct
<1>8. ASSUME Distinct(q), IsCandidate(q[i]) PROVE ~Carries(r, q[i].n)
  BY <1>8, <1>4, <1>3 DEF Distinct, Carries
<1>9. \A k \in DOMAIN r : \E m \in DOMAIN q : r[k] = q[m] /\ m # i BY <1>4
<1>10. ASSUME \A k, m \in DOMAIN q : q[k].kind = "answer" /\ q[m].kind = "answer" => k = m
       PROVE  \A k, m \in DOMAIN r : r[k].kind = "answer" /\ r[m].kind = "answer" => k = m
  BY <1>10, <1>4, <1>5
<1> QED BY <1>1, <1>6, <1>7, <1>8, <1>9, <1>10 DEF r

\* Frames after frames.
LEMMA ConcatFrames ==
  ASSUME NEW q \in Seq(AnyFrame), NEW g \in Seq(AnyFrame)
  PROVE  /\ q \o g \in Seq(AnyFrame)
         /\ \A n : Carries(q \o g, n) <=> (Carries(q, n) \/ Carries(g, n))
         /\ Distinct(q) /\ Distinct(g) /\ (\A n : ~(Carries(q, n) /\ Carries(g, n)))
              => Distinct(q \o g)
<1> DEFINE r == q \o g
<1>1. /\ r \in Seq(AnyFrame) /\ Len(r) = Len(q) + Len(g)
      /\ \A k \in 1..(Len(q) + Len(g)) : r[k] = IF k <= Len(q) THEN q[k] ELSE g[k - Len(q)]
  BY ConcatProperties, Zenon
<1>2. Len(q) \in Nat /\ Len(g) \in Nat /\ DOMAIN q = 1..Len(q) /\ DOMAIN g = 1..Len(g) OBVIOUS
<1>3. DOMAIN r = 1..(Len(q) + Len(g))
  <2>1. DOMAIN r = 1..Len(r) BY <1>1, LenProperties, Zenon
  <2> QED BY <2>1, <1>1
<1> HIDE DEF r
<1>4. \A i \in DOMAIN q : i \in DOMAIN r /\ r[i] = q[i] BY <1>1, <1>2, <1>3
<1>5. \A i \in DOMAIN g : i + Len(q) \in DOMAIN r /\ r[i + Len(q)] = g[i] BY <1>1, <1>2, <1>3
<1>6. \A k \in DOMAIN r : \/ k \in DOMAIN q /\ r[k] = q[k]
                          \/ k - Len(q) \in DOMAIN g /\ r[k] = g[k - Len(q)]
  BY <1>1, <1>2, <1>3
<1>7. \A n : Carries(r, n) <=> (Carries(q, n) \/ Carries(g, n))
  <2>1. \A n : Carries(q, n) => Carries(r, n) BY <1>4 DEF Carries
  <2>2. \A n : Carries(g, n) => Carries(r, n) BY <1>5 DEF Carries
  <2>3. \A n : Carries(r, n) => (Carries(q, n) \/ Carries(g, n)) BY <1>6 DEF Carries
  <2> QED BY <2>1, <2>2, <2>3
<1>8. ASSUME Distinct(q), Distinct(g), \A n : ~(Carries(q, n) /\ Carries(g, n))
      PROVE  Distinct(r)
  <2> SUFFICES ASSUME NEW i \in DOMAIN r, NEW k \in DOMAIN r,
                      IsCandidate(r[i]), IsCandidate(r[k]), r[i].n = r[k].n
               PROVE  i = k
    BY DEF Distinct
  <2>1. CASE i \in DOMAIN q /\ r[i] = q[i] /\ k \in DOMAIN q /\ r[k] = q[k]
    BY <2>1, <1>8 DEF Distinct
  <2>2. CASE /\ i - Len(q) \in DOMAIN g /\ r[i] = g[i - Len(q)]
             /\ k - Len(q) \in DOMAIN g /\ r[k] = g[k - Len(q)]
    <3>1. i - Len(q) = k - Len(q) BY <2>2, <1>8 DEF Distinct
    <3> QED BY <3>1, <1>2, <1>3
  <2>3. CASE /\ i \in DOMAIN q /\ r[i] = q[i]
             /\ k - Len(q) \in DOMAIN g /\ r[k] = g[k - Len(q)]
    BY <2>3, <1>8 DEF Carries
  <2>4. CASE /\ k \in DOMAIN q /\ r[k] = q[k]
             /\ i - Len(q) \in DOMAIN g /\ r[i] = g[i - Len(q)]
    BY <2>4, <1>8 DEF Carries
  <2> QED BY <2>1, <2>2, <2>3, <2>4, <1>6
<1> QED BY <1>1, <1>7, <1>8 DEF r

-----------------------------------------------------------------------------
(* Steps that move no candidate *)

\* There are two sides.
LEMMA OtherSide ==
  ASSUME NEW c \in Side
  PROVE  /\ Other(c) \in Side /\ Other(c) # c /\ Other(Other(c)) = c
         /\ \A d \in Side : d = c \/ d = Other(c)
BY DEF Side, Other

HasAnswer(q) == \E i \in DOMAIN q : q[i].kind = "answer"
OneAnswer(q) == \A i, k \in DOMAIN q : q[i].kind = "answer" /\ q[k].kind = "answer" => i = k

\* A step that puts no candidate into up, or into sealing; it may take some out.
UpQuiet ==
  /\ up' \in [Side -> Seq(AnyFrame)]
  /\ \A d \in Side : /\ \A n \in Nat : Carries(up'[d], n) => Carries(up[d], n)
                     /\ Distinct(up[d]) => Distinct(up'[d])
SealFresh ==
  /\ sealing' \in [Side -> Seq(SignalFrame)]
  /\ \A d \in Side : /\ \A n \in Nat : Carries(sealing'[d], n) => Carries(sealing[d], n)
                     /\ Distinct(sealing[d]) => Distinct(sealing'[d])
\* The same of answers.
SealQuiet ==
  /\ SealFresh
  /\ \A d \in Side : /\ OneAnswer(sealing[d]) => OneAnswer(sealing'[d])
                     /\ HasAnswer(sealing'[d]) => HasAnswer(sealing[d])

\* What does not change is quiet.
LEMMA SameIsQuiet ==
  /\ Typed /\ UNCHANGED up => UpQuiet
  /\ Typed /\ UNCHANGED sealing => SealQuiet
<1>1. ASSUME Typed, UNCHANGED up PROVE UpQuiet BY <1>1 DEF Typed, UpQuiet
<1>2. ASSUME Typed, UNCHANGED sealing PROVE SealQuiet BY <1>2 DEF Typed, SealQuiet, SealFresh
<1> QED BY <1>1, <1>2

\* Sending plain frames is quiet.
LEMMA PlainUpward ==
  ASSUME Typed, NEW c \in Side, NEW g \in Seq(AnyFrame), \A i \in DOMAIN g : ~IsCandidate(g[i]),
         up' = Upward(c, g)
  PROVE  UpQuiet
<1>1. CASE sock[c] = "open" /\ relay.live
  <2> DEFINE q == up[c]  r == q \o g
  <2>1. q \in Seq(AnyFrame) BY DEF Typed
  <2>2. up' = [up EXCEPT ![c] = r] BY <1>1 DEF Upward
  <2>3. \A n : ~Carries(g, n) BY DEF Carries
  <2>4. Distinct(g) BY DEF Distinct
  <2> HIDE DEF q
  <2>5. r \in Seq(AnyFrame) /\ (\A n : Carries(r, n) => Carries(q, n)) /\ (Distinct(q) => Distinct(r))
    BY <2>1, <2>3, <2>4, ConcatFrames
  <2> HIDE DEF r
  <2>6. up \in [Side -> Seq(AnyFrame)] BY DEF Typed
  <2>7. up' \in [Side -> Seq(AnyFrame)] /\ up'[c] = r /\ \A d \in Side : d # c => up'[d] = up[d]
    BY <2>2, <2>5, <2>6
  <2> QED BY <2>5, <2>7 DEF UpQuiet, q
<1>2. CASE ~(sock[c] = "open" /\ relay.live)
  <2>1. UNCHANGED up BY <1>2 DEF Upward
  <2> QED BY <2>1, SameIsQuiet
<1> QED BY <1>1, <1>2

\* The frames of a side that leaves.
LEMMA LeavingFrames ==
  ASSUME NEW g \in {<<Plain("bye"), Plain("close")>>, <<Plain("bye")>>, <<Plain("close")>>}
  PROVE  g \in Seq(AnyFrame) /\ \A i \in DOMAIN g : ~IsCandidate(g[i])
<1>1. /\ Plain("bye") \in AnyFrame /\ Plain("close") \in AnyFrame
      /\ ~IsCandidate(Plain("bye")) /\ ~IsCandidate(Plain("close"))
  BY DEF Plain, AnyFrame, PlainFrame, IsCandidate
<1> DEFINE b == Plain("bye")  e == Plain("close")
<1> HIDE DEF b, e
<1>2. b \in AnyFrame /\ e \in AnyFrame /\ ~IsCandidate(b) /\ ~IsCandidate(e) BY <1>1 DEF b, e
<1>3. g \in {<<b, e>>, <<b>>, <<e>>} BY DEF b, e
<1>4. CASE g = <<b, e>> BY <1>2, <1>4
<1>5. CASE g = <<b>> BY <1>2, <1>5
<1>6. CASE g = <<e>> BY <1>2, <1>6
<1> QED BY <1>3, <1>4, <1>5, <1>6

\* A seal that is done or has failed is quiet; so is a description's that begins.
LEMMA RemoveIsQuiet ==
  ASSUME Typed, NEW c \in Side, NEW i \in 1..Len(sealing[c]),
         sealing' = [sealing EXCEPT ![c] = RemoveAt(@, i)]
  PROVE  /\ SealQuiet /\ sealing'[Other(c)] = sealing[Other(c)]
         /\ sealing[c][i].kind = "answer" /\ OneAnswer(sealing[c]) => ~HasAnswer(sealing'[c])
<1> DEFINE q == sealing[c]  r == RemoveAt(q, i)
<1>1. q \in Seq(SignalFrame) BY DEF Typed
<1>2. sealing' = [sealing EXCEPT ![c] = r] OBVIOUS
<1>3. i \in 1..Len(q) OBVIOUS
<1> HIDE DEF q
<1>4. /\ r \in Seq(SignalFrame)
      /\ \A n : Carries(r, n) => Carries(q, n)
      /\ Distinct(q) => Distinct(r)
      /\ \A k \in DOMAIN r : \E m \in DOMAIN q : r[k] = q[m] /\ m # i
      /\ OneAnswer(q) => OneAnswer(r)
  BY <1>1, <1>3, RemoveCarries DEF OneAnswer
<1> HIDE DEF r
<1>5. HasAnswer(r) => HasAnswer(q) BY <1>4 DEF HasAnswer
<1>6. i \in DOMAIN q BY <1>1, <1>3
<1>7. q[i].kind = "answer" /\ OneAnswer(q) => ~HasAnswer(r) BY <1>4, <1>6 DEF HasAnswer, OneAnswer
<1>8. /\ sealing' \in [Side -> Seq(SignalFrame)] /\ sealing'[c] = r
      /\ \A d \in Side : d # c => sealing'[d] = sealing[d]
  BY <1>2, <1>4 DEF Typed
<1>9. SealQuiet BY <1>4, <1>5, <1>8 DEF SealQuiet, SealFresh, q
<1> QED BY <1>7, <1>8, <1>9, OtherSide DEF q

\* Fresh survives a step that is quiet and brings nothing new to a side.
LEMMA FreshKept ==
  ASSUME Inv, UpQuiet, SealFresh, emitted' = emitted, \A d \in Side : Known(d)' \subseteq Known(d)
  PROVE  \A d \in Side : Fresh(d)'
<1> SUFFICES ASSUME NEW d \in Side PROVE Fresh(d)' OBVIOUS
<1>1. Fresh(d) BY DEF Inv
<1>2. Other(d) \in Side /\ Known(Other(d))' \subseteq Known(Other(d)) BY OtherSide
<1>3. Distinct(sealing'[d]) /\ Distinct(up'[d]) BY <1>1 DEF Fresh, UpQuiet, SealQuiet, SealFresh
<1>4. \A n \in Nat : /\ Carries(sealing'[d], n) => Carries(sealing[d], n)
                     /\ Carries(up'[d], n) => Carries(up[d], n)
  BY DEF UpQuiet, SealQuiet, SealFresh
<1>5. Known(Other(d))' \subseteq 1..emitted'[d] BY <1>1, <1>2 DEF Fresh
<1>6. \A n \in Nat : ~(Carries(sealing'[d], n) /\ Carries(up'[d], n)) BY <1>1, <1>4 DEF Fresh
<1>7. \A n \in Nat : Carries(sealing'[d], n) \/ Carries(up'[d], n)
                       => n \in 1..emitted'[d] /\ n \notin Known(Other(d))'
  BY <1>1, <1>2, <1>4 DEF Fresh
<1> QED BY <1>3, <1>5, <1>6, <1>7 DEF Fresh

\* Counted survives a step that keeps the count and all that a side knows.
LEMMA CountedKept ==
  ASSUME NEW d \in Side, Counted(d), Lossless(d)' => Lossless(d) /\ Known(d)' = Known(d),
         relay'.count = relay.count
  PROVE  Counted(d)'
BY DEF Counted

\* What a side knows depends on four of its variables.
LEMMA KnownSame ==
  ASSUME NEW d \in Side, down'[d] = down[d], early'[d] = early[d], jobs'[d] = jobs[d],
         seen'[d] = seen[d]
  PROVE  Known(d)' = Known(d)
BY DEF Known, Opening

\* A side whose own variables do not change keeps its invariants.
LEMMA OtherKept ==
  ASSUME NEW d \in Side, Local(d), Jobs(d), Queue(d), Drained(d), world' = world,
         stage'[d] = stage[d], wired'[d] = wired[d], sock'[d] = sock[d], jobs'[d] = jobs[d],
         seen'[d] = seen[d], queued'[d] = queued[d], added'[d] = added[d], early'[d] = early[d],
         remote'[d] = remote[d], emitted'[d] = emitted[d], sealing'[d] = sealing[d]
  PROVE  Local(d)' /\ Jobs(d)' /\ Queue(d)' /\ Drained(d)'
<1>1. Local(d)' BY DEF Local
<1>2. Jobs(d)' BY DEF Jobs
<1>3. Queue(d)' BY DEF Queue
<1>4. Drained(d)' BY DEF Drained
<1> QED BY <1>1, <1>2, <1>3, <1>4

-----------------------------------------------------------------------------
(* Steps that end a side's wiring *)

\* Finish, Fail, Crash and Dispose, as far as the invariant sees them.
Shut(c) ==
  /\ wired' = [wired EXCEPT ![c] = FALSE] /\ queued' = [queued EXCEPT ![c] = <<>>]
  /\ stage' \in [Side -> Stages] /\ stage'[c] # "ice" /\ stage'[Other(c)] = stage[Other(c)]
  /\ why' \in [Side -> {"none", "failed", "crashed", "cancelled", "complete"}]
  /\ pcOpen' \in [Side -> BOOLEAN]
  /\ early' = early \/ early' = [early EXCEPT ![c] = <<>>]
  /\ UpQuiet

\* Finish ends the wiring.
LEMMA FinishShuts ==
  ASSUME Typed, NEW c \in Side, NEW how \in {"failed", "cancelled", "complete"}, Finish(c, how)
  PROVE  Shut(c)
<1> DEFINE g == <<Plain("bye"), Plain("close")>>
<1>1. g \in Seq(AnyFrame) /\ \A i \in DOMAIN g : ~IsCandidate(g[i])
  <2> DEFINE S == {<<Plain("bye"), Plain("close")>>, <<Plain("bye")>>, <<Plain("close")>>}
  <2>1. g \in S OBVIOUS
  <2> QED BY <2>1, LeavingFrames
<1>2. up' = Upward(c, g) BY DEF Finish
<1>3. UpQuiet
  <2> HIDE DEF g
  <2> QED BY <1>1, <1>2, PlainUpward
<1>4. Other(c) \in Side /\ Other(c) # c BY OtherSide
<1> QED BY <1>3, <1>4 DEF Finish, Shut, Typed, Stages

\* Fail ends the wiring.
LEMMA FailShuts ==
  ASSUME Typed, NEW c \in Side, Fail(c)
  PROVE  Shut(c)
<1>1. CASE stage[c] # "offering" \/ world.settles
  <2> DEFINE how == "failed"
  <2>1. how \in {"failed", "cancelled", "complete"} /\ Finish(c, how) BY <1>1 DEF Fail
  <2> HIDE DEF how
  <2> QED BY <2>1, FinishShuts
<1>2. CASE ~(stage[c] # "offering" \/ world.settles)
  <2> DEFINE g == <<Plain("bye")>>
  <2>1. g \in Seq(AnyFrame) /\ \A i \in DOMAIN g : ~IsCandidate(g[i])
    <3> DEFINE S == {<<Plain("bye"), Plain("close")>>, <<Plain("bye")>>, <<Plain("close")>>}
    <3>1. g \in S OBVIOUS
    <3> QED BY <3>1, LeavingFrames
  <2>2. up' = Upward(c, g) BY <1>2 DEF Fail
  <2>3. UpQuiet
    <3> HIDE DEF g
    <3> QED BY <2>1, <2>2, PlainUpward
  <2>4. Other(c) \in Side /\ Other(c) # c BY OtherSide
  <2> QED BY <1>2, <2>3, <2>4 DEF Fail, Shut, Typed, Stages
<1> QED BY <1>1, <1>2

\* Crash ends the wiring.
LEMMA CrashShuts ==
  ASSUME Typed, NEW c \in Side, Crash(c)
  PROVE  Shut(c)
<1> DEFINE g == <<Plain("close")>>
<1>1. g \in Seq(AnyFrame) /\ \A i \in DOMAIN g : ~IsCandidate(g[i])
  <2> DEFINE S == {<<Plain("bye"), Plain("close")>>, <<Plain("bye")>>, <<Plain("close")>>}
  <2>1. g \in S OBVIOUS
  <2> QED BY <2>1, LeavingFrames
<1>2. up' = Upward(c, g) BY DEF Crash
<1>3. UpQuiet
  <2> HIDE DEF g
  <2> QED BY <1>1, <1>2, PlainUpward
<1>4. Other(c) \in Side /\ Other(c) # c BY OtherSide
<1> QED BY <1>3, <1>4 DEF Crash, Shut, Typed, Stages

\* A side whose wiring ends keeps the invariant, and so does the other.
LEMMA Shutting ==
  ASSUME Inv, NEW c \in Side, Shut(c),
         UNCHANGED <<world, seen, remote, added, emitted, relay, local, linked, replayed>>,
         sock' \in [Side -> {"open", "closing", "closed"}], sock'[Other(c)] = sock[Other(c)],
         chans' \subseteq Label,
         jobs' \in [Side -> SUBSET JobSet], jobs'[c] \subseteq jobs[c],
         jobs'[Other(c)] = jobs[Other(c)],
         down' = down \/ (down[c] # <<>> /\ down' = [down EXCEPT ![c] = Tail(@)]),
         SealQuiet, sealing'[Other(c)] = sealing[Other(c)],
         HasAnswer(sealing'[c]) => \E j \in jobs'[c] : j.at = "sealing"
  PROVE  Inv'
<1> DEFINE d == Other(c)
<1>2. d \in Side /\ d # c /\ \A e \in Side : e = c \/ e = d BY OtherSide
<1>3. down' \in [Side -> Seq(AnyFrame)] /\ down'[d] = down[d]
      /\ \A n : Carries(down'[c], n) => Carries(down[c], n)
  <2>1. CASE down' = down BY <2>1 DEF Inv, Typed
  <2>2. CASE down[c] # <<>> /\ down' = [down EXCEPT ![c] = Tail(@)]
    <3> DEFINE q == down[c]  r == Tail(q)
    <3>1. q \in Seq(AnyFrame) /\ q # <<>> BY <2>2 DEF Inv, Typed
    <3>2. down' = [down EXCEPT ![c] = r] /\ down \in [Side -> Seq(AnyFrame)] BY <2>2 DEF Inv, Typed
    <3> HIDE DEF q
    <3>3. r \in Seq(AnyFrame) /\ \A n : Carries(r, n) => Carries(q, n) BY <3>1, TailFrame
    <3> HIDE DEF r
    <3>4. down'[c] = r BY <3>2
    <3> QED BY <3>2, <3>3, <3>4, <1>2 DEF q
  <2> QED BY <2>1, <2>2
<1>4. /\ wired'[d] = wired[d] /\ queued'[d] = queued[d] /\ early'[d] = early[d]
      /\ stage'[d] = stage[d]
  BY <1>2 DEF Shut, Inv, Typed
<1>5. early' \in [Side -> Seq(SignalFrame)] /\ (early'[c] = early[c] \/ early'[c] = <<>>)
  <2>1. early \in [Side -> Seq(SignalFrame)] /\ <<>> \in Seq(SignalFrame) BY DEF Inv, Typed
  <2> QED BY <2>1 DEF Shut
<1>6. ~wired'[c] /\ queued'[c] = <<>> /\ stage'[c] # "ice" BY DEF Shut, Inv, Typed
<1>7. Typed'
  <2>1. /\ wired' \in [Side -> BOOLEAN] /\ queued' \in [Side -> Seq(Nat)]
        /\ stage' \in [Side -> Stages] /\ pcOpen' \in [Side -> BOOLEAN]
        /\ why' \in [Side -> {"none", "failed", "crashed", "cancelled", "complete"}]
    BY DEF Shut, Inv, Typed
  <2> QED BY <2>1, <1>3, <1>5 DEF Inv, Typed, Shut, UpQuiet, SealQuiet, SealFresh
<1> HIDE DEF d
<1>8. Local(d)' /\ Jobs(d)' /\ Queue(d)' /\ Drained(d)'
  <2>1. sock'[d] = sock[d] /\ jobs'[d] = jobs[d] /\ sealing'[d] = sealing[d] BY DEF d
  <2> QED BY <2>1, <1>2, <1>4, OtherKept DEF Inv
<1>9. Local(c)' BY <1>5, <1>6, WiringAssumption DEF Inv, Local
<1>10. Jobs(c)'
  <2>1. Jobs(c) BY DEF Inv
  <2>2. OneAnswer(sealing'[c]) BY <2>1 DEF SealQuiet, SealFresh, OneAnswer, Jobs
  <2> QED BY <2>1, <2>2 DEF Jobs, OneAnswer, HasAnswer
<1>11. Queue(c)'
  <2>1. Queue(c) BY DEF Inv
  <2>2. Range(queued'[c]) = {} BY <1>6 DEF Range
  <2> QED BY <2>1, <2>2, <1>6 DEF Queue
<1>12. Drained(c)' BY <1>6 DEF Inv, Drained
<1>13. Known(d)' = Known(d)
  <2>1. jobs'[d] = jobs[d] BY DEF d
  <2> QED BY <2>1, <1>2, <1>3, <1>4, KnownSame
<1>14. Known(c)' \subseteq Known(c)
  <2>1. \A n : Carries(early'[c], n) => Carries(early[c], n) BY <1>5 DEF Carries
  <2>2. \A n : Opening(c, n)' => Opening(c, n) BY DEF Opening
  <2> QED BY <2>1, <2>2, <1>3 DEF Known
<1>15. \A e \in Side : Fresh(e)' BY <1>2, <1>13, <1>14, FreshKept DEF Shut, SealQuiet
<1>16. ~Lossless(c)' BY <1>6 DEF Lossless
<1>17. Lossless(d)' => Lossless(d)
  <2>1. sock'[d] = sock[d] BY DEF d
  <2> QED BY <2>1, <1>4 DEF Lossless
<1>18. \A e \in Side : Counted(e)' BY <1>2, <1>13, <1>16, <1>17, CountedKept DEF Inv
<1> QED BY <1>2, <1>7, <1>8, <1>9, <1>10, <1>11, <1>12, <1>15, <1>18 DEF Inv

-----------------------------------------------------------------------------
(* Steps that leave the wiring as it is *)

\* A step may drop a job of d when nobody waits for it.
JobsQuiet(d) ==
  /\ jobs'[d] \subseteq jobs[d]
  /\ \A j \in jobs[d] \ jobs'[d] :
       /\ j.at = "sealing" => ~HasAnswer(sealing'[d])
       /\ wired[d] => j.at = "applying" \/ (j.at = "draining" /\ queued[d] = <<>>)

\* What reaches d on the way down is the same, unless it was lost already.
DownQuiet(d) ==
  /\ \A n \in Nat : Carries(down'[d], n) => Carries(down[d], n)
  /\ Lossless(d)' => \A n \in Nat : Carries(down[d], n) => Carries(down'[d], n)

\* No side reaches or leaves the first stage, and no wired one leaves the set-up; no
\* socket reopens, and none that a wiring listens to closes.
StageQuiet ==
  \A d \in Side : /\ stage'[d] = "ice" <=> stage[d] = "ice"
                  /\ stage[d] \in {"offering", "linking"} /\ wired[d]
                       => stage'[d] \in {"offering", "linking"}
SockQuiet ==
  \A d \in Side : /\ sock'[d] = "closed" => sock[d] = "closed" \/ ~wired[d]
                  /\ sock'[d] = "open" => sock[d] = "open"

\* Such a step keeps the invariant.
LEMMA Calm ==
  ASSUME Inv, UNCHANGED <<world, wired, queued, early, seen, added, emitted>>, Typed',
         UpQuiet, SealQuiet, relay'.count = relay.count,
         \A d \in Side : JobsQuiet(d) /\ DownQuiet(d),
         StageQuiet, SockQuiet,
         \A d \in Side : (remote[d] => remote'[d]) /\ (wired[d] => remote'[d] = remote[d])
  PROVE  Inv'
<1>1. ASSUME NEW d \in Side PROVE Local(d)'
  <2>1. Local(d) BY DEF Inv
  <2>2. jobs[d] = {} => jobs'[d] = {} BY DEF JobsQuiet
  <2> QED BY <2>1, <2>2 DEF Local, StageQuiet, SockQuiet
<1>2. ASSUME NEW d \in Side PROVE Jobs(d)'
  <2>1. Jobs(d) /\ jobs'[d] \subseteq jobs[d] BY DEF Inv, JobsQuiet
  <2>2. OneAnswer(sealing'[d]) BY <2>1 DEF SealQuiet, SealFresh, OneAnswer, Jobs
  <2>3. ASSUME HasAnswer(sealing'[d]) PROVE \E j \in jobs'[d] : j.at = "sealing"
    <3>1. HasAnswer(sealing[d]) BY <2>3 DEF SealQuiet, SealFresh
    <3>2. PICK j \in jobs[d] : j.at = "sealing" BY <3>1, <2>1 DEF Jobs, HasAnswer
    <3> QED BY <3>2, <2>3 DEF JobsQuiet
  <2>4. remote[d] => remote'[d] OBVIOUS
  <2>5. UNCHANGED seen OBVIOUS
  <2> QED BY <2>1, <2>2, <2>3, <2>4, <2>5 DEF Jobs, OneAnswer, HasAnswer
<1>3. ASSUME NEW d \in Side PROVE Queue(d)' BY DEF Inv, Queue
<1>4. ASSUME NEW d \in Side PROVE Drained(d)'
  <2>1. Drained(d) /\ UNCHANGED <<added, wired, queued>> BY DEF Inv
  <2>2. added'[d] # <<>> => remote'[d] BY <2>1 DEF Drained
  <2>3. ASSUME wired'[d], remote'[d], queued'[d] # <<>>
        PROVE  \E j \in jobs'[d] : j.at \in {"answering", "sealing", "draining"}
    <3>1. wired[d] /\ remote[d] /\ queued[d] # <<>> BY <2>3
    <3>2. PICK j \in jobs[d] : j.at \in {"answering", "sealing", "draining"} BY <3>1, <2>1 DEF Drained
    <3>3. j \in jobs'[d] BY <3>1, <3>2 DEF JobsQuiet
    <3> QED BY <3>2, <3>3
  <2> QED BY <2>2, <2>3 DEF Drained
<1>5. ASSUME NEW d \in Side PROVE Known(d)' \subseteq Known(d)
  <2>1. \A n : Opening(d, n)' => Opening(d, n) BY DEF Opening, JobsQuiet
  <2>2. UNCHANGED <<early, seen>> OBVIOUS
  <2>3. \A n \in Nat : Carries(down'[d], n) => Carries(down[d], n) BY DEF DownQuiet
  <2> QED BY <2>1, <2>2, <2>3 DEF Known
<1>6. ASSUME NEW d \in Side, Lossless(d)' PROVE Lossless(d)
  BY <1>6 DEF Lossless, StageQuiet, SockQuiet
<1>7. ASSUME NEW d \in Side, Lossless(d)' PROVE Known(d) \subseteq Known(d)'
  <2>1. Local(d) BY DEF Inv
  <2>2. ASSUME NEW j \in jobs[d], j.at = "opening" PROVE j \in jobs'[d]
    <3>1. wired[d] BY <1>6, <1>7, <2>1, <2>2 DEF Local, Lossless
    <3> QED BY <3>1, <2>2 DEF JobsQuiet
  <2>3. \A n : Opening(d, n) => Opening(d, n)' BY <2>2 DEF Opening
  <2>4. UNCHANGED <<early, seen>> OBVIOUS
  <2>5. \A n \in Nat : Carries(down[d], n) => Carries(down'[d], n) BY <1>7 DEF DownQuiet
  <2> QED BY <2>3, <2>4, <2>5 DEF Known
<1>8. \A d \in Side : Fresh(d)' BY <1>5, FreshKept DEF SealQuiet
<1>9. ASSUME NEW d \in Side PROVE Counted(d)'
  <2>1. Lossless(d)' => Lossless(d) /\ Known(d)' = Known(d) BY <1>5, <1>6, <1>7
  <2> QED BY <2>1, CountedKept DEF Inv
<1> QED BY <1>1, <1>2, <1>3, <1>4, <1>8, <1>9 DEF Inv

-----------------------------------------------------------------------------
(* The actions: ends *)

rest == <<world, jobs, seen, remote, local, added, emitted, sealing, sock, linked, down, relay,
          replayed>>

\* The wiring ends and nothing else changes (but the receiver's channels).
LEMMA ShutsOnly ==
  ASSUME Inv, NEW c \in Side, Shut(c), UNCHANGED rest, chans' \subseteq Label
  PROVE  Inv'
<1>1. /\ UNCHANGED <<world, seen, remote, added, emitted, relay, local, linked, replayed>>
      /\ UNCHANGED <<sock, jobs, down, sealing>>
  BY DEF rest
<1>2. /\ sock' \in [Side -> {"open", "closing", "closed"}] /\ sock'[Other(c)] = sock[Other(c)]
      /\ jobs' \in [Side -> SUBSET JobSet] /\ jobs'[c] \subseteq jobs[c]
      /\ jobs'[Other(c)] = jobs[Other(c)] /\ sealing'[Other(c)] = sealing[Other(c)]
  BY <1>1 DEF Inv, Typed
<1>3. SealQuiet BY <1>1, SameIsQuiet DEF Inv
<1>4. HasAnswer(sealing'[c]) => \E j \in jobs'[c] : j.at = "sealing" BY <1>1 DEF Inv, Jobs, HasAnswer
<1> QED BY <1>1, <1>2, <1>3, <1>4, Shutting

\* Complete, ConnectionLost, Interrupt, AlienChannel: Finish and nothing else.
LEMMA FinishOnly ==
  ASSUME Inv, NEW c \in Side, NEW how \in {"failed", "cancelled", "complete"}, Finish(c, how),
         UNCHANGED rest, UNCHANGED chans
  PROVE  Inv'
<1>1. Shut(c) BY FinishShuts DEF Inv
<1>2. chans' \subseteq Label BY DEF Inv, Typed
<1> QED BY <1>1, <1>2, ShutsOnly

\* The actions that do just that.
LEMMA EndingStep ==
  ASSUME Inv, NEW c \in Side,
         AlienChannel \/ ConnectionLost(c) \/ Complete(c) \/ Interrupt(c)
  PROVE  Inv'
<1> DEFINE f == "failed"  k == "cancelled"  o == "complete"  r == "receiver"
<1>1. /\ f \in {"failed", "cancelled", "complete"} /\ k \in {"failed", "cancelled", "complete"}
      /\ o \in {"failed", "cancelled", "complete"} /\ r \in Side
  BY DEF Side
<1>2. CASE AlienChannel
  <2>1. Finish(r, f) /\ UNCHANGED rest /\ UNCHANGED chans BY <1>2 DEF AlienChannel, rest, transport
  <2> HIDE DEF f, r
  <2> QED BY <1>1, <2>1, FinishOnly
<1>3. CASE ConnectionLost(c)
  <2>1. Finish(c, f) /\ UNCHANGED rest /\ UNCHANGED chans BY <1>3 DEF ConnectionLost, rest, transport
  <2> HIDE DEF f
  <2> QED BY <1>1, <2>1, FinishOnly
<1>4. CASE Complete(c)
  <2>1. Finish(c, o) /\ UNCHANGED rest /\ UNCHANGED chans BY <1>4 DEF Complete, rest, transport
  <2> HIDE DEF o
  <2> QED BY <1>1, <2>1, FinishOnly
<1>5. CASE Interrupt(c)
  <2>1. Finish(c, k) /\ UNCHANGED rest /\ UNCHANGED chans BY <1>5 DEF Interrupt, rest, transport
  <2> HIDE DEF k
  <2> QED BY <1>1, <2>1, FinishOnly
<1> QED BY <1>2, <1>3, <1>4, <1>5

\* waitOpen and waitConnected: the sender disposes of its wiring.
LEMMA SenderConnectedStep ==
  ASSUME Inv, SenderConnected
  PROVE  Inv'
<1> DEFINE c == "sender"
<1>1. c \in Side /\ Other(c) \in Side /\ Other(c) # c BY DEF Side, Other
<1>2. /\ stage' = [stage EXCEPT ![c] = "moving"] /\ wired' = [wired EXCEPT ![c] = FALSE]
      /\ queued' = [queued EXCEPT ![c] = <<>>]
      /\ UNCHANGED rest /\ UNCHANGED <<up, chans, why, pcOpen, early>>
  BY DEF SenderConnected, Dispose, rest, transport, net
<1> HIDE DEF c
<1>3. UpQuiet BY <1>2, SameIsQuiet DEF Inv
<1>4. Shut(c) BY <1>1, <1>2, <1>3 DEF Shut, Inv, Typed, Stages
<1>5. chans' \subseteq Label BY <1>2 DEF Inv, Typed
<1> QED BY <1>1, <1>2, <1>4, <1>5, ShutsOnly

-----------------------------------------------------------------------------
(* The actions: calm steps *)

\* What does not change is quiet.
LEMMA SameJobsQuiet ==
  ASSUME NEW d, jobs'[d] = jobs[d]
  PROVE  JobsQuiet(d)
BY DEF JobsQuiet
\* A queue that does not change is quiet.
LEMMA SameDownQuiet ==
  ASSUME NEW d, down'[d] = down[d]
  PROVE  DownQuiet(d)
BY DEF DownQuiet
\* Stages and sockets that do not change are quiet.
LEMMA SameEndsQuiet ==
  /\ UNCHANGED stage => StageQuiet
  /\ UNCHANGED sock => SockQuiet
BY DEF StageQuiet, SockQuiet

\* A step that leaves all of the wiring's variables alone.
LEMMA CalmOnly ==
  ASSUME Inv, Typed', UNCHANGED <<world, wired, queued, early, seen, added, emitted, jobs, remote>>,
         UpQuiet, SealQuiet, relay'.count = relay.count, \A d \in Side : DownQuiet(d),
         StageQuiet, SockQuiet
  PROVE  Inv'
<1>1. \A d \in Side : JobsQuiet(d) /\ DownQuiet(d) BY SameJobsQuiet
<1>2. UNCHANGED <<world, wired, queued, early, seen, added, emitted>> OBVIOUS
<1>3. \A d \in Side : (remote[d] => remote'[d]) /\ (wired[d] => remote'[d] = remote[d]) OBVIOUS
<1> QED BY <1>1, <1>2, <1>3, Calm

\* The transport comes up.
LEMMA LinkStep ==
  ASSUME Inv, Link
  PROVE  Inv'
<1>1. /\ UNCHANGED <<world, wired, queued, early, seen, added, emitted, jobs, remote>>
      /\ UNCHANGED <<stage, sock, up, down, relay, sealing, why, local, pcOpen, chans, replayed>>
      /\ linked' = TRUE
  BY DEF Link, ends, wiring, net
<1>2. Typed' BY <1>1 DEF Inv, Typed
<1>3. UpQuiet /\ SealQuiet BY <1>1, SameIsQuiet DEF Inv
<1>4. \A d \in Side : DownQuiet(d) BY <1>1, SameDownQuiet
<1>5. StageQuiet /\ SockQuiet BY <1>1, SameEndsQuiet
<1> QED BY <1>1, <1>2, <1>3, <1>4, <1>5, CalmOnly

\* waitForIncomingChannels: one channel, or the last and the wiring is disposed of.
LEMMA ChannelArrivesStep ==
  ASSUME Inv, NEW l \in Label, ChannelArrives(l)
  PROVE  Inv'
<1>0. chans' \subseteq Label BY DEF ChannelArrives, Inv, Typed
<1>1. CASE chans' = Label
  <2> DEFINE c == "receiver"
  <2>1. c \in Side /\ Other(c) \in Side /\ Other(c) # c BY DEF Side, Other
  <2>2. /\ stage' = [stage EXCEPT ![c] = "moving"] /\ wired' = [wired EXCEPT ![c] = FALSE]
        /\ queued' = [queued EXCEPT ![c] = <<>>]
        /\ UNCHANGED rest /\ UNCHANGED <<up, why, pcOpen, early>>
    BY <1>1 DEF ChannelArrives, Dispose, rest, net
  <2> HIDE DEF c
  <2>3. UpQuiet BY <2>2, SameIsQuiet DEF Inv
  <2>4. Shut(c) BY <2>1, <2>2, <2>3 DEF Shut, Inv, Typed, Stages
  <2> QED BY <1>0, <2>1, <2>2, <2>4, ShutsOnly
<1>2. CASE chans' # Label
  <2>1. /\ UNCHANGED <<world, wired, queued, early, seen, added, emitted, jobs, remote>>
        /\ UNCHANGED <<stage, sock, up, down, relay, sealing, why, local, pcOpen, linked, replayed>>
    BY <1>2 DEF ChannelArrives, net
  <2>2. Typed' BY <2>1, <1>0 DEF Inv, Typed
  <2>3. UpQuiet /\ SealQuiet BY <2>1, SameIsQuiet DEF Inv
  <2>4. \A d \in Side : DownQuiet(d) BY <2>1, SameDownQuiet
  <2>5. StageQuiet /\ SockQuiet BY <2>1, SameEndsQuiet
  <2> QED BY <2>1, <2>2, <2>3, <2>4, <2>5, CalmOnly
<1> QED BY <1>1, <1>2

\* A frame that brings nothing new to c.
LEMMA AppendDownQuiet ==
  ASSUME Typed, NEW c \in Side, NEW f \in AnyFrame, IsCandidate(f) => Carries(down[c], f.n),
         down' = [down EXCEPT ![c] = Append(@, f)]
  PROVE  down' \in [Side -> Seq(AnyFrame)] /\ \A d \in Side : DownQuiet(d)
<1> DEFINE q == down[c]  r == Append(q, f)
<1>1. q \in Seq(AnyFrame) /\ (IsCandidate(f) => Carries(q, f.n)) BY DEF Typed
<1>2. down' = [down EXCEPT ![c] = r] /\ down \in [Side -> Seq(AnyFrame)] BY DEF Typed
<1> HIDE DEF q
<1>3. r \in Seq(AnyFrame) /\ \A n : Carries(r, n) <=> (Carries(q, n) \/ (IsCandidate(f) /\ f.n = n))
  BY <1>1, AppendFrame
<1> HIDE DEF r
<1>4. /\ down' \in [Side -> Seq(AnyFrame)] /\ down'[c] = r /\ down[c] = q
      /\ \A d \in Side : d # c => down'[d] = down[d]
  BY <1>2, <1>3 DEF q
<1>5. \A n : Carries(r, n) <=> Carries(q, n) BY <1>1, <1>3
<1>6. DownQuiet(c) BY <1>4, <1>5 DEF DownQuiet
<1>7. \A d \in Side : d # c => DownQuiet(d) BY <1>4, SameDownQuiet
<1> QED BY <1>4, <1>6, <1>7

\* A frame is taken that brings nothing, or that nobody waits for.
LEMMA ConsumeQuiet ==
  ASSUME Typed, NEW c \in Side, down[c] # <<>>, ~IsCandidate(Head(down[c])) \/ ~Lossless(c)',
         Consume(c)
  PROVE  down' \in [Side -> Seq(AnyFrame)] /\ \A d \in Side : DownQuiet(d)
<1> DEFINE q == down[c]  r == Tail(q)
<1>1. q \in Seq(AnyFrame) /\ q # <<>> BY DEF Typed
<1>2. down' = [down EXCEPT ![c] = r] /\ down \in [Side -> Seq(AnyFrame)] BY DEF Typed, Consume
<1> HIDE DEF q
<1>3. /\ r \in Seq(AnyFrame)
      /\ \A n : Carries(q, n) <=> (Carries(r, n) \/ (IsCandidate(Head(q)) /\ Head(q).n = n))
  BY <1>1, TailFrame
<1> HIDE DEF r
<1>4. /\ down' \in [Side -> Seq(AnyFrame)] /\ down'[c] = r /\ down[c] = q
      /\ \A d \in Side : d # c => down'[d] = down[d]
  BY <1>2, <1>3 DEF q
<1>5. DownQuiet(c) BY <1>3, <1>4 DEF DownQuiet, q
<1>6. \A d \in Side : d # c => DownQuiet(d) BY <1>4, SameDownQuiet
<1> QED BY <1>4, <1>5, <1>6

\* The offer begins to be sealed.
LEMMA OfferReadyStep ==
  ASSUME Inv, OfferReady
  PROVE  Inv'
<1> DEFINE c == "sender"
<1>1. c \in Side BY DEF Side
<1>2. /\ UNCHANGED <<world, wired, queued, early, seen, added, emitted, jobs, remote>>
      /\ UNCHANGED <<sock, up, down, relay, why, pcOpen, linked, chans, replayed>>
      /\ stage[c] = "offering" /\ stage' = [stage EXCEPT ![c] = "linking"]
      /\ local' = [local EXCEPT ![c] = TRUE]
      /\ sealing' = [sealing EXCEPT ![c] = Append(@, Offer)]
  BY DEF OfferReady, wiring, transport, net
<1> HIDE DEF c
<1> DEFINE q == sealing[c]  f == Offer  r == Append(q, f)
<1>3. q \in Seq(SignalFrame) /\ sealing \in [Side -> Seq(SignalFrame)] BY <1>1 DEF Inv, Typed
<1>4. f \in SignalFrame /\ ~IsCandidate(f) /\ f.kind # "answer"
  BY DEF SignalFrame, Offer, Signal, Kinds, IsCandidate
<1>5. sealing' = [sealing EXCEPT ![c] = r] BY <1>2
<1> HIDE DEF q, f
<1>6. /\ r \in Seq(SignalFrame) /\ (\A n : Carries(r, n) => Carries(q, n))
      /\ (Distinct(q) => Distinct(r))
  BY <1>3, <1>4, AppendSignal
<1>7. \A i \in DOMAIN r : r[i].kind = "answer" => i \in DOMAIN q /\ r[i] = q[i] BY <1>3, <1>4
<1> HIDE DEF r
<1>8. (OneAnswer(q) => OneAnswer(r)) /\ (HasAnswer(r) => HasAnswer(q))
  BY <1>7 DEF OneAnswer, HasAnswer
<1>9. /\ sealing' \in [Side -> Seq(SignalFrame)] /\ sealing'[c] = r
      /\ \A d \in Side : d # c => sealing'[d] = sealing[d]
  BY <1>1, <1>3, <1>5, <1>6
<1>10. SealQuiet BY <1>6, <1>8, <1>9 DEF SealQuiet, SealFresh, q
<1>11. stage' \in [Side -> Stages] /\ local' \in [Side -> BOOLEAN] /\ StageQuiet
  BY <1>1, <1>2 DEF Inv, Typed, Stages, StageQuiet
<1>12. Typed' BY <1>2, <1>9, <1>11 DEF Inv, Typed
<1>13. UpQuiet /\ SockQuiet BY <1>2, SameIsQuiet, SameEndsQuiet DEF Inv
<1>14. \A d \in Side : DownQuiet(d) BY <1>2, SameDownQuiet
<1> QED BY <1>2, <1>10, <1>11, <1>12, <1>13, <1>14, CalmOnly

\* A seal fails: the peer or the socket is closed.
LEMMA SealFailsStep ==
  ASSUME Inv, NEW c \in Side, SealFails(c)
  PROVE  Inv'
<1>1. /\ UNCHANGED <<world, wired, queued, early, seen, added, emitted, jobs, remote>>
      /\ UNCHANGED <<stage, down, relay, why, local, linked, chans, replayed>>
  BY DEF SealFails, ends, wiring, transport
<1>2. PICK i \in 1..Len(sealing[c]) : sealing' = [sealing EXCEPT ![c] = RemoveAt(@, i)]
  BY DEF SealFails
<1>3. SealQuiet BY <1>2, RemoveIsQuiet DEF Inv
<1>4. /\ pcOpen' \in [Side -> BOOLEAN] /\ sock' \in [Side -> {"open", "closing", "closed"}]
      /\ SockQuiet
  BY DEF SealFails, Inv, Typed, SockQuiet
<1>5. UpQuiet
  <2>1. CASE Kind(c) = "cli"
    <3>1. UNCHANGED up BY <2>1 DEF SealFails
    <3> QED BY <3>1, SameIsQuiet DEF Inv
  <2>2. CASE Kind(c) # "cli"
    <3> DEFINE g == <<Plain("close")>>
    <3>1. up' = Upward(c, g) BY <2>2 DEF SealFails
    <3>2. g \in Seq(AnyFrame) /\ \A k \in DOMAIN g : ~IsCandidate(g[k])
      <4> DEFINE S == {<<Plain("bye"), Plain("close")>>, <<Plain("bye")>>, <<Plain("close")>>}
      <4>1. g \in S OBVIOUS
      <4> QED BY <4>1, LeavingFrames
    <3> HIDE DEF g
    <3> QED BY <3>1, <3>2, PlainUpward DEF Inv
  <2> QED BY <2>1, <2>2
<1>6. Typed' BY <1>1, <1>3, <1>4, <1>5 DEF Inv, Typed, UpQuiet, SealQuiet, SealFresh
<1>7. \A d \in Side : DownQuiet(d) BY <1>1, SameDownQuiet
<1>8. StageQuiet BY <1>1, SameEndsQuiet
<1> QED BY <1>1, <1>3, <1>4, <1>5, <1>6, <1>7, <1>8, CalmOnly

\* endSession: the sockets are closed and what was on its way up is not relayed.
LEMMA EndSessionStep ==
  ASSUME Inv, EndSession
  PROVE  Inv'
<1>1. /\ UNCHANGED <<world, wired, queued, early, seen, added, emitted, jobs, remote>>
      /\ UNCHANGED <<stage, sock, sealing, why, local, pcOpen, linked, chans, replayed>>
      /\ relay' = [relay EXCEPT !.live = FALSE]
      /\ up' = [c \in Side |-> <<>>]
      /\ down' = [c \in Side |-> Append(down[c], Plain("close"))]
  BY DEF EndSession, ends, wiring, transport
<1>2. UpQuiet
  <2>1. up' \in [Side -> Seq(AnyFrame)] /\ \A d \in Side : up'[d] = <<>> BY <1>1
  <2>2. Distinct(<<>>) /\ \A n : ~Carries(<<>>, n) BY DEF Distinct, Carries
  <2> QED BY <2>1, <2>2 DEF UpQuiet
<1>3. ASSUME NEW d \in Side PROVE down'[d] \in Seq(AnyFrame) /\ DownQuiet(d)
  <2> DEFINE q == down[d]  f == Plain("close")  r == Append(q, f)
  <2>1. q \in Seq(AnyFrame) /\ down'[d] = r BY <1>1 DEF Inv, Typed
  <2>2. f \in AnyFrame /\ ~IsCandidate(f) BY DEF Plain, AnyFrame, PlainFrame, IsCandidate
  <2> HIDE DEF q, f
  <2>3. r \in Seq(AnyFrame) /\ \A n : Carries(r, n) <=> Carries(q, n) BY <2>1, <2>2, AppendFrame
  <2> QED BY <2>1, <2>3 DEF DownQuiet, q
<1>4. down' \in [Side -> Seq(AnyFrame)] BY <1>1, <1>3
<1>5. relay' \in [live : BOOLEAN, offer : BOOLEAN, answer : BOOLEAN, count : [Side -> Nat]]
      /\ relay'.count = relay.count
  BY <1>1 DEF Inv, Typed
<1>6. SealQuiet /\ StageQuiet /\ SockQuiet BY <1>1, SameIsQuiet, SameEndsQuiet DEF Inv
<1>7. Typed' BY <1>1, <1>2, <1>4, <1>5 DEF Inv, Typed, UpQuiet
<1> QED BY <1>1, <1>2, <1>3, <1>5, <1>6, <1>7, CalmOnly

\* A frame is relayed a second time.
LEMMA ReplayStep ==
  ASSUME Inv, NEW c \in Side, Replay(c)
  PROVE  Inv'
<1>1. /\ UNCHANGED <<world, wired, queued, early, seen, added, emitted, jobs, remote>>
      /\ UNCHANGED <<stage, sock, sealing, up, relay, why, local, pcOpen, linked, chans>>
      /\ replayed' = TRUE
  BY DEF Replay, ends, wiring, transport
<1> DEFINE q == down[c]  h == Head(q)  f == [h EXCEPT !.copy = 1]
<1>2. q \in Seq(AnyFrame) /\ q # <<>> /\ h.type = "signal" BY DEF Replay, Received, Inv, Typed
<1>3. down' = [down EXCEPT ![c] = Append(@, f)] BY DEF Replay
<1>4. h \in AnyFrame /\ (IsCandidate(h) => Carries(q, h.n))
  <2> HIDE DEF q
  <2> QED BY <1>2, TailFrame
<1>5. h \in SignalFrame BY <1>2, <1>4 DEF AnyFrame, PlainFrame
<1>6. f \in AnyFrame /\ f.type = h.type /\ f.kind = h.kind /\ f.n = h.n
  <2> HIDE DEF h
  <2> QED BY <1>5 DEF SignalFrame, AnyFrame
<1>7. IsCandidate(f) => Carries(down[c], f.n) BY <1>4, <1>6 DEF IsCandidate
<1> HIDE DEF f
<1>8. down' \in [Side -> Seq(AnyFrame)] /\ \A d \in Side : DownQuiet(d)
  BY <1>3, <1>6, <1>7, AppendDownQuiet DEF Inv
<1>9. Typed' BY <1>1, <1>8 DEF Inv, Typed
<1>10. UpQuiet /\ SealQuiet /\ StageQuiet /\ SockQuiet BY <1>1, SameIsQuiet, SameEndsQuiet DEF Inv
<1> QED BY <1>1, <1>8, <1>9, <1>10, CalmOnly

-----------------------------------------------------------------------------
(* The actions: the server *)

\* A frame leaves up[c].
LEMMA TakeUpQuiet ==
  ASSUME Typed, NEW c \in Side, up[c] # <<>>, up' = [up EXCEPT ![c] = Tail(@)]
  PROVE  /\ UpQuiet /\ Head(up[c]) \in AnyFrame /\ up'[Other(c)] = up[Other(c)]
         /\ Distinct(up[c]) /\ IsCandidate(Head(up[c])) => ~Carries(up'[c], Head(up[c]).n)
         /\ IsCandidate(Head(up[c])) => Carries(up[c], Head(up[c]).n)
<1> DEFINE q == up[c]  r == Tail(q)  h == Head(q)
<1>1. q \in Seq(AnyFrame) /\ q # <<>> BY DEF Typed
<1>2. up' = [up EXCEPT ![c] = r] /\ up \in [Side -> Seq(AnyFrame)] BY DEF Typed
<1>3. /\ h \in AnyFrame /\ r \in Seq(AnyFrame)
      /\ \A n : Carries(q, n) <=> (Carries(r, n) \/ (IsCandidate(h) /\ h.n = n))
      /\ Distinct(q) => Distinct(r) /\ (IsCandidate(h) => ~Carries(r, h.n))
  <2> HIDE DEF q
  <2> QED BY <1>1, TailFrame
<1> HIDE DEF r, h
<1>4. /\ up' \in [Side -> Seq(AnyFrame)] /\ up'[c] = r
      /\ \A d \in Side : d # c => up'[d] = up[d]
  BY <1>2, <1>3
<1>5. UpQuiet BY <1>3, <1>4 DEF UpQuiet
<1> QED BY <1>3, <1>4, <1>5, OtherSide DEF h

\* The server relays a candidate: it leaves up[c], and the other side knows it.
LEMMA RelayCandidate ==
  ASSUME Inv, NEW c \in Side, RelaySignal(c), RelayAllowed(c, Head(up[c])),
         IsCandidate(Head(up[c]))
  PROVE  Inv'
<1> DEFINE e == Other(c)  h == Head(up[c])  m == h.n
<1>1. /\ UNCHANGED <<world, wired, queued, early, seen, added, emitted, jobs, remote>>
      /\ UNCHANGED <<stage, sock, sealing, why, local, pcOpen, linked, chans, replayed>>
      /\ up[c] # <<>> /\ up' = [up EXCEPT ![c] = Tail(@)]
      /\ down' = [down EXCEPT ![e] = Append(@, h)]
      /\ relay' = ApplyRelayPhase(c, h)
  BY DEF RelaySignal, ends, wiring, transport
<1>2. e \in Side /\ e # c /\ Other(e) = c /\ \A d \in Side : d = c \/ d = e BY OtherSide
<1>3. /\ UpQuiet /\ h \in AnyFrame /\ up'[e] = up[e]
      /\ (Distinct(up[c]) => ~Carries(up'[c], m)) /\ Carries(up[c], m)
  BY <1>1, TakeUpQuiet DEF Inv
<1>4. h \in SignalFrame /\ m \in Nat /\ IsCandidate(h) /\ h.kind = "candidate"
  BY <1>3 DEF AnyFrame, PlainFrame, IsCandidate, SignalFrame
<1>5. /\ relay' \in [live : BOOLEAN, offer : BOOLEAN, answer : BOOLEAN, count : [Side -> Nat]]
      /\ relay'.count = [relay.count EXCEPT ![c] = @ + 1]
  <2> HIDE DEF h
  <2>1. relay' = [relay EXCEPT !.offer = @ \/ h.kind = "offer", !.answer = @ \/ h.kind = "answer",
                               !.count[c] = IF h.kind = "candidate" THEN @ + 1 ELSE @]
    BY <1>1 DEF ApplyRelayPhase
  <2>2. relay \in [live : BOOLEAN, offer : BOOLEAN, answer : BOOLEAN, count : [Side -> Nat]]
    BY DEF Inv, Typed
  <2> DEFINE o == relay.offer \/ h.kind = "offer"  a == relay.answer \/ h.kind = "answer"
             k == [relay.count EXCEPT ![c] = @ + 1]
  <2>3. o \in BOOLEAN /\ a \in BOOLEAN /\ k \in [Side -> Nat] BY <2>2
  <2>4. relay' = [relay EXCEPT !.offer = o, !.answer = a, !.count = k] BY <2>1, <2>2, <1>4
  <2>5. k = [relay.count EXCEPT ![c] = @ + 1] OBVIOUS
  <2> HIDE DEF o, a, k
  <2>6. /\ relay' \in [live : BOOLEAN, offer : BOOLEAN, answer : BOOLEAN, count : [Side -> Nat]]
        /\ relay'.count = k
    BY <2>2, <2>3, <2>4
  <2> QED BY <2>5, <2>6
<1> HIDE DEF e, h, m
<1>6. m = h.n BY DEF m
<1>7. /\ down' \in [Side -> Seq(AnyFrame)] /\ down'[c] = down[c]
      /\ \A n : Carries(down'[e], n) <=> (Carries(down[e], n) \/ n = m)
  <2> DEFINE q == down[e]  r == Append(q, h)
  <2>1. q \in Seq(AnyFrame) /\ down \in [Side -> Seq(AnyFrame)] BY <1>2 DEF Inv, Typed
  <2>2. down' = [down EXCEPT ![e] = r] BY <1>1
  <2> HIDE DEF q
  <2>3. r \in Seq(AnyFrame) /\ \A n : Carries(r, n) <=> (Carries(q, n) \/ (IsCandidate(h) /\ h.n = n))
    BY <2>1, <1>3, AppendFrame
  <2> HIDE DEF r
  <2>4. down' \in [Side -> Seq(AnyFrame)] /\ down'[c] = down[c] /\ down'[e] = r
    BY <2>1, <2>2, <2>3, <1>2
  <2> QED BY <2>3, <2>4, <1>4, <1>6 DEF q
<1>8. Typed' BY <1>1, <1>3, <1>5, <1>7 DEF Inv, Typed, UpQuiet
<1>9. ASSUME NEW d \in Side PROVE Local(d)' /\ Jobs(d)' /\ Queue(d)' /\ Drained(d)'
  BY <1>1, OtherKept DEF Inv
<1>10. Known(c)' = Known(c) BY <1>1, <1>7, KnownSame
<1>11. Known(e)' = Known(e) \cup {m}
  <2>1. \A n : Opening(e, n)' <=> Opening(e, n) BY <1>1 DEF Opening
  <2> QED BY <2>1, <1>1, <1>4, <1>7 DEF Known
<1>12. Fresh(c) /\ Fresh(e) BY <1>2 DEF Inv
<1>13. m \in 1..emitted[c] /\ m \notin Known(e) BY <1>3, <1>4, <1>12 DEF Fresh, e
<1>14. Fresh(c)'
  <2>1. Distinct(sealing'[c]) /\ Distinct(up'[c]) BY <1>1, <1>3, <1>12 DEF Fresh, UpQuiet
  <2>2. \A n \in Nat : Carries(up'[c], n) => Carries(up[c], n) /\ n # m
    BY <1>3, <1>12 DEF Fresh, UpQuiet
  <2>3. \A n \in Nat : ~(Carries(sealing'[c], n) /\ Carries(up'[c], n))
    BY <2>2, <1>1, <1>12 DEF Fresh
  <2>4. ~Carries(sealing[c], m) BY <1>3, <1>4, <1>12 DEF Fresh
  <2>5. \A n \in Nat : Carries(sealing'[c], n) \/ Carries(up'[c], n)
                         => n \in 1..emitted'[c] /\ n \notin Known(e)'
    BY <2>2, <2>4, <1>1, <1>11, <1>12 DEF Fresh, e
  <2>6. Known(e)' \subseteq 1..emitted'[c] BY <1>1, <1>11, <1>12, <1>13 DEF Fresh, e
  <2> QED BY <2>1, <2>3, <2>5, <2>6 DEF Fresh, e
<1>15. Fresh(e)'
  <2>1. sealing'[e] = sealing[e] /\ up'[e] = up[e] /\ emitted'[e] = emitted[e] BY <1>1, <1>3
  <2> QED BY <2>1, <1>2, <1>10, <1>12 DEF Fresh
<1>16. Counted(e)'
  <2>1. IsFiniteSet(Known(e))
    <3>1. emitted[c] \in Nat /\ Known(e) \subseteq 1..emitted[c] BY <1>12 DEF Inv, Typed, Fresh, e
    <3>2. IsFiniteSet(1..emitted[c]) BY <3>1, FS_Interval
    <3> QED BY <3>1, <3>2, FS_Subset
  <2>2. Cardinality(Known(e) \cup {m}) = Cardinality(Known(e)) + 1
    BY <2>1, <1>13, FS_AddElement
  <2>3. Counted(e) /\ (Lossless(e)' => Lossless(e)) BY <1>1, <1>2 DEF Inv, Lossless
  <2>4. relay'.count[c] = relay.count[c] + 1 BY <1>5 DEF Inv, Typed
  <2> QED BY <2>2, <2>3, <2>4, <1>2, <1>11 DEF Counted
<1>17. Counted(c)'
  <2>1. Counted(c) /\ (Lossless(c)' => Lossless(c)) BY <1>1 DEF Inv, Lossless
  <2>2. relay'.count[e] = relay.count[e] BY <1>2, <1>5 DEF Inv, Typed
  <2> QED BY <2>1, <2>2, <1>10 DEF Counted, e
<1> QED BY <1>2, <1>8, <1>9, <1>14, <1>15, <1>16, <1>17 DEF Inv

\* The server relays a description, or refuses a signal.
LEMMA RelayOther ==
  ASSUME Inv, NEW c \in Side, RelaySignal(c),
         ~(RelayAllowed(c, Head(up[c])) /\ IsCandidate(Head(up[c])))
  PROVE  Inv'
<1> DEFINE h == Head(up[c])
<1>1. /\ UNCHANGED <<world, wired, queued, early, seen, added, emitted, jobs, remote>>
      /\ UNCHANGED <<stage, sock, sealing, why, local, pcOpen, linked, chans, replayed>>
      /\ up[c] # <<>> /\ h.type = "signal" /\ up' = [up EXCEPT ![c] = Tail(@)]
  BY DEF RelaySignal, ends, wiring, transport
<1>2. UpQuiet /\ h \in AnyFrame BY <1>1, TakeUpQuiet DEF Inv
<1>3. SealQuiet /\ StageQuiet /\ SockQuiet BY <1>1, SameIsQuiet, SameEndsQuiet DEF Inv
<1>4. relay \in [live : BOOLEAN, offer : BOOLEAN, answer : BOOLEAN, count : [Side -> Nat]]
  BY DEF Inv, Typed
<1>5. CASE RelayAllowed(c, h)
  <2> DEFINE e == Other(c)
  <2>1. e \in Side BY OtherSide
  <2>2. ~IsCandidate(h) /\ down' = [down EXCEPT ![e] = Append(@, h)] /\ relay' = ApplyRelayPhase(c, h)
    BY <1>5 DEF RelaySignal
  <2>3. h.kind # "candidate" BY <2>2, <1>1 DEF IsCandidate
  <2>4. /\ relay' \in [live : BOOLEAN, offer : BOOLEAN, answer : BOOLEAN, count : [Side -> Nat]]
        /\ relay'.count = relay.count
    <3> HIDE DEF h
    <3> QED BY <2>2, <2>3, <1>4 DEF ApplyRelayPhase
  <2> HIDE DEF e, h
  <2>5. down' \in [Side -> Seq(AnyFrame)] /\ \A d \in Side : DownQuiet(d)
    BY <2>1, <2>2, <1>2, AppendDownQuiet DEF Inv
  <2>6. Typed' BY <1>1, <1>2, <2>4, <2>5 DEF Inv, Typed, UpQuiet
  <2> QED BY <1>1, <1>2, <1>3, <2>4, <2>5, <2>6, CalmOnly
<1>6. CASE ~RelayAllowed(c, h)
  <2> DEFINE f == Plain("error")
  <2>1. f \in AnyFrame /\ ~IsCandidate(f) BY DEF Plain, AnyFrame, PlainFrame, IsCandidate
  <2>2. down' = [down EXCEPT ![c] = Append(@, f)] /\ UNCHANGED relay BY <1>6 DEF RelaySignal
  <2> HIDE DEF f
  <2>3. down' \in [Side -> Seq(AnyFrame)] /\ \A d \in Side : DownQuiet(d)
    BY <2>1, <2>2, AppendDownQuiet DEF Inv
  <2>4. Typed' BY <1>1, <1>2, <1>4, <2>2, <2>3 DEF Inv, Typed, UpQuiet
  <2>5. relay'.count = relay.count BY <2>2
  <2> QED BY <1>1, <1>2, <1>3, <2>3, <2>4, <2>5, CalmOnly
<1> QED BY <1>5, <1>6

\* The server's steps.
LEMMA ServerStep ==
  ASSUME Inv, NEW c \in Side, RelaySignal(c) \/ PeerLeaves(c) \/ ServerDrops \/ Replay(c)
  PROVE  Inv'
<1>1. CASE RelaySignal(c) BY <1>1, RelayCandidate, RelayOther
<1>2. CASE PeerLeaves(c) \/ ServerDrops BY <1>2, EndSessionStep DEF PeerLeaves, ServerDrops
<1>3. CASE Replay(c) BY <1>3, ReplayStep
<1> QED BY <1>1, <1>2, <1>3

-----------------------------------------------------------------------------
(* The actions: frames from the server *)

\* The wiring ends on a frame from the server.
LEMMA ShutsOnFrame ==
  ASSUME Inv, NEW c \in Side, Shut(c), down[c] # <<>>, Consume(c),
         UNCHANGED <<world, jobs, seen, remote, local, added, emitted, sealing, linked, chans,
                     relay, replayed>>,
         sock' \in [Side -> {"open", "closing", "closed"}], sock'[Other(c)] = sock[Other(c)]
  PROVE  Inv'
<1>1. /\ jobs' \in [Side -> SUBSET JobSet] /\ jobs'[c] \subseteq jobs[c]
      /\ jobs'[Other(c)] = jobs[Other(c)] /\ sealing'[Other(c)] = sealing[Other(c)]
      /\ chans' \subseteq Label
  BY DEF Inv, Typed
<1>2. SealQuiet BY SameIsQuiet DEF Inv
<1>3. HasAnswer(sealing'[c]) => \E j \in jobs'[c] : j.at = "sealing" BY DEF Inv, Jobs, HasAnswer
<1>4. down[c] # <<>> /\ down' = [down EXCEPT ![c] = Tail(@)] BY DEF Consume
<1>5. UNCHANGED <<world, seen, remote, added, emitted, relay, local, linked, replayed>> OBVIOUS
<1> QED BY <1>1, <1>2, <1>3, <1>4, <1>5, Shutting

\* The server refused a frame.
LEMMA ReceiveErrorStep ==
  ASSUME Inv, NEW c \in Side, ReceiveError(c)
  PROVE  Inv'
<1>1. /\ down[c] # <<>> /\ Head(down[c]).type = "error" /\ Consume(c)
      /\ UNCHANGED <<world, jobs, seen, remote, local, added, emitted, sealing, sock, linked, chans,
                     relay, replayed>>
      /\ Crash(c) \/ Fail(c) \/ UNCHANGED failing
  BY DEF ReceiveError, Received, transport
<1>2. CASE Crash(c) \/ Fail(c)
  <2>1. Shut(c) BY <1>2, CrashShuts, FailShuts DEF Inv
  <2>2. sock' \in [Side -> {"open", "closing", "closed"}] /\ sock'[Other(c)] = sock[Other(c)]
    BY <1>1 DEF Inv, Typed
  <2> QED BY <1>1, <2>1, <2>2, ShutsOnFrame
<1>3. CASE UNCHANGED failing
  <2>1. UNCHANGED <<stage, why, wired, queued, early, pcOpen, up>> BY <1>3 DEF failing
  <2>2. ~IsCandidate(Head(down[c])) BY <1>1 DEF IsCandidate
  <2>3. down' \in [Side -> Seq(AnyFrame)] /\ \A d \in Side : DownQuiet(d)
    BY <1>1, <2>2, ConsumeQuiet DEF Inv
  <2>4. Typed' BY <1>1, <2>1, <2>3 DEF Inv, Typed
  <2>5. UpQuiet /\ SealQuiet /\ StageQuiet /\ SockQuiet
    BY <1>1, <2>1, SameIsQuiet, SameEndsQuiet DEF Inv
  <2> QED BY <1>1, <2>1, <2>3, <2>4, <2>5, CalmOnly
<1> QED BY <1>1, <1>2, <1>3

\* The socket is closed.
LEMMA ReceiveCloseStep ==
  ASSUME Inv, NEW c \in Side, ReceiveClose(c)
  PROVE  Inv'
<1>1. /\ down[c] # <<>> /\ Head(down[c]).type = "close" /\ Consume(c)
      /\ sock' = [sock EXCEPT ![c] = "closed"]
      /\ UNCHANGED <<world, jobs, seen, remote, local, added, emitted, sealing, linked, chans,
                     relay, replayed>>
      /\ IF wired[c] THEN Fail(c) ELSE UNCHANGED failing
  BY DEF ReceiveClose, Received, transport
<1>2. sock' \in [Side -> {"open", "closing", "closed"}] /\ sock'[Other(c)] = sock[Other(c)]
  BY <1>1, OtherSide DEF Inv, Typed
<1>3. CASE wired[c]
  <2>1. Shut(c) BY <1>1, <1>3, FailShuts DEF Inv
  <2> QED BY <1>1, <1>2, <2>1, ShutsOnFrame
<1>4. CASE ~wired[c]
  <2>1. UNCHANGED <<stage, why, wired, queued, early, pcOpen, up>> BY <1>1, <1>4 DEF failing
  <2>2. ~IsCandidate(Head(down[c])) BY <1>1 DEF IsCandidate
  <2>3. down' \in [Side -> Seq(AnyFrame)] /\ \A d \in Side : DownQuiet(d)
    BY <1>1, <2>2, ConsumeQuiet DEF Inv
  <2>4. Typed' BY <1>1, <1>2, <2>1, <2>3 DEF Inv, Typed
  <2>5. UpQuiet /\ SealQuiet /\ StageQuiet BY <1>1, <2>1, SameIsQuiet, SameEndsQuiet DEF Inv
  <2>6. SockQuiet BY <1>1, <1>4 DEF SockQuiet, Inv, Typed
  <2> QED BY <1>1, <2>1, <2>3, <2>4, <2>5, <2>6, CalmOnly
<1> QED BY <1>3, <1>4

\* A signal reaches the wiring, or is kept for it.
LEMMA SignalArrives ==
  ASSUME Inv, NEW c \in Side, NEW h \in SignalFrame, down[c] # <<>>, h = Head(down[c]), Consume(c),
         UNCHANGED <<world, stage, why, wired, queued, seen, remote, added, local, pcOpen, emitted,
                     sealing, sock, linked, chans, up, relay, replayed>>,
         \/ /\ wired[c] /\ UNCHANGED early
            /\ jobs' = [jobs EXCEPT ![c] = @ \cup {[sig |-> h, at |-> "opening"]}]
         \/ /\ ~wired[c] /\ EarlyFits(c) /\ UNCHANGED jobs
            /\ early' = [early EXCEPT ![c] = Append(@, h)]
  PROVE  Inv'
<1> DEFINE d == Other(c)  q == down[c]  r == Tail(q)
<1>1. d \in Side /\ d # c /\ \A e \in Side : e = c \/ e = d BY OtherSide
<1>2. /\ down' \in [Side -> Seq(AnyFrame)] /\ down'[d] = down[d]
      /\ \A n : Carries(down[c], n) <=> (Carries(down'[c], n) \/ (IsCandidate(h) /\ h.n = n))
  <2>1. q \in Seq(AnyFrame) /\ q # <<>> /\ h = Head(q) BY DEF Inv, Typed
  <2>2. down' = [down EXCEPT ![c] = r] /\ down \in [Side -> Seq(AnyFrame)] BY DEF Inv, Typed, Consume
  <2> HIDE DEF q
  <2>3. r \in Seq(AnyFrame) /\ \A n : Carries(q, n) <=> (Carries(r, n) \/ (IsCandidate(h) /\ h.n = n))
    BY <2>1, TailFrame
  <2> HIDE DEF r
  <2> QED BY <2>2, <2>3, <1>1 DEF q
<1> HIDE DEF q, r
<1>3. early' \in [Side -> Seq(SignalFrame)] /\ early'[d] = early[d] /\ Len(early'[c]) <= MaxEarly
      /\ \A n : Carries(early'[c], n) <=> \/ Carries(early[c], n)
                                          \/ ~wired[c] /\ IsCandidate(h) /\ h.n = n
  <2>0. early \in [Side -> Seq(SignalFrame)] /\ Len(early[c]) <= MaxEarly BY DEF Inv, Typed, Local
  <2>1. CASE wired[c] BY <2>0, <2>1
  <2>2. CASE ~wired[c]
    <3> DEFINE x == early[c]  y == Append(x, h)
    <3>1. x \in Seq(SignalFrame) /\ Len(x) < MaxEarly BY <2>0, <2>2 DEF EarlyFits
    <3>2. early' = [early EXCEPT ![c] = y] BY <2>2
    <3> HIDE DEF x
    <3>3. /\ y \in Seq(SignalFrame) /\ Len(y) = Len(x) + 1
          /\ \A n : Carries(y, n) <=> (Carries(x, n) \/ (IsCandidate(h) /\ h.n = n))
      BY <3>1, AppendSignal
    <3>4. Len(y) <= MaxEarly BY <3>1, <3>3, WiringAssumption
    <3> HIDE DEF y
    <3>5. early' \in [Side -> Seq(SignalFrame)] /\ early'[d] = early[d] /\ early'[c] = y
      BY <2>0, <3>2, <3>3, <1>1
    <3> QED BY <2>2, <3>3, <3>4, <3>5 DEF x
  <2> QED BY <2>1, <2>2
<1>4. /\ jobs' \in [Side -> SUBSET JobSet] /\ jobs'[d] = jobs[d] /\ jobs[c] \subseteq jobs'[c]
      /\ \A j \in jobs'[c] \ jobs[c] : j = [sig |-> h, at |-> "opening"]
      /\ wired[c] => [sig |-> h, at |-> "opening"] \in jobs'[c]
      /\ ~wired[c] => jobs' = jobs
  <2>1. [sig |-> h, at |-> "opening"] \in JobSet BY DEF JobSet, Awaits
  <2>2. jobs \in [Side -> SUBSET JobSet] BY DEF Inv, Typed
  <2> QED BY <2>1, <2>2, <1>1
<1>5. Typed' BY <1>2, <1>3, <1>4 DEF Inv, Typed
<1>6. Local(d)' /\ Jobs(d)' /\ Queue(d)' /\ Drained(d)' BY <1>1, <1>3, <1>4, OtherKept DEF Inv
<1>7. Local(c)'
  <2>1. stage[c] = "ice" => jobs'[c] = jobs[c] BY <1>4 DEF Inv, Local
  <2> QED BY <2>1, <1>3 DEF Inv, Local
<1>8. Jobs(c)'
  <2>1. Jobs(c) BY DEF Inv
  <2>2. \A j \in jobs'[c] : j \in jobs[c] \/ j.at = "opening" BY <1>4
  <2>3. \A j \in jobs'[c] : j.at # "opening" => j \in jobs[c] BY <2>2
  <2>4. \A j \in jobs'[c] : Describing(j) => j \in jobs[c] BY <2>3 DEF Describing
  <2>5. \A j \in jobs[c] : j \in jobs'[c] BY <1>4
  <2> QED BY <2>1, <2>3, <2>4, <2>5 DEF Jobs
<1>9. Queue(c)' BY DEF Inv, Queue
<1>10. Drained(c)' BY <1>4 DEF Inv, Drained
<1>11. Known(d)' = Known(d) BY <1>1, <1>2, <1>3, <1>4, KnownSame
<1>12. Known(c)' = Known(c)
  <2>1. \A n : Opening(c, n)' <=> (Opening(c, n) \/ (wired[c] /\ IsCandidate(h) /\ h.n = n))
    <3> SUFFICES ASSUME NEW n
                 PROVE  Opening(c, n)' <=> (Opening(c, n) \/ (wired[c] /\ IsCandidate(h) /\ h.n = n))
      OBVIOUS
    <3>1. CASE wired[c]
      <4> DEFINE k == [sig |-> h, at |-> "opening"]
      <4>1. k.sig = h /\ k.at = "opening" /\ k \in jobs'[c] BY <1>4, <3>1
      <4>2. \A j \in jobs'[c] : j \in jobs[c] \/ j = k BY <1>4
      <4> HIDE DEF k
      <4> QED BY <4>1, <4>2, <1>4, <3>1 DEF Opening
    <3>2. CASE ~wired[c] BY <1>4, <3>2 DEF Opening
    <3> QED BY <3>1, <3>2
  <2> QED BY <2>1, <1>2, <1>3 DEF Known
<1>13. UpQuiet /\ SealQuiet BY SameIsQuiet DEF Inv
<1>14. \A e \in Side : Fresh(e)' BY <1>1, <1>11, <1>12, <1>13, FreshKept DEF SealQuiet
<1>15. \A e \in Side : Counted(e)'
  <2>1. \A e \in Side : Lossless(e)' => Lossless(e) /\ Known(e)' = Known(e)
    BY <1>1, <1>11, <1>12 DEF Lossless
  <2> QED BY <2>1, CountedKept DEF Inv
<1> QED BY <1>1, <1>5, <1>6, <1>7, <1>8, <1>9, <1>10, <1>14, <1>15 DEF Inv

\* A signal from the server.
LEMMA ReceiveSignalStep ==
  ASSUME Inv, NEW c \in Side, ReceiveSignal(c)
  PROVE  Inv'
<1> DEFINE heard == stage[c] \notin Ended /\ sock[c] # "closed"  h == Head(down[c])
<1>1. /\ down[c] # <<>> /\ h.type = "signal" /\ Consume(c)
      /\ UNCHANGED <<world, stage, why, wired, queued, seen, remote, added, local, pcOpen, emitted,
                     sealing, linked, chans, relay, replayed>>
  BY DEF ReceiveSignal, Received, ends, transport
<1>2. h \in SignalFrame
  <2>1. down[c] \in Seq(AnyFrame) BY DEF Inv, Typed
  <2>2. h \in AnyFrame BY <2>1, <1>1, TailFrame
  <2> QED BY <2>2, <1>1 DEF AnyFrame, PlainFrame
<1>3. CASE heard /\ (wired[c] \/ EarlyFits(c))
  <2>1. \/ /\ wired[c] /\ UNCHANGED early
           /\ jobs' = [jobs EXCEPT ![c] = @ \cup {[sig |-> h, at |-> "opening"]}]
        \/ /\ ~wired[c] /\ EarlyFits(c) /\ UNCHANGED jobs
           /\ early' = [early EXCEPT ![c] = Append(@, h)]
    BY <1>3 DEF ReceiveSignal
  <2>2. UNCHANGED <<sock, up>> BY <1>3 DEF ReceiveSignal
  <2>3. h = Head(down[c]) OBVIOUS
  <2> HIDE DEF h
  <2> QED BY <1>1, <1>2, <2>1, <2>2, <2>3, SignalArrives
<1>4. CASE ~(heard /\ (wired[c] \/ EarlyFits(c)))
  <2>1. UNCHANGED <<jobs, early>> BY <1>4 DEF ReceiveSignal
  <2>2. /\ sock' \in [Side -> {"open", "closing", "closed"}] /\ UpQuiet /\ SockQuiet
        /\ ~heard \/ sock'[c] = "closing"
    <3>1. CASE ~heard
      <4>1. UNCHANGED <<sock, up>> BY <3>1 DEF ReceiveSignal
      <4> QED BY <3>1, <4>1, SameIsQuiet, SameEndsQuiet DEF Inv, Typed
    <3>2. CASE heard
      <4> DEFINE g == <<Plain("close")>>
      <4>1. sock' = [sock EXCEPT ![c] = "closing"] /\ up' = Upward(c, g)
        BY <1>4, <3>2 DEF ReceiveSignal
      <4>2. g \in Seq(AnyFrame) /\ \A i \in DOMAIN g : ~IsCandidate(g[i])
        <5> DEFINE S == {<<Plain("bye"), Plain("close")>>, <<Plain("bye")>>, <<Plain("close")>>}
        <5>1. g \in S OBVIOUS
        <5> QED BY <5>1, LeavingFrames
      <4> HIDE DEF g
      <4>3. UpQuiet BY <4>1, <4>2, PlainUpward DEF Inv
      <4> QED BY <4>1, <4>3 DEF Inv, Typed, SockQuiet
    <3> QED BY <3>1, <3>2
  <2>3. ~Lossless(c)'
    <3>1. Local(c) /\ UNCHANGED <<stage, wired>> BY <1>1 DEF Inv
    <3>2. CASE ~heard
      <4>1. ~wired[c] BY <3>1, <3>2 DEF Local, Ended
      <4>2. UNCHANGED sock BY <3>2 DEF ReceiveSignal
      <4> QED BY <3>1, <3>2, <4>1, <4>2 DEF Lossless, Ended
    <3>3. CASE heard BY <1>4, <3>1, <3>3, <2>2 DEF Lossless
    <3> QED BY <3>2, <3>3
  <2>4. down' \in [Side -> Seq(AnyFrame)] /\ \A d \in Side : DownQuiet(d)
    BY <1>1, <2>3, ConsumeQuiet DEF Inv
  <2>5. Typed' BY <1>1, <2>1, <2>2, <2>4 DEF Inv, Typed, UpQuiet
  <2>6. SealQuiet /\ StageQuiet BY <1>1, SameIsQuiet, SameEndsQuiet DEF Inv
  <2> QED BY <1>1, <2>1, <2>2, <2>4, <2>5, <2>6, CalmOnly
<1> QED BY <1>3, <1>4

-----------------------------------------------------------------------------
(* The actions: seals and the jobs of onSignal *)

\* A step of one side that keeps what both know.
LEMMA SideStep ==
  ASSUME Inv, NEW c \in Side, Typed', UNCHANGED <<world, emitted, relay, stage, sock>>,
         Local(c)', Jobs(c)', Queue(c)', Drained(c)', UpQuiet, SealFresh,
         Known(c)' = Known(c), down' = down, wired' = wired, early' = early,
         \A d \in Side : d # c =>
           /\ jobs'[d] = jobs[d] /\ seen'[d] = seen[d] /\ queued'[d] = queued[d]
           /\ added'[d] = added[d] /\ remote'[d] = remote[d] /\ sealing'[d] = sealing[d]
  PROVE  Inv'
<1> DEFINE d == Other(c)
<1>1. d \in Side /\ d # c /\ \A e \in Side : e = c \/ e = d BY OtherSide
<1> HIDE DEF d
<1>2. /\ jobs'[d] = jobs[d] /\ seen'[d] = seen[d] /\ queued'[d] = queued[d]
      /\ added'[d] = added[d] /\ remote'[d] = remote[d] /\ sealing'[d] = sealing[d]
  BY <1>1
<1>3. Local(d)' /\ Jobs(d)' /\ Queue(d)' /\ Drained(d)' BY <1>1, <1>2, OtherKept DEF Inv
<1>4. Known(d)' = Known(d) BY <1>1, <1>2, KnownSame
<1>5. \A e \in Side : Known(e)' = Known(e) BY <1>1, <1>4
<1>6. \A e \in Side : Fresh(e)' BY <1>5, FreshKept
<1>7. \A e \in Side : Counted(e)'
  <2>1. \A e \in Side : Lossless(e)' => Lossless(e) BY DEF Lossless
  <2> QED BY <2>1, <1>5, CountedKept DEF Inv
<1> QED BY <1>1, <1>3, <1>6, <1>7 DEF Inv

\* A job of c goes on at its next await.
LEMMA JobsContinue ==
  ASSUME NEW c \in Side, Jobs(c), NEW j \in jobs[c], NEW k, NEW at \in Awaits \ {"opening"},
         k.sig = j.sig, k.at = at, jobs'[c] = (jobs[c] \ {j}) \cup {k},
         seen[c] \subseteq seen'[c], remote[c] => remote'[c],
         Describing(k) => /\ Key(k.sig) \in seen'[c] /\ k.sig.kind = Wanted(c)
                          /\ \A m \in jobs[c] \ {j} : ~Describing(m),
         at \in {"answering", "sealing"} => k.sig.kind # "candidate",
         at \in {"answering", "sealing", "draining"} => remote'[c],
         at = "applying" /\ k.sig.kind = "candidate" => remote'[c],
         OneAnswer(sealing'[c]),
         HasAnswer(sealing'[c]) => \E m \in jobs'[c] : m.at = "sealing"
  PROVE  Jobs(c)'
<1> DEFINE J == jobs'[c]
<1>0. \A m \in J : m \in jobs[c] \ {j} \/ m = k OBVIOUS
<1>1. \A m \in J : Describing(m) => Key(m.sig) \in seen'[c] /\ m.sig.kind = Wanted(c)
  BY <1>0 DEF Jobs
<1>2. \A m, o \in J : Describing(m) /\ Describing(o) => m = o
  <2> SUFFICES ASSUME NEW m \in J, NEW o \in J, Describing(m), Describing(o) PROVE m = o OBVIOUS
  <2>1. CASE Describing(k) BY <2>1, <1>0
  <2>2. CASE ~Describing(k)
    <3>1. m \in jobs[c] /\ o \in jobs[c] BY <2>2, <1>0
    <3> QED BY <3>1 DEF Jobs
  <2> QED BY <2>1, <2>2
<1>3. \A m \in J : m.at \in {"answering", "sealing"} => Describing(m) BY <1>0 DEF Jobs, Describing
<1>4. \A m \in J : m.at \in {"answering", "sealing", "draining"} => remote'[c] BY <1>0 DEF Jobs
<1>5. \A m \in J : m.at = "applying" /\ m.sig.kind = "candidate" => remote'[c] BY <1>0 DEF Jobs
<1> QED BY <1>1, <1>2, <1>3, <1>4, <1>5 DEF Jobs, OneAnswer, HasAnswer

\* A seal begins or a candidate's seal is done: what Jobs says of side c does not depend on it.
LEMMA JobsKept ==
  ASSUME NEW c \in Side, Jobs(c), jobs'[c] = jobs[c], seen'[c] = seen[c], remote'[c] = remote[c],
         OneAnswer(sealing[c]) => OneAnswer(sealing'[c]),
         HasAnswer(sealing'[c]) => HasAnswer(sealing[c])
  PROVE  Jobs(c)'
BY DEF Jobs, OneAnswer, HasAnswer

\* The wiring begins, with the signals that came before it.
LEMMA WireStep ==
  ASSUME Inv, NEW c \in Side, Wire(c)
  PROVE  Inv'
<1>1. CASE sock[c] # "open"
  <2> DEFINE f == "failed"
  <2>1. f \in {"failed", "cancelled", "complete"} /\ Finish(c, f) /\ UNCHANGED rest /\ UNCHANGED chans
    BY <1>1 DEF Wire, rest, transport
  <2> HIDE DEF f
  <2> QED BY <2>1, FinishOnly
<1>2. CASE sock[c] = "open"
  <2> DEFINE d == Other(c)  s == IF c = "sender" THEN "offering" ELSE "linking"
             K == {[sig |-> x, at |-> "opening"] : x \in Range(early[c])}
  <2>1. /\ stage[c] = "ice" /\ stage' = [stage EXCEPT ![c] = s]
        /\ wired' = [wired EXCEPT ![c] = TRUE] /\ early' = [early EXCEPT ![c] = <<>>]
        /\ jobs' = [jobs EXCEPT ![c] = K]
        /\ UNCHANGED <<world, why, queued, pcOpen, up, seen, remote, local, added, emitted, sealing,
                       sock, linked, chans, down, relay, replayed>>
    BY <1>2 DEF Wire, transport
  <2>2. s \in {"offering", "linking"} OBVIOUS
  <2>3. d \in Side /\ d # c /\ \A e \in Side : e = c \/ e = d BY OtherSide
  <2>4. K \subseteq JobSet /\ \A m \in K : m.at = "opening"
    <3>1. Range(early[c]) \subseteq SignalFrame
      <4>1. early[c] \in Seq(SignalFrame) BY DEF Inv, Typed
      <4> QED BY <4>1 DEF Range
    <3> QED BY <3>1 DEF JobSet, Awaits
  <2>5. \A n : (\E m \in K : m.at = "opening" /\ IsCandidate(m.sig) /\ m.sig.n = n)
                 <=> Carries(early[c], n)
    <3>1. \A m \in K : \E i \in DOMAIN early[c] : m.sig = early[c][i] BY DEF Range
    <3>2. \A i \in DOMAIN early[c] : [sig |-> early[c][i], at |-> "opening"] \in K BY DEF Range
    <3>3. ASSUME NEW n, Carries(early[c], n)
          PROVE  \E m \in K : m.at = "opening" /\ IsCandidate(m.sig) /\ m.sig.n = n
      <4>1. PICK i \in DOMAIN early[c] : IsCandidate(early[c][i]) /\ early[c][i].n = n
        BY <3>3 DEF Carries
      <4> DEFINE m == [sig |-> early[c][i], at |-> "opening"]
      <4>2. m \in K /\ m.at = "opening" /\ m.sig = early[c][i] BY <3>2
      <4> HIDE DEF m, K
      <4> QED BY <4>1, <4>2
    <3> HIDE DEF K
    <3>4. ASSUME NEW n, NEW m \in K, IsCandidate(m.sig), m.sig.n = n PROVE Carries(early[c], n)
      BY <3>1, <3>4 DEF Carries
    <3> QED BY <3>3, <3>4
  <2> HIDE DEF K, s, d
  <2>6. /\ jobs' \in [Side -> SUBSET JobSet] /\ jobs'[c] = K /\ jobs'[d] = jobs[d]
        /\ early' \in [Side -> Seq(SignalFrame)] /\ early'[c] = <<>> /\ early'[d] = early[d]
        /\ wired' \in [Side -> BOOLEAN] /\ wired'[c] /\ wired'[d] = wired[d]
        /\ stage' \in [Side -> Stages] /\ stage'[c] = s /\ stage'[d] = stage[d]
    <3>1. jobs \in [Side -> SUBSET JobSet] /\ early \in [Side -> Seq(SignalFrame)] BY DEF Inv, Typed
    <3>2. wired \in [Side -> BOOLEAN] /\ stage \in [Side -> Stages] BY DEF Inv, Typed
    <3>3. s \in Stages BY <2>2 DEF Stages
    <3>4. jobs' \in [Side -> SUBSET JobSet] /\ jobs'[c] = K /\ jobs'[d] = jobs[d]
      BY <2>1, <2>3, <2>4, <3>1
    <3>5. early' \in [Side -> Seq(SignalFrame)] /\ early'[c] = <<>> /\ early'[d] = early[d]
      BY <2>1, <2>3, <3>1
    <3> QED BY <2>1, <2>3, <3>2, <3>3, <3>4, <3>5
  <2>7. Typed' BY <2>1, <2>6 DEF Inv, Typed
  <2>8. Local(d)' /\ Jobs(d)' /\ Queue(d)' /\ Drained(d)' BY <2>1, <2>3, <2>6, OtherKept DEF Inv
  <2>9. /\ jobs[c] = {} /\ seen[c] = {} /\ queued[c] = <<>> /\ added[c] = <<>>
        /\ Local(c) /\ Jobs(c) /\ Queue(c) /\ Drained(c)
    BY <2>1 DEF Inv, Local
  <2>10. Local(c)' BY <1>2, <2>1, <2>2, <2>6, <2>9, WiringAssumption DEF Local
  <2>11. Jobs(c)'
    <3>1. ~HasAnswer(sealing[c]) BY <2>9 DEF Jobs, HasAnswer
    <3> QED BY <3>1, <2>1, <2>4, <2>6 DEF Jobs, HasAnswer, Describing
  <2>12. Queue(c)' BY <2>1, <2>9 DEF Queue
  <2>13. Drained(c)' BY <2>1, <2>9 DEF Drained
  <2>14. Known(d)' = Known(d) BY <2>1, <2>3, <2>6, KnownSame
  <2>15. Known(c)' = Known(c)
    <3>1. \A n : Opening(c, n)' <=> Carries(early[c], n) BY <2>5, <2>6 DEF Opening
    <3>2. \A n : ~Opening(c, n) BY <2>9 DEF Opening
    <3>3. \A n : ~Carries(early'[c], n) BY <2>6 DEF Carries
    <3> QED BY <3>1, <3>2, <3>3, <2>1 DEF Known
  <2>16. UpQuiet /\ SealQuiet BY <2>1, SameIsQuiet DEF Inv
  <2>17. \A e \in Side : Fresh(e)' BY <2>1, <2>3, <2>14, <2>15, <2>16, FreshKept DEF SealQuiet
  <2>18. Lossless(c) BY <1>2, <2>1 DEF Lossless
  <2>19. Lossless(d)' => Lossless(d) BY <2>1, <2>6 DEF Lossless
  <2>20. \A e \in Side : Counted(e)'
    BY <2>1, <2>3, <2>14, <2>15, <2>18, <2>19, CountedKept DEF Inv
  <2> QED BY <2>3, <2>7, <2>8, <2>10, <2>11, <2>12, <2>13, <2>17, <2>20 DEF Inv
<1> QED BY <1>1, <1>2

\* A candidate is found: it waits to be sealed, and nobody has seen it.
LEMMA GatherStep ==
  ASSUME Inv, NEW c \in Side, Gather(c)
  PROVE  Inv'
<1> DEFINE d == Other(c)  q == sealing[c]  m == emitted[c] + 1  f == Candidate(m)  r == Append(q, f)
<1>1. /\ emitted[c] < world.cands[c] /\ emitted' = [emitted EXCEPT ![c] = m]
      /\ sealing' = [sealing EXCEPT ![c] = r]
      /\ UNCHANGED <<world, stage, why, wired, early, queued, jobs, seen, remote, local, added,
                     pcOpen, sock, linked, chans, up, down, relay, replayed>>
  BY DEF Gather, ends, wiring, transport, net
<1>2. d \in Side /\ d # c /\ Other(d) = c /\ \A e \in Side : e = c \/ e = d BY OtherSide
<1>3. /\ q \in Seq(SignalFrame) /\ sealing \in [Side -> Seq(SignalFrame)]
      /\ emitted \in [Side -> Nat] /\ world.cands[c] \in Nat /\ world.cands \in [Side -> Nat]
      /\ emitted[c] \in Nat
  BY DEF Inv, Typed, World
<1>4. m \in Nat /\ m = emitted[c] + 1 /\ m # 0 BY <1>3
<1>5. f \in SignalFrame /\ IsCandidate(f) /\ f.n = m /\ f.kind # "answer"
  <2> HIDE DEF m
  <2> QED BY <1>4 DEF SignalFrame, Candidate, Signal, Kinds, IsCandidate
<1> HIDE DEF d, q, m, f
<1>6. /\ r \in Seq(SignalFrame) /\ (\A n : Carries(r, n) <=> (Carries(q, n) \/ n = m))
      /\ (Distinct(q) /\ ~Carries(q, m) => Distinct(r))
  BY <1>3, <1>5, AppendSignal
<1>7. \A i \in DOMAIN r : r[i].kind = "answer" => i \in DOMAIN q /\ r[i] = q[i] BY <1>3, <1>5
<1> HIDE DEF r
<1>8. (OneAnswer(q) => OneAnswer(r)) /\ (HasAnswer(r) => HasAnswer(q))
  BY <1>7 DEF OneAnswer, HasAnswer
<1>9. /\ sealing' \in [Side -> Seq(SignalFrame)] /\ sealing'[c] = r /\ sealing'[d] = sealing[d]
      /\ emitted' \in [Side -> Nat] /\ emitted'[c] = m /\ emitted'[d] = emitted[d]
  BY <1>1, <1>2, <1>3, <1>4, <1>6
<1>10. Typed' BY <1>1, <1>9 DEF Inv, Typed
<1>11. Local(d)' /\ Jobs(d)' /\ Queue(d)' /\ Drained(d)' BY <1>1, <1>2, <1>9, OtherKept DEF Inv
<1>12. Local(c)' BY <1>1, <1>3, <1>4, <1>9 DEF Inv, Local
<1>13. Jobs(c)' BY <1>1, <1>8, <1>9, JobsKept DEF Inv, q
<1>14. Queue(c)' /\ Drained(c)' BY <1>1 DEF Inv, Queue, Drained
<1>15. Known(c)' = Known(c) /\ Known(d)' = Known(d) BY <1>1, <1>2, KnownSame
<1>16. Fresh(c) /\ Fresh(d) BY <1>2 DEF Inv
<1>17. ~Carries(q, m) /\ ~Carries(up[c], m) /\ m \notin Known(d)
  BY <1>3, <1>4, <1>16 DEF Fresh, d, q
<1>18. 1..emitted[c] \subseteq 1..m /\ m \in 1..m BY <1>3, <1>4
<1>19. Fresh(c)'
  <2>1. Distinct(sealing'[c]) /\ Distinct(up'[c]) BY <1>1, <1>6, <1>9, <1>16, <1>17 DEF Fresh, q
  <2>2. \A n \in Nat : ~(Carries(sealing'[c], n) /\ Carries(up'[c], n))
    BY <1>1, <1>6, <1>9, <1>16, <1>17 DEF Fresh, q
  <2>3. \A n \in Nat : Carries(sealing'[c], n) \/ Carries(up'[c], n)
                         => n \in 1..emitted'[c] /\ n \notin Known(d)'
    BY <1>1, <1>6, <1>9, <1>15, <1>16, <1>17, <1>18 DEF Fresh, q, d
  <2>4. Known(d)' \subseteq 1..emitted'[c] BY <1>9, <1>15, <1>16, <1>18 DEF Fresh, d
  <2> QED BY <2>1, <2>2, <2>3, <2>4 DEF Fresh, d
<1>20. Fresh(d)' BY <1>1, <1>2, <1>9, <1>15, <1>16 DEF Fresh
<1>21. \A e \in Side : Counted(e)'
  <2>1. \A e \in Side : Lossless(e)' => Lossless(e) BY <1>1 DEF Lossless
  <2> QED BY <2>1, <1>1, <1>2, <1>15, CountedKept DEF Inv
<1> QED BY <1>2, <1>10, <1>11, <1>12, <1>13, <1>14, <1>19, <1>20, <1>21 DEF Inv

\* A candidate's seal is done and the candidate leaves.
LEMMA CandidateLeaves ==
  ASSUME Inv, NEW c \in Side, NEW i \in 1..Len(sealing[c]), NEW s, s = sealing[c][i],
         s.kind = "candidate", sealing' = [sealing EXCEPT ![c] = RemoveAt(@, i)],
         sock[c] = "open" /\ relay.live, up' = Upward(c, <<s>>),
         UNCHANGED <<world, stage, why, wired, early, queued, jobs, seen, remote, local, added,
                     pcOpen, emitted, sock, linked, chans, down, relay, replayed>>
  PROVE  Inv'
<1> DEFINE d == Other(c)  q == up[c]  g == <<s>>  r == q \o g  m == s.n
<1>1. d \in Side /\ d # c /\ Other(d) = c /\ \A e \in Side : e = c \/ e = d BY OtherSide
<1>2. s \in SignalFrame /\ IsCandidate(s) /\ m \in Nat
  <2>1. sealing[c] \in Seq(SignalFrame) BY DEF Inv, Typed
  <2>2. s \in SignalFrame BY <2>1
  <2> QED BY <2>2 DEF SignalFrame, IsCandidate
<1>3. /\ SealQuiet /\ sealing'[d] = sealing[d] BY RemoveIsQuiet DEF Inv
<1>4. Fresh(c) /\ Fresh(d) BY <1>1 DEF Inv
<1>5. Carries(sealing[c], m) /\ ~Carries(sealing'[c], m)
  <2> DEFINE x == sealing[c]
  <2>1. x \in Seq(SignalFrame) /\ sealing \in [Side -> Seq(SignalFrame)] BY DEF Inv, Typed
  <2>2. i \in DOMAIN x /\ x[i] = s BY <2>1
  <2>3. Carries(x, m) BY <2>2, <1>2 DEF Carries
  <2>4. Distinct(x) BY <1>4 DEF Fresh
  <2>5. sealing'[c] = RemoveAt(x, i) BY <2>1
  <2>6. i \in 1..Len(x) OBVIOUS
  <2> HIDE DEF x
  <2>7. Distinct(x) /\ IsCandidate(x[i]) => ~Carries(RemoveAt(x, i), x[i].n)
    BY <2>1, <2>6, RemoveCarries
  <2> QED BY <2>2, <2>3, <2>4, <2>5, <2>7, <1>2 DEF x
<1>6. q \in Seq(AnyFrame) /\ up \in [Side -> Seq(AnyFrame)] BY DEF Inv, Typed
<1>7. g \in Seq(AnyFrame) /\ Distinct(g) /\ \A n : Carries(g, n) <=> n = m
  <2>1. s \in AnyFrame BY <1>2 DEF AnyFrame
  <2>2. g \in Seq(AnyFrame) /\ DOMAIN g = {1} /\ g[1] = s BY <2>1
  <2> HIDE DEF g
  <2> QED BY <2>2, <1>2 DEF Distinct, Carries
<1>8. up' = [up EXCEPT ![c] = r] BY DEF Upward
<1> HIDE DEF d, q, g, m
<1>9. ~Carries(q, m) BY <1>2, <1>4, <1>5 DEF Fresh, q
<1>10. /\ r \in Seq(AnyFrame) /\ (\A n : Carries(r, n) <=> (Carries(q, n) \/ n = m))
       /\ (Distinct(q) => Distinct(r))
  BY <1>6, <1>7, <1>9, ConcatFrames
<1> HIDE DEF r
<1>11. up' \in [Side -> Seq(AnyFrame)] /\ up'[c] = r /\ up'[d] = up[d]
  BY <1>1, <1>6, <1>8, <1>10
<1>12. Typed' BY <1>3, <1>11 DEF Inv, Typed, SealQuiet, SealFresh
<1>13. Local(d)' /\ Jobs(d)' /\ Queue(d)' /\ Drained(d)' BY <1>1, <1>3, OtherKept DEF Inv
<1>14. Local(c)' /\ Queue(c)' /\ Drained(c)' BY DEF Inv, Local, Queue, Drained
<1>15. Jobs(c)' BY <1>3, JobsKept DEF Inv, SealQuiet
<1>16. Known(c)' = Known(c) /\ Known(d)' = Known(d) BY <1>1, KnownSame
<1>17. \A n \in Nat : Carries(sealing'[c], n) => Carries(sealing[c], n) /\ n # m
  BY <1>3, <1>5 DEF SealQuiet, SealFresh
<1>18. Fresh(c)'
  <2>1. Distinct(sealing'[c]) /\ Distinct(up'[c])
    BY <1>3, <1>4, <1>10, <1>11 DEF Fresh, q, SealQuiet, SealFresh
  <2>2. \A n \in Nat : ~(Carries(sealing'[c], n) /\ Carries(up'[c], n))
    BY <1>4, <1>10, <1>11, <1>17 DEF Fresh, q
  <2>3. \A n \in Nat : Carries(sealing'[c], n) \/ Carries(up'[c], n)
                         => Carries(sealing[c], n) \/ Carries(up[c], n)
    BY <1>5, <1>10, <1>11, <1>17 DEF q
  <2>4. \A n \in Nat : Carries(sealing'[c], n) \/ Carries(up'[c], n)
                         => n \in 1..emitted'[c] /\ n \notin Known(d)'
    BY <2>3, <1>4, <1>16 DEF Fresh, d
  <2>5. Known(d)' \subseteq 1..emitted'[c] BY <1>4, <1>16 DEF Fresh, d
  <2> QED BY <2>1, <2>2, <2>4, <2>5 DEF Fresh, d
<1>19. Fresh(d)' BY <1>1, <1>3, <1>4, <1>11, <1>16 DEF Fresh
<1>20. \A e \in Side : Counted(e)'
  <2>1. \A e \in Side : Lossless(e)' => Lossless(e) BY DEF Lossless
  <2> QED BY <2>1, <1>1, <1>16, CountedKept DEF Inv
<1> QED BY <1>1, <1>12, <1>13, <1>14, <1>15, <1>18, <1>19, <1>20 DEF Inv

\* A seal is done and no candidate leaves: a description does, or nothing.
LEMMA SealedCalmly ==
  ASSUME Inv, NEW c \in Side, NEW i \in 1..Len(sealing[c]),
         sealing' = [sealing EXCEPT ![c] = RemoveAt(@, i)], UpQuiet, pcOpen' \in [Side -> BOOLEAN],
         UNCHANGED <<world, stage, why, wired, early, queued, jobs, seen, remote, local, added,
                     emitted, sock, linked, chans, down, relay, replayed>>
  PROVE  Inv'
<1>1. SealQuiet BY RemoveIsQuiet DEF Inv
<1>2. Typed' BY <1>1 DEF Inv, Typed, UpQuiet, SealQuiet, SealFresh
<1>3. \A d \in Side : DownQuiet(d) BY SameDownQuiet
<1>4. StageQuiet /\ SockQuiet BY SameEndsQuiet
<1>5. UNCHANGED <<world, wired, queued, early, seen, added, emitted, jobs, remote>> OBVIOUS
<1>6. relay'.count = relay.count OBVIOUS
<1> QED BY <1>1, <1>2, <1>3, <1>4, <1>5, <1>6, CalmOnly

\* A description goes up.
LEMMA DescriptionUpward ==
  ASSUME Typed, NEW c \in Side, NEW s \in SignalFrame, s.kind # "candidate", up' = Upward(c, <<s>>)
  PROVE  UpQuiet
<1> DEFINE g == <<s>>
<1>1. s \in AnyFrame /\ ~IsCandidate(s) BY DEF AnyFrame, IsCandidate
<1>2. g \in Seq(AnyFrame) /\ \A i \in DOMAIN g : ~IsCandidate(g[i]) BY <1>1
<1>3. up' = Upward(c, g) OBVIOUS
<1> HIDE DEF g
<1> QED BY <1>2, <1>3, PlainUpward

\* The offer's seal is done.
LEMMA OfferSealedStep ==
  ASSUME Inv, NEW c \in Side, NEW i \in 1..Len(sealing[c]), NEW s \in SignalFrame,
         s.kind = "offer", s = sealing[c][i], sealing' = [sealing EXCEPT ![c] = RemoveAt(@, i)],
         OfferSealed(c, s),
         UNCHANGED <<world, seen, remote, local, added, emitted, linked, chans, down, relay, replayed>>
  PROVE  Inv'
<1>0. UNCHANGED <<jobs, sock>> BY DEF OfferSealed
<1>1. CASE stage[c] = "linking" /\ sock[c] # "open"
  <2> DEFINE f == "failed"
  <2>1. f \in {"failed", "cancelled", "complete"} /\ Finish(c, f) BY <1>1 DEF OfferSealed
  <2> HIDE DEF f
  <2>2. Shut(c) BY <2>1, FinishShuts DEF Inv
  <2>3. SealQuiet /\ sealing'[Other(c)] = sealing[Other(c)] BY RemoveIsQuiet DEF Inv
  <2>4. HasAnswer(sealing'[c]) => \E j \in jobs'[c] : j.at = "sealing"
    BY <1>0, <2>3 DEF Inv, Jobs, HasAnswer, SealQuiet
  <2>5. /\ sock' \in [Side -> {"open", "closing", "closed"}] /\ sock'[Other(c)] = sock[Other(c)]
        /\ jobs' \in [Side -> SUBSET JobSet] /\ jobs'[c] \subseteq jobs[c]
        /\ jobs'[Other(c)] = jobs[Other(c)] /\ chans' \subseteq Label
    BY <1>0 DEF Inv, Typed
  <2> QED BY <2>2, <2>3, <2>4, <2>5, Shutting
<1>2. CASE ~(stage[c] = "linking" /\ sock[c] # "open")
  <2>1. /\ UNCHANGED <<stage, why, wired, queued, early, pcOpen>>
        /\ up' = IF stage[c] = "linking" THEN Upward(c, <<s>>) ELSE up
    BY <1>2 DEF OfferSealed
  <2>2. UpQuiet
    <3>1. CASE stage[c] = "linking"
      <4>1. up' = Upward(c, <<s>>) BY <2>1, <3>1
      <4> QED BY <4>1, DescriptionUpward DEF Inv
    <3>2. CASE stage[c] # "linking"
      <4>1. UNCHANGED up BY <2>1, <3>2
      <4> QED BY <4>1, SameIsQuiet DEF Inv
    <3> QED BY <3>1, <3>2
  <2>3. pcOpen' \in [Side -> BOOLEAN] BY <2>1 DEF Inv, Typed
  <2> QED BY <1>0, <2>1, <2>2, <2>3, SealedCalmly
<1> QED BY <1>1, <1>2

\* A candidate's seal is done.
LEMMA CandidateSealedStep ==
  ASSUME Inv, NEW c \in Side, NEW i \in 1..Len(sealing[c]), NEW s \in SignalFrame,
         s.kind = "candidate", s = sealing[c][i], sealing' = [sealing EXCEPT ![c] = RemoveAt(@, i)],
         CandidateSealed(c, s),
         UNCHANGED <<world, seen, remote, local, added, emitted, linked, chans, down, relay, replayed>>
  PROVE  Inv'
<1>0. UNCHANGED <<stage, why, wired, queued, early, jobs, sock>> BY DEF CandidateSealed
<1>1. CASE /\ ~(IceWired(c) /\ Kind(c) = "cli" /\ sock[c] # "open")
           /\ IceWired(c) /\ sock[c] = "open" /\ relay.live
  <2>1. up' = Upward(c, <<s>>) /\ UNCHANGED pcOpen BY <1>1 DEF CandidateSealed
  <2> QED BY <1>0, <1>1, <2>1, CandidateLeaves
<1>2. CASE ~(/\ ~(IceWired(c) /\ Kind(c) = "cli" /\ sock[c] # "open")
             /\ IceWired(c) /\ sock[c] = "open" /\ relay.live)
  <2>1. UNCHANGED up /\ pcOpen' \in [Side -> BOOLEAN]
    BY <1>2 DEF CandidateSealed, Upward, Inv, Typed
  <2>2. UpQuiet BY <2>1, SameIsQuiet DEF Inv
  <2> QED BY <1>0, <2>1, <2>2, SealedCalmly
<1> QED BY <1>1, <1>2

\* The answer's seal is done.
LEMMA AnswerSealedStep ==
  ASSUME Inv, NEW c \in Side, NEW i \in 1..Len(sealing[c]), NEW s \in SignalFrame,
         s.kind = "answer", s = sealing[c][i], sealing' = [sealing EXCEPT ![c] = RemoveAt(@, i)],
         AnswerSealed(c, s),
         UNCHANGED <<world, seen, remote, local, added, emitted, linked, chans, down, relay, replayed>>
  PROVE  Inv'
<1> DEFINE j == CHOOSE j \in jobs[c] : j.at = "sealing"
<1>1. Jobs(c) /\ OneAnswer(sealing[c]) BY DEF Inv, Jobs, OneAnswer
<1>2. HasAnswer(sealing[c])
  <2>1. sealing[c] \in Seq(SignalFrame) BY DEF Inv, Typed
  <2>2. i \in DOMAIN sealing[c] BY <2>1
  <2> QED BY <2>2 DEF HasAnswer
<1>3. j \in jobs[c] /\ j.at = "sealing" BY <1>1, <1>2 DEF Jobs, HasAnswer
<1>4. AnswerSealed(c, s) <=>
        IF ~wired[c]
        THEN jobs' = [jobs EXCEPT ![c] = @ \ {j}] /\ UNCHANGED <<failing, sock>>
        ELSE IF sock[c] # "open" /\ Kind(c) = "cli"
        THEN Fail(c) /\ jobs' = [jobs EXCEPT ![c] = @ \ {j}] /\ UNCHANGED sock
        ELSE /\ jobs' = [jobs EXCEPT ![c] = (@ \ {j}) \cup {[j EXCEPT !.at = "draining"]}]
             /\ up' = Upward(c, <<s>>)
             /\ UNCHANGED <<stage, why, wired, queued, early, pcOpen, sock>>
  BY DEF AnswerSealed
<1> HIDE DEF j
<1>5. /\ SealQuiet /\ sealing'[Other(c)] = sealing[Other(c)] /\ ~HasAnswer(sealing'[c])
  BY <1>1, RemoveIsQuiet DEF Inv
<1>6. jobs \in [Side -> SUBSET JobSet] /\ j \in JobSet BY <1>3 DEF Inv, Typed
<1>7. UNCHANGED sock BY <1>4
<1>8. CASE ~wired[c]
  <2>1. /\ jobs' = [jobs EXCEPT ![c] = @ \ {j}]
        /\ UNCHANGED <<stage, why, wired, queued, early, pcOpen, up>>
    BY <1>4, <1>8 DEF failing
  <2>2. jobs' \in [Side -> SUBSET JobSet] BY <1>6, <2>1
  <2>3. \A d \in Side : JobsQuiet(d)
    <3>1. JobsQuiet(c) BY <1>5, <1>6, <1>8, <2>1 DEF JobsQuiet
    <3>2. \A d \in Side : d # c => JobsQuiet(d) BY <1>6, <2>1, SameJobsQuiet
    <3> QED BY <3>1, <3>2
  <2>4. Typed' BY <1>5, <1>7, <2>1, <2>2 DEF Inv, Typed, SealQuiet, SealFresh
  <2>5. UpQuiet /\ StageQuiet /\ SockQuiet BY <1>7, <2>1, SameIsQuiet, SameEndsQuiet DEF Inv
  <2>6. \A d \in Side : DownQuiet(d) BY SameDownQuiet
  <2>7. \A d \in Side : (remote[d] => remote'[d]) /\ (wired[d] => remote'[d] = remote[d]) OBVIOUS
  <2>8. relay'.count = relay.count OBVIOUS
  <2>9. UNCHANGED <<world, wired, queued, early, seen, added, emitted>> BY <2>1
  <2> QED BY <1>5, <2>3, <2>4, <2>5, <2>6, <2>7, <2>8, <2>9, Calm
<1>9. CASE wired[c] /\ sock[c] # "open" /\ Kind(c) = "cli"
  <2>1. Fail(c) /\ jobs' = [jobs EXCEPT ![c] = @ \ {j}] BY <1>4, <1>9
  <2>2. Shut(c) BY <2>1, FailShuts DEF Inv
  <2>3. /\ jobs' \in [Side -> SUBSET JobSet] /\ jobs'[c] \subseteq jobs[c]
        /\ jobs'[Other(c)] = jobs[Other(c)]
    BY <1>6, <2>1, OtherSide
  <2>4. /\ sock' \in [Side -> {"open", "closing", "closed"}] /\ sock'[Other(c)] = sock[Other(c)]
        /\ chans' \subseteq Label
    BY <1>7 DEF Inv, Typed
  <2> QED BY <1>5, <2>2, <2>3, <2>4, Shutting
<1>10. CASE wired[c] /\ ~(sock[c] # "open" /\ Kind(c) = "cli")
  <2> DEFINE at == "draining"  k == [j EXCEPT !.at = at]
  <2>1. /\ jobs' = [jobs EXCEPT ![c] = (@ \ {j}) \cup {k}] /\ up' = Upward(c, <<s>>)
        /\ UNCHANGED <<stage, why, wired, queued, early, pcOpen>>
    BY <1>4, <1>10
  <2>2. k \in JobSet /\ k.sig = j.sig /\ k.at = at /\ at = "draining" /\ at \in Awaits \ {"opening"}
    BY <1>6 DEF JobSet, Awaits
  <2> HIDE DEF at, k
  <2>3. /\ jobs' \in [Side -> SUBSET JobSet] /\ jobs'[c] = (jobs[c] \ {j}) \cup {k}
        /\ \A d \in Side : d # c => jobs'[d] = jobs[d]
    BY <1>6, <2>1, <2>2
  <2>4. UpQuiet BY <2>1, DescriptionUpward DEF Inv
  <2>5. Typed' BY <1>5, <1>7, <2>1, <2>3, <2>4 DEF Inv, Typed, SealQuiet, SealFresh, UpQuiet
  <2>6. Describing(j) /\ remote[c] BY <1>1, <1>3 DEF Jobs
  <2>7. Jobs(c)'
    <3>1. /\ Key(k.sig) \in seen'[c] /\ k.sig.kind = Wanted(c) /\ k.sig.kind # "candidate"
          /\ \A m \in jobs[c] \ {j} : ~Describing(m)
      BY <1>1, <1>3, <2>2, <2>6 DEF Jobs, Describing
    <3>2. OneAnswer(sealing'[c]) BY <1>5 DEF OneAnswer, HasAnswer
    <3> QED BY <1>1, <1>3, <1>5, <2>2, <2>3, <2>6, <3>1, <3>2, JobsContinue
  <2>8. Local(c)'
    <3>1. stage[c] # "ice" BY <1>3 DEF Inv, Local
    <3> QED BY <1>7, <2>1, <3>1 DEF Inv, Local
  <2>9. Queue(c)' BY <2>1 DEF Inv, Queue
  <2>10. Drained(c)'
    <3>1. k \in jobs'[c] /\ k.at \in {"answering", "sealing", "draining"} BY <2>2, <2>3
    <3> QED BY <3>1, <2>1 DEF Inv, Drained
  <2>11. Known(c)' = Known(c)
    <3>1. \A n : Opening(c, n)' <=> Opening(c, n)
      <4>1. \A m \in jobs'[c] : m.at = "opening" => m \in jobs[c] BY <2>2, <2>3
      <4>2. \A m \in jobs[c] : m.at = "opening" => m \in jobs'[c] BY <1>3, <2>3
      <4> QED BY <4>1, <4>2 DEF Opening
    <3> QED BY <3>1, <2>1 DEF Known
  <2>12. \A d \in Side : d # c =>
           /\ jobs'[d] = jobs[d] /\ seen'[d] = seen[d] /\ queued'[d] = queued[d]
           /\ added'[d] = added[d] /\ remote'[d] = remote[d] /\ sealing'[d] = sealing[d]
    BY <1>5, <2>1, <2>3, OtherSide
  <2>13. SealFresh BY <1>5 DEF SealQuiet
  <2> QED BY <1>7, <2>1, <2>4, <2>5, <2>7, <2>8, <2>9, <2>10, <2>11, <2>12, <2>13, SideStep
<1> QED BY <1>8, <1>9, <1>10

\* One seal is done.
LEMMA SealedStep ==
  ASSUME Inv, NEW c \in Side, Sealed(c)
  PROVE  Inv'
<1>1. PICK i \in 1..Len(sealing[c]) :
        /\ sealing' = [sealing EXCEPT ![c] = RemoveAt(@, i)]
        /\ CASE sealing[c][i].kind = "offer" -> OfferSealed(c, sealing[c][i])
             [] sealing[c][i].kind = "answer" -> AnswerSealed(c, sealing[c][i])
             [] sealing[c][i].kind = "candidate" -> CandidateSealed(c, sealing[c][i])
        /\ UNCHANGED <<world, seen, remote, local, added, emitted, linked, chans, down, relay, replayed>>
  BY DEF Sealed, transport
<1>2. PICK s \in SignalFrame : s = sealing[c][i]
  <2>1. sealing[c] \in Seq(SignalFrame) BY DEF Inv, Typed
  <2> QED BY <2>1
<1>3. s.kind \in {"offer", "answer", "candidate"} BY DEF SignalFrame, Kinds
<1>4. CASE s.kind = "offer"
  <2>1. OfferSealed(c, s) BY <1>1, <1>2, <1>4
  <2> QED BY <1>1, <1>2, <1>4, <2>1, OfferSealedStep
<1>5. CASE s.kind = "answer"
  <2>1. AnswerSealed(c, s) BY <1>1, <1>2, <1>5
  <2> QED BY <1>1, <1>2, <1>5, <2>1, AnswerSealedStep
<1>6. CASE s.kind = "candidate"
  <2>1. CandidateSealed(c, s) BY <1>1, <1>2, <1>6
  <2> QED BY <1>1, <1>2, <1>6, <2>1, CandidateSealedStep
<1> QED BY <1>3, <1>4, <1>5, <1>6

\* A job ends and nobody waits for it; the remote description may be set by it.
LEMMA JobReturns ==
  ASSUME Inv, NEW c \in Side, NEW j \in jobs[c], Return(c, j), j.at # "sealing",
         wired[c] => j.at = "applying" \/ (j.at = "draining" /\ queued[c] = <<>>),
         remote' \in [Side -> BOOLEAN],
         \A d \in Side : (remote[d] => remote'[d]) /\ (wired[d] => remote'[d] = remote[d]),
         UNCHANGED <<world, stage, why, wired, early, queued, seen, local, added, pcOpen, emitted,
                     sealing, sock, linked, chans, up, down, relay, replayed>>
  PROVE  Inv'
<1>1. jobs \in [Side -> SUBSET JobSet] BY DEF Inv, Typed
<1>2. jobs' \in [Side -> SUBSET JobSet] /\ jobs'[c] = jobs[c] \ {j}
      /\ \A d \in Side : d # c => jobs'[d] = jobs[d]
  BY <1>1 DEF Return
<1>3. \A d \in Side : JobsQuiet(d)
  <2>1. JobsQuiet(c) BY <1>2 DEF JobsQuiet
  <2>2. \A d \in Side : d # c => JobsQuiet(d) BY <1>2, SameJobsQuiet
  <2> QED BY <2>1, <2>2
<1>4. Typed' BY <1>2 DEF Inv, Typed
<1>5. UpQuiet /\ SealQuiet /\ StageQuiet /\ SockQuiet BY SameIsQuiet, SameEndsQuiet DEF Inv
<1>6. \A d \in Side : DownQuiet(d) BY SameDownQuiet
<1>7. UNCHANGED <<world, wired, queued, early, seen, added, emitted>> OBVIOUS
<1>8. relay'.count = relay.count OBVIOUS
<1> QED BY <1>3, <1>4, <1>5, <1>6, <1>7, <1>8, Calm

\* A job fails, and the wiring with it.
LEMMA JobFails ==
  ASSUME Inv, NEW c \in Side, NEW j \in jobs[c], Return(c, j), j.at # "sealing", Fail(c),
         UNCHANGED <<world, seen, remote, local, added, emitted, sealing, sock, linked, chans, down,
                     relay, replayed>>
  PROVE  Inv'
<1>1. Shut(c) BY FailShuts DEF Inv
<1>2. jobs \in [Side -> SUBSET JobSet] BY DEF Inv, Typed
<1>3. /\ jobs' \in [Side -> SUBSET JobSet] /\ jobs'[c] = jobs[c] \ {j}
      /\ jobs'[Other(c)] = jobs[Other(c)]
  BY <1>2, OtherSide DEF Return
<1>4. /\ sock' \in [Side -> {"open", "closing", "closed"}] /\ sock'[Other(c)] = sock[Other(c)]
      /\ chans' \subseteq Label /\ sealing'[Other(c)] = sealing[Other(c)] /\ jobs'[c] \subseteq jobs[c]
  BY <1>3 DEF Inv, Typed
<1>5. SealQuiet BY SameIsQuiet DEF Inv
<1>6. HasAnswer(sealing'[c]) => \E m \in jobs'[c] : m.at = "sealing"
  BY <1>3 DEF Inv, Jobs, HasAnswer
<1>7. UNCHANGED <<world, seen, remote, added, emitted, relay, local, linked, replayed>> OBVIOUS
<1>8. down' = down OBVIOUS
<1> QED BY <1>1, <1>3, <1>4, <1>5, <1>6, <1>7, <1>8, Shutting

\* openSignal or the peer connection rejects.
LEMMA RejectedStep ==
  ASSUME Inv, NEW c \in Side, NEW j \in jobs[c], SignalRejected(c, j) \/ SignalRefused(c, j)
  PROVE  Inv'
<1>1. /\ Return(c, j) /\ j.at # "sealing" /\ j.at # "draining"
      /\ UNCHANGED <<world, seen, remote, local, added, emitted, sealing, sock, linked, chans, down,
                     relay, replayed>>
      /\ Fail(c) \/ (~wired[c] /\ UNCHANGED failing)
  BY DEF SignalRejected, SignalRefused, transport
<1>2. CASE Fail(c) BY <1>1, <1>2, JobFails
<1>3. CASE ~wired[c] /\ UNCHANGED failing
  <2>1. UNCHANGED <<stage, why, wired, queued, early, pcOpen, up>> BY <1>3 DEF failing
  <2>2. remote' \in [Side -> BOOLEAN] BY <1>1 DEF Inv, Typed
  <2> QED BY <1>1, <1>3, <2>1, <2>2, JobReturns
<1> QED BY <1>1, <1>2, <1>3

\* The peer connection has applied a signal.
LEMMA SignalAppliedStep ==
  ASSUME Inv, NEW c \in Side, NEW j \in jobs[c], SignalApplied(c, j)
  PROVE  Inv'
<1> DEFINE description == j.sig.kind # "candidate"
<1>1. /\ j.at = "applying" /\ remote' = [remote EXCEPT ![c] = @ \/ description]
      /\ UNCHANGED <<world, stage, why, wired, queued, early, pcOpen, up, seen, local, added, emitted,
                     sealing, sock, linked, chans, down, relay, replayed>>
  BY DEF SignalApplied, failing, transport
<1>2. jobs \in [Side -> SUBSET JobSet] /\ j \in JobSet /\ remote \in [Side -> BOOLEAN]
  BY DEF Inv, Typed
<1>3. j.sig.kind \in Kinds BY <1>2 DEF JobSet, SignalFrame
<1>4. /\ remote' \in [Side -> BOOLEAN] /\ (remote'[c] <=> (remote[c] \/ description))
      /\ \A d \in Side : d # c => remote'[d] = remote[d]
  BY <1>1, <1>2
<1>5. Jobs(c) /\ (~description => remote[c]) BY <1>1 DEF Inv, Jobs
<1>6. CASE ~wired[c]
  <2>1. Return(c, j) BY <1>6 DEF SignalApplied
  <2>2. \A d \in Side : (remote[d] => remote'[d]) /\ (wired[d] => remote'[d] = remote[d])
    BY <1>4, <1>6
  <2>3. j.at # "sealing" BY <1>1
  <2> QED BY <1>1, <1>4, <1>6, <2>1, <2>2, <2>3, JobReturns
<1>7. CASE wired[c] /\ ~description /\ Kind(c) # "cli"
  <2>1. Return(c, j) BY <1>3, <1>7 DEF SignalApplied, Kinds
  <2>2. \A d \in Side : (remote[d] => remote'[d]) /\ (wired[d] => remote'[d] = remote[d])
    BY <1>2, <1>4, <1>5, <1>7
  <2>3. j.at # "sealing" BY <1>1
  <2> QED BY <1>1, <1>4, <1>7, <2>1, <2>2, <2>3, JobReturns
<1>8. CASE wired[c] /\ (description \/ Kind(c) = "cli")
  <2>1. PICK at \in {"answering", "draining"} :
          Continue(c, j, at) /\ (at = "answering" => description)
    <3>1. CASE j.sig.kind = "offer" BY <1>8, <3>1 DEF SignalApplied
    <3>2. CASE j.sig.kind = "answer" BY <1>8, <3>2 DEF SignalApplied
    <3>3. CASE j.sig.kind = "candidate" BY <1>8, <3>3 DEF SignalApplied
    <3> QED BY <1>3, <3>1, <3>2, <3>3 DEF Kinds
  <2> DEFINE k == [j EXCEPT !.at = at]
  <2>2. jobs' = [jobs EXCEPT ![c] = (@ \ {j}) \cup {k}] BY <2>1 DEF Continue
  <2>3. k \in JobSet /\ k.sig = j.sig /\ k.at = at BY <1>2 DEF JobSet, Awaits
  <2>4. at \in Awaits \ {"opening"} BY DEF Awaits
  <2> HIDE DEF k
  <2>5. /\ jobs' \in [Side -> SUBSET JobSet] /\ jobs'[c] = (jobs[c] \ {j}) \cup {k}
        /\ \A d \in Side : d # c => jobs'[d] = jobs[d]
    BY <1>2, <2>2, <2>3
  <2>6. Typed' BY <1>1, <1>4, <2>5 DEF Inv, Typed
  <2>7. remote'[c] BY <1>4, <1>5
  <2>8. Describing(j) <=> description BY <1>1 DEF Describing
  <2>9. Jobs(c)'
    <3>1. Describing(k) => /\ Key(k.sig) \in seen'[c] /\ k.sig.kind = Wanted(c)
                           /\ \A m \in jobs[c] \ {j} : ~Describing(m)
      <4> SUFFICES ASSUME Describing(k)
                   PROVE  /\ Key(k.sig) \in seen'[c] /\ k.sig.kind = Wanted(c)
                          /\ \A m \in jobs[c] \ {j} : ~Describing(m)
        OBVIOUS
      <4>1. Describing(j) BY <2>3, <2>8 DEF Describing
      <4> QED BY <4>1, <1>1, <1>5, <2>3 DEF Jobs
    <3>2. at \in {"answering", "sealing"} => k.sig.kind # "candidate" BY <2>1, <2>3
    <3>3. OneAnswer(sealing'[c]) BY <1>1, <1>5 DEF Jobs, OneAnswer
    <3>4. HasAnswer(sealing'[c]) => \E m \in jobs'[c] : m.at = "sealing"
      BY <1>1, <1>5, <2>5 DEF Jobs, HasAnswer
    <3>5. seen[c] \subseteq seen'[c] /\ (remote[c] => remote'[c]) BY <1>1, <2>7
    <3>6. at \in {"answering", "sealing", "draining"} => remote'[c] BY <2>7
    <3>7. at = "applying" /\ k.sig.kind = "candidate" => remote'[c] BY <2>7
    <3> QED BY <1>5, <2>3, <2>4, <2>5, <3>1, <3>2, <3>3, <3>4, <3>5, <3>6, <3>7, JobsContinue
  <2>10. Local(c)'
    <3>1. stage[c] # "ice" BY DEF Inv, Local
    <3> QED BY <1>1, <3>1 DEF Inv, Local
  <2>11. Queue(c)' BY <1>1 DEF Inv, Queue
  <2>12. Drained(c)'
    <3>1. k \in jobs'[c] /\ k.at \in {"answering", "sealing", "draining"} BY <2>3, <2>5
    <3> QED BY <3>1, <2>7 DEF Drained
  <2>13. Known(c)' = Known(c)
    <3>1. \A n : Opening(c, n)' <=> Opening(c, n)
      <4>1. \A m \in jobs'[c] : m.at = "opening" => m \in jobs[c] BY <2>3, <2>5
      <4>2. \A m \in jobs[c] : m.at = "opening" => m \in jobs'[c] BY <1>1, <2>5
      <4> QED BY <4>1, <4>2 DEF Opening
    <3> QED BY <3>1, <1>1 DEF Known
  <2>14. \A d \in Side : d # c =>
           /\ jobs'[d] = jobs[d] /\ seen'[d] = seen[d] /\ queued'[d] = queued[d]
           /\ added'[d] = added[d] /\ remote'[d] = remote[d] /\ sealing'[d] = sealing[d]
    BY <1>1, <1>4, <2>5
  <2>15. UpQuiet /\ SealFresh BY <1>1, SameIsQuiet DEF Inv, SealQuiet
  <2> QED BY <1>1, <2>6, <2>9, <2>10, <2>11, <2>12, <2>13, <2>14, <2>15, SideStep
<1> QED BY <1>6, <1>7, <1>8

\* createAnswer and setLocalDescription are done.
LEMMA AnswerReadyStep ==
  ASSUME Inv, NEW c \in Side, NEW j \in jobs[c], AnswerReady(c, j)
  PROVE  Inv'
<1>1. /\ j.at = "answering"
      /\ UNCHANGED <<world, stage, why, wired, queued, early, pcOpen, up, seen, remote, added, emitted,
                     sock, linked, chans, down, relay, replayed>>
  BY DEF AnswerReady, failing, transport
<1>2. CASE ~wired[c]
  <2>1. Return(c, j) /\ UNCHANGED <<local, sealing>> BY <1>2 DEF AnswerReady
  <2>2. remote' \in [Side -> BOOLEAN] BY <1>1 DEF Inv, Typed
  <2>3. j.at # "sealing" BY <1>1
  <2>4. \A d \in Side : (remote[d] => remote'[d]) /\ (wired[d] => remote'[d] = remote[d]) BY <1>1
  <2> QED BY <1>1, <1>2, <2>1, <2>2, <2>3, <2>4, JobReturns
<1>3. CASE wired[c]
  <2> DEFINE q == sealing[c]  f == Answer  r == Append(q, f)  at == "sealing"  k == [j EXCEPT !.at = at]
  <2>1. /\ local' = [local EXCEPT ![c] = TRUE] /\ sealing' = [sealing EXCEPT ![c] = r]
        /\ jobs' = [jobs EXCEPT ![c] = (@ \ {j}) \cup {k}]
    BY <1>3 DEF AnswerReady, Continue
  <2>2. jobs \in [Side -> SUBSET JobSet] /\ j \in JobSet BY DEF Inv, Typed
  <2>3. k \in JobSet /\ k.sig = j.sig /\ k.at = at BY <2>2 DEF JobSet, Awaits
  <2>4. at \in Awaits \ {"opening"} /\ at = "sealing" BY DEF Awaits
  <2>5. f \in SignalFrame /\ ~IsCandidate(f) BY DEF SignalFrame, Answer, Signal, Kinds, IsCandidate
  <2>6. q \in Seq(SignalFrame) /\ sealing \in [Side -> Seq(SignalFrame)] BY DEF Inv, Typed
  <2> HIDE DEF k, at, f, q
  <2>7. /\ jobs' \in [Side -> SUBSET JobSet] /\ jobs'[c] = (jobs[c] \ {j}) \cup {k}
        /\ \A d \in Side : d # c => jobs'[d] = jobs[d]
    BY <2>1, <2>2, <2>3
  <2>8. /\ r \in Seq(SignalFrame) /\ (\A n : Carries(r, n) => Carries(q, n))
        /\ (Distinct(q) => Distinct(r))
    BY <2>5, <2>6, AppendSignal
  <2>9. Jobs(c) BY DEF Inv
  <2>10. Describing(j) /\ remote[c] BY <1>1, <2>9 DEF Jobs
  <2>11. ~HasAnswer(q)
    <3>1. \A m \in jobs[c] : m.at # "sealing"
      <4> SUFFICES ASSUME NEW m \in jobs[c], m.at = "sealing" PROVE FALSE OBVIOUS
      <4>1. Describing(m) BY <2>9 DEF Jobs
      <4>2. m = j BY <4>1, <2>9, <2>10 DEF Jobs
      <4> QED BY <4>2, <1>1
    <3> QED BY <3>1, <2>9 DEF Jobs, HasAnswer, q
  <2>12. \A i \in DOMAIN r : i = Len(q) + 1 \/ (i \in DOMAIN q /\ r[i] = q[i]) BY <2>5, <2>6
  <2> HIDE DEF r
  <2>13. OneAnswer(r) BY <2>11, <2>12 DEF OneAnswer, HasAnswer
  <2>14. /\ sealing' \in [Side -> Seq(SignalFrame)] /\ sealing'[c] = r
         /\ \A d \in Side : d # c => sealing'[d] = sealing[d]
    BY <2>1, <2>6, <2>8
  <2>15. SealFresh BY <2>8, <2>14 DEF SealFresh, q
  <2>16. local' \in [Side -> BOOLEAN] BY <2>1 DEF Inv, Typed
  <2>17. Typed' BY <1>1, <2>7, <2>14, <2>16 DEF Inv, Typed
  <2>18. k \in jobs'[c] /\ k.at = "sealing" BY <2>3, <2>4, <2>7
  <2>19. Jobs(c)'
    <3>1. Describing(k) => /\ Key(k.sig) \in seen'[c] /\ k.sig.kind = Wanted(c)
                           /\ \A m \in jobs[c] \ {j} : ~Describing(m)
      BY <1>1, <2>3, <2>9, <2>10 DEF Jobs
    <3>2. k.sig.kind # "candidate" BY <2>3, <2>10 DEF Describing
    <3>3. OneAnswer(sealing'[c]) BY <2>13, <2>14
    <3>4. seen[c] \subseteq seen'[c] /\ remote'[c] BY <1>1, <2>10
    <3> QED BY <2>3, <2>4, <2>7, <2>9, <2>18, <3>1, <3>2, <3>3, <3>4, JobsContinue
  <2>20. Local(c)'
    <3>1. stage[c] # "ice" BY DEF Inv, Local
    <3> QED BY <1>1, <3>1 DEF Inv, Local
  <2>21. Queue(c)' BY <1>1 DEF Inv, Queue
  <2>22. Drained(c)' BY <1>1, <2>10, <2>18 DEF Drained
  <2>23. Known(c)' = Known(c)
    <3>1. \A n : Opening(c, n)' <=> Opening(c, n)
      <4>1. \A m \in jobs'[c] : m.at = "opening" => m \in jobs[c] BY <2>3, <2>4, <2>7
      <4>2. \A m \in jobs[c] : m.at = "opening" => m \in jobs'[c] BY <1>1, <2>7
      <4> QED BY <4>1, <4>2 DEF Opening
    <3> QED BY <3>1, <1>1 DEF Known
  <2>24. \A d \in Side : d # c =>
           /\ jobs'[d] = jobs[d] /\ seen'[d] = seen[d] /\ queued'[d] = queued[d]
           /\ added'[d] = added[d] /\ remote'[d] = remote[d] /\ sealing'[d] = sealing[d]
    BY <1>1, <2>7, <2>14
  <2>25. UpQuiet BY <1>1, SameIsQuiet DEF Inv
  <2> QED BY <1>1, <2>15, <2>17, <2>19, <2>20, <2>21, <2>22, <2>23, <2>24, <2>25, SideStep
<1> QED BY <1>2, <1>3

\* A sequence of numbers and one more, or without its first.
LEMMA RangeAppend ==
  ASSUME NEW q \in Seq(Nat), NEW n \in Nat
  PROVE  /\ Append(q, n) \in Seq(Nat) /\ Len(Append(q, n)) = Len(q) + 1
         /\ Range(Append(q, n)) = Range(q) \cup {n}
         /\ (\A i, k \in DOMAIN q : q[i] = q[k] => i = k) /\ n \notin Range(q)
              => \A i, k \in DOMAIN Append(q, n) : Append(q, n)[i] = Append(q, n)[k] => i = k
<1> DEFINE r == Append(q, n)
<1>1. r \in Seq(Nat) /\ Len(r) = Len(q) + 1 OBVIOUS
<1>2. DOMAIN r = 1..(Len(q) + 1) /\ DOMAIN q = 1..Len(q) /\ Len(q) \in Nat OBVIOUS
<1>3. (\A i \in 1..Len(q) : r[i] = q[i]) /\ r[Len(q) + 1] = n OBVIOUS
<1> HIDE DEF r
<1>4. Range(r) = Range(q) \cup {n} BY <1>2, <1>3 DEF Range
<1>5. ASSUME \A i, k \in DOMAIN q : q[i] = q[k] => i = k, n \notin Range(q)
      PROVE  \A i, k \in DOMAIN r : r[i] = r[k] => i = k
  BY <1>2, <1>3, <1>5 DEF Range
<1> QED BY <1>1, <1>4, <1>5 DEF r

\* The first element of a sequence without repetitions is not in its tail.
LEMMA RangeTail ==
  ASSUME NEW q \in Seq(Nat), q # <<>>
  PROVE  /\ Tail(q) \in Seq(Nat) /\ Head(q) \in Nat /\ Len(Tail(q)) = Len(q) - 1
         /\ Range(q) = Range(Tail(q)) \cup {Head(q)}
         /\ (\A i, k \in DOMAIN q : q[i] = q[k] => i = k)
              => /\ \A i, k \in DOMAIN Tail(q) : Tail(q)[i] = Tail(q)[k] => i = k
                 /\ Head(q) \notin Range(Tail(q))
<1> DEFINE r == Tail(q)  h == Head(q)
<1>1. r \in Seq(Nat) /\ h \in Nat /\ Len(r) = Len(q) - 1 OBVIOUS
<1>2. Len(q) \in Nat /\ Len(q) > 0 /\ DOMAIN r = 1..(Len(q) - 1) /\ DOMAIN q = 1..Len(q) OBVIOUS
<1>3. (\A i \in 1..(Len(q) - 1) : r[i] = q[i + 1]) /\ h = q[1] OBVIOUS
<1> HIDE DEF r, h
<1>4. Range(r) \cup {h} \subseteq Range(q)
  <2>1. \A i \in DOMAIN r : i + 1 \in DOMAIN q /\ r[i] = q[i + 1] BY <1>2, <1>3
  <2> QED BY <2>1, <1>2, <1>3 DEF Range
<1>5. Range(q) \subseteq Range(r) \cup {h}
  <2> SUFFICES ASSUME NEW i \in DOMAIN q PROVE q[i] \in Range(r) \cup {h} BY DEF Range
  <2>1. CASE i = 1 BY <2>1, <1>3
  <2>2. CASE i # 1
    <3>1. i - 1 \in DOMAIN r /\ r[i - 1] = q[i] BY <2>2, <1>2, <1>3
    <3> QED BY <3>1 DEF Range
  <2> QED BY <2>1, <2>2
<1>6. ASSUME \A i, k \in DOMAIN q : q[i] = q[k] => i = k
      PROVE  (\A i, k \in DOMAIN r : r[i] = r[k] => i = k) /\ h \notin Range(r)
  <2>1. \A i \in DOMAIN r : i + 1 \in DOMAIN q /\ r[i] = q[i + 1] /\ i \in Nat /\ i > 0 BY <1>2, <1>3
  <2>2. ASSUME NEW i \in DOMAIN r, NEW k \in DOMAIN r, r[i] = r[k] PROVE i = k
    <3>1. i + 1 = k + 1 BY <2>1, <2>2, <1>6
    <3> QED BY <2>1, <3>1
  <2>3. ASSUME h \in Range(r) PROVE FALSE
    <3>1. PICK i \in DOMAIN r : r[i] = h BY <2>3 DEF Range
    <3>2. 1 \in DOMAIN q BY <1>2
    <3>3. i + 1 = 1 BY <2>1, <3>1, <3>2, <1>3, <1>6
    <3> QED BY <2>1, <3>3
  <2> QED BY <2>2, <2>3
<1> QED BY <1>1, <1>4, <1>5, <1>6 DEF r, h

\* One turn of the drain loop: a candidate moves from the queue to the peer connection.
LEMMA DrainStep ==
  ASSUME Inv, NEW c \in Side, NEW j \in jobs[c], Drain(c, j)
  PROVE  Inv'
<1>1. /\ j.at = "draining"
      /\ UNCHANGED <<world, stage, why, wired, early, pcOpen, up, seen, remote, local, emitted,
                     sealing, sock, linked, chans, down, relay, replayed>>
  BY DEF Drain, transport
<1>2. CASE ~(wired[c] /\ queued[c] # <<>>)
  <2>1. Return(c, j) /\ UNCHANGED <<added, queued>> BY <1>2 DEF Drain
  <2>2. remote' \in [Side -> BOOLEAN] BY <1>1 DEF Inv, Typed
  <2>3. j.at # "sealing" BY <1>1
  <2>4. \A d \in Side : (remote[d] => remote'[d]) /\ (wired[d] => remote'[d] = remote[d]) BY <1>1
  <2> QED BY <1>1, <1>2, <2>1, <2>2, <2>3, <2>4, JobReturns
<1>3. CASE wired[c] /\ queued[c] # <<>>
  <2> DEFINE q == queued[c]  a == added[c]  h == Head(q)  t == Tail(q)  b == Append(a, h)
  <2>1. /\ added' = [added EXCEPT ![c] = b] /\ queued' = [queued EXCEPT ![c] = t] /\ UNCHANGED jobs
    BY <1>3 DEF Drain
  <2>2. /\ q \in Seq(Nat) /\ a \in Seq(Nat) /\ q # <<>>
        /\ added \in [Side -> Seq(Nat)] /\ queued \in [Side -> Seq(Nat)]
    BY <1>3 DEF Inv, Typed
  <2>3. Queue(c) /\ Local(c) /\ Jobs(c) BY DEF Inv
  <2> HIDE DEF q, a
  <2>4. /\ t \in Seq(Nat) /\ h \in Nat /\ Len(t) = Len(q) - 1 /\ Range(q) = Range(t) \cup {h}
        /\ (\A i, k \in DOMAIN q : q[i] = q[k] => i = k)
             => (\A i, k \in DOMAIN t : t[i] = t[k] => i = k) /\ h \notin Range(t)
    BY <2>2, RangeTail
  <2> HIDE DEF t, h
  <2>5. b \in Seq(Nat) /\ Len(b) = Len(a) + 1 /\ Range(b) = Range(a) \cup {h}
    BY <2>2, <2>4, RangeAppend
  <2> HIDE DEF b
  <2>6. /\ added' \in [Side -> Seq(Nat)] /\ added'[c] = b
        /\ queued' \in [Side -> Seq(Nat)] /\ queued'[c] = t
        /\ \A d \in Side : d # c => added'[d] = added[d] /\ queued'[d] = queued[d]
    BY <2>1, <2>2, <2>4, <2>5
  <2>7. Typed' BY <1>1, <2>1, <2>6 DEF Inv, Typed
  <2>8. Local(c)'
    <3>1. Len(q) \in Nat /\ Len(q) <= MaxQueued BY <2>2, <2>3 DEF Local, q
    <3>2. Len(t) <= MaxQueued BY <3>1, <2>4, WiringAssumption
    <3>3. stage[c] # "ice" BY <1>3, <2>3 DEF Local
    <3> QED BY <1>1, <2>1, <2>3, <2>6, <3>2, <3>3 DEF Local
  <2>9. Jobs(c)' BY <1>1, <2>1, <2>3, JobsKept
  <2>10. Queue(c)'
    <3>1. h \in Range(q) BY <2>4
    <3>2. h \notin Range(a) BY <3>1, <2>3 DEF Queue, Range, q, a
    <3>3. /\ \A i, k \in DOMAIN t : t[i] = t[k] => i = k
          /\ h \notin Range(t)
      BY <2>3, <2>4 DEF Queue, q
    <3>4. \A n \in Range(t) : n \notin Range(b)
      <4>1. \A n \in Range(q) : n \notin Range(a) BY <2>3 DEF Queue, Range, q, a
      <4> QED BY <4>1, <3>3, <2>4, <2>5
    <3>5. \A i \in DOMAIN t : t[i] \notin Range(b) BY <3>4 DEF Range
    <3>6. IsFiniteSet(Range(b)) /\ Cardinality(Range(b)) = Len(b)
      <4>1. IsFiniteSet(Range(a)) /\ Cardinality(Range(a)) = Len(a) BY <2>3 DEF Queue, a
      <4>2. IsFiniteSet(Range(a) \cup {h}) /\ Cardinality(Range(a) \cup {h}) = Cardinality(Range(a)) + 1
        BY <4>1, <3>2, FS_AddElement
      <4> QED BY <4>1, <4>2, <2>5
    <3>7. Range(t) \cup Range(b) = Range(q) \cup Range(a) BY <2>4, <2>5
    <3>8. \A n \in Range(t) \cup Range(b) : <<"candidate", n>> \in seen'[c]
      BY <3>7, <1>1, <2>3 DEF Queue, q, a
    <3>9. \A n \in Nat : <<"candidate", n>> \in seen'[c] => n \in Range(t) \cup Range(b)
      BY <3>7, <1>1, <1>3, <2>3 DEF Queue, q, a
    <3> QED BY <2>6, <3>3, <3>5, <3>6, <3>8, <3>9 DEF Queue
  <2>11. Drained(c)'
    <3>1. remote[c] BY <1>1, <2>3 DEF Jobs
    <3> QED BY <3>1, <1>1, <2>1 DEF Drained
  <2>12. Known(c)' = Known(c) BY <1>1, <2>1, KnownSame
  <2>13. \A d \in Side : d # c =>
           /\ jobs'[d] = jobs[d] /\ seen'[d] = seen[d] /\ queued'[d] = queued[d]
           /\ added'[d] = added[d] /\ remote'[d] = remote[d] /\ sealing'[d] = sealing[d]
    BY <1>1, <2>1, <2>6
  <2>14. UpQuiet /\ SealFresh BY <1>1, SameIsQuiet DEF Inv, SealQuiet
  <2> QED BY <1>1, <2>7, <2>8, <2>9, <2>10, <2>11, <2>12, <2>13, <2>14, SideStep
<1> QED BY <1>2, <1>3

\* openSignal is done: the signal is queued, applied, or ends the wiring.
LEMMA SignalOpenedStep ==
  ASSUME Inv, NEW c \in Side, NEW j \in jobs[c], SignalOpened(c, j)
  PROVE  Inv'
<1> DEFINE s == j.sig  full == s.kind = "candidate" /\ ~remote[c] /\ Len(queued[c]) >= MaxQueued
           n == s.n
<1>1. /\ j.at = "opening"
      /\ UNCHANGED <<world, remote, local, emitted, sealing, sock, linked, chans, down, relay, replayed>>
  BY DEF SignalOpened, transport
<1>2. j.at # "sealing" BY <1>1
<1>3. remote' \in [Side -> BOOLEAN]
      /\ \A d \in Side : (remote[d] => remote'[d]) /\ (wired[d] => remote'[d] = remote[d])
  BY <1>1 DEF Inv, Typed
<1>4. CASE ~wired[c]
  <2>1. Return(c, j) /\ UNCHANGED <<stage, why, wired, queued, early, pcOpen, up, seen, added>>
    BY <1>4 DEF SignalOpened, failing
  <2> QED BY <1>1, <1>2, <1>3, <1>4, <2>1, JobReturns
<1>5. CASE wired[c] /\ (~Accepts(c, s) \/ full)
  <2>1. Return(c, j) /\ Fail(c) /\ UNCHANGED <<seen, added>> BY <1>5 DEF SignalOpened
  <2> QED BY <1>1, <1>2, <2>1, JobFails
<1>6. CASE wired[c] /\ Accepts(c, s) /\ ~full
  <2>1. /\ seen' = [seen EXCEPT ![c] = @ \cup {Key(s)}]
        /\ UNCHANGED <<stage, why, wired, early, pcOpen, up>>
    BY <1>6 DEF SignalOpened
  <2>2. /\ jobs \in [Side -> SUBSET JobSet] /\ j \in JobSet /\ seen \in [Side -> SUBSET (Kinds \X Nat)]
        /\ queued \in [Side -> Seq(Nat)] /\ added \in [Side -> Seq(Nat)]
    BY DEF Inv, Typed
  <2>3. s \in SignalFrame /\ s.kind \in Kinds /\ n \in Nat BY <2>2 DEF JobSet, SignalFrame
  <2>4. s.kind # "candidate" => n = 0 BY <2>3 DEF SignalFrame
  <2>5. Key(s) = <<s.kind, n>> /\ Key(s) \in Kinds \X Nat BY <2>3 DEF Key
  <2>6. <<s.kind, n>> \notin seen[c] BY <1>6, <2>5 DEF Accepts
  <2>7. Local(c) /\ Jobs(c) /\ Queue(c) /\ Drained(c) BY DEF Inv
  <2>8. s = j.sig OBVIOUS
  <2>9. IsCandidate(s) <=> s.kind = "candidate" BY <2>3 DEF SignalFrame, IsCandidate
  <2>10. s.kind = "candidate" /\ ~remote[c] => Len(queued[c]) < MaxQueued
    <3>1. Len(queued[c]) \in Nat BY <2>2
    <3> QED BY <3>1, <1>6, WiringAssumption
  <2>11. CASE s.kind = "candidate" /\ ~remote[c]
    <3> DEFINE q == queued[c]  r == Append(q, n)
    <3>1. queued' = [queued EXCEPT ![c] = r] /\ Return(c, j) /\ UNCHANGED added
      BY <1>6, <2>11 DEF SignalOpened
    <3> HIDE DEF s, n, full
    <3>2. q \in Seq(Nat) BY <2>2
    <3>3. n \notin Range(q) /\ n \notin Range(added[c]) BY <2>6, <2>7, <2>11 DEF Queue
    <3> HIDE DEF q
    <3>4. /\ r \in Seq(Nat) /\ Len(r) = Len(q) + 1 /\ Range(r) = Range(q) \cup {n}
          /\ (\A i, k \in DOMAIN q : q[i] = q[k] => i = k) /\ n \notin Range(q)
               => \A i, k \in DOMAIN r : r[i] = r[k] => i = k
      BY <2>3, <3>2, RangeAppend
    <3> HIDE DEF r
    <3>5. /\ queued' \in [Side -> Seq(Nat)] /\ queued'[c] = r
          /\ \A d \in Side : d # c => queued'[d] = queued[d]
      BY <2>2, <3>1, <3>4
    <3>6. /\ jobs' \in [Side -> SUBSET JobSet] /\ jobs'[c] = jobs[c] \ {j}
          /\ \A d \in Side : d # c => jobs'[d] = jobs[d]
      BY <2>2, <3>1 DEF Return
    <3>7. /\ seen' \in [Side -> SUBSET (Kinds \X Nat)] /\ seen'[c] = seen[c] \cup {<<"candidate", n>>}
          /\ \A d \in Side : d # c => seen'[d] = seen[d]
      BY <2>1, <2>2, <2>5, <2>11
    <3>8. Typed' BY <1>1, <2>1, <3>1, <3>5, <3>6, <3>7 DEF Inv, Typed
    <3>9. Local(c)'
      <4>1. Len(q) \in Nat /\ Len(q) < MaxQueued BY <2>10, <2>11, <3>2 DEF q
      <4>2. Len(r) <= MaxQueued BY <4>1, <3>4, WiringAssumption
      <4>3. stage[c] # "ice" BY <1>6, <2>7 DEF Local
      <4> QED BY <1>1, <2>1, <2>7, <3>5, <4>2, <4>3 DEF Local
    <3>10. Jobs(c)'
      <4>1. jobs'[c] \subseteq jobs[c] /\ seen[c] \subseteq seen'[c] BY <3>6, <3>7
      <4>2. (\E m \in jobs[c] : m.at = "sealing") => \E m \in jobs'[c] : m.at = "sealing"
        BY <1>2, <3>6
      <4> QED BY <1>1, <2>7, <4>1, <4>2 DEF Jobs
    <3>11. Queue(c)'
      <4>1. \A i, k \in DOMAIN r : r[i] = r[k] => i = k BY <2>7, <3>3, <3>4 DEF Queue, q
      <4>2. \A m \in Range(r) : m \notin Range(added[c])
        <5>1. \A m \in Range(q) : m \notin Range(added[c]) BY <2>7 DEF Queue, Range, q
        <5> QED BY <5>1, <3>3, <3>4
      <4>3. \A i \in DOMAIN r : r[i] \notin Range(added[c]) BY <4>2 DEF Range
      <4>4. \A m \in Range(r) \cup Range(added[c]) : <<"candidate", m>> \in seen'[c]
        BY <2>7, <3>4, <3>7 DEF Queue, q
      <4>5. \A m \in Nat : <<"candidate", m>> \in seen'[c] => m \in Range(r) \cup Range(added[c])
        BY <1>6, <2>7, <3>4, <3>7 DEF Queue, q
      <4>6. IsFiniteSet(Range(added[c])) /\ Cardinality(Range(added[c])) = Len(added[c])
        BY <2>7 DEF Queue
      <4>7. added'[c] = added[c] BY <3>1
      <4> QED BY <3>5, <4>1, <4>3, <4>4, <4>5, <4>6, <4>7 DEF Queue
    <3>12. Drained(c)' BY <1>1, <2>7, <2>11, <3>1 DEF Drained
    <3>13. Known(c)' = Known(c)
      <4>1. \A m : Opening(c, m) => Opening(c, m)' \/ m = n BY <2>8, <3>6 DEF Opening, n
      <4>2. \A m : Opening(c, m)' => Opening(c, m) BY <3>6 DEF Opening
      <4>3. Opening(c, n) BY <1>1, <2>8, <2>9, <2>11 DEF Opening, n
      <4>4. \A m : <<"candidate", m>> \in seen'[c] <=> (<<"candidate", m>> \in seen[c] \/ m = n)
        BY <3>7
      <4> QED BY <1>1, <2>1, <2>3, <4>1, <4>2, <4>3, <4>4 DEF Known
    <3>14. \A d \in Side : d # c =>
             /\ jobs'[d] = jobs[d] /\ seen'[d] = seen[d] /\ queued'[d] = queued[d]
             /\ added'[d] = added[d] /\ remote'[d] = remote[d] /\ sealing'[d] = sealing[d]
      BY <1>1, <3>1, <3>5, <3>6, <3>7
    <3>15. UpQuiet /\ SealFresh BY <1>1, <2>1, SameIsQuiet DEF Inv, SealQuiet
    <3> QED BY <1>1, <2>1, <3>8, <3>9, <3>10, <3>11, <3>12, <3>13, <3>14, <3>15, SideStep
  <2>12. CASE ~(s.kind = "candidate" /\ ~remote[c])
    <3> DEFINE a == added[c]  b == IF s.kind = "candidate" THEN Append(a, n) ELSE a
               at == "applying"  k == [j EXCEPT !.at = at]
    <3>1. /\ added' = [added EXCEPT ![c] = b] /\ jobs' = [jobs EXCEPT ![c] = (@ \ {j}) \cup {k}]
          /\ UNCHANGED queued
      <4>1. /\ added' = IF s.kind = "candidate" THEN [added EXCEPT ![c] = Append(@, s.n)] ELSE added
            /\ Continue(c, j, at) /\ UNCHANGED queued
        BY <1>6, <2>12 DEF SignalOpened
      <4> QED BY <2>2, <4>1 DEF Continue
    <3>2. k \in JobSet /\ k.sig = s /\ k.at = at /\ at = "applying" /\ at \in Awaits \ {"opening"}
      BY <2>2 DEF JobSet, Awaits
    <3> HIDE DEF s, n, full, at, k
    <3>3. a \in Seq(Nat) BY <2>2
    <3>4. s.kind = "candidate" => n \notin Range(a) /\ n \notin Range(queued[c])
      BY <2>6, <2>7 DEF Queue
    <3> HIDE DEF a
    <3>5. /\ b \in Seq(Nat)
          /\ s.kind = "candidate" => Len(b) = Len(a) + 1 /\ Range(b) = Range(a) \cup {n}
          /\ s.kind # "candidate" => b = a
      BY <2>3, <3>3, RangeAppend
    <3> HIDE DEF b
    <3>6. /\ added' \in [Side -> Seq(Nat)] /\ added'[c] = b
          /\ \A d \in Side : d # c => added'[d] = added[d]
      BY <2>2, <3>1, <3>5
    <3>7. /\ jobs' \in [Side -> SUBSET JobSet] /\ jobs'[c] = (jobs[c] \ {j}) \cup {k}
          /\ \A d \in Side : d # c => jobs'[d] = jobs[d]
      BY <2>2, <3>1, <3>2
    <3>8. /\ seen' \in [Side -> SUBSET (Kinds \X Nat)] /\ seen'[c] = seen[c] \cup {<<s.kind, n>>}
          /\ \A d \in Side : d # c => seen'[d] = seen[d]
      BY <2>1, <2>2, <2>5
    <3>9. Typed' BY <1>1, <2>1, <3>1, <3>6, <3>7, <3>8 DEF Inv, Typed
    <3>10. Local(c)'
      <4>1. stage[c] # "ice" BY <1>6, <2>7 DEF Local
      <4> QED BY <1>1, <2>1, <2>7, <3>1, <4>1 DEF Local
    <3>11. Jobs(c)'
      <4>1. Describing(k) => /\ Key(k.sig) \in seen'[c] /\ k.sig.kind = Wanted(c)
                             /\ \A m \in jobs[c] \ {j} : ~Describing(m)
        <5> SUFFICES ASSUME s.kind # "candidate"
                     PROVE  /\ Key(s) \in seen'[c] /\ s.kind = Wanted(c)
                            /\ \A m \in jobs[c] : ~Describing(m)
          BY <3>2 DEF Describing
        <5>1. s.kind = Wanted(c) /\ n = 0
          BY <1>6, <2>3, <2>4 DEF Accepts, Wanted, Kinds, Side
        <5>2. ASSUME NEW m \in jobs[c], Describing(m) PROVE FALSE
          <6>1. Key(m.sig) \in seen[c] /\ m.sig.kind = Wanted(c) BY <2>7, <5>2 DEF Jobs
          <6>2. m \in JobSet BY <2>2
          <6>3. m.sig.n = 0 BY <5>2, <6>2 DEF JobSet, SignalFrame, Describing
          <6> QED BY <2>6, <5>1, <6>1, <6>3 DEF Key
        <5> QED BY <2>5, <3>8, <5>1, <5>2
      <4>2. seen[c] \subseteq seen'[c] /\ (remote[c] => remote'[c]) BY <1>1, <3>8
      <4>3. k.sig.kind = "candidate" => remote'[c] BY <1>1, <2>12, <3>2
      <4>4. OneAnswer(sealing'[c]) BY <1>1, <2>7 DEF Jobs, OneAnswer
      <4>5. HasAnswer(sealing'[c]) => \E m \in jobs'[c] : m.at = "sealing"
        BY <1>1, <1>2, <2>7, <3>7 DEF Jobs, HasAnswer
      <4>6. k.sig = j.sig BY <2>8, <3>2
      <4>7. at \notin {"answering", "sealing", "draining"} BY <3>2
      <4> QED BY <2>7, <3>2, <3>7, <4>1, <4>2, <4>3, <4>4, <4>5, <4>6, <4>7, JobsContinue
    <3>12. Queue(c)'
      <4>1. \A i, m \in DOMAIN queued[c] : queued[c][i] = queued[c][m] => i = m BY <2>7 DEF Queue
      <4>2. \A i \in DOMAIN queued[c] : queued[c][i] \notin Range(b)
        BY <2>7, <3>4, <3>5 DEF Queue, Range, a
      <4>3. IsFiniteSet(Range(b)) /\ Cardinality(Range(b)) = Len(b)
        <5>1. IsFiniteSet(Range(a)) /\ Cardinality(Range(a)) = Len(a) BY <2>7 DEF Queue, a
        <5>2. n \notin Range(a) => /\ IsFiniteSet(Range(a) \cup {n})
                                   /\ Cardinality(Range(a) \cup {n}) = Cardinality(Range(a)) + 1
          BY <5>1, FS_AddElement
        <5> QED BY <5>1, <5>2, <3>4, <3>5
      <4>4. \A m \in Range(queued[c]) \cup Range(b) : <<"candidate", m>> \in seen'[c]
        BY <2>7, <3>5, <3>8 DEF Queue, a
      <4>5. \A m \in Nat : <<"candidate", m>> \in seen'[c] => m \in Range(queued[c]) \cup Range(b)
        BY <1>6, <2>7, <3>5, <3>8 DEF Queue, a
      <4>6. queued'[c] = queued[c] BY <3>1
      <4> QED BY <3>6, <4>1, <4>2, <4>3, <4>4, <4>5, <4>6 DEF Queue
    <3>13. Drained(c)'
      <4>1. added'[c] # <<>> => remote'[c] BY <1>1, <2>7, <2>12, <3>5, <3>6 DEF Drained, a
      <4>2. ASSUME wired'[c], remote'[c], queued'[c] # <<>>
            PROVE  \E m \in jobs'[c] : m.at \in {"answering", "sealing", "draining"}
        <5>1. wired[c] /\ remote[c] /\ queued[c] # <<>> BY <1>1, <2>1, <3>1, <4>2
        <5>2. PICK m \in jobs[c] : m.at \in {"answering", "sealing", "draining"}
          BY <2>7, <5>1 DEF Drained
        <5>3. m \in jobs'[c] BY <1>1, <3>7, <5>2
        <5> QED BY <5>2, <5>3
      <4> QED BY <4>1, <4>2 DEF Drained
    <3>14. Known(c)' = Known(c)
      <4>1. \A m : Opening(c, m) => Opening(c, m)' \/ (s.kind = "candidate" /\ m = n)
        BY <2>8, <2>9, <3>7 DEF Opening, n
      <4>2. \A m : Opening(c, m)' => Opening(c, m)
        <5>1. \A m \in jobs'[c] : m.at = "opening" => m \in jobs[c] BY <3>2, <3>7
        <5> QED BY <5>1 DEF Opening
      <4>3. s.kind = "candidate" => Opening(c, n) BY <1>1, <2>8, <2>9 DEF Opening, n
      <4>4. \A m : <<"candidate", m>> \in seen'[c]
                     <=> (<<"candidate", m>> \in seen[c] \/ (s.kind = "candidate" /\ m = n))
        BY <3>8
      <4> QED BY <1>1, <2>1, <2>3, <4>1, <4>2, <4>3, <4>4 DEF Known
    <3>15. \A d \in Side : d # c =>
             /\ jobs'[d] = jobs[d] /\ seen'[d] = seen[d] /\ queued'[d] = queued[d]
             /\ added'[d] = added[d] /\ remote'[d] = remote[d] /\ sealing'[d] = sealing[d]
      BY <1>1, <3>1, <3>6, <3>7, <3>8
    <3>16. UpQuiet /\ SealFresh BY <1>1, <2>1, SameIsQuiet DEF Inv, SealQuiet
    <3> QED BY <1>1, <2>1, <3>9, <3>10, <3>11, <3>12, <3>13, <3>14, <3>15, <3>16, SideStep
  <2> QED BY <2>11, <2>12
<1> QED BY <1>4, <1>5, <1>6

-----------------------------------------------------------------------------
(* The theorems *)

\* The initial states satisfy the invariant.
LEMMA InitInv == Init => Inv
<1> SUFFICES ASSUME Init PROVE Inv OBVIOUS
<1>1. Typed
  <2>1. world \in World BY WiringAssumption DEF Init
  <2>2. /\ stage \in [Side -> Stages]
        /\ why \in [Side -> {"none", "failed", "crashed", "cancelled", "complete"}]
        /\ sock \in [Side -> {"open", "closing", "closed"}] /\ chans \subseteq Label
    BY DEF Init, Stages
  <2>3. /\ wired \in [Side -> BOOLEAN] /\ remote \in [Side -> BOOLEAN]
        /\ local \in [Side -> BOOLEAN] /\ pcOpen \in [Side -> BOOLEAN]
        /\ linked \in BOOLEAN /\ replayed \in BOOLEAN
    BY DEF Init
  <2>4. /\ emitted \in [Side -> Nat] /\ jobs \in [Side -> SUBSET JobSet]
        /\ seen \in [Side -> SUBSET (Kinds \X Nat)]
    BY DEF Init
  <2>5. queued \in [Side -> Seq(Nat)] /\ added \in [Side -> Seq(Nat)] BY DEF Init
  <2>6. early \in [Side -> Seq(SignalFrame)] /\ sealing \in [Side -> Seq(SignalFrame)] BY DEF Init
  <2>7. up \in [Side -> Seq(AnyFrame)] /\ down \in [Side -> Seq(AnyFrame)] BY DEF Init
  <2>8. relay \in [live : BOOLEAN, offer : BOOLEAN, answer : BOOLEAN, count : [Side -> Nat]]
    BY DEF Init
  <2> QED BY <2>1, <2>2, <2>3, <2>4, <2>5, <2>6, <2>7, <2>8 DEF Typed
<1>2. ASSUME NEW c \in Side PROVE Known(c) = {} /\ Other(c) \in Side
  BY OtherSide DEF Init, Known, Opening, Carries
<1>3. ASSUME NEW c \in Side
      PROVE  Local(c) /\ Jobs(c) /\ Queue(c) /\ Drained(c) /\ Fresh(c) /\ Counted(c)
  <2>1. /\ stage[c] = "ice" /\ ~wired[c] /\ early[c] = <<>> /\ queued[c] = <<>> /\ jobs[c] = {}
        /\ seen[c] = {} /\ added[c] = <<>> /\ emitted[c] = 0 /\ sealing[c] = <<>> /\ up[c] = <<>>
    BY DEF Init
  <2>2. Local(c)
    <3>1. world.cands[c] \in Nat BY <1>1 DEF Typed, World
    <3> QED BY <2>1, <3>1, WiringAssumption DEF Local
  <2>3. Jobs(c) BY <2>1 DEF Jobs
  <2>4. Queue(c)
    <3>1. Range(added[c]) = {} /\ Range(queued[c]) = {} BY <2>1 DEF Range
    <3>2. IsFiniteSet(Range(added[c])) /\ Cardinality(Range(added[c])) = 0
      BY <3>1, FS_EmptySet
    <3>3. Len(added[c]) = 0 BY <2>1
    <3>4. \A i, k \in DOMAIN queued[c] : queued[c][i] = queued[c][k] => i = k BY <2>1
    <3>5. \A i \in DOMAIN queued[c] : queued[c][i] \notin Range(added[c]) BY <2>1
    <3> QED BY <2>1, <3>1, <3>2, <3>3, <3>4, <3>5 DEF Queue
  <2>5. Drained(c) BY <2>1 DEF Drained
  <2>6. Fresh(c) BY <1>2, <2>1 DEF Fresh, Distinct, Carries
  <2>7. Counted(c)
    <3>1. relay.count[Other(c)] = 0 BY <1>2 DEF Init
    <3> QED BY <1>2, <3>1, FS_EmptySet DEF Counted
  <2> QED BY <2>2, <2>3, <2>4, <2>5, <2>6, <2>7
<1> QED BY <1>1, <1>3 DEF Inv

\* Every step keeps it.
LEMMA NextInv == Inv /\ [Next]_vars => Inv'
<1> SUFFICES ASSUME Inv, [Next]_vars PROVE Inv' OBVIOUS
<1>1. CASE UNCHANGED vars
  <2>1. /\ UNCHANGED <<world, wired, queued, early, seen, added, emitted, jobs, remote>>
        /\ UNCHANGED <<stage, sock, up, down, relay, sealing, why, local, pcOpen, linked, chans, replayed>>
    BY <1>1 DEF vars
  <2>2. Typed' BY <2>1 DEF Inv, Typed
  <2>3. UpQuiet /\ SealQuiet /\ StageQuiet /\ SockQuiet BY <2>1, SameIsQuiet, SameEndsQuiet DEF Inv
  <2>4. \A d \in Side : DownQuiet(d) BY <2>1, SameDownQuiet
  <2> QED BY <2>1, <2>2, <2>3, <2>4, CalmOnly
<1>2. CASE OfferReady BY <1>2, OfferReadyStep
<1>3. CASE Link BY <1>3, LinkStep
<1>4. CASE SenderConnected BY <1>4, SenderConnectedStep
<1>5. CASE \E l \in Label : ChannelArrives(l) BY <1>5, ChannelArrivesStep
<1>6. ASSUME NEW c \in Side, Wire(c) \/ Gather(c) \/ Sealed(c) PROVE Inv'
  BY <1>6, WireStep, GatherStep, SealedStep
<1>7. ASSUME NEW c \in Side, Job(c) PROVE Inv'
  <2>1. PICK j \in jobs[c] : \/ SignalOpened(c, j) \/ SignalRejected(c, j) \/ SignalApplied(c, j)
                             \/ SignalRefused(c, j) \/ AnswerReady(c, j) \/ Drain(c, j)
    BY <1>7 DEF Job
  <2> QED BY <2>1, SignalOpenedStep, RejectedStep, SignalAppliedStep, AnswerReadyStep, DrainStep
<1>8. ASSUME NEW c \in Side, Receive(c) PROVE Inv'
  BY <1>8, ReceiveSignalStep, ReceiveErrorStep, ReceiveCloseStep DEF Receive
<1>9. ASSUME NEW c \in Side, RelaySignal(c) \/ PeerLeaves(c) PROVE Inv' BY <1>9, ServerStep
<1>10. ASSUME NEW c \in Side, ConnectionLost(c) \/ Complete(c) PROVE Inv' BY <1>10, EndingStep
<1>11. ASSUME NEW c \in Side, Faulty(c) PROVE Inv'
  BY <1>11, SealFailsStep, EndingStep, ServerStep DEF Faulty
<1>12. CASE ServerDrops BY <1>12, EndSessionStep DEF ServerDrops
<1>13. CASE AlienChannel
  <2>1. PICK c \in Side : TRUE BY DEF Side
  <2> QED BY <1>13, <2>1, EndingStep
<1>14. CASE Progress
  BY <1>14, <1>2, <1>3, <1>4, <1>5, <1>6, <1>7, <1>8, <1>9, <1>10 DEF Progress
<1> QED BY <1>1, <1>11, <1>12, <1>13, <1>14 DEF Next

\* The invariant holds in every reachable state.
LEMMA InvAlways == Spec => []Inv
<1>1. Init => Inv BY InitInv
<1>2. Inv /\ [Next]_vars => Inv' BY NextInv
<1> QED BY <1>1, <1>2, PTL DEF Spec

\* A sequence of candidates that a side knows has numbers of its peer's candidates.
LEMMA KnownNumbers ==
  ASSUME Inv, NEW c \in Side, NEW q \in Seq(Nat), \A n \in Range(q) : <<"candidate", n>> \in seen[c]
  PROVE  q \in Seq(1..world.cands[Other(c)])
<1> DEFINE d == Other(c)
<1>1. d \in Side /\ Other(d) = c BY OtherSide
<1>2. emitted[d] \in Nat /\ world.cands[d] \in Nat /\ emitted[d] <= world.cands[d]
  BY <1>1 DEF Inv, Typed, World, Local
<1>3. Known(c) \subseteq 1..emitted[d]
  <2> HIDE DEF d
  <2> QED BY <1>1 DEF Inv, Fresh
<1> HIDE DEF d
<1>4. \A i \in 1..Len(q) : q[i] \in Nat /\ q[i] \in Range(q) BY DEF Range
<1>5. \A i \in 1..Len(q) : q[i] \in Known(c) BY <1>4 DEF Known
<1>6. \A i \in 1..Len(q) : q[i] \in 1..world.cands[d] BY <1>2, <1>3, <1>5
<1>7. q \in Seq(1..world.cands[d])
  <2> DEFINE S == 1..world.cands[d]
  <2>1. \A i \in 1..Len(q) : q[i] \in S BY <1>6
  <2> SUFFICES q \in Seq(S) OBVIOUS
  <2> HIDE DEF S
  <2>2. Len(q) \in Nat /\ q \in [1..Len(q) -> Nat] BY LenProperties
  <2>3. q \in [1..Len(q) -> S] BY <2>1, <2>2
  <2>4. q \in UNION {[1..n -> S] : n \in Nat} BY <2>2, <2>3
  <2>5. Seq(S) = UNION {[1..n -> S] : n \in Nat} BY SeqDef, Zenon
  <2> QED BY <2>4, <2>5, Zenon
<1> QED BY <1>7 DEF d

\* Sequences of the proof's frames are sequences of the model's.
LEMMA FramesAreFrames ==
  /\ \A q \in Seq(SignalFrame) : q \in Seq(Frame)
  /\ \A q \in Seq(AnyFrame) : q \in Seq(Frame)
<1>1. SignalFrame \subseteq Frame /\ AnyFrame \subseteq Frame
  BY DEF SignalFrame, AnyFrame, PlainFrame, Frame, Kinds
<1> QED BY <1>1

\* The invariant implies the type invariant.
LEMMA InvTypes == Inv => TypeOK
<1> SUFFICES ASSUME Inv PROVE TypeOK OBVIOUS
<1>1. Typed BY DEF Inv
<1>2. /\ world \in World
      /\ stage \in [Side -> {"ice", "offering", "linking", "moving", "hung"} \cup Ended]
      /\ why \in [Side -> {"none", "failed", "crashed", "cancelled", "complete"}]
      /\ wired \in [Side -> BOOLEAN] /\ remote \in [Side -> BOOLEAN] /\ local \in [Side -> BOOLEAN]
      /\ pcOpen \in [Side -> BOOLEAN] /\ linked \in BOOLEAN /\ replayed \in BOOLEAN
      /\ sock \in [Side -> {"open", "closing", "closed"}] /\ chans \subseteq Label
  <2>1. Stages = {"ice", "offering", "linking", "moving", "hung"} \cup Ended BY DEF Stages, Ended
  <2> QED BY <1>1, <2>1 DEF Typed
<1>3. ASSUME NEW c \in Side
      PROVE  /\ emitted[c] \in 0..world.cands[c]
             /\ queued[c] \in Seq(1..world.cands[Other(c)]) /\ Len(queued[c]) <= MaxQueued
             /\ added[c] \in Seq(1..world.cands[Other(c)])
             /\ early[c] \in Seq(Frame) /\ Len(early[c]) <= MaxEarly
             /\ sealing[c] \in Seq(Frame) /\ up[c] \in Seq(Frame) /\ down[c] \in Seq(Frame)
             /\ \A j \in jobs[c] : j.at \in {"opening", "applying", "answering", "sealing", "draining"}
  <2>1. emitted[c] \in 0..world.cands[c] BY <1>1 DEF Typed, World, Inv, Local
  <2>2. queued[c] \in Seq(1..world.cands[Other(c)]) /\ added[c] \in Seq(1..world.cands[Other(c)])
    <3>1. queued[c] \in Seq(Nat) /\ added[c] \in Seq(Nat) BY <1>1 DEF Typed
    <3>2. \A n \in Range(queued[c]) \cup Range(added[c]) : <<"candidate", n>> \in seen[c]
      BY DEF Inv, Queue
    <3>3. \A n \in Range(queued[c]) : <<"candidate", n>> \in seen[c] BY <3>2
    <3>4. \A n \in Range(added[c]) : <<"candidate", n>> \in seen[c] BY <3>2
    <3>5. queued[c] \in Seq(1..world.cands[Other(c)]) BY <3>1, <3>3, KnownNumbers
    <3>6. added[c] \in Seq(1..world.cands[Other(c)]) BY <3>1, <3>4, KnownNumbers
    <3> QED BY <3>5, <3>6
  <2>3. Len(queued[c]) <= MaxQueued /\ Len(early[c]) <= MaxEarly BY DEF Inv, Local
  <2>4. early[c] \in Seq(Frame) /\ sealing[c] \in Seq(Frame) /\ up[c] \in Seq(Frame)
        /\ down[c] \in Seq(Frame)
    BY <1>1, FramesAreFrames DEF Typed
  <2>5. \A j \in jobs[c] : j.at \in {"opening", "applying", "answering", "sealing", "draining"}
    BY <1>1 DEF Typed, JobSet, Awaits
  <2> QED BY <2>1, <2>2, <2>3, <2>4, <2>5
<1> QED BY <1>2, <1>3 DEF TypeOK

\* The variables keep their types and the queues their limits, in every world: in
\* particular the peer connection is only ever handed candidates the other side gathered.
THEOREM WiringTypes == Spec => []TypeOK
<1>1. Inv => TypeOK BY InvTypes
<1> QED BY <1>1, InvAlways, PTL

\* The invariant implies that candidates are delivered.
LEMMA InvDelivers == Inv => CandidatesDelivered
<1> SUFFICES ASSUME Inv, NEW c \in Side
             PROVE  /\ Cardinality(Range(added[c])) = Len(added[c])
                    /\ added[c] # <<>> => remote[c]
                    /\ wired[c] /\ remote[c] /\ Idle(c) => Len(added[c]) = relay.count[Other(c)]
  BY DEF CandidatesDelivered
<1>1. Queue(c) /\ Drained(c) /\ Counted(c) BY DEF Inv
<1>2. Cardinality(Range(added[c])) = Len(added[c]) BY <1>1 DEF Queue
<1>3. added[c] # <<>> => remote[c] BY <1>1 DEF Drained
<1>4. ASSUME wired[c], remote[c], Idle(c) PROVE Len(added[c]) = relay.count[Other(c)]
  <2>1. jobs[c] = {} /\ early[c] = <<>> /\ \A i \in DOMAIN down[c] : down[c][i].type # "signal"
    BY <1>4 DEF Idle
  <2>2. queued[c] = <<>> BY <1>1, <1>4, <2>1 DEF Drained
  <2>3. Range(queued[c]) = {} BY <2>2 DEF Range
  <2>4. \A n : ~Carries(down[c], n) /\ ~Carries(early[c], n) /\ ~Opening(c, n)
    BY <2>1 DEF Carries, IsCandidate, Opening
  <2>5. \A n \in Range(added[c]) : n \in Nat /\ <<"candidate", n>> \in seen[c]
    <3>1. added[c] \in Seq(Nat) BY DEF Inv, Typed
    <3>2. Range(added[c]) \subseteq Nat BY <3>1 DEF Range
    <3> QED BY <1>1, <3>2 DEF Queue
  <2>6. Known(c) = Range(added[c]) BY <1>1, <1>4, <2>3, <2>4, <2>5 DEF Known, Queue
  <2>7. relay.count[Other(c)] = Cardinality(Known(c)) BY <1>1, <1>4 DEF Counted, Lossless
  <2> QED BY <1>2, <2>6, <2>7
<1> QED BY <1>2, <1>3, <1>4

\* wireSignals hands every relayed candidate to the peer connection exactly once and only
\* after the remote description, however frames, crypto and the peer connection
\* interleave, and however many candidates there are.
THEOREM CandidatesAlwaysDelivered == Spec => []CandidatesDelivered
<1>1. Inv => CandidatesDelivered BY InvDelivers
<1> QED BY <1>1, InvAlways, PTL
=============================================================================
