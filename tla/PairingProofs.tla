---------------------------- MODULE PairingProofs ----------------------------
(***************************************************************************)
(* The key exchange and the acceptance are safe for every number of        *)
(* senders, every bound of the retry loops and every mix of faults: both   *)
(* sides of a session hold one key before anything is asked, a sender goes *)
(* on only when the receiver's user accepted that sender, and nobody sends *)
(* what the relay's phases refuse.  Without faults a pairing ends as the   *)
(* users want it.                                                          *)
(***************************************************************************)
EXTENDS Pairing, SequenceTheorems, FiniteSetTheorems, TLAPS

-----------------------------------------------------------------------------
(* Types *)

Key == (Sender \X ({"shared"} \cup Client)) \cup {None}

MsgType ==
  RelayType \cup {"register", "connect", "retry", "bye", "close", "registered",
                  "peer-joined", "peer-left", "ice-config", "error"}

Code == {"code_taken", "code_not_found", "session_not_found", "rate_limited", "expired"}

Message == [type : MsgType, sid : Sender \cup {None}, body : Key \cup Code \cup {"right", "wrong"}]

Types ==
  /\ knows \subseteq Sender
  /\ stage \in [Client -> Stage]
  /\ sid \in [Client -> Sender \cup {None}]
  /\ key \in [Client -> Key]
  /\ settled \in [Client -> {"no", "good", "bad", "left", "refused", "timeout"}]
  /\ up \in [Client -> Seq(Message)] /\ down \in [Client -> Seq(Message)]
  /\ session \in Sender \cup {None} /\ accepted \subseteq Sender

-----------------------------------------------------------------------------
(* What is on its way *)

\* The messages of a queue.
Q(q) == {q[i] : i \in DOMAIN q}

\* A queue holds a message of these types for a session, or a confirmation tag that
\* proves the shared key.
Carries(q, types, s) == \E m \in Q(q) : m.type \in types /\ m.sid = s
Proves(q, s) == \E m \in Q(q) : m.type = "confirm" /\ m.sid = s /\ m.body = <<s, "shared">>

Answers == {"pair-accept", "pair-reject"}

\* What a client may have sent.  Its share is made of its words, its tag of the key it
\* derived, and what comes after the confirmation is under the shared key.
Sound(c, m) ==
  /\ m.type \in RelayType => m.sid \in Sender /\ c \in {m.sid, Receiver}
  /\ m.type = "pake" => m.body = Words(c)
  /\ m.type = "confirm" => /\ m.body \in {<<m.sid, "shared">>, <<m.sid, c>>}
                           /\ m.body = <<m.sid, "shared">> => m.sid \in knows
  /\ m.type = "pair-request" => c # Receiver
  /\ m.type \in Answers => c = Receiver
  /\ m.type \in {"pair-request"} \cup Answers => m.body = <<m.sid, "shared">>
  /\ m.type = "pair-accept" => m.sid \in accepted

UpSound ==
  \A c \in Client : \A m \in Q(up[c]) :
    Sound(c, m) /\ (m.type = "connect" => c # Receiver /\ m.sid = None)

\* ... and what reaches a client is from the other side of the session it names.
DownSound ==
  \A c \in Client : \A m \in Q(down[c]) :
    /\ m.type \in RelayType \cup {"peer-joined"} => m.sid \in Sender /\ c \in {m.sid, Receiver}
    /\ Sound(IF c = Receiver THEN m.sid ELSE Receiver, m)

-----------------------------------------------------------------------------
(* What a client holds *)

Keyed == {"deriving", "confirming", "sealing", "awaiting", "request", "deciding", "ice", "paired"}
Proven == {"sealing", "awaiting", "request", "deciding", "ice", "paired"}

Local(c) ==
  /\ c \in Sender => sid[c] \in {c, None}
  /\ stage[c] \in Keyed \cup {"share"} <=> sid[c] # None
  /\ stage[c] \in Keyed => /\ key[c] \in {<<sid[c], "shared">>, <<sid[c], c>>}
                           /\ key[c] = <<sid[c], "shared">> => sid[c] \in knows
  /\ settled[c] = "good" => stage[c] \in {"deriving", "confirming"}
  /\ stage[c] \in Proven \/ settled[c] = "good" => key[c] = <<sid[c], "shared">>

-----------------------------------------------------------------------------
(* A sender meets the receiver once *)

\* The receiver may still join this sender.
Unmet(s) ==
  \/ stage[s] = "start"
  \/ Carries(up[s], {"connect"}, None)
  \/ Carries(down[Receiver], {"peer-joined"}, s)

\* ... which happens once: it connects first of all, and is announced once.
ConnectsFirst(q) == \A i \in DOMAIN q : q[i].type = "connect" => i = 1

AnnouncedOnce(q) ==
  \A i, j \in DOMAIN q :
    q[i].type = "peer-joined" /\ q[j].type = "peer-joined" /\ q[i].sid = q[j].sid => i = j

MeetsOnce ==
  /\ \A s \in Sender :
       /\ stage[s] = "start" => up[s] = <<>>
       /\ ConnectsFirst(up[s])
       /\ Carries(down[Receiver], {"peer-joined"}, s)
            => stage[s] # "start" /\ ~Carries(up[s], {"connect"}, None)
  /\ AnnouncedOnce(down[Receiver])

\* Before that the receiver says nothing in its session.
Silent(s) ==
  Unmet(s) => /\ sid[Receiver] # s
              /\ ~Carries(up[Receiver], RelayType, s) /\ ~Carries(down[s], RelayType, s)

\* The sender has, or is about to have, the receiver's proof of the shared key ...
Confident(s) ==
  \/ stage[s] \in Proven \/ settled[s] = "good"
  \/ Carries(up[s], {"pair-request"}, s) \/ Carries(down[Receiver], {"pair-request"}, s)
  \/ Proves(up[Receiver], s) \/ Proves(down[s], s)

\* ... so the receiver has that key, if it is still in the session.
Bound(s) ==
  Confident(s) => /\ ~Unmet(s)
                  /\ sid[Receiver] = s => /\ stage[Receiver] \in Keyed
                                         /\ key[Receiver] = <<s, "shared">>

\* The receiver has the request, or answered it, only when the sender asked.
Asked(s) ==
  \/ Carries(up[s], {"pair-request"}, s) \/ Carries(down[Receiver], {"pair-request"}, s)
  \/ Carries(up[Receiver], Answers, s) \/ Carries(down[s], Answers, s)
  \/ stage[Receiver] \in {"deciding", "ice", "paired"} /\ sid[Receiver] = s

Waited(s) == Asked(s) => stage[s] \in {"awaiting", "ice", "paired", "over"}

\* The receiver's user decides once.
DecidedOnce ==
  /\ accepted # {} => stage[Receiver] \in {"ice", "paired", "over"}
  /\ \A s, t \in accepted : s = t
  /\ \A s \in Sender : stage[s] \in {"ice", "paired"} => s \in accepted

IInv ==
  /\ Types /\ UpSound /\ DownSound /\ MeetsOnce /\ DecidedOnce
  /\ \A c \in Client : Local(c)
  /\ \A s \in Sender : Silent(s) /\ Bound(s) /\ Waited(s)


-----------------------------------------------------------------------------
(* Queues *)

\* What the head and the tail of a non-empty queue contain.
LEMMA QueueEnds ==
  ASSUME NEW q \in Seq(Message), q # <<>>
  PROVE  /\ Head(q) \in Message /\ Head(q) \in Q(q) /\ Tail(q) \in Seq(Message)
         /\ Q(Tail(q)) \subseteq Q(q)
         /\ \A m \in Q(q) : m = Head(q) \/ m \in Q(Tail(q))
<1>1. /\ Len(q) \in Nat \ {0} /\ DOMAIN q = 1 .. Len(q) /\ Head(q) = q[1]
      /\ Tail(q) \in Seq(Message) /\ Len(Tail(q)) = Len(q) - 1 /\ Head(q) \in Message
      /\ \A i \in 1 .. Len(Tail(q)) : Tail(q)[i] = q[i + 1]
  BY EmptySeq, LenProperties, HeadTailProperties
<1>2. DOMAIN Tail(q) = 1 .. Len(Tail(q))
  BY <1>1, LenProperties
<1>3. Head(q) \in Q(q)
  BY <1>1 DEF Q
<1>4. Q(Tail(q)) \subseteq Q(q)
  <2> SUFFICES ASSUME NEW i \in DOMAIN Tail(q)
               PROVE  Tail(q)[i] \in Q(q)
    BY DEF Q
  <2>1. i + 1 \in DOMAIN q /\ Tail(q)[i] = q[i + 1]
    BY <1>1, <1>2
  <2> QED
    BY <2>1 DEF Q
<1>5. ASSUME NEW i \in DOMAIN q
      PROVE  q[i] = Head(q) \/ q[i] \in Q(Tail(q))
  <2>1. CASE i = 1
    BY <1>1, <2>1
  <2>2. CASE i # 1
    <3>1. i - 1 \in DOMAIN Tail(q) /\ Tail(q)[i - 1] = q[i]
      BY <1>1, <1>2, <2>2
    <3> QED
      BY <3>1 DEF Q
  <2> QED
    BY <2>1, <2>2
<1> QED
  BY <1>1, <1>3, <1>4, <1>5 DEF Q

\* A concatenation contains what its two parts contain.
LEMMA QueueJoins ==
  ASSUME NEW q \in Seq(Message), NEW r \in Seq(Message)
  PROVE  q \o r \in Seq(Message) /\ Q(q \o r) = Q(q) \cup Q(r)
<1>1. /\ q \o r \in Seq(Message) /\ Len(q \o r) = Len(q) + Len(r)
      /\ \A i \in 1 .. Len(q) + Len(r) : (q \o r)[i] = IF i <= Len(q) THEN q[i] ELSE r[i - Len(q)]
      /\ Len(q) \in Nat /\ Len(r) \in Nat /\ DOMAIN q = 1 .. Len(q) /\ DOMAIN r = 1 .. Len(r)
  BY ConcatProperties, LenProperties
<1>2. DOMAIN (q \o r) = 1 .. Len(q) + Len(r)
  BY <1>1, LenProperties
<1>3. Q(q \o r) \subseteq Q(q) \cup Q(r)
  <2> SUFFICES ASSUME NEW i \in DOMAIN (q \o r)
               PROVE  (q \o r)[i] \in Q(q) \cup Q(r)
    BY DEF Q
  <2>1. \/ i \in DOMAIN q /\ (q \o r)[i] = q[i]
        \/ i - Len(q) \in DOMAIN r /\ (q \o r)[i] = r[i - Len(q)]
    <3>0. i \in 1 .. Len(q) + Len(r)
      BY <1>2
    <3>1. CASE i <= Len(q)
      BY <1>1, <3>0, <3>1
    <3>2. CASE ~(i <= Len(q))
      <4>1. i - Len(q) \in 1 .. Len(r)
        BY <1>1, <3>0, <3>2
      <4>2. (q \o r)[i] = r[i - Len(q)]
        BY <1>1, <3>0, <3>2
      <4> QED
        BY <1>1, <4>1, <4>2
    <3> QED
      BY <3>1, <3>2
  <2> QED
    BY <2>1 DEF Q
<1>4. Q(q) \subseteq Q(q \o r)
  <2> SUFFICES ASSUME NEW i \in DOMAIN q
               PROVE  q[i] \in Q(q \o r)
    BY DEF Q
  <2>1. i \in DOMAIN (q \o r) /\ (q \o r)[i] = q[i]
    BY <1>1, <1>2
  <2> QED
    BY <2>1 DEF Q
<1>5. Q(r) \subseteq Q(q \o r)
  <2> SUFFICES ASSUME NEW i \in DOMAIN r
               PROVE  r[i] \in Q(q \o r)
    BY DEF Q
  <2>1. i + Len(q) \in DOMAIN (q \o r) /\ (q \o r)[i + Len(q)] = r[i]
    BY <1>1, <1>2
  <2> QED
    BY <2>1 DEF Q
<1> QED
  BY <1>1, <1>3, <1>4, <1>5

\* The empty queue contains nothing.
LEMMA NoMessage == <<>> \in Seq(Message) /\ Q(<<>>) = {}
BY DEF Q

\* A queue of one message.
LEMMA OneMessage ==
  ASSUME NEW a \in Message
  PROVE  <<a>> \in Seq(Message) /\ Q(<<a>>) = {a}
BY DEF Q

\* A queue of two messages.
LEMMA TwoMessages ==
  ASSUME NEW a \in Message, NEW b \in Message
  PROVE  <<a, b>> \in Seq(Message) /\ Q(<<a, b>>) = {a, b}
BY DEF Q

\* A queue of three messages.
LEMMA ThreeMessages ==
  ASSUME NEW a \in Message, NEW b \in Message, NEW d \in Message
  PROVE  <<a, b, d>> \in Seq(Message) /\ Q(<<a, b, d>>) = {a, b, d}
BY DEF Q

\* Taking the first message, or adding others, keeps what is said about the two kinds.
LEMMA RestOnce ==
  ASSUME NEW q \in Seq(Message), q # <<>>
  PROVE  /\ ConnectsFirst(q) => /\ ConnectsFirst(Tail(q))
                               /\ \A m \in Q(Tail(q)) : m.type # "connect"
         /\ AnnouncedOnce(q) =>
              /\ AnnouncedOnce(Tail(q))
              /\ Head(q).type = "peer-joined" => ~Carries(Tail(q), {"peer-joined"}, Head(q).sid)
<1>1. /\ Len(q) \in Nat \ {0} /\ DOMAIN q = 1 .. Len(q) /\ Head(q) = q[1]
      /\ Tail(q) \in Seq(Message) /\ Len(Tail(q)) = Len(q) - 1
      /\ \A i \in 1 .. Len(Tail(q)) : Tail(q)[i] = q[i + 1]
  BY EmptySeq, LenProperties, HeadTailProperties
<1>2. DOMAIN Tail(q) = 1 .. Len(Tail(q))
  BY <1>1, LenProperties
<1>3. \A i \in DOMAIN Tail(q) : i \in Nat \ {0} /\ i + 1 \in DOMAIN q /\ Tail(q)[i] = q[i + 1]
  BY <1>1, <1>2
<1>4. ASSUME ConnectsFirst(q)
      PROVE  \A i \in DOMAIN Tail(q) : Tail(q)[i].type # "connect"
  BY <1>3, <1>4 DEF ConnectsFirst
<1>5. ASSUME AnnouncedOnce(q)
      PROVE  AnnouncedOnce(Tail(q))
  BY <1>3, <1>5 DEF AnnouncedOnce
<1>6. ASSUME AnnouncedOnce(q), Head(q).type = "peer-joined",
             NEW i \in DOMAIN Tail(q), Tail(q)[i].type = "peer-joined", Tail(q)[i].sid = Head(q).sid
      PROVE  FALSE
  BY <1>1, <1>3, <1>6 DEF AnnouncedOnce
<1> QED
  BY <1>4, <1>5, <1>6 DEF ConnectsFirst, Carries, Q

\* Messages of other types after a queue break neither of its two orders.
LEMMA JoinOnce ==
  ASSUME NEW q \in Seq(Message), NEW r \in Seq(Message)
  PROVE  /\ ConnectsFirst(q) /\ (\A m \in Q(r) : m.type # "connect") => ConnectsFirst(q \o r)
         /\ AnnouncedOnce(q) /\ (\A m \in Q(r) : m.type # "peer-joined") => AnnouncedOnce(q \o r)
<1>1. /\ Len(q \o r) = Len(q) + Len(r) /\ q \o r \in Seq(Message)
      /\ \A i \in 1 .. Len(q) + Len(r) : (q \o r)[i] = IF i <= Len(q) THEN q[i] ELSE r[i - Len(q)]
      /\ Len(q) \in Nat /\ Len(r) \in Nat /\ DOMAIN q = 1 .. Len(q) /\ DOMAIN r = 1 .. Len(r)
  BY ConcatProperties, LenProperties
<1>2. DOMAIN (q \o r) = 1 .. Len(q) + Len(r)
  BY <1>1, LenProperties
<1>3. ASSUME NEW i \in DOMAIN (q \o r)
      PROVE  (i \in DOMAIN q /\ (q \o r)[i] = q[i]) \/ (q \o r)[i] \in Q(r)
  <2>1. \/ i \in DOMAIN q /\ (q \o r)[i] = q[i]
        \/ i - Len(q) \in DOMAIN r /\ (q \o r)[i] = r[i - Len(q)]
    <3>0. i \in 1 .. Len(q) + Len(r)
      BY <1>2
    <3>1. CASE i <= Len(q)
      BY <1>1, <3>0, <3>1
    <3>2. CASE ~(i <= Len(q))
      <4>1. i - Len(q) \in 1 .. Len(r)
        BY <1>1, <3>0, <3>2
      <4>2. (q \o r)[i] = r[i - Len(q)]
        BY <1>1, <3>0, <3>2
      <4> QED
        BY <1>1, <4>1, <4>2
    <3> QED
      BY <3>1, <3>2
  <2> QED
    BY <2>1 DEF Q
<1> QED
  BY <1>3 DEF ConnectsFirst, AnnouncedOnce

\* A session that is not announced yet may be announced at the end of the queue.
LEMMA AnnounceOne ==
  ASSUME NEW q \in Seq(Message), NEW m \in Message, AnnouncedOnce(q),
         ~Carries(q, {"peer-joined"}, m.sid)
  PROVE  AnnouncedOnce(q \o <<m>>)
<1> DEFINE r == <<m>>
<1>1. r \in Seq(Message) /\ Len(r) = 1 /\ r[1] = m
  OBVIOUS
<1> HIDE DEF r
<1>2. /\ Len(q \o r) = Len(q) + 1 /\ q \o r \in Seq(Message)
      /\ \A i \in 1 .. Len(q) + 1 : (q \o r)[i] = IF i <= Len(q) THEN q[i] ELSE r[i - Len(q)]
      /\ Len(q) \in Nat /\ DOMAIN q = 1 .. Len(q)
  BY <1>1, ConcatProperties, LenProperties
<1>3. DOMAIN (q \o r) = 1 .. Len(q) + 1
  BY <1>2, LenProperties
<1>4. \A i \in DOMAIN (q \o r) :
        (i \in DOMAIN q /\ (q \o r)[i] = q[i]) \/ (i = Len(q) + 1 /\ (q \o r)[i] = m)
  BY <1>1, <1>2, <1>3
<1>5. \A i \in DOMAIN q : ~(q[i].type = "peer-joined" /\ q[i].sid = m.sid)
  BY DEF Carries, Q
<1>6. AnnouncedOnce(q \o r)
  BY <1>4, <1>5 DEF AnnouncedOnce
<1> QED
  BY <1>6 DEF r

\* The client and those that stay as they are.
LEMMA Clients ==
  /\ Receiver \in Client /\ Sender \subseteq Client /\ Receiver \notin Sender /\ None \notin Sender
  /\ None \notin Client /\ "shared" \notin Client
  /\ \A c \in Client : c = Receiver \/ (c \in Sender /\ c # Receiver)
BY ClientAssumption DEF Client

-----------------------------------------------------------------------------
(* A step of the server *)

\* Messages with which the server answers, and what it relays to the other side: the
\* session notes it, if it lives on.
Benign(m) == m.type \notin RelayType \cup {"peer-joined"}

Fit(x, m) ==
  \/ Benign(m)
  \/ m.type = "peer-joined" /\ m.sid \in Sender /\ x \in {m.sid, Receiver}
  \/ /\ m.type \in RelayType /\ m.sid \in Sender
     /\ (x = m.sid /\ m \in Q(up[Receiver])) \/ (x = Receiver /\ m \in Q(up[m.sid]))
     /\ session' # None => <<IF x = Receiver THEN m.sid ELSE Receiver, m.type>> \in seen'

\* The clients do not move and their messages are taken.
ClientsRest ==
  /\ UNCHANGED <<knows, stage, sid, key, settled, accepted>>
  /\ session' \in Sender \cup {None}
  /\ up' \in [Client -> Seq(Message)]
  /\ \A x \in Client : up'[x] \in {up[x], <<>>} \/ (up[x] # <<>> /\ up'[x] = Tail(up[x]))

Answered ==
  /\ down' \in [Client -> Seq(Message)]
  /\ \A x \in Client : \E r \in Seq(Message) :
       (\A m \in Q(r) : Fit(x, m)) /\ down'[x] = down[x] \o r

\* A session is announced to both sides when its sender's `connect' is taken.
Announced ==
  /\ AnnouncedOnce(down'[Receiver])
  /\ \A s \in Sender : \A x \in {s, Receiver} :
       Carries(down'[x], {"peer-joined"}, s)
         => \/ Carries(down[x], {"peer-joined"}, s)
            \/ Carries(up[s], {"connect"}, None) /\ ~Carries(up'[s], {"connect"}, None)

\* What every handler of the server does.
Serves == ClientsRest /\ Answered /\ Announced

\* While the server serves, what the clients have sent only gets shorter.
LEMMA UpShrinks ==
  ASSUME Types, ClientsRest, NEW x \in Client
  PROVE  /\ Q(up'[x]) \subseteq Q(up[x]) /\ (up[x] = <<>> => up'[x] = <<>>)
         /\ ConnectsFirst(up[x]) => ConnectsFirst(up'[x])
<1>1. up[x] \in Seq(Message)
  BY DEF Types
<1>2. CASE up'[x] = up[x]
  BY <1>2
<1>3. CASE up'[x] = <<>>
  BY <1>3 DEF Q, ConnectsFirst
<1>4. CASE up[x] # <<>> /\ up'[x] = Tail(up[x])
  BY <1>1, <1>4, QueueEnds, RestOnce
<1> QED
  BY <1>2, <1>3, <1>4 DEF ClientsRest

\* A step of the server keeps the invariant when what it says is sound and announces each
\* session once.
LEMMA ServerKeeps ==
  ASSUME IInv, Serves
  PROVE  IInv'
<1>0. ClientsRest /\ Answered /\ Announced
  BY DEF Serves
<1> USE <1>0 DEF IInv
<1>1. \A x \in Client : Q(up'[x]) \subseteq Q(up[x])
  BY UpShrinks
<1>2. ASSUME NEW x \in Client, NEW m \in Q(down'[x])
      PROVE  m \in Q(down[x]) \/ Fit(x, m)
  BY QueueJoins DEF Answered, Types
<1>3. Receiver \in Client /\ Sender \subseteq Client /\ Receiver \notin Sender /\ None \notin Sender
  BY ClientAssumption DEF Client
<1>4. Types'
  BY DEF Types, ClientsRest, Answered, Client, Message, Key, Stage
<1>5. UpSound'
  BY <1>1 DEF UpSound, Sound, Words, ClientsRest
<1>6. DownSound'
  <2> SUFFICES ASSUME NEW c \in Client, NEW m \in Q(down'[c])
               PROVE  /\ m.type \in RelayType \cup {"peer-joined"}
                           => m.sid \in Sender /\ c \in {m.sid, Receiver}
                      /\ Sound(IF c = Receiver THEN m.sid ELSE Receiver, m)'
    BY DEF DownSound
  <2>1. CASE m \in Q(down[c])
    BY <2>1 DEF DownSound, Sound, Words, ClientsRest
  <2>2. CASE Benign(m)
    BY <2>2 DEF Benign, Sound, RelayType, Answers
  <2>4. CASE m.type = "peer-joined" /\ m.sid \in Sender /\ c \in {m.sid, Receiver}
    BY <2>4 DEF Sound, RelayType, Answers
  <2>3. CASE /\ m.type \in RelayType /\ m.sid \in Sender
             /\ (c = m.sid /\ m \in Q(up[Receiver])) \/ (c = Receiver /\ m \in Q(up[m.sid]))
    <3>1. CASE c = m.sid /\ m \in Q(up[Receiver])
      BY <1>3, <2>3, <3>1 DEF UpSound, Sound, Words, ClientsRest, RelayType
    <3>2. CASE c = Receiver /\ m \in Q(up[m.sid])
      BY <1>3, <2>3, <3>2 DEF UpSound, Sound, Words, ClientsRest, RelayType
    <3> QED
      BY <2>3, <3>1, <3>2
  <2> QED
    BY <1>2, <2>1, <2>2, <2>3, <2>4 DEF Fit
<1>7. \A s \in Sender :
        Carries(down'[Receiver], {"peer-joined"}, s)
         => \/ Carries(down[Receiver], {"peer-joined"}, s)
            \/ /\ Carries(up[s], {"connect"}, None) /\ ~Carries(up'[s], {"connect"}, None)
               /\ up[s] # <<>>
  BY DEF Announced, Carries, Q
<1>8. \A x \in Client : \A s, t : Carries(up'[x], t, s) => Carries(up[x], t, s)
  BY <1>1 DEF Carries
<1>9. ASSUME NEW s \in Sender, NEW t \in SUBSET RelayType
      PROVE  /\ Carries(down'[s], t, s) => Carries(down[s], t, s) \/ Carries(up[Receiver], t, s)
             /\ Carries(down'[Receiver], t, s) => Carries(down[Receiver], t, s) \/ Carries(up[s], t, s)
  BY <1>2, <1>3 DEF Carries, Fit, Benign, RelayType
<1>10. ASSUME NEW s \in Sender
       PROVE  /\ Proves(down'[s], s) => Proves(down[s], s) \/ Proves(up[Receiver], s)
              /\ Proves(up'[Receiver], s) => Proves(up[Receiver], s)
  BY <1>1, <1>2, <1>3 DEF Proves, Fit, Benign, RelayType
<1>11. MeetsOnce'
  <2>1. AnnouncedOnce(down'[Receiver])
    BY DEF Announced
  <2>2. \A s \in Sender : ConnectsFirst(up'[s]) /\ (up[s] = <<>> => up'[s] = <<>>)
    BY <1>3, UpShrinks DEF MeetsOnce
  <2> QED
    BY <1>3, <1>7, <1>8, <2>1, <2>2 DEF MeetsOnce, ClientsRest
<1>12. ASSUME NEW s \in Sender
       PROVE  Unmet(s)' => Unmet(s)
  BY <1>3, <1>7, <1>8 DEF Unmet, ClientsRest
<1>13. DecidedOnce' /\ \A c \in Client : Local(c)'
  BY DEF DecidedOnce, Local, ClientsRest
<1>14. ASSUME NEW s \in Sender
       PROVE  Silent(s)'
  BY <1>3, <1>8, <1>9, <1>12 DEF Silent, ClientsRest
<1>15. ASSUME NEW s \in Sender
       PROVE  Bound(s)'
  <2>1. Confident(s)' => Confident(s)
    BY <1>3, <1>8, <1>9, <1>10 DEF Confident, ClientsRest, RelayType
  <2> QED
    BY <1>12, <2>1 DEF Bound, ClientsRest
<1>16. ASSUME NEW s \in Sender
       PROVE  Waited(s)'
  <2>1. Asked(s)' => Asked(s)
    BY <1>3, <1>8, <1>9 DEF Asked, Answers, ClientsRest, RelayType
  <2> QED
    BY <2>1 DEF Waited, ClientsRest
<1> QED
  BY <1>4, <1>5, <1>6, <1>11, <1>13, <1>14, <1>15, <1>16

\* No sender is announced by the other messages.
LEMMA NothingNew ==
  ASSUME IInv, Answered,
         \A x \in Client : \E r \in Seq(Message) : /\ \A m \in Q(r) : m.type # "peer-joined"
                                                 /\ down'[x] = down[x] \o r
  PROVE  Announced
<1>1. Receiver \in Client /\ Sender \subseteq Client
  BY DEF Client
<1>2. AnnouncedOnce(down'[Receiver])
  BY <1>1, JoinOnce DEF IInv, Types, MeetsOnce
<1>3. ASSUME NEW x \in Client, NEW m \in Q(down'[x]), m.type = "peer-joined"
      PROVE  m \in Q(down[x])
  <2>1. PICK r \in Seq(Message) : (\A n \in Q(r) : n.type # "peer-joined") /\ down'[x] = down[x] \o r
    OBVIOUS
  <2>2. Q(down[x] \o r) = Q(down[x]) \cup Q(r)
    BY QueueJoins DEF IInv, Types
  <2> QED
    BY <1>3, <2>1, <2>2
<1>4. ASSUME NEW s \in Sender, NEW x \in {s, Receiver}, Carries(down'[x], {"peer-joined"}, s)
      PROVE  Carries(down[x], {"peer-joined"}, s)
  <2>1. x \in Client
    BY <1>1
  <2>2. PICK m \in Q(down'[x]) : m.type = "peer-joined" /\ m.sid = s
    BY <1>4 DEF Carries
  <2> QED
    BY <1>3, <2>1, <2>2 DEF Carries
<1> QED
  BY <1>2, <1>4 DEF Announced

\* What the server adds to a queue, or does not when the socket is closed.
LEMMA OutAdds ==
  ASSUME Types, NEW c \in Client, NEW r \in Seq(Message)
  PROVE  \E t \in Seq(Message) : Q(t) \subseteq Q(r) /\ Out(c, r) = down[c] \o t
<1>1. <<>> \in Seq(Message) /\ Q(<<>>) = {} /\ down[c] \o <<>> = down[c]
  BY ConcatEmptySeq DEF Types, Q
<1> QED
  BY <1>1 DEF Out

\* Sound answers to two clients that announce nothing.
LEMMA TwoAnswers ==
  ASSUME IInv, NEW x \in Client, NEW y \in Client, x # y,
         NEW a \in Seq(Message), NEW b \in Seq(Message),
         \A m \in Q(a) : Fit(x, m) /\ m.type # "peer-joined",
         \A m \in Q(b) : Fit(y, m) /\ m.type # "peer-joined",
         down' = [down EXCEPT ![x] = Out(x, a), ![y] = Out(y, b)]
  PROVE  Answered /\ Announced
<1>1. PICK ta \in Seq(Message) : Q(ta) \subseteq Q(a) /\ Out(x, a) = down[x] \o ta
  BY OutAdds DEF IInv
<1>2. PICK tb \in Seq(Message) : Q(tb) \subseteq Q(b) /\ Out(y, b) = down[y] \o tb
  BY OutAdds DEF IInv
<1>3. down \in [Client -> Seq(Message)] /\ Receiver \in Client
  BY DEF IInv, Types, Client
<1>4. down'[x] = down[x] \o ta /\ down'[y] = down[y] \o tb
  BY <1>1, <1>2, <1>3
<1>5. \A z \in Client : z \notin {x, y} => down'[z] = down[z] \o <<>>
  BY <1>3, ConcatEmptySeq
<1>6. down' \in [Client -> Seq(Message)]
  <2>1. down[x] \o ta \in Seq(Message) /\ down[y] \o tb \in Seq(Message)
    BY <1>3, QueueJoins
  <2> QED
    BY <1>1, <1>2, <1>3, <2>1
<1>7. <<>> \in Seq(Message) /\ Q(<<>>) = {}
  BY DEF Q
<1>8. ASSUME NEW z \in Client
      PROVE  \E r \in Seq(Message) : /\ \A m \in Q(r) : Fit(z, m) /\ m.type # "peer-joined"
                                     /\ down'[z] = down[z] \o r
  <2>1. CASE z = x
    BY <1>1, <1>4, <2>1
  <2>2. CASE z = y
    BY <1>2, <1>4, <2>2
  <2>3. CASE z \notin {x, y}
    BY <1>5, <1>7, <2>3
  <2> QED
    BY <2>1, <2>2, <2>3
<1>9. Answered
  BY <1>6, <1>8 DEF Answered
<1> QED
  BY <1>8, <1>9, NothingNew

\* A sound answer to one client that announces nothing.
LEMMA OneAnswer ==
  ASSUME IInv, NEW x \in Client, NEW a \in Seq(Message),
         \A m \in Q(a) : Fit(x, m) /\ m.type # "peer-joined",
         Reply(x, a)
  PROVE  Answered /\ Announced
<1>1. PICK ta \in Seq(Message) : Q(ta) \subseteq Q(a) /\ Out(x, a) = down[x] \o ta
  BY OutAdds DEF IInv
<1>3. down \in [Client -> Seq(Message)] /\ Receiver \in Client
  BY DEF IInv, Types, Client
<1>4. down'[x] = down[x] \o ta
  BY <1>1, <1>3 DEF Reply
<1>5. \A z \in Client : z # x => down'[z] = down[z] \o <<>>
  BY <1>3, ConcatEmptySeq DEF Reply
<1>6. down' \in [Client -> Seq(Message)]
  BY <1>1, <1>3, QueueJoins DEF Reply
<1>7. <<>> \in Seq(Message) /\ Q(<<>>) = {}
  BY DEF Q
<1>8. ASSUME NEW z \in Client
      PROVE  \E r \in Seq(Message) : /\ \A m \in Q(r) : Fit(z, m) /\ m.type # "peer-joined"
                                     /\ down'[z] = down[z] \o r
  BY <1>1, <1>4, <1>5, <1>7
<1>9. Answered
  BY <1>6, <1>8 DEF Answered
<1> QED
  BY <1>8, <1>9, NothingNew

\* The end of a handler leaves the clients alone.
LEMMA ServedRests ==
  ASSUME Types, NEW c, c \in Client => up[c] # <<>>, Served(c), session' \in Sender \cup {None}
  PROVE  ClientsRest
<1>1. \A x \in Client : up[x] \in Seq(Message)
  BY DEF Types
<1>2. \A x \in Client : up'[x] \in {up[x], <<>>} \/ (up[x] # <<>> /\ up'[x] = Tail(up[x]))
  BY DEF Served
<1>3. ASSUME NEW x \in Client
      PROVE  up'[x] \in Seq(Message)
  <2>1. <<>> \in Seq(Message) /\ (up[x] # <<>> => Tail(up[x]) \in Seq(Message))
    BY <1>1, QueueEnds
  <2> QED
    BY <1>1, <1>2, <2>1
<1>4. up' \in [Client -> Seq(Message)]
  BY <1>3 DEF Served
<1> QED
  BY <1>2, <1>4 DEF ClientsRest, Served, setting, held

\* The message a handler takes is the first of its client's queue.
LEMMA Arrived ==
  ASSUME Types, NEW c \in Client, NEW types, Arrives(c, types)
  PROVE  /\ up[c] # <<>> /\ Head(up[c]) \in Message /\ Head(up[c]) \in Q(up[c])
         /\ Head(up[c]).type \in types
BY QueueEnds DEF Arrives, Types

\* restoreWaitingReceiver sends only notices of the server.
LEMMA RestoreAnswers ==
  ASSUME IInv, session # None, NEW notify \in BOOLEAN, RestoreWaitingReceiver(notify)
  PROVE  Answered /\ Announced /\ session' \in Sender \cup {None}
<1> DEFINE gone == Msg("peer-left", session, None)
           again == Plain("registered")
           expired == Failure("expired")
           close == <<Close>>
           one == <<again>>
           left1 == <<gone>>
           nothing == <<>>
           all == <<gone, expired, Close>>
<1>1. session \in Sender /\ session \in Client /\ Receiver \in Client /\ session # Receiver
  BY ClientAssumption DEF IInv, Types, Client
<1>2. /\ gone \in Message /\ again \in Message /\ expired \in Message /\ Close \in Message
      /\ gone.type = "peer-left" /\ again.type = "registered"
      /\ expired.type = "error" /\ Close.type = "close"
  BY <1>1 DEF Plain, Failure, Close, Msg, Message, MsgType, Code, Key
<1>3. \A x : \A m \in {gone, again, expired, Close} : Fit(x, m) /\ m.type # "peer-joined"
  BY <1>2 DEF Fit, Benign, RelayType
<1>4. /\ CanRestore /\ notify => ReplyBoth(session, close, left1 \o one)
      /\ CanRestore /\ ~notify => ReplyBoth(session, close, nothing \o one)
      /\ ~CanRestore => ReplyBoth(session, close, all)
      /\ session' = None
  BY DEF RestoreWaitingReceiver
<1> HIDE DEF gone, again, expired
<1>5. /\ close \in Seq(Message) /\ Q(close) = {Close}
      /\ one \in Seq(Message) /\ Q(one) = {again}
      /\ left1 \in Seq(Message) /\ Q(left1) = {gone}
      /\ nothing \in Seq(Message) /\ Q(nothing) = {}
      /\ all \in Seq(Message) /\ Q(all) = {gone, expired, Close}
  BY <1>2, NoMessage, OneMessage, ThreeMessages
<1> HIDE DEF close, one, left1, nothing, all
<1>6. /\ nothing \o one \in Seq(Message) /\ Q(nothing \o one) = {again}
      /\ left1 \o one \in Seq(Message) /\ Q(left1 \o one) = {gone, again}
  BY <1>5, QueueJoins
<1>7. ASSUME NEW b \in {all, nothing \o one, left1 \o one}, ReplyBoth(session, close, b)
      PROVE  Answered /\ Announced
  <2>1. b \in Seq(Message) /\ \A m \in Q(b) : Fit(Receiver, m) /\ m.type # "peer-joined"
    BY <1>3, <1>5, <1>6
  <2>2. \A m \in Q(close) : Fit(session, m) /\ m.type # "peer-joined"
    BY <1>3, <1>5
  <2> QED
    BY <1>1, <1>5, <1>7, <2>1, <2>2, TwoAnswers DEF ReplyBoth
<1> QED
  BY <1>4, <1>7

\* endSession sends only notices of the server.
LEMMA EndAnswers ==
  ASSUME IInv, session # None, NEW c \in {session, Receiver}, EndSession(c)
  PROVE  Answered /\ Announced /\ session' \in Sender \cup {None}
<1> DEFINE gone == Msg("peer-left", session, None)
           other == IF c = Receiver THEN session ELSE Receiver
           told == <<gone, Close>>
           close == <<Close>>
<1>1. session \in Sender /\ session \in Client /\ Receiver \in Client /\ session # Receiver
  BY ClientAssumption DEF IInv, Types, Client
<1>2. /\ gone \in Message /\ Close \in Message
      /\ gone.type = "peer-left" /\ Close.type = "close"
  BY <1>1 DEF Plain, Close, Msg, Message, MsgType, Code, Key
<1>3. \A x : \A m \in {gone, Close} : Fit(x, m) /\ m.type # "peer-joined"
  BY <1>2 DEF Fit, Benign, RelayType
<1>4. session' = None /\ down' = [down EXCEPT ![other] = Out(other, told), ![c] = Out(c, close)]
  BY DEF EndSession
<1>5. other \in Client /\ c \in Client /\ other # c
  BY <1>1
<1> HIDE DEF gone, other
<1>6. /\ told \in Seq(Message) /\ Q(told) = {gone, Close}
      /\ close \in Seq(Message) /\ Q(close) = {Close}
  BY <1>2, OneMessage, TwoMessages
<1> HIDE DEF told, close
<1>7. \A m \in Q(told) : Fit(other, m) /\ m.type # "peer-joined"
  BY <1>3, <1>6
<1>8. \A m \in Q(close) : Fit(c, m) /\ m.type # "peer-joined"
  BY <1>3, <1>6
<1> QED
  BY <1>4, <1>5, <1>6, <1>7, <1>8, TwoAnswers

\* A notice is a message the server makes up itself.
LEMMA NoticeAnswers ==
  ASSUME IInv, NEW c \in Client, NEW m \in Message, Benign(m), Reply(c, <<m>>)
  PROVE  Answered /\ Announced
<1> DEFINE q == <<m>>
<1>1. q \in Seq(Message) /\ Q(q) = {m} /\ Reply(c, q)
  BY OneMessage
<1> HIDE DEF q
<1> QED
  BY <1>1, OneAnswer DEF Fit, Benign

\* The server's own notices carry no session's contents.
LEMMA NoticeIs ==
  /\ \A type \in MsgType \ (RelayType \cup {"peer-joined"}) :
       Plain(type) \in Message /\ Benign(Plain(type))
  /\ \A code \in Code : Failure(code) \in Message /\ Benign(Failure(code))
  /\ Close \in Message /\ Benign(Close)
<1>1. \A type \in MsgType \ (RelayType \cup {"peer-joined"}) :
        Plain(type) \in Message /\ Benign(Plain(type))
  BY DEF Plain, Msg, Message, Key, Benign
<1>2. "error" \in MsgType \ (RelayType \cup {"peer-joined"}) /\ "close" \in MsgType \ (RelayType \cup {"peer-joined"})
  BY DEF MsgType, RelayType
<1>3. \A code \in Code : Failure(code) \in Message /\ Benign(Failure(code))
  BY <1>2 DEF Failure, Msg, Message, Benign
<1>4. Close \in Message /\ Benign(Close)
  <2> DEFINE close == "close"
  <2>1. close \in MsgType \ (RelayType \cup {"peer-joined"}) /\ Close = Plain(close)
    BY <1>2 DEF Close
  <2> HIDE DEF close
  <2> QED
    BY <1>1, <2>1
<1> QED
  BY <1>1, <1>3, <1>4

\* cleanupPeer restores or ends the session and says nothing else.
LEMMA CleanupAnswers ==
  ASSUME IInv, NEW c \in Client, CleanupPeer(c)
  PROVE  Answered /\ Announced /\ session' \in Sender \cup {None}
<1>0. session \in Sender \cup {None}
  BY DEF IInv, Types
<1>1. CASE session = None \/ c \notin {session, Receiver}
  <2>1. Reply(c, <<Close>>) /\ session' = session
    BY <1>1, ClientAssumption DEF CleanupPeer, Client
  <2>2. Close \in Message /\ Benign(Close)
    BY NoticeIs
  <2>3. Answered /\ Announced
    BY <2>1, <2>2, NoticeAnswers
  <2> QED
    BY <1>0, <2>1, <2>3
<1>2. CASE ~(session = None \/ c \notin {session, Receiver}) /\ c = session /\ ~Decided
  BY <1>2, RestoreAnswers DEF CleanupPeer
<1>3. CASE ~(session = None \/ c \notin {session, Receiver}) /\ ~(c = session /\ ~Decided)
  BY <1>3, EndAnswers DEF CleanupPeer
<1> QED
  BY <1>1, <1>2, <1>3

-----------------------------------------------------------------------------
(* The actions of the server *)

\* A handler takes a client's message and answers soundly.
LEMMA ServerStep ==
  ASSUME IInv, NEW c, c \in Client => up[c] # <<>>, Served(c), session' \in Sender \cup {None},
         Answered, Announced
  PROVE  Serves
BY ServedRests DEF IInv, Serves

\* A handler that answers its client only.
LEMMA NoticeServes ==
  ASSUME IInv, NEW c \in Client, Register(c) \/ RegisterTaken(c) \/ ConnectNotFound(c) \/ RelayNoSession(c)
  PROVE  Serves
<1>1. Types /\ session \in Sender \cup {None}
  BY DEF IInv, Types
<1>2. up[c] # <<>> /\ Served(c) /\ session' = session
  BY DEF Register, RegisterTaken, ConnectNotFound, RelayNoSession, Arrives, server
<1>3. \E m \in Message : Benign(m) /\ Reply(c, <<m>>)
  <2>1. CASE Register(c)
    <3>1. "registered" \in MsgType \ (RelayType \cup {"peer-joined"})
      BY DEF MsgType, RelayType
    <3>2. Plain("registered") \in Message /\ Benign(Plain("registered"))
      BY <3>1, NoticeIs
    <3> QED
      BY <2>1, <3>2 DEF Register
  <2>2. ASSUME NEW code \in Code, Reply(c, <<Failure(code)>>)
        PROVE  \E m \in Message : Benign(m) /\ Reply(c, <<m>>)
    BY <2>2, NoticeIs
  <2>3. /\ RegisterTaken(c) => Reply(c, <<Failure("code_taken")>>)
        /\ ConnectNotFound(c) => Reply(c, <<Failure("code_not_found")>>)
        /\ RelayNoSession(c) => Reply(c, <<Failure("session_not_found")>>)
    BY DEF RegisterTaken, ConnectNotFound, RelayNoSession
  <2>4. {"code_taken", "code_not_found", "session_not_found"} \subseteq Code
    BY DEF Code
  <2> QED
    BY <2>1, <2>2, <2>3, <2>4
<1> QED
  BY <1>1, <1>2, <1>3, NoticeAnswers, ServerStep

\* prepair_retry and bye, which restore or end a session.
LEMMA CleanupServes ==
  ASSUME IInv, NEW c \in Client, Retry(c) \/ Bye(c)
  PROVE  Serves
<1>1. session \in Sender \cup {None}
  BY DEF IInv, Types
<1>2. up[c] # <<>> /\ Served(c)
  BY DEF Retry, Bye, Arrives
<1>3. CASE CleanupPeer(c)
  BY <1>2, <1>3, CleanupAnswers, ServerStep
<1>4. CASE session # None /\ RestoreWaitingReceiver(FALSE)
  BY <1>2, <1>4, RestoreAnswers, ServerStep
<1>5. CASE Reply(c, <<Plain("registered")>>) /\ UNCHANGED server
  <2>1. "registered" \in MsgType \ (RelayType \cup {"peer-joined"})
    BY DEF MsgType, RelayType
  <2>2. Plain("registered") \in Message /\ Benign(Plain("registered"))
    BY <2>1, NoticeIs
  <2> QED
    BY <1>1, <1>2, <1>5, <2>2, NoticeAnswers, ServerStep DEF server
<1> QED
  BY <1>3, <1>4, <1>5 DEF Retry, Bye

\* What a member sends in the server's session is sound for the other member.
LEMMA Relayed ==
  ASSUME IInv, NEW c \in Client, Arrives(c, RelayType), InSession(c, Head(up[c]).sid),
         session' # None => <<c, Head(up[c]).type>> \in seen'
  PROVE  /\ Head(up[c]) \in Message /\ Target(c) \in Client /\ session \in Sender
         /\ Fit(Target(c), Head(up[c])) /\ Head(up[c]).type # "peer-joined"
<1>1. session \in Sender /\ c \in {session, Receiver} /\ Head(up[c]).sid = session
  BY DEF IInv, Types, InSession
<1>2. Types
  BY DEF IInv
<1>3. Head(up[c]) \in Message /\ Head(up[c]) \in Q(up[c]) /\ Head(up[c]).type \in RelayType
  BY <1>2, Arrived
<1>4. Head(up[c]).type # "peer-joined"
  BY <1>3 DEF RelayType
<1>5. CASE c = Receiver
  BY <1>1, <1>3, <1>4, <1>5 DEF Target, Fit, Client
<1>6. CASE c = session
  <2>1. Target(c) = Receiver /\ Receiver \in Client
    BY <1>1, <1>6, ClientAssumption DEF Target, Client
  <2>2. Head(up[c]) \in Q(up[Head(up[c]).sid]) /\ Head(up[c]).sid \in Sender
    BY <1>1, <1>3, <1>6
  <2>3. session' # None => <<Head(up[c]).sid, Head(up[c]).type>> \in seen'
    BY <1>1, <1>6
  <2> HIDE DEF Q
  <2> QED
    BY <1>1, <1>3, <1>4, <2>1, <2>2, <2>3 DEF Fit
<1> QED
  BY <1>1, <1>5, <1>6

\* Relaying a message is such a step.
LEMMA RelayServes ==
  ASSUME IInv, NEW c \in Client, Relay(c)
  PROVE  Serves
<1> DEFINE m == Head(up[c])
           q == <<m>>
<1>1. Arrives(c, RelayType) /\ InSession(c, m.sid) /\ <<c, m.type>> \in seen'
  BY DEF Relay, Arrives, RelayType
<1>2. m \in Message /\ Target(c) \in Client /\ Fit(Target(c), m) /\ m.type # "peer-joined"
  BY <1>1, Relayed
<1>3. Reply(Target(c), q) /\ session' = session /\ Served(c) /\ up[c] # <<>>
  BY DEF Relay, Arrives
<1> HIDE DEF m
<1>4. q \in Seq(Message) /\ Q(q) = {m}
  BY <1>2, OneMessage
<1> HIDE DEF q
<1>5. Answered /\ Announced
  BY <1>2, <1>3, <1>4, OneAnswer
<1>6. session \in Sender \cup {None}
  BY DEF IInv, Types
<1> QED
  BY <1>3, <1>5, <1>6, ServerStep

\* Two answers of one handler, the relayed message in front or between.
LEMMA PairServes ==
  ASSUME IInv, NEW c, c \in Client => up[c] # <<>>, Served(c), session \in Sender,
         session' \in Sender \cup {None},
         NEW a \in Seq(Message), NEW b \in Seq(Message),
         \A m \in Q(a) : Benign(m) \/ (Fit(session, m) /\ m.type # "peer-joined"),
         \A m \in Q(b) : Benign(m),
         ReplyBoth(session, a, b)
  PROVE  Serves
<1>1. session \in Client /\ Receiver \in Client /\ session # Receiver
  BY ClientAssumption DEF Client
<1>2. \A m \in Q(a) : Fit(session, m) /\ m.type # "peer-joined"
  BY DEF Fit, Benign
<1>3. \A m \in Q(b) : Fit(Receiver, m) /\ m.type # "peer-joined"
  BY DEF Fit, Benign
<1>4. Answered /\ Announced
  BY <1>1, <1>2, <1>3, TwoAnswers DEF ReplyBoth
<1> QED
  BY <1>4, ServerStep

\* So is relaying a decision, also one the TURN quota stops.
LEMMA DecisionServes ==
  ASSUME IInv, NEW c \in Client,
         RelayAccept(c) \/ RelayReject(c) \/ \E passed \in BOOLEAN : RelayTurnLimited(c, passed)
  PROVE  Serves
<1> DEFINE m == Head(up[c])
           ice == Plain("ice-config")
           limited == Failure("rate_limited")
           accept == <<ice, m>>
           reject == <<m, Close>>
           config == <<ice>>
           close == <<Close>>
           nothing == <<>>
           refuse == <<limited, Close>>
<1>1. /\ Arrives(c, RelayType) /\ InSession(c, m.sid) /\ Served(c) /\ up[c] # <<>>
      /\ c = Receiver /\ (session' # None => <<c, m.type>> \in seen')
  BY DEF RelayAccept, RelayReject, RelayTurnLimited, RelayAllowed, Arrives, RelayType
<1>2. m \in Message /\ session \in Sender /\ Fit(session, m) /\ m.type # "peer-joined"
  BY <1>1, Relayed DEF Target
<1>3. /\ RelayAccept(c) => ReplyBoth(session, accept, config) /\ session' = session
      /\ RelayReject(c) => ReplyBoth(session, reject, close) /\ session' = None
      /\ RelayTurnLimited(c, TRUE) => ReplyBoth(session, accept \o refuse, refuse) /\ session' = None
      /\ RelayTurnLimited(c, FALSE) => ReplyBoth(session, nothing \o refuse, refuse) /\ session' = None
  BY DEF RelayAccept, RelayReject, RelayTurnLimited
<1>4. ice \in Message /\ Benign(ice) /\ limited \in Message /\ Benign(limited)
      /\ Close \in Message /\ Benign(Close)
  BY DEF Plain, Failure, Close, Msg, Message, MsgType, Code, Key, Benign, RelayType
<1> HIDE DEF m, ice, limited
<1>5. /\ accept \in Seq(Message) /\ Q(accept) = {ice, m}
      /\ reject \in Seq(Message) /\ Q(reject) = {m, Close}
      /\ config \in Seq(Message) /\ Q(config) = {ice}
      /\ close \in Seq(Message) /\ Q(close) = {Close}
      /\ nothing \in Seq(Message) /\ Q(nothing) = {}
      /\ refuse \in Seq(Message) /\ Q(refuse) = {limited, Close}
  BY <1>2, <1>4, NoMessage, OneMessage, TwoMessages
<1> HIDE DEF accept, reject, config, close, nothing, refuse
<1>6. /\ accept \o refuse \in Seq(Message) /\ Q(accept \o refuse) = Q(accept) \cup Q(refuse)
      /\ nothing \o refuse \in Seq(Message) /\ Q(nothing \o refuse) = Q(nothing) \cup Q(refuse)
  BY <1>5, QueueJoins
<1>7. ASSUME NEW a \in {accept, reject, accept \o refuse, nothing \o refuse},
             NEW b \in {config, close, refuse},
             ReplyBoth(session, a, b), session' \in {session, None}
      PROVE  Serves
  <2>1. a \in Seq(Message) /\ \A n \in Q(a) : Benign(n) \/ (Fit(session, n) /\ n.type # "peer-joined")
    BY <1>2, <1>4, <1>5, <1>6
  <2>2. b \in Seq(Message) /\ \A n \in Q(b) : Benign(n)
    BY <1>4, <1>5
  <2> QED
    BY <1>1, <1>2, <1>7, <2>1, <2>2, PairServes
<1>8. RelayAccept(c) \/ RelayReject(c) \/ RelayTurnLimited(c, TRUE) \/ RelayTurnLimited(c, FALSE)
  OBVIOUS
<1> QED
  BY <1>3, <1>7, <1>8

\* The three expiries.
LEMMA ExpiryServes ==
  ASSUME IInv, ExpireCode \/ ExpireRestore \/ ExpireSession
  PROVE  Serves
<1>1. None \notin Client /\ Receiver \in Client
  BY ClientAssumption DEF Client
<1>2. Served(None) /\ session \in Sender \cup {None}
  BY DEF ExpireCode, ExpireRestore, ExpireSession, IInv, Types
<1>3. CASE ExpireRestore
  <2>1. session # None /\ RestoreWaitingReceiver(TRUE)
    BY <1>3 DEF ExpireRestore
  <2>2. Answered /\ Announced /\ session' \in Sender \cup {None}
    BY <2>1, RestoreAnswers
  <2> QED
    BY <1>1, <1>2, <2>2, ServerStep
<1>4. CASE ExpireCode
  <2> DEFINE expired == Failure("expired")
             q == <<expired, Close>>
  <2>1. Reply(Receiver, q) /\ session' = session
    BY <1>4 DEF ExpireCode
  <2>2. expired \in Message /\ Benign(expired) /\ Close \in Message /\ Benign(Close)
    BY DEF Plain, Failure, Close, Msg, Message, MsgType, Code, Key, Benign, RelayType
  <2> HIDE DEF expired
  <2>3. q \in Seq(Message) /\ Q(q) = {expired, Close}
    BY <2>2, TwoMessages
  <2> HIDE DEF q
  <2>4. \A n \in Q(q) : Fit(Receiver, n) /\ n.type # "peer-joined"
    BY <2>2, <2>3 DEF Fit, Benign
  <2>5. Answered /\ Announced
    BY <1>1, <2>1, <2>3, <2>4, OneAnswer
  <2> QED
    BY <1>1, <1>2, <2>1, <2>5, ServerStep
<1>5. CASE ExpireSession
  <2> DEFINE gone == Msg("peer-left", session, None)
             q == <<gone, Close>>
  <2>1. ReplyBoth(session, q, q) /\ session' = None /\ session \in Sender
    BY <1>2, <1>5 DEF ExpireSession
  <2>2. gone \in Message /\ Benign(gone) /\ Close \in Message /\ Benign(Close)
    BY <2>1 DEF Plain, Close, Msg, Message, MsgType, Code, Key, Benign, RelayType
  <2> HIDE DEF gone
  <2>3. q \in Seq(Message) /\ Q(q) = {gone, Close}
    BY <2>2, TwoMessages
  <2> HIDE DEF q
  <2>4. \A n \in Q(q) : Benign(n)
    BY <2>2, <2>3
  <2> QED
    BY <1>1, <1>2, <2>1, <2>3, <2>4, PairServes
<1> QED
  BY <1>3, <1>4, <1>5

\* A connect that creates a session announces it to both, and for the first time.
LEMMA ConnectServes ==
  ASSUME IInv, NEW c \in Client, Connect(c)
  PROVE  Serves
<1> DEFINE m == Msg("peer-joined", c, None)
           q == <<m>>
<1>1. Types
  BY DEF IInv
<1>2. /\ up[c] # <<>> /\ Head(up[c]) \in Q(up[c]) /\ Head(up[c]).type = "connect" /\ Served(c)
      /\ session' = c /\ ReplyBoth(c, q, q) /\ cut' = cut
  BY <1>1, Arrived DEF Connect
<1>3. c \in Sender /\ Head(up[c]).sid = None /\ c # Receiver /\ Receiver \in Client
  BY <1>2, ClientAssumption DEF IInv, UpSound, Client
<1>4. m \in Message /\ m.type = "peer-joined" /\ m.sid = c
  BY <1>3 DEF Msg, Message, MsgType, Key
<1> HIDE DEF m
<1>5. q \in Seq(Message) /\ Q(q) = {m}
  BY <1>4, OneMessage
<1> HIDE DEF q
<1>6. down \in [Client -> Seq(Message)] /\ down' = [down EXCEPT ![c] = Out(c, q), ![Receiver] = Out(Receiver, q)]
  BY <1>1, <1>2 DEF Types, ReplyBoth
<1>7. PICK ta \in Seq(Message) : Q(ta) \subseteq Q(q) /\ Out(c, q) = down[c] \o ta
  BY <1>1, <1>5, OutAdds
<1>8. PICK tb \in Seq(Message) : /\ Q(tb) \subseteq Q(q) /\ Out(Receiver, q) = down[Receiver] \o tb
                                 /\ tb = q \/ tb = <<>>
  <2>1. down[Receiver] \o <<>> = down[Receiver] /\ Q(<<>>) = {} /\ <<>> \in Seq(Message)
    BY <1>3, <1>6, ConcatEmptySeq, NoMessage
  <2> QED
    BY <1>5, <2>1 DEF Out
<1>9. /\ down'[c] = down[c] \o ta /\ down'[Receiver] = down[Receiver] \o tb
      /\ \A z \in Client : z \notin {c, Receiver} => down'[z] = down[z] \o <<>>
  BY <1>3, <1>6, <1>7, <1>8, ConcatEmptySeq
<1>10. Answered
  <2>1. down[c] \o ta \in Seq(Message) /\ down[Receiver] \o tb \in Seq(Message)
    BY <1>3, <1>6, QueueJoins
  <2>2. down' \in [Client -> Seq(Message)]
    BY <1>3, <1>6, <1>7, <1>8, <2>1
  <2>3. \A x \in {c, Receiver} : Fit(x, m)
    BY <1>3, <1>4 DEF Fit
  <2>4. <<>> \in Seq(Message) /\ Q(<<>>) = {}
    BY NoMessage
  <2> QED
    BY <1>3, <1>5, <1>7, <1>8, <1>9, <2>2, <2>3, <2>4 DEF Answered
<1>11. Carries(up[c], {"connect"}, None)
  BY <1>2, <1>3 DEF Carries
<1>12. ~Carries(up'[c], {"connect"}, None)
  <2>1. up'[c] = <<>> \/ up'[c] = Tail(up[c])
    BY <1>2 DEF Served
  <2>2. ConnectsFirst(up[c]) /\ up[c] \in Seq(Message)
    BY <1>1, <1>3 DEF IInv, MeetsOnce, Types
  <2>3. \A n \in Q(Tail(up[c])) : n.type # "connect"
    BY <1>2, <2>2, RestOnce
  <2> QED
    BY <2>1, <2>3, NoMessage DEF Carries
<1>13. ~Carries(down[Receiver], {"peer-joined"}, c)
  BY <1>3, <1>11 DEF IInv, MeetsOnce
<1>14. AnnouncedOnce(down'[Receiver])
  <2>1. AnnouncedOnce(down[Receiver]) /\ down[Receiver] \in Seq(Message)
    BY <1>3, <1>6 DEF IInv, MeetsOnce
  <2>2. CASE tb = <<>>
    BY <1>9, <2>1, <2>2, ConcatEmptySeq
  <2>3. CASE tb = q
    BY <1>4, <1>9, <1>13, <2>1, <2>3, AnnounceOne DEF q
  <2> QED
    BY <1>8, <2>2, <2>3
<1>15. Announced
  <2>1. /\ Q(down'[Receiver]) = Q(down[Receiver]) \cup Q(tb)
        /\ Q(down'[c]) = Q(down[c]) \cup Q(ta)
        /\ \A z \in Client : z \notin {c, Receiver} => down'[z] = down[z]
    BY <1>3, <1>6, <1>9, QueueJoins
  <2>2. ASSUME NEW s \in Sender, NEW x \in {s, Receiver}, Carries(down'[x], {"peer-joined"}, s)
        PROVE  Carries(down[x], {"peer-joined"}, s) \/ s = c
    <3>1. PICK n \in Q(down'[x]) : n.type = "peer-joined" /\ n.sid = s
      BY <2>2 DEF Carries
    <3>2. n \in Q(down[x]) \/ n = m
      <4>1. CASE x = Receiver
        BY <1>5, <1>8, <2>1, <4>1
      <4>2. CASE x = c
        BY <1>5, <1>7, <2>1, <4>2
      <4>3. CASE x \notin {c, Receiver}
        BY <2>1, <4>3, Clients
      <4> QED
        BY <4>1, <4>2, <4>3
    <3> QED
      BY <1>4, <3>1, <3>2 DEF Carries
  <2> QED
    BY <1>11, <1>12, <1>14, <2>2 DEF Announced
<1> QED
  BY <1>2, <1>3, <1>10, <1>15, ServerStep

\* Every handler of the server keeps the invariant.
LEMMA ServeKeeps ==
  ASSUME IInv, NEW c \in Client, Serve(c)
  PROVE  IInv'
BY NoticeServes, ConnectServes, RelayServes, DecisionServes, CleanupServes, ServerKeeps DEF Serve

-----------------------------------------------------------------------------
(* A step of a client *)

\* Only this client moves: it takes messages from its queue and adds to the one to the
\* server.
Moves(c) ==
  /\ Types' /\ Local(c)' /\ knows' = knows
  /\ \A x \in Client \ {c} :
       /\ stage'[x] = stage[x] /\ sid'[x] = sid[x] /\ key'[x] = key[x] /\ settled'[x] = settled[x]
       /\ up'[x] = up[x] /\ down'[x] = down[x]
  /\ Q(down'[c]) \subseteq Q(down[c])
  /\ AnnouncedOnce(down[c]) => AnnouncedOnce(down'[c])

\* What it adds.
Adds(c, r) ==
  /\ r \in Seq(Message) /\ up'[c] = up[c] \o r
  /\ \A m \in Q(r) : Sound(c, m)' /\ (m.type = "connect" => c # Receiver /\ m.sid = None)

\* The receiver enters a session when it is announced, keeps its key in it, speaks in
\* it, and decides on what the sender asked.
Receives(r) ==
  /\ \/ sid'[Receiver] \in {sid[Receiver], None}
     \/ /\ Carries(down[Receiver], {"peer-joined"}, sid'[Receiver])
        /\ ~Carries(down'[Receiver], {"peer-joined"}, sid'[Receiver])
  /\ sid'[Receiver] = sid[Receiver] /\ stage[Receiver] \in Keyed /\ sid[Receiver] # None
       => stage'[Receiver] \in Keyed /\ key'[Receiver] = key[Receiver]
  /\ \A m \in Q(r) : m.type \in RelayType =>
       \/ m.sid = sid[Receiver]
       \/ m.sid = sid'[Receiver] /\ m.type = "pake"
  /\ \A m \in Q(r) : m.type = "confirm" =>
       /\ m.sid = sid[Receiver] /\ m.sid = sid'[Receiver] /\ stage[Receiver] \in Keyed
       /\ m.body = key[Receiver] /\ sid[Receiver] # None
  /\ \A m \in Q(r) : m.type \in Answers => stage[Receiver] = "deciding"
  /\ stage'[Receiver] \in {"deciding", "ice", "paired"} =>
       /\ sid'[Receiver] = sid[Receiver]
       /\ \/ stage[Receiver] \in {"deciding", "ice", "paired"}
          \/ Carries(down[Receiver], {"pair-request"}, sid[Receiver])
  /\ \/ /\ accepted' = accepted
        /\ stage[Receiver] \in {"ice", "paired", "over"} => stage'[Receiver] \in {"ice", "paired", "over"}
     \/ /\ stage[Receiver] = "deciding" /\ stage'[Receiver] = "ice"
        /\ accepted' = accepted \cup {sid[Receiver]}

\* What a client's queue contains after it sent r.
LEMMA Joins ==
  ASSUME Types, NEW c \in Client, NEW r, Adds(c, r)
  PROVE  Q(up'[c]) = Q(up[c]) \cup Q(r)
BY QueueJoins DEF Types, Adds

\* A step of the receiver keeps the invariant when its own part and what it sends are
\* sound.
LEMMA ReceiverKeeps ==
  ASSUME IInv, Moves(Receiver), NEW r, Adds(Receiver, r), Receives(r)
  PROVE  IInv'
<1> DEFINE R == Receiver
<1>1. Receiver \in Client /\ Sender \subseteq Client /\ Receiver \notin Sender /\ None \notin Sender
  BY ClientAssumption DEF Client
<1>2. Types /\ Types'
  BY DEF IInv, Moves
<1>3. Q(up'[R]) = Q(up[R]) \cup Q(r)
  BY <1>1, <1>2, Joins
<1>4. /\ knows' = knows /\ Q(down'[R]) \subseteq Q(down[R]) /\ AnnouncedOnce(down'[R])
      /\ \A x \in Client : x # R =>
           /\ stage'[x] = stage[x] /\ sid'[x] = sid[x] /\ key'[x] = key[x] /\ settled'[x] = settled[x]
           /\ up'[x] = up[x] /\ down'[x] = down[x]
  BY DEF Moves, IInv, MeetsOnce
<1>5. accepted \subseteq accepted'
  BY DEF Receives
<1>6. \A c, m : Sound(c, m) => Sound(c, m)'
  BY <1>4, <1>5 DEF Sound, Words
<1>7. UpSound'
  BY <1>1, <1>3, <1>4, <1>6 DEF IInv, UpSound, Adds
<1>8. DownSound'
  <2> SUFFICES ASSUME NEW c \in Client, NEW m \in Q(down'[c])
               PROVE  /\ m.type \in RelayType \cup {"peer-joined"}
                           => m.sid \in Sender /\ c \in {m.sid, Receiver}
                      /\ Sound(IF c = Receiver THEN m.sid ELSE Receiver, m)'
    BY DEF DownSound
  <2>1. m \in Q(down[c])
    BY <1>4
  <2>2. /\ m.type \in RelayType \cup {"peer-joined"} => m.sid \in Sender /\ c \in {m.sid, Receiver}
        /\ Sound(IF c = Receiver THEN m.sid ELSE Receiver, m)
    BY <2>1 DEF IInv, DownSound
  <2>3. CASE c = Receiver
    BY <1>6, <2>2, <2>3
  <2>4. CASE c # Receiver
    BY <1>6, <2>2, <2>4
  <2> QED
    BY <2>3, <2>4
<1>9. \A s, t : Carries(down'[R], t, s) => Carries(down[R], t, s)
  BY <1>4 DEF Carries
<1>10. MeetsOnce'
  BY <1>1, <1>4, <1>9 DEF IInv, MeetsOnce
<1>11. ASSUME NEW c \in Client
       PROVE  Local(c)'
  BY <1>4 DEF IInv, Local, Moves
<1>12. ASSUME NEW s \in Sender
       PROVE  Unmet(s)' => Unmet(s)
  BY <1>1, <1>4, <1>9 DEF Unmet
<1>13. ASSUME NEW s \in Sender, sid'[R] = s
       PROVE  \/ sid[R] = s
              \/ Unmet(s) /\ ~Unmet(s)'
  <2>1. CASE sid'[R] \in {sid[R], None}
    BY <1>1, <1>13, <2>1
  <2>2. CASE Carries(down[R], {"peer-joined"}, sid'[R]) /\ ~Carries(down'[R], {"peer-joined"}, sid'[R])
    BY <1>1, <1>4, <1>13, <2>2 DEF Unmet, IInv, MeetsOnce
  <2> QED
    BY <2>1, <2>2 DEF Receives
<1>14. ASSUME NEW s \in Sender, NEW m \in Q(r), m.type \in RelayType, m.sid = s
       PROVE  sid[R] = s \/ sid'[R] = s
  BY <1>14 DEF Receives
<1>15. ASSUME NEW s \in Sender
       PROVE  Silent(s)'
  <2>1. ASSUME Unmet(s)'
        PROVE  Unmet(s) /\ sid[R] # s /\ sid'[R] # s
    BY <1>12, <1>13, <2>1 DEF IInv, Silent
  <2> QED
    BY <1>1, <1>3, <1>4, <1>14, <2>1 DEF IInv, Silent, Carries
<1>16. ASSUME NEW s \in Sender
       PROVE  Bound(s)'
  <2>1. ASSUME NEW m \in Q(r), m.type = "confirm", m.sid = s, m.body = <<s, "shared">>
        PROVE  /\ ~Unmet(s) /\ sid[R] = s /\ sid'[R] = s /\ stage'[R] \in Keyed
               /\ key'[R] = <<s, "shared">>
    BY <1>1, <2>1 DEF Receives, IInv, Silent
  <2>2. Confident(s)' => Confident(s) \/ \E m \in Q(r) : m.type = "confirm" /\ m.sid = s /\ m.body = <<s, "shared">>
    BY <1>1, <1>3, <1>4, <1>9 DEF Confident, Carries, Proves
  <2>3. ASSUME Confident(s), sid'[R] = s
        PROVE  stage'[R] \in Keyed /\ key'[R] = <<s, "shared">>
    <3>1. ~Unmet(s) /\ (sid[R] = s => stage[R] \in Keyed /\ key[R] = <<s, "shared">>)
      BY <2>3 DEF IInv, Bound
    <3>2. sid[R] = s
      BY <1>13, <2>3, <3>1
    <3> QED
      BY <1>1, <2>3, <3>1, <3>2 DEF Receives
  <2> QED
    BY <1>12, <2>1, <2>2, <2>3 DEF IInv, Bound
<1>17. ASSUME NEW s \in Sender
       PROVE  Waited(s)'
  <2>1. Asked(s)' => Asked(s)
    <3>1. ASSUME NEW m \in Q(r), m.type \in Answers, m.sid = s
          PROVE  Asked(s)
      <4>1. sid[R] = s /\ stage[R] = "deciding"
        BY <3>1 DEF Receives, Answers, RelayType
      <4> QED
        BY <4>1 DEF Asked
    <3>2. stage'[R] \in {"deciding", "ice", "paired"} /\ sid'[R] = s => Asked(s)
      BY DEF Receives, Asked
    <3> QED
      BY <1>1, <1>3, <1>4, <1>9, <3>1, <3>2 DEF Asked, Carries
  <2> QED
    BY <1>1, <1>4, <2>1 DEF IInv, Waited
<1>18. DecidedOnce'
  <2>1. CASE /\ accepted' = accepted
             /\ stage[R] \in {"ice", "paired", "over"} => stage'[R] \in {"ice", "paired", "over"}
    BY <1>1, <1>4, <2>1 DEF IInv, DecidedOnce
  <2>2. CASE stage[R] = "deciding" /\ stage'[R] = "ice" /\ accepted' = accepted \cup {sid[R]}
    BY <1>1, <1>4, <2>2 DEF IInv, DecidedOnce
  <2> QED
    BY <2>1, <2>2 DEF Receives
<1> QED
  BY <1>2, <1>7, <1>8, <1>10, <1>11, <1>15, <1>16, <1>17, <1>18 DEF IInv

\* A sender speaks in its session, asks when it has the receiver's proof, and goes on
\* when it has the receiver's answer.
Sends(c, r) ==
  /\ accepted' = accepted /\ (stage'[c] = "start" => stage[c] = "start" /\ r = <<>>)
  /\ \/ \A m \in Q(r) : m.type # "connect"
     \/ stage[c] = "start" /\ up'[c] \in {<<>>, r} /\ ConnectsFirst(r)
  /\ stage'[c] \in Proven \/ settled'[c] = "good" => Confident(c)
  /\ \A m \in Q(r) : m.type = "pair-request" => stage[c] = "sealing" /\ stage'[c] = "awaiting"
  /\ stage[c] \in {"awaiting", "ice", "paired", "over"} => stage'[c] \in {"awaiting", "ice", "paired", "over"}
  /\ stage'[c] \in {"ice", "paired"} =>
       stage[c] \in {"ice", "paired"} \/ Carries(down[c], {"pair-accept"}, c)

\* The same for a sender.
LEMMA SenderKeeps ==
  ASSUME IInv, NEW c \in Sender, Moves(c), NEW r, Adds(c, r), Sends(c, r)
  PROVE  IInv'
<1> DEFINE R == Receiver
<1>1. /\ Receiver \in Client /\ Sender \subseteq Client /\ Receiver \notin Sender /\ None \notin Sender
      /\ c # Receiver /\ c \in Client
  BY ClientAssumption DEF Client
<1>2. Types /\ Types'
  BY DEF IInv, Moves
<1>3. Q(up'[c]) = Q(up[c]) \cup Q(r)
  BY <1>1, <1>2, Joins
<1>4. /\ knows' = knows /\ accepted' = accepted /\ Q(down'[c]) \subseteq Q(down[c])
      /\ \A x \in Client : x # c =>
           /\ stage'[x] = stage[x] /\ sid'[x] = sid[x] /\ key'[x] = key[x] /\ settled'[x] = settled[x]
           /\ up'[x] = up[x] /\ down'[x] = down[x]
  BY DEF Moves, Sends
<1>5. \A x, m : Sound(x, m) => Sound(x, m)'
  BY <1>4 DEF Sound, Words
<1>6. UpSound'
  BY <1>1, <1>3, <1>4, <1>5 DEF IInv, UpSound, Adds
<1>7. DownSound'
  <2> SUFFICES ASSUME NEW x \in Client, NEW m \in Q(down'[x])
               PROVE  /\ m.type \in RelayType \cup {"peer-joined"}
                           => m.sid \in Sender /\ x \in {m.sid, Receiver}
                      /\ Sound(IF x = Receiver THEN m.sid ELSE Receiver, m)'
    BY DEF DownSound
  <2>1. m \in Q(down[x])
    BY <1>4
  <2>2. /\ m.type \in RelayType \cup {"peer-joined"} => m.sid \in Sender /\ x \in {m.sid, Receiver}
        /\ Sound(IF x = Receiver THEN m.sid ELSE Receiver, m)
    BY <2>1 DEF IInv, DownSound
  <2>3. CASE x = Receiver
    BY <1>5, <2>2, <2>3
  <2>4. CASE x # Receiver
    BY <1>5, <2>2, <2>4
  <2> QED
    BY <2>3, <2>4
<1>8. \A t : /\ Carries(down'[c], t, c) => Carries(down[c], t, c)
             /\ Proves(down'[c], c) => Proves(down[c], c)
  BY <1>4 DEF Carries, Proves
<1>9. Carries(up'[c], {"connect"}, None) => Carries(up[c], {"connect"}, None) \/ stage[c] = "start"
  BY <1>3 DEF Sends, Carries
<1>10. MeetsOnce'
  <2>1. ConnectsFirst(up'[c])
    <3>1. CASE \A m \in Q(r) : m.type # "connect"
      BY <1>1, <1>2, <3>1, JoinOnce DEF IInv, MeetsOnce, Adds, Types
    <3>2. CASE stage[c] = "start" /\ up'[c] \in {<<>>, r} /\ ConnectsFirst(r)
      BY <3>2 DEF ConnectsFirst
    <3> QED
      BY <3>1, <3>2 DEF Sends
  <2>2. stage'[c] = "start" => stage[c] = "start" /\ up'[c] = up[c]
    BY <1>1, <1>2, ConcatEmptySeq DEF Sends, Adds, Types
  <2> QED
    BY <1>1, <1>4, <1>9, <2>1, <2>2 DEF IInv, MeetsOnce
<1>11. ASSUME NEW x \in Client
       PROVE  Local(x)'
  BY <1>4 DEF IInv, Local, Moves
<1>12. ASSUME NEW s \in Sender
       PROVE  Unmet(s)' => Unmet(s)
  BY <1>1, <1>4, <1>9 DEF Unmet, Sends
<1>13. ASSUME NEW s \in Sender
       PROVE  Silent(s)'
  BY <1>1, <1>4, <1>8, <1>12 DEF IInv, Silent
<1>14. ASSUME NEW s \in Sender
       PROVE  Bound(s)'
  <2>1. Confident(s)' => Confident(s)
    <3>1. CASE s = c
      <4>1. Carries(up'[c], {"pair-request"}, c) => Carries(up[c], {"pair-request"}, c) \/ stage[c] = "sealing"
        BY <1>3 DEF Carries, Sends
      <4> QED
        BY <1>1, <1>4, <1>8, <3>1, <4>1 DEF Confident, Sends, Proven
    <3>2. CASE s # c
      BY <1>1, <1>4, <3>2 DEF Confident
    <3> QED
      BY <3>1, <3>2
  <2> QED
    BY <1>1, <1>4, <1>12, <2>1 DEF IInv, Bound
<1>15. ASSUME NEW s \in Sender
       PROVE  Waited(s)'
  <2>1. CASE s = c
    <3>1. Carries(up'[c], {"pair-request"}, c) => Carries(up[c], {"pair-request"}, c) \/ stage'[c] = "awaiting"
      BY <1>3 DEF Carries, Sends
    <3> QED
      BY <1>1, <1>4, <1>8, <2>1, <3>1 DEF IInv, Waited, Asked, Sends
  <2>2. CASE s # c
    BY <1>1, <1>4, <2>2 DEF IInv, Waited, Asked
  <2> QED
    BY <2>1, <2>2
<1>16. DecidedOnce'
  <2>1. Carries(down[c], {"pair-accept"}, c) => c \in accepted
    BY <1>1 DEF IInv, DownSound, Sound, Carries
  <2> QED
    BY <1>1, <1>4, <2>1 DEF IInv, DecidedOnce, Sends
<1> QED
  BY <1>2, <1>6, <1>7, <1>10, <1>11, <1>13, <1>14, <1>15, <1>16 DEF IInv

-----------------------------------------------------------------------------
(* Parts of a step of a client *)

\* Taking the first message of a client leaves the rest of its queue.
LEMMA Popped ==
  ASSUME Types, NEW c \in Client, down[c] # <<>>, Pop(c)
  PROVE  /\ down' \in [Client -> Seq(Message)] /\ \A x \in Client \ {c} : down'[x] = down[x]
         /\ down'[c] = Tail(down[c]) /\ Q(down'[c]) \subseteq Q(down[c])
         /\ AnnouncedOnce(down[c]) => AnnouncedOnce(down'[c])
<1>1. down \in [Client -> Seq(Message)] /\ down[c] \in Seq(Message)
  BY DEF Types
<1>2. Tail(down[c]) \in Seq(Message) /\ Q(Tail(down[c])) \subseteq Q(down[c])
  BY <1>1, QueueEnds
<1>3. AnnouncedOnce(down[c]) => AnnouncedOnce(Tail(down[c]))
  BY <1>1, RestOnce
<1>4. down'[c] = Tail(down[c]) /\ \A x \in Client \ {c} : down'[x] = down[x]
  BY <1>1 DEF Pop
<1>5. down' \in [Client -> Seq(Message)]
  BY <1>1, <1>2 DEF Pop
<1> QED
  BY <1>2, <1>3, <1>4, <1>5

\* A queue without its first messages.
LEMMA Suffix ==
  ASSUME NEW q \in Seq(Message), NEW n \in 1 .. Len(q)
  PROVE  \A r : r = SubSeq(q, n + 1, Len(q)) =>
         /\ r \in Seq(Message) /\ Q(r) \subseteq Q(q) /\ Q(r) \subseteq Q(Tail(q))
         /\ Len(r) = Len(q) - n /\ DOMAIN r = 1 .. Len(r)
         /\ \A i \in DOMAIN r : i + n \in DOMAIN q /\ r[i] = q[i + n]
         /\ AnnouncedOnce(q) => AnnouncedOnce(r)
<1> DEFINE r == SubSeq(q, n + 1, Len(q))
<1>1. Len(q) \in Nat /\ DOMAIN q = 1 .. Len(q) /\ q # <<>>
  BY LenProperties, EmptySeq
<1>2. Len(r) = Len(q) - n /\ r \in Seq(Message) /\ \A i \in 1 .. Len(r) : r[i] = q[i + n]
  <2>1. n + 1 \in Int /\ Len(q) \in Int /\ \A i \in n + 1 .. Len(q) : q[i] \in Message
    BY <1>1, ElementOfSeq
  <2>2. /\ r \in Seq(Message)
        /\ Len(r) = IF n + 1 <= Len(q) THEN Len(q) - (n + 1) + 1 ELSE 0
        /\ \A i \in 1 .. Len(q) - (n + 1) + 1 : r[i] = q[n + 1 + i - 1]
    BY <2>1, SubSeqProperties
  <2> HIDE DEF r
  <2>3. Len(r) = Len(q) - n
    <3> DEFINE k == Len(q)
    <3>1. k \in Nat /\ n \in 1 .. k /\ Len(r) = IF n + 1 <= k THEN k - (n + 1) + 1 ELSE 0
      BY <1>1, <2>2
    <3> HIDE DEF k
    <3>2. Len(r) = k - n
      BY <3>1
    <3> QED
      BY <3>2 DEF k
  <2>4. ASSUME NEW i \in 1 .. Len(r)
        PROVE  r[i] = q[i + n]
    <3>1. i \in 1 .. Len(q) - (n + 1) + 1 /\ n + 1 + i - 1 = i + n
      BY <1>1, <2>3
    <3> QED
      BY <2>2, <3>1
  <2> QED
    BY <2>2, <2>3, <2>4
<1> HIDE DEF r
<1>3. DOMAIN r = 1 .. Len(r)
  BY <1>2, LenProperties
<1>4. \A i \in DOMAIN r : i + n \in DOMAIN q /\ r[i] = q[i + n]
  BY <1>1, <1>2, <1>3
<1>5. Q(r) \subseteq Q(q)
  BY <1>4 DEF Q
<1>6. Q(r) \subseteq Q(Tail(q))
  <2> SUFFICES ASSUME NEW i \in DOMAIN r
               PROVE  r[i] \in Q(Tail(q))
    BY DEF Q
  <2>1. /\ Len(Tail(q)) = Len(q) - 1 /\ Tail(q) \in Seq(Message)
        /\ \A j \in 1 .. Len(Tail(q)) : Tail(q)[j] = q[j + 1]
    BY <1>1, HeadTailProperties
  <2>2. DOMAIN Tail(q) = 1 .. Len(q) - 1
    BY <2>1, LenProperties
  <2>3. i + n - 1 \in 1 .. Len(q) - 1 /\ (i + n - 1) + 1 = i + n
    BY <1>1, <1>2, <1>3
  <2>4. i + n - 1 \in DOMAIN Tail(q) /\ Tail(q)[i + n - 1] = r[i]
    BY <1>4, <2>1, <2>2, <2>3
  <2> QED
    BY <2>4 DEF Q
<1>7. ASSUME AnnouncedOnce(q)
      PROVE  AnnouncedOnce(r)
  <2> SUFFICES ASSUME NEW i \in DOMAIN r, NEW j \in DOMAIN r, r[i].type = "peer-joined",
                      r[j].type = "peer-joined", r[i].sid = r[j].sid
               PROVE  i = j
    BY DEF AnnouncedOnce
  <2>1. i + n = j + n
    BY <1>4, <1>7 DEF AnnouncedOnce
  <2> QED
    BY <1>1, <1>2, <1>3, <2>1
<1> QED
  BY <1>2, <1>3, <1>4, <1>5, <1>6, <1>7 DEF r

\* A read leaves the queue without its first message, or without several of them.
LEMMA Taken ==
  ASSUME Types, NEW c \in Client, down[c] # <<>>, TakeRead(c)
  PROVE  /\ down' \in [Client -> Seq(Message)] /\ \A x \in Client \ {c} : down'[x] = down[x]
         /\ Q(down'[c]) \subseteq Q(down[c]) /\ Q(down'[c]) \subseteq Q(Tail(down[c]))
         /\ AnnouncedOnce(down[c]) => AnnouncedOnce(down'[c])
<1>1. CASE Pop(c)
  BY <1>1, Popped
<1>2. CASE ~Pop(c)
  <2>1. down \in [Client -> Seq(Message)] /\ down[c] \in Seq(Message) /\ Len(down[c]) \in Nat
    BY LenProperties DEF Types
  <2>2. PICK n \in 2 .. Len(down[c]) : down' = [down EXCEPT ![c] = SubSeq(@, n + 1, Len(@))]
    BY <1>2 DEF TakeRead
  <2>3. n \in 1 .. Len(down[c])
    BY <2>1
  <2>4. down'[c] = SubSeq(down[c], n + 1, Len(down[c])) /\ \A x \in Client \ {c} : down'[x] = down[x]
    BY <2>1, <2>2
  <2>5. /\ down'[c] \in Seq(Message)
        /\ Q(down'[c]) \subseteq Q(down[c]) /\ Q(down'[c]) \subseteq Q(Tail(down[c]))
        /\ AnnouncedOnce(down[c]) => AnnouncedOnce(down'[c])
    BY <2>1, <2>3, <2>4, Suffix
  <2>6. down' \in [Client -> Seq(Message)]
    BY <2>1, <2>2, <2>4, <2>5
  <2> QED
    BY <2>4, <2>5, <2>6
<1> QED
  BY <1>1, <1>2

\* A step that takes no message leaves the queues to the clients.
LEMMA Kept ==
  ASSUME Types, NEW c \in Client, down' = down
  PROVE  /\ down' \in [Client -> Seq(Message)] /\ \A x \in Client \ {c} : down'[x] = down[x]
         /\ Q(down'[c]) \subseteq Q(down[c])
         /\ AnnouncedOnce(down[c]) => AnnouncedOnce(down'[c])
BY DEF Types

\* A client whose socket is gone hears nothing more.
LEMMA Emptied ==
  ASSUME Types, NEW c \in Client, down' = [down EXCEPT ![c] = <<>>]
  PROVE  /\ down' \in [Client -> Seq(Message)] /\ \A x \in Client \ {c} : down'[x] = down[x]
         /\ Q(down'[c]) \subseteq Q(down[c])
         /\ AnnouncedOnce(down[c]) => AnnouncedOnce(down'[c])
<1>1. down \in [Client -> Seq(Message)] /\ <<>> \in Seq(Message)
  BY DEF Types
<1>2. down'[c] = <<>> /\ down' \in [Client -> Seq(Message)] /\ \A x \in Client \ {c} : down'[x] = down[x]
  BY <1>1
<1> QED
  BY <1>2, NoMessage DEF AnnouncedOnce

\* A send adds its messages, or nothing where the socket is closed.
LEMMA Sent ==
  ASSUME Types, NEW c \in Client, NEW r \in Seq(Message), Send(c, r)
  PROVE  /\ up' \in [Client -> Seq(Message)] /\ \A x \in Client \ {c} : up'[x] = up[x]
         /\ \E t \in Seq(Message) : (t = r \/ t = <<>>) /\ up'[c] = up[c] \o t
<1>1. up \in [Client -> Seq(Message)] /\ up[c] \in Seq(Message) /\ <<>> \in Seq(Message)
  BY DEF Types
<1>2. up[c] \o <<>> = up[c] /\ up[c] \o r \in Seq(Message)
  BY <1>1, ConcatEmptySeq, QueueJoins
<1>3. CASE c \in cut
  BY <1>1, <1>2, <1>3 DEF Send
<1>4. CASE c \notin cut
  BY <1>1, <1>2, <1>4 DEF Send
<1> QED
  BY <1>3, <1>4

\* A step that sends nothing adds nothing.
LEMMA Unsent ==
  ASSUME Types, NEW c \in Client, up' = up
  PROVE  /\ up' \in [Client -> Seq(Message)] /\ \A x \in Client \ {c} : up'[x] = up[x]
         /\ Adds(c, <<>>)
<1>1. up[c] \o <<>> = up[c] /\ up \in [Client -> Seq(Message)]
  BY ConcatEmptySeq DEF Types
<1> QED
  BY <1>1, NoMessage DEF Adds

\* The fields of a message a client writes.
LEMMA Written ==
  ASSUME NEW type \in MsgType, NEW s \in Sender \cup {None},
         NEW body \in Key \cup Code \cup {"right", "wrong"}
  PROVE  \E m \in Message : m = Msg(type, s, body) /\ m.type = type /\ m.sid = s /\ m.body = body
<1>1. Msg(type, s, body) \in Message /\ Msg(type, s, body).type = type
      /\ Msg(type, s, body).sid = s /\ Msg(type, s, body).body = body
  BY DEF Msg, Message
<1> QED
  BY <1>1

\* The same as Sent for a single message.
LEMMA SendsOne ==
  ASSUME Types, NEW c \in Client, NEW m \in Message, Send(c, <<m>>)
  PROVE  /\ up' \in [Client -> Seq(Message)] /\ \A x \in Client \ {c} : up'[x] = up[x]
         /\ \E r \in Seq(Message) : (r = <<m>> \/ r = <<>>) /\ Q(r) \subseteq {m} /\ up'[c] = up[c] \o r
<1> DEFINE q == <<m>>
<1>1. q \in Seq(Message) /\ Q(q) = {m} /\ Send(c, q) /\ Q(<<>>) = {}
  BY OneMessage, NoMessage
<1>2. q = <<m>>
  OBVIOUS
<1> HIDE DEF q
<1>3. /\ up' \in [Client -> Seq(Message)] /\ \A x \in Client \ {c} : up'[x] = up[x]
      /\ \E t \in Seq(Message) : (t = q \/ t = <<>>) /\ up'[c] = up[c] \o t
  BY <1>1, Sent
<1> QED
  BY <1>1, <1>2, <1>3

\* What a message did to the wait of a stage.
LEMMA Got ==
  ASSUME IInv, NEW c \in Client, NEW kind, Gets(c, kind)
  PROVE  /\ down[c] # <<>> /\ Head(down[c]) \in Message /\ Head(down[c]) \in Q(down[c])
         /\ kind = "answer" =>
              /\ stage[c] \in DOMAIN WaitType /\ settled[c] = "no"
              /\ Head(down[c]).type = WaitType[stage[c]]
              /\ stage[c] \in OfSession => Head(down[c]).sid \in {None, sid[c]}
<1>1. down[c] # <<>> /\ down[c] \in Seq(Message) /\ Reaction(c) = kind
  BY DEF Gets, IInv, Types
<1>2. ASSUME Reaction(c) = "answer"
      PROVE  /\ stage[c] \in DOMAIN WaitType /\ settled[c] = "no"
             /\ Head(down[c]).type = WaitType[stage[c]]
             /\ stage[c] \in OfSession => Head(down[c]).sid \in {None, sid[c]}
  BY <1>2 DEF Reaction
<1> QED
  BY <1>1, <1>2, QueueEnds

-----------------------------------------------------------------------------
(* The actions of the clients *)

\* A step that says nothing and stays in its session.
Quiet(c) ==
  /\ up' = up /\ accepted' = accepted /\ sid'[c] = sid[c]
  /\ stage[c] \in Keyed => stage'[c] \in Keyed /\ key'[c] = key[c]
  /\ stage'[c] = "start" => stage[c] = "start"
  /\ stage[c] \in {"ice", "paired", "over"} => stage'[c] \in {"ice", "paired", "over"}
  /\ stage[c] = "awaiting" => stage'[c] \in {"awaiting", "ice", "paired"}
  /\ c \in Sender => (stage'[c] \in Proven \/ settled'[c] = "good" => Confident(c))
  /\ c = Receiver /\ stage'[c] \in {"deciding", "ice", "paired"} =>
       \/ stage[c] \in {"deciding", "ice", "paired"}
       \/ Carries(down[c], {"pair-request"}, sid[c])
  /\ c \in Sender /\ stage'[c] \in {"ice", "paired"} =>
       stage[c] \in {"ice", "paired"} \/ Carries(down[c], {"pair-accept"}, c)

\* A step of a client that sends nothing and learns nothing new keeps the invariant.
LEMMA QuietKeeps ==
  ASSUME IInv, NEW c \in Client, Moves(c), Quiet(c)
  PROVE  IInv'
<1>1. Types
  BY DEF IInv
<1> DEFINE r == <<>>
<1>2. Adds(c, r) /\ Q(r) = {} /\ r = <<>>
  BY <1>1, Unsent, NoMessage DEF Quiet
<1>3. ConnectsFirst(<<>>)
  BY DEF ConnectsFirst
<1> HIDE DEF r
<1>4. CASE c = Receiver
  <2>1. Receives(r)
    BY <1>2, <1>4 DEF Receives, Quiet
  <2> QED
    BY <1>2, <1>4, <2>1, ReceiverKeeps
<1>5. CASE c \in Sender
  <2>1. Sends(c, r)
    BY <1>2, <1>5 DEF Sends, Quiet
  <2> QED
    BY <1>2, <1>5, <2>1, SenderKeeps
<1> QED
  BY <1>4, <1>5, Clients

\* A step that ends the client.
LEMMA OverKeeps ==
  ASSUME IInv, NEW c \in Client, Moves(c), NEW r, Adds(c, r), accepted' = accepted,
         stage'[c] = "over", sid'[c] = None, settled'[c] # "good",
         \A m \in Q(r) : \/ m.type \in {"bye", "close"}
                         \/ /\ m.type = "pair-reject" /\ c = Receiver
                            /\ stage[c] = "deciding" /\ m.sid = sid[c]
  PROVE  IInv'
<1>1. CASE c = Receiver
  <2>1. Receives(r)
    BY <1>1 DEF Receives, RelayType, Answers
  <2> QED
    BY <1>1, <2>1, ReceiverKeeps
<1>2. CASE c \in Sender
  <2>1. Sends(c, r)
    BY <1>2, Clients DEF Sends, Proven
  <2> QED
    BY <1>2, <2>1, SenderKeeps
<1> QED
  BY <1>1, <1>2, Clients

\* The parting words are not of a session.
LEMMA Partings ==
  /\ Plain("bye") \in Message /\ Close \in Message
  /\ Plain("bye").type = "bye" /\ Close.type = "close"
BY DEF Plain, Close, Msg, Message, MsgType, Key

\* A message that is not relayed is sound.
LEMMA OtherSound ==
  ASSUME NEW c, NEW m, m.type \notin RelayType
  PROVE  Sound(c, m)'
BY DEF Sound, RelayType, Answers

\* A command that ends, in whichever way, keeps the invariant.
LEMMA EndKeeps ==
  ASSUME IInv, NEW c \in Client,
         (\E result \in Outcome : End(c, result) /\ UNCHANGED <<counters, accepted>> /\ ClientOnly)
           \/ \E result \in Outcome : Vanish(c, result)
  PROVE  IInv'
<1>1. Types
  BY DEF IInv
<1> DEFINE bye == <<Plain("bye"), Close>>
           close == <<Close>>
           nothing == <<>>
<1>2. Send(c, bye) \/ Send(c, close) \/ Send(c, nothing)
  BY DEF End, Vanish
<1>3. /\ bye \in Seq(Message) /\ Q(bye) = {Plain("bye"), Close}
      /\ close \in Seq(Message) /\ Q(close) = {Close}
      /\ nothing \in Seq(Message) /\ Q(nothing) = {}
  BY Partings, NoMessage, OneMessage, TwoMessages
<1> HIDE DEF bye, close, nothing
<1>4. PICK q \in {bye, close, nothing} : Send(c, q)
  BY <1>2
<1>5. q \in Seq(Message) /\ \A m \in Q(q) : m.type \in {"bye", "close"}
  BY <1>3, <1>4, Partings
<1>6. /\ up' \in [Client -> Seq(Message)] /\ \A x \in Client \ {c} : up'[x] = up[x]
      /\ \E t \in Seq(Message) : (t = q \/ t = <<>>) /\ up'[c] = up[c] \o t
  BY <1>1, <1>4, <1>5, Sent
<1>7. PICK r \in Seq(Message) : (r = q \/ r = <<>>) /\ up'[c] = up[c] \o r
  BY <1>6
<1>8. \A m \in Q(r) : m.type \in {"bye", "close"}
  BY <1>5, <1>7, NoMessage
<1>9. Adds(c, r)
  BY <1>7, <1>8, OtherSound DEF Adds, RelayType
<1>10. /\ down' = [down EXCEPT ![c] = <<>>] /\ stage' = [stage EXCEPT ![c] = "over"]
       /\ sid' = [sid EXCEPT ![c] = None] /\ key' = [key EXCEPT ![c] = None]
       /\ settled' = [settled EXCEPT ![c] = "no"]
       /\ accepted' = accepted /\ knows' = knows /\ session' = session
  BY DEF End, Vanish, Go, ClientOnly, setting, server
<1>11. /\ down' \in [Client -> Seq(Message)] /\ \A x \in Client \ {c} : down'[x] = down[x]
       /\ Q(down'[c]) \subseteq Q(down[c])
       /\ AnnouncedOnce(down[c]) => AnnouncedOnce(down'[c])
  BY <1>1, <1>10, Emptied
<1>12. Types'
  BY <1>1, <1>6, <1>10, <1>11 DEF Types, Stage, Key
<1>13. stage'[c] = "over" /\ sid'[c] = None /\ settled'[c] = "no"
  BY <1>1, <1>10 DEF Types
<1>14. Local(c)'
  BY <1>13 DEF Local, Keyed, Proven
<1>15. Moves(c)
  BY <1>1, <1>6, <1>10, <1>11, <1>12, <1>14 DEF Moves, Types
<1> QED
  BY <1>8, <1>9, <1>10, <1>13, <1>15, OverKeeps

\* The user's refusal keeps the invariant.
LEMMA DeclineKeeps ==
  ASSUME IInv, Decline
  PROVE  IInv'
<1> DEFINE c == Receiver
           nothing == <<>>
<1>1. Types /\ Local(c) /\ c \in Client /\ stage[c] = "deciding"
  BY Clients DEF IInv, Decline
<1>3. sid[c] \in Sender /\ key[c] = <<sid[c], "shared">> /\ key[c] \in Key /\ settled[c] # "good"
  BY <1>1 DEF Types, Local, Keyed, Proven
<1>4. PICK m \in Message : /\ m = Msg("pair-reject", sid[c], key[c])
                           /\ m.type = "pair-reject" /\ m.sid = sid[c] /\ m.body = key[c]
  BY <1>3, Written DEF MsgType, RelayType
<1> DEFINE no == <<m, Plain("bye"), Close>>
<1>2. Send(c, no) \/ Send(c, nothing)
  <2>1. Send(c, <<Msg("pair-reject", sid[c], key[c]), Plain("bye"), Close>>) \/ Send(c, <<>>)
    BY DEF Decline
  <2> QED
    BY <1>4, <2>1, Zenon
<1>5. /\ no \in Seq(Message) /\ Q(no) = {m, Plain("bye"), Close}
      /\ nothing \in Seq(Message) /\ Q(nothing) = {}
  BY <1>4, Partings, NoMessage, ThreeMessages
<1> HIDE DEF no, nothing
<1>6. PICK q \in {no, nothing} : Send(c, q)
  BY <1>2
<1>7. q \in Seq(Message) /\ \A n \in Q(q) : n = m \/ n.type \in {"bye", "close"}
  BY <1>5, <1>6, Partings
<1>8. /\ up' \in [Client -> Seq(Message)] /\ \A x \in Client \ {c} : up'[x] = up[x]
      /\ \E t \in Seq(Message) : (t = q \/ t = <<>>) /\ up'[c] = up[c] \o t
  BY <1>1, <1>6, <1>7, Sent
<1>9. PICK r \in Seq(Message) : (r = q \/ r = <<>>) /\ up'[c] = up[c] \o r
  BY <1>8
<1>10. \A n \in Q(r) : n = m \/ n.type \in {"bye", "close"}
  BY <1>7, <1>9, NoMessage
<1>11. Sound(c, m)'
  BY <1>3, <1>4 DEF Sound, Answers, RelayType
<1>12. Adds(c, r)
  BY <1>4, <1>9, <1>10, <1>11, OtherSound DEF Adds, RelayType
<1>13. /\ down' = [down EXCEPT ![c] = <<>>] /\ stage' = [stage EXCEPT ![c] = "over"]
       /\ sid' = [sid EXCEPT ![c] = None] /\ key' = [key EXCEPT ![c] = None]
       /\ settled' = settled /\ accepted' = accepted /\ knows' = knows /\ session' = session
  BY DEF Decline, Go, ClientOnly, setting, server
<1>14. /\ down' \in [Client -> Seq(Message)] /\ \A x \in Client \ {c} : down'[x] = down[x]
       /\ Q(down'[c]) \subseteq Q(down[c])
       /\ AnnouncedOnce(down[c]) => AnnouncedOnce(down'[c])
  BY <1>1, <1>13, Emptied
<1>15. Types'
  BY <1>1, <1>8, <1>13, <1>14 DEF Types, Stage, Key
<1>16. stage'[c] = "over" /\ sid'[c] = None /\ settled'[c] # "good"
  BY <1>1, <1>3, <1>13 DEF Types
<1>17. Local(c)'
  BY <1>16 DEF Local, Keyed, Proven
<1>18. Moves(c)
  BY <1>1, <1>8, <1>13, <1>14, <1>15, <1>17 DEF Moves, Types
<1> QED
  BY <1>1, <1>4, <1>10, <1>12, <1>13, <1>16, <1>18, OverKeeps

\* A command that never reaches the server keeps the invariant.
LEMMA NeverConnectsKeeps ==
  ASSUME IInv, NEW c \in Client, NeverConnects(c)
  PROVE  IInv'
<1>1. Types /\ Local(c)
  BY DEF IInv
<1>2. /\ stage[c] = "start" /\ stage' = [stage EXCEPT ![c] = "over"]
      /\ sid' = sid /\ key' = key /\ settled' = settled /\ up' = up /\ down' = down
      /\ accepted' = accepted /\ knows' = knows /\ session' = session
  BY DEF NeverConnects, Go, held, ClientOnly, setting, server
<1>3. Adds(c, <<>>) /\ Q(<<>>) = {}
  BY <1>1, <1>2, Unsent, NoMessage
<1>4. Types' /\ stage'[c] = "over"
  BY <1>1, <1>2 DEF Types, Stage
<1>5. sid'[c] = None /\ settled'[c] # "good"
  BY <1>1, <1>2 DEF Local, Keyed
<1>6. Local(c)'
  BY <1>4, <1>5 DEF Local, Keyed, Proven
<1>7. Moves(c)
  BY <1>1, <1>2, <1>4, <1>6 DEF Moves, Types
<1> QED
  BY <1>2, <1>3, <1>4, <1>5, <1>7, OverKeeps

\* A message is dropped, or the close of the socket is noted.
LEMMA DropKeeps ==
  ASSUME IInv, NEW c \in Client, Lose(c) \/ SeesClose(c)
  PROVE  IInv'
<1>1. Types /\ Local(c)
  BY DEF IInv
<1>2. /\ down[c] # <<>> /\ Pop(c) /\ sid' = sid /\ key' = key /\ settled' = settled /\ stage' = stage
      /\ up' = up /\ accepted' = accepted /\ knows' = knows /\ session' = session
  BY DEF Lose, SeesClose, Gets, ClientOnly, setting, server
<1>3. /\ down' \in [Client -> Seq(Message)] /\ \A x \in Client \ {c} : down'[x] = down[x]
      /\ Q(down'[c]) \subseteq Q(down[c])
      /\ AnnouncedOnce(down[c]) => AnnouncedOnce(down'[c])
  BY <1>1, <1>2, Popped
<1>4. Types' /\ Local(c)'
  BY <1>1, <1>2, <1>3 DEF Types, Local
<1>5. Moves(c)
  BY <1>2, <1>3, <1>4 DEF Moves
<1>6. Quiet(c)
  BY <1>2 DEF Quiet, Confident
<1> QED
  BY <1>5, <1>6, QuietKeeps

\* The receiver that hears its code is registered keeps the invariant.
LEMMA RegisteredKeeps ==
  ASSUME IInv, Registered
  PROVE  IInv'
<1> DEFINE c == Receiver
<1>1. Types /\ Local(c) /\ c \in Client /\ c \notin Sender
  BY Clients DEF IInv
<1>2. /\ stage[c] \in {"registering", "rekeying", "rerequesting"}
      /\ down[c] # <<>> /\ TakeRead(c) /\ sid' = sid /\ key' = key /\ settled' = settled
      /\ stage' = [stage EXCEPT ![c] = "joining"]
      /\ up' = up /\ accepted' = accepted /\ knows' = knows /\ session' = session
  BY DEF Registered, Gets, Go, held, ClientOnly, setting, server
<1>3. /\ down' \in [Client -> Seq(Message)] /\ \A x \in Client \ {c} : down'[x] = down[x]
      /\ Q(down'[c]) \subseteq Q(down[c])
      /\ AnnouncedOnce(down[c]) => AnnouncedOnce(down'[c])
  BY <1>1, <1>2, Taken
<1>4. Types' /\ stage'[c] = "joining"
  BY <1>1, <1>2, <1>3 DEF Types, Stage
<1>5. Local(c)'
  BY <1>1, <1>2, <1>4 DEF Local, Keyed, Proven
<1>6. Moves(c)
  BY <1>1, <1>2, <1>3, <1>4, <1>5 DEF Moves, Types
<1>7. Quiet(c)
  BY <1>1, <1>2, <1>4 DEF Quiet, Keyed
<1> QED
  BY <1>1, <1>6, <1>7, QuietKeeps

\* Deriving a key from the peer's share keeps the invariant.
LEMMA PeerShareKeeps ==
  ASSUME IInv, NEW c \in Client, PeerShare(c)
  PROVE  IInv'
<1> DEFINE m == Head(down[c])
           other == IF c = Receiver THEN m.sid ELSE Receiver
<1>1. Types /\ Local(c)
  BY DEF IInv
<1>2. /\ stage[c] = "share" /\ Gets(c, "answer") /\ Pop(c)
      /\ sid' = sid /\ settled' = settled /\ stage' = [stage EXCEPT ![c] = "deriving"]
      /\ key' = [key EXCEPT ![c] = SessionKey(c, m.body)]
      /\ up' = up /\ accepted' = accepted /\ knows' = knows /\ session' = session
  BY DEF PeerShare, Go, ClientOnly, setting, server
<1>3. /\ down[c] # <<>> /\ m \in Q(down[c]) /\ settled[c] = "no"
      /\ m.type = "pake" /\ m.sid \in {None, sid[c]}
  BY <1>2, Got DEF WaitType, OfSession
<1>4. m.sid \in Sender /\ c \in {m.sid, Receiver} /\ m.body = Words(other)
  BY <1>3 DEF IInv, DownSound, Sound, RelayType
<1>5. m.sid = sid[c] /\ sid[c] # None
  BY <1>3, <1>4, Clients
<1>6. /\ SessionKey(c, m.body) \in {<<sid[c], "shared">>, <<sid[c], c>>}
      /\ SessionKey(c, m.body) = <<sid[c], "shared">> => sid[c] \in knows
      /\ SessionKey(c, m.body) \in Key
  <2>1. /\ Words(c) = Words(other) => sid[c] \in knows
        /\ c # "shared"
    BY <1>4, <1>5, Clients DEF Words
  <2> QED
    BY <1>1, <1>4, <1>5, <2>1 DEF SessionKey, Key
<1>7. /\ down' \in [Client -> Seq(Message)] /\ \A x \in Client \ {c} : down'[x] = down[x]
      /\ Q(down'[c]) \subseteq Q(down[c])
      /\ AnnouncedOnce(down[c]) => AnnouncedOnce(down'[c])
  BY <1>1, <1>2, <1>3, Popped
<1>8. Types' /\ stage'[c] = "deriving" /\ key'[c] = SessionKey(c, m.body)
  BY <1>1, <1>2, <1>6, <1>7 DEF Types, Stage
<1>9. Local(c)'
  BY <1>1, <1>2, <1>3, <1>5, <1>6, <1>8 DEF Local, Keyed, Proven
<1>10. Moves(c)
  BY <1>1, <1>2, <1>7, <1>8, <1>9 DEF Moves, Types
<1>11. Quiet(c)
  BY <1>2, <1>3, <1>8 DEF Quiet, Keyed, Proven
<1> QED
  BY <1>10, <1>11, QuietKeeps

\* The peer's tag is the own key only when both hold the shared one.
LEMMA TagProves ==
  ASSUME IInv, NEW c \in Client, stage[c] \in {"deriving", "confirming"},
         Gets(c, "answer"), Verifies(c, Head(down[c]))
  PROVE  /\ key[c] = <<sid[c], "shared">>
         /\ c \in Sender => Proves(down[c], c)
<1> DEFINE m == Head(down[c])
           other == IF c = Receiver THEN m.sid ELSE Receiver
<1>1. Types /\ Local(c)
  BY DEF IInv
<1>2. m \in Q(down[c]) /\ m.type = "confirm" /\ m.sid \in {None, sid[c]}
  BY Got DEF WaitType, OfSession
<1>3. m.sid \in Sender /\ c \in {m.sid, Receiver} /\ m.body \in {<<m.sid, "shared">>, <<m.sid, other>>}
  BY <1>2 DEF IInv, DownSound, Sound, RelayType
<1>4. m.sid = sid[c] /\ other # c
  BY <1>2, <1>3, Clients
<1>5. m.body = key[c] /\ key[c] \in {<<sid[c], "shared">>, <<sid[c], c>>}
  BY <1>1 DEF Verifies, Local, Keyed
<1>6. key[c] = <<sid[c], "shared">>
  BY <1>3, <1>4, <1>5
<1>7. c \in Sender => sid[c] = c
  BY <1>1, <1>3, <1>4, Clients DEF Local
<1> QED
  BY <1>2, <1>4, <1>5, <1>6, <1>7 DEF Proves

\* A confirmation that settles, verified or not, keeps the invariant.
LEMMA SettleKeeps ==
  ASSUME IInv, NEW c \in Client, Settle(c)
  PROVE  IInv'
<1>1. Types /\ Local(c)
  BY DEF IInv
<1>2. PICK kind \in {"answer", "left", "refused"} :
        /\ \/ stage[c] \in {"deriving", "confirming"}
           \/ stage[c] = "share" /\ kind # "answer"
        /\ Gets(c, kind)
        /\ settled' = [settled EXCEPT ![c] =
             IF kind # "answer" THEN kind ELSE IF Verifies(c, Head(down[c])) THEN "good" ELSE "bad"]
  BY DEF Settle
<1>3. /\ TakeRead(c) /\ sid' = sid /\ key' = key /\ stage' = stage
      /\ up' = up /\ accepted' = accepted /\ knows' = knows /\ session' = session
  BY DEF Settle, ClientOnly, setting, server
<1>4. down[c] # <<>>
  BY <1>2 DEF Gets
<1>5. /\ down' \in [Client -> Seq(Message)] /\ \A x \in Client \ {c} : down'[x] = down[x]
      /\ Q(down'[c]) \subseteq Q(down[c])
      /\ AnnouncedOnce(down[c]) => AnnouncedOnce(down'[c])
  BY <1>1, <1>3, <1>4, Taken
<1>6. Types' /\ \A x \in Client \ {c} : settled'[x] = settled[x]
  BY <1>1, <1>2, <1>3, <1>5 DEF Types
<1>7. settled'[c] = "good" =>
        /\ stage[c] \in {"deriving", "confirming"} /\ key[c] = <<sid[c], "shared">>
        /\ c \in Sender => Proves(down[c], c)
  BY <1>1, <1>2, TagProves DEF Types
<1>8. Local(c)'
  BY <1>1, <1>3, <1>7 DEF Local
<1>9. Moves(c)
  BY <1>3, <1>5, <1>6, <1>8 DEF Moves
<1>10. Quiet(c)
  BY <1>3, <1>7 DEF Quiet, Confident
<1> QED
  BY <1>9, <1>10, QuietKeeps

\* The timer of the key exchange.
LEMMA TimerKeeps ==
  ASSUME IInv, NEW c \in Client, settled' = [settled EXCEPT ![c] = "timeout"],
         UNCHANGED <<sid, key, cached, counters, stage, shut, outcome, accepted, up, down>>, ClientOnly
  PROVE  IInv'
<1>1. Types /\ Local(c)
  BY DEF IInv
<1>2. /\ down' = down /\ sid' = sid /\ key' = key /\ stage' = stage
      /\ up' = up /\ accepted' = accepted /\ knows' = knows /\ session' = session
  BY DEF ClientOnly, setting, server
<1>3. Types' /\ settled'[c] = "timeout" /\ \A x \in Client \ {c} : settled'[x] = settled[x]
  BY <1>1, <1>2 DEF Types
<1>4. Local(c)'
  BY <1>1, <1>2, <1>3 DEF Local
<1>5. Moves(c)
  BY <1>2, <1>3, <1>4 DEF Moves
<1>6. Quiet(c)
  BY <1>2, <1>3 DEF Quiet, Confident
<1> QED
  BY <1>5, <1>6, QuietKeeps

\* Going on after the confirmation keeps the invariant.
LEMMA ConfirmedKeeps ==
  ASSUME IInv, NEW c \in Client, Confirmed(c)
  PROVE  IInv'
<1> DEFINE st == IF c = Receiver THEN "request" ELSE "sealing"
<1>1. Types /\ Local(c)
  BY DEF IInv
<1>2. /\ stage[c] = "confirming" /\ settled[c] = "good"
      /\ stage' = [stage EXCEPT ![c] = st] /\ settled' = [settled EXCEPT ![c] = "no"]
      /\ down' = down /\ sid' = sid /\ key' = key
      /\ up' = up /\ accepted' = accepted /\ knows' = knows /\ session' = session
  BY DEF Confirmed, Go, ClientOnly, setting, server
<1>3. /\ Types' /\ settled'[c] = "no" /\ stage'[c] = st
      /\ \A x \in Client \ {c} : settled'[x] = settled[x] /\ stage'[x] = stage[x]
  BY <1>1, <1>2 DEF Types, Stage
<1>4. Local(c)'
  BY <1>1, <1>2, <1>3 DEF Local, Keyed, Proven
<1>5. Moves(c)
  BY <1>2, <1>3, <1>4 DEF Moves
<1>6. Quiet(c)
  BY <1>2, <1>3 DEF Quiet, Confident, Keyed
<1> QED
  BY <1>5, <1>6, QuietKeeps

\* The wait of a stage is answered and the client goes on to the next.
LEMMA AnsweredKeeps ==
  ASSUME IInv, NEW c \in Client, NEW st \in Proven, stage[c] \in Proven, down[c] # <<>>, Pop(c), Go(c, st),
         UNCHANGED <<sid, key, settled, accepted, up>>, ClientOnly,
         stage[c] \in {"ice", "paired"} => st \in {"ice", "paired"},
         stage[c] = "awaiting" => st \in {"awaiting", "ice", "paired"},
         c = Receiver /\ st \in {"deciding", "ice", "paired"} =>
           stage[c] \in {"deciding", "ice", "paired"} \/ Carries(down[c], {"pair-request"}, sid[c]),
         c \in Sender /\ st \in {"ice", "paired"} =>
           stage[c] \in {"ice", "paired"} \/ Carries(down[c], {"pair-accept"}, c)
  PROVE  IInv'
<1>1. Types /\ Local(c)
  BY DEF IInv
<1>2. /\ stage' = [stage EXCEPT ![c] = st] /\ sid' = sid /\ key' = key /\ settled' = settled
      /\ up' = up /\ accepted' = accepted /\ knows' = knows /\ session' = session
  BY DEF Go, ClientOnly, setting, server
<1>3. /\ down' \in [Client -> Seq(Message)] /\ \A x \in Client \ {c} : down'[x] = down[x]
      /\ Q(down'[c]) \subseteq Q(down[c])
      /\ AnnouncedOnce(down[c]) => AnnouncedOnce(down'[c])
  BY <1>1, Popped
<1>4. Types' /\ stage'[c] = st /\ \A x \in Client \ {c} : stage'[x] = stage[x]
  BY <1>1, <1>2, <1>3 DEF Types, Stage, Proven
<1>5. Local(c)'
  BY <1>1, <1>2, <1>4 DEF Local, Keyed, Proven
<1>6. Moves(c)
  BY <1>2, <1>3, <1>4, <1>5 DEF Moves
<1>7. Quiet(c)
  BY <1>2, <1>4 DEF Quiet, Confident, Keyed, Proven
<1> QED
  BY <1>6, <1>7, QuietKeeps

\* The receiver that hears the request keeps the invariant.
LEMMA RequestsKeeps ==
  ASSUME IInv, Requests
  PROVE  IInv'
<1> DEFINE c == Receiver
           m == Head(down[c])
<1>1. Types /\ Local(c) /\ c \in Client /\ c \notin Sender
  BY Clients DEF IInv
<1>2. /\ stage[c] = "request" /\ Gets(c, "answer") /\ Pop(c) /\ Go(c, "deciding")
      /\ UNCHANGED <<sid, key, settled, accepted, up>> /\ ClientOnly
  BY DEF Requests, held
<1>3. down[c] # <<>> /\ m \in Q(down[c]) /\ m.type = "pair-request" /\ m.sid \in {None, sid[c]}
  BY <1>1, <1>2, Got DEF WaitType, OfSession
<1>4. m.sid \in Sender
  BY <1>1, <1>3 DEF IInv, DownSound, RelayType
<1>5. Carries(down[c], {"pair-request"}, sid[c])
  BY <1>3, <1>4, Clients DEF Carries
<1> QED
  BY <1>1, <1>2, <1>3, <1>5, AnsweredKeeps DEF Proven

\* The sender that hears it is accepted keeps the invariant.
LEMMA AcceptedKeeps ==
  ASSUME IInv, NEW c \in Sender, Accepted(c)
  PROVE  IInv'
<1> DEFINE m == Head(down[c])
           st == IF c \in cached THEN "paired" ELSE "ice"
<1>1. Types /\ Local(c) /\ c \in Client /\ c # Receiver
  BY Clients DEF IInv
<1>2. /\ stage[c] = "awaiting" /\ Gets(c, "answer") /\ Pop(c) /\ Go(c, st)
      /\ UNCHANGED <<sid, key, settled, accepted, up>> /\ ClientOnly
  BY DEF Accepted, held
<1>3. down[c] # <<>> /\ m \in Q(down[c]) /\ m.type = "pair-accept"
  BY <1>1, <1>2, Got DEF WaitType, OfSession
<1>4. c \in {m.sid, Receiver}
  BY <1>1, <1>3 DEF IInv, DownSound, RelayType
<1>5. Carries(down[c], {"pair-accept"}, c)
  BY <1>1, <1>3, <1>4 DEF Carries
<1>6. st \in {"paired", "ice"}
  OBVIOUS
<1> HIDE DEF st
<1> QED
  BY <1>1, <1>2, <1>3, <1>5, <1>6, AnsweredKeeps DEF Proven

\* Hearing the ICE configuration keeps the invariant.
LEMMA IceConfigKeeps ==
  ASSUME IInv, NEW c \in Client, IceConfig(c)
  PROVE  IInv'
<1>1. /\ stage[c] = "ice" /\ down[c] # <<>> /\ Pop(c) /\ Go(c, "paired")
      /\ UNCHANGED <<sid, key, settled, accepted, up>> /\ ClientOnly
  BY DEF IceConfig, Gets
<1> QED
  BY <1>1, AnsweredKeeps DEF Proven

\* The wait for the ICE configuration times out.
LEMMA IceTimerKeeps ==
  ASSUME IInv, NEW c \in Client, stage[c] = "ice", Go(c, "paired"),
         UNCHANGED <<held, counters, shut, outcome, accepted, up, down>>, ClientOnly
  PROVE  IInv'
<1>1. Types /\ Local(c)
  BY DEF IInv
<1>2. /\ stage' = [stage EXCEPT ![c] = "paired"] /\ sid' = sid /\ key' = key /\ settled' = settled
      /\ up' = up /\ down' = down /\ accepted' = accepted /\ knows' = knows /\ session' = session
  BY DEF Go, held, ClientOnly, setting, server
<1>3. Types' /\ stage'[c] = "paired" /\ \A x \in Client \ {c} : stage'[x] = stage[x]
  BY <1>1, <1>2 DEF Types, Stage
<1>4. Local(c)'
  BY <1>1, <1>2, <1>3 DEF Local, Keyed, Proven
<1>5. Moves(c)
  BY <1>2, <1>3, <1>4 DEF Moves
<1>6. Quiet(c)
  BY <1>2, <1>3 DEF Quiet, Confident, Keyed, Proven
<1> QED
  BY <1>5, <1>6, QuietKeeps

\* The receiver registers or gives its session up.
LEMMA RegisterKeeps ==
  ASSUME IInv, Moves(Receiver), NEW r, Adds(Receiver, r), accepted' = accepted,
         \A m \in Q(r) : m.type \notin RelayType,
         sid'[Receiver] = None, stage[Receiver] \notin {"ice", "paired", "over"},
         stage'[Receiver] \notin {"deciding", "ice", "paired"}
  PROVE  IInv'
<1>1. Receives(r)
  BY DEF Receives, RelayType, Answers
<1> QED
  BY <1>1, ReceiverKeeps

\* A receiver that gives its session up and waits again keeps the invariant.
LEMMA GiveUpKeeps ==
  ASSUME IInv, NEW type \in {"register", "retry"}, Send(Receiver, <<Plain(type)>>),
         NEW st \in {"registering", "rekeying", "rerequesting"}, stage' = [stage EXCEPT ![Receiver] = st],
         stage[Receiver] \notin {"ice", "paired", "over"},
         \/ sid' = sid /\ key' = key /\ sid[Receiver] = None
         \/ sid' = [sid EXCEPT ![Receiver] = None] /\ key' = [key EXCEPT ![Receiver] = None],
         settled' = [settled EXCEPT ![Receiver] = "no"] \/ (settled' = settled /\ settled[Receiver] # "good"),
         down' = down \/ (down[Receiver] # <<>> /\ (Pop(Receiver) \/ TakeRead(Receiver))),
         accepted' = accepted, knows' = knows, session' = session
  PROVE  IInv'
<1> DEFINE c == Receiver
<1>1. Types /\ c \in Client
  BY Clients DEF IInv
<1>2. PICK m \in Message : m = Plain(type) /\ m.type = type /\ m.sid = None
  BY DEF Plain, Msg, Message, MsgType, Key
<1>3. Send(c, <<m>>)
  BY <1>2
<1>4. /\ up' \in [Client -> Seq(Message)] /\ \A x \in Client \ {c} : up'[x] = up[x]
      /\ \E r \in Seq(Message) : (r = <<m>> \/ r = <<>>) /\ Q(r) \subseteq {m} /\ up'[c] = up[c] \o r
  BY <1>1, <1>3, SendsOne
<1>5. PICK r \in Seq(Message) : Q(r) \subseteq {m} /\ up'[c] = up[c] \o r
  BY <1>4
<1>6. \A n \in Q(r) : n.type \notin RelayType /\ n.type # "connect"
  BY <1>2, <1>5 DEF RelayType
<1>7. Adds(c, r)
  BY <1>5, <1>6, OtherSound DEF Adds
<1>8. /\ down' \in [Client -> Seq(Message)] /\ \A x \in Client \ {c} : down'[x] = down[x]
      /\ Q(down'[c]) \subseteq Q(down[c])
      /\ AnnouncedOnce(down[c]) => AnnouncedOnce(down'[c])
  BY <1>1, Popped, Taken, Kept
<1>9. /\ sid' \in [Client -> Sender \cup {None}] /\ key' \in [Client -> Key] /\ sid'[c] = None
      /\ \A x \in Client \ {c} : sid'[x] = sid[x] /\ key'[x] = key[x]
  BY <1>1 DEF Types, Key
<1>10. /\ settled' \in [Client -> {"no", "good", "bad", "left", "refused", "timeout"}]
       /\ settled'[c] # "good" /\ \A x \in Client \ {c} : settled'[x] = settled[x]
  BY <1>1 DEF Types
<1>11. stage' \in [Client -> Stage] /\ stage'[c] = st /\ \A x \in Client \ {c} : stage'[x] = stage[x]
  BY <1>1 DEF Types, Stage
<1>12. Types'
  BY <1>1, <1>4, <1>8, <1>9, <1>10, <1>11 DEF Types
<1>13. Local(c)'
  BY <1>9, <1>10, <1>11, Clients DEF Local, Keyed, Proven
<1>14. Moves(c)
  BY <1>4, <1>8, <1>9, <1>10, <1>11, <1>12, <1>13 DEF Moves
<1> QED
  BY <1>6, <1>7, <1>9, <1>11, <1>14, RegisterKeeps

\* Registering, the first time or again, keeps the invariant.
LEMMA ReceiverStarts ==
  ASSUME IInv, StartReceiver \/ RegisterAgain
  PROVE  IInv'
<1> DEFINE c == Receiver
<1>1. Types /\ Local(c) /\ c \in Client
  BY Clients DEF IInv
<1>2. /\ stage[c] \in {"start", "registering"} /\ Send(c, <<Plain("register")>>)
      /\ sid' = sid /\ key' = key /\ settled' = settled
      /\ accepted' = accepted /\ knows' = knows /\ session' = session
      /\ down' = down \/ (down[c] # <<>> /\ Pop(c))
  BY DEF StartReceiver, RegisterAgain, Gets, held, ClientOnly, setting, server
<1>3. stage' = [stage EXCEPT ![c] = "registering"]
  BY <1>1 DEF StartReceiver, RegisterAgain, Go, Types
<1>4. sid[c] = None /\ settled[c] # "good"
  BY <1>1, <1>2 DEF Local, Keyed
<1> QED
  BY <1>2, <1>3, <1>4, GiveUpKeeps

\* Giving a session up during the key exchange keeps the invariant.
LEMMA RekeyKeeps ==
  ASSUME IInv, Rekey
  PROVE  IInv'
<1> DEFINE c == Receiver
<1>1. /\ stage[c] \in {"share", "confirming"} /\ Send(c, <<Plain("retry")>>)
      /\ stage' = [stage EXCEPT ![c] = "rekeying"]
      /\ sid' = [sid EXCEPT ![c] = None] /\ key' = [key EXCEPT ![c] = None]
      /\ settled' = [settled EXCEPT ![c] = "no"]
      /\ accepted' = accepted /\ knows' = knows /\ session' = session /\ down' = down
  BY DEF Rekey, Continuing, Go, ClientOnly, setting, server
<1> QED
  BY <1>1, GiveUpKeeps

\* Giving a session up while waiting for its request keeps the invariant.
LEMMA GiveUpRequestKeeps ==
  ASSUME IInv, GiveUpRequest, down' = down \/ (down[Receiver] # <<>> /\ (Pop(Receiver) \/ TakeRead(Receiver)))
  PROVE  IInv'
<1> DEFINE c == Receiver
<1>1. Local(c)
  BY Clients DEF IInv
<1>2. /\ stage[c] = "request" /\ Send(c, <<Plain("retry")>>)
      /\ stage' = [stage EXCEPT ![c] = "rerequesting"]
      /\ sid' = [sid EXCEPT ![c] = None] /\ key' = [key EXCEPT ![c] = None]
      /\ settled' = settled
      /\ accepted' = accepted /\ knows' = knows /\ session' = session
  BY DEF GiveUpRequest, Go, ClientOnly, setting, server
<1>3. settled[c] # "good"
  BY <1>1, <1>2 DEF Local
<1> QED
  BY <1>2, <1>3, GiveUpKeeps

\* A sender that asks for the code keeps the invariant.
LEMMA StartSenderKeeps ==
  ASSUME IInv, NEW c \in Sender, StartSender(c)
  PROVE  IInv'
<1>1. Types /\ Local(c) /\ c \in Client /\ c # Receiver
  BY Clients DEF IInv
<1>2. /\ stage[c] = "start" /\ Send(c, <<Plain("connect")>>) /\ stage' = [stage EXCEPT ![c] = "joining"]
      /\ sid' = sid /\ key' = key /\ settled' = settled /\ down' = down
      /\ accepted' = accepted /\ knows' = knows /\ session' = session
  BY DEF StartSender, Go, held, ClientOnly, setting, server
<1>3. PICK m \in Message : m = Plain("connect") /\ m.type = "connect" /\ m.sid = None
  <2>1. /\ Plain("connect") \in Message
        /\ Plain("connect").type = "connect" /\ Plain("connect").sid = None
    BY DEF Plain, Msg, Message, MsgType, Key
  <2> QED
    BY <2>1
<1>4. Send(c, <<m>>)
  BY <1>2, <1>3
<1>5. /\ up' \in [Client -> Seq(Message)] /\ \A x \in Client \ {c} : up'[x] = up[x]
      /\ \E r \in Seq(Message) : (r = <<m>> \/ r = <<>>) /\ Q(r) \subseteq {m} /\ up'[c] = up[c] \o r
  BY <1>1, <1>4, SendsOne
<1>6. PICK r \in Seq(Message) : (r = <<m>> \/ r = <<>>) /\ Q(r) \subseteq {m} /\ up'[c] = up[c] \o r
  BY <1>5
<1>7. up'[c] = r
  <2>1. up[c] = <<>> /\ <<>> \o r = r
    BY <1>2, <1>6, ConcatEmptySeq DEF IInv, MeetsOnce
  <2> QED
    BY <1>6, <2>1
<1>8. ConnectsFirst(r)
  BY <1>6 DEF ConnectsFirst
<1>9. Adds(c, r)
  BY <1>1, <1>3, <1>6, OtherSound DEF Adds, RelayType
<1>10. Types' /\ stage'[c] = "joining" /\ \A x \in Client \ {c} : stage'[x] = stage[x]
  BY <1>1, <1>2, <1>5 DEF Types, Stage
<1>11. Local(c)' /\ settled[c] # "good"
  BY <1>1, <1>2, <1>10 DEF Local, Keyed, Proven
<1>12. Moves(c)
  BY <1>2, <1>5, <1>10, <1>11 DEF Moves
<1>13. Sends(c, r)
  BY <1>2, <1>3, <1>6, <1>7, <1>8, <1>10, <1>11 DEF Sends, Proven
<1> QED
  BY <1>9, <1>12, <1>13, SenderKeeps

\* A step in which a client sends one message of a session.
LEMMA SpeaksKeeps ==
  ASSUME IInv, NEW c \in Client, NEW m \in Message, Send(c, <<m>>), Sound(c, m)',
         m.type \in RelayType, NEW st \in Stage, stage' = [stage EXCEPT ![c] = st], st # "start",
         down' = down \/ (down[c] # <<>> /\ (Pop(c) \/ TakeRead(c))),
         sid' \in [Client -> Sender \cup {None}], \A x \in Client \ {c} : sid'[x] = sid[x],
         key' = key, settled' = settled, knows' = knows, session' = session,
         accepted' \subseteq Sender, Local(c)',
         c = Receiver => \A r \in Seq(Message) : Q(r) \subseteq {m} => Receives(r),
         c \in Sender => \A r \in Seq(Message) : Q(r) \subseteq {m} => Sends(c, r)
  PROVE  IInv'
<1>1. Types
  BY DEF IInv
<1>2. /\ up' \in [Client -> Seq(Message)] /\ \A x \in Client \ {c} : up'[x] = up[x]
      /\ \E r \in Seq(Message) : (r = <<m>> \/ r = <<>>) /\ Q(r) \subseteq {m} /\ up'[c] = up[c] \o r
  BY <1>1, SendsOne
<1>3. PICK r \in Seq(Message) : Q(r) \subseteq {m} /\ up'[c] = up[c] \o r
  BY <1>2
<1>4. Adds(c, r)
  BY <1>3 DEF Adds, RelayType
<1>5. /\ down' \in [Client -> Seq(Message)] /\ \A x \in Client \ {c} : down'[x] = down[x]
      /\ Q(down'[c]) \subseteq Q(down[c])
      /\ AnnouncedOnce(down[c]) => AnnouncedOnce(down'[c])
  BY <1>1, Popped, Taken, Kept
<1>6. Types' /\ \A x \in Client \ {c} : stage'[x] = stage[x]
  BY <1>1, <1>2, <1>5 DEF Types
<1>7. Moves(c)
  BY <1>2, <1>5, <1>6 DEF Moves
<1>8. CASE c = Receiver
  BY <1>3, <1>4, <1>7, <1>8, ReceiverKeeps
<1>9. CASE c \in Sender
  BY <1>3, <1>4, <1>7, <1>9, SenderKeeps
<1> QED
  BY <1>8, <1>9, Clients

\* Entering a session and sending the share keeps the invariant.
LEMMA JoinedKeeps ==
  ASSUME IInv, NEW c \in Client, Joined(c)
  PROVE  IInv'
<1>1. Types /\ Local(c)
  BY DEF IInv
<1>2. stage[c] = "joining" /\ Gets(c, "answer") /\ TakeRead(c)
  BY DEF Joined
<1>3. /\ down[c] # <<>> /\ Head(down[c]) \in Q(down[c]) /\ Head(down[c]).type = "peer-joined"
      /\ settled[c] = "no"
  BY <1>2, Got DEF WaitType
<1>4. PICK s \in Sender : s = Head(down[c]).sid /\ c \in {s, Receiver}
  BY <1>3 DEF IInv, DownSound
<1>5. /\ sid' = [sid EXCEPT ![c] = s] /\ Send(c, <<Msg("pake", s, Words(c))>>)
      /\ stage' = [stage EXCEPT ![c] = "share"]
      /\ key' = key /\ settled' = settled
      /\ accepted' = accepted /\ knows' = knows /\ session' = session
  BY <1>4 DEF Joined, Go, ClientOnly, setting, server
<1>6. Words(c) \in {"right", "wrong"}
  BY DEF Words
<1>7. PICK m \in Message : /\ m = Msg("pake", s, Words(c))
                           /\ m.type = "pake" /\ m.sid = s /\ m.body = Words(c)
  BY <1>4, <1>6, Written DEF MsgType, RelayType
<1>8. Send(c, <<m>>)
  BY <1>5, <1>7, Zenon
<1>9. Sound(c, m)'
  BY <1>4, <1>5, <1>7 DEF Sound, Words, Answers, RelayType
<1>10. /\ sid' \in [Client -> Sender \cup {None}] /\ sid'[c] = s /\ stage'[c] = "share"
       /\ \A x \in Client \ {c} : sid'[x] = sid[x]
  BY <1>1, <1>4, <1>5 DEF Types
<1>11. Local(c)'
  BY <1>1, <1>3, <1>4, <1>5, <1>10, Clients DEF Local, Keyed, Proven
<1>12. c = Receiver => \A r \in Seq(Message) : Q(r) \subseteq {m} => Receives(r)
  <2> SUFFICES ASSUME c = Receiver, NEW r \in Seq(Message), Q(r) \subseteq {m}
               PROVE  Receives(r)
    OBVIOUS
  <2>1. down[c] \in Seq(Message) /\ AnnouncedOnce(down[c])
    BY <1>1 DEF Types, IInv, MeetsOnce
  <2>2. /\ Carries(down[c], {"peer-joined"}, s)
        /\ ~Carries(Tail(down[c]), {"peer-joined"}, s)
    BY <1>3, <1>4, <2>1, RestOnce DEF Carries
  <2>3. ~Carries(down'[c], {"peer-joined"}, s)
    BY <1>1, <1>2, <1>3, <2>2, Taken DEF Carries
  <2> QED
    BY <1>2, <1>5, <1>7, <1>10, <2>2, <2>3 DEF Receives, Keyed, Answers
<1>13. c \in Sender => \A r \in Seq(Message) : Q(r) \subseteq {m} => Sends(c, r)
  BY <1>2, <1>3, <1>5, <1>7, <1>10 DEF Sends, Proven
<1> QED
  BY <1>1, <1>2, <1>3, <1>5, <1>7, <1>8, <1>9, <1>10, <1>11, <1>12, <1>13, SpeaksKeeps DEF Types, Stage, RelayType

\* Sending the confirmation keeps the invariant.
LEMMA SendConfirmKeeps ==
  ASSUME IInv, NEW c \in Client, SendConfirm(c)
  PROVE  IInv'
<1>1. Types /\ Local(c)
  BY DEF IInv
<1>2. /\ stage[c] = "deriving" /\ Send(c, <<Msg("confirm", sid[c], key[c])>>)
      /\ stage' = [stage EXCEPT ![c] = "confirming"]
      /\ sid' = sid /\ key' = key /\ settled' = settled /\ down' = down
      /\ accepted' = accepted /\ knows' = knows /\ session' = session
  BY DEF SendConfirm, Go, held, ClientOnly, setting, server
<1>3. /\ sid[c] \in Sender /\ key[c] \in Key /\ c \in {sid[c], Receiver}
      /\ key[c] \in {<<sid[c], "shared">>, <<sid[c], c>>}
      /\ key[c] = <<sid[c], "shared">> => sid[c] \in knows
  BY <1>1, <1>2, Clients DEF Types, Local, Keyed
<1>4. PICK m \in Message : /\ m = Msg("confirm", sid[c], key[c])
                           /\ m.type = "confirm" /\ m.sid = sid[c] /\ m.body = key[c]
  BY <1>3, Written DEF MsgType, RelayType
<1>5. Send(c, <<m>>)
  BY <1>2, <1>4, Zenon
<1>6. Sound(c, m)'
  BY <1>2, <1>3, <1>4 DEF Sound, Answers, RelayType
<1>7. stage'[c] = "confirming"
  BY <1>1, <1>2 DEF Types
<1>8. Local(c)'
  BY <1>1, <1>2, <1>7 DEF Local, Keyed, Proven
<1>9. c = Receiver => \A r \in Seq(Message) : Q(r) \subseteq {m} => Receives(r)
  BY <1>2, <1>3, <1>4, <1>7, Clients DEF Receives, Keyed, Answers
<1>10. c \in Sender => \A r \in Seq(Message) : Q(r) \subseteq {m} => Sends(c, r)
  BY <1>2, <1>4, <1>7 DEF Sends, Proven, Confident
<1> QED
  BY <1>1, <1>2, <1>4, <1>5, <1>6, <1>8, <1>9, <1>10, SpeaksKeeps DEF Types, Stage, RelayType

\* Sending the request keeps the invariant.
LEMMA PairRequestKeeps ==
  ASSUME IInv, NEW c \in Sender, PairRequest(c)
  PROVE  IInv'
<1>1. Types /\ Local(c) /\ c \in Client /\ c # Receiver
  BY Clients DEF IInv
<1>2. /\ stage[c] = "sealing" /\ Send(c, <<Msg("pair-request", sid[c], key[c])>>)
      /\ stage' = [stage EXCEPT ![c] = "awaiting"]
      /\ sid' = sid /\ key' = key /\ settled' = settled /\ down' = down
      /\ accepted' = accepted /\ knows' = knows /\ session' = session
  BY DEF PairRequest, Go, held, ClientOnly, setting, server
<1>3. sid[c] = c /\ key[c] \in Key /\ key[c] = <<c, "shared">>
  BY <1>1, <1>2, Clients DEF Types, Local, Keyed, Proven
<1>4. PICK m \in Message : /\ m = Msg("pair-request", sid[c], key[c])
                           /\ m.type = "pair-request" /\ m.sid = sid[c] /\ m.body = key[c]
  BY <1>1, <1>3, Written DEF MsgType, RelayType
<1>5. Send(c, <<m>>)
  BY <1>2, <1>4, Zenon
<1>6. Sound(c, m)'
  BY <1>1, <1>2, <1>3, <1>4 DEF Sound, Answers, RelayType
<1>7. stage'[c] = "awaiting"
  BY <1>1, <1>2 DEF Types
<1>8. Local(c)'
  BY <1>1, <1>2, <1>7 DEF Local, Keyed, Proven
<1>9. \A r \in Seq(Message) : Q(r) \subseteq {m} => Sends(c, r)
  BY <1>2, <1>4, <1>7 DEF Sends, Proven, Confident
<1> QED
  BY <1>1, <1>2, <1>4, <1>5, <1>6, <1>8, <1>9, SpeaksKeeps DEF Types, Stage, RelayType

\* The user's acceptance is the receive's first, and keeps the invariant.
LEMMA AcceptKeeps ==
  ASSUME IInv, Accept
  PROVE  IInv'
<1> DEFINE c == Receiver
<1>1. Types /\ Local(c) /\ c \in Client /\ c \notin Sender
  BY Clients DEF IInv
<1>2. /\ stage[c] = "deciding" /\ Send(c, <<Msg("pair-accept", sid[c], key[c])>>)
      /\ stage' = [stage EXCEPT ![c] = "ice"]
      /\ sid' = sid /\ key' = key /\ settled' = settled /\ down' = down
      /\ accepted' = accepted \cup {sid[c]} /\ knows' = knows /\ session' = session
  BY DEF Accept, Go, held, ClientOnly, setting, server
<1>3. sid[c] \in Sender /\ key[c] \in Key /\ key[c] = <<sid[c], "shared">>
  BY <1>1, <1>2, Clients DEF Types, Local, Keyed, Proven
<1>4. PICK m \in Message : /\ m = Msg("pair-accept", sid[c], key[c])
                           /\ m.type = "pair-accept" /\ m.sid = sid[c] /\ m.body = key[c]
  BY <1>1, <1>3, Written DEF MsgType, RelayType
<1>5. Send(c, <<m>>)
  BY <1>2, <1>4, Zenon
<1>6. Sound(c, m)'
  BY <1>1, <1>2, <1>3, <1>4 DEF Sound, Answers, RelayType
<1>7. stage'[c] = "ice"
  BY <1>1, <1>2 DEF Types
<1>8. Local(c)'
  BY <1>1, <1>2, <1>7 DEF Local, Keyed, Proven
<1>9. \A r \in Seq(Message) : Q(r) \subseteq {m} => Receives(r)
  BY <1>2, <1>3, <1>4, <1>7 DEF Receives, Keyed, Answers
<1>10. accepted' \subseteq Sender
  BY <1>1, <1>2, <1>3 DEF Types
<1> QED
  BY <1>1, <1>2, <1>4, <1>5, <1>6, <1>8, <1>9, <1>10, SpeaksKeeps DEF Types, Stage, RelayType

-----------------------------------------------------------------------------
(* The invariant *)

\* A timer of any wait keeps the invariant.
LEMMA TimeoutKeeps ==
  ASSUME IInv, NEW c \in Client, Timeout(c)
  PROVE  IInv'
<1>1. CASE Fail(c)
  BY <1>1, EndKeeps DEF Fail, Outcome
<1>2. CASE /\ settled' = [settled EXCEPT ![c] = "timeout"]
           /\ UNCHANGED <<sid, key, cached, counters, stage, shut, outcome, accepted, up, down>>
           /\ ClientOnly
  BY <1>2, TimerKeeps
<1>3. CASE GiveUpRequest /\ UNCHANGED down
  BY <1>3, GiveUpRequestKeeps
<1>4. CASE /\ stage[c] = "ice" /\ Go(c, "paired")
           /\ UNCHANGED <<held, counters, shut, outcome, accepted, up, down>> /\ ClientOnly
  BY <1>4, IceTimerKeeps
<1> QED
  BY <1>1, <1>2, <1>3, <1>4 DEF Timeout

\* What ends a command is one of the two ways out.
LEMMA EndingKeeps ==
  ASSUME IInv, NEW c \in Client,
         \/ Crash(c) \/ KeysFail(c) \/ WaitFails(c) \/ WaitRefused(c) \/ Rejected(c)
         \/ Interrupt(c) \/ ClosePage(c)
         \/ \E result \in {"done", "broken"} : Finish(c, result)
  PROVE  IInv'
<1>1. CASE \E result \in Outcome : End(c, result) /\ UNCHANGED <<counters, accepted>> /\ ClientOnly
  BY <1>1, EndKeeps
<1>2. CASE \E result \in Outcome : Vanish(c, result)
  BY <1>2, EndKeeps
<1>3. /\ Fail(c) \/ Refuse(c) => \E result \in Outcome : End(c, result) /\ UNCHANGED <<counters, accepted>> /\ ClientOnly
      /\ Crash(c) \/ ClosePage(c) => \E result \in Outcome : Vanish(c, result)
  BY DEF Fail, Refuse, Crash, ClosePage, Outcome
<1>4. KeysFail(c) \/ WaitFails(c) \/ WaitRefused(c) => Fail(c) \/ Refuse(c)
  BY DEF KeysFail, WaitFails, WaitRefused
<1>5. Rejected(c) \/ Interrupt(c) \/ (\E result \in {"done", "broken"} : Finish(c, result))
        => \E result \in Outcome : End(c, result) /\ UNCHANGED <<counters, accepted>> /\ ClientOnly
  BY DEF Rejected, Interrupt, Finish, Outcome
<1> QED
  BY <1>1, <1>2, <1>3, <1>4, <1>5

\* The steps both commands share keep the invariant.
LEMMA CommandKeeps ==
  ASSUME IInv, NEW c \in Client, Command(c)
  PROVE  IInv'
BY EndingKeeps, DropKeeps, JoinedKeeps, PeerShareKeeps, SendConfirmKeeps, SettleKeeps,
   ConfirmedKeeps, IceConfigKeeps DEF Command

\* The receiver's steps keep the invariant.
LEMMA RecvKeeps ==
  ASSUME IInv, Recv
  PROVE  IInv'
<1>1. CASE Rerequest
  <2>1. GiveUpRequest /\ down[Receiver] # <<>> /\ TakeRead(Receiver)
    BY <1>1 DEF Rerequest, Gets
  <2> QED
    BY <2>1, GiveUpRequestKeeps
<1>2. CASE Command(Receiver)
  BY <1>2, CommandKeeps, Clients
<1> QED
  BY <1>1, <1>2, ReceiverStarts, RegisteredKeeps, RekeyKeeps, RequestsKeeps, AcceptKeeps,
     DeclineKeeps DEF Recv

\* A sender's steps keep the invariant.
LEMMA SendCommandKeeps ==
  ASSUME IInv, NEW c \in Sender, SendCommand(c)
  PROVE  IInv'
<1>1. c \in Client
  BY Clients
<1>2. CASE Command(c)
  BY <1>1, <1>2, CommandKeeps
<1>3. CASE Rejected(c)
  BY <1>1, <1>3, EndingKeeps
<1> QED
  BY <1>2, <1>3, StartSenderKeeps, PairRequestKeeps, AcceptedKeeps DEF SendCommand

\* The invariant holds when the commands start.
LEMMA Initial ==
  ASSUME Init
  PROVE  IInv
<1>1. <<>> \in Seq(Message) /\ Q(<<>>) = {} /\ DOMAIN <<>> = {}
  BY NoMessage
<1>2. Types
  BY <1>1 DEF Init, Types, Stage, Key
<1>3. \A c \in Client : up[c] = <<>> /\ down[c] = <<>> /\ stage[c] = "start" /\ sid[c] = None /\ settled[c] = "no"
  BY DEF Init
<1>4. UpSound /\ DownSound
  BY <1>1, <1>3 DEF UpSound, DownSound
<1>5. \A t, s : \A c \in Client : ~Carries(up[c], t, s) /\ ~Carries(down[c], t, s) /\ ~Proves(up[c], s) /\ ~Proves(down[c], s)
  BY <1>1, <1>3 DEF Carries, Proves
<1>6. MeetsOnce
  BY <1>1, <1>3, <1>5, Clients DEF MeetsOnce, ConnectsFirst, AnnouncedOnce
<1>7. DecidedOnce
  BY <1>3, Clients DEF DecidedOnce, Init
<1>8. \A c \in Client : Local(c)
  BY <1>3 DEF Local, Keyed, Proven
<1>9. \A s \in Sender : Silent(s) /\ Bound(s) /\ Waited(s)
  BY <1>3, <1>5, Clients DEF Silent, Bound, Confident, Waited, Asked, Proven
<1> QED
  BY <1>2, <1>4, <1>6, <1>7, <1>8, <1>9 DEF IInv

\* A stuttering step keeps the invariant.
LEMMA StutterKeeps ==
  ASSUME IInv, UNCHANGED vars
  PROVE  IInv'
<1>1. UNCHANGED <<knows, stage, sid, key, settled, accepted, up, down, session>>
  BY DEF vars, setting, counters, held, server
<1> QED
  BY <1>1 DEF IInv, Types, UpSound, DownSound, MeetsOnce, DecidedOnce, Local, Silent, Bound,
     Waited, Sound, Words, Unmet, Confident, Asked

\* The invariant is inductive.
LEMMA Inductive ==
  ASSUME IInv, [Next]_vars
  PROVE  IInv'
<1>1. CASE UNCHANGED vars
  BY <1>1, StutterKeeps
<1>2. CASE \E c \in Client : \/ Serve(c) \/ PlanFails(c) \/ Unreachable(c) \/ Timeout(c)
                             \/ Interrupt(c) \/ ClosePage(c)
  BY <1>2, ServeKeeps, NeverConnectsKeeps, TimeoutKeeps, EndingKeeps DEF PlanFails, Unreachable
<1> QED
  BY <1>1, <1>2, RecvKeeps, SendCommandKeeps, ExpiryServes, ServerKeeps DEF Next

\* The inductive invariant holds in every reachable state.
LEMMA AlwaysIInv == Spec => []IInv
BY Initial, Inductive, PTL DEF Spec

-----------------------------------------------------------------------------
(* The phases of a session *)

\* The order in which a client speaks in a session.
Rank(t) == CASE t = "pake" -> 1 [] t = "confirm" -> 2 [] t = "pair-request" -> 3 [] OTHER -> 4

\* A message the relay handles, of this session.
Of(m, s) == m.type \in RelayType /\ m.sid = s

Rising(q, s) ==
  \A i, j \in DOMAIN q : i < j /\ Of(q[i], s) /\ Of(q[j], s) => Rank(q[i].type) < Rank(q[j].type)

\* What a member has said in the live session: relayed, or on its way to the relay.
Said(c, t) == <<c, t>> \in seen \/ Carries(up[c], {t}, session)

\* It speaks in order ...
Ordered(c) ==
  /\ Rising(up[c], session)
  /\ \A t \in RelayType : \A m \in Q(up[c]) :
       <<c, t>> \in seen /\ Of(m, session) => Rank(t) < Rank(m.type)

\* ... has said no more than its stage allows ...
Depth(st) ==
  CASE st \in {"share", "deriving"} -> 1
    [] st \in {"confirming", "sealing", "request", "deciding"} -> 2
    [] st = "awaiting" -> 3
    [] OTHER -> 4

Limit(c) ==
  IF (c = session /\ stage[c] \in {"start", "joining"}) \/ (c = Receiver /\ Unmet(session)) THEN 0
  ELSE IF sid[c] # session THEN 4
  ELSE Depth(stage[c])

Within(c) == \A t \in RelayType : Said(c, t) => Rank(t) <= Limit(c)

\* ... has left nothing out, unless the server has closed it ...
Asking == {"pair-request"} \cup Answers

Complete(c) ==
  c \notin cut =>
    /\ sid[c] = session => Said(c, "pake")
    /\ sid[c] = session /\ stage[c] \in Keyed \ {"deriving"} => Said(c, "confirm")
    /\ Said(c, "confirm") => Said(c, "pake")
    /\ \A t \in Asking : Said(c, t) => Said(c, "confirm")

Deciding == {"deciding", "ice", "paired"}

\* ... and has heard only what was relayed from the other side.
Heard(c, t) ==
  \/ Carries(down[c], {t}, session)
  \/ t = "pake" /\ (Said(c, "confirm") \/ (sid[c] = session /\ stage[c] \in Keyed))
  \/ t = "confirm" /\ \/ \E u \in Asking : Said(c, u)
                      \/ sid[c] = session /\ (stage[c] \in Proven \/ settled[c] = "good")
  \/ /\ t = "pair-request" /\ c = Receiver
     /\ \/ \E u \in Answers : Said(c, u)
        \/ sid[c] = session /\ stage[c] \in Deciding

Grounded(c) == \A t \in RelayType : Heard(c, t) => <<Target(c), t>> \in seen

\* The server does not hear a connection it has closed.
CutEmpty == \A c \in Client : c \in cut => up[c] = <<>>

\* Before its connect is taken nobody has spoken of a sender's session.
Fresh(s) ==
  stage[s] = "start" \/ Carries(up[s], {"connect"}, None) =>
    /\ sid[s] = None /\ ~Carries(up[s], RelayType, s)
    /\ ~Carries(down[s], {"peer-joined"}, s) /\ ~Carries(down[Receiver], RelayType, s)

InPhase(c) == Ordered(c) /\ Within(c) /\ Complete(c) /\ Grounded(c)

Phases ==
  /\ CutEmpty /\ \A s \in Sender : Fresh(s)
  /\ session # None => InPhase(session) /\ InPhase(Receiver)

-----------------------------------------------------------------------------
(* Queues in order *)

\* Taking the first message leaves a rising queue, and the rest ranks above it.
LEMMA RisingRest ==
  ASSUME NEW q \in Seq(Message), q # <<>>, NEW s, Rising(q, s)
  PROVE  /\ Rising(Tail(q), s)
         /\ Of(Head(q), s) => \A m \in Q(Tail(q)) : Of(m, s) => Rank(Head(q).type) < Rank(m.type)
<1>1. /\ Len(q) \in Nat \ {0} /\ DOMAIN q = 1 .. Len(q) /\ Head(q) = q[1]
      /\ Tail(q) \in Seq(Message) /\ Len(Tail(q)) = Len(q) - 1
      /\ \A i \in 1 .. Len(Tail(q)) : Tail(q)[i] = q[i + 1]
  BY EmptySeq, LenProperties, HeadTailProperties
<1>2. DOMAIN Tail(q) = 1 .. Len(Tail(q))
  BY <1>1, LenProperties
<1>3. \A i \in DOMAIN Tail(q) :
        i \in Nat \ {0} /\ i + 1 \in DOMAIN q /\ 1 < i + 1 /\ Tail(q)[i] = q[i + 1]
  BY <1>1, <1>2
<1>4. Rising(Tail(q), s)
  <2> SUFFICES ASSUME NEW i \in DOMAIN Tail(q), NEW j \in DOMAIN Tail(q), i < j,
                      Of(Tail(q)[i], s), Of(Tail(q)[j], s)
               PROVE  Rank(Tail(q)[i].type) < Rank(Tail(q)[j].type)
    BY DEF Rising
  <2>1. i + 1 < j + 1
    BY <1>3
  <2> QED
    BY <1>3, <2>1 DEF Rising
<1>5. ASSUME Of(Head(q), s), NEW i \in DOMAIN Tail(q), Of(Tail(q)[i], s)
      PROVE  Rank(Head(q).type) < Rank(Tail(q)[i].type)
  <2>1. 1 \in DOMAIN q
    BY <1>1
  <2> QED
    BY <1>1, <1>3, <1>5, <2>1 DEF Rising
<1> QED
  BY <1>4, <1>5 DEF Q

\* A queue stays rising when at most one message of the session is added, above the rest.
LEMMA RisingJoin ==
  ASSUME NEW q \in Seq(Message), NEW r \in Seq(Message), NEW s, Rising(q, s),
         \A i \in DOMAIN r : r[i].type \in RelayType => i = 1,
         \A m \in Q(q) : \A n \in Q(r) : Of(m, s) /\ Of(n, s) => Rank(m.type) < Rank(n.type)
  PROVE  Rising(q \o r, s)
<1>1. /\ Len(q \o r) = Len(q) + Len(r) /\ q \o r \in Seq(Message)
      /\ \A i \in 1 .. Len(q) + Len(r) : (q \o r)[i] = IF i <= Len(q) THEN q[i] ELSE r[i - Len(q)]
      /\ Len(q) \in Nat /\ Len(r) \in Nat /\ DOMAIN q = 1 .. Len(q) /\ DOMAIN r = 1 .. Len(r)
  BY ConcatProperties, LenProperties
<1>2. DOMAIN (q \o r) = 1 .. Len(q) + Len(r)
  BY <1>1, LenProperties
<1>3. ASSUME NEW i \in DOMAIN (q \o r)
      PROVE  \/ i \in DOMAIN q /\ (q \o r)[i] = q[i]
             \/ i > Len(q) /\ i - Len(q) \in DOMAIN r /\ (q \o r)[i] = r[i - Len(q)]
  <2>0. i \in 1 .. Len(q) + Len(r)
    BY <1>2
  <2>1. CASE i <= Len(q)
    BY <1>1, <2>0, <2>1
  <2>2. CASE ~(i <= Len(q))
    <3>1. i - Len(q) \in 1 .. Len(r) /\ i > Len(q)
      BY <1>1, <2>0, <2>2
    <3>2. (q \o r)[i] = r[i - Len(q)]
      BY <1>1, <2>0, <2>2
    <3> QED
      BY <1>1, <3>1, <3>2
  <2> QED
    BY <2>1, <2>2
<1> SUFFICES ASSUME NEW i \in DOMAIN (q \o r), NEW j \in DOMAIN (q \o r), i < j,
                    Of((q \o r)[i], s), Of((q \o r)[j], s)
             PROVE  Rank((q \o r)[i].type) < Rank((q \o r)[j].type)
  BY DEF Rising
<1>4. i \in Nat /\ j \in Nat
  BY <1>1, <1>2
<1>5. CASE i \in DOMAIN q /\ (q \o r)[i] = q[i] /\ j \in DOMAIN q /\ (q \o r)[j] = q[j]
  BY <1>5 DEF Rising
<1>6. CASE /\ i \in DOMAIN q /\ (q \o r)[i] = q[i]
           /\ j - Len(q) \in DOMAIN r /\ (q \o r)[j] = r[j - Len(q)]
  BY <1>6 DEF Q
<1>7. CASE i > Len(q) /\ j \in DOMAIN q
  BY <1>1, <1>4, <1>7
<1>8. CASE /\ i - Len(q) \in DOMAIN r /\ (q \o r)[i] = r[i - Len(q)]
           /\ j - Len(q) \in DOMAIN r /\ (q \o r)[j] = r[j - Len(q)]
  <2>1. i - Len(q) = 1 /\ j - Len(q) = 1
    BY <1>8 DEF Of
  <2> QED
    BY <1>1, <1>4, <2>1
<1> QED
  BY <1>3, <1>5, <1>6, <1>7, <1>8

\* A queue without messages of the session is in order.
LEMMA RisingNone ==
  ASSUME NEW q, NEW s, ~Carries(q, RelayType, s)
  PROVE  Rising(q, s) /\ \A m \in Q(q) : ~Of(m, s)
BY DEF Rising, Carries, Of, Q

\* The ranks are numbers.
LEMMA Ranks ==
  /\ Rank("pake") = 1 /\ Rank("confirm") = 2 /\ Rank("pair-request") = 3
  /\ Rank("pair-accept") = 4 /\ Rank("pair-reject") = 4
  /\ \A t \in RelayType : Rank(t) \in 1 .. 4
BY DEF Rank, RelayType

-----------------------------------------------------------------------------
(* The phases *)

\* What waits behind a message of the session ranks above it, so what a client has said
\* of a lower rank has been relayed.
LEMMA SaidBefore ==
  ASSUME Types, NEW c \in Client, Ordered(c), up[c] # <<>>, Of(Head(up[c]), session),
         NEW t \in RelayType, Said(c, t), Rank(t) < Rank(Head(up[c]).type)
  PROVE  <<c, t>> \in seen
<1>1. up[c] \in Seq(Message)
  BY DEF Types
<1>2. SUFFICES ASSUME NEW m \in Q(up[c]), m.type = t, m.sid = session
               PROVE  FALSE
  BY DEF Said, Carries
<1>3. m # Head(up[c])
  BY <1>2, Ranks
<1>4. m \in Q(Tail(up[c]))
  BY <1>1, <1>3, QueueEnds
<1>5. Rank(Head(up[c]).type) < Rank(m.type)
  BY <1>1, <1>2, <1>4, RisingRest DEF Ordered, Of
<1> QED
  BY <1>2, <1>5, Ranks DEF Of

\* The relay refuses nothing.
LEMMA PhasesAllow ==
  ASSUME IInv, Phases
  PROVE  PhasesRespected
<1> SUFFICES ASSUME NEW c \in Client, up[c] # <<>>, Head(up[c]).type \in RelayType,
                    InSession(c, Head(up[c]).sid)
             PROVE  RelayAllowed(c, Head(up[c]).type)
  BY DEF PhasesRespected
<1> DEFINE m == Head(up[c])
<1>1. /\ Types /\ session \in Sender /\ session # Receiver /\ session # None
      /\ c \in {session, Receiver} /\ m.sid = session
  BY Clients DEF IInv, Types, InSession
<1>2. InPhase(c) /\ InPhase(session) /\ InPhase(Receiver) /\ c \notin cut
  BY <1>1 DEF Phases, CutEmpty
<1>3. m \in Q(up[c]) /\ Of(m, session) /\ Sound(c, m)
  BY <1>1, QueueEnds DEF Types, Of, IInv, UpSound
<1> HIDE DEF m
<1>4. m = Head(up[c]) /\ m.type \in RelayType
  BY DEF m
<1>5. \A t \in RelayType : <<c, t>> \in seen => Rank(t) < Rank(m.type)
  BY <1>2, <1>3 DEF InPhase, Ordered
<1>6. \A t \in RelayType : Said(c, t) /\ Rank(t) < Rank(m.type) => <<c, t>> \in seen
  BY <1>1, <1>2, <1>3, <1>4, SaidBefore DEF InPhase
<1>7. Said(c, m.type)
  BY <1>3 DEF Said, Carries, Of
<1>8. \A d \in {session, Receiver} : \A t \in RelayType : Heard(d, t) => <<Target(d), t>> \in seen
  BY <1>2 DEF InPhase, Grounded
<1>9. /\ Target(Receiver) = session /\ Target(session) = Receiver
      /\ {"pake", "confirm", "pair-request"} \subseteq RelayType
  BY <1>1 DEF Target, RelayType
<1>10. CASE m.type = "pake" \/ m.type = "confirm"
  <2>1. ~Requested
    <3> SUFFICES ASSUME Requested
                 PROVE  FALSE
      OBVIOUS
    <3>1. <<session, "pair-request">> \in seen
      BY DEF Requested
    <3>2. Heard(session, "confirm")
      BY <3>1 DEF Heard, Said, Asking
    <3>3. <<Receiver, "confirm">> \in seen
      BY <1>8, <1>9, <3>2
    <3> QED
      BY <1>1, <1>5, <1>9, <1>10, <3>1, <3>3, Ranks
  <2>2. <<c, m.type>> \notin seen
    BY <1>4, <1>5, Ranks
  <2>3. CASE m.type = "pake"
    BY <2>1, <2>2, <2>3, <1>4 DEF RelayAllowed
  <2>4. CASE m.type = "confirm"
    <3>1. Said(c, "pake")
      BY <1>2, <1>7, <2>4 DEF InPhase, Complete
    <3>2. <<c, "pake">> \in seen
      BY <1>6, <1>9, <2>4, <3>1, Ranks
    <3>3. Heard(c, "pake")
      BY <1>7, <2>4 DEF Heard
    <3>4. <<Target(c), "pake">> \in seen
      BY <1>1, <1>8, <1>9, <3>3
    <3>5. Both("pake")
      BY <1>1, <1>9, <3>2, <3>4 DEF Both
    <3> QED
      BY <1>4, <2>1, <2>2, <2>4, <3>5 DEF RelayAllowed
  <2> QED
    BY <1>10, <2>3, <2>4
<1>11. CASE m.type = "pair-request"
  <2>1. c = session
    BY <1>1, <1>3, <1>11 DEF Sound
  <2>2. Said(c, "confirm")
    BY <1>2, <1>7, <1>11 DEF InPhase, Complete, Asking
  <2>3. <<c, "confirm">> \in seen
    BY <1>6, <1>9, <1>11, <2>2, Ranks
  <2>4. Heard(c, "confirm")
    BY <1>7, <1>11 DEF Heard, Asking
  <2>5. <<Target(c), "confirm">> \in seen
    BY <1>1, <1>8, <1>9, <2>4
  <2>6. Both("confirm")
    BY <1>1, <1>9, <2>3, <2>5 DEF Both
  <2>7. ~Requested
    BY <1>5, <1>9, <1>11, <2>1, Ranks DEF Requested
  <2> QED
    BY <1>4, <1>11, <2>1, <2>6, <2>7 DEF RelayAllowed
<1>12. CASE m.type \in Answers
  <2>1. c = Receiver
    BY <1>3, <1>12 DEF Sound
  <2>2. Heard(c, "pair-request")
    BY <1>7, <1>12, <2>1 DEF Heard
  <2>3. Requested
    BY <1>1, <1>8, <1>9, <2>1, <2>2 DEF Requested
  <2>4. ~Decided
    <3>1. "pair-accept" \in RelayType /\ Rank(m.type) = 4 /\ Rank("pair-accept") = 4
      BY <1>12, Ranks DEF RelayType, Answers
    <3> QED
      BY <1>5, <2>1, <3>1 DEF Decided
  <2> QED
    BY <1>4, <1>12, <2>1, <2>3, <2>4 DEF RelayAllowed, Answers
<1> QED
  BY <1>4, <1>10, <1>11, <1>12 DEF RelayType, Answers

-----------------------------------------------------------------------------
(* The server's steps and the phases *)

\* The limit of a stage is a number.
LEMMA Limits ==
  ASSUME NEW c
  PROVE  Limit(c) \in 0 .. 4 /\ Limit(c)' \in 0 .. 4
BY DEF Limit, Depth

\* What a handler adds to a queue to a client.
LEMMA Added ==
  ASSUME Types, Answered, NEW x \in Client, NEW m \in Q(down'[x])
  PROVE  m \in Q(down[x]) \/ Fit(x, m)
<1>1. PICK r \in Seq(Message) : (\A n \in Q(r) : Fit(x, n)) /\ down'[x] = down[x] \o r
  BY DEF Answered
<1>2. Q(down[x] \o r) = Q(down[x]) \cup Q(r)
  BY QueueJoins DEF Types
<1> QED
  BY <1>1, <1>2

\* No handler speaks of a session before its connect is taken.
LEMMA FreshServed ==
  ASSUME IInv, Phases, Serves, NEW s \in Sender
  PROVE  Fresh(s)'
<1>1. /\ Types /\ ClientsRest /\ Answered /\ Announced /\ Fresh(s) /\ MeetsOnce
      /\ s \in Client /\ Receiver \in Client /\ s # Receiver
  BY Clients DEF IInv, Phases, Serves
<1> SUFFICES ASSUME stage'[s] = "start" \/ Carries(up'[s], {"connect"}, None)
             PROVE  /\ sid'[s] = None /\ ~Carries(up'[s], RelayType, s)
                    /\ ~Carries(down'[s], {"peer-joined"}, s) /\ ~Carries(down'[Receiver], RelayType, s)
  BY DEF Fresh
<1>2. Q(up'[s]) \subseteq Q(up[s])
  BY <1>1, UpShrinks
<1>3. stage'[s] = stage[s] /\ sid'[s] = sid[s]
  BY <1>1 DEF ClientsRest
<1>4. stage[s] = "start" \/ Carries(up[s], {"connect"}, None)
  BY <1>2, <1>3 DEF Carries
<1>5. /\ sid[s] = None /\ ~Carries(up[s], RelayType, s)
      /\ ~Carries(down[s], {"peer-joined"}, s) /\ ~Carries(down[Receiver], RelayType, s)
  BY <1>1, <1>4 DEF Fresh
<1>6. ~Carries(up'[s], RelayType, s)
  BY <1>2, <1>5 DEF Carries
<1>7. ~Carries(down'[s], {"peer-joined"}, s)
  <2>1. stage[s] = "start" => ~Carries(up[s], {"connect"}, None)
    BY <1>1, NoMessage DEF MeetsOnce, Carries
  <2> QED
    BY <1>1, <1>3, <1>5, <2>1 DEF Announced
<1>8. ~Carries(down'[Receiver], RelayType, s)
  <2> SUFFICES ASSUME NEW m \in Q(down'[Receiver]), m.type \in RelayType, m.sid = s
               PROVE  FALSE
    BY DEF Carries
  <2>1. m \in Q(down[Receiver]) \/ Fit(Receiver, m)
    BY <1>1, Added
  <2>2. m.type # "peer-joined"
    BY DEF RelayType
  <2>3. Fit(Receiver, m) => m \in Q(up[s])
    BY <1>1, <2>2 DEF Fit, Benign
  <2> QED
    BY <1>5, <2>1, <2>3 DEF Carries
<1> QED
  BY <1>3, <1>5, <1>6, <1>7, <1>8

\* What the session notes of the message a handler takes.
Flags(c) ==
  \/ seen' = seen /\ (c \in {session, Receiver} => ~Of(Head(up[c]), session))
  \/ /\ c \in {session, Receiver} /\ Of(Head(up[c]), session)
     /\ seen' = seen \cup {<<c, Head(up[c]).type>>}

\* A message of the live session is taken only into the session's flags.
LEMMA ServedSaid ==
  ASSUME IInv, NEW c, c \in Client => up[c] # <<>>, Served(c),
         session \in Sender, session' = session, Flags(c),
         NEW x \in {session, Receiver}, NEW t \in RelayType
  PROVE  /\ Said(x, t)' => Said(x, t)
         /\ x \notin cut' /\ Said(x, t) => Said(x, t)'
<1>1. Types /\ x \in Client /\ up[x] \in Seq(Message)
  BY Clients DEF IInv, Types
<1>2. up'[x] = CASE x \in cut' -> <<>> [] x = c /\ x \notin cut' -> Tail(up[x]) [] OTHER -> up[x]
  BY <1>1 DEF Served
<1>3. CASE x # c
  <2>1. <<x, t>> \in seen' <=> <<x, t>> \in seen
    BY <1>3 DEF Flags
  <2>2. up'[x] = <<>> \/ up'[x] = up[x]
    BY <1>2, <1>3
  <2>3. x \notin cut' => up'[x] = up[x]
    BY <1>2, <1>3
  <2>4. ~Carries(<<>>, {t}, session)
    BY NoMessage DEF Carries
  <2> QED
    BY <2>1, <2>2, <2>3, <2>4 DEF Said
<1>4. CASE x = c
  <2>1. /\ Q(Tail(up[c])) \subseteq Q(up[c]) /\ Head(up[c]) \in Q(up[c])
        /\ \A m \in Q(up[c]) : m = Head(up[c]) \/ m \in Q(Tail(up[c]))
    BY <1>1, <1>4, QueueEnds
  <2>2. Q(<<>>) = {} /\ (x \notin cut' => up'[c] = Tail(up[c])) /\ (x \in cut' => up'[c] = <<>>)
    BY <1>2, <1>4, NoMessage
  <2>3. <<c, t>> \in seen' <=> (<<c, t>> \in seen \/ (Of(Head(up[c]), session) /\ t = Head(up[c]).type))
    BY <1>4 DEF Flags
  <2>4. Carries(up'[c], {t}, session) => Carries(up[c], {t}, session)
    BY <2>1, <2>2 DEF Carries
  <2>5. Of(Head(up[c]), session) /\ t = Head(up[c]).type => Carries(up[c], {t}, session)
    BY <2>1 DEF Of, Carries
  <2>6. x \notin cut' /\ Carries(up[c], {t}, session) =>
          Carries(up'[c], {t}, session) \/ (Of(Head(up[c]), session) /\ t = Head(up[c]).type)
    BY <2>1, <2>2 DEF Of, Carries
  <2> QED
    BY <1>4, <2>3, <2>4, <2>5, <2>6 DEF Said
<1> QED
  BY <1>3, <1>4

\* ... and leaves the order of what follows.
LEMMA ServedOrdered ==
  ASSUME IInv, NEW c, c \in Client => up[c] # <<>>, Served(c), Serves,
         session \in Sender, session' = session, Flags(c),
         NEW x \in {session, Receiver}, Ordered(x)
  PROVE  Ordered(x)'
<1>1. Types /\ x \in Client /\ up[x] \in Seq(Message) /\ ClientsRest
  BY Clients DEF IInv, Types, Serves
<1>2. up'[x] = CASE x \in cut' -> <<>> [] x = c /\ x \notin cut' -> Tail(up[x]) [] OTHER -> up[x]
  BY <1>1 DEF Served
<1>3. Q(up'[x]) \subseteq Q(up[x])
  BY <1>1, UpShrinks
<1>4. Rising(up[x], session) /\ Rising(<<>>, session)
  BY DEF Ordered, Rising
<1>5. CASE x # c
  <2>1. up'[x] = <<>> \/ up'[x] = up[x]
    BY <1>2, <1>5
  <2>2. \A t : <<x, t>> \in seen' <=> <<x, t>> \in seen
    BY <1>5 DEF Flags
  <2> QED
    BY <1>3, <1>4, <2>1, <2>2 DEF Ordered
<1>6. CASE x = c
  <2>1. up'[c] = <<>> \/ up'[c] = Tail(up[c])
    BY <1>2, <1>6
  <2>2. /\ Rising(Tail(up[c]), session)
        /\ Of(Head(up[c]), session) => \A m \in Q(Tail(up[c])) :
             Of(m, session) => Rank(Head(up[c]).type) < Rank(m.type)
    BY <1>1, <1>4, <1>6, RisingRest
  <2>3. ASSUME NEW t \in RelayType, NEW m \in Q(up'[c]), <<c, t>> \in seen', Of(m, session)
        PROVE  Rank(t) < Rank(m.type)
    <3>1. CASE <<c, t>> \in seen
      BY <1>3, <1>6, <2>3, <3>1 DEF Ordered
    <3>2. CASE Of(Head(up[c]), session) /\ t = Head(up[c]).type
      <4>1. m \in Q(Tail(up[c]))
        BY <2>1, <2>3, NoMessage
      <4> QED
        BY <2>2, <2>3, <3>2, <4>1
    <3> QED
      BY <2>3, <3>1, <3>2 DEF Flags
  <2>4. Rising(up'[c], session)
    BY <1>4, <2>1, <2>2
  <2> QED
    BY <1>6, <2>3, <2>4 DEF Ordered
<1> QED
  BY <1>5, <1>6

\* What a member of the live session hears from the server is noted there.
LEMMA ServedGrounded ==
  ASSUME IInv, NEW c, c \in Client => up[c] # <<>>, Served(c), Serves,
         session \in Sender, session' = session, Flags(c),
         NEW x \in {session, Receiver}, Grounded(x)
  PROVE  Grounded(x)'
<1>1. Types /\ x \in Client /\ ClientsRest /\ Answered /\ session # Receiver /\ session # None
  BY Clients DEF IInv, Types, Serves
<1>2. seen \subseteq seen' /\ Target(x)' = Target(x)
  BY DEF Flags, Target
<1>3. stage'[x] = stage[x] /\ sid'[x] = sid[x] /\ settled'[x] = settled[x]
  BY <1>1 DEF ClientsRest
<1>4. \A t \in RelayType : Said(x, t)' => Said(x, t)
  BY ServedSaid
<1>5. Asking \subseteq RelayType /\ Answers \subseteq Asking /\ "confirm" \in RelayType
  BY DEF Asking, Answers, RelayType
<1> SUFFICES ASSUME NEW t \in RelayType, Heard(x, t)'
             PROVE  <<Target(x), t>> \in seen'
  BY <1>2 DEF Grounded
<1>6. CASE Heard(x, t)
  BY <1>2, <1>6 DEF Grounded
<1>7. CASE ~Heard(x, t)
  <2>1. Carries(down'[x], {t}, session) /\ ~Carries(down[x], {t}, session)
    BY <1>3, <1>4, <1>5, <1>7 DEF Heard
  <2>2. PICK m \in Q(down'[x]) : m.type = t /\ m.sid = session /\ m \notin Q(down[x])
    BY <2>1 DEF Carries
  <2>3. Fit(x, m)
    BY <1>1, <2>2, Added
  <2>4. <<IF x = Receiver THEN m.sid ELSE Receiver, m.type>> \in seen'
    BY <1>1, <2>2, <2>3 DEF Fit, Benign, RelayType
  <2> QED
    BY <1>1, <2>2, <2>4 DEF Target
<1> QED
  BY <1>6, <1>7

\* A handler lets nobody meet again.
LEMMA ServedUnmet ==
  ASSUME IInv, Serves, NEW s \in Sender, Unmet(s)'
  PROVE  Unmet(s)
<1>1. Types /\ ClientsRest /\ Announced /\ s \in Client
  BY Clients DEF IInv, Serves
<1>2. Q(up'[s]) \subseteq Q(up[s]) /\ stage'[s] = stage[s]
  BY <1>1, UpShrinks DEF ClientsRest
<1>3. Carries(up'[s], {"connect"}, None) => Carries(up[s], {"connect"}, None)
  BY <1>2 DEF Carries
<1> QED
  BY <1>1, <1>2, <1>3 DEF Announced, Unmet

\* A handler that keeps the session, or ends it, keeps the phases.
LEMMA ServedPhases ==
  ASSUME IInv, Phases, NEW c, c \in Client => up[c] # <<>>, Served(c), Serves, cut \subseteq cut',
         session' = None \/ (session' = session /\ Flags(c))
  PROVE  Phases'
<1>1. \A s \in Sender : Fresh(s)'
  BY FreshServed
<1>2. CutEmpty'
  BY DEF CutEmpty, Served
<1>3. ASSUME session' # None, NEW x \in {session, Receiver}
      PROVE  InPhase(x)'
  <2>1. /\ session \in Sender /\ session' = session /\ Flags(c) /\ InPhase(x) /\ x \in Client
        /\ session # Receiver
    BY <1>3, Clients DEF IInv, Types, Phases
  <2>2. \A t \in RelayType : /\ Said(x, t)' => Said(x, t)
                             /\ x \notin cut' /\ Said(x, t) => Said(x, t)'
    BY <2>1, ServedSaid
  <2>3. stage'[x] = stage[x] /\ sid'[x] = sid[x]
    BY <2>1 DEF Serves, ClientsRest
  <2>4. Unmet(session)' => Unmet(session)
    BY <2>1, ServedUnmet
  <2>5. Ordered(x)' /\ Grounded(x)'
    BY <2>1, ServedOrdered, ServedGrounded DEF InPhase
  <2>6. Within(x)'
    <3>1. Limit(x) <= Limit(x)'
      <4>1. CASE Limit(x) = 0
        BY <4>1, Limits
      <4>2. CASE Limit(x) # 0
        <5>1. ~((x = session /\ stage[x] \in {"start", "joining"}) \/ (x = Receiver /\ Unmet(session)))
          BY <4>2 DEF Limit
        <5>2. Limit(x)' = Limit(x)
          BY <2>1, <2>3, <2>4, <5>1 DEF Limit
        <5> QED
          BY <5>2, Limits
      <4> QED
        BY <4>1, <4>2
    <3>2. ASSUME NEW t \in RelayType, Said(x, t)'
          PROVE  Rank(t) <= Limit(x)'
      <4>1. Rank(t) <= Limit(x)
        BY <2>1, <2>2, <3>2 DEF InPhase, Within
      <4> QED
        BY <3>1, <4>1, Limits, Ranks
    <3> QED
      BY <3>2 DEF Within
  <2>7. Complete(x)'
    <3>1. x \notin cut' => x \notin cut
      OBVIOUS
    <3>2. "pake" \in RelayType /\ "confirm" \in RelayType /\ Asking \subseteq RelayType
      BY DEF RelayType, Asking, Answers
    <3> QED
      BY <2>1, <2>2, <2>3, <3>1, <3>2 DEF InPhase, Complete
  <2> QED
    BY <2>5, <2>6, <2>7 DEF InPhase
<1>4. session' # None => session' = session
  OBVIOUS
<1> QED
  BY <1>1, <1>2, <1>3, <1>4 DEF Phases

\* restoreWaitingReceiver and endSession leave no session and close more connections.
LEMMA SessionEnds ==
  /\ \A notify \in BOOLEAN : RestoreWaitingReceiver(notify) => session' = None /\ cut \subseteq cut'
  /\ \A c : EndSession(c) => session' = None /\ cut \subseteq cut'
BY DEF RestoreWaitingReceiver, EndSession

\* cleanupPeer ends the session or leaves it alone.
LEMMA CleanupPhases ==
  ASSUME NEW c \in Client, CleanupPeer(c)
  PROVE  cut \subseteq cut' /\ (session' = None \/ (session' = session /\ seen' = seen))
<1>1. CASE session = None \/ c \notin {session, Receiver}
  BY <1>1, Clients DEF CleanupPeer
<1>2. CASE ~(session = None \/ c \notin {session, Receiver}) /\ c = session /\ ~Decided
  BY <1>2, SessionEnds DEF CleanupPeer
<1>3. CASE ~(session = None \/ c \notin {session, Receiver}) /\ ~(c = session /\ ~Decided)
  BY <1>3, SessionEnds DEF CleanupPeer
<1> QED
  BY <1>1, <1>2, <1>3

\* A message that is not relayed changes no flag.
LEMMA OtherFlags ==
  ASSUME NEW c, seen' = seen, Head(up[c]).type \notin RelayType
  PROVE  Flags(c)
BY DEF Flags, Of

\* The handlers other than connect keep the phases.
LEMMA ServePhases ==
  ASSUME IInv, Phases, NEW c \in Client, Serve(c), ~Connect(c)
  PROVE  Phases'
<1>1. Serves
  BY NoticeServes, RelayServes, DecisionServes, CleanupServes DEF Serve
<1>2. ASSUME NEW types, Arrives(c, types), Served(c), cut \subseteq cut',
             session' = None \/ (session' = session /\ Flags(c))
      PROVE  Phases'
  <2>1. up[c] # <<>>
    BY <1>2 DEF Arrives
  <2> QED
    BY <1>1, <1>2, <2>1, ServedPhases
<1>3. CASE Register(c) \/ RegisterTaken(c) \/ ConnectNotFound(c)
  <2>1. /\ Arrives(c, {"register", "connect"}) /\ Served(c)
        /\ cut' = cut /\ session' = session /\ seen' = seen
    BY <1>3 DEF Register, RegisterTaken, ConnectNotFound, Arrives, server
  <2>2. Head(up[c]).type \notin RelayType
    BY <2>1 DEF Arrives, RelayType
  <2> QED
    BY <1>2, <2>1, <2>2, OtherFlags
<1>4. CASE RelayNoSession(c)
  <2>1. /\ Arrives(c, RelayType) /\ Served(c) /\ ~InSession(c, Head(up[c]).sid)
        /\ cut' = cut /\ session' = session /\ seen' = seen
    BY <1>4 DEF RelayNoSession, server
  <2>2. session' = None \/ Flags(c)
    BY <2>1 DEF Flags, Of, InSession
  <2> QED
    BY <1>2, <2>1, <2>2
<1>5. CASE Relay(c)
  <2>1. /\ Arrives(c, RelayType) /\ Served(c) /\ InSession(c, Head(up[c]).sid)
        /\ cut' = cut /\ session' = session /\ seen' = seen \cup {<<c, Head(up[c]).type>>}
    BY <1>5 DEF Relay, Arrives, RelayType
  <2>2. Flags(c)
    BY <2>1 DEF Flags, Of, InSession, Arrives
  <2> QED
    BY <1>2, <2>1, <2>2
<1>6. CASE RelayAccept(c)
  <2>1. /\ Arrives(c, {"pair-accept"}) /\ Served(c) /\ InSession(c, Head(up[c]).sid)
        /\ cut' = cut /\ session' = session /\ seen' = seen \cup {<<Receiver, "pair-accept">>}
        /\ RelayAllowed(c, Head(up[c]).type)
    BY <1>6 DEF RelayAccept
  <2>2. Head(up[c]).type = "pair-accept" /\ c = Receiver
    BY <2>1 DEF Arrives, RelayAllowed
  <2>3. Flags(c)
    BY <2>1, <2>2 DEF Flags, Of, InSession, RelayType
  <2> QED
    BY <1>2, <2>1, <2>3
<1>7. CASE RelayReject(c) \/ \E passed \in BOOLEAN : RelayTurnLimited(c, passed)
  <2>1. /\ Arrives(c, {"pair-accept", "pair-reject"}) /\ Served(c)
        /\ cut \subseteq cut' /\ session' = None
    BY <1>7 DEF RelayReject, RelayTurnLimited, Arrives
  <2> QED
    BY <1>2, <2>1
<1>8. CASE Retry(c) \/ Bye(c)
  <2>1. Arrives(c, {"retry", "bye", "close"}) /\ Served(c)
    BY <1>8 DEF Retry, Bye, Arrives
  <2>2. Head(up[c]).type \notin RelayType
    BY <2>1 DEF Arrives, RelayType
  <2>3. cut \subseteq cut' /\ (session' = None \/ (session' = session /\ seen' = seen))
    BY <1>8, CleanupPhases, SessionEnds DEF Retry, Bye, server
  <2> QED
    BY <1>2, <2>1, <2>2, <2>3, OtherFlags
<1> QED
  BY <1>3, <1>4, <1>5, <1>6, <1>7, <1>8 DEF Serve

\* The expiries keep the phases.
LEMMA ExpiryPhases ==
  ASSUME IInv, Phases, ExpireCode \/ ExpireRestore \/ ExpireSession
  PROVE  Phases'
<1>1. Serves /\ Served(None) /\ None \notin Client
  BY ExpiryServes, Clients DEF ExpireCode, ExpireRestore, ExpireSession
<1>2. cut \subseteq cut' /\ (session' = None \/ (session' = session /\ seen' = seen))
  BY SessionEnds DEF ExpireCode, ExpireRestore, ExpireSession
<1>3. session # None => None \notin {session, Receiver}
  BY Clients
<1>4. session' = None \/ (session' = session /\ Flags(None))
  BY <1>2, <1>3 DEF Flags
<1> QED
  BY <1>1, <1>2, <1>4, ServedPhases

\* A connect starts a session in which nobody has spoken.
LEMMA ConnectPhases ==
  ASSUME IInv, Phases, NEW c \in Client, Connect(c)
  PROVE  Phases'
<1>1. Types /\ Serves /\ ClientsRest /\ Answered
  BY ConnectServes DEF IInv, Serves
<1>2. /\ up[c] # <<>> /\ Head(up[c]) \in Q(up[c]) /\ Head(up[c]).type = "connect" /\ Served(c)
      /\ session' = c /\ seen' = {} /\ cut' = cut
  BY <1>1, Arrived DEF Connect
<1>3. c \in Sender /\ Head(up[c]).sid = None /\ c # Receiver /\ Receiver \in Client /\ c # None
  BY <1>2, Clients DEF IInv, UpSound
<1>4. Carries(up[c], {"connect"}, None)
  BY <1>2, <1>3 DEF Carries
<1>5. /\ sid[c] = None /\ ~Carries(up[c], RelayType, c) /\ ~Carries(down[Receiver], RelayType, c)
      /\ sid[Receiver] # c /\ ~Carries(up[Receiver], RelayType, c) /\ ~Carries(down[c], RelayType, c)
  BY <1>3, <1>4 DEF Phases, Fresh, IInv, Silent, Unmet
<1>6. ASSUME NEW x \in {c, Receiver}
      PROVE  InPhase(x)'
  <2>1. x \in Client /\ ~Carries(up[x], RelayType, c) /\ ~Carries(down[x], RelayType, c) /\ sid[x] # c
    BY <1>3, <1>5
  <2>2. Q(up'[x]) \subseteq Q(up[x]) /\ sid'[x] = sid[x]
    BY <1>1, <2>1, UpShrinks DEF ClientsRest
  <2>3. ~Carries(up'[x], RelayType, c)
    BY <2>1, <2>2 DEF Carries
  <2>4. ~Carries(down'[x], RelayType, c)
    <3> SUFFICES ASSUME NEW m \in Q(down'[x]), m.type \in RelayType, m.sid = c
                 PROVE  FALSE
      BY DEF Carries
    <3>1. ~Fit(x, m)
      BY <1>2, <1>3 DEF Fit, Benign, RelayType
    <3>2. m \in Q(down[x])
      BY <1>1, <2>1, <3>1, Added
    <3> QED
      BY <2>1, <3>2 DEF Carries
  <2>5. \A t \in RelayType : ~Said(x, t)' /\ ~Carries(down'[x], {t}, c)
    BY <1>2, <2>3, <2>4 DEF Said, Carries
  <2>6. {"pake", "confirm"} \subseteq RelayType /\ Asking \subseteq RelayType /\ Answers \subseteq RelayType
    BY DEF RelayType, Asking, Answers
  <2>7. Ordered(x)'
    BY <1>2, <2>3, RisingNone DEF Ordered
  <2>8. Within(x)' /\ Complete(x)'
    BY <1>2, <2>1, <2>2, <2>5, <2>6 DEF Within, Complete
  <2>9. Grounded(x)'
    BY <1>2, <2>1, <2>2, <2>5, <2>6 DEF Grounded, Heard
  <2> QED
    BY <2>7, <2>8, <2>9 DEF InPhase
<1>7. \A s \in Sender : Fresh(s)'
  BY <1>1, FreshServed
<1>8. CutEmpty'
  BY <1>2 DEF CutEmpty, Served
<1> QED
  BY <1>2, <1>6, <1>7, <1>8 DEF Phases

-----------------------------------------------------------------------------
(* The clients' steps and the phases *)

\* Only this client moves.
Alone(c) ==
  /\ session' = session /\ seen' = seen /\ cut' = cut
  /\ \A x \in Client \ {c} :
       /\ stage'[x] = stage[x] /\ sid'[x] = sid[x] /\ settled'[x] = settled[x]
       /\ up'[x] = up[x] /\ down'[x] = down[x]
  /\ Q(down'[c]) \subseteq Q(down[c])

\* When a client says something in a session.
Speaks(c, m) ==
  \/ /\ m.type = "pake" /\ stage[c] = "joining" /\ stage'[c] = "share" /\ sid'[c] = m.sid
     /\ Carries(down[c], {"peer-joined"}, m.sid)
  \/ /\ m.type = "confirm" /\ stage[c] = "deriving" /\ stage'[c] = "confirming"
     /\ m.sid = sid[c] /\ sid'[c] = sid[c]
  \/ /\ m.type = "pair-request" /\ stage[c] = "sealing" /\ stage'[c] = "awaiting"
     /\ m.sid = sid[c] /\ sid'[c] = sid[c]
  \/ /\ m.type \in Answers /\ c = Receiver /\ stage[c] = "deciding" /\ m.sid = sid[c]
     /\ (stage'[c] = "ice" /\ sid'[c] = sid[c]) \/ sid'[c] = None

\* It enters a session it hears of, and says so; it goes on in it, with what it heard.
Enters(c, r) ==
  /\ stage[c] = "joining" /\ stage'[c] = "share" /\ settled'[c] # "good"
  /\ Carries(down[c], {"peer-joined"}, sid'[c])
  /\ c \in cut \/ \E m \in Q(r) : m.type = "pake" /\ m.sid = sid'[c]

Advances(c, r) ==
  /\ sid'[c] = sid[c] /\ Depth(stage[c]) <= Depth(stage'[c])
  /\ stage'[c] \in Keyed => stage[c] \in Keyed \/ Carries(down[c], {"pake"}, sid[c])
  /\ stage'[c] \in Keyed \ {"deriving"} =>
       \/ stage[c] \in Keyed \ {"deriving"} \/ c \in cut
       \/ \E m \in Q(r) : m.type = "confirm" /\ m.sid = sid[c]
  /\ stage'[c] \in Proven \/ settled'[c] = "good" =>
       stage[c] \in Proven \/ settled[c] = "good" \/ Carries(down[c], {"confirm"}, sid[c])
  /\ c = Receiver /\ stage'[c] \in Deciding =>
       stage[c] \in Deciding \/ Carries(down[c], {"pair-request"}, sid[c])

Utters(c, r) ==
  /\ \A i \in DOMAIN r : r[i].type \in RelayType => i = 1
  /\ \A m \in Q(r) : m.type \in RelayType => Speaks(c, m)
  /\ \A m \in Q(r) : m.type = "connect" => stage[c] = "start"
  /\ stage'[c] = "start" => stage[c] = "start"
  /\ c \in Sender /\ stage'[c] = "joining" => stage[c] \in {"start", "joining"}
  /\ sid'[c] = None \/ Advances(c, r) \/ Enters(c, r)

Follows(c, r) ==
  /\ r \in Seq(Message) /\ up'[c] = up[c] \o r /\ (c \in cut => r = <<>>)
  /\ Utters(c, r)

\* A client meets nobody again.
LEMMA ClientUnmet ==
  ASSUME Types, NEW c \in Client, NEW r, Alone(c), Follows(c, r), NEW s \in Sender, Unmet(s)'
  PROVE  Unmet(s)
<1>1. s \in Client /\ Receiver \in Client /\ Receiver \notin Sender
  BY Clients
<1>2. Carries(down'[Receiver], {"peer-joined"}, s) => Carries(down[Receiver], {"peer-joined"}, s)
  BY <1>1 DEF Alone, Carries
<1>3. CASE s # c
  BY <1>1, <1>2, <1>3 DEF Alone, Unmet
<1>4. CASE s = c
  <2>1. Q(up'[c]) = Q(up[c]) \cup Q(r)
    BY QueueJoins DEF Types, Follows, Utters
  <2>2. Carries(up'[c], {"connect"}, None) => Carries(up[c], {"connect"}, None) \/ stage[c] = "start"
    BY <2>1 DEF Carries, Follows, Utters
  <2> QED
    BY <1>2, <1>4, <2>2 DEF Unmet, Follows, Utters
<1> QED
  BY <1>3, <1>4

\* No client speaks of a session before its connect is taken.
LEMMA ClientFresh ==
  ASSUME IInv, Phases, NEW c \in Client, NEW r, Alone(c), Follows(c, r), NEW s \in Sender
  PROVE  Fresh(s)'
<1>1. Types /\ Fresh(s) /\ s \in Client /\ Receiver \in Client /\ s # Receiver /\ s # None
  BY Clients DEF IInv, Phases
<1> SUFFICES ASSUME stage'[s] = "start" \/ Carries(up'[s], {"connect"}, None)
             PROVE  /\ sid'[s] = None /\ ~Carries(up'[s], RelayType, s)
                    /\ ~Carries(down'[s], {"peer-joined"}, s) /\ ~Carries(down'[Receiver], RelayType, s)
  BY DEF Fresh
<1>2. Q(down'[s]) \subseteq Q(down[s]) /\ Q(down'[Receiver]) \subseteq Q(down[Receiver])
  BY <1>1 DEF Alone
<1>3. CASE s # c
  <2>1. stage'[s] = stage[s] /\ up'[s] = up[s] /\ sid'[s] = sid[s]
    BY <1>1, <1>3 DEF Alone
  <2> QED
    BY <1>1, <1>2, <2>1 DEF Fresh, Carries
<1>4. CASE s = c
  <2>1. Q(up'[s]) = Q(up[s]) \cup Q(r)
    BY <1>1, <1>4, QueueJoins DEF Types, Follows, Utters
  <2>2. stage[s] = "start" \/ Carries(up[s], {"connect"}, None)
    BY <1>4, <2>1 DEF Follows, Utters, Carries
  <2>3. /\ sid[s] = None /\ ~Carries(up[s], RelayType, s)
        /\ ~Carries(down[s], {"peer-joined"}, s) /\ ~Carries(down[Receiver], RelayType, s)
    BY <1>1, <2>2 DEF Fresh
  <2>4. \A t : Carries(down[s], {"peer-joined"}, t) => t = s
    BY <1>1 DEF IInv, DownSound, Carries
  <2>5. sid'[s] = None
    BY <1>4, <2>3, <2>4 DEF Follows, Utters, Advances, Enters
  <2>6. ~Carries(r, RelayType, s)
    <3> SUFFICES ASSUME NEW m \in Q(r), m.type \in RelayType, m.sid = s
                 PROVE  FALSE
      BY DEF Carries
    <3> QED
      BY <1>1, <1>4, <2>3, <2>5 DEF Follows, Utters, Speaks
  <2> QED
    BY <1>2, <2>1, <2>3, <2>5, <2>6 DEF Carries
<1> QED
  BY <1>3, <1>4

\* What a member has said after its step.
LEMMA ClientSaid ==
  ASSUME Types, NEW c \in Client, NEW r, Alone(c), Follows(c, r), NEW t
  PROVE  Said(c, t)' <=> (Said(c, t) \/ Carries(r, {t}, session))
<1>1. Q(up'[c]) = Q(up[c]) \cup Q(r)
  BY QueueJoins DEF Types, Follows, Utters
<1> QED
  BY <1>1 DEF Said, Carries, Alone

\* A member does not go back.
LEMMA ClientLimit ==
  ASSUME IInv, NEW c \in Client, NEW r, Alone(c), Follows(c, r), session \in Sender,
         NEW x \in {session, Receiver}
  PROVE  Limit(x) <= Limit(x)'
<1>1. Types /\ x \in Client /\ session # Receiver /\ session # None
  BY Clients DEF IInv
<1>2. Unmet(session)' => Unmet(session)
  BY <1>1, ClientUnmet DEF Alone
<1>3. session' = session
  BY DEF Alone
<1>4. CASE Limit(x) = 0
  BY <1>4, Limits
<1>5. CASE Limit(x) # 0
  <2>1. ~((x = session /\ stage[x] \in {"start", "joining"}) \/ (x = Receiver /\ Unmet(session)))
    BY <1>5 DEF Limit
  <2>2. CASE x # c
    <3>1. stage'[x] = stage[x] /\ sid'[x] = sid[x]
      BY <1>1, <2>2 DEF Alone
    <3>2. Limit(x)' = Limit(x)
      BY <1>2, <1>3, <2>1, <3>1 DEF Limit
    <3> QED
      BY <3>2, Limits
  <2>3. CASE x = c
    <3>1. ~((x = session /\ stage'[x] \in {"start", "joining"}) \/ (x = Receiver /\ Unmet(session)'))
      BY <1>2, <2>1, <2>3 DEF Follows, Utters
    <3>2. Limit(x)' = IF sid'[x] # session THEN 4 ELSE Depth(stage'[x])
      BY <1>3, <3>1 DEF Limit
    <3>3. Limit(x) = IF sid[x] # session THEN 4 ELSE Depth(stage[x])
      BY <2>1 DEF Limit
    <3>4. CASE sid'[x] # session
      BY <3>2, <3>4, Limits
    <3>5. CASE sid'[x] = session
      <4>1. ~Enters(c, r)
        <5> SUFFICES ASSUME Enters(c, r)
                     PROVE  FALSE
          OBVIOUS
        <5>1. stage[c] = "joining" /\ Carries(down[c], {"peer-joined"}, session)
          BY <2>3, <3>5 DEF Enters
        <5> QED
          BY <2>1, <2>3, <5>1 DEF Unmet
      <4>2. Advances(c, r)
        BY <1>1, <2>3, <3>5, <4>1 DEF Follows, Utters
      <4> QED
        BY <2>3, <3>2, <3>3, <3>5, <4>2 DEF Advances
    <3> QED
      BY <3>4, <3>5
  <2> QED
    BY <2>2, <2>3
<1> QED
  BY <1>4, <1>5

\* What a member says ranks above what it could have said before, and its stage allows it.
LEMMA ClientRank ==
  ASSUME IInv, IInv', NEW c \in Client, NEW r, Alone(c), Follows(c, r), session \in Sender,
         c \in {session, Receiver}, NEW m \in Q(r), Of(m, session)
  PROVE  Limit(c) < Rank(m.type) /\ Rank(m.type) <= Limit(c)'
<1>1. /\ Types /\ session # Receiver /\ session # None /\ session' = session
      /\ m.sid = session /\ m.type \in RelayType
  BY Clients DEF IInv, Alone, Of
<1>2. Unmet(session)' => Unmet(session)
  BY <1>1, ClientUnmet
<1>3. /\ Unmet(session) => sid[Receiver] # session
      /\ Unmet(session)' => sid'[Receiver] # session
  BY <1>1 DEF IInv, Silent
<1>4. Speaks(c, m)
  BY <1>1 DEF Follows, Utters
<1>5. CASE m.type = "pake"
  <2>1. /\ stage[c] = "joining" /\ stage'[c] = "share" /\ sid'[c] = session
        /\ Carries(down[c], {"peer-joined"}, session)
    BY <1>1, <1>4, <1>5 DEF Speaks, Answers
  <2>2. Limit(c) = 0
    BY <2>1 DEF Limit, Unmet
  <2>3. Limit(c)' = 1
    BY <1>1, <1>3, <2>1 DEF Limit, Depth
  <2> QED
    BY <1>5, <2>2, <2>3, Ranks
<1>6. CASE m.type = "confirm"
  <2>1. stage[c] = "deriving" /\ stage'[c] = "confirming" /\ sid[c] = session /\ sid'[c] = session
    BY <1>1, <1>4, <1>6 DEF Speaks, Answers
  <2>2. Limit(c) = 1
    BY <1>1, <1>3, <2>1 DEF Limit, Depth
  <2>3. Limit(c)' = 2
    BY <1>1, <1>3, <2>1 DEF Limit, Depth
  <2> QED
    BY <1>6, <2>2, <2>3, Ranks
<1>7. CASE m.type = "pair-request"
  <2>1. stage[c] = "sealing" /\ stage'[c] = "awaiting" /\ sid[c] = session /\ sid'[c] = session
    BY <1>1, <1>4, <1>7 DEF Speaks, Answers
  <2>2. Limit(c) = 2
    BY <1>1, <1>3, <2>1 DEF Limit, Depth
  <2>3. Limit(c)' = 3
    BY <1>1, <1>3, <2>1 DEF Limit, Depth
  <2> QED
    BY <1>7, <2>2, <2>3, Ranks
<1>8. CASE m.type \in Answers
  <2>1. /\ c = Receiver /\ stage[c] = "deciding" /\ sid[c] = session
        /\ (stage'[c] = "ice" /\ sid'[c] = session) \/ sid'[c] = None
    BY <1>1, <1>4, <1>8 DEF Speaks, Answers
  <2>2. Limit(c) = 2
    BY <1>1, <1>3, <2>1 DEF Limit, Depth
  <2>3. Limit(c)' = 4
    BY <1>1, <1>2, <1>3, <2>1 DEF Limit, Depth
  <2>4. Rank(m.type) = 4
    BY <1>8, Ranks DEF Answers
  <2> QED
    BY <2>2, <2>3, <2>4
<1> QED
  BY <1>1, <1>5, <1>6, <1>7, <1>8 DEF RelayType, Answers

\* A member that moves stays in its phases ...
LEMMA MoverInPhase ==
  ASSUME IInv, IInv', NEW c \in Client, NEW r, Alone(c), Follows(c, r), session \in Sender,
         c \in {session, Receiver}, InPhase(c)
  PROVE  InPhase(c)'
<1>1. /\ Types /\ session # Receiver /\ session # None /\ session' = session /\ seen' = seen
      /\ cut' = cut /\ Target(c)' = Target(c) /\ Q(down'[c]) \subseteq Q(down[c])
      /\ up[c] \in Seq(Message) /\ r \in Seq(Message) /\ up'[c] = up[c] \o r
  BY Clients DEF IInv, Alone, Target, Types, Follows, Utters
<1>2. \A t : Said(c, t)' <=> (Said(c, t) \/ Carries(r, {t}, session))
  BY <1>1, ClientSaid
<1>3. /\ {"pake", "confirm"} \subseteq RelayType /\ Asking \subseteq RelayType
      /\ Answers \subseteq Asking /\ {"pake", "confirm"} \cap Asking = {}
  BY DEF RelayType, Asking, Answers
<1>4. Q(up'[c]) = Q(up[c]) \cup Q(r)
  BY <1>1, QueueJoins
<1>5. \A n \in Q(r) : Of(n, session) => Limit(c) < Rank(n.type) /\ Rank(n.type) <= Limit(c)'
  BY ClientRank
<1>6. \A t \in RelayType : Said(c, t) => Rank(t) <= Limit(c)
  BY DEF InPhase, Within
<1>7. \A t \in RelayType : Rank(t) \in Nat /\ Limit(c) \in Nat /\ Limit(c)' \in Nat
  BY Ranks, Limits
<1>8. ASSUME NEW t \in RelayType, Said(c, t), NEW n \in Q(r), Of(n, session)
      PROVE  Rank(t) < Rank(n.type)
  BY <1>5, <1>6, <1>7, <1>8 DEF Of
<1>9. Ordered(c)'
  <2>1. Rising(up[c] \o r, session)
    <3>1. \A m \in Q(up[c]) : \A n \in Q(r) : Of(m, session) /\ Of(n, session) => Rank(m.type) < Rank(n.type)
      BY <1>8 DEF Said, Carries, Of
    <3>2. Rising(up[c], session) /\ \A i \in DOMAIN r : r[i].type \in RelayType => i = 1
      BY DEF InPhase, Ordered, Follows, Utters
    <3> QED
      BY <1>1, <3>1, <3>2, RisingJoin
  <2>2. ASSUME NEW t \in RelayType, NEW m \in Q(up'[c]), <<c, t>> \in seen, Of(m, session)
        PROVE  Rank(t) < Rank(m.type)
    <3>1. CASE m \in Q(up[c])
      BY <2>2, <3>1 DEF InPhase, Ordered
    <3>2. CASE m \in Q(r)
      BY <1>8, <2>2, <3>2 DEF Said
    <3> QED
      BY <1>4, <3>1, <3>2
  <2> QED
    BY <1>1, <2>1, <2>2 DEF Ordered
<1>10. Within(c)'
  <2>1. Limit(c) <= Limit(c)'
    BY ClientLimit
  <2>2. ASSUME NEW t \in RelayType, Said(c, t)'
        PROVE  Rank(t) <= Limit(c)'
    <3>1. CASE Said(c, t)
      BY <1>6, <1>7, <2>1, <3>1
    <3>2. CASE Carries(r, {t}, session)
      BY <1>5, <3>2 DEF Carries, Of
    <3> QED
      BY <1>2, <2>2, <3>1, <3>2
  <2> QED
    BY <2>2 DEF Within
<1>11. ASSUME NEW t \in RelayType, Carries(r, {t}, session)
       PROVE  /\ t = "confirm" => sid[c] = session /\ stage[c] \in Keyed
              /\ t \in Asking => /\ sid[c] = session /\ stage[c] \in Proven
                                 /\ stage[c] \in Keyed \ {"deriving"}
              /\ t \in Answers => c = Receiver /\ stage[c] \in Deciding
  <2>1. PICK m \in Q(r) : m.type = t /\ m.sid = session
    BY <1>11 DEF Carries
  <2>2. Speaks(c, m)
    BY <2>1 DEF Follows, Utters
  <2> QED
    BY <2>1, <2>2 DEF Speaks, Keyed, Proven, Asking, Answers, Deciding
<1>12. Complete(c)'
  <2> SUFFICES ASSUME c \notin cut
               PROVE  /\ sid'[c] = session => Said(c, "pake")'
                      /\ sid'[c] = session /\ stage'[c] \in Keyed \ {"deriving"} => Said(c, "confirm")'
                      /\ Said(c, "confirm")' => Said(c, "pake")'
                      /\ \A t \in Asking : Said(c, t)' => Said(c, "confirm")'
    BY <1>1 DEF Complete
  <2>1. /\ sid[c] = session => Said(c, "pake")
        /\ sid[c] = session /\ stage[c] \in Keyed \ {"deriving"} => Said(c, "confirm")
        /\ Said(c, "confirm") => Said(c, "pake")
        /\ \A t \in Asking : Said(c, t) => Said(c, "confirm")
    BY DEF InPhase, Complete
  <2>2. sid'[c] = session => sid[c] = session \/ Carries(r, {"pake"}, session)
    BY <1>1 DEF Follows, Utters, Advances, Enters, Carries
  <2>3. sid'[c] = session /\ stage'[c] \in Keyed \ {"deriving"} =>
          (sid[c] = session /\ stage[c] \in Keyed \ {"deriving"}) \/ Carries(r, {"confirm"}, session)
    BY <1>1 DEF Follows, Utters, Advances, Enters, Carries, Keyed
  <2> QED
    BY <1>2, <1>3, <1>11, <2>1, <2>2, <2>3
<1>13. Grounded(c)'
  <2>1. ASSUME NEW t \in RelayType, Heard(c, t)'
        PROVE  Heard(c, t)
    <3>1. Carries(down'[c], {t}, session) => Carries(down[c], {t}, session)
      BY <1>1 DEF Carries
    <3>2. sid'[c] = session /\ stage'[c] \in Keyed =>
            (sid[c] = session /\ stage[c] \in Keyed) \/ Carries(down[c], {"pake"}, session)
      BY <1>1 DEF Follows, Utters, Advances, Enters, Keyed
    <3>3. sid'[c] = session /\ (stage'[c] \in Proven \/ settled'[c] = "good") =>
            \/ sid[c] = session /\ (stage[c] \in Proven \/ settled[c] = "good")
            \/ Carries(down[c], {"confirm"}, session)
      BY <1>1 DEF Follows, Utters, Advances, Enters, Proven
    <3>4. c = Receiver /\ sid'[c] = session /\ stage'[c] \in Deciding =>
            (sid[c] = session /\ stage[c] \in Deciding) \/ Carries(down[c], {"pair-request"}, session)
      BY <1>1 DEF Follows, Utters, Advances, Enters, Deciding
    <3>5. CASE t = "pake"
      BY <1>1, <1>2, <1>3, <1>11, <2>1, <3>1, <3>2, <3>5 DEF Heard
    <3>6. CASE t = "confirm"
      BY <1>1, <1>2, <1>3, <1>11, <2>1, <3>1, <3>3, <3>6 DEF Heard
    <3>7. CASE t = "pair-request"
      BY <1>1, <1>2, <1>3, <1>11, <2>1, <3>1, <3>4, <3>7 DEF Heard
    <3>8. CASE t \notin {"pake", "confirm", "pair-request"}
      BY <1>1, <2>1, <3>1, <3>8 DEF Heard
    <3> QED
      BY <3>5, <3>6, <3>7, <3>8
  <2> QED
    BY <1>1, <2>1 DEF Grounded, InPhase
<1> QED
  BY <1>9, <1>10, <1>12, <1>13 DEF InPhase

\* ... and so does the other one.
LEMMA OtherInPhase ==
  ASSUME IInv, NEW c \in Client, NEW r, Alone(c), Follows(c, r), session \in Sender,
         NEW x \in {session, Receiver}, x # c, InPhase(x)
  PROVE  InPhase(x)'
<1>1. /\ x \in Client /\ session' = session /\ seen' = seen /\ cut' = cut
      /\ Target(x)' = Target(x) /\ stage'[x] = stage[x] /\ sid'[x] = sid[x]
      /\ settled'[x] = settled[x] /\ up'[x] = up[x] /\ down'[x] = down[x]
  BY Clients DEF Alone, Target
<1>2. \A t : Said(x, t)' <=> Said(x, t)
  BY <1>1 DEF Said
<1>3. Limit(x) <= Limit(x)' /\ Limit(x) \in Nat /\ Limit(x)' \in Nat
  BY ClientLimit, Limits
<1>4. Ordered(x)'
  BY <1>1 DEF InPhase, Ordered
<1>5. Within(x)'
  <2> SUFFICES ASSUME NEW t \in RelayType, Said(x, t)
               PROVE  Rank(t) <= Limit(x)'
    BY <1>2 DEF Within
  <2>1. Rank(t) <= Limit(x) /\ Rank(t) \in Nat
    BY Ranks DEF InPhase, Within
  <2> QED
    BY <1>3, <2>1
<1>6. Complete(x)'
  BY <1>1, <1>2 DEF InPhase, Complete
<1>7. Grounded(x)'
  BY <1>1, <1>2 DEF InPhase, Grounded, Heard
<1> QED
  BY <1>4, <1>5, <1>6, <1>7 DEF InPhase

\* A step of a client keeps the phases.
LEMMA ClientPhases ==
  ASSUME IInv, IInv', Phases, NEW c \in Client, NEW r, Alone(c), Follows(c, r)
  PROVE  Phases'
<1>1. \A s \in Sender : Fresh(s)'
  BY ClientFresh
<1>2. CutEmpty'
  <2> SUFFICES ASSUME NEW x \in Client, x \in cut
               PROVE  up'[x] = <<>>
    BY DEF CutEmpty, Alone
  <2>1. up[x] = <<>>
    BY DEF Phases, CutEmpty
  <2>2. CASE x # c
    BY <2>1, <2>2 DEF Alone
  <2>3. CASE x = c
    BY <2>1, <2>3, ConcatEmptySeq DEF Follows, Utters
  <2> QED
    BY <2>2, <2>3
<1>3. ASSUME session # None, NEW x \in {session, Receiver}
      PROVE  InPhase(x)'
  <2>1. session \in Sender /\ InPhase(x)
    BY <1>3 DEF IInv, Types, Phases
  <2> QED
    BY <2>1, MoverInPhase, OtherInPhase
<1>4. session' = session
  BY DEF Alone
<1> QED
  BY <1>1, <1>2, <1>3, <1>4 DEF Phases

-----------------------------------------------------------------------------
(* Every client follows the phases *)

\* What is common to the steps of a client.
LEMMA AloneIf ==
  ASSUME IInv, NEW c \in Client, ClientOnly,
         stage' = stage \/ \E v : stage' = [stage EXCEPT ![c] = v],
         sid' = sid \/ \E v : sid' = [sid EXCEPT ![c] = v],
         settled' = settled \/ \E v : settled' = [settled EXCEPT ![c] = v],
         up' = up \/ \E r \in Seq(Message) : Send(c, r),
         down' = down \/ (down[c] # <<>> /\ (Pop(c) \/ TakeRead(c))) \/ down' = [down EXCEPT ![c] = <<>>]
  PROVE  Alone(c)
<1>1. Types
  BY DEF IInv
<1>2. \A x \in Client \ {c} : stage'[x] = stage[x] /\ sid'[x] = sid[x] /\ settled'[x] = settled[x]
  BY <1>1 DEF Types
<1>3. \A x \in Client \ {c} : up'[x] = up[x]
  BY <1>1, Sent
<1>4. (\A x \in Client \ {c} : down'[x] = down[x]) /\ Q(down'[c]) \subseteq Q(down[c])
  BY <1>1, Popped, Taken, Kept, Emptied
<1> QED
  BY <1>2, <1>3, <1>4 DEF Alone, ClientOnly, server

\* A step that says nothing.
LEMMA QuietPhases ==
  ASSUME IInv, IInv', Phases, NEW c \in Client, Alone(c), up' = up,
         stage'[c] = "start" => stage[c] = "start",
         c \in Sender /\ stage'[c] = "joining" => stage[c] = "joining",
         sid'[c] = None \/ Advances(c, <<>>)
  PROVE  Phases'
<1> DEFINE r == <<>>
<1>1. r \in Seq(Message) /\ Q(r) = {} /\ DOMAIN r = {} /\ up[c] \o r = up[c] /\ r = <<>>
  BY NoMessage, ConcatEmptySeq DEF IInv, Types
<1> HIDE DEF r
<1>2. Follows(c, r)
  BY <1>1 DEF Follows, Utters
<1> QED
  BY <1>2, ClientPhases

\* A step that says something, which nobody hears where the socket is closed.
LEMMA UtterPhases ==
  ASSUME IInv, IInv', Phases, NEW c \in Client, Alone(c), NEW q \in Seq(Message), Send(c, q),
         Utters(c, q)
  PROVE  Phases'
<1> DEFINE e == <<>>
<1>1. e \in Seq(Message) /\ Q(e) = {} /\ DOMAIN e = {} /\ up[c] \o e = up[c] /\ e = <<>>
      /\ up \in [Client -> Seq(Message)]
  BY NoMessage, ConcatEmptySeq DEF IInv, Types
<1> HIDE DEF e
<1>2. CASE c \in cut
  <2>1. Utters(c, e)
    BY <1>1, <1>2 DEF Utters, Advances, Enters
  <2>2. Follows(c, e)
    BY <1>1, <1>2, <2>1 DEF Follows, Send
  <2> QED
    BY <2>2, ClientPhases
<1>3. CASE c \notin cut
  <2>1. Follows(c, q)
    BY <1>1, <1>3 DEF Follows, Send
  <2> QED
    BY <2>1, ClientPhases
<1> QED
  BY <1>2, <1>3

\* A step that ends a session, or is in none.
LEMMA PlainPhases ==
  ASSUME IInv, IInv', Phases, NEW c \in Client, Alone(c), NEW q \in Seq(Message), Send(c, q),
         \A m \in Q(q) : m.type \notin RelayType /\ (m.type = "connect" => stage[c] = "start"),
         stage'[c] # "start", c \in Sender /\ stage'[c] = "joining" => stage[c] = "start",
         sid'[c] = None
  PROVE  Phases'
<1>1. \A i \in DOMAIN q : q[i].type \notin RelayType
  BY DEF Q
<1>2. Utters(c, q)
  BY <1>1 DEF Utters
<1> QED
  BY <1>2, UtterPhases

\* The two ways out.
LEMMA EndPhases ==
  ASSUME IInv, IInv', Phases, NEW c \in Client,
         (\E result \in Outcome : End(c, result) /\ UNCHANGED <<counters, accepted>> /\ ClientOnly)
           \/ \E result \in Outcome : Vanish(c, result)
  PROVE  Phases'
<1> DEFINE bye == <<Plain("bye"), Close>>
           close == <<Close>>
           nothing == <<>>
<1>1. Send(c, bye) \/ Send(c, close) \/ Send(c, nothing)
  BY DEF End, Vanish
<1>2. /\ bye \in Seq(Message) /\ Q(bye) = {Plain("bye"), Close}
      /\ close \in Seq(Message) /\ Q(close) = {Close}
      /\ nothing \in Seq(Message) /\ Q(nothing) = {}
  BY Partings, NoMessage, OneMessage, TwoMessages
<1> HIDE DEF bye, close, nothing
<1>3. PICK q \in {bye, close, nothing} : Send(c, q)
  BY <1>1
<1>4. q \in Seq(Message) /\ \A m \in Q(q) : m.type \notin RelayType /\ m.type # "connect"
  BY <1>2, <1>3, Partings DEF RelayType
<1>5. /\ down' = [down EXCEPT ![c] = <<>>] /\ stage' = [stage EXCEPT ![c] = "over"]
      /\ sid' = [sid EXCEPT ![c] = None] /\ settled' = [settled EXCEPT ![c] = "no"] /\ ClientOnly
  BY DEF End, Vanish, Go
<1>6. Alone(c)
  BY <1>3, <1>4, <1>5, AloneIf
<1>7. stage'[c] = "over" /\ sid'[c] = None
  BY <1>5 DEF IInv, Types
<1> QED
  BY <1>3, <1>4, <1>6, <1>7, PlainPhases

\* A depth is a number.
LEMMA Depths == \A st : Depth(st) \in 1 .. 4
BY DEF Depth

\* A client that never connects, drops a message or notes the close.
LEMMA IdlePhases ==
  ASSUME IInv, IInv', Phases, NEW c \in Client, NeverConnects(c) \/ Lose(c) \/ SeesClose(c)
  PROVE  Phases'
<1>1. CASE NeverConnects(c)
  <2>1. /\ stage[c] = "start" /\ stage' = [stage EXCEPT ![c] = "over"] /\ ClientOnly
        /\ sid' = sid /\ settled' = settled /\ up' = up /\ down' = down
    BY <1>1 DEF NeverConnects, Go, held
  <2>2. Alone(c)
    BY <2>1, AloneIf
  <2>3. stage'[c] = "over" /\ sid'[c] = None
    BY <2>1 DEF IInv, Types, Local, Keyed
  <2> QED
    BY <2>1, <2>2, <2>3, QuietPhases
<1>2. CASE Lose(c) \/ SeesClose(c)
  <2>1. /\ down[c] # <<>> /\ Pop(c) /\ ClientOnly
        /\ sid' = sid /\ settled' = settled /\ stage' = stage /\ up' = up
    BY <1>2 DEF Lose, SeesClose, Gets
  <2>2. Alone(c)
    BY <2>1, AloneIf
  <2>3. Advances(c, <<>>)
    BY <2>1, Depths DEF Advances
  <2> QED
    BY <2>1, <2>2, <2>3, QuietPhases
<1> QED
  BY <1>1, <1>2

\* The message a wait of a session ends with is of that session.
LEMMA AnswerHeard ==
  ASSUME IInv, NEW c \in Client, Gets(c, "answer"), stage[c] \in OfSession,
         NEW t, t = WaitType[stage[c]]
  PROVE  Carries(down[c], {t}, sid[c]) /\ settled[c] = "no" /\ down[c] # <<>>
<1>1. /\ down[c] # <<>> /\ Head(down[c]) \in Q(down[c]) /\ settled[c] = "no"
      /\ Head(down[c]).type = WaitType[stage[c]] /\ Head(down[c]).sid \in {None, sid[c]}
  BY Got
<1>2. WaitType[stage[c]] \in RelayType
  BY DEF OfSession, WaitType, RelayType
<1>3. Head(down[c]).sid \in Sender
  BY <1>1, <1>2 DEF IInv, DownSound
<1> QED
  BY <1>1, <1>3, Clients DEF Carries

\* The receiver that hears its code is registered is in no session.
LEMMA RegisteredPhases ==
  ASSUME IInv, IInv', Phases, Registered
  PROVE  Phases'
<1> DEFINE c == Receiver
<1>1. c \in Client /\ c \notin Sender
  BY Clients
<1>2. /\ stage[c] \in {"registering", "rekeying", "rerequesting"} /\ ClientOnly
      /\ down[c] # <<>> /\ TakeRead(c) /\ sid' = sid /\ settled' = settled
      /\ stage' = [stage EXCEPT ![c] = "joining"] /\ up' = up
  BY DEF Registered, Gets, Go, held
<1>3. Alone(c)
  BY <1>1, <1>2, AloneIf
<1>4. stage'[c] = "joining" /\ sid'[c] = None
  BY <1>1, <1>2 DEF IInv, Types, Local, Keyed
<1> QED
  BY <1>1, <1>2, <1>3, <1>4, QuietPhases

\* Steps in which a client goes on in its session without a word.
LEMMA ListenPhases ==
  ASSUME IInv, IInv', Phases, NEW c \in Client,
         \/ PeerShare(c) \/ Confirmed(c) \/ IceConfig(c) \/ (c \in Sender /\ Accepted(c))
         \/ (c = Receiver /\ Requests)
         \/ /\ stage[c] = "ice" /\ Go(c, "paired")
            /\ UNCHANGED <<held, counters, shut, outcome, accepted, up, down>> /\ ClientOnly
  PROVE  Phases'
<1>1. /\ ClientOnly /\ up' = up /\ sid' = sid
      /\ \E st : Go(c, st)
      /\ settled' = settled \/ \E v : settled' = [settled EXCEPT ![c] = v]
      /\ down' = down \/ (down[c] # <<>> /\ Pop(c))
  BY DEF PeerShare, Confirmed, IceConfig, Accepted, Requests, Gets, held
<1>2. Alone(c)
  BY <1>1, AloneIf DEF Go
<1>3. stage \in [Client -> Stage] /\ settled \in [Client -> {"no", "good", "bad", "left", "refused", "timeout"}]
  BY DEF IInv, Types
<1>4. ASSUME NEW st \in Stage, Go(c, st), st \notin {"start", "joining"}, Depth(stage[c]) <= Depth(st),
             st \in Keyed => stage[c] \in Keyed \/ Carries(down[c], {"pake"}, sid[c]),
             st \in Keyed \ {"deriving"} => stage[c] \in Keyed \ {"deriving"},
             st \in Proven \/ settled'[c] = "good" =>
               stage[c] \in Proven \/ settled[c] = "good" \/ Carries(down[c], {"confirm"}, sid[c]),
             c = Receiver /\ st \in Deciding =>
               stage[c] \in Deciding \/ Carries(down[c], {"pair-request"}, sid[c])
      PROVE  Phases'
  <2>1. stage'[c] = st
    BY <1>3, <1>4 DEF Go
  <2>2. Advances(c, <<>>)
    BY <1>1, <1>4, <2>1 DEF Advances
  <2> QED
    BY <1>1, <1>2, <1>4, <2>1, <2>2, QuietPhases
<1>5. CASE PeerShare(c)
  <2>1. stage[c] = "share" /\ Gets(c, "answer") /\ Go(c, "deriving") /\ settled' = settled
    BY <1>5 DEF PeerShare
  <2>2. stage[c] \in OfSession /\ "pake" = WaitType[stage[c]]
    BY <2>1 DEF OfSession, WaitType
  <2>3. Carries(down[c], {"pake"}, sid[c]) /\ settled[c] = "no"
    BY <2>1, <2>2, AnswerHeard
  <2> QED
    BY <1>4, <2>1, <2>3 DEF Stage, Keyed, Proven, Deciding, Depth
<1>6. CASE Confirmed(c)
  <2>1. /\ stage[c] = "confirming" /\ settled[c] = "good"
        /\ Go(c, IF c = Receiver THEN "request" ELSE "sealing")
    BY <1>6 DEF Confirmed
  <2>2. PICK st \in {"request", "sealing"} : Go(c, st)
    BY <2>1
  <2> QED
    BY <1>4, <2>1, <2>2 DEF Stage, Keyed, Proven, Deciding, Depth
<1>7. CASE IceConfig(c) \/ (stage[c] = "ice" /\ Go(c, "paired"))
  <2>1. stage[c] = "ice" /\ Go(c, "paired")
    BY <1>7 DEF IceConfig
  <2> QED
    BY <1>4, <2>1 DEF Stage, Keyed, Proven, Deciding, Depth
<1>8. CASE c \in Sender /\ Accepted(c)
  <2>1. stage[c] = "awaiting" /\ Go(c, IF c \in cached THEN "paired" ELSE "ice") /\ c # Receiver
    BY <1>8, Clients DEF Accepted
  <2>2. PICK st \in {"paired", "ice"} : Go(c, st)
    BY <2>1
  <2> QED
    BY <1>4, <2>1, <2>2 DEF Stage, Keyed, Proven, Deciding, Depth
<1>9. CASE c = Receiver /\ Requests
  <2>1. stage[c] = "request" /\ Gets(c, "answer") /\ Go(c, "deciding") /\ settled' = settled
    BY <1>9 DEF Requests, held
  <2>2. stage[c] \in OfSession /\ "pair-request" = WaitType[stage[c]]
    BY <2>1 DEF OfSession, WaitType
  <2>3. Carries(down[c], {"pair-request"}, sid[c])
    BY <2>1, <2>2, AnswerHeard
  <2> QED
    BY <1>4, <2>1, <2>3 DEF Stage, Keyed, Proven, Deciding, Depth
<1> QED
  BY <1>5, <1>6, <1>7, <1>8, <1>9

\* A wait for the confirmation that settles, by a message or its timer.
LEMMA SettlePhases ==
  ASSUME IInv, IInv', Phases, NEW c \in Client,
         \/ Settle(c)
         \/ /\ settled' = [settled EXCEPT ![c] = "timeout"]
            /\ UNCHANGED <<sid, key, cached, counters, stage, shut, outcome, accepted, up, down>>
            /\ ClientOnly
  PROVE  Phases'
<1>1. /\ ClientOnly /\ up' = up /\ sid' = sid /\ stage' = stage
      /\ \E v : settled' = [settled EXCEPT ![c] = v]
      /\ down' = down \/ (down[c] # <<>> /\ TakeRead(c))
  BY DEF Settle, Gets
<1>2. Alone(c)
  BY <1>1, AloneIf
<1>3. settled \in [Client -> {"no", "good", "bad", "left", "refused", "timeout"}]
  BY DEF IInv, Types
<1>4. settled'[c] = "good" => Carries(down[c], {"confirm"}, sid[c])
  <2> SUFFICES ASSUME settled'[c] = "good"
               PROVE  Carries(down[c], {"confirm"}, sid[c])
    OBVIOUS
  <2>1. Settle(c)
    BY <1>3
  <2>2. Gets(c, "answer") /\ stage[c] \in {"deriving", "confirming"}
    BY <1>3, <2>1 DEF Settle
  <2>3. stage[c] \in OfSession /\ "confirm" = WaitType[stage[c]]
    BY <2>2 DEF OfSession, WaitType
  <2> QED
    BY <2>2, <2>3, AnswerHeard
<1>5. Advances(c, <<>>)
  BY <1>1, <1>4, Depths DEF Advances
<1> QED
  BY <1>1, <1>2, <1>5, QuietPhases

\* The receiver registers, or gives its session up to be registered again.
LEMMA RegisterPhases ==
  ASSUME IInv, IInv', Phases,
         StartReceiver \/ RegisterAgain \/ Rekey
           \/ (GiveUpRequest /\ (down' = down \/ (down[Receiver] # <<>> /\ (Pop(Receiver) \/ TakeRead(Receiver)))))
  PROVE  Phases'
<1> DEFINE c == Receiver
<1>1. c \in Client /\ c \notin Sender
  BY Clients
<1>2. PICK type \in {"register", "retry"} : Send(c, <<Plain(type)>>)
  BY DEF StartReceiver, RegisterAgain, Rekey, GiveUpRequest
<1>3. PICK m \in Message : m = Plain(type) /\ m.type = type
  BY <1>2 DEF Plain, Msg, Message, MsgType, Key
<1> DEFINE q == <<m>>
<1>4. q \in Seq(Message) /\ Q(q) = {m} /\ Send(c, q)
  BY <1>2, <1>3, OneMessage
<1> HIDE DEF q
<1>5. /\ ClientOnly
      /\ settled' = settled \/ \E v : settled' = [settled EXCEPT ![c] = v]
      /\ down' = down \/ (down[c] # <<>> /\ (Pop(c) \/ TakeRead(c)))
      /\ (sid' = sid /\ stage[c] \in {"start", "registering"}) \/ sid' = [sid EXCEPT ![c] = None]
      /\ \/ stage[c] = "registering" /\ stage' = stage
         \/ \E v \in {"registering", "rekeying", "rerequesting"} : stage' = [stage EXCEPT ![c] = v]
  BY DEF StartReceiver, RegisterAgain, Rekey, GiveUpRequest, Gets, Go, held
<1>6. Alone(c)
  BY <1>1, <1>4, <1>5, AloneIf
<1>7. Local(c) /\ Types
  BY <1>1 DEF IInv
<1>8. sid'[c] = None
  BY <1>1, <1>5, <1>7 DEF Types, Local, Keyed
<1>9. stage'[c] # "start"
  BY <1>1, <1>5, <1>7 DEF Types
<1>10. \A n \in Q(q) : n.type \notin RelayType /\ n.type # "connect"
  BY <1>3, <1>4 DEF RelayType
<1> QED
  BY <1>1, <1>4, <1>6, <1>8, <1>9, <1>10, PlainPhases

\* A sender asks for the code.
LEMMA StartSenderPhases ==
  ASSUME IInv, IInv', Phases, NEW c \in Sender, StartSender(c)
  PROVE  Phases'
<1>1. c \in Client
  BY Clients
<1>2. /\ stage[c] = "start" /\ Send(c, <<Plain("connect")>>) /\ stage' = [stage EXCEPT ![c] = "joining"]
      /\ sid' = sid /\ settled' = settled /\ down' = down /\ ClientOnly
  BY DEF StartSender, Go, held
<1>3. Plain("connect") \in Message /\ Plain("connect").type = "connect"
  BY DEF Plain, Msg, Message, MsgType, Key
<1> DEFINE q == <<Plain("connect")>>
<1>4. q \in Seq(Message) /\ Q(q) = {Plain("connect")} /\ Send(c, q)
  BY <1>2, <1>3, OneMessage
<1> HIDE DEF q
<1>5. Alone(c)
  BY <1>1, <1>2, <1>4, AloneIf
<1>6. stage'[c] = "joining" /\ sid'[c] = None
  BY <1>1, <1>2 DEF IInv, Types, Local, Keyed
<1>7. \A n \in Q(q) : n.type \notin RelayType
  BY <1>3, <1>4 DEF RelayType
<1> QED
  BY <1>1, <1>2, <1>4, <1>5, <1>6, <1>7, PlainPhases

\* A step in which a client says one thing in its session.
LEMMA SpeakPhases ==
  ASSUME IInv, IInv', Phases, NEW c \in Client, NEW m \in Message, Send(c, <<m>>),
         m.type \in RelayType, Speaks(c, m), Alone(c), stage'[c] \notin {"start", "joining"},
         \A r : Q(r) = {m} => Advances(c, r) \/ Enters(c, r)
  PROVE  Phases'
<1> DEFINE q == <<m>>
<1>1. q \in Seq(Message) /\ Q(q) = {m} /\ Send(c, q) /\ DOMAIN q = {1}
  BY OneMessage
<1> HIDE DEF q
<1>2. Utters(c, q)
  BY <1>1 DEF Utters, RelayType
<1> QED
  BY <1>1, <1>2, UtterPhases

\* Entering a session.
LEMMA JoinedPhases ==
  ASSUME IInv, IInv', Phases, NEW c \in Client, Joined(c)
  PROVE  Phases'
<1>1. Types /\ stage[c] = "joining" /\ Gets(c, "answer") /\ TakeRead(c)
  BY DEF IInv, Joined
<1>2. /\ down[c] # <<>> /\ Head(down[c]) \in Q(down[c]) /\ Head(down[c]).type = "peer-joined"
      /\ settled[c] = "no"
  BY <1>1, Got DEF WaitType
<1>3. PICK s \in Sender : s = Head(down[c]).sid
  BY <1>2 DEF IInv, DownSound
<1>4. /\ sid' = [sid EXCEPT ![c] = s] /\ Send(c, <<Msg("pake", s, Words(c))>>)
      /\ stage' = [stage EXCEPT ![c] = "share"] /\ settled' = settled /\ ClientOnly
  BY <1>3 DEF Joined, Go
<1>5. Words(c) \in {"right", "wrong"}
  BY DEF Words
<1>6. PICK m \in Message : m = Msg("pake", s, Words(c)) /\ m.type = "pake" /\ m.sid = s
  BY <1>5, Written DEF MsgType, RelayType
<1>7. Send(c, <<m>>)
  BY <1>4, <1>6, Zenon
<1>8. Alone(c)
  <2>1. <<m>> \in Seq(Message)
    BY OneMessage
  <2> QED
    BY <1>1, <1>2, <1>4, <1>7, <2>1, AloneIf
<1>9. sid'[c] = s /\ stage'[c] = "share" /\ settled'[c] = "no"
  BY <1>1, <1>2, <1>4 DEF Types
<1>10. Carries(down[c], {"peer-joined"}, s)
  BY <1>2, <1>3 DEF Carries
<1>11. Speaks(c, m)
  BY <1>1, <1>6, <1>9, <1>10 DEF Speaks
<1>12. \A r : Q(r) = {m} => Enters(c, r)
  BY <1>1, <1>6, <1>9, <1>10 DEF Enters
<1> QED
  BY <1>6, <1>7, <1>8, <1>9, <1>11, <1>12, SpeakPhases DEF RelayType

\* The confirmation, the request and the acceptance, each from its stage.
LEMMA SayPhases ==
  ASSUME IInv, IInv', Phases, NEW c \in Client,
         SendConfirm(c) \/ (c \in Sender /\ PairRequest(c)) \/ (c = Receiver /\ Accept)
  PROVE  Phases'
<1>1. Types /\ Local(c)
  BY DEF IInv
<1>2. /\ SendConfirm(c) => /\ stage[c] = "deriving" /\ Send(c, <<Msg("confirm", sid[c], key[c])>>)
                           /\ stage' = [stage EXCEPT ![c] = "confirming"]
      /\ PairRequest(c) => /\ stage[c] = "sealing" /\ Send(c, <<Msg("pair-request", sid[c], key[c])>>)
                           /\ stage' = [stage EXCEPT ![c] = "awaiting"]
      /\ c = Receiver /\ Accept =>
           /\ stage[c] = "deciding" /\ Send(c, <<Msg("pair-accept", sid[c], key[c])>>)
           /\ stage' = [stage EXCEPT ![c] = "ice"]
      /\ sid' = sid /\ settled' = settled /\ down' = down /\ ClientOnly
  BY DEF SendConfirm, PairRequest, Accept, Go, held
<1>3. PICK type \in {"confirm", "pair-request", "pair-accept"}, st \in {"confirming", "awaiting", "ice"} :
        /\ \/ type = "confirm" /\ st = "confirming" /\ stage[c] = "deriving"
           \/ type = "pair-request" /\ st = "awaiting" /\ stage[c] = "sealing" /\ c # Receiver
           \/ type = "pair-accept" /\ st = "ice" /\ stage[c] = "deciding" /\ c = Receiver
        /\ Send(c, <<Msg(type, sid[c], key[c])>>) /\ stage' = [stage EXCEPT ![c] = st]
  <2>1. CASE SendConfirm(c)
    BY <1>2, <2>1
  <2>2. CASE c \in Sender /\ PairRequest(c)
    BY <1>2, <2>2, Clients
  <2>3. CASE c = Receiver /\ Accept
    BY <1>2, <2>3
  <2> QED
    BY <2>1, <2>2, <2>3
<1>4. sid[c] \in Sender \cup {None} /\ key[c] \in Key /\ type \in MsgType /\ type \in RelayType
  BY <1>1, <1>3 DEF Types, MsgType, RelayType
<1>5. PICK m \in Message : m = Msg(type, sid[c], key[c]) /\ m.type = type /\ m.sid = sid[c]
  BY <1>4, Written
<1>6. Send(c, <<m>>)
  BY <1>3, <1>5, Zenon
<1>7. Alone(c)
  <2>1. <<m>> \in Seq(Message)
    BY OneMessage
  <2> QED
    BY <1>2, <1>3, <1>6, <2>1, AloneIf
<1>8. stage'[c] = st /\ sid'[c] = sid[c] /\ settled'[c] = settled[c]
  BY <1>1, <1>2, <1>3 DEF Types
<1>9. Speaks(c, m)
  BY <1>3, <1>5, <1>8 DEF Speaks, Answers
<1>10. \A r : Q(r) = {m} => Advances(c, r)
  BY <1>3, <1>5, <1>8 DEF Advances, Depth, Keyed, Proven, Deciding
<1>11. stage'[c] \notin {"start", "joining"}
  BY <1>3, <1>8
<1> QED
  BY <1>4, <1>5, <1>6, <1>7, <1>9, <1>10, <1>11, SpeakPhases

\* The user's refusal.
LEMMA DeclinePhases ==
  ASSUME IInv, IInv', Phases, Decline
  PROVE  Phases'
<1> DEFINE c == Receiver
           nothing == <<>>
<1>1. Types /\ Local(c) /\ c \in Client /\ c \notin Sender /\ stage[c] = "deciding"
  BY Clients DEF IInv, Decline
<1>2. sid[c] \in Sender \cup {None} /\ key[c] \in Key
  BY <1>1 DEF Types
<1>3. PICK m \in Message : /\ m = Msg("pair-reject", sid[c], key[c])
                           /\ m.type = "pair-reject" /\ m.sid = sid[c]
  <2>1. "pair-reject" \in MsgType
    BY DEF MsgType, RelayType
  <2>2. key[c] \in Key \cup Code \cup {"right", "wrong"}
    BY <1>2
  <2> QED
    BY <1>2, <2>1, <2>2, Written
<1> DEFINE no == <<m, Plain("bye"), Close>>
<1>4. Send(c, no) \/ Send(c, nothing)
  <2>1. Send(c, <<Msg("pair-reject", sid[c], key[c]), Plain("bye"), Close>>) \/ Send(c, <<>>)
    BY DEF Decline
  <2> QED
    BY <1>3, <2>1, Zenon
<1>5. /\ no \in Seq(Message) /\ Q(no) = {m, Plain("bye"), Close}
      /\ nothing \in Seq(Message) /\ Q(nothing) = {}
  BY <1>3, Partings, NoMessage, ThreeMessages
<1>6. \A i \in DOMAIN no : no[i].type \in RelayType => i = 1
  <2>1. DOMAIN no = {1, 2, 3} /\ no[2] = Plain("bye") /\ no[3] = Close
    OBVIOUS
  <2> QED
    BY <2>1, Partings DEF RelayType
<1>7. \A i \in DOMAIN nothing : i = 1
  OBVIOUS
<1> HIDE DEF no, nothing
<1>8. PICK q \in {no, nothing} : Send(c, q)
  BY <1>4
<1>9. /\ q \in Seq(Message) /\ \A n \in Q(q) : n = m \/ n.type \in {"bye", "close"}
      /\ \A i \in DOMAIN q : q[i].type \in RelayType => i = 1
  BY <1>5, <1>6, <1>7, <1>8, Partings
<1>10. /\ down' = [down EXCEPT ![c] = <<>>] /\ stage' = [stage EXCEPT ![c] = "over"]
       /\ sid' = [sid EXCEPT ![c] = None] /\ settled' = settled /\ ClientOnly
  BY DEF Decline, Go
<1>11. Alone(c)
  BY <1>1, <1>8, <1>9, <1>10, AloneIf
<1>12. stage'[c] = "over" /\ sid'[c] = None
  BY <1>1, <1>10 DEF Types
<1>13. Speaks(c, m)
  BY <1>1, <1>3, <1>12 DEF Speaks, Answers
<1>14. Utters(c, q)
  BY <1>1, <1>3, <1>9, <1>12, <1>13 DEF Utters, RelayType
<1> QED
  BY <1>1, <1>8, <1>9, <1>11, <1>14, UtterPhases

\* The steps that end a command.
LEMMA EndingPhases ==
  ASSUME IInv, IInv', Phases, NEW c \in Client,
         \/ Crash(c) \/ KeysFail(c) \/ WaitFails(c) \/ WaitRefused(c) \/ Rejected(c)
         \/ Interrupt(c) \/ ClosePage(c) \/ Fail(c)
         \/ \E result \in {"done", "broken"} : Finish(c, result)
  PROVE  Phases'
<1>1. CASE \E result \in Outcome : End(c, result) /\ UNCHANGED <<counters, accepted>> /\ ClientOnly
  BY <1>1, EndPhases
<1>2. CASE \E result \in Outcome : Vanish(c, result)
  BY <1>2, EndPhases
<1>3. /\ Fail(c) \/ Refuse(c) => \E result \in Outcome : End(c, result) /\ UNCHANGED <<counters, accepted>> /\ ClientOnly
      /\ Crash(c) \/ ClosePage(c) => \E result \in Outcome : Vanish(c, result)
  BY DEF Fail, Refuse, Crash, ClosePage, Outcome
<1>4. KeysFail(c) \/ WaitFails(c) \/ WaitRefused(c) => Fail(c) \/ Refuse(c)
  BY DEF KeysFail, WaitFails, WaitRefused
<1>5. Rejected(c) \/ Interrupt(c) \/ (\E result \in {"done", "broken"} : Finish(c, result))
        => \E result \in Outcome : End(c, result) /\ UNCHANGED <<counters, accepted>> /\ ClientOnly
  BY DEF Rejected, Interrupt, Finish, Outcome
<1> QED
  BY <1>1, <1>2, <1>3, <1>4, <1>5

\* The timers.
LEMMA TimeoutPhases ==
  ASSUME IInv, IInv', Phases, NEW c \in Client, Timeout(c)
  PROVE  Phases'
<1>1. CASE Fail(c)
  BY <1>1, EndingPhases
<1>2. CASE /\ settled' = [settled EXCEPT ![c] = "timeout"]
           /\ UNCHANGED <<sid, key, cached, counters, stage, shut, outcome, accepted, up, down>>
           /\ ClientOnly
  BY <1>2, SettlePhases
<1>3. CASE GiveUpRequest /\ UNCHANGED down
  BY <1>3, RegisterPhases
<1>4. CASE /\ stage[c] = "ice" /\ Go(c, "paired")
           /\ UNCHANGED <<held, counters, shut, outcome, accepted, up, down>> /\ ClientOnly
  BY <1>4, ListenPhases
<1> QED
  BY <1>1, <1>2, <1>3, <1>4 DEF Timeout

\* The steps both commands share.
LEMMA CommandPhases ==
  ASSUME IInv, IInv', Phases, NEW c \in Client, Command(c)
  PROVE  Phases'
BY EndingPhases, IdlePhases, JoinedPhases, ListenPhases, SayPhases, SettlePhases DEF Command

\* The receiver's steps.
LEMMA RecvPhases ==
  ASSUME IInv, IInv', Phases, Recv
  PROVE  Phases'
<1>1. Receiver \in Client
  BY Clients
<1>2. CASE Rerequest
  <2>1. GiveUpRequest /\ down[Receiver] # <<>> /\ TakeRead(Receiver)
    BY <1>2 DEF Rerequest, Gets
  <2> QED
    BY <2>1, RegisterPhases
<1>3. CASE Command(Receiver)
  BY <1>1, <1>3, CommandPhases
<1>4. CASE Requests
  BY <1>1, <1>4, ListenPhases
<1>5. CASE Accept
  BY <1>1, <1>5, SayPhases
<1> QED
  BY <1>2, <1>3, <1>4, <1>5, RegisterPhases, RegisteredPhases, DeclinePhases DEF Recv

\* A sender's steps.
LEMMA SendCommandPhases ==
  ASSUME IInv, IInv', Phases, NEW c \in Sender, SendCommand(c)
  PROVE  Phases'
<1>1. c \in Client
  BY Clients
<1>2. CASE Command(c)
  BY <1>1, <1>2, CommandPhases
<1>3. CASE Rejected(c)
  BY <1>1, <1>3, EndingPhases
<1>4. CASE PairRequest(c)
  BY <1>1, <1>4, SayPhases
<1>5. CASE Accepted(c)
  BY <1>1, <1>5, ListenPhases
<1> QED
  BY <1>2, <1>3, <1>4, <1>5, StartSenderPhases DEF SendCommand

-----------------------------------------------------------------------------
(* The phases are an invariant *)

\* The phases hold when the commands start.
LEMMA PhasesInitial ==
  ASSUME Init
  PROVE  Phases
<1>1. \A c \in Client : up[c] = <<>> /\ down[c] = <<>> /\ sid[c] = None
  BY DEF Init
<1>2. \A t, s : ~Carries(<<>>, t, s)
  BY NoMessage DEF Carries
<1> QED
  BY <1>1, <1>2, Clients DEF Phases, CutEmpty, Fresh, Init

\* A stuttering step keeps the phases.
LEMMA PhasesStutter ==
  ASSUME Phases, UNCHANGED vars
  PROVE  Phases'
<1>1. UNCHANGED <<stage, sid, settled, up, down, session, seen, cut>>
  BY DEF vars, setting, counters, held, server
<1> QED
  BY <1>1 DEF Phases, CutEmpty, Fresh, InPhase, Ordered, Within, Complete, Grounded, Heard, Said,
     Limit, Unmet, Target

\* The phases are inductive, beside the invariant of the keys.
LEMMA PhasesInductive ==
  ASSUME IInv, IInv', Phases, [Next]_vars
  PROVE  Phases'
<1>1. CASE UNCHANGED vars
  BY <1>1, PhasesStutter
<1>2. CASE \E c \in Client : \/ Serve(c) \/ PlanFails(c) \/ Unreachable(c) \/ Timeout(c)
                             \/ Interrupt(c) \/ ClosePage(c)
  BY <1>2, ServePhases, ConnectPhases, IdlePhases, TimeoutPhases, EndingPhases DEF PlanFails, Unreachable
<1> QED
  BY <1>1, <1>2, RecvPhases, SendCommandPhases, ExpiryPhases DEF Next

-----------------------------------------------------------------------------
(* A pairing in fair weather *)

\* Nothing goes wrong and every sender has the words; a read may bring several messages.
Fair == faults \subseteq {"batch"} /\ knows = Sender

\* A queue has a message of one of these types.
Has(q, types) == \E m \in Q(q) : m.type \in types

\* In a queue the messages of some types come only after one of certain others.
After(q, types, firsts) ==
  \A i \in DOMAIN q : q[i].type \in types => \E j \in DOMAIN q : j < i /\ q[j].type \in firsts

Goodbyes == {"bye", "close"}
Departures == {"peer-left", "close"}

\* Nobody gives up: no client has failed, no wait has gone wrong, and only a client that
\* is through has seen its socket close.
Unharmed(c) ==
  /\ outcome[c] # "failed" /\ settled[c] \in {"no", "good"}
  /\ c \in shut => stage[c] = "paired"
  /\ stage[c] \notin {"rekeying", "rerequesting"}

\* A client says goodbye or declines when it is over, not before it has connected, and
\* asks for nothing again.
Parting(c) ==
  /\ ~Has(up[c], {"retry"}) /\ (Has(up[c], {"connect"}) => stage[c] # "over")
  /\ Has(up[c], Goodbyes \cup {"pair-reject"}) => stage[c] = "over"
  /\ Has(up[c], {"pair-accept"}) => stage[c] = "ice"

\* A client the server listens to is in the server's session, and speaks in it.
Attached(c) ==
  /\ c \notin cut => /\ sid[c] # None => sid[c] = session
                     /\ \A m \in Q(down[c]) : m.type = "peer-joined" => m.sid = session
  /\ \A m \in Q(up[c]) : m.type \in RelayType => m.sid = session

\* It hears that the other side is gone only after what it waits for.
Timely(c) ==
  IF c = Receiver
  THEN /\ stage[c] # "paired" => After(down[c], Departures, {"ice-config"})
       /\ Has(down[c], {"ice-config"}) => accepted # {}
  ELSE stage[c] # "paired" =>
         /\ After(down[c], Departures, Answers)
         /\ c \notin cached => After(down[c], {"pair-accept"}, {"ice-config"})
         /\ stage[c] # "ice"

\* All keys are shared.
Sharing(c) ==
  /\ stage[c] \in Keyed => key[c] = <<sid[c], "shared">>
  /\ \A m \in Q(up[c]) \cup Q(down[c]) : m.type = "confirm" => m.body = <<m.sid, "shared">>

Own(c) == Unharmed(c) /\ Parting(c) /\ Attached(c) /\ Timely(c) /\ Sharing(c)

\* A sender that is refused is a stranger: it has met nobody and never will.
Turned(s) == outcome[s] \in {"crashed", "refused"} \/ Has(down[s], {"error"})

Stranger(s) ==
  /\ sid[s] = None /\ ~Unmet(s) /\ ~Has(down[s], {"peer-joined"})
  /\ session # s /\ sid[Receiver] # s /\ s \notin accepted

\* The receiver is never refused.
Welcome == outcome[Receiver] \notin {"crashed", "refused"} /\ ~Has(down[Receiver], {"error"})

\* The receiver registers once, and first of all.
Registering ==
  /\ stage[Receiver] = "start" => up[Receiver] = <<>>
  /\ Has(up[Receiver], {"register"}) => stage[Receiver] = "registering" /\ Tail(up[Receiver]) = <<>>
  /\ stage[Receiver] = "start" \/ Has(up[Receiver], {"register"}) =>
       session = None /\ ~waiting /\ ~Has(down[Receiver], {"registered"})

\* The code waits for one session, and the server closes its members with it.
Opening ==
  /\ waiting => session = None /\ stage[Receiver] \in {"registering", "joining"}
  /\ Receiver \in cut => stage[Receiver] \in {"ice", "paired", "over"}
  /\ session # None => session \notin cut /\ Receiver \notin cut
  /\ session # None => stage[session] # "start" /\ ~Has(up[session], {"connect"})
  /\ \A s \in Sender : ~Has(up[s], {"register"}) /\ (s \in accepted => ~Unmet(s))
  /\ \A c \in Client : <<c, "pair-reject">> \notin seen

\* Once the acceptance is relayed both sides have it or are about to, and before that
\* nobody is through; a receiver that has ended has declined.
Verdict ==
  session # None =>
    IF Decided
    THEN /\ stage[Receiver] \in {"ice", "paired", "over"}
         /\ stage[Receiver] = "ice" => Has(down[Receiver], {"ice-config"})
         /\ stage[session] \in {"paired", "over"} \/ Has(down[session], {"pair-accept"})
    ELSE /\ stage[session] \notin {"paired", "over"}
         /\ stage[Receiver] # "paired" /\ ~Has(down[Receiver], {"ice-config"})
         /\ stage[Receiver] = "over" => After(up[Receiver], Goodbyes, {"pair-reject"})

Serene ==
  /\ outcome \in [Client -> Outcome]
  /\ \A c \in Client : Own(c)
  /\ \A s \in Sender : Turned(s) => Stranger(s)
  /\ Welcome /\ Registering /\ Opening /\ Verdict

Calm == IInv /\ Phases /\ Fair /\ Serene

-----------------------------------------------------------------------------
(* Queues in fair weather *)

\* What a queue has when it loses its first message or gets others.
LEMMA HasEnds ==
  ASSUME NEW q \in Seq(Message), NEW types
  PROVE  /\ q # <<>> /\ Has(Tail(q), types) => Has(q, types)
         /\ q # <<>> /\ Has(q, types) => Head(q).type \in types \/ Has(Tail(q), types)
         /\ q # <<>> /\ Head(q).type \in types => Has(q, types)
         /\ ~Has(<<>>, types)
         /\ \A r \in Seq(Message) : Has(q \o r, types) <=> Has(q, types) \/ Has(r, types)
BY QueueEnds, QueueJoins, NoMessage DEF Has

\* The first message of a queue comes after nothing.
LEMMA AfterHead ==
  ASSUME NEW q \in Seq(Message), q # <<>>, NEW types, NEW firsts, After(q, types, firsts)
  PROVE  /\ Head(q).type \notin types
         /\ Head(q).type \notin firsts => After(Tail(q), types, firsts)
<1>1. /\ Len(q) \in Nat \ {0} /\ DOMAIN q = 1 .. Len(q) /\ Head(q) = q[1]
      /\ Tail(q) \in Seq(Message) /\ Len(Tail(q)) = Len(q) - 1
      /\ \A i \in 1 .. Len(Tail(q)) : Tail(q)[i] = q[i + 1]
  BY EmptySeq, LenProperties, HeadTailProperties
<1>2. DOMAIN Tail(q) = 1 .. Len(q) - 1
  BY <1>1, LenProperties
<1>3. Head(q).type \notin types
  BY <1>1 DEF After
<1>4. ASSUME Head(q).type \notin firsts, NEW i \in DOMAIN Tail(q), Tail(q)[i].type \in types
      PROVE  \E j \in DOMAIN Tail(q) : j < i /\ Tail(q)[j].type \in firsts
  <2>1. i \in Nat /\ i + 1 \in DOMAIN q /\ Tail(q)[i] = q[i + 1]
    BY <1>1, <1>2
  <2>2. PICK j \in DOMAIN q : j < i + 1 /\ q[j].type \in firsts
    BY <1>4, <2>1 DEF After
  <2>3. j # 1
    BY <1>1, <1>4, <2>2
  <2>4. j - 1 \in DOMAIN Tail(q) /\ j - 1 < i /\ Tail(q)[j - 1] = q[j]
    BY <1>1, <1>2, <2>1, <2>2, <2>3
  <2> QED
    BY <2>2, <2>4
<1> QED
  BY <1>3, <1>4 DEF After

\* A concatenation keeps the order of its parts, and one that has what comes first may
\* get anything.
LEMMA AfterJoin ==
  ASSUME NEW q \in Seq(Message), NEW r \in Seq(Message), NEW types, NEW firsts,
         After(q, types, firsts), After(r, types, firsts) \/ Has(q, firsts)
  PROVE  After(q \o r, types, firsts)
<1>1. /\ q \o r \in Seq(Message) /\ Len(q \o r) = Len(q) + Len(r)
      /\ \A i \in 1 .. Len(q) + Len(r) : (q \o r)[i] = IF i <= Len(q) THEN q[i] ELSE r[i - Len(q)]
      /\ Len(q) \in Nat /\ Len(r) \in Nat /\ DOMAIN q = 1 .. Len(q) /\ DOMAIN r = 1 .. Len(r)
  BY ConcatProperties, LenProperties
<1>2. DOMAIN (q \o r) = 1 .. Len(q) + Len(r)
  BY <1>1, LenProperties
<1>3. /\ \A i \in DOMAIN q : i \in DOMAIN (q \o r) /\ (q \o r)[i] = q[i] /\ i \in Nat /\ i <= Len(q)
      /\ \A i \in DOMAIN r : i + Len(q) \in DOMAIN (q \o r) /\ (q \o r)[i + Len(q)] = r[i] /\ i \in Nat
  BY <1>1, <1>2
<1>4. ASSUME NEW i \in DOMAIN (q \o r), (q \o r)[i].type \in types
      PROVE  \E j \in DOMAIN (q \o r) : j < i /\ (q \o r)[j].type \in firsts
  <2>0. i \in Nat
    BY <1>1, <1>2
  <2>1. CASE i <= Len(q)
    <3>1. i \in DOMAIN q /\ q[i].type \in types
      BY <1>1, <1>2, <1>4, <2>1
    <3>2. PICK j \in DOMAIN q : j < i /\ q[j].type \in firsts
      BY <3>1 DEF After
    <3> QED
      BY <1>3, <3>2
  <2>2. CASE ~(i <= Len(q))
    <3>1. i - Len(q) \in DOMAIN r /\ r[i - Len(q)].type \in types
      <4>1. i - Len(q) \in DOMAIN r
        BY <1>1, <1>2, <2>2
      <4>2. (q \o r)[i] = r[i - Len(q)]
        BY <1>1, <1>2, <2>2
      <4> QED
        BY <1>4, <4>1, <4>2
    <3>2. CASE Has(q, firsts)
      <4>1. PICK j \in DOMAIN q : q[j].type \in firsts
        BY <3>2 DEF Has, Q
      <4> QED
        BY <1>1, <1>3, <2>0, <2>2, <4>1
    <3>3. CASE After(r, types, firsts)
      <4>1. PICK j \in DOMAIN r : j < i - Len(q) /\ r[j].type \in firsts
        BY <3>1, <3>3 DEF After
      <4>2. j + Len(q) < i
        BY <1>1, <1>3, <2>0, <4>1
      <4> QED
        BY <1>3, <4>1, <4>2
    <3> QED
      BY <3>2, <3>3
  <2> QED
    BY <2>1, <2>2, <1>1, <2>0
<1> QED
  BY <1>4 DEF After

\* Nothing need come before what a queue does not have.
LEMMA AfterNone ==
  ASSUME NEW q, NEW types, NEW firsts, ~Has(q, types)
  PROVE  After(q, types, firsts)
BY DEF After, Has, Q

-----------------------------------------------------------------------------
(* The steps of the clients in fair weather *)

\* Nothing the client waits for in the end is on its way.
Bare(c) == IF c = Receiver THEN ~Has(down[c], {"ice-config"}) ELSE ~Has(down[c], Answers)

\* Only this client acts, on what it has and hears, and the server does not.
Acts(c) ==
  /\ UNCHANGED <<faults, knows, waiting, left, session, seen, cut>>
  /\ \A x \in Client \ {c} :
       /\ stage'[x] = stage[x] /\ sid'[x] = sid[x] /\ key'[x] = key[x] /\ settled'[x] = settled[x]
       /\ up'[x] = up[x] /\ down'[x] = down[x] /\ outcome'[x] = outcome[x]
       /\ (x \in shut' <=> x \in shut) /\ (x \in cached' <=> x \in cached)
  /\ outcome' \in [Client -> Outcome]
  /\ Q(down'[c]) \subseteq Q(down[c])
  /\ accepted \subseteq accepted'

\* What the others have of their own stays.
LEMMA OthersOwn ==
  ASSUME Calm, NEW c \in Client, Acts(c), NEW x \in Client \ {c}
  PROVE  Own(x)'
<1>1. /\ stage'[x] = stage[x] /\ sid'[x] = sid[x] /\ key'[x] = key[x] /\ settled'[x] = settled[x]
      /\ up'[x] = up[x] /\ down'[x] = down[x] /\ outcome'[x] = outcome[x]
      /\ (x \in shut' <=> x \in shut) /\ (x \in cached' <=> x \in cached)
      /\ session' = session /\ cut' = cut /\ accepted \subseteq accepted'
  BY DEF Acts
<1>2. Unharmed(x) /\ Parting(x) /\ Attached(x) /\ Timely(x) /\ Sharing(x)
  BY DEF Calm, Serene, Own
<1>3. Unharmed(x)'
  BY <1>1, <1>2 DEF Unharmed
<1>4. Parting(x)'
  BY <1>1, <1>2 DEF Parting
<1>5. Attached(x)'
  BY <1>1, <1>2 DEF Attached
<1>6. Timely(x)'
  BY <1>1, <1>2 DEF Timely
<1>7. Sharing(x)'
  BY <1>1, <1>2 DEF Sharing
<1> QED
  BY <1>3, <1>4, <1>5, <1>6, <1>7 DEF Own

\* A step of a sender keeps the calm when its own part does, a refused sender stays a
\* stranger, and it is through exactly when the acceptance is relayed.
LEMMA SenderCalm ==
  ASSUME Calm, NEW s \in Sender, Acts(s), accepted' = accepted, Own(s)',
         stage'[s] = "start" => stage[s] = "start", \A t \in Sender : Unmet(t)' => Unmet(t),
         ~Has(up'[s], {"register"}),
         session = s => ~Has(up'[s], {"connect"}),
         Turned(s)' => Turned(s), Turned(s) => sid'[s] = None,
         session = s /\ Decided => stage'[s] \in {"paired", "over"} \/ Has(down'[s], {"pair-accept"}),
         session = s /\ stage'[s] \in {"paired", "over"} => Decided
  PROVE  Serene'
<1>1. /\ s \in Client /\ Receiver \in Client \ {s} /\ Sender \subseteq Client /\ session \in Sender \cup {None}
  BY Clients DEF Calm, IInv, Types
<1>2. /\ stage'[Receiver] = stage[Receiver] /\ sid'[Receiver] = sid[Receiver]
      /\ up'[Receiver] = up[Receiver] /\ down'[Receiver] = down[Receiver]
      /\ outcome'[Receiver] = outcome[Receiver]
      /\ session' = session /\ cut' = cut /\ seen' = seen /\ waiting' = waiting
  BY <1>1 DEF Acts
<1>3. Serene /\ Welcome /\ Registering /\ Opening /\ Verdict
  BY DEF Calm, Serene
<1>4. \A c \in Client : Own(c)'
  BY <1>1, OthersOwn
<1>5. Welcome'
  BY <1>2, <1>3 DEF Welcome
<1>6. Opening'
  <2>1. \A t \in Sender \ {s} : up'[t] = up[t] /\ stage'[t] = stage[t]
    BY <1>1 DEF Acts
  <2>2. \A t \in Sender : ~Has(up'[t], {"register"})
    BY <1>3, <2>1 DEF Opening
  <2>3. session # None => stage'[session] # "start" /\ ~Has(up'[session], {"connect"})
    BY <1>1, <1>3, <2>1 DEF Opening
  <2> QED
    BY <1>2, <1>3, <2>2, <2>3 DEF Opening
<1>7. Verdict'
  <2>1. CASE session = s
    BY <1>2, <1>3, <2>1 DEF Verdict, Decided
  <2>2. CASE session # s /\ session # None
    <3>1. stage'[session] = stage[session] /\ down'[session] = down[session]
      BY <1>1, <2>2 DEF Acts
    <3> QED
      BY <1>2, <1>3, <2>2, <3>1 DEF Verdict, Decided
  <2> QED
    BY <1>2, <2>1, <2>2 DEF Verdict
<1>8. ASSUME NEW t \in Sender, Turned(t)'
      PROVE  Stranger(t)'
  <2>1. Turned(t) /\ (t # s => sid'[t] = sid[t] /\ down'[t] = down[t])
    BY <1>1, <1>8 DEF Acts, Turned
  <2>2. Stranger(t)
    BY <1>3, <2>1 DEF Serene
  <2>3. ~Has(down'[t], {"peer-joined"})
    BY <2>1, <2>2 DEF Stranger, Acts, Has
  <2> QED
    BY <1>2, <2>1, <2>2, <2>3 DEF Stranger
<1>9. Registering'
  BY <1>2, <1>3 DEF Registering
<1> QED
  BY <1>4, <1>5, <1>6, <1>7, <1>8, <1>9 DEF Serene, Acts

\* A step of the receiver keeps the calm when its own part and the server's view of it do.
LEMMA ReceiverCalm ==
  ASSUME Calm, Acts(Receiver), Own(Receiver)', \A t \in Sender : Unmet(t)' => Unmet(t),
         \/ sid'[Receiver] \in {sid[Receiver], None}
         \/ Carries(down[Receiver], {"peer-joined"}, sid'[Receiver]),
         accepted' \subseteq accepted \cup {sid[Receiver]},
         outcome'[Receiver] \notin {"crashed", "refused"},
         Registering',
         waiting => stage'[Receiver] \in {"registering", "joining"},
         Receiver \in cut => stage'[Receiver] \in {"ice", "paired", "over"},
         Verdict'
  PROVE  Serene'
<1>1. Receiver \in Client /\ Sender \subseteq Client \ {Receiver} /\ session \in Sender \cup {None} /\ None \notin Sender
  BY Clients DEF Calm, IInv, Types
<1>2. /\ \A s \in Sender : /\ stage'[s] = stage[s] /\ sid'[s] = sid[s] /\ up'[s] = up[s]
                           /\ down'[s] = down[s] /\ outcome'[s] = outcome[s]
      /\ session' = session /\ cut' = cut /\ seen' = seen /\ waiting' = waiting
      /\ Q(down'[Receiver]) \subseteq Q(down[Receiver])
  BY <1>1 DEF Acts
<1>3. Serene /\ Welcome /\ Registering /\ Opening /\ Verdict
  BY DEF Calm, Serene
<1>4. \A c \in Client : Own(c)'
  BY <1>1, OthersOwn
<1>5. Welcome'
  BY <1>2, <1>3 DEF Welcome, Has
<1>6. Opening'
  <2>1. ASSUME NEW s \in Sender, s \in accepted'
        PROVE  ~Unmet(s)'
    <3>1. CASE s \in accepted
      BY <1>3, <3>1 DEF Opening
    <3>2. CASE s = sid[Receiver]
      BY <3>2 DEF Calm, IInv, Silent
    <3> QED
      BY <2>1, <3>1, <3>2
  <2>2. \A s \in Sender : ~Has(up'[s], {"register"})
    BY <1>2, <1>3 DEF Opening
  <2>3. session # None => stage'[session] # "start" /\ ~Has(up'[session], {"connect"})
    BY <1>1, <1>2, <1>3 DEF Opening
  <2>4. \A c \in Client : <<c, "pair-reject">> \notin seen'
    BY <1>2, <1>3 DEF Opening
  <2> QED
    BY <1>2, <1>3, <2>1, <2>2, <2>3, <2>4 DEF Opening
<1>8. ASSUME NEW t \in Sender, Turned(t)'
      PROVE  Stranger(t)'
  <2>1. Turned(t)
    BY <1>2, <1>8 DEF Turned
  <2>2. Stranger(t)
    BY <1>3, <2>1 DEF Serene
  <2>3. sid'[Receiver] # t
    BY <1>1, <2>2 DEF Stranger, Unmet
  <2> QED
    BY <1>2, <2>2, <2>3 DEF Stranger
<1> QED
  BY <1>4, <1>5, <1>6, <1>8 DEF Serene, Acts

\* What is common to the steps of a client.
LEMMA ActsIf ==
  ASSUME Calm, NEW c \in Client, ClientOnly,
         stage' = stage \/ \E v : stage' = [stage EXCEPT ![c] = v],
         sid' = sid \/ \E v : sid' = [sid EXCEPT ![c] = v],
         key' = key \/ \E v : key' = [key EXCEPT ![c] = v],
         settled' = settled \/ \E v : settled' = [settled EXCEPT ![c] = v],
         outcome' = outcome \/ \E v \in Outcome : outcome' = [outcome EXCEPT ![c] = v],
         shut' \in {shut, shut \cup {c}, shut \ {c}},
         cached' \in {cached, cached \cup {c}, cached \ {c}},
         accepted \subseteq accepted',
         up' = up \/ \E r \in Seq(Message) : Send(c, r),
         down' = down \/ (down[c] # <<>> /\ (Pop(c) \/ TakeRead(c))) \/ down' = [down EXCEPT ![c] = <<>>]
  PROVE  Acts(c)
<1>1. Types /\ outcome \in [Client -> Outcome]
  BY DEF Calm, IInv, Serene
<1>2. \A x \in Client \ {c} : /\ stage'[x] = stage[x] /\ sid'[x] = sid[x] /\ key'[x] = key[x]
                              /\ settled'[x] = settled[x]
  BY <1>1 DEF Types
<1>3. \A x \in Client \ {c} : up'[x] = up[x]
  BY <1>1, Sent
<1>4. (\A x \in Client \ {c} : down'[x] = down[x]) /\ Q(down'[c]) \subseteq Q(down[c])
  BY <1>1, Popped, Taken, Kept, Emptied
<1>5. outcome' \in [Client -> Outcome] /\ \A x \in Client \ {c} : outcome'[x] = outcome[x]
  BY <1>1
<1>6. \A x \in Client \ {c} : (x \in shut' <=> x \in shut) /\ (x \in cached' <=> x \in cached)
  OBVIOUS
<1>7. UNCHANGED <<faults, knows, waiting, left, session, seen, cut>>
  BY DEF ClientOnly, server, setting
<1> QED
  BY <1>2, <1>3, <1>4, <1>5, <1>6, <1>7 DEF Acts

\* Nobody becomes unmet again.
LEMMA ActsUnmet ==
  ASSUME Calm, IInv', NEW c \in Client, Acts(c),
         stage'[c] = "start" => stage[c] = "start",
         Has(up'[c], {"connect"}) => Has(up[c], {"connect"}) \/ stage[c] = "start",
         NEW t \in Sender, Unmet(t)'
  PROVE  Unmet(t)
<1>1. t \in Client /\ Receiver \in Client
  BY Clients
<1>2. CASE stage'[t] = "start"
  BY <1>1, <1>2 DEF Unmet, Acts
<1>3. CASE Carries(up'[t], {"connect"}, None)
  <2>1. Has(up'[t], {"connect"})
    BY <1>3 DEF Carries, Has
  <2>2. Has(up[t], {"connect"}) \/ stage[t] = "start"
    BY <1>1, <2>1 DEF Acts
  <2>3. Has(up[t], {"connect"}) => Carries(up[t], {"connect"}, None)
    BY <1>1 DEF Has, Carries, Calm, IInv, UpSound
  <2> QED
    BY <2>2, <2>3 DEF Unmet
<1>4. CASE Carries(down'[Receiver], {"peer-joined"}, t)
  <2>1. Q(down'[Receiver]) \subseteq Q(down[Receiver])
    BY <1>1 DEF Acts
  <2> QED
    BY <1>4, <2>1 DEF Unmet, Carries
<1> QED
  BY <1>2, <1>3, <1>4 DEF Unmet

\* A client keeps its own part when it speaks in its session and its keys are shared.
LEMMA OwnStep ==
  ASSUME Calm, IInv', NEW c \in Client, Acts(c),
         NEW r \in Seq(Message), up'[c] = up[c] \o r, c \in cut => r = <<>>,
         Unharmed(c)', Timely(c)',
         ~Has(r, {"retry"}),
         Has(r, Goodbyes \cup {"pair-reject"}) => stage'[c] = "over",
         stage[c] = "over" => stage'[c] = "over", stage'[c] = "over" => ~Has(up'[c], {"connect"}),
         Has(r, {"pair-accept"}) => stage'[c] = "ice",
         stage[c] = "ice" /\ Has(up[c], {"pair-accept"}) => stage'[c] = "ice",
         \/ sid'[c] \in {None, sid[c]}
         \/ Carries(down[c], {"peer-joined"}, sid'[c]),
         \A m \in Q(r) : m.type \in RelayType => m.sid \in {sid[c], sid'[c]},
         stage'[c] \in Keyed => key'[c] = <<sid'[c], "shared">>,
         \A m \in Q(r) : m.type = "confirm" => m.body = <<m.sid, "shared">>
  PROVE  Own(c)'
<1>1. /\ Unharmed(c) /\ Parting(c) /\ Attached(c) /\ Timely(c) /\ Sharing(c)
      /\ session' = session /\ cut' = cut /\ Q(down'[c]) \subseteq Q(down[c])
      /\ up[c] \in Seq(Message)
  BY DEF Calm, Serene, Own, Acts, IInv, Types
<1>2. Q(up'[c]) = Q(up[c]) \cup Q(r)
  BY <1>1, QueueJoins
<1>3. \A types : Has(up'[c], types) => Has(up[c], types) \/ Has(r, types)
  BY <1>2 DEF Has
<1>4. Parting(c)'
  BY <1>1, <1>3 DEF Parting
<1>5. c \notin cut /\ sid'[c] # None => sid'[c] = session
  BY <1>1 DEF Attached, Carries
<1>6. ASSUME NEW m \in Q(r), m.type \in RelayType
      PROVE  m.sid = session
  <2>1. m.sid \in Sender
    BY <1>2, <1>6 DEF IInv, UpSound, Sound
  <2>2. c \notin cut
    BY <1>6, NoMessage
  <2> QED
    BY <1>1, <1>5, <1>6, <2>1, <2>2, Clients DEF Attached
<1>7. Attached(c)'
  BY <1>1, <1>2, <1>5, <1>6 DEF Attached
<1>8. Sharing(c)'
  BY <1>1, <1>2 DEF Sharing
<1> QED
  BY <1>4, <1>7, <1>8 DEF Own

\* What a client hears stays in time when it takes nothing that others wait for to come
\* first.
LEMMA TimelyStep ==
  ASSUME Calm, NEW c \in Client, Acts(c),
         stage'[c] # "paired" =>
           \/ down'[c] = <<>>
           \/ /\ stage[c] # "paired" /\ (c \in cached => c \in cached')
              /\ \/ down'[c] = down[c] \/ Bare(c)
                 \/ /\ down[c] # <<>> /\ down'[c] = Tail(down[c])
                    /\ IF c = Receiver THEN Head(down[c]).type # "ice-config"
                       ELSE /\ Head(down[c]).type \notin Answers
                            /\ Head(down[c]).type = "ice-config" => c \in cached',
         c # Receiver => stage'[c] # "ice"
  PROVE  Timely(c)'
<1>1. Timely(c) /\ down[c] \in Seq(Message) /\ Q(down'[c]) \subseteq Q(down[c]) /\ accepted \subseteq accepted'
  BY DEF Calm, Serene, Own, Acts, IInv, Types
<1>2. \A types, firsts : After(<<>>, types, firsts)
  BY DEF After
<1>3. Has(down'[c], {"ice-config"}) => Has(down[c], {"ice-config"})
  BY <1>1 DEF Has
<1>4. CASE stage'[c] = "paired" \/ down'[c] = <<>> \/ down'[c] = down[c]
  BY <1>1, <1>2, <1>3, <1>4 DEF Timely
<1>5. CASE /\ stage'[c] # "paired" /\ stage[c] # "paired" /\ (c \in cached => c \in cached')
           /\ down[c] # <<>> /\ down'[c] = Tail(down[c])
           /\ IF c = Receiver THEN Head(down[c]).type # "ice-config"
              ELSE /\ Head(down[c]).type \notin Answers
                   /\ Head(down[c]).type = "ice-config" => c \in cached'
  <2>1. \A types, firsts :
          After(down[c], types, firsts) /\ Head(down[c]).type \notin firsts => After(down'[c], types, firsts)
    BY <1>1, <1>5, AfterHead
  <2>2. CASE c = Receiver
    BY <1>1, <1>3, <1>5, <2>1, <2>2 DEF Timely
  <2>3. CASE c # Receiver
    BY <1>1, <1>5, <2>1, <2>3 DEF Timely
  <2> QED
    BY <2>2, <2>3
<1>6. CASE stage'[c] # "paired" /\ stage[c] # "paired" /\ (c \in cached => c \in cached') /\ Bare(c)
  <2>1. CASE c = Receiver
    <3>1. ~Has(down[c], Departures)
      BY <1>1, <1>6, <2>1 DEF Timely, Bare, After, Has, Q
    <3>2. ~Has(down'[c], Departures)
      BY <1>1, <3>1 DEF Has
    <3> QED
      BY <1>1, <1>3, <2>1, <3>2, AfterNone DEF Timely
  <2>2. CASE c # Receiver
    <3>1. ~Has(down[c], Departures) /\ ~Has(down[c], {"pair-accept"})
      BY <1>1, <1>6, <2>2 DEF Timely, Bare, After, Has, Q, Answers
    <3>2. ~Has(down'[c], Departures) /\ ~Has(down'[c], {"pair-accept"})
      BY <1>1, <3>1 DEF Has
    <3> QED
      BY <2>2, <3>2, AfterNone DEF Timely
  <2> QED
    BY <2>1, <2>2
<1> QED
  BY <1>4, <1>5, <1>6

\* Why a message had its effect.
LEMMA Heads ==
  ASSUME Calm, NEW c \in Client, NEW kind, Gets(c, kind)
  PROVE  /\ down[c] # <<>> /\ Head(down[c]) \in Message /\ Head(down[c]) \in Q(down[c])
         /\ kind = "closed" => Head(down[c]).type = "close"
         /\ kind \in {"crash", "refused"} => Head(down[c]).type = "error"
         /\ kind = "left" => Head(down[c]).type = "peer-left"
         /\ kind = "rejected" => stage[c] = "awaiting" /\ Head(down[c]).type = "pair-reject"
         /\ kind = "answer" => /\ stage[c] \in DOMAIN WaitType /\ settled[c] = "no"
                               /\ Head(down[c]).type = WaitType[stage[c]]
                               /\ stage[c] \in OfSession => Head(down[c]).sid \in {None, sid[c]}
         /\ kind = "lost" /\ stage[c] \in {"awaiting", "ice"} /\ settled[c] = "no" =>
              /\ stage[c] = "ice" => Head(down[c]).type # "ice-config"
              /\ stage[c] = "awaiting" /\ Head(down[c]).sid = sid[c] => Head(down[c]).type \notin Answers
<1> DEFINE m == Head(down[c])
<1>1. /\ down[c] # <<>> /\ down[c] \in Seq(Message) /\ Reaction(c) = kind /\ m \in Message
      /\ m \in Q(down[c])
  BY QueueEnds DEF Gets, Calm, IInv, Types
<1> HIDE DEF m
<1>2. /\ kind = "closed" => m.type = "close"
      /\ kind \in {"crash", "refused"} => m.type = "error"
      /\ kind = "left" => m.type = "peer-left"
      /\ kind = "rejected" => stage[c] = "awaiting" /\ m.type = "pair-reject"
  BY <1>1 DEF Reaction, m
<1>3. ASSUME kind = "answer"
      PROVE  /\ stage[c] \in DOMAIN WaitType /\ settled[c] = "no"
             /\ m.type = WaitType[stage[c]]
             /\ stage[c] \in OfSession => m.sid \in {None, sid[c]}
  BY <1>1, <1>3 DEF Reaction, m
<1>4. ASSUME kind = "lost", stage[c] = "ice", settled[c] = "no", m.type = "ice-config"
      PROVE  FALSE
  BY <1>1, <1>4 DEF Reaction, m, WaitType, OfSession
<1>5. ASSUME kind = "lost", stage[c] = "awaiting", settled[c] = "no", m.sid = sid[c], m.type \in Answers
      PROVE  FALSE
  BY <1>1, <1>5 DEF Reaction, m, WaitType, OfSession, Answers
<1> QED
  BY <1>1, <1>2, <1>3, <1>4, <1>5 DEF m

\* In fair weather only a client that is through hears of a departure, and only a
\* stranger hears an error.
LEMMA FairGets ==
  ASSUME Calm, NEW c \in Client, NEW kind, Gets(c, kind)
  PROVE  /\ stage[c] # "paired" => Head(down[c]).type \notin Departures /\ kind \notin {"closed", "left"}
         /\ kind \in {"crash", "refused"} \/ Head(down[c]).type = "error" =>
              c \in Sender /\ Turned(c) /\ Stranger(c) /\ sid[c] = None
<1>1. /\ Timely(c) /\ Welcome /\ \A s \in Sender : Turned(s) => Stranger(s)
      /\ down[c] \in Seq(Message)
  BY DEF Calm, Serene, Own, IInv, Types
<1>2. down[c] # <<>> /\ Head(down[c]) \in Q(down[c])
  BY Heads
<1>3. stage[c] # "paired" => Head(down[c]).type \notin Departures
  BY <1>1, <1>2, AfterHead DEF Timely
<1>4. kind = "closed" => Head(down[c]).type = "close"
  BY Heads
<1>5. kind = "left" => Head(down[c]).type = "peer-left"
  BY Heads
<1>6. kind \in {"crash", "refused"} => Head(down[c]).type = "error"
  BY Heads
<1>7. ASSUME Head(down[c]).type = "error"
      PROVE  c \in Sender /\ Turned(c) /\ Stranger(c) /\ sid[c] = None
  <2>1. Has(down[c], {"error"})
    BY <1>2, <1>7 DEF Has
  <2> QED
    BY <1>1, <2>1, Clients DEF Welcome, Turned, Stranger
<1> QED
  BY <1>3, <1>4, <1>5, <1>6, <1>7 DEF Departures

\* A client in the middle of the protocol takes a message nobody is late for, or several
\* when nothing it will need is among them, or says what comes next.
Takes(c) ==
  \/ Bare(c)
  \/ /\ down[c] # <<>> /\ down'[c] = Tail(down[c])
     /\ IF c = Receiver THEN Head(down[c]).type # "ice-config"
        ELSE /\ Head(down[c]).type \notin Answers
             /\ Head(down[c]).type = "ice-config" => c \in cached'

Says(c, r) ==
  /\ r \in Seq(Message) /\ up'[c] = up[c] \o r /\ (c \in cut => r = <<>>)
  /\ \A m \in Q(r) :
       /\ m.type \in {"pake", "confirm", "pair-request", "pair-accept"}
       /\ m.sid \in {sid[c], sid'[c]}
       /\ m.type = "confirm" => m.body = <<m.sid, "shared">>
       /\ m.type = "pair-accept" => stage'[c] = "ice"

GoesOn(c, r) ==
  /\ Acts(c) /\ Says(c, r) /\ (down'[c] = down[c] \/ Takes(c))
  /\ stage[c] \notin {"start", "ice", "paired", "over"}
  /\ stage'[c] \notin {"start", "paired", "over", "rekeying", "rerequesting"}
  /\ stage'[c] = "ice" => c = Receiver
  /\ stage[c] = "registering" => r = <<>>
  /\ stage[c] = "registering" /\ stage'[c] # "registering" => Has(down[c], {"registered"})
  /\ stage[c] \in {"registering", "joining"} =>
       stage'[c] \in {"registering", "joining"} \/ Has(down[c], {"peer-joined"})
  /\ outcome'[c] = outcome[c] /\ settled'[c] \in {"no", "good"}
  /\ c \in shut' => c \in shut
  /\ c \in cached => c \in cached'
  /\ sid'[c] = sid[c] \/ Carries(down[c], {"peer-joined"}, sid'[c])
  /\ stage'[c] \in Keyed => key'[c] = <<sid'[c], "shared">>
  /\ accepted' = accepted \/ (c = Receiver /\ accepted' = accepted \cup {sid[c]})

\* ... and has its own part after it.
LEMMA GoesOnOwn ==
  ASSUME Calm, IInv', NEW c \in Client, NEW r, GoesOn(c, r)
  PROVE  /\ Own(c)' /\ (Has(up'[c], {"connect"}) => Has(up[c], {"connect"}))
         /\ \A t \in Sender : Unmet(t)' => Unmet(t)
<1>1. /\ Unharmed(c) /\ Parting(c) /\ Attached(c) /\ Timely(c) /\ Sharing(c)
      /\ up[c] \in Seq(Message) /\ Acts(c) /\ r \in Seq(Message) /\ up'[c] = up[c] \o r
      /\ c \in cut => r = <<>>
  BY DEF Calm, Serene, Own, IInv, Types, GoesOn, Says
<1>2. Unharmed(c)'
  BY <1>1 DEF Unharmed, GoesOn
<1>3. Timely(c)'
  <2>1. c # Receiver => stage'[c] # "ice"
    BY DEF GoesOn
  <2>2. stage[c] # "paired" /\ (c \in cached => c \in cached') /\ (down'[c] = down[c] \/ Takes(c))
    BY DEF GoesOn
  <2> QED
    BY <1>1, <2>1, <2>2, TimelyStep DEF Takes
<1>4. /\ ~Has(r, {"retry"}) /\ ~Has(r, Goodbyes \cup {"pair-reject"}) /\ ~Has(r, {"connect"})
      /\ Has(r, {"pair-accept"}) => stage'[c] = "ice"
  BY DEF GoesOn, Says, Has, Goodbyes
<1>5. stage[c] \notin {"over", "ice"} /\ stage'[c] # "over"
  BY DEF GoesOn
<1>6. /\ sid'[c] \in {None, sid[c]} \/ Carries(down[c], {"peer-joined"}, sid'[c])
      /\ \A m \in Q(r) : m.type \in RelayType => m.sid \in {sid[c], sid'[c]}
      /\ stage'[c] \in Keyed => key'[c] = <<sid'[c], "shared">>
      /\ \A m \in Q(r) : m.type = "confirm" => m.body = <<m.sid, "shared">>
  BY DEF GoesOn, Says
<1>7. Own(c)'
  BY <1>1, <1>2, <1>3, <1>4, <1>5, <1>6, OwnStep
<1>8. Has(up'[c], {"connect"}) => Has(up[c], {"connect"})
  BY <1>1, <1>4, HasEnds
<1>9. stage'[c] # "start"
  BY DEF GoesOn
<1> QED
  BY <1>1, <1>7, <1>8, <1>9, ActsUnmet

\* A client that goes on keeps the calm.
LEMMA GoesOnCalm ==
  ASSUME Calm, IInv', NEW c \in Client, NEW r, GoesOn(c, r)
  PROVE  Serene'
<1>1. /\ Own(c)' /\ (Has(up'[c], {"connect"}) => Has(up[c], {"connect"}))
      /\ \A t \in Sender : Unmet(t)' => Unmet(t)
  BY GoesOnOwn
<1>2. /\ Acts(c) /\ Own(c) /\ Registering /\ Opening /\ Verdict /\ Serene /\ r \in Seq(Message)
      /\ up[c] \in Seq(Message) /\ down[c] \in Seq(Message) /\ up'[c] = up[c] \o r
      /\ Q(down'[c]) \subseteq Q(down[c]) /\ session' = session /\ cut' = cut /\ seen' = seen
      /\ waiting' = waiting /\ session \in Sender \cup {None}
  BY DEF Calm, Serene, IInv, Types, GoesOn, Says, Acts
<1>3. ~Has(r, {"register"}) /\ ~Has(r, Goodbyes)
  BY DEF GoesOn, Says, Has, Goodbyes
<1>4. Has(up'[c], {"register"}) => Has(up[c], {"register"})
  BY <1>2, <1>3, HasEnds
<1>5. /\ stage[c] \notin {"start", "ice", "paired", "over"}
      /\ stage'[c] \notin {"start", "paired", "over", "rekeying", "rerequesting"}
  BY DEF GoesOn
<1>6. CASE c \in Sender
  <2>1. c # Receiver /\ accepted' = accepted
    BY <1>6, Clients DEF GoesOn
  <2>2. ~Has(up'[c], {"register"})
    BY <1>2, <1>4, <1>6 DEF Opening
  <2>3. session = c => ~Has(up'[c], {"connect"})
    BY <1>1, <1>2, <1>6, Clients DEF Opening
  <2>4. Turned(c)' => Turned(c)
    BY <1>2 DEF Turned, GoesOn, Has
  <2>5. Turned(c) => sid'[c] = None
    <3>1. Turned(c) => sid[c] = None /\ ~Has(down[c], {"peer-joined"})
      BY <1>2, <1>6 DEF Serene, Stranger
    <3> QED
      BY <3>1 DEF GoesOn, Carries, Has
  <2>6. session = c /\ Decided => Has(down'[c], {"pair-accept"})
    <3>1. session = c /\ Decided => Has(down[c], {"pair-accept"})
      BY <1>2, <1>5, <1>6, Clients DEF Verdict
    <3>2. Has(down[c], {"pair-accept"}) => ~Bare(c)
      BY <2>1 DEF Bare, Has, Answers
    <3>3. Has(down[c], {"pair-accept"}) => Has(down'[c], {"pair-accept"})
      BY <1>2, <2>1, <3>2, HasEnds DEF GoesOn, Takes, Answers
    <3> QED
      BY <3>1, <3>3
  <2>7. session = c => stage'[c] \notin {"paired", "over"}
    BY <1>5
  <2> QED
    BY <1>1, <1>2, <1>5, <1>6, <2>1, <2>2, <2>3, <2>4, <2>5, <2>6, <2>7, SenderCalm
<1>7. CASE c = Receiver
  <2>1. Registering'
    <3>1. ASSUME Has(up'[c], {"register"})
          PROVE  /\ stage'[c] = "registering" /\ up'[c] = up[c]
                 /\ session = None /\ ~waiting /\ ~Has(down'[c], {"registered"})
      <4>1. /\ stage[c] = "registering" /\ Tail(up[c]) = <<>> /\ session = None /\ ~waiting
            /\ ~Has(down[c], {"registered"})
        BY <1>2, <1>4, <1>7, <3>1 DEF Registering
      <4>2. r = <<>> /\ stage'[c] = "registering"
        BY <4>1 DEF GoesOn
      <4>3. up'[c] = up[c]
        BY <1>2, <4>2, ConcatEmptySeq
      <4> QED
        BY <1>2, <4>1, <4>2, <4>3 DEF Has
    <3> QED
      BY <1>2, <1>4, <1>5, <1>7, <3>1 DEF Registering
  <2>2. ASSUME waiting
        PROVE  stage'[c] \in {"registering", "joining"}
    <3>1. stage[c] \in {"registering", "joining"} /\ session = None /\ c \notin cut
      BY <1>2, <1>7, <2>2 DEF Opening
    <3>2. ~Has(down[c], {"peer-joined"})
      <4>1. \A m \in Q(down[c]) : m.type = "peer-joined" => m.sid \in Sender
        BY DEF Calm, IInv, DownSound
      <4> QED
        BY <1>2, <3>1, <4>1, Clients DEF Own, Attached, Has
    <3> QED
      BY <3>1, <3>2 DEF GoesOn
  <2>3. Receiver \notin cut
    BY <1>2, <1>5, <1>7 DEF Opening
  <2>4. Verdict'
    <3>1. ASSUME session # None
          PROVE  /\ ~Decided /\ stage[session] \notin {"paired", "over"} /\ stage'[session] = stage[session]
                 /\ ~Has(down[Receiver], {"ice-config"})
      BY <1>2, <1>5, <1>7, <3>1, Clients DEF Verdict, Acts
    <3>2. session # None => ~Has(down'[Receiver], {"ice-config"})
      BY <1>2, <1>7, <3>1 DEF Has
    <3> QED
      BY <1>2, <1>5, <1>7, <3>1, <3>2 DEF Verdict, Decided
  <2>5. /\ sid'[Receiver] \in {sid[Receiver], None} \/ Carries(down[Receiver], {"peer-joined"}, sid'[Receiver])
        /\ accepted' \subseteq accepted \cup {sid[Receiver]}
        /\ outcome'[Receiver] \notin {"crashed", "refused"}
    BY <1>2, <1>7 DEF GoesOn, Serene, Welcome
  <2> QED
    BY <1>1, <1>2, <1>7, <2>1, <2>2, <2>3, <2>4, <2>5, ReceiverCalm
<1> QED
  BY <1>6, <1>7, Clients

\* What a client that waits finds in its queue.
LEMMA Expected ==
  ASSUME Calm, NEW c \in Client, NEW m \in Q(down[c])
  PROVE  /\ c = Receiver /\ m.type = "ice-config" => stage[c] \in {"ice", "paired", "over"}
         /\ c \in Sender /\ m.type \in Answers =>
              m.sid = c /\ stage[c] \in {"awaiting", "paired", "over"} /\ (stage[c] = "awaiting" => sid[c] = c)
         /\ stage[c] \in {"awaiting", "ice"} => settled[c] = "no"
<1>1. Own(c) /\ Local(c) /\ DecidedOnce /\ Types
  BY DEF Calm, Serene, IInv
<1>2. ASSUME c = Receiver, m.type = "ice-config"
      PROVE  stage[c] \in {"ice", "paired", "over"}
  BY <1>1, <1>2 DEF Own, Timely, Has, DecidedOnce
<1>3. ASSUME c \in Sender, m.type \in Answers
      PROVE  m.sid = c /\ stage[c] \in {"awaiting", "paired", "over"} /\ (stage[c] = "awaiting" => sid[c] = c)
  <2>1. c # Receiver /\ m.sid = c
    BY <1>3, Clients DEF Calm, IInv, DownSound, Answers, RelayType
  <2>2. Waited(c) /\ Asked(c)
    BY <1>3, <2>1 DEF Calm, IInv, Asked, Carries
  <2>3. stage[c] # "ice"
    BY <1>1, <2>1 DEF Own, Timely
  <2>4. stage[c] = "awaiting" => sid[c] = c
    BY <1>1, <1>3 DEF Local, Keyed
  <2> QED
    BY <2>1, <2>2, <2>3, <2>4 DEF Waited
<1>4. stage[c] \in {"awaiting", "ice"} => settled[c] = "no"
  BY <1>1 DEF Own, Unharmed, Local
<1> QED
  BY <1>2, <1>3, <1>4

\* Before it awaits the answer nothing that the client will need is in its queue.
LEMMA NothingYet ==
  ASSUME Calm, NEW c \in Client, stage[c] \notin {"awaiting", "ice", "paired", "over"}
  PROVE  Bare(c)
BY Expected, Clients DEF Bare, Has

\* A client drops a message, or sees the close when it is through.
LEMMA DropCalm ==
  ASSUME Calm, IInv', NEW c \in Client, Lose(c) \/ SeesClose(c)
  PROVE  Serene'
<1> DEFINE m == Head(down[c])
           r == <<>>
<1>1. Own(c) /\ Registering /\ Opening /\ Verdict /\ Serene /\ Types /\ Timely(c) /\ Unharmed(c) /\ Sharing(c)
  BY DEF Calm, Serene, IInv, Own
<1>2. /\ down[c] # <<>> /\ Pop(c) /\ ClientOnly /\ accepted' = accepted /\ outcome' = outcome
      /\ sid' = sid /\ key' = key /\ settled' = settled /\ stage' = stage /\ up' = up
      /\ shut' \in {shut, shut \cup {c}} /\ cached' \in {cached, cached \cup {c}, cached \ {c}}
  BY DEF Lose, SeesClose, Gets
<1>3. Acts(c)
  BY <1>2, ActsIf
<1>4. /\ down'[c] = Tail(down[c]) /\ Q(down'[c]) \subseteq Q(down[c]) /\ m \in Q(down[c])
      /\ down[c] \in Seq(Message) /\ up[c] \in Seq(Message) /\ up[c] \o r = up[c]
      /\ r \in Seq(Message) /\ Q(r) = {} /\ up'[c] = up[c]
  BY <1>1, <1>2, Popped, QueueEnds, ConcatEmptySeq, NoMessage DEF Types
<1> HIDE DEF m, r
<1>5. /\ stage'[c] = stage[c] /\ sid'[c] = sid[c] /\ key'[c] = key[c] /\ settled'[c] = settled[c]
      /\ outcome'[c] = outcome[c]
  BY <1>2
<1>6. SeesClose(c) => stage[c] = "paired"
  BY FairGets DEF SeesClose
<1>7. stage[c] # "paired" =>
        /\ shut' = shut /\ (c \in cached => c \in cached') /\ Gets(c, "lost")
        /\ m.type = "ice-config" => c \in cached'
  BY <1>2, <1>6 DEF Lose, m
<1>8. ASSUME stage[c] # "paired"
      PROVE  Takes(c)
  <2>1. stage[c] # "over"
    BY <1>7, <1>8 DEF Gets
  <2>2. CASE c = Receiver
    <3>1. m.type # "ice-config"
      BY <1>4, <1>7, <1>8, <2>1, <2>2, Expected, Heads DEF m
    <3> QED
      BY <1>2, <1>4, <2>2, <3>1 DEF Takes, m
  <2>3. CASE c # Receiver
    <3>1. c \in Sender
      BY <2>3, Clients
    <3>2. m.type \notin Answers
      BY <1>4, <1>7, <1>8, <2>1, <3>1, Expected, Heads DEF m
    <3> QED
      BY <1>2, <1>4, <1>7, <1>8, <2>3, <3>2 DEF Takes, m
  <2> QED
    BY <2>2, <2>3
<1>9. Unharmed(c)'
  BY <1>1, <1>2, <1>5, <1>7 DEF Unharmed
<1>10. Timely(c)'
  <2>1. c # Receiver => stage'[c] # "ice"
    BY <1>1, <1>5 DEF Timely
  <2> QED
    BY <1>3, <1>5, <1>7, <1>8, <2>1, TimelyStep DEF Takes
<1>11. /\ \A types : ~Has(r, types)
       /\ \A n \in Q(r) : n.type # "confirm" /\ n.type \notin RelayType
       /\ r = <<>>
  BY <1>4 DEF Has, r
<1>12. /\ stage'[c] \in Keyed => key'[c] = <<sid'[c], "shared">>
       /\ stage'[c] = "over" => ~Has(up'[c], {"connect"})
  BY <1>1, <1>4, <1>5 DEF Sharing, Own, Parting
<1>13. Own(c)'
  BY <1>3, <1>4, <1>5, <1>9, <1>10, <1>11, <1>12, OwnStep
<1>14. \A t \in Sender : Unmet(t)' => Unmet(t)
  BY <1>3, <1>4, <1>5, ActsUnmet
<1>15. CASE c \in Sender
  <2>1. ~Has(up'[c], {"register"}) /\ (session = c => ~Has(up'[c], {"connect"}))
    BY <1>1, <1>4, <1>15, Clients DEF Opening
  <2>2. Turned(c)' => Turned(c)
    BY <1>4, <1>5 DEF Turned, Has
  <2>3. Turned(c) => sid'[c] = None
    BY <1>1, <1>5, <1>15 DEF Serene, Stranger
  <2>4. session = c /\ Decided => stage'[c] \in {"paired", "over"} \/ Has(down'[c], {"pair-accept"})
    <3>1. session = c /\ Decided /\ stage[c] \notin {"paired", "over"} => Has(down[c], {"pair-accept"}) /\ Takes(c)
      BY <1>1, <1>8, <1>15, Clients DEF Verdict
    <3>2. Has(down[c], {"pair-accept"}) => ~Bare(c)
      BY <1>15, Clients DEF Bare, Has, Answers
    <3>3. Has(down[c], {"pair-accept"}) /\ Takes(c) => Has(down'[c], {"pair-accept"})
      BY <1>4, <1>15, <3>2, Clients, HasEnds DEF Takes, Answers
    <3> QED
      BY <1>5, <3>1, <3>3
  <2>5. session = c /\ stage'[c] \in {"paired", "over"} => Decided
    BY <1>1, <1>5, <1>15, Clients DEF Verdict
  <2> QED
    BY <1>2, <1>3, <1>5, <1>13, <1>14, <1>15, <2>1, <2>2, <2>3, <2>4, <2>5, SenderCalm
<1>16. CASE c = Receiver
  <2>1. Registering'
    BY <1>1, <1>3, <1>4, <1>5, <1>16 DEF Registering, Acts, Has
  <2>2. Verdict'
    <3>1. session # None => stage'[session] = stage[session] /\ down'[session] = down[session]
      BY <1>1, <1>3, <1>16, Clients DEF Acts, Types
    <3>2. stage[c] = "ice" /\ Has(down[c], {"ice-config"}) => Has(down'[c], {"ice-config"})
      BY <1>4, <1>8, <1>16, HasEnds DEF Takes, Bare
    <3>3. Has(down'[c], {"ice-config"}) => Has(down[c], {"ice-config"})
      BY <1>4 DEF Has
    <3> QED
      BY <1>1, <1>3, <1>4, <1>5, <1>16, <3>1, <3>2, <3>3 DEF Verdict, Decided, Acts
  <2>3. /\ waiting => stage'[Receiver] \in {"registering", "joining"}
        /\ Receiver \in cut => stage'[Receiver] \in {"ice", "paired", "over"}
    BY <1>1, <1>5, <1>16 DEF Opening
  <2>4. outcome'[Receiver] \notin {"crashed", "refused"}
    BY <1>1, <1>5, <1>16 DEF Serene, Welcome
  <2> QED
    BY <1>2, <1>3, <1>5, <1>13, <1>14, <1>16, <2>1, <2>2, <2>3, <2>4, ReceiverCalm
<1> QED
  BY <1>15, <1>16, Clients

\* A client takes the message its stage waits for and goes on without a word.
LEMMA ListenCalm ==
  ASSUME Calm, IInv', NEW c \in Client, ClientOnly,
         down' = down \/ (Gets(c, "answer") /\ (Pop(c) \/ TakeRead(c)) /\ WaitType[stage[c]] \notin Answers \cup {"ice-config"}),
         up' = up, accepted' = accepted, outcome' = outcome, shut' = shut, cached' = cached, sid' = sid,
         stage' = stage \/ \E v : stage' = [stage EXCEPT ![c] = v],
         key' = key \/ \E v : key' = [key EXCEPT ![c] = v],
         settled' = settled \/ \E v : settled' = [settled EXCEPT ![c] = v],
         stage[c] \notin {"start", "ice", "paired", "over", "joining"},
         stage'[c] \notin {"start", "ice", "paired", "over", "rekeying", "rerequesting"},
         stage[c] = "registering" => stage'[c] = "joining" /\ Gets(c, "answer"),
         settled'[c] \in {"no", "good"},
         stage'[c] \in Keyed => key'[c] = <<sid[c], "shared">>
  PROVE  Serene'
<1> DEFINE r == <<>>
<1>1. Types
  BY DEF Calm, IInv
<1>2. Gets(c, "answer") => /\ down[c] # <<>> /\ Head(down[c]) \in Q(down[c])
                           /\ Head(down[c]).type = WaitType[stage[c]]
  BY Heads
<1>3. Acts(c)
  BY <1>2, ActsIf
<1>4. down'[c] = down[c] \/ Takes(c)
  <2>1. ASSUME Gets(c, "answer"), WaitType[stage[c]] \notin Answers \cup {"ice-config"}
        PROVE  Takes(c)
    <3>1. stage[c] # "awaiting"
      BY <2>1 DEF WaitType, Answers
    <3> QED
      BY <3>1, NothingYet DEF Takes
  <2> QED
    BY <2>1
<1>5. Says(c, r)
  BY <1>1, NoMessage, ConcatEmptySeq DEF Says, Types
<1>6. stage[c] = "registering" => Has(down[c], {"registered"})
  BY <1>2 DEF Has, WaitType
<1>7. sid'[c] = sid[c] /\ outcome'[c] = outcome[c]
  OBVIOUS
<1>8. GoesOn(c, r)
  BY <1>3, <1>4, <1>5, <1>6, <1>7 DEF GoesOn
<1> QED
  BY <1>8, GoesOnCalm

\* Everyone has the same words, so every key is shared.
LEMMA SharedKey ==
  ASSUME Calm, NEW c \in Client, NEW m \in Q(down[c]), m.type = "pake"
  PROVE  SessionKey(c, m.body) = <<sid[c], "shared">>
<1>1. \E x \in Client : m.body = Words(x)
  BY Clients DEF Calm, IInv, DownSound, Sound, RelayType
<1>2. \A x \in Client : Words(x) = "right"
  BY DEF Calm, Fair, Words, Client
<1> QED
  BY <1>1, <1>2 DEF SessionKey

\* The receiver is registered.
LEMMA RegisteredCalm ==
  ASSUME Calm, IInv', Registered
  PROVE  Serene'
<1>1. /\ Receiver \in Client /\ Unharmed(Receiver) /\ Types
  BY Clients DEF Calm, Serene, Own, IInv
<1>2. stage[Receiver] = "registering" /\ Gets(Receiver, "answer") /\ TakeRead(Receiver)
  BY <1>1 DEF Registered, Unharmed
<1>3. /\ stage' = [stage EXCEPT ![Receiver] = "joining"] /\ up' = up /\ accepted' = accepted
      /\ outcome' = outcome /\ shut' = shut /\ cached' = cached /\ sid' = sid /\ key' = key
      /\ settled' = settled /\ ClientOnly
  BY DEF Registered, Go, held
<1>4. stage'[Receiver] = "joining" /\ settled'[Receiver] \in {"no", "good"}
  BY <1>1, <1>3 DEF Types, Unharmed
<1>5. WaitType["registering"] = "registered" /\ "registered" \notin Answers \cup {"ice-config"}
      /\ "joining" \notin Keyed
  BY DEF WaitType, Answers, Keyed
<1> QED
  BY <1>1, <1>2, <1>3, <1>4, <1>5, ListenCalm

\* The peer's share arrives.
LEMMA PeerShareCalm ==
  ASSUME Calm, IInv', NEW c \in Client, PeerShare(c)
  PROVE  Serene'
<1> DEFINE k == SessionKey(c, Head(down[c]).body)
<1>1. Types /\ Unharmed(c)
  BY DEF Calm, Serene, Own, IInv
<1>2. stage[c] = "share" /\ Gets(c, "answer") /\ Pop(c)
  BY DEF PeerShare
<1>3. WaitType["share"] = "pake" /\ "pake" \notin Answers \cup {"ice-config"}
  BY DEF WaitType, Answers
<1>4. Head(down[c]) \in Q(down[c]) /\ Head(down[c]).type = "pake"
  BY <1>2, <1>3, Heads
<1>5. k = <<sid[c], "shared">>
  BY <1>4, SharedKey
<1> HIDE DEF k
<1>6. /\ stage' = [stage EXCEPT ![c] = "deriving"] /\ up' = up /\ accepted' = accepted
      /\ outcome' = outcome /\ shut' = shut /\ cached' = cached /\ sid' = sid
      /\ key' = [key EXCEPT ![c] = k] /\ settled' = settled /\ ClientOnly
  BY DEF PeerShare, Go, k
<1>7. stage'[c] = "deriving" /\ settled'[c] \in {"no", "good"} /\ key'[c] = k
  BY <1>1, <1>6 DEF Types, Unharmed
<1> QED
  BY <1>2, <1>3, <1>5, <1>6, <1>7, ListenCalm

\* The wait for the confirmation ends well.
LEMMA SettleCalm ==
  ASSUME Calm, IInv', NEW c \in Client, Settle(c)
  PROVE  Serene'
<1>1. Types /\ Own(c) /\ Sharing(c) /\ Local(c)
  BY DEF Calm, Serene, Own, IInv
<1>2. PICK kind \in {"answer", "left", "refused"} :
        /\ \/ stage[c] \in {"deriving", "confirming"}
           \/ stage[c] = "share" /\ kind # "answer"
        /\ Gets(c, kind)
        /\ settled' = [settled EXCEPT ![c] =
             IF kind # "answer" THEN kind
             ELSE IF Verifies(c, Head(down[c])) THEN "good" ELSE "bad"]
  BY DEF Settle
<1>3. sid[c] # None /\ stage[c] # "paired"
  BY <1>1, <1>2 DEF Local, Keyed
<1>4. kind = "answer" /\ stage[c] \in {"deriving", "confirming"}
  BY <1>2, <1>3, FairGets
<1>5. WaitType[stage[c]] = "confirm" /\ stage[c] \in OfSession /\ "confirm" \notin Answers \cup {"ice-config"}
      /\ stage[c] \in Keyed
  BY <1>4 DEF WaitType, OfSession, Answers, Keyed
<1>6. /\ Head(down[c]) \in Q(down[c]) /\ Head(down[c]).type = "confirm"
      /\ Head(down[c]).sid \in {None, sid[c]}
  BY <1>2, <1>4, <1>5, Heads
<1>7. Head(down[c]).sid \in Sender
  BY <1>6 DEF Calm, IInv, DownSound, RelayType
<1>8. Verifies(c, Head(down[c]))
  BY <1>1, <1>5, <1>6, <1>7, Clients DEF Verifies, Sharing
<1>9. /\ settled' = [settled EXCEPT ![c] = "good"] /\ Gets(c, "answer") /\ TakeRead(c)
      /\ stage' = stage /\ up' = up /\ accepted' = accepted
      /\ outcome' = outcome /\ shut' = shut /\ cached' = cached /\ sid' = sid /\ key' = key /\ ClientOnly
  BY <1>2, <1>4, <1>8 DEF Settle
<1>10. settled'[c] = "good" /\ stage'[c] = stage[c] /\ key'[c] = <<sid[c], "shared">>
  BY <1>1, <1>5, <1>9 DEF Types, Sharing
<1> QED
  BY <1>4, <1>5, <1>9, <1>10, ListenCalm

\* establishKeys returns, or the receiver has the request.
LEMMA ConfirmedCalm ==
  ASSUME Calm, IInv', NEW c \in Client, Confirmed(c) \/ (c = Receiver /\ Requests)
  PROVE  Serene'
<1>1. Types /\ Unharmed(c) /\ Sharing(c)
  BY DEF Calm, Serene, Own, IInv
<1>2. CASE Confirmed(c)
  <2>1. /\ stage[c] = "confirming" /\ up' = up /\ accepted' = accepted /\ outcome' = outcome
        /\ shut' = shut /\ cached' = cached /\ sid' = sid /\ key' = key /\ down' = down /\ ClientOnly
        /\ settled' = [settled EXCEPT ![c] = "no"]
        /\ stage' = [stage EXCEPT ![c] = IF c = Receiver THEN "request" ELSE "sealing"]
    BY <1>2 DEF Confirmed, Go
  <2>2. settled'[c] = "no" /\ stage'[c] \in {"request", "sealing"} /\ key'[c] = <<sid[c], "shared">>
    BY <1>1, <2>1 DEF Types, Sharing, Keyed
  <2> QED
    BY <2>1, <2>2, ListenCalm
<1>3. CASE c = Receiver /\ Requests
  <2>1. /\ stage[c] = "request" /\ up' = up /\ accepted' = accepted /\ outcome' = outcome
        /\ shut' = shut /\ cached' = cached /\ sid' = sid /\ key' = key /\ ClientOnly
        /\ settled' = settled /\ Gets(c, "answer") /\ Pop(c) /\ stage' = [stage EXCEPT ![c] = "deciding"]
    BY <1>3 DEF Requests, Go, held
  <2>2. settled'[c] \in {"no", "good"} /\ stage'[c] = "deciding" /\ key'[c] = <<sid[c], "shared">>
    BY <1>1, <2>1 DEF Types, Sharing, Keyed, Unharmed
  <2>3. WaitType["request"] = "pair-request" /\ "pair-request" \notin Answers \cup {"ice-config"}
    BY DEF WaitType, Answers
  <2> QED
    BY <2>1, <2>2, <2>3, ListenCalm
<1> QED
  BY <1>2, <1>3

\* A client says what comes next.
LEMMA SpeakCalm ==
  ASSUME Calm, IInv', NEW c \in Client, ClientOnly,
         NEW m \in Message, Send(c, <<m>>), m.type \in {"pake", "confirm", "pair-request", "pair-accept"},
         m.sid \in {sid[c], sid'[c]}, m.type = "confirm" => m.body = <<m.sid, "shared">>,
         m.type = "pair-accept" => stage'[c] = "ice",
         down' = down \/ (Gets(c, "answer") /\ TakeRead(c) /\ stage[c] = "joining"),
         outcome' = outcome, shut' = shut, cached' = cached, key' = key, settled' = settled,
         sid' = sid \/ (/\ \E v : sid' = [sid EXCEPT ![c] = v]
                        /\ Carries(down[c], {"peer-joined"}, sid'[c])),
         \E v : stage' = [stage EXCEPT ![c] = v],
         stage[c] \notin {"start", "ice", "paired", "over", "registering"},
         stage[c] = "joining" => Carries(down[c], {"peer-joined"}, sid'[c]),
         stage'[c] \notin {"start", "paired", "over", "rekeying", "rerequesting"},
         stage'[c] = "ice" => c = Receiver,
         stage'[c] \in Keyed => stage[c] \in Keyed /\ sid' = sid,
         accepted' = accepted \/ (c = Receiver /\ accepted' = accepted \cup {sid[c]})
  PROVE  Serene'
<1>1. Types /\ Unharmed(c) /\ Sharing(c)
  BY DEF Calm, Serene, Own, IInv
<1>2. PICK r \in Seq(Message) : (r = <<m>> \/ r = <<>>) /\ Q(r) \subseteq {m} /\ up'[c] = up[c] \o r
  BY <1>1, SendsOne
<1>4. Acts(c)
  <2>1. up' = up \/ \E q \in Seq(Message) : Send(c, q)
    BY OneMessage
  <2>2. down' = down \/ (down[c] # <<>> /\ TakeRead(c))
    BY DEF Gets
  <2>3. accepted \subseteq accepted'
    OBVIOUS
  <2> QED
    BY <2>1, <2>2, <2>3, ActsIf
<1>5. ASSUME c \in cut
      PROVE  r = <<>>
  <2>1. up' = up
    BY <1>5 DEF Send
  <2>2. up[c] \in Seq(Message) /\ Len(up[c] \o r) = Len(up[c]) + Len(r) /\ Len(r) \in Nat /\ Len(up[c]) \in Nat
    BY <1>1, <1>2, ConcatProperties, LenProperties DEF Types
  <2>3. Len(r) = 0
    BY <1>2, <2>1, <2>2
  <2> QED
    BY <1>2, <2>3, EmptySeq
<1>6. Says(c, r)
  BY <1>2, <1>5 DEF Says
<1>7. down'[c] = down[c] \/ Takes(c)
  <2>1. stage[c] = "joining" => Takes(c)
    BY NothingYet DEF Takes
  <2> QED
    BY <2>1
<1>8. /\ stage[c] = "joining" => Has(down[c], {"peer-joined"})
      /\ sid'[c] = sid[c] \/ Carries(down[c], {"peer-joined"}, sid'[c])
      /\ outcome'[c] = outcome[c] /\ settled'[c] \in {"no", "good"}
      /\ stage'[c] \in Keyed => key'[c] = <<sid'[c], "shared">>
  BY <1>1 DEF Carries, Has, Unharmed, Sharing
<1>9. GoesOn(c, r)
  BY <1>4, <1>6, <1>7, <1>8 DEF GoesOn
<1> QED
  BY <1>9, GoesOnCalm

\* A client joins the session it is told of.
LEMMA JoinedCalm ==
  ASSUME Calm, IInv', NEW c \in Client, Joined(c)
  PROVE  Serene'
<1> DEFINE s == Head(down[c]).sid
           m == Msg("pake", s, Words(c))
<1>1. Types
  BY DEF Calm, IInv
<1>2. stage[c] = "joining" /\ Gets(c, "answer") /\ TakeRead(c) /\ WaitType["joining"] = "peer-joined"
  BY DEF Joined, WaitType
<1>3. Head(down[c]) \in Q(down[c]) /\ Head(down[c]).type = "peer-joined" /\ Head(down[c]) \in Message
  BY <1>2, Heads
<1>4. s \in Sender /\ Carries(down[c], {"peer-joined"}, s)
  BY <1>3 DEF Calm, IInv, DownSound, Carries
<1>5. m \in Message /\ m.type = "pake" /\ m.sid = s
  BY <1>4 DEF Msg, Message, MsgType, RelayType, Words
<1>6. /\ sid' = [sid EXCEPT ![c] = s] /\ Send(c, <<m>>) /\ stage' = [stage EXCEPT ![c] = "share"]
      /\ key' = key /\ settled' = settled /\ cached' = cached /\ shut' = shut /\ outcome' = outcome
      /\ accepted' = accepted /\ ClientOnly
  BY DEF Joined, Go
<1> HIDE DEF s, m
<1>7. sid'[c] = s /\ stage'[c] = "share" /\ "share" \notin Keyed
  BY <1>1, <1>6 DEF Types, Keyed
<1> QED
  BY <1>2, <1>4, <1>5, <1>6, <1>7, SpeakCalm

\* A client confirms, asks or accepts.
LEMMA SayCalm ==
  ASSUME Calm, IInv', NEW c \in Client, SendConfirm(c) \/ (c \in Sender /\ PairRequest(c)) \/ (c = Receiver /\ Accept)
  PROVE  Serene'
<1>1. Types /\ Sharing(c) /\ Local(c)
  BY DEF Calm, Serene, Own, IInv
<1>2. PICK t \in {"confirm", "pair-request", "pair-accept"}, st \in {"confirming", "awaiting", "ice"} :
        /\ Send(c, <<Msg(t, sid[c], key[c])>>) /\ stage' = [stage EXCEPT ![c] = st]
        /\ stage[c] \in {"deriving", "sealing", "deciding"}
        /\ (t = "pair-accept" <=> st = "ice") /\ (st = "ice" => c = Receiver)
        /\ sid' = sid /\ key' = key /\ settled' = settled /\ cached' = cached /\ shut' = shut
        /\ outcome' = outcome /\ down' = down /\ ClientOnly
        /\ accepted' = accepted \/ (c = Receiver /\ accepted' = accepted \cup {sid[c]})
  <2>1. CASE SendConfirm(c)
    BY <2>1 DEF SendConfirm, Go, held
  <2>2. CASE c \in Sender /\ PairRequest(c)
    BY <2>2 DEF PairRequest, Go, held
  <2>3. CASE c = Receiver /\ Accept
    BY <2>3 DEF Accept, Go, held
  <2> QED
    BY <2>1, <2>2, <2>3
<1> DEFINE m == Msg(t, sid[c], key[c])
<1>3. stage[c] \in Keyed
  BY <1>2 DEF Keyed
<1>4. m \in Message /\ m.type = t /\ m.sid = sid[c] /\ m.body = <<sid[c], "shared">>
  BY <1>1, <1>2, <1>3 DEF Msg, Message, MsgType, RelayType, Types, Sharing
<1>5. Send(c, <<m>>)
  BY <1>2
<1> HIDE DEF m
<1>6. stage'[c] = st
  BY <1>1, <1>2 DEF Types
<1> QED
  BY <1>2, <1>3, <1>4, <1>5, <1>6, SpeakCalm

\* The receiver registers.
LEMMA StartReceiverCalm ==
  ASSUME Calm, IInv', StartReceiver
  PROVE  Serene'
<1> DEFINE c == Receiver
           m == Plain("register")
           r == <<m>>
<1>1. c \in Client /\ Types /\ Own(c) /\ Unharmed(c) /\ Timely(c) /\ Registering /\ Opening /\ Verdict /\ Serene
  BY Clients DEF Calm, IInv, Serene, Own
<1>2. /\ stage[c] = "start" /\ Send(c, r) /\ stage' = [stage EXCEPT ![c] = "registering"]
      /\ sid' = sid /\ key' = key /\ settled' = settled /\ cached' = cached /\ shut' = shut
      /\ outcome' = outcome /\ accepted' = accepted /\ down' = down /\ ClientOnly
  BY DEF StartReceiver, Go, held
<1>3. m \in Message /\ m.type = "register" /\ m.sid = None /\ r \in Seq(Message) /\ Q(r) = {m} /\ Tail(r) = <<>>
  <2>1. m \in Message /\ m.type = "register" /\ m.sid = None
    BY DEF Plain, Msg, Message, MsgType, Key
  <2> QED
    BY <2>1, OneMessage
<1> HIDE DEF m, r
<1>4. up[c] = <<>> /\ session = None /\ ~waiting /\ ~Has(down[c], {"registered"}) /\ c \notin cut
  BY <1>1, <1>2 DEF Registering, Opening
<1>5. Acts(c)
  BY <1>1, <1>2, <1>3, ActsIf
<1>6. up'[c] = r /\ up[c] \o r = r
  BY <1>1, <1>2, <1>3, <1>4, ConcatEmptySeq DEF Send, Types
<1>7. /\ stage'[c] = "registering" /\ sid'[c] = sid[c] /\ key'[c] = key[c] /\ settled'[c] = settled[c]
      /\ outcome'[c] = outcome[c] /\ down'[c] = down[c]
  BY <1>1, <1>2 DEF Types
<1>8. \A types : "register" \notin types => ~Has(r, types)
  BY <1>3 DEF Has
<1>9. Unharmed(c)'
  BY <1>1, <1>2, <1>7 DEF Unharmed
<1>10. Timely(c)'
  BY <1>1, <1>2, <1>5, <1>7, TimelyStep
<1>11. Own(c)'
  <2>1. /\ ~Has(r, {"retry"}) /\ ~Has(r, Goodbyes \cup {"pair-reject"}) /\ ~Has(r, {"pair-accept"})
        /\ \A n \in Q(r) : n.type \notin RelayType /\ n.type # "confirm"
    BY <1>3, <1>8 DEF Goodbyes, RelayType
  <2>2. stage'[c] \notin Keyed /\ stage[c] \notin {"over", "ice"}
    BY <1>2, <1>7 DEF Keyed
  <2> QED
    BY <1>1, <1>3, <1>4, <1>5, <1>6, <1>7, <1>9, <1>10, <2>1, <2>2, OwnStep
<1>12. \A t \in Sender : Unmet(t)' => Unmet(t)
  <2>1. ~Has(up'[c], {"connect"})
    BY <1>6, <1>8
  <2> QED
    BY <1>1, <1>5, <1>7, <2>1, ActsUnmet
<1>13. Registering' /\ Verdict'
  <2>1. session' = None /\ ~waiting' /\ stage'[Receiver] = "registering" /\ Tail(up'[Receiver]) = <<>>
        /\ ~Has(down'[Receiver], {"registered"})
    BY <1>3, <1>4, <1>5, <1>6, <1>7 DEF Acts
  <2> QED
    BY <2>1 DEF Registering, Verdict
<1>14. outcome'[Receiver] \notin {"crashed", "refused"}
  BY <1>1, <1>7 DEF Serene, Welcome
<1> QED
  BY <1>2, <1>4, <1>5, <1>7, <1>11, <1>12, <1>13, <1>14, ReceiverCalm

\* A sender connects.
LEMMA StartSenderCalm ==
  ASSUME Calm, IInv', NEW c \in Sender, StartSender(c)
  PROVE  Serene'
<1> DEFINE m == Plain("connect")
           r == <<m>>
<1>1. /\ c \in Client /\ c # Receiver /\ Types /\ Own(c) /\ Unharmed(c) /\ Timely(c) /\ Parting(c)
      /\ Opening /\ Verdict /\ Serene /\ Phases
  BY Clients DEF Calm, IInv, Serene, Own
<1>2. /\ stage[c] = "start" /\ Send(c, r) /\ stage' = [stage EXCEPT ![c] = "joining"]
      /\ sid' = sid /\ key' = key /\ settled' = settled /\ cached' = cached /\ shut' = shut
      /\ outcome' = outcome /\ accepted' = accepted /\ down' = down /\ ClientOnly
  BY DEF StartSender, Go, held
<1>3. m \in Message /\ m.type = "connect" /\ m.sid = None /\ r \in Seq(Message) /\ Q(r) = {m}
  <2>1. m \in Message /\ m.type = "connect" /\ m.sid = None
    BY DEF Plain, Msg, Message, MsgType, Key
  <2> QED
    BY <2>1, OneMessage
<1> HIDE DEF m, r
<1>4. PICK q \in Seq(Message) : (q = r \/ q = <<>>) /\ up'[c] = up[c] \o q
  BY <1>1, <1>2, <1>3, Sent
<1>5. Acts(c)
  BY <1>1, <1>2, <1>3, ActsIf
<1>6. up[c] = <<>> /\ sid[c] = None /\ session # c
  <2>1. session # c
    BY <1>1, <1>2, Clients DEF Opening
  <2>2. up[c] = <<>> /\ sid[c] = None
    BY <1>1, <1>2 DEF Calm, IInv, MeetsOnce, Phases, Fresh
  <2> QED
    BY <2>1, <2>2
<1>7. /\ stage'[c] = "joining" /\ sid'[c] = sid[c] /\ key'[c] = key[c] /\ settled'[c] = settled[c]
      /\ outcome'[c] = outcome[c] /\ down'[c] = down[c]
  BY <1>1, <1>2 DEF Types
<1>8. \A types : "connect" \notin types => ~Has(q, types)
  BY <1>3, <1>4, NoMessage DEF Has
<1>9. Unharmed(c)'
  BY <1>1, <1>2, <1>7 DEF Unharmed
<1>10. Timely(c)'
  BY <1>1, <1>2, <1>5, <1>7, TimelyStep
<1>11. c \in cut => q = <<>>
  <2>1. c \in cut => up'[c] = up[c]
    BY <1>2 DEF Send
  <2> QED
    BY <1>4, <1>6, <2>1, ConcatEmptySeq
<1>12. Own(c)'
  <2>1. /\ ~Has(q, {"retry"}) /\ ~Has(q, Goodbyes \cup {"pair-reject"}) /\ ~Has(q, {"pair-accept"})
        /\ ~Has(q, RelayType) /\ ~Has(q, {"confirm"})
    BY <1>8 DEF Goodbyes, RelayType
  <2>2. \A n \in Q(q) : n.type \notin RelayType /\ n.type # "confirm"
    BY <2>1 DEF Has
  <2>3. stage'[c] \notin Keyed /\ stage[c] \notin {"over", "ice"}
    BY <1>2, <1>7 DEF Keyed
  <2> QED
    BY <1>1, <1>4, <1>5, <1>7, <1>9, <1>10, <1>11, <2>1, <2>2, <2>3, OwnStep
<1>13. \A t \in Sender : Unmet(t)' => Unmet(t)
  BY <1>1, <1>2, <1>5, <1>7, ActsUnmet
<1>14. ~Has(up'[c], {"register"})
  BY <1>4, <1>6, <1>8, ConcatEmptySeq
<1>15. (Turned(c)' => Turned(c)) /\ (Turned(c) => sid'[c] = None)
  BY <1>6, <1>7 DEF Turned
<1> QED
  BY <1>2, <1>5, <1>6, <1>7, <1>12, <1>13, <1>14, <1>15, SenderCalm

\* A client that is in a session, or is turned away, has connected.
LEMMA NoConnect ==
  ASSUME Calm, NEW c \in Client, stage[c] \in Keyed \/ (c \in Sender /\ Turned(c))
  PROVE  ~Has(up[c], {"connect"})
<1>1. Local(c) /\ Phases /\ Serene
  BY DEF Calm, IInv
<1>2. ASSUME Has(up[c], {"connect"})
      PROVE  c \in Sender /\ Carries(up[c], {"connect"}, None)
  BY <1>2, Clients DEF Has, Carries, Calm, IInv, UpSound
<1>3. c \in Sender /\ Turned(c) => ~Carries(up[c], {"connect"}, None)
  BY <1>1 DEF Serene, Stranger, Unmet
<1>4. c \in Sender /\ stage[c] \in Keyed => ~Carries(up[c], {"connect"}, None)
  BY <1>1 DEF Phases, Fresh, Local
<1> QED
  BY <1>2, <1>3, <1>4

\* A client ends: its goodbye comes after the acceptance was relayed, or after its refusal.
LEMMA OverCalm ==
  ASSUME Calm, IInv', NEW c \in Client, Acts(c), accepted' = accepted,
         NEW r \in Seq(Message), up'[c] = up[c] \o r, c \in cut => r = <<>>,
         \A m \in Q(r) : m.type \in Goodbyes \cup {"pair-reject"} /\ (m.type = "pair-reject" => m.sid = sid[c]),
         stage'[c] = "over", down'[c] = <<>>, sid'[c] = None, settled'[c] = "no", c \notin shut',
         stage[c] \notin {"start", "over", "ice"}, stage[c] \in {"registering", "joining"} => c \in Sender,
         stage[c] \in Keyed \/ (c \in Sender /\ Turned(c)), outcome'[c] # "failed",
         outcome'[c] \in {"crashed", "refused"} => c \in Sender /\ Turned(c),
         session = c => Decided,
         c = Receiver /\ session # None => Decided \/ After(up'[c], Goodbyes, {"pair-reject"})
  PROVE  Serene'
<1>1. /\ Types /\ Own(c) /\ Parting(c) /\ Registering /\ Opening /\ Verdict /\ Serene
      /\ up[c] \in Seq(Message) /\ session \in Sender \cup {None}
  BY DEF Calm, IInv, Serene, Own, Types
<1>2. Unharmed(c)'
  BY DEF Unharmed
<1>3. Timely(c)'
  BY TimelyStep
<1>4. \A types : types \cap (Goodbyes \cup {"pair-reject"}) = {} => ~Has(r, types)
  BY DEF Has
<1>5. /\ ~Has(r, {"retry"}) /\ ~Has(r, {"pair-accept"}) /\ ~Has(r, {"connect"}) /\ ~Has(r, {"register"})
  BY <1>4 DEF Goodbyes
<1>6. ~Has(up'[c], {"connect"})
  BY <1>1, <1>5, HasEnds, NoConnect
<1>7. Own(c)'
  <2>1. \A m \in Q(r) : (m.type \in RelayType => m.sid \in {sid[c], sid'[c]}) /\ m.type # "confirm"
    BY DEF Goodbyes, RelayType
  <2>2. stage'[c] \notin Keyed
    BY DEF Keyed
  <2> QED
    BY <1>2, <1>3, <1>5, <1>6, <2>1, <2>2, OwnStep
<1>8. \A t \in Sender : Unmet(t)' => Unmet(t)
  BY <1>6, ActsUnmet
<1>9. Has(up'[c], {"register"}) => Has(up[c], {"register"})
  BY <1>1, <1>5, HasEnds
<1>10. CASE c \in Sender
  <2>1. ~Has(up'[c], {"register"}) /\ (session = c => ~Has(up'[c], {"connect"}))
    BY <1>1, <1>6, <1>9, <1>10, Clients DEF Opening
  <2>2. ~Has(down'[c], {"error"})
    BY NoMessage DEF Has
  <2>3. Turned(c)' => Turned(c)
    BY <2>2 DEF Turned
  <2> QED
    BY <1>7, <1>8, <1>10, <2>1, <2>3, SenderCalm
<1>11. CASE c = Receiver
  <2>1. ~Has(up'[c], {"register"})
    BY <1>1, <1>9, <1>11, Clients DEF Registering
  <2>2. Registering'
    BY <1>11, <2>1 DEF Registering
  <2>3. ~waiting
    BY <1>1, <1>11, Clients DEF Opening
  <2>4. Verdict'
    <3>1. session' = session /\ (Decided' <=> Decided)
      BY DEF Acts, Decided
    <3>2. session # None => stage'[session] = stage[session] /\ down'[session] = down[session]
      BY <1>1, <1>11, Clients DEF Acts
    <3>3. ~Has(down'[Receiver], {"ice-config"})
      BY <1>11, NoMessage DEF Has
    <3> QED
      BY <1>1, <1>11, <3>1, <3>2, <3>3 DEF Verdict
  <2>5. outcome'[Receiver] \notin {"crashed", "refused"}
    BY <1>11, Clients
  <2> QED
    BY <1>7, <1>8, <1>11, <2>2, <2>3, <2>4, <2>5, ReceiverCalm
<1> QED
  BY <1>10, <1>11, Clients

\* What a client sends is added, or nothing.
LEMMA SentOrCut ==
  ASSUME Types, NEW c \in Client, NEW r \in Seq(Message), Send(c, r)
  PROVE  \E q \in Seq(Message) : /\ q = r \/ q = <<>>
                                 /\ up'[c] = up[c] \o q /\ (c \in cut => q = <<>>)
                                 /\ c \notin cut => q = r
<1>1. up \in [Client -> Seq(Message)] /\ up[c] \o <<>> = up[c] /\ <<>> \in Seq(Message)
  BY ConcatEmptySeq DEF Types
<1>2. CASE c \in cut
  BY <1>1, <1>2 DEF Send
<1>3. CASE c \notin cut
  BY <1>1, <1>3 DEF Send
<1> QED
  BY <1>2, <1>3

\* The ends that say nothing but goodbye.
LEMMA EndCalm ==
  ASSUME Calm, IInv', NEW c \in Client, NEW result \in Outcome \ {"failed"},
         \/ End(c, result) /\ UNCHANGED <<counters, accepted>> /\ ClientOnly
         \/ Vanish(c, result),
         stage[c] \notin {"start", "over", "ice"}, stage[c] \in {"registering", "joining"} => c \in Sender,
         stage[c] \in Keyed \/ (c \in Sender /\ Turned(c)),
         result \in {"crashed", "refused"} => c \in Sender /\ Turned(c),
         session # None /\ c \in {session, Receiver} => Decided
  PROVE  Serene'
<1> DEFINE bye == <<Plain("bye"), Close>>
           close == <<Close>>
           nothing == <<>>
<1>1. Types /\ outcome \in [Client -> Outcome] /\ session \in Sender \cup {None}
  BY DEF Calm, IInv, Serene, Types
<1>2. Send(c, bye) \/ Send(c, close) \/ Send(c, nothing)
  BY DEF End, Vanish
<1>3. /\ bye \in Seq(Message) /\ Q(bye) = {Plain("bye"), Close}
      /\ close \in Seq(Message) /\ Q(close) = {Close}
      /\ nothing \in Seq(Message) /\ Q(nothing) = {}
      /\ Plain("bye").type = "bye" /\ Close.type = "close"
  BY Partings, NoMessage, OneMessage, TwoMessages
<1> HIDE DEF bye, close, nothing
<1>4. PICK p \in {bye, close, nothing} : Send(c, p)
  BY <1>2
<1>5. p \in Seq(Message) /\ \A m \in Q(p) : m.type \in Goodbyes
  BY <1>3, <1>4 DEF Goodbyes
<1>6. PICK r \in Seq(Message) : (r = p \/ r = <<>>) /\ up'[c] = up[c] \o r /\ (c \in cut => r = <<>>)
  BY <1>1, <1>4, <1>5, SentOrCut
<1>7. \A m \in Q(r) : m.type \in Goodbyes \cup {"pair-reject"} /\ (m.type = "pair-reject" => m.sid = sid[c])
  BY <1>5, <1>6, NoMessage DEF Goodbyes
<1>8. /\ down' = [down EXCEPT ![c] = <<>>] /\ stage' = [stage EXCEPT ![c] = "over"]
      /\ sid' = [sid EXCEPT ![c] = None] /\ settled' = [settled EXCEPT ![c] = "no"]
      /\ key' = [key EXCEPT ![c] = None] /\ outcome' = [outcome EXCEPT ![c] = result]
      /\ shut' = shut \ {c} /\ cached' = cached \ {c} /\ accepted' = accepted /\ ClientOnly
  BY DEF End, Vanish, Go
<1>9. Acts(c)
  BY <1>4, <1>5, <1>8, ActsIf
<1>10. /\ stage'[c] = "over" /\ down'[c] = <<>> /\ sid'[c] = None /\ settled'[c] = "no" /\ c \notin shut'
       /\ outcome'[c] = result
  BY <1>1, <1>8 DEF Types
<1>11. (session = c => Decided) /\ (c = Receiver /\ session # None => Decided)
  BY <1>1, Clients
<1> QED
  BY <1>6, <1>7, <1>8, <1>9, <1>10, <1>11, OverCalm

\* A command dies of an error, a page's wait is refused, a pairing is used, or declined.
LEMMA EndingsCalm ==
  ASSUME Calm, IInv', NEW c \in Client,
         \/ Crash(c) \/ WaitRefused(c) \/ (c \in Sender /\ Rejected(c))
         \/ \E result \in {"done", "broken"} : Finish(c, result)
  PROVE  Serene'
<1>1. Own(c) /\ Local(c) /\ Verdict /\ Phases /\ Opening /\ Types /\ session \in Sender \cup {None}
  BY DEF Calm, IInv, Serene, Own, Types
<1>2. CASE Crash(c) \/ WaitRefused(c)
  <2>1. PICK result \in {"crashed", "refused"} :
          \/ End(c, result) /\ UNCHANGED <<counters, accepted>> /\ ClientOnly
          \/ Vanish(c, result)
    BY <1>2 DEF Crash, WaitRefused, Refuse
  <2>2. /\ stage[c] # "over"
        /\ ErrorBehind(c) \/ \E kind \in {"crash", "refused"} : Gets(c, kind)
    BY <1>2 DEF Crash, WaitRefused, Gets
  <2>3. c \in Sender /\ Turned(c) /\ Stranger(c) /\ sid[c] = None
    <3>1. CASE \E kind \in {"crash", "refused"} : Gets(c, kind)
      BY <3>1, FairGets
    <3>2. CASE ErrorBehind(c)
      <4>1. PICK n \in 2 .. Len(down[c]) : down[c][n].type = "error"
        BY <3>2 DEF ErrorBehind
      <4>2. n \in DOMAIN down[c]
        BY <1>1, LenProperties DEF Types
      <4>3. Has(down[c], {"error"})
        BY <4>1, <4>2 DEF Has, Q
      <4> QED
        BY <4>3, Clients DEF Calm, Serene, Welcome, Turned, Stranger
    <3> QED
      BY <2>2, <3>1, <3>2
  <2>4. stage[c] # "ice" /\ c # Receiver /\ session # c
    BY <1>1, <2>3, Clients DEF Local, Keyed, Stranger
  <2>5. stage[c] # "start"
    BY <2>3 DEF Stranger, Unmet
  <2> QED
    BY <2>1, <2>2, <2>3, <2>4, <2>5, EndCalm DEF Outcome
<1>3. CASE c \in Sender /\ Rejected(c)
  <2>1. /\ stage[c] = "awaiting" /\ Head(down[c]) \in Q(down[c]) /\ Head(down[c]).type = "pair-reject"
    BY <1>3, Heads DEF Rejected
  <2>2. Head(down[c]).sid = c /\ c # Receiver
    BY <1>3, <2>1, Expected, Clients DEF Answers
  <2>3. session # c
    <3>1. ASSUME session = c
          PROVE  FALSE
      <4>1. Heard(c, "pair-reject") /\ Grounded(c)
        BY <1>1, <1>3, <2>1, <2>2, <3>1, Clients DEF Heard, Carries, Phases, InPhase
      <4>2. <<Receiver, "pair-reject">> \in seen
        BY <3>1, <4>1, <2>2 DEF Grounded, Target, RelayType
      <4> QED
        BY <1>1, <4>2, Clients DEF Opening
    <3> QED
      BY <3>1
  <2> QED
    BY <1>3, <2>1, <2>2, <2>3, EndCalm DEF Rejected, Outcome, Keyed
<1>4. CASE \E result \in {"done", "broken"} : Finish(c, result)
  <2>1. PICK result \in {"done", "broken"} : Finish(c, result)
    BY <1>4
  <2>2. stage[c] = "paired" /\ End(c, result) /\ UNCHANGED <<counters, accepted>> /\ ClientOnly
    BY <2>1 DEF Finish
  <2>3. session # None /\ c \in {session, Receiver} => Decided
    BY <1>1, <2>2 DEF Verdict
  <2> QED
    BY <2>2, <2>3, EndCalm DEF Outcome, Keyed
<1> QED
  BY <1>2, <1>3, <1>4

\* The receiver's user declines.
LEMMA DeclineCalm ==
  ASSUME Calm, IInv', Decline
  PROVE  Serene'
<1> DEFINE c == Receiver
           m == Msg("pair-reject", sid[c], key[c])
           p == <<m, Plain("bye"), Close>>
<1>1. /\ c \in Client /\ Types /\ Own(c) /\ Sharing(c) /\ Parting(c) /\ outcome \in [Client -> Outcome] /\ Opening
      /\ Unharmed(c) /\ up[c] \in Seq(Message)
  BY Clients DEF Calm, IInv, Serene, Own, Types
<1>2. /\ stage[c] = "deciding" /\ c \notin shut
  BY <1>1 DEF Decline, Unharmed
<1>3. m \in Message /\ m.type = "pair-reject" /\ m.sid = sid[c]
  BY <1>1 DEF Msg, Message, MsgType, RelayType, Types
<1>4. /\ Send(c, p) /\ down' = [down EXCEPT ![c] = <<>>] /\ stage' = [stage EXCEPT ![c] = "over"]
      /\ sid' = [sid EXCEPT ![c] = None] /\ settled' = settled
      /\ key' = [key EXCEPT ![c] = None] /\ outcome' = [outcome EXCEPT ![c] = "declined"]
      /\ shut' = shut \ {c} /\ cached' = cached /\ accepted' = accepted /\ ClientOnly
  BY <1>2 DEF Decline, Go
<1>5. Plain("bye") \in Message /\ Close \in Message /\ Plain("bye").type = "bye" /\ Close.type = "close"
  BY Partings
<1>6. /\ p \in Seq(Message) /\ Q(p) = {m, Plain("bye"), Close} /\ p[1] = m /\ DOMAIN p = 1 .. 3
  BY <1>3, <1>5, ThreeMessages
<1> HIDE DEF m, p
<1>7. PICK r \in Seq(Message) :
        (r = p \/ r = <<>>) /\ up'[c] = up[c] \o r /\ (c \in cut => r = <<>>) /\ (c \notin cut => r = p)
  BY <1>1, <1>4, <1>6, SentOrCut
<1>8. \A n \in Q(r) : n.type \in Goodbyes \cup {"pair-reject"} /\ (n.type = "pair-reject" => n.sid = sid[c])
  BY <1>3, <1>5, <1>6, <1>7, NoMessage DEF Goodbyes
<1>9. Acts(c)
  BY <1>1, <1>4, <1>6, ActsIf DEF Outcome
<1>10. /\ stage'[c] = "over" /\ down'[c] = <<>> /\ sid'[c] = None /\ c \notin shut'
       /\ outcome'[c] = "declined"
  BY <1>1, <1>4 DEF Types
<1>11. settled'[c] = "no"
  BY <1>1, <1>2, <1>4 DEF Unharmed, Calm, IInv, Local
<1>12. After(p, Goodbyes, {"pair-reject"})
  <2>1. ASSUME NEW i \in 1 .. 3, p[i].type \in Goodbyes
        PROVE  1 < i
    BY <1>3, <1>6, <2>1 DEF Goodbyes
  <2> QED
    BY <1>3, <1>6, <2>1 DEF After
<1>13. ~Has(up[c], Goodbyes)
  BY <1>1, <1>2 DEF Parting, Has
<1>14. c \notin cut
  BY <1>1, <1>2 DEF Opening
<1>15. After(up'[c], Goodbyes, {"pair-reject"})
  BY <1>1, <1>6, <1>7, <1>12, <1>13, <1>14, AfterNone, AfterJoin
<1>16. session # c /\ stage[c] \in Keyed
  BY <1>1, <1>2, Clients DEF Types, Keyed
<1> QED
  BY <1>1, <1>2, <1>4, <1>7, <1>8, <1>9, <1>10, <1>11, <1>15, <1>16, OverCalm

\* A client has what it waited for: the acceptance, and its ICE configuration.
LEMMA ThroughCalm ==
  ASSUME Calm, IInv', NEW c \in Client, ClientOnly, Pop(c), down[c] # <<>>,
         stage[c] \in {"awaiting", "ice"}, stage' = [stage EXCEPT ![c] = "paired"],
         up' = up, accepted' = accepted, outcome' = outcome, shut' = shut, sid' = sid, key' = key,
         settled' = settled, cached' \in {cached, cached \cup {c}},
         session # None /\ c \in {session, Receiver} => Decided,
         ~Has(up[c], {"pair-accept"})
  PROVE  Serene'
<1> DEFINE r == <<>>
<1>1. /\ Own(c) /\ Registering /\ Opening /\ Verdict /\ Serene /\ Types /\ Unharmed(c) /\ Sharing(c)
      /\ session \in Sender \cup {None}
  BY DEF Calm, Serene, IInv, Own, Types
<1>2. Acts(c)
  BY ActsIf
<1>3. /\ Q(down'[c]) \subseteq Q(down[c]) /\ up[c] \in Seq(Message) /\ up[c] \o r = up[c]
      /\ r \in Seq(Message) /\ Q(r) = {} /\ up'[c] = up[c]
  BY <1>1, Popped, ConcatEmptySeq, NoMessage DEF Types
<1> HIDE DEF r
<1>4. /\ stage'[c] = "paired" /\ sid'[c] = sid[c] /\ key'[c] = key[c] /\ settled'[c] = settled[c]
      /\ outcome'[c] = outcome[c]
  BY <1>1 DEF Types
<1>5. Unharmed(c)'
  BY <1>1, <1>4 DEF Unharmed
<1>6. Timely(c)'
  BY <1>2, <1>4, TimelyStep
<1>7. /\ \A types : ~Has(r, types)
      /\ \A n \in Q(r) : n.type # "confirm" /\ n.type \notin RelayType
      /\ r = <<>>
  BY <1>3 DEF Has, r
<1>8. stage'[c] \in Keyed => key'[c] = <<sid'[c], "shared">>
  BY <1>1, <1>4 DEF Sharing, Keyed
<1>9. Own(c)'
  BY <1>2, <1>3, <1>4, <1>5, <1>6, <1>7, <1>8, OwnStep
<1>10. \A t \in Sender : Unmet(t)' => Unmet(t)
  BY <1>2, <1>3, <1>4, ActsUnmet
<1>11. CASE c \in Sender
  <2>1. ~Has(up'[c], {"register"}) /\ (session = c => ~Has(up'[c], {"connect"}))
    BY <1>1, <1>3, <1>11, Clients DEF Opening
  <2>2. Turned(c)' => Turned(c)
    BY <1>3, <1>4 DEF Turned, Has
  <2>3. Turned(c) => sid'[c] = None
    BY <1>1, <1>4, <1>11 DEF Serene, Stranger
  <2>4. session = c => Decided
    BY <1>11, Clients
  <2> QED
    BY <1>2, <1>4, <1>9, <1>10, <1>11, <2>1, <2>2, <2>3, <2>4, SenderCalm
<1>12. CASE c = Receiver
  <2>1. stage[c] # "registering" /\ ~Has(up'[c], {"register"})
    BY <1>1, <1>3, <1>12 DEF Registering
  <2>2. Registering'
    BY <1>4, <1>12, <2>1 DEF Registering
  <2>3. ~waiting
    BY <1>1, <1>12 DEF Opening
  <2>4. Verdict'
    <3>1. session # None => stage'[session] = stage[session] /\ down'[session] = down[session]
      BY <1>1, <1>2, <1>12, Clients DEF Acts
    <3>2. session' = session /\ (Decided' <=> Decided)
      BY <1>2 DEF Acts, Decided
    <3> QED
      BY <1>1, <1>4, <1>12, <3>1, <3>2 DEF Verdict
  <2>5. outcome'[Receiver] \notin {"crashed", "refused"}
    BY <1>1, <1>4, <1>12 DEF Serene, Welcome
  <2> QED
    BY <1>2, <1>4, <1>9, <1>10, <1>12, <2>2, <2>3, <2>4, <2>5, ReceiverCalm
<1> QED
  BY <1>11, <1>12, Clients

\* waitForPairAccept resolves: the configuration came before.
LEMMA AcceptedCalm ==
  ASSUME Calm, IInv', NEW c \in Sender, Accepted(c)
  PROVE  Serene'
<1>1. /\ c \in Client /\ c # Receiver /\ Own(c) /\ Timely(c) /\ Parting(c) /\ Phases /\ Types
      /\ down[c] \in Seq(Message) /\ session \in Sender \cup {None}
  BY Clients DEF Calm, Serene, IInv, Own, Types
<1>2. /\ stage[c] = "awaiting" /\ Gets(c, "answer") /\ Pop(c) /\ WaitType["awaiting"] = "pair-accept"
      /\ up' = up /\ accepted' = accepted /\ outcome' = outcome /\ shut' = shut /\ sid' = sid
      /\ key' = key /\ settled' = settled /\ cached' = cached /\ ClientOnly
      /\ stage' = [stage EXCEPT ![c] = IF c \in cached THEN "paired" ELSE "ice"]
  BY DEF Accepted, WaitType, Go, held
<1>3. down[c] # <<>> /\ Head(down[c]) \in Q(down[c]) /\ Head(down[c]).type = "pair-accept"
  BY <1>1, <1>2, Heads
<1>4. c \in cached
  BY <1>1, <1>2, <1>3, AfterHead DEF Timely
<1>5. ASSUME session = c
      PROVE  Decided
  <2>1. Head(down[c]).sid = c
    BY <1>1, <1>3, Expected DEF Answers
  <2>2. Heard(c, "pair-accept") /\ Grounded(c)
    BY <1>1, <1>3, <1>5, <2>1, Clients DEF Heard, Carries, Phases, InPhase
  <2> QED
    BY <1>1, <1>5, <2>2 DEF Grounded, Target, RelayType, Decided
<1>6. ~Has(up[c], {"pair-accept"})
  BY <1>1, <1>2 DEF Parting
<1> QED
  BY <1>1, <1>2, <1>3, <1>4, <1>5, <1>6, ThroughCalm

\* The receiver has its configuration.
LEMMA IceConfigCalm ==
  ASSUME Calm, IInv', NEW c \in Client, IceConfig(c)
  PROVE  Serene'
<1>1. /\ Own(c) /\ Timely(c) /\ Parting(c) /\ Attached(c) /\ Phases /\ Types /\ Verdict /\ Opening
      /\ session \in Sender \cup {None}
  BY Clients DEF Calm, Serene, IInv, Own, Types
<1>2. /\ stage[c] = "ice" /\ Gets(c, "answer") /\ Pop(c) /\ WaitType["ice"] = "ice-config"
      /\ up' = up /\ accepted' = accepted /\ outcome' = outcome /\ shut' = shut /\ sid' = sid
      /\ key' = key /\ settled' = settled /\ cached' = cached \cup {c} /\ ClientOnly
      /\ stage' = [stage EXCEPT ![c] = "paired"]
  BY DEF IceConfig, WaitType, Go
<1>3. c = Receiver
  BY <1>1, <1>2 DEF Timely
<1>4. down[c] # <<>> /\ Head(down[c]) \in Q(down[c]) /\ Head(down[c]).type = "ice-config"
  BY <1>2, Heads
<1>5. session # None => Decided
  BY <1>1, <1>3, <1>4 DEF Verdict, Has
<1>6. ASSUME NEW m \in Q(up[c]), m.type = "pair-accept"
      PROVE  FALSE
  <2>1. m.sid = session /\ m.sid \in Sender
    BY <1>1, <1>6 DEF Attached, RelayType, Calm, IInv, UpSound, Sound
  <2>2. Ordered(c) /\ <<c, "pair-accept">> \in seen
    BY <1>1, <1>3, <1>5, <2>1, Clients DEF Phases, InPhase, Decided
  <2>3. Rank("pair-accept") < Rank(m.type)
    BY <1>6, <2>1, <2>2 DEF Ordered, Of, RelayType
  <2> QED
    BY <1>6, <2>3 DEF Rank
<1> QED
  BY <1>2, <1>4, <1>5, <1>6, ThroughCalm DEF Has

\* What never happens in fair weather.
LEMMA FairNever ==
  ASSUME Calm, NEW c \in Client
  PROVE  /\ ~KeysFail(c) /\ ~WaitFails(c) /\ ~RegisterAgain /\ ~Rekey /\ ~Rerequest
         /\ ~PlanFails(c) /\ ~Unreachable(c) /\ ~Timeout(c) /\ ~Interrupt(c) /\ ~ClosePage(c)
         /\ ~ExpireCode /\ ~ExpireRestore /\ ~ExpireSession
         /\ ~RegisterTaken(c) /\ \A passed : ~RelayTurnLimited(c, passed)
<1>1. faults \subseteq {"batch"} /\ Receiver \in Client /\ \A x \in Client : Unharmed(x) /\ Local(x)
  BY Clients DEF Calm, Fair, Serene, Own, IInv
<1>2. ~KeysFail(c) /\ ~Rekey
  BY <1>1 DEF KeysFail, Rekey, Continuing, Unharmed, Retryable
<1>3. ASSUME Gets(Receiver, "left") \/ Gets(Receiver, "refused"), stage[Receiver] # "paired"
      PROVE  FALSE
  BY <1>1, <1>3, FairGets, Clients
<1>4. ~RegisterAgain /\ ~Rerequest
  BY <1>3 DEF RegisterAgain, Rerequest, GiveUpRequest
<1>5. ~WaitFails(c)
  <2>1. "paired" \notin DOMAIN WaitType
    BY DEF WaitType
  <2> QED
    BY <1>1, <2>1, FairGets DEF WaitFails, Unharmed
<1>6. /\ ~PlanFails(c) /\ ~Unreachable(c) /\ ~Timeout(c) /\ ~Interrupt(c) /\ ~ClosePage(c)
      /\ ~ExpireCode /\ ~ExpireRestore /\ ~ExpireSession
      /\ ~RegisterTaken(c) /\ \A passed : ~RelayTurnLimited(c, passed)
  BY <1>1 DEF PlanFails, Unreachable, Timeout, Interrupt, ClosePage, ExpireCode, ExpireRestore,
     ExpireSession, RegisterTaken, RelayTurnLimited
<1> QED
  BY <1>2, <1>4, <1>5, <1>6

\* Every step of a client keeps the calm.
LEMMA ClientsCalm ==
  ASSUME Calm, IInv', Recv \/ \E c \in Sender : SendCommand(c)
  PROVE  Serene'
<1>1. ASSUME NEW c \in Client, Command(c)
      PROVE  Serene'
  BY <1>1, DropCalm, EndingsCalm, JoinedCalm, PeerShareCalm, SayCalm, SettleCalm, ConfirmedCalm,
     IceConfigCalm, FairNever DEF Command
<1>2. CASE Recv
  BY <1>1, <1>2, Clients, FairNever, StartReceiverCalm, RegisteredCalm, ConfirmedCalm, SayCalm, DeclineCalm
     DEF Recv
<1>3. ASSUME NEW c \in Sender, SendCommand(c)
      PROVE  Serene'
  BY <1>1, <1>3, Clients, StartSenderCalm, SayCalm, AcceptedCalm, EndingsCalm DEF SendCommand
<1> QED
  BY <1>2, <1>3

-----------------------------------------------------------------------------
(* The steps of the server in fair weather *)

\* The clients do not move; what they sent only gets shorter, and the server does not
\* listen to whom it closes.
Rests ==
  /\ UNCHANGED <<stage, sid, key, settled, shut, cached, outcome, accepted>> /\ cut \subseteq cut'
  /\ \A x \in Client : Q(up'[x]) \subseteq Q(up[x]) /\ (up[x] = <<>> => up'[x] = <<>>)
  /\ \A x \in cut' \cap Client : up'[x] = <<>>
  /\ \A t \in Sender : Unmet(t)' => Unmet(t)

LEMMA HandlerRests ==
  ASSUME Calm, NEW c \in Client, Served(c), Serves, cut \subseteq cut'
  PROVE  Rests
<1>1. IInv /\ Types /\ ClientsRest
  BY DEF Calm, IInv, Serves
<1>2. \A x \in Client : Q(up'[x]) \subseteq Q(up[x]) /\ (up[x] = <<>> => up'[x] = <<>>)
  BY <1>1, UpShrinks
<1>3. \A x \in cut' \cap Client : up'[x] = <<>>
  BY DEF Served
<1>4. \A t \in Sender : Unmet(t)' => Unmet(t)
  BY <1>1, ServedUnmet
<1>5. UNCHANGED <<stage, sid, key, settled, shut, cached, outcome, accepted>>
  BY DEF Served, held
<1> QED
  BY <1>2, <1>3, <1>4, <1>5 DEF Rests

\* A client keeps its own part when what it is told comes in time.
LEMMA ToldOwn ==
  ASSUME Calm, Rests, NEW x \in Client, NEW r \in Seq(Message), down'[x] = down[x] \o r, Attached(x)',
         \A m \in Q(r) : m.type = "confirm" => m.body = <<m.sid, "shared">>,
         Has(r, {"ice-config"}) => accepted # {},
         IF x = Receiver
         THEN stage[x] # "paired" =>
                After(r, Departures, {"ice-config"}) \/ Has(down[x], {"ice-config"})
         ELSE stage[x] # "paired" =>
                /\ After(r, Departures, Answers) \/ Has(down[x], Answers)
                /\ After(r, {"pair-accept"}, {"ice-config"})
  PROVE  Own(x)'
<1>1. /\ Unharmed(x) /\ Parting(x) /\ Timely(x) /\ Sharing(x) /\ down[x] \in Seq(Message)
      /\ stage' = stage /\ sid' = sid /\ key' = key /\ settled' = settled /\ shut' = shut
      /\ cached' = cached /\ outcome' = outcome /\ accepted' = accepted
      /\ Q(up'[x]) \subseteq Q(up[x])
  BY DEF Calm, Serene, Own, IInv, Types, Rests
<1>2. Unharmed(x)'
  BY <1>1 DEF Unharmed
<1>3. \A types : Has(up'[x], types) => Has(up[x], types)
  BY <1>1 DEF Has
<1>4. Parting(x)'
  BY <1>1, <1>3 DEF Parting
<1>5. Q(down'[x]) = Q(down[x]) \cup Q(r)
  BY <1>1, QueueJoins
<1>6. Sharing(x)'
  BY <1>1, <1>5 DEF Sharing
<1>7. Has(down'[x], {"ice-config"}) => Has(down[x], {"ice-config"}) \/ Has(r, {"ice-config"})
  BY <1>5 DEF Has
<1>8. \A types, firsts : After(down[x], types, firsts) /\ (After(r, types, firsts) \/ Has(down[x], firsts))
                           => After(down'[x], types, firsts)
  BY <1>1, AfterJoin
<1>9. Timely(x)'
  <2>1. CASE x = Receiver
    BY <1>1, <1>7, <1>8, <2>1 DEF Timely
  <2>2. CASE x # Receiver
    BY <1>1, <1>8, <2>2 DEF Timely
  <2> QED
    BY <2>1, <2>2
<1> QED
  BY <1>2, <1>4, <1>6, <1>9 DEF Own

\* A client stays attached while the session lives on ...
LEMMA StaysAttached ==
  ASSUME Calm, Rests, NEW x \in Client, NEW r \in Seq(Message), down'[x] = down[x] \o r, session' = session,
         ~Has(r, {"peer-joined"})
  PROVE  Attached(x)'
<1>1. /\ Attached(x) /\ down[x] \in Seq(Message) /\ sid' = sid /\ cut \subseteq cut'
      /\ Q(up'[x]) \subseteq Q(up[x])
  BY DEF Calm, Serene, Own, IInv, Types, Rests
<1>2. Q(down'[x]) = Q(down[x]) \cup Q(r)
  BY <1>1, QueueJoins
<1> QED
  BY <1>1, <1>2 DEF Attached, Has

\* ... and nobody is when it has ended.
LEMMA NoneAttached ==
  ASSUME Calm, Rests, NEW x \in Client, NEW r \in Seq(Message), down'[x] = down[x] \o r,
         session # None, session' = None, {session, Receiver} \subseteq cut', ~Has(r, {"peer-joined"})
  PROVE  Attached(x)'
<1>1. /\ Attached(x) /\ down[x] \in Seq(Message) /\ sid' = sid /\ cut \subseteq cut' /\ Local(x)
      /\ Q(up'[x]) \subseteq Q(up[x]) /\ (x \in cut' => up'[x] = <<>>)
  BY DEF Calm, Serene, Own, IInv, Types, Rests
<1>2. Q(down'[x]) = Q(down[x]) \cup Q(r)
  BY <1>1, QueueJoins
<1>3. CASE x \in cut'
  BY <1>1, <1>3, NoMessage DEF Attached
<1>4. CASE x \notin cut'
  <2>1. x \in Sender /\ x # session /\ x # Receiver /\ x \notin cut
    BY <1>1, <1>4, Clients
  <2>2. sid[x] = None
    BY <1>1, <2>1 DEF Attached, Local
  <2>3. \A m \in Q(down[x]) : m.type # "peer-joined"
    BY <1>1, <2>1 DEF Attached, Calm, IInv, DownSound
  <2>4. \A m \in Q(up[x]) : m.type \notin RelayType
    BY <1>1, <2>1 DEF Attached, Calm, IInv, UpSound, Sound
  <2> QED
    BY <1>1, <1>2, <2>2, <2>3, <2>4 DEF Attached, Has
<1> QED
  BY <1>3, <1>4

\* A handler keeps the calm when the clients keep theirs and it turns away only strangers.
LEMMA ServerCalm ==
  ASSUME Calm, Rests, \A x \in Client : Own(x)',
         session' \in {session, None} \/ (session' \in Sender /\ Unmet(session')),
         \A s \in Sender : Has(down'[s], {"error"}) => Has(down[s], {"error"}) \/ Stranger(s)',
         \A s \in Sender : Has(down'[s], {"peer-joined"}) => Has(down[s], {"peer-joined"}) \/ Unmet(s),
         ~Has(down'[Receiver], {"error"}),
         Registering',
         waiting' => session' = None /\ stage[Receiver] \in {"registering", "joining"},
         Receiver \in cut' => stage[Receiver] \in {"ice", "paired", "over"},
         session' # None => /\ session' \notin cut' /\ Receiver \notin cut'
                            /\ stage[session'] # "start" /\ ~Has(up'[session'], {"connect"}),
         \A c \in Client : <<c, "pair-reject">> \notin seen',
         Verdict'
  PROVE  Serene'
<1>1. /\ Serene /\ Opening /\ Welcome /\ stage' = stage /\ sid' = sid /\ outcome' = outcome
      /\ accepted' = accepted /\ \A t \in Sender : Unmet(t)' => Unmet(t)
  BY DEF Calm, Serene, Rests
<1>2. Welcome'
  BY <1>1 DEF Welcome
<1>3. Opening'
  <2>1. \A s \in Sender : ~Has(up'[s], {"register"})
    BY <1>1, Clients DEF Opening, Rests, Has
  <2> QED
    BY <1>1, <2>1 DEF Opening
<1>4. ASSUME NEW s \in Sender, Turned(s)'
      PROVE  Stranger(s)'
  <2>1. CASE Stranger(s)
    <3>1. ~Has(down'[s], {"peer-joined"}) /\ ~Unmet(s)
      BY <2>1 DEF Stranger
    <3>2. session' # s
      BY <2>1, <3>1, Clients DEF Stranger
    <3> QED
      BY <1>1, <2>1, <3>1, <3>2 DEF Stranger
  <2>2. Turned(s) \/ Stranger(s)'
    BY <1>1, <1>4 DEF Turned
  <2> QED
    BY <1>1, <2>1, <2>2 DEF Serene
<1> QED
  BY <1>1, <1>2, <1>3, <1>4 DEF Serene

\* What the server sends to a client is added, or nothing.
LEMMA OutIs ==
  ASSUME Types, NEW c \in Client, NEW r \in Seq(Message)
  PROVE  \E t \in Seq(Message) :
           /\ t = r \/ t = <<>>
           /\ Out(c, r) = down[c] \o t
           /\ stage[c] = "over" => t = <<>>
           /\ c \notin cut /\ stage[c] # "over" => t = r
<1>1. <<>> \in Seq(Message) /\ down[c] \o <<>> = down[c]
  BY ConcatEmptySeq DEF Types
<1>2. CASE c \in cut \/ stage[c] = "over"
  BY <1>1, <1>2 DEF Out
<1>3. CASE ~(c \in cut \/ stage[c] = "over")
  BY <1>3 DEF Out
<1> QED
  BY <1>2, <1>3

\* ... to one client,
LEMMA OneTold ==
  ASSUME Types, NEW x \in Client, NEW a \in Seq(Message), Reply(x, a)
  PROVE  \E t \in Seq(Message) :
           /\ t = a \/ t = <<>>
           /\ down'[x] = down[x] \o t
           /\ stage[x] = "over" => t = <<>>
           /\ \A z \in Client \ {x} : down'[z] = down[z] /\ down'[z] = down[z] \o <<>>
<1>1. down \in [Client -> Seq(Message)]
  BY DEF Types
<1>2. down'[x] = Out(x, a) /\ \A z \in Client \ {x} : down'[z] = down[z]
  BY <1>1 DEF Reply
<1>3. \A z \in Client : down[z] \o <<>> = down[z]
  BY <1>1, ConcatEmptySeq
<1> QED
  BY <1>2, <1>3, OutIs

\* ... or to two.
TellsBoth(x, a, y, b) == down' = [down EXCEPT ![x] = Out(x, a), ![y] = Out(y, b)]

\* A client is told t: all of a, or nothing.
IsTold(x, a, t) ==
  /\ t = a \/ t = <<>>
  /\ down'[x] = down[x] \o t
  /\ stage[x] = "over" => t = <<>>
  /\ x \notin cut /\ stage[x] # "over" => t = a

LEMMA TwoTold ==
  ASSUME Types, NEW x \in Client, NEW y \in Client, x # y, NEW a \in Seq(Message), NEW b \in Seq(Message),
         TellsBoth(x, a, y, b)
  PROVE  /\ \E t \in Seq(Message) : IsTold(x, a, t)
         /\ \E u \in Seq(Message) : IsTold(y, b, u)
         /\ \A z \in Client \ {x, y} : down'[z] = down[z] \o <<>>
<1>1. down \in [Client -> Seq(Message)]
  BY DEF Types
<1>2. down'[x] = Out(x, a) /\ down'[y] = Out(y, b) /\ \A z \in Client \ {x, y} : down'[z] = down[z]
  BY <1>1 DEF TellsBoth
<1>3. \A z \in Client : down[z] \o <<>> = down[z]
  BY <1>1, ConcatEmptySeq
<1>4. \E t \in Seq(Message) : IsTold(x, a, t)
  BY <1>2, OutIs DEF IsTold
<1>5. \E u \in Seq(Message) : IsTold(y, b, u)
  BY <1>2, OutIs DEF IsTold
<1> QED
  BY <1>2, <1>3, <1>4, <1>5

\* Who is told nothing keeps its own part while the session lives on, or has ended.
LEMMA UntoldOwn ==
  ASSUME Calm, Rests, NEW x \in Client, NEW r \in Seq(Message), down'[x] = down[x] \o r,
         \A m \in Q(r) : m.type \notin Departures \cup {"pair-accept", "ice-config", "peer-joined"},
         \A m \in Q(r) : m.type = "confirm" => m.body = <<m.sid, "shared">>,
         \/ session' = session
         \/ session # None /\ session' = None /\ {session, Receiver} \subseteq cut'
  PROVE  Own(x)'
<1>1. \A types : types \subseteq Departures \cup {"pair-accept", "ice-config", "peer-joined"} => ~Has(r, types)
  BY DEF Has
<1>2. ~Has(r, Departures) /\ ~Has(r, {"pair-accept"}) /\ ~Has(r, {"ice-config"}) /\ ~Has(r, {"peer-joined"})
  BY <1>1
<1>3. Attached(x)'
  BY <1>2, StaysAttached, NoneAttached
<1>4. \A firsts : After(r, Departures, firsts) /\ After(r, {"pair-accept"}, firsts)
  BY <1>2, AfterNone
<1> QED
  BY <1>2, <1>3, <1>4, ToldOwn

\* A handler takes the first message of a client that the server has not closed.
LEMMA TakenUp ==
  ASSUME Calm, NEW c \in Client, up[c] # <<>>, Served(c)
  PROVE  /\ c \notin cut /\ Head(up[c]) \in Q(up[c]) /\ Head(up[c]) \in Message /\ up[c] \in Seq(Message)
         /\ c \notin cut' => up'[c] = Tail(up[c])
         /\ \A x \in Client \ {c} : x \notin cut' => up'[x] = up[x]
         /\ \A x \in Client : x \in cut' => up'[x] = <<>>
<1>1. up[c] \in Seq(Message) /\ c \notin cut
  BY DEF Calm, IInv, Types, Phases, CutEmpty
<1> QED
  BY <1>1, QueueEnds DEF Served

\* The verdict stays while nothing is decided.
LEMMA VerdictStays ==
  ASSUME Calm, Rests, NEW c \in Client, up[c] # <<>>, Served(c), session' = session, Decided' <=> Decided,
         session # None => Receiver \notin cut',
         \A x \in Client : \E t \in Seq(Message) : down'[x] = down[x] \o t /\ ~Has(t, {"ice-config"}),
         c = Receiver /\ session # None => Head(up[c]).type # "pair-reject"
  PROVE  Verdict'
<1>1. Verdict /\ Types /\ stage' = stage /\ session \in Sender \cup {None} /\ Receiver \in Client /\ Sender \subseteq Client
  BY Clients DEF Calm, Serene, IInv, Types, Rests
<1>2. ASSUME NEW x \in Client
      PROVE  /\ \A types : Has(down[x], types) => Has(down'[x], types)
             /\ Has(down'[x], {"ice-config"}) => Has(down[x], {"ice-config"})
  <2>1. PICK t \in Seq(Message) : down'[x] = down[x] \o t /\ ~Has(t, {"ice-config"})
    OBVIOUS
  <2>2. down[x] \in Seq(Message)
    BY <1>1 DEF Types
  <2> QED
    BY <2>1, <2>2, HasEnds
<1>3. ASSUME session # None, After(up[Receiver], Goodbyes, {"pair-reject"})
      PROVE  After(up'[Receiver], Goodbyes, {"pair-reject"})
  <2>1. CASE c = Receiver
    <3>1. up'[c] = Tail(up[c]) /\ up[c] \in Seq(Message)
      BY <1>3, <2>1, TakenUp
    <3> QED
      BY <1>3, <2>1, <3>1, AfterHead
  <2>2. CASE c # Receiver
    BY <1>1, <1>3, <2>2, TakenUp
  <2> QED
    BY <2>1, <2>2
<1> QED
  BY <1>1, <1>2, <1>3 DEF Verdict

\* The receiver's registration is noted.
LEMMA RegisterCalm ==
  ASSUME Calm, NEW c \in Client, Register(c)
  PROVE  Serene'
<1> DEFINE m == Plain("registered")
           a == <<m>>
<1>1. /\ Registering /\ Opening /\ Welcome /\ Types
  BY DEF Calm, Serene, IInv
<1>2. /\ up[c] # <<>> /\ Head(up[c]).type = "register" /\ Served(c) /\ waiting' = TRUE
      /\ Reply(c, a) /\ session' = session /\ seen' = seen /\ cut' = cut
  BY DEF Register, Arrives
<1>3. Has(up[c], {"register"})
  BY <1>1, <1>2, HasEnds DEF Types
<1>4. c = Receiver
  BY <1>1, <1>3, Clients DEF Opening
<1>5. stage[c] = "registering" /\ Tail(up[c]) = <<>> /\ session = None /\ c \notin cut
  BY <1>1, <1>2, <1>3, <1>4, TakenUp DEF Registering
<1>6. up'[c] = <<>>
  BY <1>2, <1>5, TakenUp
<1>7. Rests
  BY <1>2, NoticeServes, HandlerRests DEF Calm
<1>8. m \in Message /\ m.type = "registered" /\ a \in Seq(Message) /\ Q(a) = {m}
  <2>1. m \in Message /\ m.type = "registered"
    BY DEF Plain, Msg, Message, MsgType, Key
  <2> QED
    BY <2>1, OneMessage
<1> HIDE DEF m, a
<1>9. PICK t \in Seq(Message) : /\ t = a \/ t = <<>>
                                /\ down'[c] = down[c] \o t
                                /\ \A z \in Client \ {c} : down'[z] = down[z] /\ down'[z] = down[z] \o <<>>
  BY <1>1, <1>2, <1>8, OneTold
<1>10. \A n \in Q(t) \cup Q(<<>>) : n.type = "registered"
  BY <1>8, <1>9, NoMessage
<1>11. \A x \in Client : Own(x)'
  <2>1. Own(c)'
    BY <1>2, <1>7, <1>9, <1>10, UntoldOwn DEF Departures
  <2>2. ASSUME NEW x \in Client \ {c}
        PROVE  Own(x)'
    BY <1>2, <1>7, <1>9, <1>10, NoMessage, UntoldOwn DEF Departures
  <2> QED
    BY <2>1, <2>2
<1>12. ~Has(down'[Receiver], {"error"})
  <2>1. ~Has(t, {"error"})
    BY <1>10 DEF Has
  <2> QED
    BY <1>1, <1>4, <1>9, <2>1, HasEnds DEF Welcome, Types
<1>13. Registering' /\ Verdict'
  BY <1>2, <1>4, <1>5, <1>6, <1>7, HasEnds DEF Registering, Verdict, Rests, Has, Q
<1>14. \A s \in Sender : down'[s] = down[s]
  BY <1>4, <1>9, Clients
<1> QED
  BY <1>1, <1>2, <1>4, <1>5, <1>7, <1>11, <1>12, <1>13, <1>14, ServerCalm DEF Opening

\* A sender that finds no waiting code is turned away.
LEMMA NotFoundCalm ==
  ASSUME Calm, NEW c \in Client, ConnectNotFound(c)
  PROVE  Serene'
<1> DEFINE m == Failure("code_not_found")
           a == <<m>>
<1>1. /\ Registering /\ Opening /\ Welcome /\ Types /\ Phases /\ MeetsOnce /\ session \in Sender \cup {None}
  BY DEF Calm, Serene, IInv, Types
<1>2. /\ up[c] # <<>> /\ Head(up[c]).type = "connect" /\ Served(c) /\ waiting' = waiting
      /\ Reply(c, a) /\ session' = session /\ seen' = seen /\ cut' = cut
  BY DEF ConnectNotFound, Arrives, server
<1>3. Head(up[c]) \in Q(up[c]) /\ up[c] \in Seq(Message) /\ c \notin cut /\ up'[c] = Tail(up[c])
  BY <1>2, TakenUp
<1>4. c # Receiver /\ c \in Sender /\ Carries(up[c], {"connect"}, None)
  BY <1>2, <1>3, Clients DEF Calm, IInv, UpSound, Carries
<1>5. Rests
  BY <1>2, NoticeServes, HandlerRests DEF Calm
<1>6. m \in Message /\ m.type = "error" /\ a \in Seq(Message) /\ Q(a) = {m}
  <2>1. m \in Message /\ m.type = "error"
    BY DEF Failure, Msg, Message, MsgType, Code
  <2> QED
    BY <2>1, OneMessage
<1> HIDE DEF m, a
<1>7. PICK t \in Seq(Message) : /\ t = a \/ t = <<>>
                                /\ down'[c] = down[c] \o t
                                /\ \A z \in Client \ {c} : down'[z] = down[z] /\ down'[z] = down[z] \o <<>>
  BY <1>1, <1>2, <1>6, OneTold
<1>8. \A n \in Q(t) : n.type = "error"
  BY <1>6, <1>7, NoMessage
<1>9. \A x \in Client : Own(x)'
  <2>1. Own(c)'
    BY <1>2, <1>5, <1>7, <1>8, UntoldOwn DEF Departures
  <2>2. ASSUME NEW x \in Client \ {c}
        PROVE  Own(x)'
    BY <1>2, <1>5, <1>7, NoMessage, UntoldOwn
  <2> QED
    BY <2>1, <2>2
<1>10. down'[Receiver] = down[Receiver] /\ \A s \in Sender \ {c} : down'[s] = down[s]
  BY <1>4, <1>7, Clients
<1>11. Has(down'[c], {"peer-joined"}) => Has(down[c], {"peer-joined"})
  <2>1. ~Has(t, {"peer-joined"})
    BY <1>8 DEF Has
  <2> QED
    BY <1>1, <1>7, <2>1, HasEnds DEF Types
<1>12. Stranger(c)'
  <2>1. stage[c] # "start" /\ sid[c] = None /\ ~Carries(down[c], {"peer-joined"}, c)
    BY <1>1, <1>2, <1>4 DEF MeetsOnce, Phases, Fresh
  <2>2. ~Has(down[c], {"peer-joined"})
    BY <1>4, <2>1 DEF Has, Carries, Calm, IInv, DownSound
  <2>3. Unmet(c) /\ session # c /\ c \notin accepted /\ sid[Receiver] # c
    <3>1. Unmet(c) /\ Silent(c)
      BY <1>4 DEF Unmet, Calm, IInv
    <3>2. session # c
      BY <1>1, <1>4, Clients DEF Opening, Has, Carries
    <3> QED
      BY <1>1, <1>4, <3>1, <3>2 DEF Opening, Silent
  <2>4. ~Carries(up'[c], {"connect"}, None)
    BY <1>1, <1>2, <1>3, <1>4, RestOnce DEF MeetsOnce, Carries
  <2>5. ~Carries(down[Receiver], {"peer-joined"}, c)
    BY <1>1, <1>4 DEF MeetsOnce
  <2>6. ~Unmet(c)'
    BY <1>5, <1>10, <2>1, <2>4, <2>5 DEF Unmet, Rests
  <2> QED
    BY <1>2, <1>5, <1>11, <2>1, <2>2, <2>3, <2>6 DEF Stranger, Rests
<1>13. up'[Receiver] = up[Receiver] \/ (Receiver \in cut /\ up'[Receiver] = <<>>)
  BY <1>2, <1>4, Clients, TakenUp
<1>14. up'[Receiver] = up[Receiver]
  BY <1>1, <1>13, Clients DEF Phases, CutEmpty
<1>15. Registering'
  BY <1>1, <1>2, <1>5, <1>10, <1>14 DEF Registering, Rests
<1>16. Verdict'
  <2>1. ASSUME NEW x \in Client
        PROVE  \E q \in Seq(Message) : down'[x] = down[x] \o q /\ ~Has(q, {"ice-config"})
    BY <1>7, <1>8, NoMessage DEF Has
  <2> QED
    BY <1>1, <1>2, <1>4, <1>5, <2>1, VerdictStays DEF Decided, Opening
<1>17. session' # None => /\ session' \notin cut' /\ Receiver \notin cut'
                          /\ stage[session'] # "start" /\ ~Has(up'[session'], {"connect"})
  BY <1>1, <1>2, <1>5, Clients DEF Opening, Rests, Has
<1> QED
  BY <1>1, <1>2, <1>5, <1>9, <1>10, <1>11, <1>12, <1>15, <1>16, <1>17, ServerCalm DEF Opening, Welcome

\* The receiver's first session begins.
LEMMA ConnectCalm ==
  ASSUME Calm, NEW c \in Client, Connect(c)
  PROVE  Serene'
<1> DEFINE m == Msg("peer-joined", c, None)
           a == <<m>>
<1>1. /\ Registering /\ Opening /\ Welcome /\ Types /\ Phases /\ MeetsOnce /\ DecidedOnce
      /\ \A x \in Client : Own(x) /\ Parting(x) /\ Attached(x) /\ Timely(x) /\ Local(x)
  BY DEF Calm, Serene, IInv, Own
<1>2. /\ up[c] # <<>> /\ Head(up[c]).type = "connect" /\ Served(c) /\ waiting /\ waiting' = FALSE
      /\ ReplyBoth(c, a, a) /\ session' = c /\ seen' = {} /\ cut' = cut
  BY DEF Connect, Arrives
<1>3. Head(up[c]) \in Q(up[c]) /\ up[c] \in Seq(Message) /\ c \notin cut /\ up'[c] = Tail(up[c])
  BY <1>2, TakenUp
<1>4. c # Receiver /\ c \in Sender /\ Receiver \in Client /\ Carries(up[c], {"connect"}, None) /\ Unmet(c)
  BY <1>2, <1>3, Clients DEF Calm, IInv, UpSound, Carries, Unmet
<1>5. session = None /\ stage[Receiver] \in {"registering", "joining"} /\ Receiver \notin cut
  BY <1>1, <1>2 DEF Opening
<1>6. Rests
  BY <1>2, ConnectServes, HandlerRests DEF Calm
<1>7. m \in Message /\ m.type = "peer-joined" /\ m.sid = c /\ a \in Seq(Message) /\ Q(a) = {m}
  <2>1. m \in Message /\ m.type = "peer-joined" /\ m.sid = c
    BY <1>4 DEF Msg, Message, MsgType, Key
  <2> QED
    BY <2>1, OneMessage
<1> HIDE DEF m, a
<1>8. /\ \E t \in Seq(Message) : IsTold(c, a, t)
      /\ \E u \in Seq(Message) : IsTold(Receiver, a, u)
      /\ \A z \in Client \ {c, Receiver} : down'[z] = down[z] \o <<>>
  <2>1. TellsBoth(c, a, Receiver, a)
    BY <1>2 DEF ReplyBoth, TellsBoth
  <2>2. Types
    BY <1>1
  <2> QED
    BY <1>4, <1>7, <2>1, <2>2, TwoTold
<1>9. ASSUME NEW x \in Client
      PROVE  \E q \in Seq(Message) : /\ down'[x] = down[x] \o q /\ \A n \in Q(q) : n.type = "peer-joined" /\ n.sid = c
                                     /\ x \notin {c, Receiver} => q = <<>>
  BY <1>7, <1>8, NoMessage DEF IsTold
<1>10. ASSUME NEW x \in Client
       PROVE  Own(x)' /\ (Has(down'[x], {"error"}) => Has(down[x], {"error"}))
                      /\ (x \notin {c, Receiver} => down'[x] = down[x])
                      /\ (Has(down'[x], {"ice-config"}) => Has(down[x], {"ice-config"}))
  <2>1. PICK q \in Seq(Message) : /\ down'[x] = down[x] \o q
                                  /\ \A n \in Q(q) : n.type = "peer-joined" /\ n.sid = c
                                  /\ x \notin {c, Receiver} => q = <<>>
    BY <1>9
  <2>2. ~Has(q, Departures) /\ ~Has(q, {"pair-accept"}) /\ ~Has(q, {"ice-config"}) /\ ~Has(q, {"error"})
    BY <2>1 DEF Has, Departures
  <2>3. down[x] \in Seq(Message) /\ Q(down'[x]) = Q(down[x]) \cup Q(q)
    BY <1>1, <2>1, QueueJoins DEF Types
  <2>4. Attached(x)'
    <3>1. x \notin cut => sid[x] = None
      BY <1>1, <1>5 DEF Attached
    <3>2. x \notin cut => \A n \in Q(down[x]) : n.type # "peer-joined"
      BY <1>1, <1>5, Clients DEF Attached, Calm, IInv, DownSound
    <3>3. \A n \in Q(up[x]) : n.type \notin RelayType
      BY <1>1, <1>5, Clients DEF Attached, Calm, IInv, UpSound, Sound
    <3> QED
      BY <1>2, <1>6, <2>1, <2>3, <3>1, <3>2, <3>3 DEF Attached, Rests
  <2>5. Own(x)'
    BY <1>6, <2>1, <2>2, <2>4, AfterNone, ToldOwn
  <2> QED
    BY <2>1, <2>2, <2>3, <2>5, HasEnds, ConcatEmptySeq
<1>11. \A s \in Sender : Has(down'[s], {"peer-joined"}) => Has(down[s], {"peer-joined"}) \/ Unmet(s)
  BY <1>4, <1>10, Clients
<1>12. Registering'
  <2>1. ~Has(up[Receiver], {"register"})
    BY <1>1, <1>2 DEF Registering
  <2> QED
    BY <1>4, <1>5, <1>6, <2>1 DEF Registering, Rests, Has
<1>13. stage[c] # "start" /\ ~Has(up'[c], {"connect"}) /\ stage[c] \notin {"paired", "over"}
  <2>1. stage[c] # "start" /\ sid[c] = None
    BY <1>1, <1>2, <1>4 DEF MeetsOnce, Phases, Fresh
  <2>2. ~Has(up'[c], {"connect"})
    BY <1>1, <1>2, <1>3, <1>4, RestOnce DEF MeetsOnce, Has
  <2>3. stage[c] # "over"
    BY <1>1, <1>2, <1>3 DEF Parting, Has
  <2> QED
    BY <1>1, <2>1, <2>2, <2>3 DEF Local, Keyed
<1>14. Verdict'
  <2>1. ~Has(down[Receiver], {"ice-config"})
    BY <1>1, <1>4, <1>5 DEF Timely, DecidedOnce
  <2>2. ~Decided'
    BY <1>2 DEF Decided
  <2> QED
    BY <1>2, <1>4, <1>5, <1>6, <1>10, <1>13, <2>1, <2>2 DEF Verdict, Rests
<1>15. ~Has(down'[Receiver], {"error"})
  BY <1>1, <1>4, <1>10 DEF Welcome
<1> QED
  BY <1>1, <1>2, <1>3, <1>4, <1>5, <1>6, <1>10, <1>11, <1>12, <1>13, <1>14, <1>15, Clients, ServerCalm

\* A relayed message is of the server's session.
LEMMA RelayInSession ==
  ASSUME Calm, NEW c \in Client, Arrives(c, RelayType)
  PROVE  /\ InSession(c, Head(up[c]).sid) /\ session \in Sender /\ session # None /\ session # Receiver
         /\ Head(up[c]) \in Q(up[c]) /\ Head(up[c]) \in Message /\ up[c] # <<>> /\ Head(up[c]).sid = session
         /\ RelayAllowed(c, Head(up[c]).type)
<1>1. Types /\ Attached(c) /\ PhasesRespected
  BY PhasesAllow DEF Calm, Serene, Own, IInv
<1>2. up[c] # <<>> /\ Head(up[c]) \in Q(up[c]) /\ Head(up[c]) \in Message /\ Head(up[c]).type \in RelayType
  BY <1>1, Arrived
<1>3. Head(up[c]).sid = session /\ Head(up[c]).sid \in Sender /\ c \in {session, Receiver}
  BY <1>1, <1>2 DEF Attached, Calm, IInv, UpSound, Sound
<1>4. InSession(c, Head(up[c]).sid)
  BY <1>3, Clients DEF InSession
<1> QED
  BY <1>1, <1>2, <1>3, <1>4, Clients DEF PhasesRespected

\* A message before the decision is relayed.
LEMMA RelayCalm ==
  ASSUME Calm, NEW c \in Client, Relay(c)
  PROVE  Serene'
<1> DEFINE m == Head(up[c])
           a == <<m>>
           x == Target(c)
<1>1. /\ Registering /\ Opening /\ Welcome /\ Types /\ Sharing(c)
  BY DEF Calm, Serene, IInv, Own
<1>2. /\ up[c] # <<>> /\ m.type \in {"pake", "confirm", "pair-request"} /\ Served(c) /\ waiting' = waiting
      /\ Reply(x, a) /\ session' = session /\ seen' = seen \cup {<<c, m.type>>} /\ cut' = cut
  BY DEF Relay, Arrives
<1>3. m \in Q(up[c]) /\ m \in Message /\ session \in Sender /\ session # None /\ session # Receiver
      /\ c \in {session, Receiver} /\ x \in Client
  <2>1. Arrives(c, RelayType)
    BY <1>2 DEF Arrives, RelayType
  <2> QED
    BY <2>1, RelayInSession, Clients DEF InSession, Target
<1>4. Rests
  BY <1>2, RelayServes, HandlerRests DEF Calm
<1>5. a \in Seq(Message) /\ Q(a) = {m}
  BY <1>3, OneMessage
<1> HIDE DEF m, a, x
<1>6. PICK t \in Seq(Message) : /\ t = a \/ t = <<>>
                                /\ down'[x] = down[x] \o t
                                /\ \A z \in Client \ {x} : down'[z] = down[z] /\ down'[z] = down[z] \o <<>>
  BY <1>1, <1>2, <1>3, <1>5, OneTold
<1>7. ASSUME NEW y \in Client
      PROVE  \E q \in Seq(Message) : down'[y] = down[y] \o q /\ Q(q) \subseteq {m}
  BY <1>5, <1>6, NoMessage
<1>8. m.type = "confirm" => m.body = <<m.sid, "shared">>
  BY <1>1, <1>3 DEF Sharing
<1>9. ASSUME NEW y \in Client
      PROVE  /\ Own(y)' /\ \A types : types \cap {"pake", "confirm", "pair-request"} = {} =>
                                        (Has(down'[y], types) => Has(down[y], types))
             /\ \E q \in Seq(Message) : down'[y] = down[y] \o q /\ ~Has(q, {"ice-config"})
  <2>1. PICK q \in Seq(Message) : down'[y] = down[y] \o q /\ Q(q) \subseteq {m}
    BY <1>7
  <2>2. Own(y)'
    <3>1. \A n \in Q(q) : n.type \notin Departures \cup {"pair-accept", "ice-config", "peer-joined"}
      BY <1>2, <2>1 DEF Departures
    <3> QED
      BY <1>2, <1>4, <1>8, <2>1, <3>1, UntoldOwn
  <2>3. \A types : types \cap {"pake", "confirm", "pair-request"} = {} => ~Has(q, types)
    BY <1>2, <2>1 DEF Has
  <2>4. down[y] \in Seq(Message)
    BY <1>1 DEF Types
  <2>5. ~Has(q, {"ice-config"})
    BY <2>3
  <2>6. \A types : Has(down'[y], types) => Has(down[y], types) \/ Has(q, types)
    BY <2>1, <2>4, HasEnds
  <2> QED
    BY <2>1, <2>2, <2>3, <2>5, <2>6
<1>10. /\ ~Has(down'[Receiver], {"error"})
       /\ \A s \in Sender : /\ Has(down'[s], {"error"}) => Has(down[s], {"error"})
                            /\ Has(down'[s], {"peer-joined"}) => Has(down[s], {"peer-joined"})
  <2>1. {"error"} \cap {"pake", "confirm", "pair-request"} = {} /\ {"peer-joined"} \cap {"pake", "confirm", "pair-request"} = {}
    OBVIOUS
  <2> QED
    BY <1>1, <1>9, <2>1, Clients DEF Welcome
<1>11. Registering'
  BY <1>1, <1>2, <1>3, <1>4, Clients DEF Registering, Rests, Has
<1>12. (Decided' <=> Decided) /\ \A y \in Client : <<y, "pair-reject">> \notin seen'
  BY <1>1, <1>2 DEF Decided, Opening
<1>13. Verdict'
  BY <1>1, <1>2, <1>3, <1>4, <1>9, <1>12, VerdictStays DEF Opening, m
<1>14. session' # None => /\ session' \notin cut' /\ Receiver \notin cut'
                          /\ stage[session'] # "start" /\ ~Has(up'[session'], {"connect"})
  BY <1>1, <1>2, <1>3, <1>4, Clients DEF Opening, Rests, Has
<1> QED
  BY <1>1, <1>2, <1>4, <1>9, <1>10, <1>11, <1>12, <1>13, <1>14, ServerCalm DEF Opening

\* In two messages the second comes after the first.
LEMMA PairAfter ==
  ASSUME NEW a \in Message, NEW b \in Message, NEW types, NEW firsts,
         a.type \in firsts, a.type \notin types
  PROVE  After(<<a, b>>, types, firsts)
<1>1. DOMAIN <<a, b>> = {1, 2} /\ <<a, b>>[1] = a /\ <<a, b>>[2] = b
  OBVIOUS
<1>2. 1 < 2
  OBVIOUS
<1> QED
  BY <1>1, <1>2 DEF After

\* The acceptance is relayed, and both sides get their ICE configuration.
LEMMA RelayAcceptCalm ==
  ASSUME Calm, NEW c \in Client, RelayAccept(c)
  PROVE  Serene'
<1> DEFINE m == Head(up[c])
           ice == Plain("ice-config")
           a == <<ice, m>>
           b == <<ice>>
<1>1. /\ Registering /\ Opening /\ Welcome /\ Verdict /\ Types /\ UpSound
      /\ \A x \in Client : Own(x) /\ Parting(x)
  BY DEF Calm, Serene, IInv, Own
<1>2. /\ up[c] # <<>> /\ m.type = "pair-accept" /\ Served(c) /\ waiting' = waiting
      /\ TellsBoth(session, a, Receiver, b) /\ session' = session
      /\ seen' = seen \cup {<<Receiver, "pair-accept">>} /\ cut' = cut
  BY DEF RelayAccept, Arrives, ReplyBoth, TellsBoth
<1>3. /\ m \in Q(up[c]) /\ m \in Message /\ session \in Client /\ session # None /\ session # Receiver
      /\ c = Receiver /\ ~Decided /\ Receiver \in Client
  <2>1. Arrives(c, RelayType)
    BY <1>2 DEF Arrives, RelayType
  <2>2. c = Receiver /\ ~Decided
    BY <1>2, <2>1, RelayInSession DEF RelayAllowed
  <2> QED
    BY <2>1, <2>2, RelayInSession, Clients
<1>4. /\ stage[Receiver] = "ice" /\ accepted # {} /\ session \notin cut /\ Receiver \notin cut
      /\ stage[session] \notin {"paired", "over"}
  <2>1. Has(up[Receiver], {"pair-accept"})
    BY <1>2, <1>3 DEF Has
  <2>2. accepted # {}
    BY <1>1, <1>2, <1>3 DEF UpSound, Sound
  <2> QED
    BY <1>1, <1>3, <2>1, <2>2 DEF Parting, Opening, Verdict
<1>5. Rests
  BY <1>2, DecisionServes, HandlerRests DEF Calm
<1>6. ice \in Message /\ ice.type = "ice-config"
  BY DEF Plain, Msg, Message, MsgType, Key
<1>7. /\ a \in Seq(Message) /\ Q(a) = {ice, m} /\ b \in Seq(Message) /\ Q(b) = {ice}
      /\ After(a, {"pair-accept"}, {"ice-config"})
  BY <1>2, <1>3, <1>6, OneMessage, TwoMessages, PairAfter
<1> HIDE DEF m, ice, a, b
<1>8. /\ down'[session] = down[session] \o a /\ down'[Receiver] = down[Receiver] \o b
      /\ \A z \in Client \ {session, Receiver} : down'[z] = down[z] \o <<>>
  <2>1. /\ \E t \in Seq(Message) : IsTold(session, a, t)
        /\ \E u \in Seq(Message) : IsTold(Receiver, b, u)
        /\ \A z \in Client \ {session, Receiver} : down'[z] = down[z] \o <<>>
    <3>1. Types
      BY <1>1
    <3> QED
      BY <1>2, <1>3, <1>7, <3>1, TwoTold
  <2> QED
    BY <1>4, <2>1 DEF IsTold
<1>9. ASSUME NEW x \in Client
      PROVE  /\ Own(x)' /\ (Has(down'[x], {"error"}) => Has(down[x], {"error"}))
             /\ (Has(down'[x], {"peer-joined"}) => Has(down[x], {"peer-joined"}))
  <2>1. \E q \in Seq(Message) : /\ down'[x] = down[x] \o q /\ Q(q) \subseteq {ice, m}
                                /\ After(q, {"pair-accept"}, {"ice-config"}) \/ x = Receiver
    <3>1. CASE x = session
      BY <1>7, <1>8, <3>1
    <3>2. CASE x = Receiver
      BY <1>7, <1>8, <3>2
    <3>3. CASE x \notin {session, Receiver}
      <4>1. After(<<>>, {"pair-accept"}, {"ice-config"})
        BY NoMessage, AfterNone DEF Has
      <4> QED
        BY <1>8, <3>3, <4>1, NoMessage
    <3> QED
      BY <3>1, <3>2, <3>3
  <2>2. PICK q \in Seq(Message) : /\ down'[x] = down[x] \o q /\ Q(q) \subseteq {ice, m}
                                  /\ After(q, {"pair-accept"}, {"ice-config"}) \/ x = Receiver
    BY <2>1
  <2>3. \A n \in Q(q) : n.type \in {"ice-config", "pair-accept"}
    BY <1>2, <1>6, <2>2
  <2>4. ~Has(q, Departures) /\ ~Has(q, {"peer-joined"}) /\ ~Has(q, {"error"})
    BY <2>3 DEF Has, Departures
  <2>5. Attached(x)'
    BY <1>2, <1>5, <2>2, <2>4, StaysAttached
  <2>6. After(q, Departures, {"ice-config"}) /\ After(q, Departures, Answers)
    BY <2>4, AfterNone
  <2>7. Own(x)'
    BY <1>4, <1>5, <2>2, <2>3, <2>5, <2>6, ToldOwn
  <2>8. down[x] \in Seq(Message)
    BY <1>1 DEF Types
  <2> QED
    BY <2>2, <2>4, <2>7, <2>8, HasEnds
<1>10. /\ ~Has(down'[Receiver], {"error"})
       /\ \A s \in Sender : /\ Has(down'[s], {"error"}) => Has(down[s], {"error"})
                            /\ Has(down'[s], {"peer-joined"}) => Has(down[s], {"peer-joined"})
  BY <1>1, <1>9, Clients DEF Welcome
<1>11. Registering'
  BY <1>1, <1>3, <1>4, <1>5 DEF Registering, Rests, Has
<1>12. Decided' /\ \A y \in Client : <<y, "pair-reject">> \notin seen'
  BY <1>1, <1>2 DEF Decided, Opening
<1>13. Verdict'
  <2>1. down[session] \in Seq(Message) /\ down[Receiver] \in Seq(Message)
    BY <1>1, <1>3 DEF Types
  <2>2. Has(a, {"pair-accept"}) /\ Has(b, {"ice-config"})
    BY <1>2, <1>6, <1>7 DEF Has
  <2>3. Has(down'[session], {"pair-accept"}) /\ Has(down'[Receiver], {"ice-config"})
    BY <1>7, <1>8, <2>1, <2>2, HasEnds
  <2> QED
    BY <1>2, <1>4, <1>5, <1>12, <2>3 DEF Verdict, Rests
<1>14. session' # None => /\ session' \notin cut' /\ Receiver \notin cut'
                          /\ stage[session'] # "start" /\ ~Has(up'[session'], {"connect"})
  BY <1>1, <1>2, <1>3, <1>5 DEF Opening, Rests, Has
<1> QED
  BY <1>1, <1>2, <1>4, <1>5, <1>9, <1>10, <1>11, <1>12, <1>13, <1>14, ServerCalm DEF Opening

\* A session in which everything is said ends, and the server closes both sides: the one
\* that is over hears nothing, and the other hears it in time.
LEMMA ClosingCalm ==
  ASSUME Calm, NEW c \in Client, NEW x \in Client, x # c, NEW a \in Seq(Message), NEW b \in Seq(Message),
         up[c] # <<>>, Served(c), Serves, TellsBoth(x, a, c, b), session # None, {c, x} = {session, Receiver},
         session' = None, seen' = {}, waiting' = waiting, cut' = cut \cup {session, Receiver},
         stage[c] = "over", stage[Receiver] \in {"ice", "paired", "over"},
         \A n \in Q(a) : n.type \notin {"confirm", "ice-config", "peer-joined", "error", "pair-accept"},
         IF x = Receiver THEN stage[x] = "ice" => Has(down[x], {"ice-config"})
         ELSE stage[x] \in {"paired", "over"} \/ Has(down[x], Answers) \/ After(a, Departures, Answers)
  PROVE  Serene'
<1>1. /\ Registering /\ Opening /\ Welcome /\ Types
  BY DEF Calm, Serene, IInv
<1>2. Rests
  BY HandlerRests
<1>3. PICK t \in Seq(Message) : IsTold(x, a, t)
  BY <1>1, TwoTold
<1>4. PICK u \in Seq(Message) : IsTold(c, b, u)
  BY <1>1, TwoTold
<1>5. \A z \in Client \ {x, c} : down'[z] = down[z] \o <<>>
  BY <1>1, TwoTold
<1>6. /\ down'[x] = down[x] \o t /\ (t = a \/ t = <<>>) /\ (stage[x] = "over" => t = <<>>)
      /\ down'[c] = down[c] \o <<>>
  BY <1>3, <1>4 DEF IsTold
<1>7. \A types, firsts : After(<<>>, types, firsts) /\ ~Has(<<>>, types)
  BY NoMessage, AfterNone DEF Has
<1>8. ASSUME NEW y \in Client
      PROVE  \E q \in Seq(Message) :
               /\ down'[y] = down[y] \o q /\ (q = <<>> \/ (q = t /\ t = a /\ y = x))
  BY <1>5, <1>6, NoMessage
<1>9. ASSUME NEW y \in Client
      PROVE  /\ Own(y)' /\ (Has(down'[y], {"error"}) => Has(down[y], {"error"}))
             /\ (Has(down'[y], {"peer-joined"}) => Has(down[y], {"peer-joined"}))
  <2>1. PICK q \in Seq(Message) : down'[y] = down[y] \o q /\ (q = <<>> \/ (q = t /\ t = a /\ y = x))
    BY <1>8
  <2>2. \A n \in Q(q) : n.type \notin {"confirm", "ice-config", "peer-joined", "error", "pair-accept"}
    BY <2>1, NoMessage
  <2>3. ~Has(q, {"ice-config"}) /\ ~Has(q, {"peer-joined"}) /\ ~Has(q, {"error"}) /\ ~Has(q, {"pair-accept"})
    BY <2>2 DEF Has
  <2>4. Attached(y)'
    BY <1>2, <2>1, <2>3, NoneAttached
  <2>5. After(q, {"pair-accept"}, {"ice-config"})
    BY <2>3, AfterNone
  <2>6. Own(y)'
    <3>1. CASE q = <<>>
      BY <1>2, <1>7, <2>1, <2>2, <2>3, <2>4, <3>1, ToldOwn
    <3>2. CASE q # <<>>
      <4>1. y = x /\ q = a /\ stage[x] # "over"
        BY <1>6, <2>1, <3>2
      <4>2. IF x = Receiver
            THEN stage[x] # "paired" => After(q, Departures, {"ice-config"}) \/ Has(down[x], {"ice-config"})
            ELSE stage[x] # "paired" => After(q, Departures, Answers) \/ Has(down[x], Answers)
        BY <4>1
      <4> QED
        BY <1>2, <2>1, <2>2, <2>3, <2>4, <2>5, <4>1, <4>2, ToldOwn
    <3> QED
      BY <3>1, <3>2
  <2>7. down[y] \in Seq(Message)
    BY <1>1 DEF Types
  <2> QED
    BY <2>1, <2>3, <2>6, <2>7, HasEnds
<1>10. /\ ~Has(down'[Receiver], {"error"})
       /\ \A s \in Sender : /\ Has(down'[s], {"error"}) => Has(down[s], {"error"})
                            /\ Has(down'[s], {"peer-joined"}) => Has(down[s], {"peer-joined"})
  BY <1>1, <1>9, Clients DEF Welcome
<1>11. Registering'
  BY <1>1, <1>2, Clients DEF Registering, Rests, Has
<1>12. Verdict'
  BY DEF Verdict
<1> QED
  BY <1>1, <1>2, <1>9, <1>10, <1>11, <1>12, ServerCalm DEF Opening

\* The receiver's refusal is relayed, and ends the session.
LEMMA RelayRejectCalm ==
  ASSUME Calm, NEW c \in Client, RelayReject(c)
  PROVE  Serene'
<1> DEFINE m == Head(up[c])
           a == <<m, Close>>
           b == <<Close>>
<1>1. \A x \in Client : Parting(x)
  BY DEF Calm, Serene, Own
<1>2. /\ up[c] # <<>> /\ m.type = "pair-reject" /\ Served(c) /\ waiting' = waiting
      /\ TellsBoth(session, a, Receiver, b) /\ session' = None /\ seen' = {}
      /\ cut' = cut \cup {session, Receiver}
  BY DEF RelayReject, Arrives, ReplyBoth, TellsBoth
<1>3. /\ m \in Q(up[c]) /\ m \in Message /\ session \in Client /\ session # None /\ session # Receiver
      /\ c = Receiver
  <2>1. Arrives(c, RelayType)
    BY <1>2 DEF Arrives, RelayType
  <2>2. c = Receiver
    BY <1>2, <2>1, RelayInSession DEF RelayAllowed
  <2> QED
    BY <2>1, <2>2, RelayInSession, Clients
<1>4. stage[Receiver] = "over"
  BY <1>1, <1>2, <1>3 DEF Parting, Has
<1>5. Serves
  BY DecisionServes DEF Calm
<1>6. /\ a \in Seq(Message) /\ Q(a) = {m, Close} /\ b \in Seq(Message)
      /\ After(a, Departures, Answers)
  BY <1>2, <1>3, Partings, OneMessage, TwoMessages, PairAfter DEF Departures, Answers
<1>7. \A n \in Q(a) : n.type \notin {"confirm", "ice-config", "peer-joined", "error", "pair-accept"}
  BY <1>2, <1>6, Partings
<1> HIDE DEF m, a, b
<1> QED
  BY <1>2, <1>3, <1>4, <1>5, <1>6, <1>7, ClosingCalm

\* A member leaves a session that is decided; the other one is told and closed.
LEMMA ByeEndsCalm ==
  ASSUME Calm, NEW c \in Client, Bye(c), session # None, c \in {session, Receiver}
  PROVE  Serene'
<1> DEFINE x == Target(c)
           gone == Msg("peer-left", session, None)
           a == <<gone, Close>>
           b == <<Close>>
<1>1. Parting(c) /\ Verdict /\ session \in Sender
  BY DEF Calm, Serene, Own, IInv, Types
<1>2. up[c] # <<>> /\ Head(up[c]).type \in Goodbyes /\ Served(c)
  BY DEF Bye, Arrives, Goodbyes
<1>3. Head(up[c]) \in Q(up[c]) /\ up[c] \in Seq(Message)
  BY <1>2, TakenUp
<1>4. stage[c] = "over"
  BY <1>1, <1>2, <1>3 DEF Parting, Has
<1>5. Decided
  <2>1. SUFFICES ASSUME ~Decided
                 PROVE  FALSE
    OBVIOUS
  <2>2. c = Receiver /\ After(up[c], Goodbyes, {"pair-reject"})
    BY <1>1, <1>4, <2>1 DEF Verdict
  <2> QED
    BY <1>2, <1>3, <2>2, AfterHead
<1>6. EndSession(c)
  BY <1>5 DEF Bye, CleanupPeer
<1>7. x \in Client /\ x # c /\ {c, x} = {session, Receiver} /\ session # Receiver
  BY <1>1, Clients DEF Target
<1>8. /\ TellsBoth(x, a, c, b) /\ session' = None /\ seen' = {} /\ waiting' = waiting
      /\ cut' = cut \cup {session, Receiver}
  BY <1>6, <1>7 DEF EndSession, TellsBoth, Target
<1>9. gone \in Message /\ gone.type = "peer-left"
  BY <1>1 DEF Msg, Message, MsgType, Key
<1>10. /\ a \in Seq(Message) /\ Q(a) = {gone, Close} /\ b \in Seq(Message)
  BY <1>9, Partings, OneMessage, TwoMessages
<1>11. \A n \in Q(a) : n.type \notin {"confirm", "ice-config", "peer-joined", "error", "pair-accept"}
  BY <1>9, <1>10, Partings
<1>12. Serves
  BY CleanupServes DEF Calm
<1>13. /\ stage[Receiver] \in {"ice", "paired", "over"}
       /\ IF x = Receiver THEN stage[x] = "ice" => Has(down[x], {"ice-config"})
          ELSE stage[x] \in {"paired", "over"} \/ Has(down[x], Answers)
  BY <1>1, <1>5, <1>7 DEF Verdict, Has, Answers
<1> HIDE DEF x, gone, a, b
<1> QED
  BY <1>2, <1>4, <1>7, <1>8, <1>10, <1>11, <1>12, <1>13, ClosingCalm

\* Someone leaves who is in no session.
LEMMA ByeAloneCalm ==
  ASSUME Calm, NEW c \in Client, Bye(c), session = None \/ c \notin {session, Receiver}
  PROVE  Serene'
<1> DEFINE a == <<Close>>
<1>1. /\ Registering /\ Opening /\ Welcome /\ Types /\ CutEmpty /\ Parting(c) /\ Receiver \in Client
      /\ session \in Sender \cup {None}
  BY Clients DEF Calm, Serene, IInv, Own, Phases, Types
<1>2. /\ up[c] # <<>> /\ Head(up[c]).type \in Goodbyes /\ Served(c)
      /\ waiting' = (waiting /\ c # Receiver) /\ Reply(c, a) /\ cut' = cut \cup {c}
      /\ session' = session /\ seen' = seen
  <2>1. CleanupPeer(c) /\ Arrives(c, {"bye", "close"}) /\ Served(c)
    BY DEF Bye
  <2> QED
    BY <2>1, Clients DEF CleanupPeer, Arrives, Goodbyes
<1>3. Head(up[c]) \in Q(up[c])
  BY <1>2, TakenUp
<1>4. stage[c] = "over"
  BY <1>1, <1>2, <1>3 DEF Parting, Has
<1>5. Rests
  BY <1>2, CleanupServes, HandlerRests DEF Calm
<1>6. a \in Seq(Message)
  BY Partings, OneMessage
<1> HIDE DEF a
<1>7. \A z \in Client : down'[z] = down[z] \o <<>>
  BY <1>1, <1>2, <1>4, <1>6, OneTold
<1>8. \A z \in Client : down'[z] = down[z]
  BY <1>1, <1>7, ConcatEmptySeq DEF Types
<1>9. \A y \in Client : Own(y)'
  BY <1>2, <1>5, <1>7, NoMessage, UntoldOwn
<1>10. c # Receiver => up'[Receiver] = up[Receiver]
  BY <1>1, <1>2, TakenUp DEF CutEmpty
<1>11. Registering'
  <2>1. CASE c = Receiver
    BY <1>1, <1>2, <1>4, <1>5, <2>1 DEF Registering, Rests, Has
  <2>2. CASE c # Receiver
    BY <1>1, <1>2, <1>5, <1>8, <1>10, <2>2 DEF Registering, Rests
  <2> QED
    BY <2>1, <2>2
<1>12. session' # None => /\ session' \notin cut' /\ Receiver \notin cut'
                          /\ stage[session'] # "start" /\ ~Has(up'[session'], {"connect"})
  BY <1>1, <1>2, <1>5, Clients DEF Opening, Rests, Has
<1>13. Verdict'
  <2>1. ASSUME NEW y \in Client
        PROVE  \E q \in Seq(Message) : down'[y] = down[y] \o q /\ ~Has(q, {"ice-config"})
    BY <1>7, NoMessage DEF Has
  <2> QED
    BY <1>2, <1>5, <1>12, <2>1, VerdictStays DEF Decided
<1> QED
  BY <1>1, <1>2, <1>4, <1>5, <1>8, <1>9, <1>11, <1>12, <1>13, Clients, ServerCalm DEF Opening, Welcome

\* Every step of the server keeps the calm.
LEMMA ServeCalm ==
  ASSUME Calm, NEW c \in Client, Serve(c)
  PROVE  Serene'
<1>1. ~RelayNoSession(c)
  BY RelayInSession DEF RelayNoSession
<1>2. ~Retry(c)
  <2>1. SUFFICES ASSUME Retry(c)
                 PROVE  FALSE
    OBVIOUS
  <2>2. up[c] # <<>> /\ Head(up[c]).type = "retry" /\ Served(c)
    BY <2>1 DEF Retry, Arrives
  <2>3. Head(up[c]) \in Q(up[c])
    BY <2>2, TakenUp
  <2> QED
    BY <2>2, <2>3 DEF Calm, Serene, Own, Parting, Has
<1> QED
  BY <1>1, <1>2, FairNever, RegisterCalm, ConnectCalm, NotFoundCalm, RelayCalm, RelayAcceptCalm,
     RelayRejectCalm, ByeEndsCalm, ByeAloneCalm DEF Serve

-----------------------------------------------------------------------------
(* The calm lasts *)

\* The calm holds at the start.
LEMMA CalmInitial ==
  ASSUME Init
  PROVE  Fair => Serene
<1>1. /\ \A c \in Client : /\ up[c] = <<>> /\ down[c] = <<>> /\ sid[c] = None /\ stage[c] = "start"
                           /\ settled[c] = "no" /\ outcome[c] = "none"
      /\ shut = {} /\ cached = {} /\ cut = {} /\ accepted = {} /\ session = None /\ ~waiting /\ seen = {}
  BY DEF Init
<1>2. \A types, firsts : ~Has(<<>>, types) /\ After(<<>>, types, firsts)
  BY NoMessage, AfterNone DEF Has
<1>3. \A c \in Client : Own(c)
  <2>1. ASSUME NEW c \in Client
        PROVE  Unharmed(c) /\ Parting(c) /\ Attached(c)
    BY <1>1, <1>2, NoMessage DEF Unharmed, Parting, Attached
  <2>2. ASSUME NEW c \in Client
        PROVE  Timely(c) /\ Sharing(c)
    BY <1>1, <1>2, NoMessage DEF Timely, Sharing, Keyed
  <2> QED
    BY <2>1, <2>2 DEF Own
<1>4. \A s \in Sender : ~Turned(s)
  BY <1>1, <1>2, Clients DEF Turned
<1>5. Welcome /\ Registering /\ Opening /\ Verdict
  BY <1>1, <1>2, Clients DEF Welcome, Registering, Opening, Verdict
<1>6. outcome \in [Client -> Outcome]
  BY DEF Init, Outcome
<1> QED
  BY <1>3, <1>4, <1>5, <1>6 DEF Serene

\* A stuttering step keeps it.
LEMMA CalmStutter ==
  ASSUME Serene, UNCHANGED vars
  PROVE  Serene'
<1>1. UNCHANGED <<stage, sid, key, settled, shut, cached, outcome, accepted, up, down, waiting, session, seen, cut>>
  BY DEF vars, setting, counters, held, server
<1>2. ASSUME NEW c \in Client
      PROVE  Own(c)'
  <2>1. Unharmed(c) /\ Parting(c) /\ Attached(c) /\ Timely(c) /\ Sharing(c)
    BY DEF Serene, Own
  <2>2. Unharmed(c)' /\ Parting(c)' /\ Attached(c)'
    BY <1>1, <2>1 DEF Unharmed, Parting, Attached
  <2>3. Timely(c)' /\ Sharing(c)'
    BY <1>1, <2>1 DEF Timely, Sharing
  <2> QED
    BY <2>2, <2>3 DEF Own
<1> QED
  BY <1>1, <1>2 DEF Serene, Turned, Stranger, Unmet, Welcome, Registering, Opening, Verdict, Decided

\* What may go wrong, and who has the words, is settled at the start.
LEMMA FairStays ==
  ASSUME [Next]_vars
  PROVE  Fair' => Fair
<1>1. CASE UNCHANGED vars
  BY <1>1 DEF vars, setting, Fair
<1>2. ASSUME UNCHANGED setting
      PROVE  Fair' => Fair
  BY <1>2 DEF setting, Fair
<1>3. ASSUME NEW c, Served(c)
      PROVE  UNCHANGED setting
  BY <1>3 DEF Served
<1>4. ASSUME ClientOnly
      PROVE  UNCHANGED setting
  BY <1>4 DEF ClientOnly
<1>5. ASSUME NEW c \in Client, Command(c)
      PROVE  ClientOnly
  BY <1>5 DEF Command, Lose, Crash, Joined, PeerShare, SendConfirm, Settle, Confirmed, KeysFail, Refuse, Fail,
     Vanish, IceConfig, WaitFails, WaitRefused, SeesClose, Finish
<1>6. Recv => ClientOnly
  BY <1>5, Clients DEF Recv, StartReceiver, RegisterAgain, Registered, Rekey, Requests, Rerequest, GiveUpRequest,
     Accept, Decline
<1>7. ASSUME NEW c \in Sender, SendCommand(c)
      PROVE  ClientOnly
  BY <1>5, <1>7, Clients DEF SendCommand, StartSender, PairRequest, Accepted, Rejected
<1>8. ASSUME NEW c \in Client, Serve(c)
      PROVE  Served(c)
  BY <1>8 DEF Serve, Register, RegisterTaken, Connect, ConnectNotFound, RelayNoSession, Relay, RelayAccept,
     RelayReject, RelayTurnLimited, Retry, Bye
<1>9. ASSUME NEW c \in Client,
             PlanFails(c) \/ Unreachable(c) \/ Timeout(c) \/ Interrupt(c) \/ ClosePage(c)
      PROVE  ClientOnly
  BY <1>9 DEF PlanFails, Unreachable, NeverConnects, Timeout, Fail, GiveUpRequest, Interrupt, ClosePage, Vanish
<1>10. ExpireCode \/ ExpireRestore \/ ExpireSession => Served(None)
  BY DEF ExpireCode, ExpireRestore, ExpireSession
<1> QED
  BY <1>1, <1>2, <1>3, <1>4, <1>6, <1>7, <1>8, <1>9, <1>10 DEF Next

\* The calm is inductive, beside the other two invariants.
LEMMA CalmInductive ==
  ASSUME IInv, IInv', Phases, Fair => Serene, [Next]_vars
  PROVE  Fair' => Serene'
<1>1. SUFFICES ASSUME Fair'
               PROVE  Serene'
  OBVIOUS
<1>2. Calm
  BY <1>1, FairStays DEF Calm
<1>3. CASE UNCHANGED vars
  BY <1>2, <1>3, CalmStutter DEF Calm
<1>4. ASSUME NEW c \in Client
      PROVE  ~(PlanFails(c) \/ Unreachable(c) \/ Timeout(c) \/ Interrupt(c) \/ ClosePage(c))
  BY <1>2, FairNever
<1>5. ~(ExpireCode \/ ExpireRestore \/ ExpireSession)
  BY <1>2, FairNever, Clients
<1> QED
  BY <1>2, <1>3, <1>4, <1>5, ClientsCalm, ServeCalm DEF Next

-----------------------------------------------------------------------------
(* Theorems *)

\* establishKeys, verifySessionConfirmTag and the sealed request and decision: whatever
\* the server expires or refuses, whoever retries and whoever does not know the words,
\* both sides of a session hold the shared key before one asks, and what a client is
\* asked or answered in its session is under its own key.
THEOREM KeysAlwaysAgree == Spec => []KeysAgree
<1>1. ASSUME IInv
      PROVE  KeysAgree
  <2>1. stage[Receiver] \in {"request", "deciding", "ice", "paired"} =>
          sid[Receiver] \in knows /\ key[Receiver] = <<sid[Receiver], "shared">>
    BY <1>1, Clients DEF IInv, Local, Keyed, Proven
  <2>2. ASSUME NEW s \in Sender, stage[s] \in {"sealing", "awaiting", "ice", "paired"}
        PROVE  s \in knows /\ key[s] = <<s, "shared">>
    BY <1>1, <2>2, Clients DEF IInv, Local, Keyed, Proven
  <2>3. ASSUME NEW c \in Client, NEW i \in DOMAIN down[c],
               down[c][i].type \in {"pair-request", "pair-accept", "pair-reject"},
               down[c][i].sid = sid[c]
        PROVE  down[c][i].body = key[c]
    <3> DEFINE m == down[c][i]
    <3>1. m \in Q(down[c])
      BY DEF Q
    <3>2. /\ m.sid \in Sender /\ c \in {m.sid, Receiver}
          /\ Sound(IF c = Receiver THEN m.sid ELSE Receiver, m)
      BY <1>1, <2>3, <3>1 DEF IInv, DownSound, RelayType
    <3>3. m.body = <<m.sid, "shared">>
      BY <2>3, <3>2 DEF Sound, Answers
    <3>4. CASE c = Receiver
      <4>1. m.type = "pair-request"
        BY <2>3, <3>2, <3>4, Clients DEF Sound, Answers
      <4>2. Carries(down[Receiver], {"pair-request"}, m.sid)
        BY <3>1, <3>4, <4>1 DEF Carries
      <4> QED
        BY <1>1, <2>3, <3>2, <3>3, <3>4, <4>2 DEF IInv, Bound, Confident
    <3>5. CASE c # Receiver
      <4>1. m.sid = c /\ m.type \in Answers
        BY <2>3, <3>2, <3>5 DEF Sound, Answers
      <4>2. Carries(down[c], Answers, c)
        BY <3>1, <4>1 DEF Carries
      <4>3. stage[c] \in {"awaiting", "ice", "paired", "over"} /\ Local(c) /\ sid[c] = c
        BY <1>1, <2>3, <3>2, <4>1, <4>2 DEF IInv, Waited, Asked
      <4>4. stage[c] \in Proven
        BY <4>3, Clients DEF Local, Keyed, Proven
      <4> QED
        BY <3>3, <4>1, <4>3, <4>4 DEF Local
    <3> QED
      BY <3>4, <3>5
  <2> QED
    BY <2>1, <2>2, <2>3 DEF KeysAgree
<1> QED
  BY <1>1, AlwaysIInv, PTL

\* waitForPairAccept and the receiver's one decision: a sender goes on to WebRTC only
\* when the receiver's user accepted the request of that very session, and one receive
\* accepts at most one sender, however many tried and in whatever order.
THEOREM AcceptedAtMostOnce == Spec => []AcceptedOnce
<1>1. ASSUME IInv
      PROVE  AcceptedOnce
  <2>1. \A s \in Sender : stage[s] \in {"ice", "paired"} => s \in accepted
    BY <1>1 DEF IInv, DecidedOnce
  <2>2. Cardinality(accepted) <= 1
    <3>1. CASE accepted = {}
      BY <3>1, FS_EmptySet
    <3>2. CASE accepted # {}
      <4>1. PICK s : s \in accepted
        BY <3>2
      <4>2. accepted = {s}
        BY <1>1, <4>1 DEF IInv, DecidedOnce
      <4>3. Cardinality({s}) = 1
        BY FS_Singleton
      <4> QED
        BY <4>2, <4>3
    <3> QED
      BY <3>1, <3>2
  <2> QED
    BY <2>1, <2>2 DEF AcceptedOnce
<1> QED
  BY <1>1, AlwaysIInv, PTL

\* relayAllowedForPhase: whatever is lost, expires or is retried, the clients of the two
\* programs never send in a live session what its phase flags refuse.  rejectRelayMessage is
\* not reached from there, so the specification loses nothing by leaving it out.
THEOREM PhasesAlwaysRespected == Spec => []PhasesRespected
<1>1. Init => Phases
  BY PhasesInitial
<1>2. IInv /\ IInv' /\ Phases /\ [Next]_vars => Phases'
  BY PhasesInductive
<1>3. IInv /\ Phases => PhasesRespected
  BY PhasesAllow
<1> QED
  BY <1>1, <1>2, <1>3, AlwaysIInv, PTL DEF Spec

\* The whole of recv and send against handleMessage: when nothing is interrupted, expires
\* or is refused and every sender has the words, no command fails, however the clients, the
\* server and the messages between them take turns: what a wait needs always comes before
\* the other side's leaving.  Only a sender that finds no waiting code is turned away, never
\* the receiver and never the sender it accepts.
THEOREM PairingSucceeds == Spec => []NoSpuriousFailure
<1>1. Init => (Fair => Serene)
  BY CalmInitial
<1>2. IInv /\ IInv' /\ Phases /\ (Fair => Serene) /\ [Next]_vars => (Fair => Serene)'
  BY CalmInductive
<1>3. IInv /\ (Fair => Serene) => NoSpuriousFailure
  <2>1. SUFFICES ASSUME IInv, Serene
                 PROVE  /\ \A c \in Client : outcome[c] # "failed"
                        /\ \A c \in accepted \cup {Receiver} : outcome[c] \notin {"crashed", "refused"}
    BY DEF NoSpuriousFailure, Fair
  <2>2. \A c \in Client : outcome[c] # "failed"
    BY <2>1 DEF Serene, Own, Unharmed
  <2>3. \A s \in accepted : outcome[s] \notin {"crashed", "refused"}
    BY <2>1 DEF Serene, Turned, Stranger, IInv, Types
  <2> QED
    BY <2>1, <2>2, <2>3 DEF Serene, Welcome
<1>4. Init => Phases
  BY PhasesInitial
<1>5. IInv /\ IInv' /\ Phases /\ [Next]_vars => Phases'
  BY PhasesInductive
<1> QED
  BY <1>1, <1>2, <1>3, <1>4, <1>5, AlwaysIInv, PTL DEF Spec
=============================================================================
