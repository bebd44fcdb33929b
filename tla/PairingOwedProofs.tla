-------------------------- MODULE PairingOwedProofs --------------------------
(***************************************************************************)
(* Whatever faults there are, nobody waits for a message that will not     *)
(* come, until a command has lost messages that came in one read.  `Owed'  *)
(* says of every wait what it still gets: the message, or what it follows  *)
(* from, is on its way, or somebody who is not waiting has yet to send it, *)
(* or else an error, the other side's leaving or the close of the socket   *)
(* comes instead.  It holds while `missed' is empty, and rests on the      *)
(* invariants IInv and Phases of PairingProofs.                            *)
(***************************************************************************)
EXTENDS PairingProofs

-----------------------------------------------------------------------------
(* What is still owed *)

\* In a queue the messages of some types of a session come only after one of certain others.
Behind(q, types, firsts, s) ==
  \A i \in DOMAIN q : q[i].type \in types /\ q[i].sid = s =>
    \E j \in DOMAIN q : j < i /\ q[j].type \in firsts /\ (q[j].type = "peer-joined" => q[j].sid = s)

\* After a retry the receiver speaks in the session it has joined since.
Resumes(q, s) ==
  \A i \in DOMAIN q : q[i].type = "retry" => \E j \in DOMAIN q : i < j /\ Of(q[j], s)

\* A register is the first thing that is sent.
RegistersFirst(q) == \A i \in DOMAIN q : q[i].type = "register" => i = 1

\* A client the server has closed learns it, and only such a client.
Closing(c) ==
  /\ c \in cut => stage[c] # "start" /\ (stage[c] = "over" \/ c \in shut \/ Has(down[c], {"close"}))
  /\ c \in shut \/ Has(down[c], {"close"}) => c \in cut
  /\ c \in shut => stage[c] \in {"deriving", "sealing", "deciding", "paired"}
  /\ settled[c] # "no" => stage[c] \in {"share", "deriving", "confirming"}

\* A client that has left says so, if the server knows it or will.
Known(c) ==
  IF c = Receiver THEN session # None \/ waiting \/ Has(up[c], {"register"})
  ELSE session = c \/ Has(up[c], {"connect"})

Leaving(c) == stage[c] = "over" /\ c \notin cut /\ Known(c) => Has(up[c], Goodbyes)

\* The code and the session are those of clients that are still connected.
Hosting ==
  /\ waiting => session = None /\ Receiver \notin cut
  /\ session # None => session \notin cut /\ Receiver \notin cut /\ stage[session] # "start"
  /\ stage[Receiver] = "start" \/ Has(up[Receiver], {"register"}) => session = None /\ ~waiting
  /\ stage[Receiver] = "start" => up[Receiver] = <<>> /\ down[Receiver] = <<>>
  /\ RegistersFirst(up[Receiver])
  /\ stage[Receiver] = "registering" => \A m \in Q(up[Receiver]) : m.type = "register"
  /\ \A s \in Sender : ~Has(up[s], {"register", "retry"})
  /\ stage[Receiver] \notin {"sealing", "awaiting"}
  /\ Receiver \notin cut /\ stage[Receiver] = "registering" =>
       /\ Has(up[Receiver], {"register"}) => down[Receiver] = <<>>
       /\ Has(down[Receiver], {"error"}) =>
            session = None /\ ~waiting /\ up[Receiver] = <<>> /\ Tail(down[Receiver]) = <<>>
       /\ Has(up[Receiver], {"register"}) \/ Has(down[Receiver], {"registered", "error"})

\* A sender that connects gets an answer, and its session lives as long as its connection.
Meeting(s) ==
  /\ s \notin cut =>
       /\ stage[s] = "joining" => Has(up[s], {"connect"}) \/ Has(down[s], {"peer-joined", "error"})
       /\ sid[s] # None \/ Has(down[s], {"peer-joined"}) => session = s
  /\ session = s /\ stage[s] = "joining" => Has(down[s], {"peer-joined"})
  /\ stage[s] = "joining" => Behind(down[s], RelayType, {"peer-joined"}, s)
  /\ session = s /\ stage[s] = "awaiting" => Said(s, "pair-request")
  /\ stage[s] \in Stage \ {"registering", "rekeying", "rerequesting", "request", "deciding", "ice"}
  /\ s \notin cached \cup shut /\ stage[s] # "paired" =>
       Behind(down[s], {"pair-accept"}, {"ice-config"}, s)

\* The receiver in a session that is gone hears of it, or will speak in it.
Adrift ==
  \/ Carries(up[Receiver], RelayType, sid[Receiver]) \/ Has(down[Receiver], {"error"})
  \/ stage[Receiver] \in OfSession /\ Carries(down[Receiver], {"peer-left"}, sid[Receiver])
  \/ settled[Receiver] \notin {"no", "good"} \/ stage[Receiver] \in {"deriving", "deciding", "paired"}

Returning ==
  Receiver \notin cut =>
    /\ stage[Receiver] \in {"rekeying", "rerequesting"} =>
         Has(up[Receiver], {"retry"}) \/ Has(down[Receiver], {"registered"})
    /\ stage[Receiver] = "ice" =>
         Has(up[Receiver], {"pair-accept"}) \/ Has(down[Receiver], {"ice-config", "error"})
    /\ sid[Receiver] # None => Resumes(up[Receiver], sid[Receiver])
    /\ sid[Receiver] \notin {None, session} => Adrift

\* The receiver is about to join the server's session.
Early == {"registering", "rekeying", "rerequesting"}
Free == stage[Receiver] \in Early \cup {"joining"} /\ ~Has(up[Receiver], {"retry"})

Awaited ==
  session # None =>
    /\ Free => /\ Carries(down[Receiver], {"peer-joined"}, session)
               /\ stage[Receiver] \in Early => Behind(down[Receiver], {"peer-joined"}, {"registered"}, session)
    /\ Carries(down[Receiver], {"peer-joined"}, session) =>
         Behind(down[Receiver], RelayType, {"peer-joined"}, session)

\* What was relayed to a member is on its way or was read.
Reads(d) ==
  /\ stage[d] # "over"
  /\ d = Receiver => sid[d] = session \/ Carries(down[d], {"peer-joined"}, session)

\* ... as its reader's stage tells.
Past(d, t) ==
  /\ sid[d] = session
  /\ \/ t = "pake" /\ stage[d] # "share"
     \/ t = "confirm" /\ (settled[d] # "no" \/ stage[d] \in Proven)
     \/ t = "pair-request" /\ stage[d] \in Deciding

Turns == {"pake", "confirm", "pair-request"}

Delivered(d) ==
  /\ Rising(down[d], session)
  /\ Reads(d) => \A t \in Turns :
       <<Target(d), t>> \in seen => Carries(down[d], {t}, session) \/ Past(d, t)

Owed ==
  /\ \A c \in Client : Closing(c) /\ Leaving(c)
  /\ \A s \in Sender : Meeting(s)
  /\ Hosting /\ Returning /\ Awaited
  /\ session # None => Delivered(session) /\ Delivered(Receiver)
  /\ session # None /\ sid[Receiver] = session /\ stage[Receiver] = "ice" =>
       Said(Receiver, "pair-accept")

\* What comes behind stays behind, until what it waits for is taken.
LEMMA BehindRest ==
  ASSUME NEW q \in Seq(Message), q # <<>>, NEW types, NEW firsts, NEW s, Behind(q, types, firsts, s)
  PROVE  /\ ~(Head(q).type \in types /\ Head(q).sid = s)
         /\ ~(Head(q).type \in firsts /\ (Head(q).type = "peer-joined" => Head(q).sid = s)) =>
              Behind(Tail(q), types, firsts, s)
<1>1. /\ Len(q) \in Nat \ {0} /\ DOMAIN q = 1 .. Len(q) /\ Head(q) = q[1]
      /\ Tail(q) \in Seq(Message) /\ Len(Tail(q)) = Len(q) - 1
      /\ \A i \in 1 .. Len(Tail(q)) : Tail(q)[i] = q[i + 1]
  BY EmptySeq, LenProperties, HeadTailProperties
<1>2. DOMAIN Tail(q) = 1 .. Len(q) - 1
  BY <1>1, LenProperties
<1>3. ~(Head(q).type \in types /\ Head(q).sid = s)
  BY <1>1 DEF Behind
<1>4. ASSUME ~(Head(q).type \in firsts /\ (Head(q).type = "peer-joined" => Head(q).sid = s)),
             NEW i \in DOMAIN Tail(q), Tail(q)[i].type \in types, Tail(q)[i].sid = s
      PROVE  \E j \in DOMAIN Tail(q) :
               j < i /\ Tail(q)[j].type \in firsts /\ (Tail(q)[j].type = "peer-joined" => Tail(q)[j].sid = s)
  <2>1. i \in Nat /\ i + 1 \in DOMAIN q /\ Tail(q)[i] = q[i + 1]
    BY <1>1, <1>2
  <2>2. PICK j \in DOMAIN q : j < i + 1 /\ q[j].type \in firsts /\ (q[j].type = "peer-joined" => q[j].sid = s)
    BY <1>4, <2>1 DEF Behind
  <2>3. j # 1
    BY <1>1, <1>4, <2>2
  <2>4. j - 1 \in DOMAIN Tail(q) /\ j - 1 < i /\ Tail(q)[j - 1] = q[j]
    BY <1>1, <1>2, <2>1, <2>2, <2>3
  <2> QED
    BY <2>2, <2>4
<1> QED
  BY <1>3, <1>4 DEF Behind

\* A queue may get what has what it waits for before it, there or on the way.
LEMMA BehindJoin ==
  ASSUME NEW q \in Seq(Message), NEW r \in Seq(Message), NEW types, NEW firsts, NEW s,
         Behind(q, types, firsts, s),
         Behind(r, types, firsts, s) \/ \E m \in Q(q) : m.type \in firsts /\ (m.type = "peer-joined" => m.sid = s)
  PROVE  Behind(q \o r, types, firsts, s)
<1>1. /\ q \o r \in Seq(Message) /\ Len(q \o r) = Len(q) + Len(r)
      /\ \A i \in 1 .. Len(q) + Len(r) : (q \o r)[i] = IF i <= Len(q) THEN q[i] ELSE r[i - Len(q)]
      /\ Len(q) \in Nat /\ Len(r) \in Nat /\ DOMAIN q = 1 .. Len(q) /\ DOMAIN r = 1 .. Len(r)
  BY ConcatProperties, LenProperties
<1>2. DOMAIN (q \o r) = 1 .. Len(q) + Len(r)
  BY <1>1, LenProperties
<1>3. /\ \A i \in DOMAIN q : i \in DOMAIN (q \o r) /\ (q \o r)[i] = q[i] /\ i \in Nat /\ i <= Len(q)
      /\ \A i \in DOMAIN r : i + Len(q) \in DOMAIN (q \o r) /\ (q \o r)[i + Len(q)] = r[i] /\ i \in Nat
  BY <1>1, <1>2
<1>4. ASSUME NEW i \in DOMAIN (q \o r), (q \o r)[i].type \in types, (q \o r)[i].sid = s
      PROVE  \E j \in DOMAIN (q \o r) :
               j < i /\ (q \o r)[j].type \in firsts /\ ((q \o r)[j].type = "peer-joined" => (q \o r)[j].sid = s)
  <2>0. i \in Nat
    BY <1>1, <1>2
  <2>1. CASE i <= Len(q)
    <3>1. i \in DOMAIN q /\ q[i].type \in types /\ q[i].sid = s
      BY <1>1, <1>2, <1>4, <2>1
    <3>2. PICK j \in DOMAIN q : j < i /\ q[j].type \in firsts /\ (q[j].type = "peer-joined" => q[j].sid = s)
      BY <3>1 DEF Behind
    <3> QED
      BY <1>3, <3>2
  <2>2. CASE ~(i <= Len(q)) /\ Behind(r, types, firsts, s)
    <3>1. /\ i - Len(q) \in DOMAIN r /\ r[i - Len(q)].type \in types /\ r[i - Len(q)].sid = s
      BY <1>1, <1>2, <1>4, <2>0, <2>2
    <3>2. PICK j \in DOMAIN r : j < i - Len(q) /\ r[j].type \in firsts /\ (r[j].type = "peer-joined" => r[j].sid = s)
      BY <2>2, <3>1 DEF Behind
    <3>3. j + Len(q) \in DOMAIN (q \o r) /\ (q \o r)[j + Len(q)] = r[j] /\ j \in Nat
      BY <1>3, <3>2
    <3>4. j + Len(q) < i
      BY <1>1, <2>0, <3>2, <3>3
    <3> QED
      BY <3>2, <3>3, <3>4, Zenon
  <2>3. CASE ~(i <= Len(q)) /\ \E m \in Q(q) : m.type \in firsts /\ (m.type = "peer-joined" => m.sid = s)
    <3>1. PICK j \in DOMAIN q : q[j].type \in firsts /\ (q[j].type = "peer-joined" => q[j].sid = s)
      BY <2>3 DEF Q
    <3>2. j \in DOMAIN (q \o r) /\ (q \o r)[j] = q[j] /\ j < i
      BY <1>1, <1>3, <2>0, <2>3, <3>1
    <3> QED
      BY <3>1, <3>2
  <2> QED
    BY <2>1, <2>2, <2>3
<1> QED
  BY <1>4 DEF Behind

\* A queue without such messages.
LEMMA BehindNone ==
  ASSUME NEW q, NEW types, NEW firsts, NEW s, ~Carries(q, types, s)
  PROVE  Behind(q, types, firsts, s)
BY DEF Behind, Carries, Q

\* What the receiver sends after a retry.
LEMMA ResumesRest ==
  ASSUME NEW q \in Seq(Message), q # <<>>, NEW s, Resumes(q, s)
  PROVE  /\ Resumes(Tail(q), s)
         /\ Head(q).type = "retry" => Carries(Tail(q), RelayType, s)
<1>1. /\ Len(q) \in Nat \ {0} /\ DOMAIN q = 1 .. Len(q) /\ Head(q) = q[1]
      /\ Tail(q) \in Seq(Message) /\ Len(Tail(q)) = Len(q) - 1
      /\ \A i \in 1 .. Len(Tail(q)) : Tail(q)[i] = q[i + 1]
  BY EmptySeq, LenProperties, HeadTailProperties
<1>2. DOMAIN Tail(q) = 1 .. Len(q) - 1
  BY <1>1, LenProperties
<1>3. ASSUME NEW i \in DOMAIN q, q[i].type = "retry"
      PROVE  \E j \in DOMAIN Tail(q) : i < j + 1 /\ Of(Tail(q)[j], s)
  <2>1. PICK j \in DOMAIN q : i < j /\ Of(q[j], s)
    BY <1>3 DEF Resumes
  <2>2. j - 1 \in DOMAIN Tail(q) /\ Tail(q)[j - 1] = q[j] /\ i < (j - 1) + 1
    BY <1>1, <1>2, <2>1
  <2> QED
    BY <2>1, <2>2
<1>4. ASSUME NEW i \in DOMAIN Tail(q), Tail(q)[i].type = "retry"
      PROVE  \E j \in DOMAIN Tail(q) : i < j /\ Of(Tail(q)[j], s)
  <2>1. i \in Nat /\ i + 1 \in DOMAIN q /\ Tail(q)[i] = q[i + 1]
    BY <1>1, <1>2
  <2>2. PICK j \in DOMAIN Tail(q) : i + 1 < j + 1 /\ Of(Tail(q)[j], s)
    BY <1>3, <1>4, <2>1
  <2>3. i < j
    BY <1>2, <2>1, <2>2
  <2> QED
    BY <2>2, <2>3
<1>5. Head(q).type = "retry" => Carries(Tail(q), RelayType, s)
  BY <1>1, <1>3 DEF Carries, Q, Of
<1> QED
  BY <1>4, <1>5 DEF Resumes

\* What is said in the session comes after every retry.
LEMMA ResumesJoin ==
  ASSUME NEW q \in Seq(Message), NEW r \in Seq(Message), NEW s, ~Has(r, {"retry"}),
         Resumes(q, s) \/ Carries(r, RelayType, s)
  PROVE  Resumes(q \o r, s)
<1>1. /\ q \o r \in Seq(Message) /\ Len(q \o r) = Len(q) + Len(r)
      /\ \A i \in 1 .. Len(q) + Len(r) : (q \o r)[i] = IF i <= Len(q) THEN q[i] ELSE r[i - Len(q)]
      /\ Len(q) \in Nat /\ Len(r) \in Nat /\ DOMAIN q = 1 .. Len(q) /\ DOMAIN r = 1 .. Len(r)
  BY ConcatProperties, LenProperties
<1>2. DOMAIN (q \o r) = 1 .. Len(q) + Len(r)
  BY <1>1, LenProperties
<1>3. /\ \A i \in DOMAIN q : i \in DOMAIN (q \o r) /\ (q \o r)[i] = q[i] /\ i \in Nat /\ i <= Len(q)
      /\ \A i \in DOMAIN r : /\ i + Len(q) \in DOMAIN (q \o r) /\ (q \o r)[i + Len(q)] = r[i] /\ i \in Nat
                             /\ Len(q) < i + Len(q)
  BY <1>1, <1>2
<1>4. ASSUME NEW i \in DOMAIN (q \o r), (q \o r)[i].type = "retry"
      PROVE  \E j \in DOMAIN (q \o r) : i < j /\ Of((q \o r)[j], s)
  <2>1. i \in Nat
    BY <1>1, <1>2
  <2>2. i <= Len(q)
    <3>1. SUFFICES ASSUME ~(i <= Len(q)) PROVE FALSE
      OBVIOUS
    <3>2. i - Len(q) \in DOMAIN r /\ r[i - Len(q)] = (q \o r)[i]
      BY <1>1, <1>2, <2>1, <3>1
    <3> QED
      BY <1>4, <3>2 DEF Has, Q
  <2>3. i \in DOMAIN q /\ q[i].type = "retry"
    BY <1>1, <1>2, <1>4, <2>2
  <2>4. CASE Resumes(q, s)
    <3>1. PICK j \in DOMAIN q : i < j /\ Of(q[j], s)
      BY <2>3, <2>4 DEF Resumes
    <3> QED
      BY <1>3, <3>1
  <2>5. CASE Carries(r, RelayType, s)
    <3>1. PICK j \in DOMAIN r : Of(r[j], s)
      BY <2>5 DEF Carries, Q, Of
    <3>2. /\ j + Len(q) \in DOMAIN (q \o r) /\ (q \o r)[j + Len(q)] = r[j] /\ j \in Nat
          /\ Len(q) < j + Len(q)
      BY <1>3, <3>1
    <3>3. i < j + Len(q)
      BY <1>1, <2>1, <2>2, <3>2
    <3> QED
      BY <3>1, <3>2, <3>3
  <2> QED
    BY <2>4, <2>5
<1> QED
  BY <1>4 DEF Resumes

\* A register comes first, so none follows another.
LEMMA RegistersRest ==
  ASSUME NEW q \in Seq(Message), q # <<>>, RegistersFirst(q)
  PROVE  RegistersFirst(Tail(q)) /\ ~Has(Tail(q), {"register"})
<1>1. /\ Len(q) \in Nat \ {0} /\ DOMAIN q = 1 .. Len(q)
      /\ Tail(q) \in Seq(Message) /\ Len(Tail(q)) = Len(q) - 1
      /\ \A i \in 1 .. Len(Tail(q)) : Tail(q)[i] = q[i + 1]
  BY EmptySeq, LenProperties, HeadTailProperties
<1>2. DOMAIN Tail(q) = 1 .. Len(q) - 1
  BY <1>1, LenProperties
<1>3. ASSUME NEW i \in DOMAIN Tail(q), Tail(q)[i].type = "register"
      PROVE  FALSE
  <2>1. i \in Nat \ {0} /\ i + 1 \in DOMAIN q /\ Tail(q)[i] = q[i + 1]
    BY <1>1, <1>2
  <2>2. i + 1 = 1
    BY <1>3, <2>1 DEF RegistersFirst
  <2> QED
    BY <2>1, <2>2
<1> QED
  BY <1>3 DEF RegistersFirst, Has, Q

\* Only the first message registers.
LEMMA RegistersJoin ==
  ASSUME NEW q \in Seq(Message), NEW r \in Seq(Message), RegistersFirst(q),
         ~Has(r, {"register"}) \/ (q = <<>> /\ RegistersFirst(r))
  PROVE  RegistersFirst(q \o r)
<1>1. /\ q \o r \in Seq(Message) /\ Len(q \o r) = Len(q) + Len(r)
      /\ \A i \in 1 .. Len(q) + Len(r) : (q \o r)[i] = IF i <= Len(q) THEN q[i] ELSE r[i - Len(q)]
      /\ Len(q) \in Nat /\ Len(r) \in Nat /\ DOMAIN q = 1 .. Len(q) /\ DOMAIN r = 1 .. Len(r)
  BY ConcatProperties, LenProperties
<1>2. DOMAIN (q \o r) = 1 .. Len(q) + Len(r)
  BY <1>1, LenProperties
<1>3. ASSUME NEW i \in DOMAIN (q \o r), (q \o r)[i].type = "register"
      PROVE  i = 1
  <2>1. CASE i <= Len(q)
    BY <1>1, <1>2, <1>3, <2>1 DEF RegistersFirst
  <2>2. CASE ~(i <= Len(q))
    <3>1. i - Len(q) \in DOMAIN r /\ r[i - Len(q)].type = "register"
      BY <1>1, <1>2, <1>3, <2>2
    <3>2. q = <<>> /\ i - Len(q) = 1
      BY <3>1 DEF Has, Q, RegistersFirst
    <3>3. Len(q) = 0
      BY <3>2, EmptySeq
    <3> QED
      BY <1>1, <1>2, <3>2, <3>3
  <2> QED
    BY <2>1, <2>2
<1> QED
  BY <1>3 DEF RegistersFirst

\* When everyone waits and nothing is on its way, what is owed says who can wait.
LEMMA OwedSuffices ==
  ASSUME IInv, Phases, Owed
  PROVE  NobodyStuck
<1> SUFFICES ASSUME \A c \in Client : /\ up[c] = <<>> /\ down[c] = <<>>
                                      /\ Waits(c) \/ stage[c] \in {"start", "over"}
             PROVE  /\ \A s \in Sender : stage[s] \in {"start", "over"}
                    /\ stage[Receiver] \in {"start", "joining", "over"}
  BY DEF NobodyStuck
<1>1. /\ \A types : ~Has(<<>>, types)
      /\ \A types, s : ~Carries(<<>>, types, s)
      /\ Receiver \in Client /\ Sender \subseteq Client /\ Receiver \notin Sender /\ None \notin Sender
      /\ session \in Sender \cup {None}
  BY NoMessage, Clients DEF Has, Carries, IInv, Types
<1>2. ASSUME NEW c \in Client, stage[c] \notin {"start", "over"}
      PROVE  c \notin cut /\ Waits(c)
  <2>1. Closing(c) /\ Waits(c)
    BY <1>2 DEF Owed
  <2>2. ~Has(down[c], {"close"})
    BY <1>1, <1>2
  <2>3. stage[c] \notin {"deriving", "sealing", "deciding", "paired"}
    BY <2>1 DEF Waits, WaitType
  <2> QED
    BY <1>2, <2>1, <2>2, <2>3 DEF Closing
<1>3. ASSUME NEW c \in Client, stage[c] \notin {"start", "over"}
      PROVE  /\ stage[c] \in {"registering", "rekeying", "rerequesting", "joining", "share", "confirming",
                              "request", "awaiting", "ice"}
             /\ settled[c] = "no"
  <2>1. Waits(c) /\ Closing(c)
    BY <1>2, <1>3 DEF Owed
  <2>2. stage[c] \in DOMAIN WaitType \ {"deriving"} /\ ~Continuing(c)
    BY <2>1 DEF Waits
  <2> QED
    BY <2>1, <2>2 DEF WaitType, Closing, Continuing
<1>4. stage[Receiver] \in {"start", "joining", "over"} \/ (sid[Receiver] # None /\ sid[Receiver] = session)
  <2>1. SUFFICES ASSUME stage[Receiver] \notin {"start", "joining", "over"}
                 PROVE  sid[Receiver] # None /\ sid[Receiver] = session
    OBVIOUS
  <2>2. Receiver \notin cut /\ Hosting /\ Returning /\ Local(Receiver)
    BY <1>1, <1>2, <2>1 DEF Owed, IInv
  <2>3. stage[Receiver] \notin {"registering", "rekeying", "rerequesting", "ice"}
    BY <1>1, <2>2 DEF Hosting, Returning
  <2>4. stage[Receiver] \in {"share", "confirming", "request", "awaiting"} /\ settled[Receiver] = "no"
    BY <1>1, <1>3, <2>1, <2>3
  <2>5. sid[Receiver] # None
    BY <2>2, <2>4 DEF Local, Keyed
  <2>6. ~Adrift
    BY <1>1, <2>4 DEF Adrift
  <2> QED
    BY <2>2, <2>5, <2>6 DEF Returning
<1>5. ASSUME session # None
      PROVE  FALSE
  <2>1. /\ session \in Sender /\ session \notin cut /\ Receiver \notin cut /\ stage[session] # "start"
        /\ stage[Receiver] # "start" /\ Hosting /\ session \in Client
    BY <1>1, <1>5 DEF Owed, Hosting
  <2>2. stage[session] # "over" /\ stage[Receiver] # "over"
    <3>1. Leaving(session) /\ Leaving(Receiver)
      BY <1>1, <2>1 DEF Owed
    <3> QED
      BY <1>1, <1>5, <2>1, <3>1 DEF Leaving, Known
  <2>3. sid[Receiver] = session /\ stage[Receiver] # "joining"
    <3>1. Awaited
      BY DEF Owed
    <3>2. stage[Receiver] # "joining"
      BY <1>1, <1>5, <3>1 DEF Awaited, Free
    <3> QED
      BY <1>4, <2>1, <2>2, <3>2
  <2>4. Meeting(session) /\ Local(session) /\ Local(Receiver)
    BY <1>1, <2>1 DEF Owed, IInv
  <2>5. stage[session] \in {"share", "confirming", "awaiting"} /\ settled[session] = "no"
    <3>1. stage[session] # "joining"
      BY <1>1, <2>1, <2>4 DEF Meeting
    <3>2. /\ stage[session] \in {"registering", "rekeying", "rerequesting", "joining", "share", "confirming",
                                 "request", "awaiting", "ice"}
          /\ settled[session] = "no"
      BY <1>3, <2>1, <2>2
    <3>3. stage[session] \notin {"registering", "rekeying", "rerequesting", "request", "deciding", "ice"}
      BY <2>4 DEF Meeting
    <3> QED
      BY <3>1, <3>2, <3>3
  <2>6. stage[Receiver] \in {"share", "confirming", "request"} /\ settled[Receiver] = "no"
    <3>1. sid[Receiver] # None /\ stage[Receiver] \in Keyed \cup {"share"}
      BY <1>5, <2>3, <2>4 DEF Local
    <3>2. Returning /\ Hosting
      BY DEF Owed
    <3>3. stage[Receiver] \notin {"ice", "sealing", "awaiting"}
      BY <1>1, <2>1, <3>2 DEF Returning, Hosting
    <3> QED
      BY <1>1, <1>3, <2>1, <2>2, <3>1, <3>3 DEF Keyed
  <2>7. sid[session] = session
    BY <2>1, <2>4, <2>5 DEF Local, Keyed
  <2>8. /\ Complete(session) /\ Complete(Receiver) /\ Delivered(session) /\ Delivered(Receiver)
        /\ Target(session) = Receiver /\ Target(Receiver) = session
    BY <1>1, <1>5, <2>1 DEF Phases, InPhase, Owed, Target
  <2>9. Reads(session) /\ Reads(Receiver)
    BY <1>1, <2>1, <2>2, <2>3 DEF Reads
  <2>10. ASSUME NEW c \in {session, Receiver}, NEW t, Said(c, t)
         PROVE  <<c, t>> \in seen
    BY <1>1, <2>1, <2>10 DEF Said
  <2>11. ASSUME NEW c \in {session, Receiver}, NEW t \in Turns, <<Target(c), t>> \in seen
         PROVE  Past(c, t)
    BY <1>1, <2>1, <2>8, <2>9, <2>11, Zenon DEF Delivered
  <2>12. stage[session] # "share" /\ stage[Receiver] # "share"
    <3>1. Said(session, "pake") /\ Said(Receiver, "pake")
      BY <2>1, <2>3, <2>7, <2>8 DEF Complete
    <3>2. Past(session, "pake") /\ Past(Receiver, "pake")
      BY <2>8, <2>10, <2>11, <3>1 DEF Turns
    <3> QED
      BY <3>2 DEF Past
  <2>13. stage[session] # "confirming" /\ stage[Receiver] # "confirming"
    <3>1. Said(session, "confirm") /\ Said(Receiver, "confirm")
      BY <2>1, <2>3, <2>5, <2>6, <2>7, <2>8, <2>12 DEF Complete, Keyed
    <3>2. Past(session, "confirm") /\ Past(Receiver, "confirm")
      BY <2>8, <2>10, <2>11, <3>1 DEF Turns
    <3> QED
      BY <2>5, <2>6, <3>2 DEF Past, Proven
  <2>14. stage[session] = "awaiting" /\ stage[Receiver] = "request"
    BY <2>5, <2>6, <2>12, <2>13
  <2>15. Past(Receiver, "pair-request")
    <3>1. Said(session, "pair-request")
      BY <2>4, <2>14 DEF Meeting
    <3> QED
      BY <2>8, <2>10, <2>11, <3>1 DEF Turns
  <2> QED
    BY <2>14, <2>15 DEF Past, Deciding
<1>6. ASSUME NEW s \in Sender
      PROVE  stage[s] \in {"start", "over"}
  <2>1. SUFFICES ASSUME stage[s] \notin {"start", "over"} PROVE FALSE
    OBVIOUS
  <2>2. s \notin cut /\ Meeting(s) /\ Local(s) /\ s \in Client
    BY <1>1, <1>2, <2>1 DEF Owed, IInv
  <2>3. stage[s] # "joining"
    BY <1>1, <2>2 DEF Meeting
  <2>4. sid[s] # None
    <3>1. stage[s] \in {"share", "confirming", "awaiting"}
      BY <1>3, <2>1, <2>2, <2>3 DEF Meeting
    <3> QED
      BY <2>2, <3>1 DEF Local, Keyed
  <2> QED
    BY <1>1, <1>5, <2>2, <2>4 DEF Meeting
<1> QED
  BY <1>4, <1>5, <1>6

-----------------------------------------------------------------------------
(* A client's step and what is owed *)

\* A step of a client leaves the others, and the server, as they are.
Solo(c) ==
  /\ UNCHANGED <<session, seen, cut, waiting>>
  /\ \A x \in Client \ {c} :
       /\ stage'[x] = stage[x] /\ sid'[x] = sid[x] /\ settled'[x] = settled[x]
       /\ up'[x] = up[x] /\ down'[x] = down[x]
       /\ (x \in shut' <=> x \in shut) /\ (x \in cached' <=> x \in cached)

\* A step of the clients' modules is one of a single client.
LEMMA SoloIf ==
  ASSUME IInv, NEW c \in Client, Alone(c), ClientOnly,
         shut' \in {shut, shut \cup {c}, shut \ {c}},
         cached' \in {cached, cached \cup {c}, cached \ {c}}
  PROVE  Solo(c)
<1>1. UNCHANGED <<session, seen, cut, waiting>>
  BY DEF ClientOnly, server
<1>2. \A x \in Client \ {c} : (x \in shut' <=> x \in shut) /\ (x \in cached' <=> x \in cached)
  OBVIOUS
<1> QED
  BY <1>1, <1>2 DEF Solo, Alone

\* What is owed to the others stays so.
LEMMA SoloOthers ==
  ASSUME IInv, Owed, NEW c \in Client, Solo(c), NEW x \in Client \ {c}
  PROVE  /\ Closing(x)' /\ Leaving(x)'
         /\ x \in Sender => Meeting(x)'
         /\ session # None /\ x \in {session, Receiver} => Delivered(x)'
<1>1. /\ stage'[x] = stage[x] /\ sid'[x] = sid[x] /\ settled'[x] = settled[x]
      /\ up'[x] = up[x] /\ down'[x] = down[x]
      /\ (x \in shut' <=> x \in shut) /\ (x \in cached' <=> x \in cached)
      /\ session' = session /\ seen' = seen /\ cut' = cut /\ waiting' = waiting
  BY DEF Solo
<1>2. Closing(x)'
  BY <1>1 DEF Owed, Closing
<1>3. Leaving(x)'
  <2>1. Leaving(x) /\ (Known(x)' <=> Known(x))
    BY <1>1 DEF Owed, Known
  <2> QED
    BY <1>1, <2>1 DEF Leaving
<1>4. ASSUME x \in Sender
      PROVE  Meeting(x)'
  <2>1. Meeting(x) /\ (Said(x, "pair-request")' <=> Said(x, "pair-request"))
    BY <1>1, <1>4 DEF Owed, Said
  <2> QED
    BY <1>1, <2>1 DEF Meeting
<1>5. ASSUME session # None, x \in {session, Receiver}
      PROVE  Delivered(x)'
  <2>1. Delivered(x) /\ (Reads(x)' <=> Reads(x)) /\ Target(x)' = Target(x)
    BY <1>1, <1>5 DEF Owed, Reads, Target
  <2>2. \A t : Past(x, t)' <=> Past(x, t)
    BY <1>1 DEF Past
  <2> QED
    BY <1>1, <2>1, <2>2 DEF Delivered
<1> QED
  BY <1>2, <1>3, <1>4, <1>5

\* A sender's step: what the sender is owed, and owes.
LEMMA SenderOwed ==
  ASSUME IInv, Owed, NEW c \in Sender, Solo(c), stage'[c] = "start" => stage[c] = "start",
         ~Has(up'[c], {"register", "retry"}),
         Closing(c)', Leaving(c)', Meeting(c)', session = c => Delivered(c)'
  PROVE  Owed'
<1>1. /\ c \in Client /\ Receiver \in Client \ {c} /\ Sender \subseteq Client /\ c # Receiver
      /\ session \in Sender \cup {None}
  BY Clients DEF IInv, Types
<1>2. /\ stage'[Receiver] = stage[Receiver] /\ sid'[Receiver] = sid[Receiver]
      /\ settled'[Receiver] = settled[Receiver]
      /\ up'[Receiver] = up[Receiver] /\ down'[Receiver] = down[Receiver]
      /\ session' = session /\ seen' = seen /\ cut' = cut /\ waiting' = waiting
  BY <1>1 DEF Solo
<1>3. (\A x \in Client : Closing(x)' /\ Leaving(x)') /\ \A s \in Sender : Meeting(s)'
  BY <1>1, SoloOthers
<1>4. session # None => Delivered(session)' /\ Delivered(Receiver)'
  BY <1>1, <1>2, SoloOthers
<1>5. Hosting'
  <2>1. Hosting
    BY DEF Owed
  <2>2. session # None => stage'[session] # "start"
    BY <1>1, <2>1 DEF Hosting, Solo
  <2>3. \A s \in Sender : ~Has(up'[s], {"register", "retry"})
    BY <1>1, <2>1 DEF Hosting, Solo
  <2> QED
    BY <1>2, <2>1, <2>2, <2>3 DEF Hosting
<1>6. Returning'
  <2>1. Returning /\ (Adrift' <=> Adrift)
    BY <1>2 DEF Owed, Adrift
  <2> QED
    BY <1>2, <2>1 DEF Returning
<1>7. Awaited'
  <2>1. Awaited /\ (Free' <=> Free)
    BY <1>2 DEF Owed, Free
  <2> QED
    BY <1>2, <2>1 DEF Awaited
<1>8. session # None /\ sid'[Receiver] = session /\ stage'[Receiver] = "ice" => Said(Receiver, "pair-accept")'
  BY <1>2 DEF Owed, Said
<1> QED
  BY <1>2, <1>3, <1>4, <1>5, <1>6, <1>7, <1>8 DEF Owed

\* The receiver's step.
LEMMA ReceiverOwed ==
  ASSUME IInv, Owed, Solo(Receiver), Closing(Receiver)', Leaving(Receiver)',
         Hosting', Returning', Awaited', session # None => Delivered(Receiver)',
         session # None /\ sid'[Receiver] = session /\ stage'[Receiver] = "ice" => Said(Receiver, "pair-accept")'
  PROVE  Owed'
<1>1. Receiver \in Client /\ Sender \subseteq Client \ {Receiver} /\ session \in Sender \cup {None} /\ session' = session
  BY Clients DEF IInv, Types, Solo
<1>2. (\A x \in Client : Closing(x)' /\ Leaving(x)') /\ \A s \in Sender : Meeting(s)'
  BY <1>1, SoloOthers
<1>3. session # None => Delivered(session)' /\ Delivered(Receiver)'
  BY <1>1, SoloOthers
<1> QED
  BY <1>1, <1>2, <1>3 DEF Owed

\* A client that ends.
LEMMA OverOwed ==
  ASSUME IInv, Owed, NEW c \in Client, Solo(c),
         NEW q \in Seq(Message), up'[c] = up[c] \o q,
         \A m \in Q(q) : m.type \in Goodbyes \cup {"pair-reject"}, c \notin cut => Has(q, Goodbyes),
         stage'[c] = "over", down'[c] = <<>>, sid'[c] = None, settled'[c] = "no", c \notin shut'
  PROVE  Owed'
<1>1. /\ session' = session /\ seen' = seen /\ cut' = cut /\ waiting' = waiting /\ up[c] \in Seq(Message)
      /\ session \in Sender \cup {None} /\ None \notin Sender
      /\ c = Receiver \/ (c \in Sender /\ c # Receiver)
  BY Clients DEF Solo, IInv, Types
<1>2. /\ \A types : ~Has(<<>>, types)
      /\ \A types, s : ~Carries(<<>>, types, s)
      /\ \A types, firsts, s : Behind(<<>>, types, firsts, s)
      /\ \A s : Rising(<<>>, s)
  BY NoMessage DEF Has, Carries, Behind, Rising
<1>3. Closing(c)'
  BY <1>2 DEF Closing
<1>4. Leaving(c)'
  BY <1>1, HasEnds DEF Leaving
<1>5. \A types : types \cap (Goodbyes \cup {"pair-reject"}) = {} => (Has(up'[c], types) <=> Has(up[c], types))
  <2>1. \A types : types \cap (Goodbyes \cup {"pair-reject"}) = {} => ~Has(q, types)
    BY DEF Has
  <2> QED
    BY <1>1, <2>1, HasEnds
<1>6. CASE c \in Sender
  <2>1. Meeting(c)'
    BY <1>2, <1>6 DEF Meeting, Stage
  <2>2. ~Has(up'[c], {"register", "retry"})
    BY <1>5, <1>6 DEF Owed, Hosting, Goodbyes
  <2>3. session = c => Delivered(c)'
    BY <1>1, <1>2, <1>6, Clients DEF Delivered, Reads
  <2> QED
    BY <1>3, <1>4, <1>6, <2>1, <2>2, <2>3, SenderOwed, Zenon
<1>7. CASE c = Receiver
  <2>1. Hosting'
    <3>1. Hosting /\ (Has(up'[c], {"register"}) <=> Has(up[c], {"register"})) /\ ~Has(q, {"register"})
      BY <1>5, Zenon DEF Owed, Goodbyes, Has
    <3>2. RegistersFirst(up'[c])
      BY <1>1, <1>7, <3>1, RegistersJoin DEF Hosting
    <3>3. \A s \in Sender : ~Has(up'[s], {"register", "retry"})
      BY <1>7, <3>1, Clients DEF Hosting, Solo
    <3>4. session # None => stage'[session] = stage[session]
      BY <1>1, <1>7, Clients DEF Solo
    <3> QED
      BY <1>1, <1>7, <3>1, <3>2, <3>3, <3>4, Zenon DEF Hosting
  <2>2. Returning' /\ Awaited'
    BY <1>2, <1>7 DEF Returning, Awaited, Free, Early
  <2>3. session # None => Delivered(Receiver)'
    BY <1>1, <1>2, <1>7 DEF Delivered, Reads, Free, Early
  <2> QED
    BY <1>3, <1>4, <1>7, <2>1, <2>2, <2>3, ReceiverOwed
<1> QED
  BY <1>1, <1>6, <1>7

\* The ways a command ends.
LEMMA EndOwed ==
  ASSUME IInv, Owed, NEW c \in Client,
         (\E result \in Outcome : End(c, result) /\ UNCHANGED <<counters, accepted>> /\ ClientOnly)
           \/ \E result \in Outcome : Vanish(c, result)
  PROVE  Owed'
<1> DEFINE bye == <<Plain("bye"), Close>>
           close == <<Close>>
           nothing == <<>>
<1>1. Send(c, bye) \/ Send(c, close) \/ (Send(c, nothing) /\ c \in shut)
  BY DEF End, Vanish
<1>2. /\ bye \in Seq(Message) /\ Q(bye) = {Plain("bye"), Close}
      /\ close \in Seq(Message) /\ Q(close) = {Close}
      /\ nothing \in Seq(Message) /\ Q(nothing) = {}
  BY Partings, NoMessage, OneMessage, TwoMessages
<1>12. Has(bye, Goodbyes) /\ Has(close, Goodbyes)
  BY <1>2, Partings DEF Has, Goodbyes
<1> HIDE DEF bye, close, nothing
<1>3. PICK q \in {bye, close, nothing} : Send(c, q) /\ (Has(q, Goodbyes) \/ c \in shut)
  BY <1>1, <1>12
<1>4. q \in Seq(Message) /\ \A m \in Q(q) : m.type \in Goodbyes
  BY <1>2, <1>3, Partings DEF Goodbyes
<1>5. /\ down' = [down EXCEPT ![c] = <<>>] /\ stage' = [stage EXCEPT ![c] = "over"]
      /\ sid' = [sid EXCEPT ![c] = None] /\ settled' = [settled EXCEPT ![c] = "no"] /\ ClientOnly
      /\ shut' = shut \ {c} /\ cached' = cached \ {c}
  BY DEF End, Vanish, Go
<1>6. Alone(c)
  BY <1>3, <1>4, <1>5, AloneIf, Zenon
<1>7. Solo(c)
  BY <1>5, <1>6, SoloIf
<1>8. /\ stage'[c] = "over" /\ sid'[c] = None /\ down'[c] = <<>> /\ settled'[c] = "no" /\ c \notin shut'
  BY <1>5 DEF IInv, Types
<1>9. PICK r \in Seq(Message) : /\ r = q \/ r = <<>>
                                /\ up'[c] = up[c] \o r /\ (c \in cut => r = <<>>)
                                /\ c \notin cut => r = q
  BY <1>3, <1>4, SentOrCut, Zenon DEF IInv
<1>10. \A m \in Q(r) : m.type \in Goodbyes
  BY <1>4, <1>9, NoMessage
<1>11. c \notin cut => Has(r, Goodbyes)
  <2>1. c \in shut => c \in cut
    BY DEF Owed, Closing
  <2> QED
    BY <1>3, <1>9, <2>1
<1> QED
  BY <1>7, <1>8, <1>9, <1>10, <1>11, OverOwed

\* The receiver's user declines and the command ends.
LEMMA DeclineOwed ==
  ASSUME IInv, Owed, Decline
  PROVE  Owed'
<1> DEFINE m == Msg("pair-reject", sid[Receiver], key[Receiver])
           leave == <<m, Plain("bye"), Close>>
           nothing == <<>>
<1>1. Send(Receiver, leave) \/ (Send(Receiver, nothing) /\ Receiver \in shut)
  BY DEF Decline
<1>2. Receiver \in Client /\ sid[Receiver] \in Sender \cup {None} /\ key[Receiver] \in Key
  BY Clients DEF IInv, Types
<1>3. m \in Message /\ m.type = "pair-reject"
  BY <1>2 DEF Msg, Message, MsgType, RelayType
<1>4. /\ leave \in Seq(Message) /\ Q(leave) = {m, Plain("bye"), Close}
      /\ nothing \in Seq(Message) /\ Q(nothing) = {}
  BY <1>3, Partings, NoMessage, ThreeMessages
<1>13. Has(leave, Goodbyes)
  BY <1>4, Partings DEF Has, Goodbyes
<1> HIDE DEF m, leave, nothing
<1>5. PICK q \in {leave, nothing} : Send(Receiver, q) /\ (Has(q, Goodbyes) \/ Receiver \in shut)
  BY <1>1, <1>13
<1>6. q \in Seq(Message) /\ \A n \in Q(q) : n.type \in Goodbyes \cup {"pair-reject"}
  BY <1>3, <1>4, <1>5, Partings DEF Goodbyes
<1>7. /\ down' = [down EXCEPT ![Receiver] = <<>>] /\ stage' = [stage EXCEPT ![Receiver] = "over"]
      /\ sid' = [sid EXCEPT ![Receiver] = None] /\ settled' = settled /\ ClientOnly
      /\ shut' = shut \ {Receiver} /\ cached' = cached /\ stage[Receiver] = "deciding"
  BY DEF Decline, Go
<1>8. Solo(Receiver)
  <2>1. Alone(Receiver)
    BY <1>2, <1>5, <1>6, <1>7, AloneIf, Zenon
  <2> QED
    BY <1>2, <1>7, <2>1, SoloIf
<1>9. /\ stage'[Receiver] = "over" /\ sid'[Receiver] = None /\ down'[Receiver] = <<>> /\ Receiver \notin shut'
      /\ settled'[Receiver] = "no"
  BY <1>2, <1>7, Zenon DEF IInv, Types, Owed, Closing
<1>10. PICK r \in Seq(Message) : /\ r = q \/ r = <<>>
                                 /\ up'[Receiver] = up[Receiver] \o r /\ (Receiver \in cut => r = <<>>)
                                 /\ Receiver \notin cut => r = q
  BY <1>2, <1>5, <1>6, SentOrCut, Zenon DEF IInv
<1>11. \A n \in Q(r) : n.type \in Goodbyes \cup {"pair-reject"}
  BY <1>6, <1>10, NoMessage
<1>12. Receiver \notin cut => Has(r, Goodbyes)
  <2>1. Receiver \in shut => Receiver \in cut
    BY <1>2 DEF Owed, Closing
  <2> QED
    BY <1>5, <1>10, <2>1
<1> QED
  BY <1>2, <1>8, <1>9, <1>10, <1>11, <1>12, OverOwed

\* A client that never connects is unknown to the server.
LEMMA NeverConnectsOwed ==
  ASSUME IInv, Owed, NEW c \in Client, NeverConnects(c)
  PROVE  Owed'
<1>1. /\ stage[c] = "start" /\ stage' = [stage EXCEPT ![c] = "over"] /\ ClientOnly
      /\ sid' = sid /\ settled' = settled /\ up' = up /\ down' = down /\ shut' = shut /\ cached' = cached
  BY DEF NeverConnects, Go, held
<1>2. Solo(c)
  <2>1. Alone(c)
    BY <1>1, AloneIf, Zenon
  <2> QED
    BY <1>1, <2>1, SoloIf
<1>3. /\ stage'[c] = "over" /\ sid'[c] = None /\ sid[c] = None
      /\ c = Receiver \/ (c \in Sender /\ c # Receiver)
      /\ session' = session /\ seen' = seen /\ cut' = cut /\ waiting' = waiting
      /\ session \in Sender \cup {None} /\ Sender \subseteq Client
  BY <1>1, <1>2, Clients, Zenon DEF IInv, Types, Local, Keyed, Solo
<1>4. up[c] = <<>> /\ session # c /\ (c = Receiver => session = None /\ ~waiting)
  BY <1>1, <1>3, Clients DEF IInv, MeetsOnce, Owed, Hosting
<1>5. ~Has(up[c], {"register"}) /\ ~Has(up[c], {"connect"}) /\ ~Has(up[c], {"register", "retry"})
  BY <1>4, NoMessage DEF Has
<1>6. Closing(c) /\ Closing(c)'
  BY <1>1, <1>3 DEF Owed, Closing
<1>7. Leaving(c)'
  BY <1>1, <1>3, <1>4, <1>5 DEF Leaving, Known
<1>8. CASE c \in Sender
  <2>1. Meeting(c) /\ Said(c, "pair-request")' = Said(c, "pair-request")
    BY <1>1, <1>3, <1>8 DEF Owed, Said
  <2>2. Meeting(c)'
    BY <1>1, <1>3, <2>1 DEF Meeting, Stage
  <2>3. stage'[c] # "start" /\ ~Has(up'[c], {"register", "retry"})
    BY <1>1, <1>3, <1>5
  <2> QED
    BY <1>2, <1>4, <1>6, <1>7, <1>8, <2>2, <2>3, SenderOwed
<1>9. CASE c = Receiver
  <2>1. Hosting
    BY DEF Owed
  <2>2. Hosting' /\ Returning' /\ Awaited'
    BY <1>1, <1>3, <1>4, <1>9, <2>1, Clients DEF Hosting, Returning, Awaited
  <2> QED
    BY <1>2, <1>3, <1>4, <1>6, <1>7, <1>9, <2>2, ReceiverOwed
<1> QED
  BY <1>3, <1>8, <1>9

\* The head of a client's queue, by what it does to the client's wait.
LEMMA HeadIs ==
  ASSUME IInv, NEW c \in Client, NEW kind, Gets(c, kind)
  PROVE  /\ down[c] # <<>> /\ down[c] \in Seq(Message) /\ Head(down[c]) \in Message
         /\ Head(down[c]) \in Q(down[c]) /\ stage[c] # "over" /\ ~Continuing(c)
         /\ Head(down[c]).type = "close" <=> kind = "closed"
         /\ kind \in {"crash", "refused"} => Head(down[c]).type = "error"
         /\ kind = "refused" => stage[c] \in DOMAIN WaitType /\ settled[c] = "no"
         /\ kind = "left" => /\ Head(down[c]).type = "peer-left" /\ stage[c] \in OfSession /\ settled[c] = "no"
                             /\ Head(down[c]).sid \in {None, sid[c]}
         /\ kind = "rejected" => stage[c] = "awaiting" /\ Head(down[c]).type = "pair-reject"
         /\ kind = "answer" => /\ stage[c] \in DOMAIN WaitType /\ settled[c] = "no"
                               /\ Head(down[c]).type = WaitType[stage[c]]
                               /\ stage[c] \in OfSession => Head(down[c]).sid \in {None, sid[c]}
         /\ kind = "lost" /\ stage[c] \in DOMAIN WaitType /\ settled[c] = "no" =>
              /\ Head(down[c]).type # "error"
              /\ stage[c] \notin OfSession \/ Head(down[c]).sid = sid[c] =>
                   Head(down[c]).type # WaitType[stage[c]]
              /\ stage[c] \in OfSession /\ Head(down[c]).sid = sid[c] => Head(down[c]).type # "peer-left"
<1> DEFINE m == Head(down[c])
<1>1. /\ down[c] # <<>> /\ down[c] \in Seq(Message) /\ m \in Message
      /\ m \in Q(down[c]) /\ stage[c] # "over" /\ ~Continuing(c) /\ Reaction(c) = kind
  BY QueueEnds DEF IInv, Types, Gets
<1>2. /\ WaitType[stage[c]] \notin {"close", "error", "peer-left", "pair-reject"} \/ stage[c] \notin DOMAIN WaitType
      /\ "awaiting" \in OfSession
  BY DEF WaitType, OfSession
<1> HIDE DEF m
<1>3. /\ m.type = "close" <=> kind = "closed"
      /\ kind \in {"crash", "refused"} => m.type = "error"
      /\ kind = "refused" => stage[c] \in DOMAIN WaitType /\ settled[c] = "no"
      /\ kind = "left" => /\ m.type = "peer-left" /\ stage[c] \in OfSession /\ settled[c] = "no"
                          /\ m.sid \in {None, sid[c]}
      /\ kind = "rejected" => stage[c] = "awaiting" /\ m.type = "pair-reject"
  <2>1. m.type = "close" <=> kind = "closed"
    BY <1>1, <1>2 DEF Reaction, m
  <2>2. kind \in {"crash", "refused"} => m.type = "error"
    BY <1>1 DEF Reaction, m
  <2>3. kind = "refused" => stage[c] \in DOMAIN WaitType /\ settled[c] = "no"
    BY <1>1 DEF Reaction, m
  <2>4. ASSUME kind = "left"
        PROVE  /\ m.type = "peer-left" /\ stage[c] \in OfSession /\ settled[c] = "no"
               /\ m.sid \in {None, sid[c]}
    BY <1>1, <2>4 DEF Reaction, m
  <2>5. kind = "rejected" => stage[c] = "awaiting" /\ m.type = "pair-reject"
    BY <1>1 DEF Reaction, m
  <2> QED
    BY <2>1, <2>2, <2>3, <2>4, <2>5
<1>4. ASSUME kind = "answer"
      PROVE  /\ stage[c] \in DOMAIN WaitType /\ settled[c] = "no"
             /\ m.type = WaitType[stage[c]]
             /\ stage[c] \in OfSession => m.sid \in {None, sid[c]}
  BY <1>1, <1>4 DEF Reaction, m
<1>5. ASSUME kind = "lost", stage[c] \in DOMAIN WaitType, settled[c] = "no"
      PROVE  /\ m.type # "error"
             /\ stage[c] \notin OfSession \/ m.sid = sid[c] => m.type # WaitType[stage[c]]
             /\ stage[c] \in OfSession /\ m.sid = sid[c] => m.type # "peer-left"
  BY <1>1, <1>2, <1>5 DEF Reaction, m
<1> QED
  BY <1>1, <1>3, <1>4, <1>5 DEF m

\* What a client says before something else is relayed before it.
LEMMA SeenBefore ==
  ASSUME NEW c, Ordered(c), NEW t \in RelayType, NEW u \in RelayType, <<c, t>> \in seen, Said(c, u),
         Rank(u) < Rank(t)
  PROVE  <<c, u>> \in seen
<1>1. ASSUME Carries(up[c], {u}, session)
      PROVE  FALSE
  <2>1. PICK m \in Q(up[c]) : m.type = u /\ m.sid = session
    BY <1>1 DEF Carries
  <2>2. Rank(t) < Rank(u)
    BY <2>1 DEF Ordered, Of
  <2> QED
    BY <2>2, Ranks
<1> QED
  BY <1>1 DEF Said

\* A message of the session that comes to the head finds its reader ready for it.
LEMMA HeadDue ==
  ASSUME IInv, Phases, Owed, session # None, NEW c \in {session, Receiver}, Reads(c),
         down[c] # <<>>, Head(down[c]).type \in Turns, Head(down[c]).sid = session
  PROVE  /\ sid[c] = session
         /\ Head(down[c]).type = "confirm" => stage[c] # "share"
         /\ Head(down[c]).type = "pair-request" =>
              /\ c = Receiver /\ stage[c] \notin {"share", "deriving"}
              /\ settled[c] # "no" \/ stage[c] \in Proven
<1>1. /\ session \in Sender /\ c \in Client /\ Receiver \in Client /\ session # Receiver /\ session \in Client
      /\ down[c] \in Seq(Message) /\ Turns \subseteq RelayType /\ session \notin cut /\ Receiver \notin cut
      /\ InPhase(session) /\ InPhase(Receiver) /\ Delivered(c)
  BY Clients DEF IInv, Types, Turns, RelayType, Phases, Owed, Hosting
<1> DEFINE m == Head(down[c])
           o == Target(c)
<1>2. /\ m \in Q(down[c]) /\ \A n \in Q(down[c]) : n = m \/ n \in Q(Tail(down[c]))
  BY <1>1, QueueEnds
<1>3. sid[c] = session
  <2>1. CASE c = session
    <3>1. SUFFICES ASSUME sid[c] # session PROVE FALSE
      OBVIOUS
    <3>2. sid[c] = None /\ stage[c] \notin Keyed \cup {"share"} /\ Meeting(c)
      BY <1>1, <2>1, <3>1 DEF IInv, Local, Owed
    <3>3. stage[c] = "joining"
      BY <1>1, <2>1, <3>2 DEF Owed, Hosting, Reads, Meeting, Stage, Keyed
    <3>4. Behind(down[c], RelayType, {"peer-joined"}, c)
      BY <3>2, <3>3 DEF Meeting
    <3> QED
      BY <1>1, <2>1, <3>4, BehindRest
  <2>2. CASE c = Receiver
    <3>1. SUFFICES ASSUME sid[c] # session PROVE FALSE
      OBVIOUS
    <3>2. Carries(down[c], {"peer-joined"}, session) /\ Awaited
      BY <2>2, <3>1 DEF Reads, Owed
    <3>3. Behind(down[c], RelayType, {"peer-joined"}, session)
      BY <2>2, <3>2 DEF Awaited
    <3> QED
      BY <1>1, <3>3, BehindRest
  <2> QED
    BY <2>1, <2>2
<1>4. /\ o \in {session, Receiver} /\ o \notin cut /\ InPhase(o) /\ InPhase(c)
      /\ <<o, m.type>> \in seen /\ Said(o, m.type)
  <2>1. Heard(c, m.type) /\ m.type \in RelayType
    BY <1>1, <1>2 DEF Heard, Carries
  <2>2. <<o, m.type>> \in seen
    BY <1>1, <2>1 DEF InPhase, Grounded
  <2> QED
    BY <1>1, <2>2 DEF Target, Said
<1>5. ASSUME NEW u \in Turns, <<o, u>> \in seen, Rank(u) < Rank(m.type)
      PROVE  Past(c, u)
  <2>1. ~Carries(down[c], {u}, session)
    <3>1. SUFFICES ASSUME NEW n \in Q(down[c]), n.type = u, n.sid = session PROVE FALSE
      BY DEF Carries
    <3>2. n \in Q(Tail(down[c])) /\ Of(m, session) /\ Of(n, session)
      BY <1>1, <1>2, <1>5, <3>1, Ranks DEF Of
    <3>3. Rank(m.type) < Rank(u)
      BY <1>1, <3>1, <3>2, RisingRest DEF Delivered
    <3> QED
      BY <1>1, <1>5, <3>3, Ranks
  <2> QED
    BY <1>1, <1>5, <2>1 DEF Delivered
<1>6. ASSUME m.type = "confirm"
      PROVE  stage[c] # "share"
  <2>1. <<o, "pake">> \in seen
    <3>1. Said(o, "pake") /\ Ordered(o) /\ <<o, "confirm">> \in seen
      BY <1>4, <1>6 DEF InPhase, Complete
    <3>2. Rank("pake") < Rank("confirm") /\ "pake" \in RelayType /\ "confirm" \in RelayType
      BY Ranks DEF RelayType
    <3> QED
      BY <3>1, <3>2, SeenBefore
  <2>2. Past(c, "pake")
    BY <1>5, <1>6, <2>1, Ranks DEF Turns
  <2> QED
    BY <2>2 DEF Past
<1>7. ASSUME m.type = "pair-request"
      PROVE  /\ c = Receiver /\ stage[c] \notin {"share", "deriving"}
             /\ settled[c] # "no" \/ stage[c] \in Proven
  <2>1. c = Receiver
    BY <1>1, <1>2, <1>7 DEF IInv, DownSound, Sound
  <2>2. Said(session, "confirm") /\ Said(session, "pair-request") /\ <<session, "pair-request">> \in seen
    BY <1>1, <1>4, <1>7, <2>1 DEF InPhase, Complete, Asking, Target
  <2>3. <<session, "confirm">> \in seen
    <3>1. /\ Rank("confirm") < Rank("pair-request") /\ Ordered(session)
          /\ "confirm" \in RelayType /\ "pair-request" \in RelayType
      BY <1>1, Ranks DEF InPhase, RelayType
    <3> QED
      BY <2>2, <3>1, SeenBefore
  <2>4. Past(c, "confirm")
    BY <1>5, <1>7, <2>1, <2>3, Ranks DEF Turns, Target
  <2>5. <<Receiver, "confirm">> \in seen
    <3>1. Heard(session, "confirm") /\ Target(session) = Receiver
      BY <1>1, <2>2 DEF Heard, Asking, Target
    <3> QED
      BY <1>1, <3>1 DEF InPhase, Grounded, RelayType
  <2>6. 2 <= Limit(Receiver)
    BY <1>1, <2>5, Ranks DEF InPhase, Within, Said, RelayType
  <2>7. stage[c] \notin {"share", "deriving"}
    BY <1>1, <1>3, <2>1, <2>6 DEF Limit, Depth
  <2> QED
    BY <2>1, <2>4, <2>7 DEF Past
<1> QED
  BY <1>3, <1>6, <1>7

\* A member that reads on has what was relayed to it, or had it.
LEMMA DeliveredStep ==
  ASSUME IInv, Phases, Owed, session # None, NEW c \in {session, Receiver}, Solo(c),
         Reads(c)' => Reads(c),
         \A t \in Turns : Past(c, t) => Past(c, t)' \/ ~Reads(c)',
         \/ down'[c] = down[c]
         \/ /\ down[c] # <<>> /\ down'[c] = Tail(down[c])
            /\ \A t \in Turns : Head(down[c]).type = t /\ Head(down[c]).sid = session /\ Reads(c)' => Past(c, t)'
  PROVE  Delivered(c)'
<1>1. /\ session' = session /\ seen' = seen /\ c \in Client /\ down[c] \in Seq(Message)
      /\ Target(c)' = Target(c) /\ Delivered(c)
  BY Clients DEF Solo, IInv, Types, Target, Owed
<1>2. Rising(down'[c], session)
  BY <1>1, RisingRest DEF Delivered
<1>3. ASSUME Reads(c)', NEW t \in Turns, <<Target(c), t>> \in seen
      PROVE  Carries(down'[c], {t}, session) \/ Past(c, t)'
  <2>1. Carries(down[c], {t}, session) \/ Past(c, t)'
    BY <1>1, <1>3 DEF Delivered
  <2>2. CASE down'[c] = down[c]
    BY <2>1, <2>2
  <2>3. CASE /\ down[c] # <<>> /\ down'[c] = Tail(down[c])
             /\ Head(down[c]).type = t /\ Head(down[c]).sid = session => Past(c, t)'
    <3>1. \A m \in Q(down[c]) : m = Head(down[c]) \/ m \in Q(Tail(down[c]))
      BY <1>1, <2>3, QueueEnds
    <3> QED
      BY <1>3, <2>1, <2>3, <3>1 DEF Carries
  <2> QED
    BY <1>3, <2>2, <2>3
<1> QED
  BY <1>1, <1>2, <1>3 DEF Delivered

\* The close that the server has sent stays until it is seen.
LEMMA ClosingStep ==
  ASSUME IInv, Owed, NEW c \in Client, Solo(c), stage[c] # "over",
         stage'[c] # "over", stage'[c] = "start" => stage[c] = "start",
         c \in shut' <=> c \in shut, c \in shut => stage'[c] \in {"deriving", "sealing", "deciding", "paired"},
         settled'[c] # "no" => stage'[c] \in {"share", "deriving", "confirming"},
         \/ down'[c] = down[c]
         \/ down[c] # <<>> /\ down'[c] = Tail(down[c]) /\ Head(down[c]).type # "close"
  PROVE  Closing(c)' /\ Leaving(c)'
<1>1. Closing(c) /\ down[c] \in Seq(Message) /\ cut' = cut
  BY DEF Owed, IInv, Types, Solo
<1>2. Has(down'[c], {"close"}) <=> Has(down[c], {"close"})
  BY <1>1, HasEnds
<1> QED
  BY <1>1, <1>2 DEF Closing, Leaving

\* A sender past its rendezvous.
LEMMA MeetingStep ==
  ASSUME IInv, Owed, NEW c \in Sender, Solo(c), stage'[c] \in Stage,
         stage'[c] \notin {"registering", "rekeying", "rerequesting", "request", "deciding", "ice", "joining"},
         Q(down'[c]) \subseteq Q(down[c]),
         sid'[c] = sid[c] \/ Has(down[c], {"peer-joined"}),
         session = c /\ stage'[c] = "awaiting" => Said(c, "pair-request")',
         c \notin cached' \cup shut' /\ stage'[c] # "paired" =>
           Behind(down'[c], {"pair-accept"}, {"ice-config"}, c)
  PROVE  Meeting(c)'
<1>1. Meeting(c) /\ session' = session /\ cut' = cut
  BY DEF Owed, Solo
<1>2. Has(down'[c], {"peer-joined"}) => Has(down[c], {"peer-joined"})
  BY DEF Has
<1> QED
  BY <1>1, <1>2 DEF Meeting

\* ... has its ICE configuration before the acceptance.
LEMMA IceStep ==
  ASSUME IInv, Owed, NEW c \in Sender, stage[c] = "paired" => stage'[c] = "paired",
         c \in cached \cup shut => c \in cached' \cup shut',
         \/ down'[c] = down[c]
         \/ /\ down[c] # <<>> /\ down'[c] = Tail(down[c])
            /\ Head(down[c]).type = "ice-config" => c \in cached' \cup shut',
         c \notin cached' \cup shut', stage'[c] # "paired"
  PROVE  Behind(down'[c], {"pair-accept"}, {"ice-config"}, c)
<1>1. Behind(down[c], {"pair-accept"}, {"ice-config"}, c) /\ down[c] \in Seq(Message)
  BY Clients DEF Owed, Meeting, IInv, Types
<1> QED
  BY <1>1, BehindRest

\* A client takes a message when it is ready for it.
Consumes(c) ==
  /\ down[c] # <<>> /\ down'[c] = Tail(down[c])
  /\ Head(down[c]).sid = session /\ sid[c] = session =>
       /\ Head(down[c]).type = "pake" => stage'[c] # "share"
       /\ Head(down[c]).type = "confirm" => settled'[c] # "no" \/ stage'[c] \in Proven
       /\ Head(down[c]).type = "pair-request" => stage'[c] \in Deciding

\* A step of a client within its session.
Steady(c, r) ==
  /\ Solo(c) /\ stage[c] \in Keyed \cup {"share"} /\ stage'[c] \in Keyed \cup {"share"} /\ sid'[c] = sid[c]
  /\ r \in Seq(Message) /\ up'[c] = up[c] \o r /\ ~Has(r, {"register", "retry"})
  /\ stage[c] # "share" => stage'[c] # "share"
  /\ settled[c] # "no" \/ stage[c] \in Proven => settled'[c] # "no" \/ stage'[c] \in Proven
  /\ stage[c] \in Deciding => stage'[c] \in Deciding
  /\ down'[c] = down[c] \/ Consumes(c)

\* What was relayed to a client that goes on is on its way or read.
LEMMA SteadyDelivered ==
  ASSUME IInv, IInv', Phases, Owed, NEW c \in Client, NEW r, Steady(c, r), session # None, c \in {session, Receiver}
  PROVE  Delivered(c)'
<1>1. /\ sid[c] # None /\ (c \in Sender => sid[c] = c)
      /\ stage[c] # "over" /\ stage'[c] # "over" /\ sid'[c] = sid[c] /\ session' = session
      /\ down[c] \in Seq(Message)
  BY DEF IInv, Types, Local, Steady, Solo, Keyed
<1>2. Reads(c)' => Reads(c)
  <2>1. Q(down'[c]) \subseteq Q(down[c])
    BY <1>1, QueueEnds DEF Steady, Consumes
  <2> QED
    BY <1>1, <2>1 DEF Reads, Carries
<1>3. \A t \in Turns : Past(c, t) => Past(c, t)'
  BY <1>1 DEF Past, Steady
<1>4. CASE down'[c] = down[c]
  BY <1>2, <1>3, <1>4, DeliveredStep DEF Steady
<1>5. CASE Consumes(c)
  <2>1. \A t \in Turns : Head(down[c]).type = t /\ Head(down[c]).sid = session /\ Reads(c)' => Past(c, t)'
    <3>1. SUFFICES ASSUME NEW t \in Turns, Head(down[c]).type = t, Head(down[c]).sid = session, Reads(c)'
                   PROVE  Past(c, t)'
      OBVIOUS
    <3>2. sid[c] = session
      BY <1>2, <1>5, <3>1, HeadDue DEF Consumes
    <3> QED
      BY <1>1, <1>5, <3>1, <3>2 DEF Consumes, Past, Turns
  <2> QED
    BY <1>2, <1>3, <1>5, <2>1, DeliveredStep DEF Steady, Consumes
<1> QED
  BY <1>4, <1>5 DEF Steady

\* The receiver reads on to the announcement, if it is still to come.
LEMMA StillBehind ==
  ASSUME IInv, Owed, session # None,
         \/ down'[Receiver] = down[Receiver]
         \/ down[Receiver] # <<>> /\ down'[Receiver] = Tail(down[Receiver]),
         Carries(down'[Receiver], {"peer-joined"}, session)
  PROVE  Behind(down'[Receiver], RelayType, {"peer-joined"}, session)
<1>1. /\ Receiver \in Client /\ down[Receiver] \in Seq(Message) /\ AnnouncedOnce(down[Receiver])
  BY Clients DEF IInv, Types, MeetsOnce
<1>2. Carries(down[Receiver], {"peer-joined"}, session)
  BY <1>1, QueueEnds DEF Carries
<1>3. Behind(down[Receiver], RelayType, {"peer-joined"}, session)
  BY <1>2 DEF Owed, Awaited
<1>4. CASE down'[Receiver] = down[Receiver]
  BY <1>3, <1>4
<1>5. CASE down[Receiver] # <<>> /\ down'[Receiver] = Tail(down[Receiver])
  <2>1. ~(Head(down[Receiver]).type = "peer-joined" /\ Head(down[Receiver]).sid = session)
    BY <1>1, <1>5, RestOnce
  <2>2. Head(down[Receiver]).type = "peer-joined" => Head(down[Receiver]).sid # None
    <3>1. Head(down[Receiver]) \in Q(down[Receiver])
      BY <1>1, <1>5, QueueEnds
    <3> QED
      BY <1>1, <3>1, Clients DEF IInv, DownSound
  <2> QED
    BY <1>1, <1>3, <1>5, <2>1, <2>2, BehindRest
<1> QED
  BY <1>4, <1>5

\* A sender that goes on in its session.
LEMMA SteadySender ==
  ASSUME IInv, IInv', Phases, Owed, NEW c \in Sender, NEW r, Steady(c, r), Closing(c)',
         stage'[c] \notin {"request", "deciding", "ice"},
         session = c /\ stage'[c] = "awaiting" => Said(c, "pair-request")',
         c \notin cached' \cup shut' /\ stage'[c] # "paired" =>
           Behind(down'[c], {"pair-accept"}, {"ice-config"}, c)
  PROVE  Owed'
<1>1. c \in Client /\ c # Receiver /\ down[c] \in Seq(Message) /\ up[c] \in Seq(Message)
  BY Clients DEF IInv, Types
<1>2. Q(down'[c]) \subseteq Q(down[c])
  BY <1>1, QueueEnds DEF Steady, Consumes
<1>3. /\ stage'[c] \in Stage /\ stage'[c] \notin {"start", "over", "joining", "registering", "rekeying", "rerequesting"}
      /\ Leaving(c)'
  BY <1>1 DEF Steady, Keyed, Stage, Leaving
<1>4. Meeting(c)'
  BY <1>2, <1>3, MeetingStep DEF Steady
<1>5. ~Has(up'[c], {"register", "retry"})
  BY <1>1, HasEnds DEF Owed, Hosting, Steady
<1>6. session = c => Delivered(c)'
  BY <1>1, SteadyDelivered, Clients
<1> QED
  BY <1>3, <1>4, <1>5, <1>6, SenderOwed, Zenon DEF Steady

\* The receiver that goes on in its session.
LEMMA SteadyReceiver ==
  ASSUME IInv, IInv', Phases, Owed, NEW r, Steady(Receiver, r), Closing(Receiver)',
         stage'[Receiver] \notin {"sealing", "awaiting"},
         Receiver \notin cut /\ stage'[Receiver] = "ice" =>
           Has(up'[Receiver], {"pair-accept"}) \/ Has(down'[Receiver], {"ice-config", "error"}),
         Receiver \notin cut /\ sid[Receiver] # session /\ Adrift => Adrift',
         session # None /\ sid[Receiver] = session /\ stage'[Receiver] = "ice" => Said(Receiver, "pair-accept")'
  PROVE  Owed'
<1>1. /\ Receiver \in Client /\ up[Receiver] \in Seq(Message) /\ session' = session /\ cut' = cut /\ waiting' = waiting
      /\ r \in Seq(Message) /\ up'[Receiver] = up[Receiver] \o r /\ sid'[Receiver] = sid[Receiver]
      /\ ~Has(r, {"register", "retry"}) /\ ~Has(r, {"register"}) /\ ~Has(r, {"retry"})
      /\ session \in Sender \cup {None}
  BY Clients DEF IInv, Types, Steady, Solo, Has
<1>2. stage'[Receiver] \notin {"start", "over", "joining", "registering", "rekeying", "rerequesting"} /\ Leaving(Receiver)'
  BY DEF Steady, Keyed, Leaving
<1>3. Hosting'
  <2>1. Hosting
    BY DEF Owed
  <2>2. Has(up'[Receiver], {"register"}) => Has(up[Receiver], {"register"})
    BY <1>1, HasEnds
  <2>3. RegistersFirst(up'[Receiver])
    BY <1>1, <2>1, RegistersJoin DEF Hosting
  <2>4. \A s \in Sender : ~Has(up'[s], {"register", "retry"})
    BY <2>1, Clients DEF Hosting, Steady, Solo
  <2>5. session # None => stage'[session] = stage[session]
    BY <1>1, Clients DEF Steady, Solo
  <2> QED
    BY <1>1, <1>2, <2>1, <2>2, <2>3, <2>4, <2>5 DEF Hosting
<1>4. Returning'
  <2>1. Returning
    BY DEF Owed
  <2>2. Receiver \notin cut /\ sid[Receiver] # None => Resumes(up'[Receiver], sid[Receiver])
    BY <1>1, <2>1, ResumesJoin DEF Returning
  <2> QED
    BY <1>1, <1>2, <2>1, <2>2 DEF Returning
<1>5. Awaited'
  <2>1. session # None /\ Carries(down'[Receiver], {"peer-joined"}, session) =>
          Behind(down'[Receiver], RelayType, {"peer-joined"}, session)
    BY StillBehind DEF Steady, Consumes
  <2> QED
    BY <1>1, <1>2, <2>1 DEF Awaited, Free, Early
<1>6. session # None => Delivered(Receiver)'
  BY <1>1, SteadyDelivered
<1> QED
  BY <1>1, <1>2, <1>3, <1>4, <1>5, <1>6, ReceiverOwed DEF Steady

\* Both kinds of client, within a session.
LEMMA SteadyOwed ==
  ASSUME IInv, IInv', Phases, Owed, NEW c \in Client, NEW r, Steady(c, r), Closing(c)',
         c \in Sender => stage'[c] \notin {"request", "deciding", "ice"},
         c = Receiver => stage'[c] \notin {"sealing", "awaiting"},
         stage[c] = "paired" => stage'[c] = "paired",
         c \in cached \cup shut => c \in cached' \cup shut',
         down'[c] # down[c] /\ Head(down[c]).type = "ice-config" => c \in cached' \cup shut' \/ stage'[c] = "paired",
         stage'[c] = "awaiting" /\ session = c => Said(c, "pair-request")',
         c = Receiver /\ stage'[c] = "ice" /\ c \notin cut =>
           Has(up'[c], {"pair-accept"}) \/ Has(down'[c], {"ice-config", "error"}),
         c = Receiver /\ c \notin cut /\ sid[c] # session /\ Adrift => Adrift',
         c = Receiver /\ session # None /\ sid[c] = session /\ stage'[c] = "ice" => Said(c, "pair-accept")'
  PROVE  Owed'
<1>1. CASE c \in Sender
  <2>1. ASSUME c \notin cached' \cup shut', stage'[c] # "paired"
        PROVE  Behind(down'[c], {"pair-accept"}, {"ice-config"}, c)
    <3>1. \/ down'[c] = down[c]
          \/ /\ down[c] # <<>> /\ down'[c] = Tail(down[c])
             /\ Head(down[c]).type = "ice-config" => c \in cached' \cup shut'
      BY <2>1 DEF Steady, Consumes
    <3> QED
      BY <1>1, <2>1, <3>1, IceStep
  <2> QED
    BY <1>1, <2>1, SteadySender
<1>2. CASE c = Receiver
  BY <1>2, SteadyReceiver
<1> QED
  BY <1>1, <1>2, Clients

\* A step in which nothing is sent adds nothing to the queue.
LEMMA NothingSaid ==
  ASSUME Types, NEW c \in Client, up' = up
  PROVE  up'[c] = up[c] \o <<>> /\ <<>> \in Seq(Message) /\ ~Has(<<>>, {"register", "retry"})
<1>1. up[c] \in Seq(Message) /\ up'[c] = up[c] /\ <<>> \in Seq(Message)
  BY NoMessage DEF Types
<1>2. up[c] \o <<>> = up[c]
  BY <1>1, ConcatEmptySeq
<1> QED
  BY <1>1, <1>2, HasEnds

\* What has reached the receiver of a session that is gone is still there.
LEMMA StillAdrift ==
  ASSUME IInv, Owed, NEW q \in Seq(Message), up'[Receiver] = up[Receiver] \o q, sid'[Receiver] = sid[Receiver],
         Adrift,
         \/ down'[Receiver] = down[Receiver]
         \/ /\ down[Receiver] # <<>> /\ down'[Receiver] = Tail(down[Receiver])
            /\ Head(down[Receiver]).type \notin {"error", "peer-left"},
         stage[Receiver] \in OfSession => stage'[Receiver] \in OfSession \cup {"deciding", "paired"},
         settled[Receiver] \notin {"no", "good"} => settled'[Receiver] \notin {"no", "good"},
         stage[Receiver] \in {"deriving", "deciding", "paired"} =>
           \/ stage'[Receiver] \in {"deriving", "deciding", "paired"}
           \/ Carries(q, RelayType, sid[Receiver])
  PROVE  Adrift'
<1>1. Receiver \in Client /\ up[Receiver] \in Seq(Message) /\ down[Receiver] \in Seq(Message)
  BY Clients DEF IInv, Types
<1>2. /\ Carries(up[Receiver], RelayType, sid[Receiver]) => Carries(up'[Receiver], RelayType, sid[Receiver])
      /\ Carries(q, RelayType, sid[Receiver]) => Carries(up'[Receiver], RelayType, sid[Receiver])
  BY <1>1, QueueJoins DEF Carries
<1>3. /\ Has(down[Receiver], {"error"}) => Has(down'[Receiver], {"error"})
      /\ Carries(down[Receiver], {"peer-left"}, sid[Receiver]) => Carries(down'[Receiver], {"peer-left"}, sid[Receiver])
  BY <1>1, QueueEnds DEF Has, Carries
<1> QED
  BY <1>2, <1>3 DEF Adrift

\* The peer's share has come.
LEMMA PeerShareOwed ==
  ASSUME IInv, IInv', Phases, Owed, NEW c \in Client, PeerShare(c)
  PROVE  Owed'
<1>1. /\ stage[c] = "share" /\ Gets(c, "answer") /\ Pop(c) /\ stage' = [stage EXCEPT ![c] = "deriving"]
      /\ sid' = sid /\ settled' = settled /\ cached' = cached /\ shut' = shut /\ up' = up /\ ClientOnly
  BY DEF PeerShare, Go
<1>2. /\ down[c] # <<>> /\ settled[c] = "no" /\ Head(down[c]).type = "pake"
  BY <1>1, HeadIs DEF WaitType
<1>3. Alone(c) /\ Solo(c)
  BY <1>1, <1>2, AloneIf, SoloIf, Zenon
<1>4. stage'[c] = "deriving" /\ down'[c] = Tail(down[c]) /\ sid'[c] = sid[c] /\ settled'[c] = "no"
  BY <1>1, <1>2 DEF Pop, IInv, Types
<1>5. Steady(c, <<>>) /\ Consumes(c)
  <2>1. Consumes(c)
    BY <1>2, <1>4 DEF Consumes
  <2> QED
    BY <1>1, <1>2, <1>3, <1>4, <2>1, NothingSaid DEF Steady, Keyed, Proven, Deciding, IInv
<1>6. Closing(c)'
  BY <1>1, <1>2, <1>3, <1>4, ClosingStep
<1>7. c = Receiver => Adrift'
  BY <1>4 DEF Adrift
<1> QED
  BY <1>1, <1>2, <1>4, <1>5, <1>6, <1>7, SteadyOwed

\* A read of which nothing is lost is that of one message.
LEMMA ReadOne ==
  ASSUME Types, NEW c \in Client, down[c] # <<>>, TakeRead(c), ClientOnly, stage'[c] # "over", missed' = {}
  PROVE  Pop(c)
<1>1. down \in [Client -> Seq(Message)] /\ down[c] \in Seq(Message) /\ Len(down[c]) \in Nat
  BY LenProperties DEF Types
<1>2. SUFFICES ASSUME ~Pop(c) PROVE FALSE
  OBVIOUS
<1>3. PICK n \in 2 .. Len(down[c]) : down' = [down EXCEPT ![c] = SubSeq(@, n + 1, Len(@))]
  BY <1>2 DEF TakeRead
<1>4. down'[c] = SubSeq(down[c], n + 1, Len(down[c])) /\ n \in 1 .. Len(down[c])
  BY <1>1, <1>3
<1>5. Len(down'[c]) = Len(down[c]) - n
  BY <1>1, <1>4, Suffix
<1>6. Len(down'[c]) + 1 < Len(down[c])
  <2> DEFINE k == Len(down[c])
             l == Len(down'[c])
  <2>1. k \in Nat /\ n \in 2 .. k /\ l = k - n
    BY <1>1, <1>5
  <2> HIDE DEF k, l
  <2>2. l + 1 < k
    BY <2>1
  <2> QED
    BY <2>2 DEF k, l
<1>7. Misses(c)
  BY <1>6 DEF Misses
<1> QED
  BY <1>7 DEF ClientOnly

\* The wait for the confirmation has settled.
LEMMA SettleOwed ==
  ASSUME IInv, IInv', Phases, Owed, NEW c \in Client, Settle(c), missed' = {}
  PROVE  Owed'
<1>1. PICK kind \in {"answer", "left", "refused"} :
        /\ \/ stage[c] \in {"deriving", "confirming"}
           \/ stage[c] = "share" /\ kind # "answer"
        /\ Gets(c, kind)
        /\ settled' = [settled EXCEPT ![c] =
             IF kind # "answer" THEN kind
             ELSE IF Verifies(c, Head(down[c])) THEN "good" ELSE "bad"]
  BY Zenon DEF Settle
<1>2. /\ Pop(c) /\ ClientOnly
      /\ sid' = sid /\ stage' = stage /\ cached' = cached /\ shut' = shut /\ up' = up
  <2>1. down[c] # <<>> /\ stage[c] # "over"
    BY <1>1 DEF Gets
  <2> QED
    BY <2>1, ReadOne DEF Settle, IInv
<1>3. /\ down[c] # <<>> /\ settled[c] = "no" /\ Head(down[c]).type \in {"confirm", "peer-left", "error"}
      /\ kind = "answer" => Head(down[c]).type = "confirm"
  BY <1>1, HeadIs DEF WaitType
<1>4. Alone(c) /\ Solo(c)
  BY <1>1, <1>2, <1>3, AloneIf, SoloIf, Zenon
<1>5. /\ stage'[c] = stage[c] /\ down'[c] = Tail(down[c]) /\ sid'[c] = sid[c]
      /\ settled'[c] # "no" /\ (kind # "answer" => settled'[c] \notin {"no", "good"})
  BY <1>1, <1>2, <1>3 DEF Pop, IInv, Types
<1>6. Steady(c, <<>>) /\ Consumes(c)
  <2>1. Consumes(c)
    BY <1>3, <1>5 DEF Consumes
  <2> QED
    BY <1>1, <1>2, <1>4, <1>5, <2>1, NothingSaid DEF Steady, Keyed, IInv
<1>7. Closing(c)'
  <2>1. c \in shut => stage[c] \in {"deriving", "sealing", "deciding", "paired"}
    BY DEF Owed, Closing
  <2> QED
    BY <1>1, <1>2, <1>3, <1>4, <1>5, <2>1, ClosingStep
<1>8. c = Receiver /\ Adrift => Adrift'
  <2>1. CASE kind # "answer"
    BY <1>5, <2>1 DEF Adrift
  <2>2. CASE kind = "answer"
    BY <1>2, <1>3, <1>5, <2>2, NothingSaid, StillAdrift, Zenon DEF IInv
  <2> QED
    BY <2>1, <2>2
<1> QED
  BY <1>1, <1>2, <1>3, <1>5, <1>6, <1>7, <1>8, SteadyOwed

\* The timer of the wait for the confirmation.
LEMMA TimerOwed ==
  ASSUME IInv, IInv', Phases, Owed, NEW c \in Client, stage[c] \in {"share", "deriving", "confirming"},
         settled' = [settled EXCEPT ![c] = "timeout"],
         UNCHANGED <<sid, key, cached, counters, stage, shut, outcome, accepted, up, down>>, ClientOnly
  PROVE  Owed'
<1>1. Alone(c) /\ Solo(c)
  BY AloneIf, SoloIf, Zenon
<1>2. stage'[c] = stage[c] /\ down'[c] = down[c] /\ sid'[c] = sid[c] /\ settled'[c] = "timeout"
  BY DEF IInv, Types
<1>3. Steady(c, <<>>)
  BY <1>1, <1>2, NothingSaid DEF Steady, Keyed, IInv
<1>4. Closing(c)'
  <2>1. c \in shut => stage[c] \in {"deriving", "sealing", "deciding", "paired"}
    BY DEF Owed, Closing
  <2> QED
    BY <1>1, <1>2, <2>1, ClosingStep
<1>5. c = Receiver => Adrift'
  BY <1>2 DEF Adrift
<1> QED
  BY <1>2, <1>3, <1>4, <1>5, SteadyOwed

\* The keys are confirmed.
LEMMA ConfirmedOwed ==
  ASSUME IInv, IInv', Phases, Owed, NEW c \in Client, Confirmed(c)
  PROVE  Owed'
<1>1. /\ stage[c] = "confirming" /\ settled[c] = "good"
      /\ stage' = [stage EXCEPT ![c] = IF c = Receiver THEN "request" ELSE "sealing"]
      /\ settled' = [settled EXCEPT ![c] = "no"]
      /\ sid' = sid /\ cached' = cached /\ shut' = shut /\ up' = up /\ down' = down /\ ClientOnly
  BY DEF Confirmed, Go
<1>2. Alone(c) /\ Solo(c)
  BY <1>1, AloneIf, SoloIf, Zenon
<1>3. /\ stage'[c] = IF c = Receiver THEN "request" ELSE "sealing"
      /\ down'[c] = down[c] /\ sid'[c] = sid[c] /\ settled'[c] = "no"
  BY <1>1 DEF IInv, Types
<1>4. Steady(c, <<>>)
  BY <1>1, <1>2, <1>3, NothingSaid DEF Steady, Keyed, Proven, Deciding, IInv
<1>5. Closing(c)'
  <2>1. c \notin shut
    BY <1>1 DEF Owed, Closing
  <2> QED
    BY <1>1, <1>2, <1>3, <2>1, ClosingStep
<1>6. c = Receiver /\ Adrift => Adrift'
  BY <1>1, <1>3, NothingSaid, StillAdrift, Zenon DEF IInv, OfSession
<1> QED
  BY <1>1, <1>3, <1>4, <1>5, <1>6, SteadyOwed, Clients

\* The receiver has the request.
LEMMA RequestsOwed ==
  ASSUME IInv, IInv', Phases, Owed, Requests
  PROVE  Owed'
<1> DEFINE c == Receiver
<1>1. /\ stage[c] = "request" /\ Gets(c, "answer") /\ Pop(c) /\ stage' = [stage EXCEPT ![c] = "deciding"]
      /\ sid' = sid /\ settled' = settled /\ cached' = cached /\ shut' = shut /\ up' = up /\ ClientOnly
      /\ c \in Client
  BY Clients DEF Requests, Go, held
<1>2. /\ down[c] # <<>> /\ settled[c] = "no" /\ Head(down[c]).type = "pair-request"
  BY <1>1, HeadIs DEF WaitType
<1>3. Alone(c) /\ Solo(c)
  BY <1>1, <1>2, AloneIf, SoloIf, Zenon
<1>4. stage'[c] = "deciding" /\ down'[c] = Tail(down[c]) /\ sid'[c] = sid[c] /\ settled'[c] = "no"
  BY <1>1, <1>2 DEF Pop, IInv, Types
<1>5. Steady(c, <<>>)
  <2>1. Consumes(c)
    BY <1>2, <1>4 DEF Consumes, Deciding
  <2> QED
    BY <1>1, <1>2, <1>3, <1>4, <2>1, NothingSaid DEF Steady, Keyed, Proven, Deciding, IInv
<1>6. Closing(c)'
  BY <1>1, <1>2, <1>3, <1>4, ClosingStep
<1>7. Adrift'
  BY <1>4 DEF Adrift
<1> QED
  BY <1>1, <1>2, <1>4, <1>5, <1>6, <1>7, SteadyOwed, Clients

\* The sender has the acceptance.
LEMMA AcceptedOwed ==
  ASSUME IInv, IInv', Phases, Owed, NEW c \in Sender, Accepted(c)
  PROVE  Owed'
<1>1. /\ stage[c] = "awaiting" /\ Gets(c, "answer") /\ Pop(c)
      /\ stage' = [stage EXCEPT ![c] = IF c \in cached THEN "paired" ELSE "ice"]
      /\ sid' = sid /\ settled' = settled /\ cached' = cached /\ shut' = shut /\ up' = up /\ ClientOnly
      /\ c \in Client /\ c # Receiver
  BY Clients DEF Accepted, Go, held
<1>2. /\ down[c] # <<>> /\ settled[c] = "no" /\ Head(down[c]).type = "pair-accept" /\ Head(down[c]) \in Q(down[c])
      /\ down[c] \in Seq(Message)
  BY <1>1, HeadIs DEF WaitType
<1>3. Head(down[c]).sid = c
  BY <1>1, <1>2 DEF IInv, DownSound, RelayType
<1>4. c \in cached
  <2>1. c \notin shut /\ Meeting(c)
    BY <1>1 DEF Owed, Closing
  <2>2. c \notin cached => Behind(down[c], {"pair-accept"}, {"ice-config"}, c)
    BY <1>1, <2>1 DEF Meeting
  <2> QED
    BY <1>2, <1>3, <2>2, BehindRest
<1>5. Alone(c) /\ Solo(c)
  BY <1>1, <1>2, AloneIf, SoloIf, Zenon
<1>6. stage'[c] = "paired" /\ down'[c] = Tail(down[c]) /\ sid'[c] = sid[c] /\ settled'[c] = "no"
  BY <1>1, <1>2, <1>4 DEF Pop, IInv, Types
<1>7. Steady(c, <<>>)
  <2>1. Consumes(c)
    BY <1>2, <1>6 DEF Consumes
  <2> QED
    BY <1>1, <1>2, <1>5, <1>6, <2>1, NothingSaid DEF Steady, Keyed, Proven, Deciding, IInv
<1>8. Closing(c)'
  BY <1>1, <1>2, <1>5, <1>6, ClosingStep
<1> QED
  BY <1>1, <1>2, <1>6, <1>7, <1>8, SteadyOwed

\* The receiver has its ICE configuration, or goes on without it.
LEMMA ThroughOwed ==
  ASSUME IInv, IInv', Phases, Owed, NEW c \in Client,
         \/ IceConfig(c)
         \/ /\ stage[c] = "ice" /\ Go(c, "paired")
            /\ UNCHANGED <<held, counters, shut, outcome, accepted, up, down>> /\ ClientOnly
  PROVE  Owed'
<1>1. /\ stage[c] = "ice" /\ stage' = [stage EXCEPT ![c] = "paired"]
      /\ sid' = sid /\ settled' = settled /\ cached' \in {cached, cached \cup {c}} /\ shut' = shut /\ up' = up /\ ClientOnly
      /\ down' = down \/ (Gets(c, "answer") /\ Pop(c))
  BY DEF IceConfig, Go, held
<1>2. Gets(c, "answer") => down[c] # <<>> /\ Head(down[c]).type = "ice-config"
  BY <1>1, HeadIs DEF WaitType
<1>3. Alone(c) /\ Solo(c)
  BY <1>1, <1>2, AloneIf, SoloIf, Zenon
<1>4. stage'[c] = "paired" /\ sid'[c] = sid[c] /\ settled'[c] = "no" /\ c \notin shut
  BY <1>1, Zenon DEF IInv, Types, Owed, Closing
<1>5. down'[c] = down[c] \/ (down[c] # <<>> /\ down'[c] = Tail(down[c]) /\ Head(down[c]).type = "ice-config")
  BY <1>1, <1>2 DEF Pop, IInv, Types
<1>6. Steady(c, <<>>)
  <2>1. down'[c] = down[c] \/ Consumes(c)
    BY <1>5 DEF Consumes
  <2> QED
    BY <1>1, <1>3, <1>4, <2>1, NothingSaid DEF Steady, Keyed, Proven, Deciding, IInv
<1>7. Closing(c)'
  BY <1>1, <1>3, <1>4, <1>5, ClosingStep
<1>8. c = Receiver => Adrift'
  BY <1>4 DEF Adrift
<1> QED
  BY <1>1, <1>4, <1>6, <1>7, <1>8, SteadyOwed

\* A client sees its socket close.
LEMMA SeesCloseOwed ==
  ASSUME IInv, IInv', Phases, Owed, NEW c \in Client, SeesClose(c)
  PROVE  Owed'
<1>1. /\ stage[c] \in {"deriving", "sealing", "deciding", "paired"} /\ Gets(c, "closed") /\ Pop(c)
      /\ shut' = shut \cup {c} /\ cached' = cached \ {c} /\ stage' = stage
      /\ sid' = sid /\ settled' = settled /\ up' = up /\ ClientOnly
  BY DEF SeesClose
<1>2. /\ down[c] # <<>> /\ Head(down[c]).type = "close" /\ down[c] \in Seq(Message)
  BY <1>1, HeadIs
<1>3. Alone(c) /\ Solo(c)
  BY <1>1, <1>2, AloneIf, SoloIf
<1>4. /\ stage'[c] = stage[c] /\ down'[c] = Tail(down[c]) /\ sid'[c] = sid[c] /\ settled'[c] = settled[c]
      /\ cut' = cut
  BY <1>1, <1>2, <1>3 DEF Pop, IInv, Types, Solo
<1>5. Steady(c, <<>>)
  <2>1. Consumes(c)
    BY <1>2, <1>4 DEF Consumes
  <2> QED
    BY <1>1, <1>3, <1>4, <2>1, NothingSaid DEF Steady, Keyed, IInv
<1>6. Closing(c)'
  <2>1. Closing(c) /\ Has(down[c], {"close"}) /\ (Has(down'[c], {"close"}) => Has(down[c], {"close"}))
    BY <1>2, <1>4, HasEnds DEF Owed
  <2> QED
    BY <1>1, <1>4, <2>1 DEF Closing
<1>7. c = Receiver => Adrift'
  <2>1. c = Receiver => stage[c] # "sealing"
    BY DEF Owed, Hosting
  <2> QED
    BY <1>1, <1>4, <2>1 DEF Adrift
<1>8. /\ c \in Sender => stage'[c] \notin {"request", "deciding", "ice"}
      /\ c = Receiver => stage'[c] \notin {"sealing", "awaiting"}
  BY <1>1, <1>4 DEF Owed, Meeting, Hosting
<1> QED
  BY <1>1, <1>4, <1>5, <1>6, <1>7, <1>8, SteadyOwed

\* A client speaks in its session.
LEMMA SayOwed ==
  ASSUME IInv, IInv', Phases, Owed, NEW c \in Client, NEW t, NEW st,
         \/ SendConfirm(c) /\ t = "confirm" /\ st = "confirming"
         \/ c \in Sender /\ PairRequest(c) /\ t = "pair-request" /\ st = "awaiting"
         \/ c = Receiver /\ Accept /\ t = "pair-accept" /\ st = "ice"
  PROVE  Owed'
<1> DEFINE m == Msg(t, sid[c], key[c])
<1>1. /\ stage[c] \in {"deriving", "sealing", "deciding"} /\ c \notin shut
      /\ Send(c, <<m>>) /\ stage' = [stage EXCEPT ![c] = st] /\ ClientOnly
      /\ sid' = sid /\ settled' = settled /\ cached' = cached /\ shut' = shut /\ down' = down
      /\ stage[c] = "deriving" <=> st = "confirming"
      /\ stage[c] = "sealing" <=> st = "awaiting"
      /\ stage[c] = "deciding" <=> st = "ice"
  BY DEF SendConfirm, PairRequest, Accept, Go, held
<1>2. m \in Message /\ m.type = t /\ m.sid = sid[c] /\ t \in {"confirm", "pair-request", "pair-accept"}
  <2>1. sid[c] \in Sender \cup {None} /\ key[c] \in Key /\ t \in {"confirm", "pair-request", "pair-accept"}
    BY DEF IInv, Types
  <2> QED
    BY <2>1 DEF Msg, Message, MsgType, RelayType
<1>3. <<m>> \in Seq(Message) /\ Q(<<m>>) = {m}
  BY <1>2, OneMessage
<1> HIDE DEF m
<1>4. Alone(c) /\ Solo(c)
  BY <1>1, <1>3, AloneIf, SoloIf, Zenon
<1>5. PICK r \in Seq(Message) : /\ r = <<m>> \/ r = <<>>
                                /\ up'[c] = up[c] \o r /\ (c \in cut => r = <<>>)
                                /\ c \notin cut => r = <<m>>
  BY <1>1, <1>3, SentOrCut, Zenon DEF IInv
<1>6. /\ ~Has(r, {"register", "retry"}) /\ up[c] \in Seq(Message)
      /\ c \notin cut => Has(r, {t}) /\ Carries(r, RelayType, sid[c]) /\ Carries(r, {t}, sid[c])
  BY <1>2, <1>3, <1>5, NoMessage, Zenon DEF Has, Carries, IInv, Types, RelayType
<1>7. /\ stage'[c] = st /\ down'[c] = down[c] /\ sid'[c] = sid[c] /\ settled'[c] = settled[c]
      /\ session' = session /\ cut' = cut
  BY <1>1, <1>4 DEF IInv, Types, Solo
<1>8. stage[c] # "deriving" => settled[c] = "no"
  BY <1>1 DEF Owed, Closing
<1>9. Steady(c, r)
  BY <1>1, <1>4, <1>5, <1>6, <1>7, <1>8 DEF Steady, Keyed, Proven, Deciding
<1>10. Closing(c)'
  BY <1>1, <1>4, <1>7, <1>8, ClosingStep
<1>11. c \notin cut => /\ Has(up'[c], {t})
                       /\ Carries(up'[c], RelayType, sid[c])
                       /\ sid[c] = session => Said(c, t)'
  BY <1>5, <1>6, <1>7, QueueJoins DEF Has, Carries, Said
<1>12. /\ c = Receiver /\ c \notin cut => Adrift'
       /\ session # None /\ c \in {session, Receiver} => c \notin cut
       /\ session = c /\ c \in Sender => sid[c] = session
  BY <1>1, <1>7, <1>11 DEF Adrift, Owed, Hosting, IInv, Local, Keyed
<1>13. /\ c \in Sender => stage'[c] \notin {"request", "deciding", "ice"}
       /\ c = Receiver => stage'[c] \notin {"sealing", "awaiting"}
       /\ stage'[c] = "awaiting" => c \in Sender /\ c # None /\ t = "pair-request"
       /\ stage'[c] = "ice" => t = "pair-accept"
  BY <1>7, Clients DEF IInv, Types
<1> QED
  BY <1>1, <1>7, <1>9, <1>10, <1>11, <1>12, <1>13, SteadyOwed, Zenon

\* A client in a session drops a message it is not ready for: it is of another session,
\* or was asked for before.
LEMMA LoseInOwed ==
  ASSUME IInv, IInv', Phases, Owed, NEW c \in Client, Lose(c), stage[c] \in Keyed \cup {"share"}
  PROVE  Owed'
<1>1. /\ Gets(c, "lost") /\ Pop(c) /\ ClientOnly
      /\ cached' = IF Head(down[c]).type = "ice-config" THEN cached \cup {c} ELSE cached
      /\ sid' = sid /\ settled' = settled /\ stage' = stage /\ shut' = shut /\ up' = up
  BY DEF Lose
<1>2. /\ down[c] # <<>> /\ down[c] \in Seq(Message) /\ Head(down[c]).type # "close" /\ ~Continuing(c)
      /\ Closing(c) /\ Local(c)
  BY <1>1, HeadIs DEF Owed, IInv
<1>3. ASSUME stage[c] \in DOMAIN WaitType, settled[c] = "no"
      PROVE  /\ Head(down[c]).type # "error"
             /\ stage[c] \notin OfSession \/ Head(down[c]).sid = sid[c] => Head(down[c]).type # WaitType[stage[c]]
             /\ stage[c] \in OfSession /\ Head(down[c]).sid = sid[c] => Head(down[c]).type # "peer-left"
  BY <1>1, <1>3, HeadIs
<1>4. Alone(c) /\ Solo(c)
  BY <1>1, <1>2, AloneIf, SoloIf
<1>5. stage'[c] = stage[c] /\ down'[c] = Tail(down[c]) /\ sid'[c] = sid[c] /\ settled'[c] = settled[c]
  BY <1>1, <1>2 DEF Pop, IInv, Types
<1>6. settled[c] # "no" => stage[c] = "deriving"
  BY <1>2 DEF Closing, Continuing
<1>7. Consumes(c)
  <2>1. SUFFICES ASSUME Head(down[c]).sid = session, sid[c] = session
                 PROVE  /\ Head(down[c]).type = "pake" => stage[c] # "share"
                        /\ Head(down[c]).type = "confirm" => settled[c] # "no" \/ stage[c] \in Proven
                        /\ Head(down[c]).type = "pair-request" => stage[c] \in Deciding
    BY <1>2, <1>5 DEF Consumes
  <2>2. session # None /\ c \in {session, Receiver} /\ Reads(c) /\ c # None
    <3>1. sid[c] # None /\ (c \in Sender => sid[c] = c)
      BY <1>2 DEF Local
    <3>2. stage[c] # "over"
      BY DEF Keyed
    <3> QED
      BY <2>1, <3>1, <3>2, Clients DEF Reads
  <2>3. Head(down[c]).type = "pake" => stage[c] # "share"
    BY <1>3, <1>6, <2>1 DEF WaitType, OfSession
  <2>4. ASSUME Head(down[c]).type = "confirm"
        PROVE  settled[c] # "no" \/ stage[c] \in Proven
    <3>1. stage[c] # "share"
      BY <1>2, <2>1, <2>2, <2>4, HeadDue DEF Turns
    <3>2. settled[c] = "no" => stage[c] \notin {"deriving", "confirming"}
      BY <1>3, <2>1, <2>4 DEF WaitType, OfSession
    <3> QED
      BY <3>1, <3>2 DEF Keyed, Proven
  <2>5. ASSUME Head(down[c]).type = "pair-request"
        PROVE  stage[c] \in Deciding
    <3>1. /\ c = Receiver /\ stage[c] \notin {"share", "deriving"}
          /\ settled[c] # "no" \/ stage[c] \in Proven
      BY <1>2, <2>1, <2>2, <2>5, HeadDue DEF Turns
    <3>2. settled[c] = "no" /\ stage[c] \notin {"sealing", "awaiting"}
      BY <1>6, <3>1 DEF Owed, Hosting
    <3>3. stage[c] # "request"
      BY <1>3, <2>1, <2>5, <3>2 DEF WaitType, OfSession
    <3> QED
      BY <3>1, <3>2, <3>3 DEF Proven, Deciding
  <2> QED
    BY <2>3, <2>4, <2>5
<1>8. Steady(c, <<>>)
  BY <1>1, <1>4, <1>5, <1>7, NothingSaid DEF Steady, IInv
<1>9. Closing(c)'
  BY <1>1, <1>2, <1>4, <1>5, ClosingStep DEF Closing, Keyed
<1>10. c = Receiver /\ Adrift /\ sid[c] # session => Adrift'
  <2>1. SUFFICES ASSUME c = Receiver, Adrift, stage[c] \notin {"deriving", "deciding", "paired"} PROVE Adrift'
    BY <1>5 DEF Adrift
  <2>2. stage[c] \in {"share", "confirming", "request", "ice"} /\ settled[c] = "no"
    BY <1>6, <2>1 DEF Keyed, Owed, Hosting
  <2>3. /\ stage[c] \in DOMAIN WaitType /\ (stage[c] # "ice" => stage[c] \in OfSession)
    BY <2>2 DEF WaitType, OfSession
  <2>4. CASE stage[c] = "ice"
    <3>1. Carries(up[c], RelayType, sid[c]) \/ Has(down[c], {"error"})
      BY <2>1, <2>2, <2>4 DEF Adrift, OfSession
    <3>2. Has(down[c], {"error"}) => Has(down'[c], {"error"})
      BY <1>2, <1>3, <1>5, <2>2, <2>3, HasEnds
    <3> QED
      BY <1>1, <1>5, <2>1, <3>1, <3>2 DEF Adrift
  <2>5. CASE stage[c] # "ice"
    <3>1. Has(down[c], {"error"}) => Has(down'[c], {"error"})
      BY <1>2, <1>3, <1>5, <2>2, <2>3, HasEnds
    <3>2. Carries(down[c], {"peer-left"}, sid[c]) => Carries(down'[c], {"peer-left"}, sid[c])
      <4>1. \A n \in Q(down[c]) : n = Head(down[c]) \/ n \in Q(Tail(down[c]))
        BY <1>2, QueueEnds
      <4> QED
        BY <1>3, <1>5, <2>2, <2>3, <2>5, <4>1 DEF Carries
    <3> QED
      BY <1>1, <1>5, <2>1, <2>2, <2>3, <2>5, <3>1, <3>2 DEF Adrift
  <2> QED
    BY <2>4, <2>5
<1>11. c = Receiver /\ stage[c] = "ice" /\ c \notin cut =>
         Has(up'[c], {"pair-accept"}) \/ Has(down'[c], {"ice-config", "error"})
  <2>1. SUFFICES ASSUME c = Receiver, stage[c] = "ice", c \notin cut, Has(down[c], {"ice-config", "error"})
                 PROVE  Has(down'[c], {"ice-config", "error"})
    BY <1>1 DEF Owed, Returning
  <2>2. Head(down[c]).type \notin {"ice-config", "error"}
    BY <1>3, <1>6, <2>1 DEF WaitType, OfSession
  <2> QED
    BY <1>2, <1>5, <2>1, <2>2, HasEnds
<1>12. /\ c \in Sender => stage'[c] \notin {"request", "deciding", "ice"}
       /\ c = Receiver => stage'[c] \notin {"sealing", "awaiting"}
  BY <1>5 DEF Owed, Meeting, Hosting
<1>13. /\ session' = session /\ seen' = seen
       /\ stage'[c] = "awaiting" /\ session = c => Said(c, "pair-request")'
       /\ c = Receiver /\ session # None /\ sid[c] = session /\ stage'[c] = "ice" => Said(c, "pair-accept")'
  <2>1. session' = session /\ seen' = seen /\ \A t : Said(c, t)' <=> Said(c, t)
    BY <1>1, <1>4 DEF Solo, Said
  <2>2. stage[c] = "awaiting" /\ session = c => c \in Sender
    BY Clients DEF IInv, Types
  <2> QED
    BY <1>5, <2>1, <2>2, Clients DEF Owed, Meeting
<1> QED
  BY <1>1, <1>5, <1>8, <1>9, <1>10, <1>11, <1>12, <1>13, SteadyOwed

-----------------------------------------------------------------------------
(* The steps of a client outside its session *)

\* Outside its sessions a client has no keys, nothing settled and an open socket.
LEMMA Outside ==
  ASSUME IInv, Owed, NEW c \in Client, stage[c] \notin Keyed \cup {"share", "over"}
  PROVE  /\ sid[c] = None /\ settled[c] = "no" /\ c \notin shut
         /\ c \in Sender => stage[c] \in {"start", "joining"}
         /\ c = Receiver => stage[c] \in Early \cup {"start", "joining"}
<1>1. Local(c) /\ Closing(c) /\ stage[c] \in Stage
  BY DEF IInv, Types, Owed
<1>2. sid[c] = None /\ settled[c] = "no" /\ c \notin shut
  BY <1>1 DEF Local, Closing, Keyed
<1>3. c \in Sender => stage[c] \in {"start", "joining"}
  BY <1>1 DEF Owed, Meeting, Stage, Keyed
<1>4. c = Receiver => stage[c] \in Early \cup {"start", "joining"}
  BY <1>1 DEF Stage, Keyed, Early
<1> QED
  BY <1>2, <1>3, <1>4

\* A receiver that is past its registration.
LEMMA HostingStep ==
  ASSUME IInv, Owed, Solo(Receiver), NEW r \in Seq(Message), up'[Receiver] = up[Receiver] \o r,
         ~Has(r, {"register"}), stage'[Receiver] \notin {"start", "registering", "sealing", "awaiting"}
  PROVE  Hosting'
<1>1. /\ Receiver \in Client /\ up[Receiver] \in Seq(Message) /\ session' = session /\ cut' = cut /\ waiting' = waiting
      /\ session \in Sender \cup {None} /\ Hosting
  BY Clients DEF IInv, Types, Solo, Owed
<1>2. Has(up'[Receiver], {"register"}) <=> Has(up[Receiver], {"register"})
  BY <1>1, HasEnds
<1>3. RegistersFirst(up'[Receiver])
  BY <1>1, RegistersJoin DEF Hosting
<1>4. \A s \in Sender : ~Has(up'[s], {"register", "retry"})
  BY <1>1, Clients DEF Hosting, Solo
<1>5. session # None => stage'[session] = stage[session]
  BY <1>1, Clients DEF Solo
<1> QED
  BY <1>1, <1>2, <1>3, <1>4, <1>5 DEF Hosting

\* A sender connects.
LEMMA StartSenderOwed ==
  ASSUME IInv, Owed, NEW c \in Sender, StartSender(c)
  PROVE  Owed'
<1> DEFINE m == Plain("connect")
<1>1. /\ stage[c] = "start" /\ Send(c, <<m>>) /\ stage' = [stage EXCEPT ![c] = "joining"] /\ ClientOnly
      /\ sid' = sid /\ settled' = settled /\ cached' = cached /\ shut' = shut /\ down' = down
      /\ c \in Client /\ c # Receiver
  BY Clients DEF StartSender, Go, held
<1>2. m \in Message /\ m.type = "connect"
  BY DEF Plain, Msg, Message, MsgType, Key
<1>3. <<m>> \in Seq(Message) /\ Q(<<m>>) = {m}
  BY <1>2, OneMessage
<1> HIDE DEF m
<1>4. Alone(c) /\ Solo(c)
  BY <1>1, <1>3, AloneIf, SoloIf, Zenon
<1>5. /\ sid[c] = None /\ settled[c] = "no" /\ c \notin shut /\ c \notin cut /\ session # c
      /\ up[c] \in Seq(Message) /\ Closing(c)
  <2>1. sid[c] = None /\ settled[c] = "no" /\ c \notin shut
    BY <1>1, Outside DEF Keyed
  <2> QED
    BY <1>1, <2>1, Clients DEF Owed, Closing, Hosting, IInv, Types
<1>6. PICK r \in Seq(Message) : r = <<m>> /\ up'[c] = up[c] \o r
  BY <1>1, <1>3, <1>5, SentOrCut, Zenon DEF IInv
<1>7. Has(up'[c], {"connect"}) /\ ~Has(up'[c], {"register", "retry"})
  <2>1. Has(r, {"connect"}) /\ ~Has(r, {"register", "retry"}) /\ ~Has(up[c], {"register", "retry"})
    BY <1>2, <1>3, <1>6 DEF Has, Owed, Hosting
  <2>2. \A types : Has(up[c] \o r, types) <=> Has(up[c], types) \/ Has(r, types)
    BY <1>5, HasEnds
  <2> QED
    BY <1>6, <2>1, <2>2
<1>8. /\ stage'[c] = "joining" /\ down'[c] = down[c] /\ sid'[c] = None /\ settled'[c] = "no"
      /\ session' = session /\ cut' = cut
  BY <1>1, <1>4, <1>5 DEF IInv, Types, Solo
<1>9. Closing(c)' /\ Leaving(c)'
  BY <1>1, <1>4, <1>5, <1>8, ClosingStep
<1>10. Meeting(c)'
  <2>1. Behind(down[c], RelayType, {"peer-joined"}, c)
    <3>1. ~Carries(down[c], RelayType, c)
      BY <1>1 DEF IInv, Silent, Unmet
    <3> QED
      BY <3>1, BehindNone
  <2>2. Meeting(c)
    BY DEF Owed
  <2> QED
    BY <1>1, <1>5, <1>7, <1>8, <2>1, <2>2 DEF Meeting, Stage
<1> QED
  BY <1>4, <1>5, <1>7, <1>8, <1>9, <1>10, SenderOwed

\* A sender that has not met the receiver drops a message.
LEMMA SenderLosesOwed ==
  ASSUME IInv, Phases, Owed, NEW c \in Sender, Lose(c), stage[c] \notin Keyed \cup {"share"}
  PROVE  Owed'
<1>1. /\ Gets(c, "lost") /\ Pop(c) /\ ClientOnly /\ c \in Client /\ c # Receiver
      /\ cached' = IF Head(down[c]).type = "ice-config" THEN cached \cup {c} ELSE cached
      /\ sid' = sid /\ settled' = settled /\ stage' = stage /\ shut' = shut /\ up' = up
  BY Clients DEF Lose
<1>2. /\ down[c] # <<>> /\ down[c] \in Seq(Message) /\ Head(down[c]).type # "close" /\ stage[c] # "over"
  BY <1>1, HeadIs
<1>3. sid[c] = None /\ settled[c] = "no" /\ c \notin shut /\ stage[c] \in {"start", "joining"}
  BY <1>1, <1>2, Outside
<1>4. stage[c] = "joining" => Head(down[c]).type \notin {"error", "peer-joined"}
  BY <1>1, <1>3, HeadIs DEF WaitType, OfSession
<1>5. Alone(c) /\ Solo(c)
  BY <1>1, <1>2, AloneIf, SoloIf
<1>6. /\ stage'[c] = stage[c] /\ down'[c] = Tail(down[c]) /\ sid'[c] = None /\ settled'[c] = "no" /\ up'[c] = up[c]
      /\ session' = session /\ cut' = cut
  BY <1>1, <1>2, <1>3, <1>5 DEF Pop, IInv, Types, Solo
<1>7. Closing(c)' /\ Leaving(c)'
  BY <1>1, <1>2, <1>3, <1>5, <1>6, ClosingStep
<1>8. Meeting(c)'
  <2>1. Meeting(c) /\ (Has(down'[c], {"peer-joined"}) => Has(down[c], {"peer-joined"}))
    BY <1>2, <1>6, HasEnds DEF Owed
  <2>2. stage[c] = "joining" =>
          /\ Has(down[c], {"peer-joined"}) => Has(down'[c], {"peer-joined"})
          /\ Has(down[c], {"peer-joined", "error"}) => Has(down'[c], {"peer-joined", "error"})
          /\ Behind(down'[c], RelayType, {"peer-joined"}, c)
    BY <1>2, <1>4, <1>6, <2>1, HasEnds, BehindRest DEF Meeting
  <2>3. c \notin cached' \cup shut' /\ stage'[c] # "paired" => Behind(down'[c], {"pair-accept"}, {"ice-config"}, c)
    BY <1>1, <1>2, <1>6, IceStep
  <2>4. session = c => stage[c] # "start"
    BY Clients DEF Owed, Hosting
  <2> QED
    BY <1>3, <1>6, <2>1, <2>2, <2>3, <2>4 DEF Meeting
<1>9. session = c => Delivered(c)'
  <2>1. SUFFICES ASSUME session = c PROVE Delivered(c)'
    OBVIOUS
  <2>2. session # None /\ Reads(c) /\ ~(Head(down[c]).type \in Turns /\ Head(down[c]).sid = session)
    BY <1>1, <1>2, <1>3, <2>1, HeadDue, Clients DEF Reads
  <2> QED
    BY <1>1, <1>2, <1>3, <1>5, <1>6, <2>1, <2>2, DeliveredStep, Clients DEF Past
<1>10. ~Has(up'[c], {"register", "retry"})
  BY <1>6 DEF Owed, Hosting
<1> QED
  BY <1>5, <1>6, <1>7, <1>8, <1>9, <1>10, SenderOwed

\* A client joins the session.
LEMMA JoinedOwed ==
  ASSUME IInv, IInv', Phases, Owed, NEW c \in Client, Joined(c), missed' = {}
  PROVE  Owed'
<1> DEFINE s == Head(down[c]).sid
           m == Msg("pake", s, Words(c))
<1>1. /\ stage[c] = "joining" /\ Gets(c, "answer") /\ Pop(c) /\ ClientOnly /\ Send(c, <<m>>)
      /\ sid' = [sid EXCEPT ![c] = s] /\ stage' = [stage EXCEPT ![c] = "share"]
      /\ settled' = settled /\ cached' = cached /\ shut' = shut
  <2>1. down[c] # <<>> /\ stage'[c] # "over"
    BY DEF Joined, Gets, Go, IInv, Types
  <2>2. Pop(c)
    BY <2>1, ReadOne DEF Joined, IInv
  <2> QED
    BY <2>2 DEF Joined, Go
<1>2. /\ down[c] # <<>> /\ down[c] \in Seq(Message) /\ Head(down[c]).type = "peer-joined"
      /\ Head(down[c]) \in Q(down[c])
  BY <1>1, HeadIs DEF WaitType
<1>3. s \in Sender /\ (c \in Sender => s = c)
  BY <1>2, Clients DEF IInv, DownSound
<1>4. m \in Message /\ m.type = "pake" /\ m.sid = s
  BY <1>3 DEF Msg, Message, MsgType, RelayType, Words
<1>5. <<m>> \in Seq(Message) /\ Q(<<m>>) = {m}
  BY <1>4, OneMessage
<1>6. sid[c] = None /\ settled[c] = "no" /\ c \notin shut
  BY <1>1, Outside DEF Keyed
<1> HIDE DEF m
<1>7. Alone(c) /\ Solo(c)
  BY <1>1, <1>2, <1>5, AloneIf, SoloIf, Zenon
<1>8. /\ stage'[c] = "share" /\ down'[c] = Tail(down[c]) /\ sid'[c] = s /\ settled'[c] = "no"
      /\ session' = session /\ cut' = cut
  BY <1>1, <1>2, <1>6, <1>7 DEF Pop, IInv, Types, Solo
<1>9. PICK r \in Seq(Message) : /\ r = <<m>> \/ r = <<>>
                                /\ up'[c] = up[c] \o r /\ (c \notin cut => r = <<m>>)
  BY <1>1, <1>5, SentOrCut, Zenon DEF IInv
<1>10. /\ ~Has(r, {"register", "retry"}) /\ ~Has(r, {"register"}) /\ ~Has(r, {"retry"}) /\ up[c] \in Seq(Message)
       /\ c \notin cut => Carries(r, RelayType, s)
  BY <1>4, <1>5, <1>9, NoMessage DEF Has, Carries, IInv, Types, RelayType
<1>11. Closing(c)' /\ Leaving(c)'
  BY <1>1, <1>2, <1>6, <1>7, <1>8, ClosingStep
<1>12. session # None /\ c \in {session, Receiver} => Delivered(c)'
  <2>1. SUFFICES ASSUME session # None, c \in {session, Receiver} PROVE Delivered(c)'
    OBVIOUS
  <2>2. Reads(c)' => Reads(c)
    <3>1. Q(down'[c]) \subseteq Q(down[c])
      BY <1>2, <1>8, QueueEnds
    <3> QED
      BY <1>1, <1>2, <1>8, <3>1 DEF Reads, Carries
  <2>3. \A t : ~Past(c, t)
    BY <1>6, <2>1 DEF Past
  <2> QED
    BY <1>2, <1>7, <1>8, <2>1, <2>2, <2>3, DeliveredStep DEF Turns
<1>13. CASE c \in Sender
  <2>1. ~Has(up'[c], {"register", "retry"})
    BY <1>9, <1>10, <1>13, HasEnds DEF Owed, Hosting
  <2>2. c \notin cached' \cup shut' /\ stage'[c] # "paired" => Behind(down'[c], {"pair-accept"}, {"ice-config"}, c)
    BY <1>1, <1>2, <1>8, <1>13, IceStep
  <2>3. Q(down'[c]) \subseteq Q(down[c]) /\ Has(down[c], {"peer-joined"})
    BY <1>2, <1>8, QueueEnds DEF Has
  <2>4. Meeting(c)'
    BY <1>7, <1>8, <1>13, <2>2, <2>3, MeetingStep DEF Stage
  <2> QED
    BY <1>7, <1>8, <1>11, <1>12, <1>13, <2>1, <2>4, SenderOwed, Clients
<1>14. CASE c = Receiver
  <2>1. Hosting'
    BY <1>7, <1>8, <1>9, <1>10, <1>14, HostingStep, Zenon
  <2>2. Returning'
    <3>1. c \notin cut => Resumes(up'[c], s) /\ Carries(up'[c], RelayType, s)
      <4>1. c \notin cut => Resumes(up'[c], s)
        BY <1>9, <1>10, ResumesJoin
      <4> QED
        BY <1>9, <1>10, <4>1, QueueJoins DEF Carries
    <3> QED
      BY <1>8, <1>14, <3>1 DEF Returning, Adrift
  <2>3. Awaited'
    BY <1>2, <1>8, <1>14, StillBehind DEF Awaited, Free, Early
  <2> QED
    BY <1>7, <1>8, <1>11, <1>12, <1>14, <2>1, <2>2, <2>3, ReceiverOwed
<1> QED
  BY <1>13, <1>14, Clients

\* The receiver registers.
LEMMA StartReceiverOwed ==
  ASSUME IInv, Owed, StartReceiver
  PROVE  Owed'
<1> DEFINE c == Receiver
           m == Plain("register")
<1>1. /\ stage[c] = "start" /\ Send(c, <<m>>) /\ stage' = [stage EXCEPT ![c] = "registering"] /\ ClientOnly
      /\ sid' = sid /\ settled' = settled /\ cached' = cached /\ shut' = shut /\ down' = down
      /\ c \in Client
  BY Clients DEF StartReceiver, Go, held
<1>2. m \in Message /\ m.type = "register"
  BY DEF Plain, Msg, Message, MsgType, Key
<1>3. <<m>> \in Seq(Message) /\ Q(<<m>>) = {m} /\ RegistersFirst(<<m>>)
  BY <1>2, OneMessage DEF RegistersFirst
<1>4. Alone(c) /\ Solo(c)
  BY <1>1, <1>3, AloneIf, SoloIf, Zenon
<1>5. /\ sid[c] = None /\ settled[c] = "no" /\ c \notin shut
  BY <1>1, Outside DEF Keyed
<1>6. /\ c \notin cut /\ session = None /\ ~waiting /\ up[c] = <<>> /\ down[c] = <<>> /\ Hosting
  BY <1>1 DEF Owed, Closing, Hosting
<1> HIDE DEF m
<1>7. up'[c] = <<m>>
  <2>1. PICK r \in Seq(Message) : r = <<m>> /\ up'[c] = up[c] \o r
    BY <1>1, <1>3, <1>6, SentOrCut, Zenon DEF IInv
  <2> QED
    BY <1>6, <2>1, ConcatEmptySeq
<1>8. /\ stage'[c] = "registering" /\ down'[c] = <<>> /\ sid'[c] = None /\ settled'[c] = "no"
      /\ session' = None /\ cut' = cut /\ ~waiting' /\ session \in Sender \cup {None}
  BY <1>1, <1>4, <1>5, <1>6 DEF IInv, Types, Solo
<1>9. Closing(c)' /\ Leaving(c)'
  BY <1>1, <1>4, <1>5, <1>6, <1>8, ClosingStep
<1>10. Hosting'
  <2>1. \A s \in Sender : ~Has(up'[s], {"register", "retry"})
    BY <1>4, <1>6, Clients DEF Hosting, Solo
  <2>2. Has(up'[c], {"register"}) /\ ~Has(down'[c], {"error"}) /\ (\A n \in Q(up'[c]) : n.type = "register")
    BY <1>2, <1>3, <1>7, <1>8, NoMessage DEF Has
  <2> QED
    BY <1>3, <1>7, <1>8, <2>1, <2>2 DEF Hosting
<1>11. Returning' /\ Awaited'
  BY <1>8 DEF Returning, Awaited
<1> QED
  BY <1>4, <1>6, <1>8, <1>9, <1>10, <1>11, ReceiverOwed

\* A page registers under a new code, if it is still connected.
LEMMA RegisterAgainOwed ==
  ASSUME IInv, Owed, RegisterAgain
  PROVE  Owed'
<1> DEFINE c == Receiver
           m == Plain("register")
<1>1. /\ stage[c] = "registering" /\ Gets(c, "refused") /\ Pop(c) /\ Send(c, <<m>>) /\ stage' = stage /\ ClientOnly
      /\ sid' = sid /\ settled' = settled /\ cached' = cached /\ shut' = shut
      /\ c \in Client
  BY Clients DEF RegisterAgain, held
<1>2. /\ down[c] # <<>> /\ down[c] \in Seq(Message) /\ Head(down[c]).type = "error"
      /\ Has(down[c], {"error"})
  BY <1>1, HeadIs DEF Has
<1>3. m \in Message /\ m.type = "register"
  BY DEF Plain, Msg, Message, MsgType, Key
<1>4. <<m>> \in Seq(Message) /\ Q(<<m>>) = {m} /\ RegistersFirst(<<m>>)
  BY <1>3, OneMessage DEF RegistersFirst
<1> HIDE DEF m
<1>5. Alone(c) /\ Solo(c)
  BY <1>1, <1>2, <1>4, AloneIf, SoloIf, Zenon
<1>6. /\ sid[c] = None /\ settled[c] = "no" /\ c \notin shut /\ Hosting
  BY <1>1, Outside DEF Keyed, Owed
<1>7. /\ stage'[c] = "registering" /\ down'[c] = Tail(down[c]) /\ sid'[c] = None /\ settled'[c] = "no"
      /\ session' = session /\ cut' = cut /\ waiting' = waiting /\ up[c] \in Seq(Message)
  BY <1>1, <1>2, <1>5, <1>6 DEF Pop, IInv, Types, Solo
<1>8. session = None
  BY <1>1, <1>2, <1>6 DEF Hosting
<1>9. Closing(c)' /\ Leaving(c)'
  BY <1>1, <1>2, <1>5, <1>6, <1>7, ClosingStep
<1>10. \A s \in Sender : ~Has(up'[s], {"register", "retry"})
  BY <1>5, <1>6, Clients DEF Hosting, Solo
<1>11. CASE c \in cut
  <2>1. up' = up
    BY <1>1, <1>11 DEF Send
  <2> QED
    BY <1>1, <1>5, <1>6, <1>7, <1>8, <1>9, <1>10, <1>11, <2>1, ReceiverOwed DEF Hosting, Returning, Awaited
<1>12. CASE c \notin cut
  <2>1. ~waiting /\ up[c] = <<>> /\ Tail(down[c]) = <<>>
    BY <1>1, <1>2, <1>6, <1>12 DEF Hosting
  <2>2. up'[c] = <<m>>
    <3>1. PICK r \in Seq(Message) : r = <<m>> /\ up'[c] = up[c] \o r
      BY <1>1, <1>4, <1>12, SentOrCut, Zenon DEF IInv
    <3> QED
      BY <2>1, <3>1, ConcatEmptySeq
  <2>3. Has(up'[c], {"register"}) /\ ~Has(down'[c], {"error"}) /\ (\A n \in Q(up'[c]) : n.type = "register")
    BY <1>3, <1>4, <1>7, <2>1, <2>2, NoMessage, Zenon DEF Has
  <2>4. Hosting'
    BY <1>4, <1>7, <1>8, <1>10, <2>1, <2>2, <2>3 DEF Hosting
  <2> QED
    BY <1>5, <1>7, <1>8, <1>9, <2>4, ReceiverOwed DEF Returning, Awaited
<1> QED
  BY <1>11, <1>12

\* The receiver waits for a sender.
LEMMA RegisteredOwed ==
  ASSUME IInv, Phases, Owed, Registered, missed' = {}
  PROVE  Owed'
<1> DEFINE c == Receiver
<1>1. /\ stage[c] \in Early /\ Gets(c, "answer") /\ Pop(c) /\ stage' = [stage EXCEPT ![c] = "joining"] /\ ClientOnly
      /\ sid' = sid /\ settled' = settled /\ cached' = cached /\ shut' = shut /\ up' = up
      /\ c \in Client
  <2>1. c \in Client /\ down[c] # <<>> /\ stage'[c] # "over"
    BY Clients DEF Registered, Gets, Go, IInv, Types
  <2>2. Pop(c)
    BY <2>1, ReadOne DEF Registered, IInv
  <2> QED
    BY <2>1, <2>2 DEF Registered, Go, held, Early
<1>2. /\ down[c] # <<>> /\ down[c] \in Seq(Message) /\ Head(down[c]).type = "registered"
  BY <1>1, HeadIs DEF WaitType, Early
<1>3. Alone(c) /\ Solo(c)
  BY <1>1, <1>2, AloneIf, SoloIf, Zenon
<1>4. /\ sid[c] = None /\ settled[c] = "no" /\ c \notin shut
  BY <1>1, Outside DEF Keyed, Early
<1>5. /\ stage'[c] = "joining" /\ down'[c] = Tail(down[c]) /\ sid'[c] = None /\ settled'[c] = "no" /\ up'[c] = up[c]
      /\ session' = session /\ cut' = cut
  BY <1>1, <1>2, <1>3, <1>4 DEF Pop, IInv, Types, Solo
<1>6. Closing(c)' /\ Leaving(c)'
  BY <1>1, <1>2, <1>3, <1>4, <1>5, ClosingStep DEF Early
<1>7. Hosting'
  <2>1. up'[c] = up[c] \o <<>> /\ <<>> \in Seq(Message) /\ ~Has(<<>>, {"register"})
    BY <1>1, NothingSaid DEF IInv, Has
  <2> QED
    BY <1>3, <1>5, <2>1, HostingStep, Zenon
<1>8. Returning'
  BY <1>5 DEF Returning
<1>9. Awaited'
  <2>1. Free' => Free
    BY <1>1, <1>5 DEF Free
  <2>2. Carries(down[c], {"peer-joined"}, session) => Carries(down'[c], {"peer-joined"}, session)
    BY <1>2, <1>5, QueueEnds DEF Carries
  <2>3. Awaited
    BY DEF Owed
  <2> QED
    BY <1>2, <1>5, <2>1, <2>2, <2>3, StillBehind DEF Awaited, Early
<1>10. session # None => Delivered(c)'
  <2>1. SUFFICES ASSUME session # None PROVE Delivered(c)'
    OBVIOUS
  <2>2. Reads(c)' => Reads(c)
    <3>1. Q(down'[c]) \subseteq Q(down[c])
      BY <1>2, <1>5, QueueEnds
    <3> QED
      BY <1>1, <1>4, <1>5, <3>1 DEF Reads, Carries, Early
  <2>3. \A t : ~Past(c, t)
    BY <1>4, <2>1 DEF Past
  <2> QED
    BY <1>2, <1>3, <1>5, <2>1, <2>2, <2>3, DeliveredStep DEF Turns
<1> QED
  BY <1>3, <1>5, <1>6, <1>7, <1>8, <1>9, <1>10, ReceiverOwed

\* The receiver drops what comes before it joins a session.
LEMMA ReceiverLosesOwed ==
  ASSUME IInv, Phases, Owed, Lose(Receiver), stage[Receiver] \notin Keyed \cup {"share"}
  PROVE  Owed'
<1> DEFINE c == Receiver
<1>1. /\ Gets(c, "lost") /\ Pop(c) /\ ClientOnly /\ c \in Client
      /\ cached' = IF Head(down[c]).type = "ice-config" THEN cached \cup {c} ELSE cached
      /\ sid' = sid /\ settled' = settled /\ stage' = stage /\ shut' = shut /\ up' = up
  BY Clients DEF Lose
<1>2. /\ down[c] # <<>> /\ down[c] \in Seq(Message) /\ Head(down[c]).type # "close" /\ stage[c] # "over"
  BY <1>1, HeadIs
<1>3. sid[c] = None /\ settled[c] = "no" /\ c \notin shut /\ stage[c] \in Early \cup {"joining"} /\ Hosting
  <2>1. sid[c] = None /\ settled[c] = "no" /\ c \notin shut /\ stage[c] \in Early \cup {"start", "joining"} /\ Hosting
    BY <1>1, <1>2, Outside DEF Owed
  <2> QED
    BY <1>2, <2>1 DEF Hosting
<1>4. /\ Head(down[c]).type # "error"
      /\ stage[c] \in Early => Head(down[c]).type # "registered"
      /\ stage[c] = "joining" => Head(down[c]).type # "peer-joined"
  <2>1. stage[c] \in DOMAIN WaitType /\ stage[c] \notin OfSession
    BY <1>3 DEF Early, WaitType, OfSession
  <2>2. Head(down[c]).type # "error" /\ Head(down[c]).type # WaitType[stage[c]]
    BY <1>1, <1>3, <2>1, HeadIs
  <2> QED
    BY <1>3, <2>2 DEF WaitType, Early
<1>5. Alone(c) /\ Solo(c)
  BY <1>1, <1>2, AloneIf, SoloIf
<1>6. /\ stage'[c] = stage[c] /\ down'[c] = Tail(down[c]) /\ sid'[c] = None /\ settled'[c] = "no" /\ up'[c] = up[c]
      /\ session' = session /\ cut' = cut /\ waiting' = waiting
  BY <1>1, <1>2, <1>3, <1>5 DEF Pop, IInv, Types, Solo
<1>7. Closing(c)' /\ Leaving(c)'
  BY <1>1, <1>2, <1>3, <1>5, <1>6, ClosingStep DEF Early
<1>8. Hosting'
  <2>1. /\ Has(down'[c], {"error"}) => Has(down[c], {"error"})
        /\ stage[c] \in Early /\ Has(down[c], {"registered", "error"}) => Has(down'[c], {"registered", "error"})
    BY <1>2, <1>4, <1>6, HasEnds
  <2>2. ~Has(<<>>, {"error"})
    BY NoMessage DEF Has
  <2>3. \A s \in Sender : ~Has(up'[s], {"register", "retry"})
    BY <1>1, <1>3 DEF Hosting
  <2>4. stage[c] # "start"
    BY <1>3 DEF Early
  <2>5. ASSUME c \notin cut, stage[c] = "registering"
        PROVE  ~Has(up[c], {"register"}) /\ ~Has(down'[c], {"error"}) /\ Has(down'[c], {"registered", "error"})
    BY <1>2, <1>3, <1>6, <2>1, <2>2, <2>5, Zenon DEF Hosting, Early
  <2> QED
    BY <1>1, <1>3, <1>6, <2>3, <2>4, <2>5 DEF Hosting
<1>9. Returning'
  <2>1. Returning
    BY DEF Owed
  <2>2. stage[c] \in Early /\ Has(down[c], {"registered"}) => Has(down'[c], {"registered"})
    BY <1>2, <1>4, <1>6, HasEnds
  <2>3. stage[c] # "ice"
    BY <1>3 DEF Early
  <2> QED
    BY <1>6, <2>1, <2>2, <2>3 DEF Returning, Early
<1>10. Awaited'
  <2>1. SUFFICES ASSUME session # None PROVE Awaited'
    BY <1>6 DEF Awaited
  <2>2. Awaited /\ (Free' <=> Free)
    BY <1>6 DEF Owed, Free
  <2>3. ASSUME Free
        PROVE  /\ Carries(down'[c], {"peer-joined"}, session)
               /\ stage[c] \in Early => Behind(down'[c], {"peer-joined"}, {"registered"}, session)
    <3>1. /\ Carries(down[c], {"peer-joined"}, session)
          /\ stage[c] \in Early => Behind(down[c], {"peer-joined"}, {"registered"}, session)
      BY <2>1, <2>2, <2>3 DEF Awaited
    <3>2. stage[c] \in Early => /\ ~(Head(down[c]).type = "peer-joined" /\ Head(down[c]).sid = session)
                                /\ Behind(down'[c], {"peer-joined"}, {"registered"}, session)
      BY <1>2, <1>4, <1>6, <3>1, BehindRest
    <3>3. ~(Head(down[c]).type = "peer-joined" /\ Head(down[c]).sid = session)
      BY <1>3, <1>4, <3>2
    <3> QED
      BY <1>2, <1>6, <3>1, <3>2, <3>3, QueueEnds DEF Carries
  <2> QED
    BY <1>2, <1>6, <2>1, <2>2, <2>3, StillBehind DEF Awaited
<1>11. session # None => Delivered(c)'
  <2>1. SUFFICES ASSUME session # None PROVE Delivered(c)'
    OBVIOUS
  <2>2. Reads(c)' => Reads(c)
    <3>1. Q(down'[c]) \subseteq Q(down[c])
      BY <1>2, <1>6, QueueEnds
    <3> QED
      BY <1>3, <1>6, <3>1 DEF Reads, Carries
  <2>3. Reads(c) => ~(Head(down[c]).type \in Turns /\ Head(down[c]).sid = session)
    BY <1>2, <1>3, <2>1, HeadDue
  <2>4. \A t : ~Past(c, t)
    BY <1>3, <2>1 DEF Past
  <2> QED
    BY <1>2, <1>5, <1>6, <2>1, <2>2, <2>3, <2>4, DeliveredStep
<1>12. stage'[c] # "ice"
  BY <1>3, <1>6 DEF Early
<1> QED
  BY <1>5, <1>6, <1>7, <1>8, <1>9, <1>10, <1>11, <1>12, ReceiverOwed

\* The receiver gives a session up: the server answers its retry.
LEMMA GiveUpOwed ==
  ASSUME IInv, Phases, Owed, NEW st \in {"rekeying", "rerequesting"},
         stage[Receiver] \in {"share", "confirming", "request"},
         Send(Receiver, <<Plain("retry")>>), stage' = [stage EXCEPT ![Receiver] = st],
         sid' = [sid EXCEPT ![Receiver] = None], settled' \in {settled, [settled EXCEPT ![Receiver] = "no"]},
         settled'[Receiver] = "no",
         cached' = cached, shut' = shut, ClientOnly,
         \/ down' = down
         \/ (Gets(Receiver, "left") \/ Gets(Receiver, "refused")) /\ Pop(Receiver)
  PROVE  Owed'
<1> DEFINE c == Receiver
           m == Plain("retry")
<1>1. c \in Client /\ down[c] \in Seq(Message) /\ up[c] \in Seq(Message)
  BY Clients DEF IInv, Types
<1>2. \/ down' = down
      \/ Pop(c) /\ down[c] # <<>> /\ Head(down[c]).type \in {"peer-left", "error"}
  BY <1>1, HeadIs
<1>3. m \in Message /\ m.type = "retry"
  BY DEF Plain, Msg, Message, MsgType, Key
<1>4. <<m>> \in Seq(Message) /\ Q(<<m>>) = {m}
  BY <1>3, OneMessage
<1>5. Alone(c) /\ Solo(c)
  BY <1>1, <1>2, <1>4, AloneIf, SoloIf, Zenon
<1>6. /\ stage'[c] = st /\ sid'[c] = None /\ settled'[c] = "no" /\ session' = session /\ cut' = cut
      /\ down'[c] = down[c] \/ (/\ down[c] # <<>> /\ down'[c] = Tail(down[c])
                                /\ Head(down[c]).type \in {"peer-left", "error"})
  BY <1>1, <1>2, <1>5 DEF Pop, IInv, Types, Solo
<1>7. PICK r \in Seq(Message) : /\ r = <<m>> \/ r = <<>>
                                /\ up'[c] = up[c] \o r /\ (c \notin cut => r = <<m>>)
  BY <1>1, <1>4, SentOrCut, Zenon DEF IInv
<1> HIDE DEF m
<1>8. /\ ~Has(r, {"register"}) /\ (c \notin cut => Has(r, {"retry"}))
  BY <1>3, <1>4, <1>7, NoMessage DEF Has
<1>9. c \notin cut => Has(up'[c], {"retry"})
  BY <1>1, <1>7, <1>8, HasEnds
<1>10. Closing(c)' /\ Leaving(c)'
  <2>1. c \notin shut
    BY <1>1, Zenon DEF Owed, Closing
  <2> QED
    BY <1>1, <1>5, <1>6, <2>1, ClosingStep, Zenon
<1>11. Hosting'
  BY <1>5, <1>6, <1>7, <1>8, HostingStep
<1>12. Returning'
  BY <1>6, <1>9 DEF Returning
<1>13. Awaited'
  <2>1. session # None => c \notin cut
    BY DEF Owed, Hosting
  <2> QED
    BY <1>6, <1>9, <2>1, StillBehind DEF Awaited, Free
<1>14. session # None => Delivered(c)'
  <2>1. SUFFICES ASSUME session # None PROVE Delivered(c)'
    OBVIOUS
  <2>2. Reads(c)' => Carries(down[c], {"peer-joined"}, session)
    <3>1. Q(down'[c]) \subseteq Q(down[c])
      BY <1>1, <1>6, QueueEnds
    <3> QED
      BY <1>6, <2>1, <3>1 DEF Reads, Carries
  <2>3. Carries(down[c], {"peer-joined"}, session) => sid[c] # session
    BY <2>1 DEF IInv, Types, Silent, Unmet
  <2>4. \A t : Past(c, t) => ~Reads(c)'
    BY <2>2, <2>3 DEF Past
  <2>5. Reads(c)' => Reads(c)
    BY <2>2 DEF Reads
  <2> QED
    BY <1>5, <1>6, <2>1, <2>4, <2>5, DeliveredStep DEF Turns
<1> QED
  BY <1>5, <1>6, <1>10, <1>11, <1>12, <1>13, <1>14, ReceiverOwed

-----------------------------------------------------------------------------
(* The clients' steps and what is owed *)

\* The receiver's two retry loops.
LEMMA RetriesOwed ==
  ASSUME IInv, Phases, Owed, missed' = {},
         \/ Rekey
         \/ GiveUpRequest /\ UNCHANGED down
         \/ Rerequest
  PROVE  Owed'
<1>1. CASE Rekey
  <2>1. stage[Receiver] \in {"share", "confirming"} /\ settled'[Receiver] = "no"
    BY <1>1, Clients DEF Rekey, Continuing, IInv, Types
  <2> QED
    BY <1>1, <2>1, GiveUpOwed DEF Rekey, Go
<1>2. CASE GiveUpRequest /\ (UNCHANGED down \/ Rerequest)
  <2>1. stage[Receiver] = "request" /\ settled' = settled
    BY <1>2 DEF GiveUpRequest
  <2>2. settled'[Receiver] = "no"
    BY <2>1, Clients DEF Owed, Closing
  <2>3. \/ down' = down
        \/ (Gets(Receiver, "left") \/ Gets(Receiver, "refused")) /\ Pop(Receiver)
    <3>1. ASSUME Rerequest
          PROVE  Pop(Receiver)
      <4>1. down[Receiver] # <<>> /\ stage'[Receiver] # "over"
        BY <3>1, Clients DEF Rerequest, GiveUpRequest, Gets, Go, IInv, Types
      <4> QED
        BY <3>1, <4>1, ReadOne, Clients DEF Rerequest, GiveUpRequest, IInv
    <3> QED
      BY <1>2, <3>1 DEF Rerequest
  <2> QED
    BY <1>2, <2>1, <2>2, <2>3, GiveUpOwed DEF GiveUpRequest, Go
<1> QED
  BY <1>1, <1>2 DEF Rerequest

\* A message nobody waits for is lost.
LEMMA LoseOwed ==
  ASSUME IInv, IInv', Phases, Owed, NEW c \in Client, Lose(c)
  PROVE  Owed'
<1>1. CASE stage[c] \in Keyed \cup {"share"}
  BY <1>1, LoseInOwed
<1>2. CASE stage[c] \notin Keyed \cup {"share"}
  BY <1>2, SenderLosesOwed, ReceiverLosesOwed, Clients
<1> QED
  BY <1>1, <1>2

\* The steps that end a command.
LEMMA EndingOwed ==
  ASSUME IInv, Owed, NEW c \in Client,
         \/ Crash(c) \/ KeysFail(c) \/ WaitFails(c) \/ WaitRefused(c) \/ Rejected(c)
         \/ Interrupt(c) \/ ClosePage(c) \/ Fail(c)
         \/ \E result \in {"done", "broken"} : Finish(c, result)
  PROVE  Owed'
<1>1. CASE \E result \in Outcome : End(c, result) /\ UNCHANGED <<counters, accepted>> /\ ClientOnly
  BY <1>1, EndOwed
<1>2. CASE \E result \in Outcome : Vanish(c, result)
  BY <1>2, EndOwed
<1>3. /\ Fail(c) \/ Refuse(c) => \E result \in Outcome : End(c, result) /\ UNCHANGED <<counters, accepted>> /\ ClientOnly
      /\ Crash(c) \/ ClosePage(c) => \E result \in Outcome : Vanish(c, result)
  BY DEF Fail, Refuse, Crash, ClosePage, Outcome
<1>4. KeysFail(c) \/ WaitFails(c) \/ WaitRefused(c) => Fail(c) \/ Refuse(c)
  BY DEF KeysFail, WaitFails, WaitRefused
<1>5. Rejected(c) \/ Interrupt(c) \/ (\E result \in {"done", "broken"} : Finish(c, result))
        => \E result \in Outcome : End(c, result) /\ UNCHANGED <<counters, accepted>> /\ ClientOnly
  BY DEF Rejected, Interrupt, Finish, Outcome
<1> QED
  BY <1>1, <1>2, <1>3, <1>4, <1>5

\* The timers.
LEMMA TimeoutOwed ==
  ASSUME IInv, IInv', Phases, Owed, NEW c \in Client, Timeout(c), missed' = {}
  PROVE  Owed'
<1>1. CASE Fail(c)
  BY <1>1, EndingOwed
<1>2. CASE /\ stage[c] \in {"share", "deriving", "confirming"}
           /\ settled' = [settled EXCEPT ![c] = "timeout"]
           /\ UNCHANGED <<sid, key, cached, counters, stage, shut, outcome, accepted, up, down>>
           /\ ClientOnly
  BY <1>2, TimerOwed, Zenon
<1>3. CASE GiveUpRequest /\ UNCHANGED down
  BY <1>3, RetriesOwed
<1>4. CASE /\ stage[c] = "ice" /\ Go(c, "paired")
           /\ UNCHANGED <<held, counters, shut, outcome, accepted, up, down>> /\ ClientOnly
  BY <1>4, ThroughOwed
<1> QED
  BY <1>1, <1>2, <1>3, <1>4 DEF Timeout

\* The steps both commands share.
LEMMA CommandOwed ==
  ASSUME IInv, IInv', Phases, Owed, NEW c \in Client, Command(c), missed' = {}
  PROVE  Owed'
<1>1. CASE SendConfirm(c)
  BY <1>1, SayOwed
<1> QED
  BY <1>1, EndingOwed, LoseOwed, JoinedOwed, PeerShareOwed, SettleOwed, ConfirmedOwed, ThroughOwed,
     SeesCloseOwed DEF Command

\* The receiver's steps.
LEMMA RecvOwed ==
  ASSUME IInv, IInv', Phases, Owed, Recv, missed' = {}
  PROVE  Owed'
<1>1. Receiver \in Client
  BY Clients
<1>2. CASE Command(Receiver)
  BY <1>1, <1>2, CommandOwed
<1>3. CASE Accept
  BY <1>1, <1>3, SayOwed
<1> QED
  BY <1>2, <1>3, StartReceiverOwed, RegisterAgainOwed, RegisteredOwed, RetriesOwed, RequestsOwed,
     DeclineOwed DEF Recv

\* A sender's steps.
LEMMA SendCommandOwed ==
  ASSUME IInv, IInv', Phases, Owed, NEW c \in Sender, SendCommand(c), missed' = {}
  PROVE  Owed'
<1>1. c \in Client
  BY Clients
<1>2. CASE Command(c)
  BY <1>1, <1>2, CommandOwed
<1>3. CASE Rejected(c)
  BY <1>1, <1>3, EndingOwed
<1>4. CASE PairRequest(c)
  BY <1>1, <1>4, SayOwed
<1> QED
  BY <1>2, <1>3, <1>4, StartSenderOwed, AcceptedOwed DEF SendCommand

-----------------------------------------------------------------------------
(* The server's steps and what is owed *)

\* A handler of the server takes the message of client c and sends r[x] to each client x:
\* whom it closes is told, and who leaves is closed.
Handles(c, r) ==
  /\ c \in Client => up[c] # <<>>
  /\ UNCHANGED <<stage, sid, settled, shut, cached>> /\ cut \subseteq cut'
  /\ \A x \in Client :
       /\ up'[x] = IF x \in cut' THEN <<>> ELSE IF x = c THEN Tail(up[x]) ELSE up[x]
       /\ r[x] \in Seq(Message) /\ down'[x] = down[x] \o r[x]
       /\ Has(r[x], {"close"}) => x \in cut'
       /\ x \in cut' \ cut => stage[x] # "start" /\ (stage[x] = "over" \/ Has(r[x], {"close"}))
       /\ Known(x)' /\ x \notin cut' => Known(x)
  /\ c \in Client /\ Head(up[c]).type \in Goodbyes => c \in cut'

\* What was sent only gets shorter, what is received only longer.
LEMMA Queued ==
  ASSUME IInv, NEW c, NEW r, Handles(c, r), NEW x \in Client
  PROVE  /\ up[x] \in Seq(Message) /\ down[x] \in Seq(Message) /\ r[x] \in Seq(Message)
         /\ up'[x] \in {up[x], <<>>} \/ (up[x] # <<>> /\ x = c /\ x \notin cut' /\ up'[x] = Tail(up[x]))
         /\ Q(up'[x]) \subseteq Q(up[x]) /\ Q(down'[x]) = Q(down[x]) \cup Q(r[x])
         /\ \A types : Has(up'[x], types) => Has(up[x], types)
         /\ \A types : Has(down'[x], types) <=> Has(down[x], types) \/ Has(r[x], types)
         /\ \A types, s : Carries(down'[x], types, s) <=> Carries(down[x], types, s) \/ Carries(r[x], types, s)
         /\ x \notin cut' => x \notin cut /\ \A types :
              Has(up[x], types) => Has(up'[x], types) \/ (x = c /\ Head(up[x]).type \in types)
<1>1. /\ up[x] \in Seq(Message) /\ down[x] \in Seq(Message) /\ r[x] \in Seq(Message)
      /\ up'[x] \in {up[x], <<>>} \/ (up[x] # <<>> /\ x = c /\ x \notin cut' /\ up'[x] = Tail(up[x]))
      /\ x \notin cut' => x \notin cut /\ up'[x] = (IF x = c THEN Tail(up[x]) ELSE up[x]) /\ (x = c => up[x] # <<>>)
      /\ down'[x] = down[x] \o r[x]
  BY Zenon DEF Handles, IInv, Types
<1>2. Q(up'[x]) \subseteq Q(up[x]) /\ Q(down'[x]) = Q(down[x]) \cup Q(r[x])
  BY <1>1, QueueEnds, QueueJoins, NoMessage
<1>3. /\ \A types : Has(up'[x], types) => Has(up[x], types)
      /\ \A types : Has(down'[x], types) <=> Has(down[x], types) \/ Has(r[x], types)
      /\ \A types, s : Carries(down'[x], types, s) <=> Carries(down[x], types, s) \/ Carries(r[x], types, s)
  <2>1. \A types : Has(up'[x], types) => Has(up[x], types)
    BY <1>2 DEF Has
  <2>2. \A types : Has(down'[x], types) <=> Has(down[x], types) \/ Has(r[x], types)
    BY <1>2 DEF Has
  <2>3. \A types, s : Carries(down'[x], types, s) <=> Carries(down[x], types, s) \/ Carries(r[x], types, s)
    BY <1>2 DEF Carries
  <2> QED
    BY <2>1, <2>2, <2>3
<1>4. ASSUME x \notin cut', NEW types, Has(up[x], types)
      PROVE  Has(up'[x], types) \/ (x = c /\ Head(up[x]).type \in types)
  BY <1>1, <1>4, HasEnds
<1> QED
  BY <1>1, <1>2, <1>3, <1>4

\* Who is closed is told, and whoever leaves says so.
LEMMA HandlesClosing ==
  ASSUME IInv, Owed, NEW c, NEW r, Handles(c, r), NEW x \in Client
  PROVE  Closing(x)' /\ Leaving(x)'
<1>1. /\ stage' = stage /\ sid' = sid /\ settled' = settled /\ shut' = shut /\ cut \subseteq cut'
      /\ Has(r[x], {"close"}) => x \in cut'
      /\ x \in cut' \ cut => stage[x] # "start" /\ (stage[x] = "over" \/ Has(r[x], {"close"}))
      /\ Known(x)' /\ x \notin cut' => Known(x)
      /\ c \in Client /\ Head(up[c]).type \in Goodbyes => c \in cut'
  BY Zenon DEF Handles
<1>2. /\ Has(down'[x], {"close"}) <=> Has(down[x], {"close"}) \/ Has(r[x], {"close"})
      /\ x \notin cut' => x \notin cut /\ (Has(up[x], Goodbyes) =>
           Has(up'[x], Goodbyes) \/ (x = c /\ Head(up[x]).type \in Goodbyes))
  BY Queued
<1>3. Closing(x)'
  <2>1. Closing(x)
    BY DEF Owed
  <2> QED
    BY <1>1, <1>2, <2>1 DEF Closing
<1>4. Leaving(x)'
  <2>1. Leaving(x)
    BY DEF Owed
  <2> QED
    BY <1>1, <1>2, <2>1 DEF Leaving
<1> QED
  BY <1>3, <1>4

\* The code and the session stay with those that are connected, when a handler takes
\* anything but a registration.
LEMMA HandlesHosting ==
  ASSUME IInv, Owed, NEW c, NEW r, Handles(c, r),
         waiting' => session' = None /\ Receiver \notin cut',
         session' # None => session' \notin cut' /\ Receiver \notin cut' /\ stage[session'] # "start",
         c = Receiver => Head(up[Receiver]).type # "register",
         session = None /\ ~waiting => session' = None /\ ~waiting',
         session = None /\ ~waiting /\ c # Receiver /\ Receiver \notin cut' => r[Receiver] = <<>>,
         Has(r[Receiver], {"error"}) /\ Receiver \notin cut' => c = Receiver
  PROVE  Hosting'
<1>1. Receiver \in Client /\ Hosting /\ stage' = stage /\ sid' = sid /\ Closing(Receiver)
  BY Clients DEF Owed, Handles
<1>2. /\ up[Receiver] \in Seq(Message) /\ down[Receiver] \in Seq(Message) /\ r[Receiver] \in Seq(Message)
      /\ \/ up'[Receiver] \in {up[Receiver], <<>>}
         \/ up[Receiver] # <<>> /\ Receiver = c /\ Receiver \notin cut' /\ up'[Receiver] = Tail(up[Receiver])
      /\ down'[Receiver] = down[Receiver] \o r[Receiver]
      /\ r[Receiver] = <<>> => down'[Receiver] = down[Receiver]
      /\ c = Receiver => up[Receiver] # <<>>
      /\ Receiver \in cut' \ cut => stage[Receiver] # "start"
  <2>1. down[Receiver] \o <<>> = down[Receiver]
    BY <1>1, ConcatEmptySeq DEF IInv, Types
  <2> QED
    BY <1>1, <2>1, Queued, Zenon DEF Handles
<1>3. /\ \A m \in Q(up'[Receiver]) : m \in Q(up[Receiver])
      /\ \A types : Has(up'[Receiver], types) => Has(up[Receiver], types)
      /\ \A types : Has(down'[Receiver], types) <=> Has(down[Receiver], types) \/ Has(r[Receiver], types)
      /\ Receiver \notin cut' => Receiver \notin cut /\ \A types :
           Has(up[Receiver], types) => Has(up'[Receiver], types) \/ (Receiver = c /\ Head(up[Receiver]).type \in types)
  BY <1>1, Queued, Zenon
<1>4. /\ RegistersFirst(up'[Receiver])
      /\ Receiver = c /\ Receiver \notin cut' => ~Has(up'[Receiver], {"register"})
  <2>1. RegistersFirst(<<>>) /\ ~Has(<<>>, {"register"})
    <3>1. RegistersFirst(<<>>)
      BY DEF RegistersFirst
    <3> QED
      BY <3>1, NoMessage DEF Has
  <2>2. c = Receiver /\ Receiver \notin cut' => up'[Receiver] = Tail(up[Receiver])
    BY <1>1, Zenon DEF Handles
  <2> QED
    BY <1>1, <1>2, <2>1, <2>2, RegistersRest DEF Hosting
<1>5. stage[Receiver] = "start" => up'[Receiver] = <<>> /\ down'[Receiver] = <<>>
  <2>1. SUFFICES ASSUME stage[Receiver] = "start" PROVE up'[Receiver] = <<>> /\ down'[Receiver] = <<>>
    OBVIOUS
  <2>2. up[Receiver] = <<>> /\ down[Receiver] = <<>> /\ session = None /\ ~waiting /\ Receiver \notin cut
    BY <1>1, <2>1 DEF Hosting, Closing
  <2> QED
    BY <1>2, <2>1, <2>2
<1>6. \A s \in Sender : ~Has(up'[s], {"register", "retry"})
  BY <1>1, Queued, Clients, Zenon DEF Hosting
<1>7. stage[Receiver] = "start" \/ Has(up'[Receiver], {"register"}) => session' = None /\ ~waiting'
  BY <1>1, <1>3 DEF Hosting
<1>8. ASSUME Receiver \notin cut', stage[Receiver] = "registering"
      PROVE  /\ Has(up'[Receiver], {"register"}) => down'[Receiver] = <<>>
             /\ Has(down'[Receiver], {"error"}) =>
                  session' = None /\ ~waiting' /\ up'[Receiver] = <<>> /\ Tail(down'[Receiver]) = <<>>
             /\ Has(up'[Receiver], {"register"}) \/ Has(down'[Receiver], {"registered", "error"})
  <2>1. /\ Receiver \notin cut
        /\ Has(up[Receiver], {"register"}) => down[Receiver] = <<>> /\ session = None /\ ~waiting
        /\ Has(down[Receiver], {"error"}) =>
             session = None /\ ~waiting /\ up[Receiver] = <<>> /\ Tail(down[Receiver]) = <<>>
        /\ Has(up[Receiver], {"register"}) \/ Has(down[Receiver], {"registered", "error"})
    BY <1>1, <1>3, <1>8 DEF Hosting
  <2>2. Has(up'[Receiver], {"register"}) => down'[Receiver] = <<>>
    BY <1>2, <1>3, <1>4, <1>8, <2>1
  <2>3. c # Receiver
    <3>1. c = Receiver => Head(up[Receiver]) \in Q(up[Receiver])
      BY <1>2, QueueEnds
    <3> QED
      BY <1>1, <1>8, <3>1 DEF Hosting
  <2>4. Has(down'[Receiver], {"error"}) =>
          session' = None /\ ~waiting' /\ up'[Receiver] = <<>> /\ Tail(down'[Receiver]) = <<>>
    BY <1>2, <1>3, <1>8, <2>1, <2>3, Zenon
  <2> QED
    BY <1>3, <1>8, <2>1, <2>2, <2>3, <2>4
<1> QED
  BY <1>1, <1>3, <1>4, <1>5, <1>6, <1>7, <1>8 DEF Hosting

\* A sender is answered, and told what the receiver says in the order it needs.
LEMMA HandlesMeeting ==
  ASSUME IInv, Owed, NEW c, NEW r, Handles(c, r), NEW s \in Sender,
         c = s /\ Head(up[s]).type = "connect" /\ s \notin cut' =>
           stage[s] = "over" \/ Has(r[s], {"peer-joined", "error"}),
         s \notin cut' /\ (sid[s] # None \/ Has(down'[s], {"peer-joined"})) => session' = s,
         session' = s /\ stage[s] = "joining" => Has(down'[s], {"peer-joined"}),
         Carries(r[s], RelayType, s) => session = s,
         session' = s /\ stage[s] = "awaiting" => Said(s, "pair-request")',
         Behind(r[s], {"pair-accept"}, {"ice-config"}, s)
  PROVE  Meeting(s)'
<1>1. /\ stage' = stage /\ sid' = sid /\ shut' = shut /\ cached' = cached
      /\ s \in Client /\ Meeting(s) /\ down'[s] = down[s] \o r[s] /\ down[s] \in Seq(Message)
      /\ r[s] \in Seq(Message)
  BY Clients, Queued, Zenon DEF Handles, Owed
<1>2. /\ \A types : Has(down'[s], types) <=> Has(down[s], types) \/ Has(r[s], types)
      /\ s \notin cut' => s \notin cut /\ \A types :
           Has(up[s], types) => Has(up'[s], types) \/ (s = c /\ Head(up[s]).type \in types)
  BY <1>1, Queued, Zenon
<1>3. s \notin cut' /\ stage[s] = "joining" => Has(up'[s], {"connect"}) \/ Has(down'[s], {"peer-joined", "error"})
  BY <1>1, <1>2 DEF Meeting
<1>4. ASSUME stage[s] = "joining"
      PROVE  Behind(down'[s], RelayType, {"peer-joined"}, s)
  <2>1. Behind(down[s], RelayType, {"peer-joined"}, s)
    BY <1>1, <1>4 DEF Meeting
  <2>2. CASE Carries(r[s], RelayType, s)
    <3>1. PICK m \in Q(down[s]) : m.type = "peer-joined"
      BY <1>1, <1>4, <2>2 DEF Meeting, Has
    <3>2. m.sid = s
      BY <1>1, <3>1, Clients DEF IInv, DownSound
    <3> QED
      BY <1>1, <2>1, <3>1, <3>2, BehindJoin
  <2>3. CASE ~Carries(r[s], RelayType, s)
    BY <1>1, <2>1, <2>3, BehindNone, BehindJoin
  <2> QED
    BY <2>2, <2>3
<1>5. s \notin cached \cup shut /\ stage[s] # "paired" => Behind(down'[s], {"pair-accept"}, {"ice-config"}, s)
  BY <1>1, BehindJoin DEF Meeting
<1> QED
  BY <1>1, <1>3, <1>4, <1>5 DEF Meeting

\* The receiver's retry and its acceptance are answered.
LEMMA HandlesReturning ==
  ASSUME IInv, Owed, NEW c, NEW r, Handles(c, r),
         c = Receiver /\ Receiver \notin cut' /\ stage[Receiver] # "over" =>
           /\ Head(up[Receiver]).type = "retry" => Has(r[Receiver], {"registered"})
           /\ Head(up[Receiver]).type = "pair-accept" => Has(r[Receiver], {"ice-config", "error"})
           /\ Of(Head(up[Receiver]), sid[Receiver]) /\ sid[Receiver] # session => Has(r[Receiver], {"error"}),
         Receiver \notin cut' /\ sid[Receiver] = session /\ session \notin {None, session'} => Adrift'
  PROVE  Returning'
<1>1. SUFFICES ASSUME Receiver \notin cut' PROVE Returning'
  BY DEF Returning
<1>2. /\ stage' = stage /\ sid' = sid /\ settled' = settled /\ Receiver \notin cut
      /\ Receiver \in Client /\ Returning /\ Local(Receiver)
  BY <1>1, Clients DEF Handles, Owed, IInv
<1>3. /\ up[Receiver] \in Seq(Message)
      /\ up'[Receiver] = (IF Receiver = c THEN Tail(up[Receiver]) ELSE up[Receiver]) /\ (Receiver = c => up[Receiver] # <<>>)
  BY <1>1, <1>2 DEF Handles, IInv, Types
<1>4. /\ \A types : Has(down'[Receiver], types) <=> Has(down[Receiver], types) \/ Has(r[Receiver], types)
      /\ \A types, s : Carries(down[Receiver], types, s) => Carries(down'[Receiver], types, s)
      /\ \A types :
           Has(up[Receiver], types) => Has(up'[Receiver], types) \/ (Receiver = c /\ Head(up[Receiver]).type \in types)
  BY <1>1, <1>2, Queued, Zenon
<1>5. stage[Receiver] \in {"rekeying", "rerequesting"} =>
        Has(up'[Receiver], {"retry"}) \/ Has(down'[Receiver], {"registered"})
  BY <1>1, <1>2, <1>4 DEF Returning
<1>6. stage[Receiver] = "ice" => Has(up'[Receiver], {"pair-accept"}) \/ Has(down'[Receiver], {"ice-config", "error"})
  BY <1>1, <1>2, <1>4 DEF Returning
<1>7. sid[Receiver] # None => Resumes(up'[Receiver], sid[Receiver])
  BY <1>2, <1>3, ResumesRest DEF Returning
<1>8. ASSUME sid[Receiver] \notin {None, session'}
      PROVE  Adrift'
  <2>1. CASE sid[Receiver] = session
    BY <1>1, <1>8, <2>1
  <2>2. CASE sid[Receiver] # session
    <3>1. Adrift /\ stage[Receiver] # "over"
      BY <1>2, <1>8, <2>2 DEF Returning, Local, Keyed
    <3>2. Carries(up[Receiver], RelayType, sid[Receiver]) =>
            Carries(up'[Receiver], RelayType, sid[Receiver]) \/ Has(r[Receiver], {"error"})
      <4>1. c = Receiver => \A m \in Q(up[Receiver]) : m = Head(up[Receiver]) \/ m \in Q(Tail(up[Receiver]))
        BY <1>3, QueueEnds
      <4> QED
        BY <1>1, <1>3, <2>2, <3>1, <4>1 DEF Carries, Of
    <3> QED
      BY <1>2, <1>4, <3>1, <3>2 DEF Adrift
  <2> QED
    BY <2>1, <2>2
<1> QED
  BY <1>2, <1>5, <1>6, <1>7, <1>8 DEF Returning

\* The session lives on, or there is none: what is relayed is delivered.
LEMMA StaysOwed ==
  ASSUME IInv, Phases, Owed, NEW c, NEW r, Handles(c, r), Served(c), session' = session,
         Hosting', Returning',
         \A s \in Sender :
           /\ c = s /\ Head(up[s]).type = "connect" /\ s \notin cut' =>
                stage[s] = "over" \/ Has(r[s], {"peer-joined", "error"})
           /\ Carries(r[s], RelayType, s) => session = s
           /\ Behind(r[s], {"pair-accept"}, {"ice-config"}, s),
         \A x \in Client : ~Has(r[x], {"peer-joined"}),
         session # None => Flags(c) /\ (c = Receiver => Head(up[c]).type # "retry"),
         session # None => \A d \in {session, Receiver} :
           /\ Rising(down'[d], session)
           /\ \A t \in Turns : <<Target(d), t>> \in seen' =>
                <<Target(d), t>> \in seen \/ Carries(r[d], {t}, session) \/ stage[d] = "over"
  PROVE  Owed'
<1>1. /\ stage' = stage /\ sid' = sid /\ settled' = settled /\ shut' = shut /\ cached' = cached
      /\ (c \in Client => up[c] # <<>>) /\ Receiver \in Client /\ Sender \subseteq Client /\ Receiver \notin Sender
      /\ session \in Sender \cup {None} /\ None \notin Sender /\ cut \subseteq cut'
  BY Clients DEF Handles, IInv, Types
<1>2. \A x \in Client : Closing(x)' /\ Leaving(x)'
  BY HandlesClosing
<1>3. session # None => session \notin cut' /\ Receiver \notin cut' /\ session \in Sender
  BY <1>1 DEF Hosting
<1>4. ASSUME session # None, NEW x \in {session, Receiver}, NEW t \in RelayType, Said(x, t)
      PROVE  Said(x, t)'
  BY <1>1, <1>3, <1>4, ServedSaid
<1>5. ASSUME NEW s \in Sender
      PROVE  Meeting(s)'
  <2>1. Meeting(s) /\ s \in Client /\ (Has(down'[s], {"peer-joined"}) <=> Has(down[s], {"peer-joined"}))
    BY <1>1, Queued, Zenon DEF Owed
  <2>2. session' = s /\ stage[s] = "awaiting" => Said(s, "pair-request")'
    BY <1>1, <1>4, <2>1 DEF Meeting, RelayType
  <2>3. s \notin cut' /\ (sid[s] # None \/ Has(down'[s], {"peer-joined"})) => session' = s
    BY <1>1, <2>1 DEF Meeting
  <2>4. session' = s /\ stage[s] = "joining" => Has(down'[s], {"peer-joined"})
    BY <2>1 DEF Meeting
  <2> QED
    BY <2>2, <2>3, <2>4, HandlesMeeting
<1>6. /\ down[Receiver] \in Seq(Message) /\ r[Receiver] \in Seq(Message) /\ down'[Receiver] = down[Receiver] \o r[Receiver]
      /\ ~Carries(r[Receiver], {"peer-joined"}, session)
      /\ Carries(down'[Receiver], {"peer-joined"}, session) <=> Carries(down[Receiver], {"peer-joined"}, session)
  <2>1. ~Carries(r[Receiver], {"peer-joined"}, session)
    BY <1>1 DEF Has, Carries
  <2>2. /\ Carries(down'[Receiver], {"peer-joined"}, session) <=>
             Carries(down[Receiver], {"peer-joined"}, session) \/ Carries(r[Receiver], {"peer-joined"}, session)
        /\ down[Receiver] \in Seq(Message) /\ r[Receiver] \in Seq(Message)
    BY <1>1, Queued, Zenon
  <2> QED
    BY <1>1, <2>1, <2>2, Zenon DEF Handles
<1>7. Awaited'
  <2>1. SUFFICES ASSUME session # None PROVE Awaited'
    BY DEF Awaited
  <2>2. Awaited /\ (Free' => Free)
    <3>1. Has(up[Receiver], {"retry"}) => Has(up'[Receiver], {"retry"})
      <4>1. Has(up[Receiver], {"retry"}) => Has(up'[Receiver], {"retry"}) \/ (Receiver = c /\ Head(up[Receiver]).type \in {"retry"})
        BY <1>1, <1>3, <2>1, Queued, Zenon
      <4> QED
        BY <2>1, <4>1
    <3> QED
      BY <1>1, <3>1 DEF Owed, Free
  <2>3. stage[Receiver] \in Early /\ Free =>
          Behind(down'[Receiver], {"peer-joined"}, {"registered"}, session)
    BY <1>6, <2>1, <2>2, BehindNone, BehindJoin DEF Awaited
  <2>4. ASSUME Carries(down[Receiver], {"peer-joined"}, session)
        PROVE  Behind(down'[Receiver], RelayType, {"peer-joined"}, session)
    <3>1. Behind(down[Receiver], RelayType, {"peer-joined"}, session)
      BY <2>1, <2>2, <2>4 DEF Awaited
    <3>2. \E m \in Q(down[Receiver]) : m.type \in {"peer-joined"} /\ m.sid = session
      BY <2>4 DEF Carries
    <3> QED
      BY <1>6, <3>1, <3>2, BehindJoin
  <2> QED
    BY <1>1, <1>6, <2>1, <2>2, <2>3, <2>4 DEF Awaited
<1>8. ASSUME session # None, NEW d \in {session, Receiver}
      PROVE  Delivered(d)'
  <2>1. /\ d \in Client /\ Delivered(d) /\ Target(d)' = Target(d)
        /\ \A t : Past(d, t)' <=> Past(d, t)
    BY <1>1, <1>8 DEF Owed, Target, Past
  <2>2. Reads(d)' => Reads(d) /\ stage[d] # "over"
    BY <1>1, <1>6, Zenon DEF Reads
  <2>3. \A t : Carries(down[d], {t}, session) \/ Carries(r[d], {t}, session) => Carries(down'[d], {t}, session)
    <3>1. \A types, s : Carries(down'[d], types, s) <=> Carries(down[d], types, s) \/ Carries(r[d], types, s)
      BY <2>1, Queued, Zenon
    <3> QED
      BY <3>1
  <2> QED
    BY <1>8, <2>1, <2>2, <2>3 DEF Delivered
<1>9. session # None /\ sid[Receiver] = session /\ stage[Receiver] = "ice" => Said(Receiver, "pair-accept")'
  BY <1>4 DEF Owed, RelayType
<1> QED
  BY <1>1, <1>2, <1>5, <1>7, <1>8, <1>9 DEF Owed

\* The session ends and its sender is closed.
LEMMA EndsOwed ==
  ASSUME IInv, Phases, Owed, NEW c, NEW r, Handles(c, r), session # None, session' = None, session \in cut',
         waiting' => Receiver \notin cut',
         c = Receiver => Head(up[Receiver]).type # "register",
         Has(r[Receiver], {"error"}) /\ Receiver \notin cut' => c = Receiver,
         Receiver \notin cut' /\ stage[Receiver] # "over" =>
           c # Receiver \/ (Head(up[Receiver]).type = "retry" /\ Has(r[Receiver], {"registered"})),
         Receiver \notin cut' /\ sid[Receiver] = session => Adrift',
         c \notin Sender \ {session},
         \A s \in Sender : /\ ~Has(r[s], {"peer-joined"})
                           /\ Carries(r[s], RelayType, s) => session = s
                           /\ Behind(r[s], {"pair-accept"}, {"ice-config"}, s)
  PROVE  Owed'
<1>1. stage' = stage /\ sid' = sid /\ None \notin Sender /\ session \in Sender /\ Sender \subseteq Client
  BY Clients DEF Handles, IInv, Types
<1>2. \A x \in Client : Closing(x)' /\ Leaving(x)'
  BY HandlesClosing
<1>3. ASSUME NEW s \in Sender
      PROVE  Meeting(s)'
  <2>1. Meeting(s) /\ s \in Client /\ (Has(down'[s], {"peer-joined"}) <=> Has(down[s], {"peer-joined"}))
    <3>1. s \in Client
      BY <1>1
    <3>2. \A types : Has(down'[s], types) <=> Has(down[s], types) \/ Has(r[s], types)
      BY <3>1, Queued, Zenon
    <3> QED
      BY <3>1, <3>2 DEF Owed
  <2>2. s \notin cut' => s \notin cut /\ s # session /\ c # s
    BY <1>1 DEF Handles
  <2> QED
    BY <1>1, <2>1, <2>2, HandlesMeeting DEF Meeting
<1>4. Hosting'
  BY HandlesHosting
<1>5. Returning'
  <2>1. Head(up[Receiver]).type = "retry" => Head(up[Receiver]).type # "pair-accept" /\ ~Of(Head(up[Receiver]), sid[Receiver])
    BY DEF Of, RelayType
  <2> QED
    BY <2>1, HandlesReturning
<1> QED
  BY <1>2, <1>3, <1>4, <1>5 DEF Owed, Awaited

-----------------------------------------------------------------------------
(* The actions of the server and what is owed *)

\* What each client is told when a handler writes to one or two of them.
Tells(r, x, a, y, b) ==
  /\ r \in [Client -> Seq(Message)] /\ \A z \in Client : down'[z] = down[z] \o r[z]
  /\ \A z \in Client \ {x, y} : r[z] = <<>>
  /\ r[x] \in {a, <<>>} /\ (x \notin cut /\ stage[x] # "over" => r[x] = a)
  /\ r[y] \in {b, <<>>} /\ (y \notin cut /\ stage[y] # "over" => r[y] = b)

\* A handler that writes to two clients.
LEMMA TellsTwo ==
  ASSUME Types, NEW x \in Client, NEW y \in Client, x # y, NEW a \in Seq(Message), NEW b \in Seq(Message),
         TellsBoth(x, a, y, b)
  PROVE  \E r : Tells(r, x, a, y, b)
<1>1. PICK t \in Seq(Message) : IsTold(x, a, t)
  BY TwoTold
<1>2. PICK u \in Seq(Message) : IsTold(y, b, u)
  BY TwoTold
<1>3. \A z \in Client \ {x, y} : down'[z] = down[z] \o <<>>
  BY TwoTold
<1> DEFINE r == [z \in Client |-> IF z = x THEN t ELSE IF z = y THEN u ELSE <<>>]
<1>4. /\ r \in [Client -> Seq(Message)] /\ r[x] = t /\ r[y] = u /\ \A z \in Client \ {x, y} : r[z] = <<>>
  BY NoMessage
<1> HIDE DEF r
<1>5. /\ down'[x] = down[x] \o t /\ (t = a \/ t = <<>>) /\ (x \notin cut /\ stage[x] # "over" => t = a)
      /\ down'[y] = down[y] \o u /\ (u = b \/ u = <<>>) /\ (y \notin cut /\ stage[y] # "over" => u = b)
  BY <1>1, <1>2 DEF IsTold
<1>6. \A z \in Client : down'[z] = down[z] \o r[z]
  BY <1>3, <1>4, <1>5, Zenon
<1>7. Tells(r, x, a, y, b)
  BY <1>4, <1>5, <1>6 DEF Tells
<1> QED
  BY <1>7

\* A handler that writes to one.
LEMMA TellsOne ==
  ASSUME Types, NEW x \in Client, NEW a \in Seq(Message), Reply(x, a)
  PROVE  \E r : Tells(r, x, a, x, a)
<1>1. down \in [Client -> Seq(Message)]
  BY DEF Types
<1>2. down'[x] = Out(x, a) /\ \A z \in Client \ {x} : down'[z] = down[z]
  BY <1>1 DEF Reply
<1>3. PICK t \in Seq(Message) : /\ t = a \/ t = <<>>
                                /\ Out(x, a) = down[x] \o t
                                /\ x \notin cut /\ stage[x] # "over" => t = a
  BY OutIs, Zenon
<1> DEFINE r == [z \in Client |-> IF z = x THEN t ELSE <<>>]
<1>4. /\ r \in [Client -> Seq(Message)] /\ r[x] = t /\ \A z \in Client \ {x} : r[z] = <<>>
  BY NoMessage
<1> HIDE DEF r
<1>5. \A z \in Client : down'[z] = down[z] \o r[z]
  <2>1. \A z \in Client : down[z] \o <<>> = down[z]
    BY <1>1, ConcatEmptySeq
  <2> QED
    BY <1>2, <1>3, <1>4, <2>1, Zenon
<1>6. Tells(r, x, a, x, a)
  BY <1>3, <1>4, <1>5 DEF Tells
<1> QED
  BY <1>6

\* Who has sent something, and the members of the session, have connected.
LEMMA Connected ==
  ASSUME IInv, Phases, Owed
  PROVE  /\ \A x \in Client : up[x] # <<>> => stage[x] # "start" /\ x \notin cut
         /\ session # None => /\ stage[session] # "start" /\ stage[Receiver] # "start" /\ ~waiting
                              /\ session \notin cut /\ Receiver \notin cut /\ session \in Sender
                              /\ session \in Client /\ session # Receiver /\ ~Has(up[Receiver], {"register"})
         /\ waiting => stage[Receiver] # "start" /\ session = None /\ Receiver \notin cut
         /\ Receiver \in Client /\ None \notin Client
<1>1. \A x \in Client : up[x] # <<>> => stage[x] # "start" /\ x \notin cut
  BY Clients DEF Owed, Hosting, IInv, MeetsOnce, Phases, CutEmpty
<1>2. session \in Sender \cup {None}
  BY DEF IInv, Types
<1> QED
  BY <1>1, <1>2, Clients DEF Owed, Hosting

\* A handler, by what it does beside taking a message.
LEMMA HandlesIf ==
  ASSUME IInv, NEW c, c \in Client => up[c] # <<>>, Served(c), cut \subseteq cut',
         NEW r \in [Client -> Seq(Message)], \A z \in Client : down'[z] = down[z] \o r[z],
         \A x \in Client :
           /\ Has(r[x], {"close"}) => x \in cut'
           /\ x \in cut' \ cut => stage[x] # "start" /\ (stage[x] = "over" \/ Has(r[x], {"close"}))
           /\ Known(x)' /\ x \notin cut' => Known(x),
         c \in Client /\ Head(up[c]).type \in Goodbyes => c \in cut'
  PROVE  Handles(c, r)
<1>1. UNCHANGED <<stage, sid, settled, shut, cached>>
  BY DEF Served, held
<1>2. \A x \in Client : up'[x] = IF x \in cut' THEN <<>> ELSE IF x = c THEN Tail(up[x]) ELSE up[x]
  BY DEF Served
<1> QED
  BY <1>1, <1>2 DEF Handles

\* What a client is known by does not come from the server, unless it takes it up.
LEMMA StillKnown ==
  ASSUME IInv, NEW c, c \in Client => up[c] # <<>>, Served(c), NEW x \in Client, Known(x)',
         session' \in {session, None},
         waiting' => waiting \/ session # None
  PROVE  Known(x)
<1>1. Q(up'[x]) \subseteq Q(up[x])
  <2>1. up[x] \in Seq(Message)
    BY DEF IInv, Types
  <2>2. up'[x] \in {up[x], <<>>} \/ (up[x] # <<>> /\ up'[x] = Tail(up[x]))
    BY DEF Served
  <2> QED
    BY <2>1, <2>2, QueueEnds, NoMessage
<1>2. \A types : Has(up'[x], types) => Has(up[x], types)
  BY <1>1 DEF Has
<1>3. x \in Sender => x # None
  BY Clients
<1> QED
  BY <1>2, <1>3, Clients DEF Known

\* Rising queues, one after the other.
LEMMA RisingJoins ==
  ASSUME NEW q \in Seq(Message), NEW r \in Seq(Message), NEW s, Rising(q, s), Rising(r, s),
         \A m \in Q(q) : \A n \in Q(r) : Of(m, s) /\ Of(n, s) => Rank(m.type) < Rank(n.type)
  PROVE  Rising(q \o r, s)
<1>1. /\ Len(q \o r) = Len(q) + Len(r) /\ q \o r \in Seq(Message)
      /\ \A i \in 1 .. Len(q) + Len(r) : (q \o r)[i] = IF i <= Len(q) THEN q[i] ELSE r[i - Len(q)]
      /\ Len(q) \in Nat /\ Len(r) \in Nat /\ DOMAIN q = 1 .. Len(q) /\ DOMAIN r = 1 .. Len(r)
  BY ConcatProperties, LenProperties
<1>2. DOMAIN (q \o r) = 1 .. Len(q) + Len(r)
  BY <1>1, LenProperties
<1>3. SUFFICES ASSUME NEW i \in DOMAIN (q \o r), NEW j \in DOMAIN (q \o r), i < j,
                      Of((q \o r)[i], s), Of((q \o r)[j], s)
               PROVE  Rank((q \o r)[i].type) < Rank((q \o r)[j].type)
  BY Zenon DEF Rising
<1>4. i \in Nat /\ j \in Nat
  BY <1>1, <1>2
<1>5. CASE i <= Len(q) /\ j <= Len(q)
  <2>1. i \in DOMAIN q /\ j \in DOMAIN q /\ (q \o r)[i] = q[i] /\ (q \o r)[j] = q[j]
    BY <1>1, <1>2, <1>4, <1>5
  <2> QED
    BY <1>3, <2>1 DEF Rising
<1>6. CASE i <= Len(q) /\ ~(j <= Len(q))
  <2>1. i \in DOMAIN q /\ j - Len(q) \in DOMAIN r /\ (q \o r)[i] = q[i] /\ (q \o r)[j] = r[j - Len(q)]
    BY <1>1, <1>2, <1>4, <1>6
  <2>2. q[i] \in Q(q) /\ r[j - Len(q)] \in Q(r)
    BY <2>1 DEF Q
  <2> QED
    BY <1>3, <2>1, <2>2
<1>7. CASE ~(i <= Len(q))
  <2>1. /\ i - Len(q) \in DOMAIN r /\ j - Len(q) \in DOMAIN r /\ i - Len(q) < j - Len(q)
        /\ (q \o r)[i] = r[i - Len(q)] /\ (q \o r)[j] = r[j - Len(q)]
    BY <1>1, <1>2, <1>3, <1>4, <1>7
  <2> QED
    BY <1>3, <2>1 DEF Rising
<1> QED
  BY <1>4, <1>5, <1>6, <1>7

\* What does not belong to a session does not disturb its order.
LEMMA RisingStays ==
  ASSUME IInv, Owed, NEW c, NEW r, Handles(c, r), session # None, NEW d \in {session, Receiver},
         \A m \in Q(r[d]) : m.type \notin RelayType
  PROVE  Rising(down'[d], session)
<1>1. d \in Client /\ down[d] \in Seq(Message) /\ r[d] \in Seq(Message) /\ down'[d] = down[d] \o r[d] /\ Rising(down[d], session)
  BY Clients, Zenon DEF Handles, IInv, Types, Owed, Delivered
<1>2. ~Carries(r[d], RelayType, session)
  BY DEF Carries
<1>3. Rising(r[d], session) /\ \A m \in Q(r[d]) : ~Of(m, session)
  BY <1>2, RisingNone
<1> QED
  BY <1>1, <1>3, RisingJoins

\* A notice to the client whose message was not served.
LEMMA NoticeOwed ==
  ASSUME IInv, Phases, Owed, NEW c \in Client, up[c] # <<>>, NEW n \in Message, n.type \in {"error", "registered"},
         Reply(c, <<n>>), Served(c), UNCHANGED server,
         Head(up[c]).type \notin Goodbyes \cup {"register"},
         session # None /\ c \in {session, Receiver} => ~Of(Head(up[c]), session),
         Head(up[c]).type \in RelayType \cup {"connect"} => n.type = "error",
         Head(up[c]).type = "retry" => n.type = "registered" /\ session = None
  PROVE  Owed'
<1> DEFINE a == <<n>>
<1>1. a \in Seq(Message) /\ Q(a) = {n} /\ Reply(c, a) /\ Types
  BY OneMessage DEF IInv
<1> HIDE DEF a
<1>2. PICK r : Tells(r, c, a, c, a)
  BY <1>1, TellsOne
<1>3. /\ waiting' = waiting /\ session' = session /\ seen' = seen /\ cut' = cut /\ c \notin cut
      /\ Receiver \in Client /\ None \notin Client
  BY Connected DEF server
<1>4. /\ r \in [Client -> Seq(Message)] /\ \A z \in Client : down'[z] = down[z] \o r[z]
      /\ \A z \in Client \ {c} : r[z] = <<>>
      /\ \A z \in Client : \A m \in Q(r[z]) : m = n /\ z = c
      /\ stage[c] # "over" => Q(r[c]) = {n}
  BY <1>1, <1>2, <1>3, NoMessage DEF Tells
<1>5. Handles(c, r)
  <2>1. \A x \in Client : ~Has(r[x], {"close"}) /\ (Known(x)' => Known(x))
    BY <1>3, <1>4, StillKnown DEF Has
  <2> QED
    BY <1>3, <1>4, <2>1, HandlesIf, Zenon
<1>6. stage[c] # "over" => \A types : n.type \in types => Has(r[c], types)
  BY <1>4 DEF Has
<1>7. Hosting'
  <2>1. Has(r[Receiver], {"error"}) => c = Receiver
    BY <1>3, <1>4 DEF Has
  <2> QED
    BY <1>3, <1>4, <1>5, <2>1, Connected, HandlesHosting
<1>8. Returning'
  <2>1. c = Receiver /\ stage[Receiver] # "over" =>
           /\ Head(up[Receiver]).type = "retry" => Has(r[Receiver], {"registered"})
           /\ Head(up[Receiver]).type = "pair-accept" => Has(r[Receiver], {"ice-config", "error"})
           /\ Of(Head(up[Receiver]), sid[Receiver]) => Has(r[Receiver], {"error"})
    BY <1>6 DEF Of, RelayType
  <2> QED
    BY <1>3, <1>5, <2>1, HandlesReturning
<1>9. \A s \in Sender :
        /\ c = s /\ Head(up[s]).type = "connect" => stage[s] = "over" \/ Has(r[s], {"peer-joined", "error"})
        /\ ~Carries(r[s], RelayType, s)
        /\ Behind(r[s], {"pair-accept"}, {"ice-config"}, s)
  <2>1. ASSUME NEW s \in Sender
        PROVE  ~Carries(r[s], RelayType, s) /\ ~Carries(r[s], {"pair-accept"}, s)
    BY <1>4, <2>1, Clients DEF Carries, RelayType
  <2> QED
    BY <1>6, <2>1, BehindNone
<1>10. \A x \in Client : ~Has(r[x], {"peer-joined"}) /\ \A m \in Q(r[x]) : m.type \notin RelayType
  BY <1>4 DEF Has, RelayType
<1>11. session # None => Flags(c) /\ (c = Receiver => Head(up[c]).type # "retry")
  BY <1>3 DEF Flags
<1>12. session # None => \A d \in {session, Receiver} : d \in Client /\ Rising(down'[d], session)
  BY <1>5, <1>10, Connected, RisingStays
<1> QED
  BY <1>3, <1>5, <1>7, <1>8, <1>9, <1>10, <1>11, <1>12, StaysOwed

\* The receiver's registration is answered.
LEMMA RegisterOwed ==
  ASSUME IInv, Phases, Owed, NEW c \in Client, Register(c) \/ RegisterTaken(c)
  PROVE  Owed'
<1> DEFINE n == IF waiting' THEN Plain("registered") ELSE Failure("code_taken")
<1>1. Types /\ up[c] # <<>> /\ Head(up[c]) \in Q(up[c]) /\ Head(up[c]).type = "register" /\ up[c] \in Seq(Message) /\ Hosting
  BY Arrived DEF Register, RegisterTaken, IInv, Types, Owed
<1>2. Has(up[c], {"register"})
  BY <1>1 DEF Has
<1>3. c = Receiver /\ session = None /\ ~waiting /\ c \notin cut /\ stage[c] # "start" /\ None \notin Client
  <2>1. c \notin Sender
    BY <1>1, <1>2 DEF Hosting, Has
  <2> QED
    BY <1>1, <1>2, <2>1, Clients, Connected DEF Hosting
<1>4. session' = session /\ seen' = seen /\ cut' = cut /\ Served(c)
  BY DEF Register, RegisterTaken, server
<1>5. /\ n \in Message /\ n.type = (IF waiting' THEN "registered" ELSE "error")
      /\ Reply(c, <<n>>)
  <2>1. /\ Plain("registered") \in Message /\ Plain("registered").type = "registered"
        /\ Failure("code_taken") \in Message /\ Failure("code_taken").type = "error"
    BY DEF Plain, Failure, Msg, Message, MsgType, Key, Code
  <2>2. CASE Register(c)
    BY <2>1, <2>2 DEF Register
  <2>3. CASE RegisterTaken(c)
    BY <1>3, <2>1, <2>3 DEF RegisterTaken, server
  <2> QED
    BY <2>2, <2>3
<1> HIDE DEF n
<1> DEFINE a == <<n>>
<1>6. a \in Seq(Message) /\ Q(a) = {n} /\ Reply(c, a) /\ Tail(a) = <<>>
  BY <1>5, OneMessage
<1> HIDE DEF a
<1>7. PICK r : Tells(r, c, a, c, a)
  BY <1>1, <1>6, TellsOne
<1>8. /\ r \in [Client -> Seq(Message)] /\ \A z \in Client : down'[z] = down[z] \o r[z]
      /\ \A z \in Client \ {c} : r[z] = <<>>
      /\ \A z \in Client : \A m \in Q(r[z]) : m = n /\ z = c
      /\ stage[c] # "over" => r[c] = a
  BY <1>3, <1>6, <1>7, NoMessage DEF Tells
<1>9. Handles(c, r)
  <2>1. \A x \in Client : ~Has(r[x], {"close"})
    BY <1>5, <1>8 DEF Has
  <2>2. ASSUME NEW x \in Client, Known(x)' PROVE Known(x)
    <3>1. CASE x = c
      BY <1>2, <1>3, <3>1 DEF Known
    <3>2. CASE x # c
      <4>1. up'[x] \in {up[x], <<>>}
        BY <3>2 DEF Served, Register, RegisterTaken
      <4>2. Has(up'[x], {"connect"}) => Has(up[x], {"connect"})
        BY <4>1, NoMessage DEF Has
      <4> QED
        BY <1>3, <1>4, <2>2, <3>2, <4>2 DEF Known
    <3> QED
      BY <3>1, <3>2
  <2> QED
    BY <1>1, <1>4, <1>8, <2>1, <2>2, HandlesIf, Zenon DEF Goodbyes
<1>10. /\ up'[c] = Tail(up[c]) /\ stage' = stage /\ down'[c] = down[c] \o r[c]
       /\ \A s \in Sender : s \in Client /\ up'[s] \in {up[s], <<>>}
  BY <1>3, <1>4, <1>9, Clients, Zenon DEF Handles
<1>11. /\ RegistersFirst(Tail(up[c])) /\ ~Has(Tail(up[c]), {"register"}) /\ Tail(up[c]) \in Seq(Message)
       /\ Q(Tail(up[c])) \subseteq Q(up[c])
  BY <1>1, <1>3, RegistersRest, QueueEnds DEF Hosting
<1>12. Hosting'
  <2>1. \A s \in Sender : ~Has(up'[s], {"register", "retry"})
    BY <1>1, <1>10, NoMessage DEF Hosting, Has
  <2>2. ASSUME stage[c] = "registering"
        PROVE  /\ \A m \in Q(up'[c]) : m.type = "register"
               /\ Has(down'[c], {"error"}) => ~waiting' /\ up'[c] = <<>> /\ Tail(down'[c]) = <<>>
               /\ Has(down'[c], {"registered", "error"})
    <3>1. \A m \in Q(up[c]) : m.type = "register"
      BY <1>1, <1>3, <2>2 DEF Hosting
    <3>2. Q(Tail(up[c])) = {}
      BY <1>11, <3>1 DEF Has
    <3>3. Tail(up[c]) = <<>>
      <4>1. ASSUME Tail(up[c]) # <<>> PROVE FALSE
        BY <1>11, <3>2, <4>1, QueueEnds, Zenon
      <4> QED
        BY <4>1
    <3>4. down[c] = <<>> /\ r[c] = a
      BY <1>1, <1>2, <1>3, <1>8, <2>2 DEF Hosting
    <3>5. down'[c] = a
      BY <1>6, <1>10, <3>4
    <3> QED
      BY <1>5, <1>6, <1>10, <3>2, <3>3, <3>5 DEF Has
  <2>3. /\ RegistersFirst(up'[c]) /\ ~Has(up'[c], {"register"})
    BY <1>10, <1>11
  <2> QED
    BY <1>1, <1>3, <1>4, <1>10, <2>1, <2>2, <2>3, Zenon DEF Hosting
<1>13. Returning'
  <2>1. /\ Head(up[Receiver]).type \notin {"retry", "pair-accept"} /\ ~Of(Head(up[Receiver]), sid[Receiver])
    BY <1>1, <1>3 DEF Of, RelayType
  <2> QED
    BY <1>3, <1>9, <2>1, HandlesReturning
<1>14. ASSUME NEW s \in Sender
       PROVE  c # s /\ ~Carries(r[s], RelayType, s) /\ Behind(r[s], {"pair-accept"}, {"ice-config"}, s)
  <2>1. c # s /\ r[s] = <<>>
    BY <1>3, <1>8, Clients
  <2>2. ~Carries(r[s], RelayType, s) /\ ~Carries(r[s], {"pair-accept"}, s)
    BY <2>1, NoMessage DEF Carries
  <2> QED
    BY <2>1, <2>2, BehindNone
<1>15. \A x \in Client : ~Has(r[x], {"peer-joined"})
  BY <1>5, <1>8 DEF Has
<1> QED
  BY <1>3, <1>4, <1>9, <1>12, <1>13, <1>14, <1>15, StaysOwed

\* What the other side said before a message it has now to read ranks below it.
LEMMA HeardBelow ==
  ASSUME IInv, Phases, session # None, NEW c \in {session, Receiver}, up[c] # <<>>, Of(Head(up[c]), session),
         NEW d \in {session, Receiver}, c = Target(d), NEW m \in Q(down[d]), Of(m, session)
  PROVE  Rank(m.type) < Rank(Head(up[c]).type)
<1>1. /\ Grounded(d) /\ Ordered(c) /\ Head(up[c]) \in Q(up[c])
  <2>1. c \in Client /\ up[c] \in Seq(Message)
    BY Clients DEF IInv, Types
  <2> QED
    BY <2>1, QueueEnds DEF Phases, InPhase
<1>2. m.type \in RelayType /\ m.sid = session
  BY DEF Of
<1>3. <<c, m.type>> \in seen
  BY <1>1, <1>2 DEF Grounded, Heard, Carries
<1> QED
  BY <1>1, <1>2, <1>3 DEF Ordered

\* A message is relayed to the other side.
LEMMA RelayOwed ==
  ASSUME IInv, Phases, Owed, NEW c \in Client, Relay(c)
  PROVE  Owed'
<1> DEFINE m == Head(up[c])
           d == Target(c)
<1>1. /\ Types /\ up[c] # <<>> /\ m \in Message /\ m \in Q(up[c]) /\ m.type \in Turns /\ m.type \in RelayType
  <2>1. Arrives(c, {"pake", "confirm", "pair-request"})
    BY DEF Relay
  <2> QED
    BY <2>1, Arrived DEF IInv, Turns, RelayType
<1>2. /\ session # None /\ m.sid = session /\ c \in {session, Receiver}
      /\ seen' = seen \cup {<<c, m.type>>} /\ Reply(d, <<m>>)
      /\ waiting' = waiting /\ session' = session /\ cut' = cut /\ Served(c)
  BY DEF Relay, InSession
<1>3. /\ session \in Sender /\ session \in Client /\ session # Receiver /\ Receiver \in Client
      /\ session \notin cut /\ Receiver \notin cut /\ ~waiting /\ None \notin Client
      /\ stage[session] # "start"
  BY <1>2, Connected
<1>4. d \in {session, Receiver} /\ d \in Client /\ d # c /\ d \notin cut /\ c = Target(d) /\ {c, d} = {session, Receiver}
  BY <1>2, <1>3 DEF Target
<1> HIDE DEF d
<1> DEFINE a == <<m>>
<1>5. a \in Seq(Message) /\ Q(a) = {m} /\ Reply(d, a)
  BY <1>1, <1>2, OneMessage
<1> HIDE DEF a
<1>6. PICK r : Tells(r, d, a, d, a)
  BY <1>1, <1>4, <1>5, TellsOne
<1>7. /\ r \in [Client -> Seq(Message)] /\ \A z \in Client : down'[z] = down[z] \o r[z]
      /\ \A z \in Client \ {d} : r[z] = <<>>
      /\ \A z \in Client : \A n \in Q(r[z]) : n = m /\ z = d
      /\ stage[d] # "over" => Q(r[d]) = {m}
  BY <1>4, <1>5, <1>6, NoMessage DEF Tells
<1>8. m.type \notin Goodbyes \cup {"close", "register", "retry", "connect", "error", "peer-joined", "pair-accept"}
  BY <1>1 DEF Turns, Goodbyes
<1>9. Handles(c, r)
  <2>1. \A x \in Client : ~Has(r[x], {"close"}) /\ (Known(x)' => Known(x))
    BY <1>1, <1>2, <1>7, <1>8, StillKnown DEF Has
  <2> QED
    BY <1>1, <1>2, <1>7, <1>8, <2>1, HandlesIf, Zenon
<1>10. Hosting'
  <2>1. ~Has(r[Receiver], {"error"})
    BY <1>3, <1>7, <1>8 DEF Has
  <2> QED
    BY <1>2, <1>3, <1>8, <1>9, <2>1, HandlesHosting
<1>11. Returning'
  <2>1. c = Receiver => Head(up[Receiver]).type \notin {"retry", "pair-accept"} /\ Head(up[Receiver]).sid = session
    BY <1>2, <1>8
  <2>2. c = Receiver => ~(Of(Head(up[Receiver]), sid[Receiver]) /\ sid[Receiver] # session)
    BY <2>1 DEF Of
  <2> QED
    BY <1>2, <1>9, <2>1, <2>2, HandlesReturning
<1>12. ASSUME NEW s \in Sender
       PROVE  /\ ~(c = s /\ Head(up[s]).type = "connect")
              /\ Carries(r[s], RelayType, s) => session = s
              /\ Behind(r[s], {"pair-accept"}, {"ice-config"}, s)
  <2>1. s \in Client /\ s # Receiver
    BY Clients
  <2>2. ~Carries(r[s], {"pair-accept"}, s) /\ (Carries(r[s], RelayType, s) => s = d)
    BY <1>7, <1>8, <2>1 DEF Carries
  <2> QED
    BY <1>4, <1>8, <2>1, <2>2, BehindNone
<1>13. \A x \in Client : ~Has(r[x], {"peer-joined"})
  BY <1>7, <1>8 DEF Has
<1>14. Flags(c) /\ Of(m, session)
  BY <1>1, <1>2 DEF Flags, Of
<1>15. ASSUME NEW x \in {session, Receiver}
       PROVE  Rising(down'[x], session)
  <2>1. CASE x = c
    <3>1. \A n \in Q(r[c]) : n.type \notin RelayType
      BY <1>4, <1>7
    <3> QED
      BY <1>2, <1>9, <2>1, <3>1, RisingStays
  <2>2. CASE x = d
    <3>1. Rising(down[d], session) /\ down[d] \in Seq(Message) /\ r[d] \in Seq(Message) /\ down'[d] = down[d] \o r[d]
      BY <1>1, <1>2, <1>4, <1>7, Zenon DEF Owed, Delivered, Types
    <3>2. Rising(r[d], session)
      <4>1. r[d] = <<m>> \/ r[d] = <<>>
        BY <1>6 DEF Tells, a
      <4> QED
        BY <4>1 DEF Rising
    <3>3. \A k \in Q(down[d]) : \A n \in Q(r[d]) : Of(k, session) /\ Of(n, session) => Rank(k.type) < Rank(n.type)
      BY <1>1, <1>2, <1>4, <1>7, <1>14, HeardBelow, Zenon
    <3> QED
      BY <2>2, <3>1, <3>2, <3>3, RisingJoins
  <2> QED
    BY <1>4, <2>1, <2>2
<1>16. ASSUME NEW x \in {session, Receiver}, NEW t \in Turns, <<Target(x), t>> \in seen'
       PROVE  <<Target(x), t>> \in seen \/ Carries(r[x], {t}, session) \/ stage[x] = "over"
  <2>1. <<Target(x), t>> \notin seen => Target(x) = c /\ t = m.type
    BY <1>2, <1>16
  <2>2. Target(x) = c => x = d
    BY <1>2, <1>3, <1>4 DEF Target
  <2>3. stage[d] # "over" => Carries(r[d], {m.type}, session)
    BY <1>2, <1>7, Zenon DEF Carries
  <2> QED
    BY <2>1, <2>2, <2>3
<1>17. c = Receiver => Head(up[c]).type # "retry"
  BY <1>8
<1> HIDE DEF m
<1> QED
  BY <1>2, <1>9, <1>10, <1>11, <1>12, <1>13, <1>14, <1>15, <1>16, <1>17, StaysOwed, Zenon

\* Of two messages the first makes way for the second.
LEMMA PairBehind ==
  ASSUME NEW a \in Message, NEW b \in Message, NEW types, NEW firsts, NEW s,
         a.type \in firsts, a.type \notin types, a.type # "peer-joined"
  PROVE  Behind(<<a, b>>, types, firsts, s)
<1>1. DOMAIN <<a, b>> = {1, 2} /\ <<a, b>>[1] = a /\ <<a, b>>[2] = b
  OBVIOUS
<1>2. 1 < 2
  OBVIOUS
<1> QED
  BY <1>1, <1>2 DEF Behind

\* Only one of them is of the session.
LEMMA PairRising ==
  ASSUME NEW a \in Message, NEW b \in Message, NEW s, ~Of(a, s)
  PROVE  Rising(<<a, b>>, s)
<1>1. DOMAIN <<a, b>> = {1, 2} /\ <<a, b>>[1] = a /\ <<a, b>>[2] = b
  OBVIOUS
<1>2. ~(2 < 2) /\ ~(2 < 1)
  OBVIOUS
<1> QED
  BY <1>1, <1>2 DEF Rising

\* The acceptance is relayed behind the sender's ICE configuration, and the receiver has its own.
LEMMA RelayAcceptOwed ==
  ASSUME IInv, Phases, Owed, NEW c \in Client, RelayAccept(c)
  PROVE  Owed'
<1> DEFINE m == Head(up[c])
           i == Plain("ice-config")
<1>1. /\ Types /\ up[c] # <<>> /\ m \in Message /\ m \in Q(up[c]) /\ m.type = "pair-accept"
      /\ i \in Message /\ i.type = "ice-config"
  <2>1. Arrives(c, {"pair-accept"})
    BY DEF RelayAccept
  <2>2. i \in Message /\ i.type = "ice-config"
    BY DEF Plain, Msg, Message, MsgType, Key
  <2> QED
    BY <2>1, <2>2, Arrived DEF IInv
<1>2. /\ session # None /\ m.sid = session /\ c = Receiver
      /\ seen' = seen \cup {<<Receiver, "pair-accept">>} /\ TellsBoth(session, <<i, m>>, Receiver, <<i>>)
      /\ waiting' = waiting /\ session' = session /\ cut' = cut /\ Served(c)
  BY <1>1 DEF RelayAccept, InSession, RelayAllowed, ReplyBoth, TellsBoth
<1>3. /\ session \in Sender /\ session \in Client /\ session # Receiver /\ Receiver \in Client
      /\ session \notin cut /\ Receiver \notin cut /\ ~waiting /\ None \notin Client
      /\ stage[session] # "start"
  BY <1>2, Connected
<1> HIDE DEF i
<1> DEFINE a == <<i, m>>
           b == <<i>>
<1>4. /\ a \in Seq(Message) /\ Q(a) = {i, m} /\ b \in Seq(Message) /\ Q(b) = {i} /\ TellsBoth(session, a, Receiver, b)
  BY <1>1, <1>2, OneMessage, TwoMessages
<1>5. /\ \A s : Behind(a, {"pair-accept"}, {"ice-config"}, s)
      /\ Rising(a, session) /\ ~Of(i, session)
  <2>1. ~Of(i, session)
    BY <1>1 DEF Of, RelayType
  <2> QED
    BY <1>1, <2>1, PairBehind, PairRising
<1> HIDE DEF a, b
<1>6. PICK r : Tells(r, session, a, Receiver, b)
  BY <1>1, <1>3, <1>4, TellsTwo
<1>7. /\ r \in [Client -> Seq(Message)] /\ \A z \in Client : down'[z] = down[z] \o r[z]
      /\ \A z \in Client \ {session, Receiver} : r[z] = <<>>
      /\ \A z \in Client : \A n \in Q(r[z]) : n = i \/ (n = m /\ z = session)
      /\ stage[Receiver] # "over" => Q(r[Receiver]) = {i}
      /\ r[session] \in {a, <<>>}
  BY <1>3, <1>4, <1>6, NoMessage DEF Tells
<1>8. \A z \in Client : ~Has(r[z], {"close", "error", "peer-joined"})
  BY <1>1, <1>7, Zenon DEF Has
<1>9. Handles(c, r)
  <2>1. \A x \in Client : ~Has(r[x], {"close"}) /\ (Known(x)' => Known(x))
    BY <1>1, <1>2, <1>8, StillKnown DEF Has
  <2>2. m.type \notin Goodbyes
    BY <1>1 DEF Goodbyes
  <2> QED
    BY <1>1, <1>2, <1>7, <2>1, <2>2, HandlesIf, Zenon
<1>10. Hosting'
  <2>1. ~Has(r[Receiver], {"error"}) /\ (c = Receiver => Head(up[Receiver]).type # "register")
    BY <1>1, <1>2, <1>3, <1>8 DEF Has
  <2> QED
    BY <1>2, <1>3, <1>9, <2>1, HandlesHosting
<1>11. Returning'
  <2>1. Head(up[Receiver]).type = "pair-accept" /\ Head(up[Receiver]).sid = session
    BY <1>1, <1>2
  <2>2. ~(Of(Head(up[Receiver]), sid[Receiver]) /\ sid[Receiver] # session)
    BY <2>1 DEF Of
  <2>3. stage[Receiver] # "over" => Has(r[Receiver], {"ice-config", "error"})
    BY <1>1, <1>7 DEF Has
  <2> QED
    BY <1>2, <1>9, <2>1, <2>2, <2>3, HandlesReturning
<1>12. ASSUME NEW s \in Sender
       PROVE  /\ c # s
              /\ Carries(r[s], RelayType, s) => session = s
              /\ Behind(r[s], {"pair-accept"}, {"ice-config"}, s)
  <2>1. s \in Client /\ s # Receiver
    BY Clients
  <2>2. CASE s # session
    <3>1. ~Carries(r[s], {"pair-accept"}, s) /\ ~Carries(r[s], RelayType, s)
      BY <1>7, <2>1, <2>2, NoMessage DEF Carries
    <3> QED
      BY <1>2, <2>1, <3>1, BehindNone
  <2>3. CASE s = session
    <3>1. Behind(<<>>, {"pair-accept"}, {"ice-config"}, s)
      BY DEF Behind
    <3> QED
      BY <1>2, <1>3, <1>5, <1>7, <2>3, <3>1
  <2> QED
    BY <2>2, <2>3
<1>13. \A x \in Client : ~Has(r[x], {"peer-joined"})
  BY <1>8 DEF Has
<1>14. Flags(c) /\ Of(m, session)
  BY <1>1, <1>2 DEF Flags, Of, RelayType
<1>15. ASSUME NEW x \in {session, Receiver}
       PROVE  Rising(down'[x], session)
  <2>1. CASE x = Receiver
    <3>1. \A n \in Q(r[Receiver]) : n.type \notin RelayType
      BY <1>1, <1>3, <1>7 DEF RelayType
    <3> QED
      BY <1>2, <1>9, <2>1, <3>1, RisingStays
  <2>2. CASE x = session
    <3>1. Rising(down[x], session) /\ down[x] \in Seq(Message) /\ r[x] \in Seq(Message) /\ down'[x] = down[x] \o r[x]
      BY <1>1, <1>2, <1>3, <1>7, <2>2, Zenon DEF Owed, Delivered, Types
    <3>2. Rising(r[x], session)
      <4>1. Rising(<<>>, session)
        BY DEF Rising
      <4> QED
        BY <1>5, <1>7, <2>2, <4>1
    <3>3. ASSUME NEW k \in Q(down[x]), NEW n \in Q(r[x]), Of(k, session), Of(n, session)
          PROVE  Rank(k.type) < Rank(n.type)
      <4>1. n = m
        BY <1>3, <1>5, <1>7, <2>2, <3>3
      <4>2. c = Target(x)
        BY <1>2, <1>3, <2>2 DEF Target
      <4>3. Rank(k.type) < Rank(Head(up[c]).type)
        BY <1>1, <1>2, <1>14, <3>3, <4>2, HeardBelow
      <4> QED
        BY <4>1, <4>3
    <3> QED
      BY <3>1, <3>2, <3>3, RisingJoins
  <2> QED
    BY <2>1, <2>2
<1>16. ASSUME NEW x \in {session, Receiver}, NEW t \in Turns, <<Target(x), t>> \in seen'
       PROVE  <<Target(x), t>> \in seen
  BY <1>2, <1>16 DEF Turns
<1>17. Head(up[c]).type # "retry"
  BY <1>1
<1> HIDE DEF m
<1> QED
  BY <1>2, <1>9, <1>10, <1>11, <1>12, <1>13, <1>14, <1>15, <1>16, <1>17, StaysOwed

\* A client that is in no session is closed.
LEMMA AloneOwed ==
  ASSUME IInv, Phases, Owed, NEW x \in Client, NEW c \in {x, None}, Served(c),
         c \in Client => up[c] # <<>> /\ Head(up[c]).type \in Goodbyes \cup {"retry"},
         stage[x] # "start", session = None \/ x \notin {session, Receiver},
         NEW a \in Seq(Message), \A m \in Q(a) : m.type \in {"error", "close"}, Has(a, {"close"}),
         Reply(x, a), cut' = cut \cup {x}, waiting' = (waiting /\ x # Receiver),
         session' = session, seen' = seen
  PROVE  Owed'
<1>1. /\ Types /\ Receiver \in Client /\ None \notin Client
      /\ session # None => /\ stage[session] # "start" /\ session \in Client /\ ~waiting
                           /\ session \notin cut' /\ Receiver \notin cut'
      /\ waiting' => session' = None /\ Receiver \notin cut'
  BY Connected, Zenon DEF IInv
<1>2. PICK r : Tells(r, x, a, x, a)
  BY <1>1, TellsOne
<1>3. /\ r \in [Client -> Seq(Message)] /\ \A z \in Client : down'[z] = down[z] \o r[z]
      /\ \A z \in Client \ {x} : r[z] = <<>>
      /\ \A z \in Client : \A m \in Q(r[z]) : m.type \in {"error", "close"} /\ z = x
      /\ x \notin cut /\ stage[x] # "over" => r[x] = a
  BY <1>2, NoMessage DEF Tells
<1>4. c \in Client => up[c] # <<>> /\ Head(up[c]).type \notin RelayType \cup {"connect", "register"} /\ c = x
  BY <1>1 DEF Goodbyes, RelayType
<1>5. Handles(c, r)
  <2>1. ASSUME NEW z \in Client
        PROVE  /\ Has(r[z], {"close"}) => z \in cut'
               /\ z \in cut' \ cut => stage[z] # "start" /\ (stage[z] = "over" \/ Has(r[z], {"close"}))
               /\ Known(z)' => Known(z)
    <3>1. Known(z)' => Known(z)
      BY <1>4, StillKnown, Zenon
    <3>2. Has(r[z], {"close"}) => z = x
      BY <1>3 DEF Has
    <3> QED
      BY <1>3, <3>1, <3>2
  <2> QED
    BY <1>3, <1>4, <2>1, HandlesIf
<1>6. Hosting'
  <2>1. /\ waiting' => session' = None /\ Receiver \notin cut'
        /\ session' # None => session' \notin cut' /\ Receiver \notin cut' /\ stage[session'] # "start"
        /\ c = Receiver => Head(up[Receiver]).type # "register"
        /\ session = None /\ ~waiting => session' = None /\ ~waiting'
        /\ Receiver \notin cut' => r[Receiver] = <<>> /\ ~Has(r[Receiver], {"error"})
    BY <1>1, <1>3, <1>4, NoMessage, Zenon DEF Has
  <2> QED
    BY <1>5, <2>1, HandlesHosting
<1>7. Returning'
  <2>1. (c = Receiver => Receiver \in cut') /\ ~(session \notin {None, session'})
    BY <1>1, <1>4
  <2> QED
    BY <1>5, <2>1, HandlesReturning
<1>8. ASSUME NEW s \in Sender
      PROVE  /\ ~(c = s /\ Head(up[s]).type = "connect")
             /\ ~Carries(r[s], RelayType, s)
             /\ Behind(r[s], {"pair-accept"}, {"ice-config"}, s)
  <2>1. s \in Client
    BY Clients
  <2>2. ~Carries(r[s], {"pair-accept"}, s) /\ ~Carries(r[s], RelayType, s)
    BY <1>3, <2>1, Zenon DEF Carries, RelayType
  <2> QED
    BY <1>4, <2>1, <2>2, BehindNone
<1>9. \A z \in Client : ~Has(r[z], {"peer-joined"}) /\ \A m \in Q(r[z]) : m.type \notin RelayType
  BY <1>3, Zenon DEF Has, RelayType
<1>10. session # None => Flags(c) /\ c # Receiver
  BY <1>1, <1>4 DEF Flags, Of
<1>11. session # None => \A d \in {session, Receiver} : Rising(down'[d], session)
  BY <1>1, <1>5, <1>9, RisingStays
<1> QED
  BY <1>5, <1>6, <1>7, <1>8, <1>9, <1>10, <1>11, StaysOwed

\* cleanupPeer of a client that is in no session.
LEMMA CleanupAloneOwed ==
  ASSUME IInv, Phases, Owed, NEW c \in Client, up[c] # <<>>, Head(up[c]).type \in Goodbyes \cup {"retry"},
         session = None \/ c \notin {session, Receiver}, CleanupPeer(c), Served(c)
  PROVE  Owed'
<1>1. /\ waiting' = (waiting /\ c # Receiver) /\ Reply(c, <<Close>>) /\ cut' = cut \cup {c}
      /\ session' = session /\ seen' = seen /\ stage[c] # "start"
  BY Connected, Zenon DEF CleanupPeer
<1> DEFINE a == <<Close>>
<1>2. a \in Seq(Message) /\ Q(a) = {Close} /\ Close.type = "close" /\ Reply(c, a)
  BY <1>1, OneMessage, Partings
<1> HIDE DEF a
<1>3. Has(a, {"close"}) /\ \A m \in Q(a) : m.type \in {"error", "close"}
  BY <1>2 DEF Has
<1> QED
  BY <1>1, <1>2, <1>3, AloneOwed

\* The code expires.
LEMMA ExpireCodeOwed ==
  ASSUME IInv, Phases, Owed, ExpireCode
  PROVE  Owed'
<1> DEFINE e == Failure("expired")
           a == <<e, Close>>
<1>1. /\ waiting /\ waiting' = FALSE /\ Reply(Receiver, a) /\ cut' = cut \cup {Receiver}
      /\ session' = session /\ seen' = seen /\ Served(None)
      /\ stage[Receiver] # "start" /\ session = None /\ Receiver \in Client /\ None \notin Client
  BY Connected DEF ExpireCode
<1>2. e \in Message /\ e.type = "error"
  BY DEF Failure, Msg, Message, MsgType, Key, Code
<1> HIDE DEF e
<1>3. a \in Seq(Message) /\ Q(a) = {e, Close} /\ Close.type = "close"
  BY <1>2, TwoMessages, Partings
<1> HIDE DEF a
<1>4. Has(a, {"close"}) /\ \A m \in Q(a) : m.type \in {"error", "close"}
  BY <1>2, <1>3 DEF Has
<1> QED
  BY <1>1, <1>3, <1>4, AloneOwed, Zenon

\* The session ends and both its members are closed.
LEMMA BothCutOwed ==
  ASSUME IInv, Phases, Owed, NEW c \in {session, Receiver, None}, c \in Client => up[c] # <<>>, Served(c),
         session # None, session' = None, waiting' = waiting, cut' = cut \cup {session, Receiver},
         NEW a \in Seq(Message), NEW b \in Seq(Message),
         TellsBoth(session, a, Receiver, b) \/ TellsBoth(Receiver, b, session, a),
         Has(a, {"close"}), Has(b, {"close"}), ~Has(a, {"peer-joined"}),
         Behind(a, {"pair-accept"}, {"ice-config"}, session)
  PROVE  Owed'
<1>1. /\ Types /\ session \in Sender /\ session \in Client /\ session # Receiver /\ Receiver \in Client
      /\ session \notin cut /\ Receiver \notin cut /\ ~waiting /\ None \notin Client
      /\ stage[session] # "start" /\ stage[Receiver] # "start" /\ ~Has(up[Receiver], {"register"})
  BY Connected DEF IInv
<1>2. \E r : Tells(r, session, a, Receiver, b)
  <2>1. CASE TellsBoth(session, a, Receiver, b)
    BY <1>1, <2>1, TellsTwo
  <2>2. CASE TellsBoth(Receiver, b, session, a)
    <3>1. PICK r : Tells(r, Receiver, b, session, a)
      BY <1>1, <2>2, TellsTwo
    <3>2. Tells(r, session, a, Receiver, b)
      BY <3>1 DEF Tells
    <3> QED
      BY <3>2
  <2> QED
    BY <2>1, <2>2
<1>3. PICK r : Tells(r, session, a, Receiver, b)
  BY <1>2
<1>4. /\ r \in [Client -> Seq(Message)] /\ \A z \in Client : down'[z] = down[z] \o r[z]
      /\ \A z \in Client \ {session, Receiver} : r[z] = <<>>
      /\ r[session] \in {a, <<>>} /\ (stage[session] # "over" => r[session] = a)
      /\ stage[Receiver] # "over" => r[Receiver] = b
  BY <1>1, <1>3 DEF Tells
<1>5. \A types : ~Has(<<>>, types)
  BY NoMessage DEF Has
<1>6. Handles(c, r)
  <2>1. ASSUME NEW z \in Client
        PROVE  /\ Has(r[z], {"close"}) => z \in cut'
               /\ z \in cut' \ cut => stage[z] # "start" /\ (stage[z] = "over" \/ Has(r[z], {"close"}))
               /\ Known(z)' => Known(z)
    <3>1. Known(z)' => Known(z)
      BY StillKnown
    <3>2. CASE z \in {session, Receiver}
      BY <1>1, <1>4, <3>1, <3>2
    <3>3. CASE z \notin {session, Receiver}
      BY <1>1, <1>4, <1>5, <3>1, <3>3
    <3> QED
      BY <3>2, <3>3
  <2>2. cut \subseteq cut' /\ (c \in Client => c \in cut')
    BY <1>1
  <2> QED
    BY <1>4, <2>1, <2>2, HandlesIf, Zenon
<1>7. c = Receiver => Head(up[Receiver]).type # "register"
  <2>1. c = Receiver => Head(up[Receiver]) \in Q(up[Receiver])
    BY <1>1, QueueEnds DEF Types
  <2> QED
    BY <1>1, <2>1 DEF Has
<1>8. ASSUME NEW s \in Sender
      PROVE  /\ ~Has(r[s], {"peer-joined"}) /\ (Carries(r[s], RelayType, s) => session = s)
             /\ Behind(r[s], {"pair-accept"}, {"ice-config"}, s)
  <2>1. s \in Client \ {Receiver}
    BY Clients
  <2>2. r[s] = <<>> \/ (s = session /\ r[s] = a)
    BY <1>4, <2>1
  <2>3. Behind(<<>>, {"pair-accept"}, {"ice-config"}, s)
    BY DEF Behind
  <2>4. ~Carries(<<>>, RelayType, s)
    BY NoMessage DEF Carries
  <2> QED
    BY <1>5, <2>2, <2>3, <2>4
<1>9. Receiver \in cut' /\ session \in cut' /\ ~waiting' /\ c \notin Sender \ {session}
  BY <1>1, Clients
<1> QED
  BY <1>6, <1>7, <1>8, <1>9, EndsOwed

\* What the server says when it ends a session.
LEMMA Endings ==
  ASSUME session \in Sender
  PROVE  /\ Msg("peer-left", session, None) \in Message /\ Msg("peer-left", session, None).type = "peer-left"
         /\ Msg("peer-left", session, None).sid = session
         /\ Close \in Message /\ Close.type = "close"
         /\ \A code \in Code : Failure(code) \in Message /\ Failure(code).type = "error"
         /\ \A type \in {"ice-config", "registered"} : Plain(type) \in Message /\ Plain(type).type = type
BY DEF Plain, Failure, Close, Msg, Message, MsgType, Key, Code

\* ... is of none of the types that must come in an order.
LEMMA EndingIs ==
  ASSUME NEW q, NEW n \in Q(q), n.type = "close", \A m \in Q(q) : m.type \notin {"peer-joined", "pair-accept"}, NEW s
  PROVE  /\ Has(q, {"close"}) /\ ~Has(q, {"peer-joined"})
         /\ Behind(q, {"pair-accept"}, {"ice-config"}, s)
<1>1. ~Carries(q, {"pair-accept"}, s)
  BY DEF Carries
<1>2. Has(q, {"close"}) /\ ~Has(q, {"peer-joined"})
  BY DEF Has
<1> QED
  BY <1>1, <1>2, BehindNone

\* endSession.
LEMMA EndSessionOwed ==
  ASSUME IInv, Phases, Owed, NEW c \in Client, up[c] # <<>>, session # None, c \in {session, Receiver},
         EndSession(c), Served(c)
  PROVE  Owed'
<1> DEFINE p == Msg("peer-left", session, None)
           a == <<p, Close>>
           b == <<Close>>
<1>1. session \in Sender /\ session # Receiver
  BY Connected
<1>2. p \in Message /\ p.type = "peer-left" /\ Close \in Message /\ Close.type = "close"
  BY <1>1, Endings
<1>3. /\ session' = None /\ waiting' = waiting /\ cut' = cut \cup {session, Receiver}
      /\ \/ c = Receiver /\ TellsBoth(session, a, Receiver, b)
         \/ c = session /\ TellsBoth(Receiver, a, session, b)
  BY <1>1, Zenon DEF EndSession, TellsBoth
<1> HIDE DEF p
<1>4. a \in Seq(Message) /\ b \in Seq(Message) /\ Q(a) = {p, Close} /\ Q(b) = {Close}
  BY <1>2, OneMessage, TwoMessages
<1> HIDE DEF a, b
<1>5. /\ Has(a, {"close"}) /\ ~Has(a, {"peer-joined"}) /\ Behind(a, {"pair-accept"}, {"ice-config"}, session)
      /\ Has(b, {"close"}) /\ ~Has(b, {"peer-joined"}) /\ Behind(b, {"pair-accept"}, {"ice-config"}, session)
  BY <1>2, <1>4, EndingIs, Zenon
<1> QED
  BY <1>3, <1>4, <1>5, BothCutOwed

\* The session expires.
LEMMA ExpireSessionOwed ==
  ASSUME IInv, Phases, Owed, ExpireSession
  PROVE  Owed'
<1> DEFINE p == Msg("peer-left", session, None)
           a == <<p, Close>>
<1>1. session # None /\ session \in Sender /\ None \notin Client
  BY Connected DEF ExpireSession
<1>2. p \in Message /\ p.type = "peer-left" /\ Close \in Message /\ Close.type = "close"
  BY <1>1, Endings
<1>3. /\ session' = None /\ waiting' = waiting /\ cut' = cut \cup {session, Receiver} /\ Served(None)
      /\ TellsBoth(session, a, Receiver, a)
  BY DEF ExpireSession, TellsBoth, ReplyBoth
<1> HIDE DEF p
<1>4. a \in Seq(Message) /\ Q(a) = {p, Close}
  BY <1>2, TwoMessages
<1> HIDE DEF a
<1>5. Has(a, {"close"}) /\ ~Has(a, {"peer-joined"}) /\ Behind(a, {"pair-accept"}, {"ice-config"}, session)
  BY <1>2, <1>4, EndingIs, Zenon
<1> QED
  BY <1>1, <1>3, <1>4, <1>5, BothCutOwed

\* The code has no attempts left.
LEMMA NoRestoreOwed ==
  ASSUME IInv, Phases, Owed, NEW c \in {session, Receiver, None}, c \in Client => up[c] # <<>>, Served(c),
         session # None, NEW notify \in BOOLEAN, RestoreWaitingReceiver(notify), ~CanRestore
  PROVE  Owed'
<1> DEFINE p == Msg("peer-left", session, None)
           e == Failure("expired")
           a == <<Close>>
           b == <<p, e, Close>>
<1>1. session \in Sender
  BY Connected
<1>2. p \in Message /\ e \in Message /\ Close \in Message /\ Close.type = "close"
  BY <1>1, Endings DEF Code
<1>3. /\ session' = None /\ waiting' = waiting /\ cut' = cut \cup {session, Receiver}
      /\ TellsBoth(session, a, Receiver, b)
  BY DEF RestoreWaitingReceiver, TellsBoth, ReplyBoth
<1> HIDE DEF p, e
<1>4. a \in Seq(Message) /\ b \in Seq(Message) /\ Q(a) = {Close} /\ Q(b) = {p, e, Close}
  BY <1>2, OneMessage, ThreeMessages
<1> HIDE DEF a, b
<1>5. /\ Has(a, {"close"}) /\ ~Has(a, {"peer-joined"}) /\ Behind(a, {"pair-accept"}, {"ice-config"}, session)
      /\ Has(b, {"close"})
  <2>1. Has(b, {"close"})
    BY <1>2, <1>4 DEF Has
  <2> QED
    BY <1>2, <1>4, <2>1, EndingIs, Zenon
<1> QED
  BY <1>3, <1>4, <1>5, BothCutOwed

\* The receiver's rejection, and the acceptance that gets no TURN credentials, end the session.
LEMMA DecisionOwed ==
  ASSUME IInv, Phases, Owed, NEW c \in Client,
         RelayReject(c) \/ \E passed \in BOOLEAN : RelayTurnLimited(c, passed)
  PROVE  Owed'
<1> DEFINE m == Head(up[c])
           i == Plain("ice-config")
           e == Failure("rate_limited")
<1>1. /\ Types /\ up[c] # <<>> /\ m \in Message /\ m.type \in Answers
      /\ RelayReject(c) => m.type = "pair-reject"
  <2>1. Arrives(c, Answers) /\ (RelayReject(c) => m.type = "pair-reject")
    BY DEF RelayReject, RelayTurnLimited, Arrives, Answers
  <2> QED
    BY <2>1, Arrived DEF IInv
<1>2. /\ session # None /\ c \in {session, Receiver} /\ session' = None /\ waiting' = waiting
      /\ cut' = cut \cup {session, Receiver} /\ Served(c)
  BY DEF RelayReject, RelayTurnLimited, InSession
<1>3. session \in Sender
  BY <1>2, Connected
<1>4. /\ i \in Message /\ i.type = "ice-config" /\ e \in Message /\ e.type = "error"
      /\ Close \in Message /\ Close.type = "close"
  BY <1>3, Endings DEF Code
<1> DEFINE d == <<e, Close>>
           o == <<Close>>
           j == <<i, m>>
           n == <<m, Close>>
<1>5. CASE RelayReject(c)
  <2>1. TellsBoth(session, n, Receiver, o) /\ m.type = "pair-reject"
    BY <1>1, <1>5 DEF RelayReject, ReplyBoth, TellsBoth
  <2>2. n \in Seq(Message) /\ o \in Seq(Message) /\ Q(n) = {m, Close} /\ Q(o) = {Close}
    BY <1>1, <1>4, OneMessage, TwoMessages
  <2> HIDE DEF n, o, m
  <2>3. /\ Has(n, {"close"}) /\ ~Has(n, {"peer-joined"}) /\ Behind(n, {"pair-accept"}, {"ice-config"}, session)
        /\ Has(o, {"close"})
    <3>1. Has(o, {"close"})
      BY <1>4, <2>2 DEF Has
    <3> QED
      BY <1>4, <2>1, <2>2, <3>1, EndingIs, Zenon
  <2> QED
    BY <1>1, <1>2, <2>1, <2>2, <2>3, BothCutOwed
<1>6. ASSUME NEW passed \in BOOLEAN, RelayTurnLimited(c, passed)
      PROVE  Owed'
  <2> DEFINE q == (IF passed THEN j ELSE <<>>) \o d
  <2>1. TellsBoth(session, q, Receiver, d)
    BY <1>6 DEF RelayTurnLimited, ReplyBoth, TellsBoth
  <2>2. d \in Seq(Message) /\ Q(d) = {e, Close} /\ j \in Seq(Message) /\ Q(j) = {i, m}
    BY <1>1, <1>4, OneMessage, TwoMessages
  <2>3. Behind(j, {"pair-accept"}, {"ice-config"}, session)
    BY <1>1, <1>4, PairBehind
  <2> HIDE DEF d, j, i, m, e
  <2>4. /\ Has(d, {"close"}) /\ ~Has(d, {"peer-joined"}) /\ Behind(d, {"pair-accept"}, {"ice-config"}, session)
    BY <1>4, <2>2, EndingIs, Zenon
  <2>5. /\ q \in Seq(Message) /\ Has(q, {"close"}) /\ ~Has(q, {"peer-joined"})
        /\ Behind(q, {"pair-accept"}, {"ice-config"}, session)
    <3>1. CASE passed
      <4>1. q = j \o d
        BY <3>1
      <4>2. q \in Seq(Message) /\ Q(q) = Q(j) \cup Q(d)
        BY <2>2, <4>1, QueueJoins
      <4>3. Behind(q, {"pair-accept"}, {"ice-config"}, session)
        BY <2>2, <2>3, <2>4, <4>1, BehindJoin
      <4>4. m.type # "peer-joined"
        BY <1>1 DEF Answers
      <4>5. Has(q, {"close"}) /\ ~Has(q, {"peer-joined"})
        BY <1>4, <2>2, <4>2, <4>4 DEF Has
      <4> QED
        BY <4>2, <4>3, <4>5
    <3>2. CASE ~passed
      <4>1. q = d
        BY <2>2, <3>2
      <4> QED
        BY <2>2, <2>4, <4>1, Zenon
    <3> QED
      BY <3>1, <3>2
  <2> HIDE DEF q
  <2> QED
    BY <1>1, <1>2, <2>1, <2>2, <2>4, <2>5, BothCutOwed
<1> QED
  BY <1>5, <1>6

\* The code waits again: the receiver is told, unless it is the one that asked.
LEMMA RestoreOwed ==
  ASSUME IInv, Phases, Owed, NEW c \in {session, Receiver, None}, c \in Client => up[c] # <<>>, Served(c),
         session # None, ~Decided, NEW notify \in BOOLEAN, RestoreWaitingReceiver(notify), CanRestore,
         notify => c # Receiver, ~notify => c = Receiver /\ Head(up[Receiver]).type = "retry"
  PROVE  Owed'
<1> DEFINE p == Msg("peer-left", session, None)
           g == Plain("registered")
           a == <<Close>>
           h == IF notify THEN <<p>> ELSE <<>>
           b == h \o <<g>>
<1>1. /\ Types /\ session \in Sender /\ session \in Client /\ session # Receiver /\ Receiver \in Client
      /\ session \notin cut /\ Receiver \notin cut /\ ~waiting /\ None \notin Client
      /\ stage[session] # "start"
  BY Connected DEF IInv
<1>2. /\ p \in Message /\ p.type = "peer-left" /\ p.sid = session /\ g \in Message /\ g.type = "registered"
      /\ Close \in Message /\ Close.type = "close"
  BY <1>1, Endings
<1>3. /\ session' = None /\ waiting' = TRUE /\ cut' = cut \cup {session}
      /\ TellsBoth(session, a, Receiver, b)
  BY DEF RestoreWaitingReceiver, TellsBoth, ReplyBoth
<1> HIDE DEF p, g
<1>4. a \in Seq(Message) /\ b \in Seq(Message) /\ Q(a) = {Close} /\ Q(b) = (IF notify THEN {p, g} ELSE {g})
  <2>1. h \in Seq(Message) /\ Q(h) = (IF notify THEN {p} ELSE {})
    BY <1>2, OneMessage, NoMessage, Zenon
  <2>2. <<g>> \in Seq(Message) /\ Q(<<g>>) = {g} /\ a \in Seq(Message) /\ Q(a) = {Close}
    BY <1>2, OneMessage
  <2> HIDE DEF h
  <2>3. b \in Seq(Message) /\ Q(b) = Q(h) \cup Q(<<g>>)
    BY <2>1, <2>2, QueueJoins, Zenon
  <2> HIDE DEF b
  <2> QED
    BY <2>1, <2>2, <2>3
<1> HIDE DEF a, b
<1>5. PICK r : Tells(r, session, a, Receiver, b)
  BY <1>1, <1>3, <1>4, TellsTwo
<1>6. /\ r \in [Client -> Seq(Message)] /\ \A z \in Client : down'[z] = down[z] \o r[z]
      /\ \A z \in Client : \A n \in Q(r[z]) : (n = Close /\ z = session) \/ (n \in {p, g} /\ z = Receiver)
      /\ stage[session] # "over" => Q(r[session]) = {Close}
      /\ stage[Receiver] # "over" => g \in Q(r[Receiver]) /\ (notify => p \in Q(r[Receiver]))
  BY <1>1, <1>4, <1>5, NoMessage DEF Tells
<1>7. /\ stage[session] # "over" => Has(r[session], {"close"})
      /\ stage[Receiver] # "over" => /\ Has(r[Receiver], {"registered"})
                                     /\ notify => Carries(r[Receiver], {"peer-left"}, session)
      /\ \A z \in Client : Has(r[z], {"close"}) => z = session
      /\ \A z \in Client : ~Has(r[z], {"error", "peer-joined"})
      /\ \A z \in Client : \A s : ~Carries(r[z], RelayType, s) /\ ~Carries(r[z], {"pair-accept"}, s)
  BY <1>2, <1>6, Zenon DEF Has, Carries, RelayType
<1>8. Handles(c, r)
  <2>1. ASSUME NEW z \in Client
        PROVE  /\ Has(r[z], {"close"}) => z \in cut'
               /\ z \in cut' \ cut => stage[z] # "start" /\ (stage[z] = "over" \/ Has(r[z], {"close"}))
               /\ Known(z)' => Known(z)
    <3>1. Known(z)' => Known(z)
      BY <1>3, StillKnown
    <3> QED
      BY <1>1, <1>3, <1>7, <3>1
  <2>2. cut \subseteq cut' /\ (c \in Client /\ Head(up[c]).type \in Goodbyes => c \in cut')
    BY <1>1, <1>3 DEF Goodbyes
  <2> QED
    BY <1>6, <2>1, <2>2, HandlesIf, Zenon
<1>9. ASSUME sid[Receiver] = session
      PROVE  Adrift'
  <2>1. /\ stage' = stage /\ sid' = sid /\ Receiver \notin cut' /\ up[Receiver] \in Seq(Message)
        /\ up'[Receiver] = IF c = Receiver THEN Tail(up[Receiver]) ELSE up[Receiver]
        /\ Local(Receiver) /\ Returning /\ Hosting
        /\ Carries(r[Receiver], {"peer-left"}, session) => Carries(down'[Receiver], {"peer-left"}, session)
    <3>1. \A types, s : Carries(r[Receiver], types, s) => Carries(down'[Receiver], types, s)
      <4>1. \A types, s :
              Carries(down'[Receiver], types, s) <=> Carries(down[Receiver], types, s) \/ Carries(r[Receiver], types, s)
        BY <1>1, <1>8, Queued, Zenon
      <4> QED
        BY <4>1
    <3> QED
      BY <1>1, <1>3, <1>8, <3>1 DEF Handles, IInv, Types, Owed
  <2>2. CASE ~notify
    <3>1. Carries(Tail(up[Receiver]), RelayType, sid[Receiver])
      BY <1>1, <1>9, <2>1, <2>2, ResumesRest DEF Returning
    <3> QED
      BY <2>1, <2>2, <3>1 DEF Adrift
  <2>3. CASE notify
    <3>1. stage[Receiver] \in {"share", "confirming", "request", "deriving", "deciding", "ice", "paired"}
      BY <1>1, <1>9, <2>1, Clients DEF Local, Keyed, Hosting
    <3>2. CASE stage[Receiver] \in {"share", "confirming", "request"}
      <4>1. Carries(down'[Receiver], {"peer-left"}, session) /\ stage[Receiver] \in OfSession
        BY <1>7, <2>1, <2>3, <3>2 DEF OfSession
      <4> QED
        BY <1>9, <2>1, <4>1 DEF Adrift
    <3>3. CASE stage[Receiver] \in {"deriving", "deciding", "paired"}
      BY <2>1, <3>3 DEF Adrift
    <3>4. CASE stage[Receiver] = "ice"
      <4>1. Said(Receiver, "pair-accept")
        BY <1>9, <3>4 DEF Owed
      <4>2. Carries(up[Receiver], {"pair-accept"}, session)
        BY <4>1 DEF Said, Decided
      <4>3. Carries(up[Receiver], RelayType, sid[Receiver])
        BY <1>9, <4>2 DEF Carries, RelayType
      <4> QED
        BY <2>1, <2>3, <4>3 DEF Adrift
    <3> QED
      BY <3>1, <3>2, <3>3, <3>4
  <2> QED
    BY <2>2, <2>3
<1>10. /\ session \in cut' /\ Receiver \notin cut' /\ c \notin Sender \ {session}
       /\ c = Receiver => Head(up[Receiver]).type = "retry"
       /\ ~Has(r[Receiver], {"error"})
       /\ stage[Receiver] # "over" => Has(r[Receiver], {"registered"})
  <2>1. ~Has(r[Receiver], {"error"})
    BY <1>1, <1>7 DEF Has
  <2> QED
    BY <1>1, <1>3, <1>7, <2>1, Clients
<1>11. ASSUME NEW s \in Sender
       PROVE  /\ ~Has(r[s], {"peer-joined"}) /\ ~Carries(r[s], RelayType, s)
              /\ Behind(r[s], {"pair-accept"}, {"ice-config"}, s)
  <2>1. s \in Client
    BY Clients
  <2>2. ~Has(r[s], {"peer-joined"})
    BY <1>7, <2>1 DEF Has
  <2> QED
    BY <1>7, <2>1, <2>2, BehindNone
<1> QED
  BY <1>3, <1>8, <1>9, <1>10, <1>11, EndsOwed

\* A session begins, in which both members are announced and nobody has spoken.
LEMMA ConnectOwed ==
  ASSUME IInv, Phases, Owed, NEW c \in Client, Connect(c)
  PROVE  Owed'
<1> DEFINE j == Msg("peer-joined", c, None)
           a == <<j>>
<1>1. Types /\ up[c] # <<>> /\ Head(up[c]) \in Q(up[c]) /\ Head(up[c]).type = "connect" /\ Served(c)
  BY Arrived DEF Connect, IInv
<1>2. c \in Sender /\ Head(up[c]).sid = None /\ c # Receiver /\ Receiver \in Client /\ c # None
  BY <1>1, Clients DEF IInv, UpSound
<1>3. /\ waiting /\ session = None /\ Receiver \notin cut /\ c \notin cut /\ stage[c] # "start" /\ None \notin Client
      /\ waiting' = FALSE /\ session' = c /\ seen' = {} /\ cut' = cut /\ TellsBoth(c, a, Receiver, a)
  BY <1>1, Connected DEF Connect, ReplyBoth, TellsBoth
<1>4. j \in Message /\ j.type = "peer-joined" /\ j.sid = c
  BY <1>2 DEF Msg, Message, MsgType, Key
<1> HIDE DEF j
<1>5. a \in Seq(Message) /\ Q(a) = {j}
  BY <1>4, OneMessage
<1> HIDE DEF a
<1>6. PICK r : Tells(r, c, a, Receiver, a)
  BY <1>1, <1>2, <1>3, <1>5, TellsTwo
<1>7. /\ r \in [Client -> Seq(Message)] /\ \A z \in Client : down'[z] = down[z] \o r[z]
      /\ \A z \in Client \ {c, Receiver} : r[z] = <<>>
      /\ \A z \in Client : \A n \in Q(r[z]) : n = j
      /\ \A z \in {c, Receiver} : stage[z] # "over" => Q(r[z]) = {j}
  <2>1. /\ r \in [Client -> Seq(Message)] /\ \A z \in Client : down'[z] = down[z] \o r[z]
        /\ \A z \in Client \ {c, Receiver} : r[z] = <<>>
        /\ r[c] \in {a, <<>>} /\ (stage[c] # "over" => r[c] = a)
        /\ r[Receiver] \in {a, <<>>} /\ (stage[Receiver] # "over" => r[Receiver] = a)
    BY <1>3, <1>6 DEF Tells
  <2>2. \A z \in Client : r[z] \in {a, <<>>}
    BY <2>1, Zenon
  <2>3. \A z \in Client : \A n \in Q(r[z]) : n = j
    BY <1>5, <2>2, NoMessage
  <2> QED
    BY <1>5, <2>1, <2>3
<1>8. /\ \A z \in Client : ~Has(r[z], {"close"}) /\ ~Has(r[z], {"error"})
      /\ \A z \in Client : \A s : ~Carries(r[z], RelayType, s) /\ ~Carries(r[z], {"pair-accept"}, s)
      /\ \A z \in {c, Receiver} : stage[z] # "over" => /\ Has(r[z], {"peer-joined"}) /\ Has(r[z], {"peer-joined", "error"})
                                                      /\ Carries(r[z], {"peer-joined"}, c)
  BY <1>4, <1>7 DEF Has, Carries, RelayType
<1>9. Carries(up[c], {"connect"}, None) /\ Has(up[c], {"connect"})
  BY <1>1, <1>2 DEF Carries, Has
<1>10. /\ sid[c] = None /\ ~Carries(down[Receiver], RelayType, c) /\ ~Carries(down[Receiver], {"peer-joined"}, c)
       /\ sid[Receiver] # c /\ ~Carries(down[c], RelayType, c)
  BY <1>2, <1>9 DEF Phases, Fresh, IInv, Silent, Unmet, MeetsOnce
<1>11. Handles(c, r)
  <2>1. ASSUME NEW x \in Client, Known(x)' PROVE Known(x)
    <3>1. CASE x \in {c, Receiver}
      BY <1>2, <1>3, <1>9, <3>1 DEF Known
    <3>2. CASE x \notin {c, Receiver}
      <4>1. up'[x] \in {up[x], <<>>}
        BY <1>1, <3>2 DEF Served
      <4>2. Has(up'[x], {"connect"}) => Has(up[x], {"connect"})
        BY <4>1, NoMessage DEF Has
      <4> QED
        BY <1>3, <2>1, <3>2, <4>2 DEF Known
    <3> QED
      BY <3>1, <3>2
  <2> QED
    BY <1>1, <1>3, <1>7, <1>8, <2>1, HandlesIf, Zenon DEF Goodbyes
<1>12. /\ stage' = stage /\ sid' = sid /\ up'[Receiver] = up[Receiver]
  BY <1>2, <1>3, <1>11, Zenon DEF Handles
<1>13. \A x \in Client : Closing(x)' /\ Leaving(x)'
  BY <1>11, HandlesClosing
<1>14. Hosting'
  BY <1>2, <1>3, <1>8, <1>11, HandlesHosting
<1>15. Returning'
  BY <1>2, <1>3, <1>11, HandlesReturning
<1>16. ASSUME NEW s \in Sender
       PROVE  Meeting(s)'
  <2>1. /\ s \in Client /\ s # Receiver /\ Meeting(s) /\ Local(s)
        /\ \A types : Has(down'[s], types) <=> Has(down[s], types) \/ Has(r[s], types)
    <3>1. s \in Client
      BY Clients
    <3>2. \A types : Has(down'[s], types) <=> Has(down[s], types) \/ Has(r[s], types)
      BY <1>11, <3>1, Queued, Zenon
    <3> QED
      BY <3>1, <3>2, Clients DEF Owed, IInv
  <2>2. s # c => ~Has(r[s], {"peer-joined"})
    BY <1>7, <2>1, NoMessage DEF Has
  <2>3. s \notin cut' /\ (sid[s] # None \/ Has(down'[s], {"peer-joined"})) => session' = s
    BY <1>2, <1>3, <2>1, <2>2, Clients DEF Meeting
  <2>4. session' = s /\ stage[s] = "joining" => Has(down'[s], {"peer-joined"})
    BY <1>3, <1>8, <2>1
  <2>5. c = s /\ s \notin cut' => stage[s] = "over" \/ Has(r[s], {"peer-joined", "error"})
    BY <1>8
  <2>6. session' = s => stage[s] # "awaiting"
    BY <1>3, <1>10, <2>1 DEF Local, Keyed
  <2>7. ~Carries(r[s], RelayType, s) /\ Behind(r[s], {"pair-accept"}, {"ice-config"}, s)
    BY <1>8, <2>1, BehindNone
  <2> QED
    BY <1>11, <2>3, <2>4, <2>5, <2>6, <2>7, HandlesMeeting
<1>17. /\ down[Receiver] \in Seq(Message) /\ r[Receiver] \in Seq(Message) /\ down'[Receiver] = down[Receiver] \o r[Receiver]
       /\ \A d \in {c, Receiver} : ~Carries(down'[d], RelayType, c)
       /\ stage[Receiver] # "over" => Carries(down'[Receiver], {"peer-joined"}, c)
  <2>1. ASSUME NEW d \in {c, Receiver}
        PROVE  \A types, s : Carries(down'[d], types, s) <=> Carries(down[d], types, s) \/ Carries(r[d], types, s)
    <3>1. d \in Client
      BY <1>2
    <3> QED
      BY <1>11, <3>1, Queued
  <2>2. ASSUME NEW d \in {c, Receiver} PROVE ~Carries(down'[d], RelayType, c)
    BY <1>2, <1>8, <1>10, <2>1
  <2>3. stage[Receiver] # "over" => Carries(down'[Receiver], {"peer-joined"}, c)
    BY <1>8, <2>1
  <2> QED
    BY <1>1, <1>2, <1>7, <2>2, <2>3 DEF Types
<1>18. Awaited'
  <2>1. Behind(down'[Receiver], RelayType, {"peer-joined"}, c)
    BY <1>17, BehindNone, Zenon
  <2>2. ASSUME stage[Receiver] \in Early, ~Has(up[Receiver], {"retry"})
        PROVE  Behind(down'[Receiver], {"peer-joined"}, {"registered"}, c)
    <3>1. Has(down[Receiver], {"registered"})
      <4>1. Hosting /\ Returning
        BY DEF Owed
      <4>2. CASE stage[Receiver] \in {"rekeying", "rerequesting"}
        BY <1>3, <2>2, <4>1, <4>2 DEF Returning
      <4>3. CASE stage[Receiver] = "registering"
        <5>1. Has(down[Receiver], {"registered", "error"}) /\ ~Has(down[Receiver], {"error"})
          BY <1>3, <4>1, <4>3 DEF Hosting
        <5> QED
          BY <5>1 DEF Has
      <4> QED
        BY <2>2, <4>2, <4>3 DEF Early
    <3>2. PICK m \in Q(down[Receiver]) : m.type = "registered"
      BY <3>1 DEF Has
    <3>3. Behind(down[Receiver], {"peer-joined"}, {"registered"}, c)
      BY <1>10, BehindNone
    <3> QED
      BY <1>17, <3>2, <3>3, BehindJoin
  <2>3. Free' => stage[Receiver] # "over" /\ ~Has(up[Receiver], {"retry"})
    BY <1>12 DEF Free, Early
  <2> QED
    BY <1>3, <1>12, <1>17, <2>1, <2>2, <2>3 DEF Awaited
<1>19. ASSUME NEW d \in {c, Receiver}
       PROVE  Delivered(d)'
  <2>1. Rising(down'[d], c)
    BY <1>17, RisingNone
  <2> QED
    BY <1>3, <2>1 DEF Delivered
<1> QED
  BY <1>3, <1>10, <1>12, <1>13, <1>14, <1>15, <1>16, <1>18, <1>19 DEF Owed

\* restoreWaitingReceiver, whether the code has attempts left or not.
LEMMA RestoresOwed ==
  ASSUME IInv, Phases, Owed, NEW c \in {session, Receiver, None}, c \in Client => up[c] # <<>>, Served(c),
         session # None, ~Decided, NEW notify \in BOOLEAN, RestoreWaitingReceiver(notify),
         notify => c # Receiver, ~notify => c = Receiver /\ Head(up[Receiver]).type = "retry"
  PROVE  Owed'
BY RestoreOwed, NoRestoreOwed

\* cleanupPeer.
LEMMA CleanupOwed ==
  ASSUME IInv, Phases, Owed, NEW c \in Client, up[c] # <<>>, Head(up[c]).type \in Goodbyes \cup {"retry"},
         CleanupPeer(c), Served(c)
  PROVE  Owed'
<1>1. CASE session = None \/ c \notin {session, Receiver}
  BY <1>1, CleanupAloneOwed
<1>2. CASE ~(session = None \/ c \notin {session, Receiver}) /\ c = session /\ ~Decided
  <2>1. RestoreWaitingReceiver(TRUE) /\ c # Receiver /\ session # None /\ c \in {session, Receiver, None}
    BY <1>2, Connected, Zenon DEF CleanupPeer
  <2> QED
    BY <1>2, <2>1, RestoresOwed, Zenon
<1>3. CASE ~(session = None \/ c \notin {session, Receiver}) /\ ~(c = session /\ ~Decided)
  <2>1. EndSession(c)
    BY <1>3, Zenon DEF CleanupPeer
  <2> QED
    BY <1>3, <2>1, EndSessionOwed
<1> QED
  BY <1>1, <1>2, <1>3

\* The handlers of the server keep what is owed.
LEMMA ServeOwed ==
  ASSUME IInv, Phases, Owed, NEW c \in Client, Serve(c)
  PROVE  Owed'
<1>1. ASSUME NEW types, Arrives(c, types)
      PROVE  up[c] # <<>> /\ Head(up[c]) \in Q(up[c]) /\ Head(up[c]).type \in types
  BY <1>1, Arrived DEF IInv
<1>2. \A code \in Code : Failure(code) \in Message /\ Failure(code).type = "error"
  BY DEF Failure, Msg, Message, MsgType, Key, Code
<1>3. CASE ConnectNotFound(c)
  <2> DEFINE n == Failure("code_not_found")
  <2>1. /\ Arrives(c, {"connect"}) /\ Reply(c, <<n>>) /\ UNCHANGED server /\ Served(c)
    BY <1>3 DEF ConnectNotFound
  <2>2. n \in Message /\ n.type = "error"
    BY <1>2 DEF Code
  <2> HIDE DEF n
  <2>3. up[c] # <<>> /\ Head(up[c]).type = "connect" /\ Head(up[c]).type \notin Goodbyes \cup RelayType
    BY <1>1, <2>1 DEF Goodbyes, RelayType
  <2> QED
    BY <2>1, <2>2, <2>3, NoticeOwed DEF Of
<1>4. CASE RelayNoSession(c)
  <2> DEFINE n == Failure("session_not_found")
  <2>1. /\ Arrives(c, RelayType) /\ Reply(c, <<n>>) /\ UNCHANGED server /\ Served(c)
        /\ ~InSession(c, Head(up[c]).sid)
    BY <1>4 DEF RelayNoSession
  <2>2. n \in Message /\ n.type = "error"
    BY <1>2 DEF Code
  <2> HIDE DEF n
  <2>3. up[c] # <<>> /\ Head(up[c]).type \in RelayType /\ Head(up[c]).type \notin Goodbyes \cup {"register", "retry"}
    BY <1>1, <2>1 DEF Goodbyes, RelayType
  <2>4. session # None /\ c \in {session, Receiver} => ~Of(Head(up[c]), session)
    BY <2>1 DEF InSession, Of
  <2> QED
    BY <2>1, <2>2, <2>3, <2>4, NoticeOwed
<1>5. CASE Retry(c)
  <2>1. /\ up[c] # <<>> /\ Head(up[c]).type = "retry" /\ Head(up[c]) \in Q(up[c]) /\ Served(c)
        /\ Head(up[c]).type \notin Goodbyes \cup RelayType \cup {"register", "connect"}
    <3>1. Arrives(c, {"retry"}) /\ Served(c)
      BY <1>5 DEF Retry
    <3> QED
      BY <1>1, <3>1 DEF Goodbyes, RelayType
  <2>2. c = Receiver
    BY <2>1, Clients DEF Owed, Hosting, Has
  <2>3. CASE session = None /\ waiting
    <3> DEFINE n == Plain("registered")
    <3>1. Reply(c, <<n>>) /\ UNCHANGED server
      BY <1>5, <2>3 DEF Retry
    <3>2. n \in Message /\ n.type = "registered"
      BY DEF Plain, Msg, Message, MsgType, Key
    <3> HIDE DEF n
    <3> QED
      BY <2>1, <2>3, <3>1, <3>2, NoticeOwed
  <2>4. CASE session # None /\ ~Decided
    <3>1. RestoreWaitingReceiver(FALSE)
      BY <1>5, <2>4, Zenon DEF Retry
    <3> QED
      BY <2>1, <2>2, <2>4, <3>1, RestoresOwed, Zenon
  <2>5. CASE ~(session = None /\ waiting) /\ ~(session # None /\ ~Decided)
    <3>1. CleanupPeer(c)
      BY <1>5, <2>5, Zenon DEF Retry
    <3> QED
      BY <2>1, <3>1, CleanupOwed
  <2> QED
    BY <2>3, <2>4, <2>5
<1>6. CASE Bye(c)
  <2>1. Arrives(c, {"bye", "close"}) /\ CleanupPeer(c) /\ Served(c)
    BY <1>6 DEF Bye
  <2> QED
    BY <1>1, <2>1, CleanupOwed DEF Goodbyes
<1> QED
  BY <1>3, <1>4, <1>5, <1>6, RegisterOwed, ConnectOwed, RelayOwed, RelayAcceptOwed, DecisionOwed DEF Serve

\* ... and the expiries.
LEMMA ExpiryOwed ==
  ASSUME IInv, Phases, Owed, ExpireCode \/ ExpireRestore \/ ExpireSession
  PROVE  Owed'
<1>1. CASE ExpireRestore
  <2>1. session # None /\ ~Decided /\ RestoreWaitingReceiver(TRUE) /\ Served(None)
    BY <1>1, Zenon DEF ExpireRestore
  <2>2. None \notin Client /\ None # Receiver
    BY Clients
  <2> QED
    BY <2>1, <2>2, RestoresOwed, Zenon
<1> QED
  BY <1>1, ExpireCodeOwed, ExpireSessionOwed

-----------------------------------------------------------------------------
(* What is owed is inductive *)

\* At first nothing is owed.
LEMMA OwedInitial ==
  ASSUME Init
  PROVE  Owed
<1>1. /\ \A c \in Client : /\ up[c] = <<>> /\ down[c] = <<>> /\ sid[c] = None /\ stage[c] = "start"
                           /\ settled[c] = "no" /\ c \notin cut /\ c \notin shut
      /\ session = None /\ waiting = FALSE /\ Receiver \in Client /\ Sender \subseteq Client /\ None \notin Sender
      /\ Receiver \notin Sender
  BY Clients DEF Init
<1>2. /\ \A types : ~Has(<<>>, types)
      /\ RegistersFirst(<<>>) /\ \A types, firsts, s : Behind(<<>>, types, firsts, s)
  <2>1. RegistersFirst(<<>>)
    BY DEF RegistersFirst
  <2>2. \A types, firsts, s : Behind(<<>>, types, firsts, s)
    BY DEF Behind
  <2> QED
    BY <2>1, <2>2, NoMessage DEF Has
<1>3. \A c \in Client : Closing(c) /\ Leaving(c)
  BY <1>1, <1>2 DEF Closing, Leaving
<1>4. \A s \in Sender : Meeting(s)
  <2> SUFFICES ASSUME NEW s \in Sender PROVE Meeting(s)
    OBVIOUS
  <2>1. s \in Client /\ stage[s] = "start" /\ sid[s] = None /\ down[s] = <<>> /\ session # s
    BY <1>1
  <2> QED
    BY <1>2, <2>1 DEF Meeting, Stage
<1>5. Hosting
  BY <1>1, <1>2, NoMessage DEF Hosting
<1>6. Returning /\ Awaited
  BY <1>1 DEF Returning, Awaited
<1> QED
  BY <1>1, <1>3, <1>4, <1>5, <1>6 DEF Owed

\* A stuttering step keeps what is owed.
LEMMA OwedStutter ==
  ASSUME Owed, UNCHANGED vars
  PROVE  Owed'
<1>1. UNCHANGED <<stage, sid, settled, shut, cached, up, down, waiting, session, seen, cut>>
  BY DEF vars, setting, counters, held, server
<1>2. \A c \in Client : Closing(c)' /\ Leaving(c)'
  BY <1>1 DEF Owed, Closing, Leaving, Known
<1>3. \A s \in Sender : Meeting(s)'
  BY <1>1, Zenon DEF Owed, Meeting, Said
<1>4. Hosting' /\ Returning' /\ Awaited'
  BY <1>1 DEF Owed, Hosting, Returning, Adrift, Awaited, Free
<1>5. session # None => Delivered(session)' /\ Delivered(Receiver)'
  BY <1>1 DEF Owed, Delivered, Reads, Past, Target
<1> QED
  BY <1>1, <1>2, <1>3, <1>4, <1>5 DEF Owed, Said

\* What a read has lost stays lost.
LEMMA MissedStays ==
  ASSUME [Next]_vars, missed' = {}
  PROVE  missed = {}
<1>1. ClientOnly \/ UNCHANGED missed => missed = {}
  BY DEF ClientOnly
<1>2. UNCHANGED vars => UNCHANGED missed
  BY DEF vars
<1>3. \A c : Served(c) => UNCHANGED missed
  BY DEF Served
<1>4. \A c \in Client : Serve(c) => Served(c)
  BY DEF Serve, Register, RegisterTaken, Connect, ConnectNotFound, RelayNoSession, Relay, RelayAccept,
         RelayReject, RelayTurnLimited, Retry, Bye
<1>5. ExpireCode \/ ExpireRestore \/ ExpireSession => Served(None)
  BY DEF ExpireCode, ExpireRestore, ExpireSession
<1>6. \A c : Fail(c) \/ Refuse(c) \/ Crash(c) => ClientOnly
  BY DEF Fail, Refuse, Crash, Vanish
<1>7. \A c : Command(c) => ClientOnly
  BY <1>6 DEF Command, Lose, Joined, PeerShare, SendConfirm, Settle, Confirmed, KeysFail, IceConfig, WaitFails,
              WaitRefused, SeesClose, Finish
<1>8. Recv => ClientOnly
  BY <1>7 DEF Recv, StartReceiver, RegisterAgain, Registered, Rekey, Requests, Rerequest, GiveUpRequest, Accept,
              Decline
<1>9. \A c : SendCommand(c) => ClientOnly
  BY <1>7 DEF SendCommand, StartSender, PairRequest, Accepted, Rejected
<1>10. \A c : PlanFails(c) \/ Unreachable(c) \/ Timeout(c) \/ Interrupt(c) \/ ClosePage(c) => ClientOnly
  BY <1>6 DEF PlanFails, Unreachable, NeverConnects, Timeout, GiveUpRequest, Interrupt, ClosePage, Vanish
<1> QED
  BY <1>1, <1>2, <1>3, <1>4, <1>5, <1>8, <1>9, <1>10 DEF Next

\* While nothing is lost, what is owed is inductive, beside the phases and the invariant of the keys.
LEMMA OwedInductive ==
  ASSUME IInv, IInv', Phases, Owed, [Next]_vars, missed' = {}
  PROVE  Owed'
<1>1. CASE UNCHANGED vars
  BY <1>1, OwedStutter
<1>2. CASE \E c \in Client : \/ Serve(c) \/ PlanFails(c) \/ Unreachable(c) \/ Timeout(c)
                             \/ Interrupt(c) \/ ClosePage(c)
  BY <1>2, ServeOwed, NeverConnectsOwed, TimeoutOwed, EndingOwed DEF PlanFails, Unreachable
<1> QED
  BY <1>1, <1>2, RecvOwed, SendCommandOwed, ExpiryOwed DEF Next

-----------------------------------------------------------------------------
(* The theorem *)

\* waitForMessage and the handlers that answer it: in no state of recv, send and the server
\* do all commands wait while nothing is on its way, unless every sender has ended or not
\* begun and the receiver waits for one, or a command has lost messages behind the one
\* that settled its wait in the same read.  Whatever is interrupted, expires or is refused
\* and whoever retries, a wait is otherwise owed its message, an error or the close of its
\* socket, without any timer.
THEOREM NobodyEverStuck == Spec => []NobodyStuck
<1> DEFINE Due == missed = {} => Owed
<1>1. Init => Phases /\ Due
  BY PhasesInitial, OwedInitial
<1>2. IInv /\ IInv' /\ Phases /\ Due /\ [Next]_vars => Phases' /\ Due'
  <2>1. IInv /\ IInv' /\ Phases /\ [Next]_vars => Phases'
    BY PhasesInductive
  <2>2. IInv /\ IInv' /\ Phases /\ Due /\ [Next]_vars => Due'
    BY MissedStays, OwedInductive
  <2> QED
    BY <2>1, <2>2
<1>3. IInv /\ Phases /\ Due => NobodyStuck
  <2>1. ASSUME missed # {} PROVE NobodyStuck
    BY <2>1 DEF NobodyStuck
  <2> QED
    BY <2>1, OwedSuffices
<1> QED
  BY <1>1, <1>2, <1>3, AlwaysIInv, PTL DEF Spec
=============================================================================
