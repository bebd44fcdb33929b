----------------------- MODULE SignalingServerProofs -----------------------
(***************************************************************************)
(* What holds of every behaviour of SignalingServer, for any number of     *)
(* connections, codes and sessions and any pattern of failing sockets: the *)
(* registry is consistent, the connection counts are exact, sessions go    *)
(* through their phases in order, and a callback of src/server/index.ts    *)
(* pays what it owes to the clients.                                       *)
(*                                                                         *)
(* The registry.  The handlers are compositions of a few structural        *)
(* changes (a session leaves the table, a peer's links are cleared, a code *)
(* is put back) and of "quiet" ones (sends and closes), which only close   *)
(* sockets and free codes.  Quiet changes preserve consistency wherever    *)
(* they occur, so each handler is proved by following its structural       *)
(* changes.                                                                *)
(*                                                                         *)
(* The counts and the phases need no more than one invariant of the record *)
(* the handlers work on, `Kept', which every operator of the model         *)
(* preserves by itself: an operator that calls others cites theirs.        *)
(*                                                                         *)
(* The clients.  An open client was last told what the server holds for    *)
(* it, a receiver's code is never renewed, and a session that leaves the   *)
(* table is over for both of its peers, whatever socket fails inside the   *)
(* callback.  A handler works for few connections: the two peers of one    *)
(* session, or one that is in none.  `Apart' says it touches no other;     *)
(* `Seat' is the inductive form of ClientViewAgrees for one connection;    *)
(* `Settles' says that between the record a callback starts from and the   *)
(* one it leaves every connection keeps its seat and its lease and every   *)
(* session that is gone has ended well.  By Apart, it has to be shown only *)
(* for the one connection or the one session the handler is about.         *)
(***************************************************************************)
EXTENDS SignalingServer, TLAPS, FiniteSetTheorems

\* The type of the record the handlers work on.
SState ==
  [codes : [Code -> CodeEntry], sessions : [SessionId -> Session],
   ws : [Peer -> {"open", "closing", "closed"}], released : [Peer -> BOOLEAN],
   role : [Peer -> {"none", "sender", "receiver"}],
   sid : [Peer -> SessionId \cup {NoSid}], code : [Peer -> Code \cup {NoCode}],
   bad : [Peer -> Nat], idle : [Peer -> BOOLEAN], active : [Ip -> Nat],
   told : [Peer -> Lifecycle \cup {"nothing"}], room : [Peer -> Nat]]

\* SessionsLinked, PeersLinked and CodesLinked of a record, with n ids minted.
SL(s, n) ==
  \A i \in SessionId : s.sessions[i].sid # NoSid =>
    /\ s.sessions[i].sid = i /\ i <= n.minted /\ s.sessions[i].code \in Code
    /\ s.sessions[i].sender \in Peer /\ s.sessions[i].receiver \in Peer
    /\ s.sessions[i].sender \in n.accepted /\ s.sessions[i].receiver \in n.accepted
    /\ s.sessions[i].sender # s.sessions[i].receiver
    /\ s.sid[s.sessions[i].sender] = i /\ s.role[s.sessions[i].sender] = "sender"
    /\ s.code[s.sessions[i].sender] = s.sessions[i].code
    /\ s.sid[s.sessions[i].receiver] = i /\ s.role[s.sessions[i].receiver] = "receiver"
    /\ s.code[s.sessions[i].receiver] = s.sessions[i].code

PL(s) ==
  \A p \in Peer : s.sid[p] # NoSid =>
    /\ s.sessions[s.sid[p]].sid # NoSid
    /\ p = s.sessions[s.sid[p]].sender \/ p = s.sessions[s.sid[p]].receiver

CL(s, n) ==
  \A c \in Code : s.codes[c].receiver # NoPeer =>
    /\ s.codes[c].receiver \in n.accepted /\ s.codes[c].remaining > 0
    /\ s.sid[s.codes[c].receiver] = NoSid
    /\ s.ws[s.codes[c].receiver] = "open" =>
         s.role[s.codes[c].receiver] = "receiver" /\ s.code[s.codes[c].receiver] = c

Good(s, n) == s \in SState /\ SL(s, n) /\ PL(s) /\ CL(s, n)

\* t is s after sends and closes: sockets may have closed and codes been freed.
Quiet(s, t) ==
  /\ t \in SState
  /\ t.sessions = s.sessions /\ t.role = s.role /\ t.sid = s.sid /\ t.code = s.code
  /\ \A p \in Peer : t.ws[p] = s.ws[p] \/ (s.ws[p] = "open" /\ t.ws[p] = "closing")
  /\ \A c \in Code : t.codes[c] = s.codes[c] \/ t.codes[c] = Free

-----------------------------------------------------------------------------
(* Quiet changes *)

\* Free and NoSession are a waiting entry and a session.
LEMMA EmptyEntries == Free \in CodeEntry /\ NoSession \in Session
  BY DEF Free, CodeEntry, NoSession, Session, NoSid

\* Two quiet changes make one.
LEMMA QuietTrans ==
  ASSUME NEW s, NEW t, NEW u, Quiet(s, t), Quiet(t, u)
  PROVE  Quiet(s, u)
  BY DEF Quiet

\* The registry stays consistent through a quiet change.
LEMMA QuietGood ==
  ASSUME NEW s, NEW t, NEW n, Good(s, n), Quiet(s, t)
  PROVE  Good(t, n)
<1>1. t \in SState BY DEF Quiet
<1>2. SL(t, n) BY DEF Good, Quiet, SL
<1>3. PL(t) BY DEF Good, Quiet, PL
<1>4. CL(t, n)
  <2>. SUFFICES ASSUME NEW c \in Code, t.codes[c].receiver # NoPeer
       PROVE  /\ t.codes[c].receiver \in n.accepted /\ t.codes[c].remaining > 0
              /\ t.sid[t.codes[c].receiver] = NoSid
              /\ t.ws[t.codes[c].receiver] = "open" =>
                   t.role[t.codes[c].receiver] = "receiver" /\ t.code[t.codes[c].receiver] = c
    BY DEF CL
  <2>1. t.codes[c] = s.codes[c] BY DEF Quiet, Free
  <2>2. s.codes[c].receiver \in Peer BY <2>1 DEF Good, SState, CodeEntry
  <2>3. QED BY <2>1, <2>2 DEF Good, Quiet, CL
<1>5. QED BY <1>1, <1>2, <1>3, <1>4 DEF Good

\* releaseActiveConnection changes only the connection counts.
LEMMA ReleaseType ==
  ASSUME NEW s \in SState, NEW p \in Peer
  PROVE  /\ Release(s, p) \in SState
         /\ Release(s, p).codes = s.codes /\ Release(s, p).sessions = s.sessions
         /\ Release(s, p).ws = s.ws /\ Release(s, p).role = s.role
         /\ Release(s, p).sid = s.sid /\ Release(s, p).code = s.code
<1>1. CASE s.released[p] BY <1>1 DEF Release
<1>2. CASE ~s.released[p]
  <2>. DEFINE v == IF s.active[IpOf[p]] <= 1 THEN 0 ELSE s.active[IpOf[p]] - 1
              t == [s EXCEPT !.released = [s.released EXCEPT ![p] = TRUE],
                             !.idle = [s.idle EXCEPT ![p] = FALSE],
                             !.active = [s.active EXCEPT ![IpOf[p]] = v]]
  <2>1. IpOf[p] \in Ip BY IpAssumption
  <2>2. s.active \in [Ip -> Nat] BY DEF SState
  <2>3. v \in Nat BY <2>1, <2>2
  <2>4. Release(s, p) = t BY <1>2 DEF Release
  <2>. HIDE DEF v
  <2>5. [s.active EXCEPT ![IpOf[p]] = v] \in [Ip -> Nat] BY <2>1, <2>2, <2>3
  <2>6. /\ [s.released EXCEPT ![p] = TRUE] \in [Peer -> BOOLEAN]
        /\ [s.idle EXCEPT ![p] = FALSE] \in [Peer -> BOOLEAN]
    BY DEF SState
  <2>7. t \in SState BY <2>5, <2>6 DEF SState
  <2>8. QED BY <2>4, <2>7 DEF SState
<1>3. QED BY <1>1, <1>2

\* releaseActiveConnection and ws.close are quiet; the socket is not open afterwards.
LEMMA CloseQuiet ==
  ASSUME NEW s \in SState, NEW p \in Peer
  PROVE  /\ Quiet(s, Close(s, p))
         /\ Close(s, p).ws[p] # "open"
         /\ \A q \in Peer : q # p => Close(s, p).ws[q] = s.ws[q]
         /\ Close(s, p).codes = s.codes
<1>. DEFINE t == Shut(s, p)
<1>1. /\ t \in SState /\ Quiet(s, t) /\ t.ws[p] # "open"
      /\ \A q \in Peer : q # p => t.ws[q] = s.ws[q]
      /\ t.codes = s.codes
  BY DEF SState, Quiet, Shut
<1>. HIDE DEF t
<1>2. QED BY <1>1, ReleaseType DEF Close, Quiet, t

\* Deleting a waiting code is quiet and frees nothing else.
LEMMA DeleteCodeQuiet ==
  ASSUME NEW s \in SState, NEW c \in Code
  PROVE  /\ Quiet(s, DeleteCode(s, c))
         /\ DeleteCode(s, c).ws = s.ws
         /\ DeleteCode(s, c).codes[c] = Free
  BY EmptyEntries DEF SState, Quiet, DeleteCode

\* So is dropping the code a peer owns.
LEMMA DropCodeQuiet ==
  ASSUME NEW s \in SState, NEW p \in Peer
  PROVE  /\ Quiet(s, DropCode(s, p))
         /\ DropCode(s, p).ws = s.ws
<1>1. CASE OwnsCode(s, p)
  <2>1. s.code[p] \in Code BY <1>1 DEF OwnsCode, SState
  <2>2. QED BY <1>1, <2>1, DeleteCodeQuiet DEF DropCode
<1>2. CASE ~OwnsCode(s, p) BY <1>2 DEF DropCode, Quiet
<1>3. QED BY <1>1, <1>2

\* A delivered message changes neither the registry nor a socket.
LEMMA DeliverQuiet ==
  ASSUME NEW s \in SState, NEW p \in Peer, NEW m, s.room[p] > 0
  PROVE  /\ Quiet(s, Deliver(s, p, m))
         /\ Deliver(s, p, m).ws = s.ws
         /\ Deliver(s, p, m).codes = s.codes
<1>. DEFINE v == IF m \in Lifecycle THEN m ELSE s.told[p]
<1>1. s.room[p] - 1 \in Nat BY DEF SState
<1>2. v \in Lifecycle \cup {"nothing"} BY DEF SState
<1>3. Deliver(s, p, m) = [s EXCEPT !.room = [s.room EXCEPT ![p] = s.room[p] - 1],
                                   !.told = [s.told EXCEPT ![p] = v]]
  BY DEF Deliver
<1>. HIDE DEF v
<1>4. [s.room EXCEPT ![p] = s.room[p] - 1] \in [Peer -> Nat] BY <1>1 DEF SState
<1>5. [s.told EXCEPT ![p] = v] \in [Peer -> Lifecycle \cup {"nothing"}]
  BY <1>2 DEF SState
<1>6. Deliver(s, p, m) \in SState BY <1>3, <1>4, <1>5 DEF SState
<1>7. QED BY <1>3, <1>6 DEF SState, Quiet

\* send outside a session is quiet, and touches no other socket.
LEMMA SendLastQuiet ==
  ASSUME NEW s \in SState, NEW p \in Peer, NEW m
  PROVE  /\ Quiet(s, SendLast(s, p, m))
         /\ \A q \in Peer : q # p => SendLast(s, p, m).ws[q] = s.ws[q]
<1>1. CASE s.ws[p] # "open" BY <1>1 DEF SendLast, Quiet
<1>2. CASE s.ws[p] = "open" /\ s.room[p] > 0
  BY <1>2, DeliverQuiet DEF SendLast
<1>3. CASE s.ws[p] = "open" /\ ~(s.room[p] > 0)
  <2>. DEFINE d == DropCode(s, p)
  <2>1. d \in SState /\ Quiet(s, d) /\ d.ws = s.ws BY DropCodeQuiet DEF Quiet
  <2>. HIDE DEF d
  <2>2. Quiet(s, Close(d, p)) /\ \A q \in Peer : q # p => Close(d, p).ws[q] = d.ws[q]
    BY <2>1, CloseQuiet, QuietTrans
  <2>3. QED BY <1>3, <2>1, <2>2 DEF SendLast, d
<1>4. QED BY <1>1, <1>2, <1>3

-----------------------------------------------------------------------------
(* Structural changes *)

\* clearPeerSessionState has its type and changes one peer's links only.
LEMMA ClearType ==
  ASSUME NEW s \in SState, NEW p \in Peer
  PROVE  /\ Clear(s, p) \in SState
         /\ Clear(s, p).codes = s.codes /\ Clear(s, p).sessions = s.sessions
         /\ Clear(s, p).ws = s.ws
         /\ Clear(s, p).sid = [s.sid EXCEPT ![p] = NoSid]
         /\ Clear(s, p).code = [s.code EXCEPT ![p] = NoCode]
         /\ Clear(s, p).role = [s.role EXCEPT ![p] = "none"]
  BY DEF SState, Clear

\* Clearing a peer that is in no session, and waits under no code while it is open.
LEMMA ClearGood ==
  ASSUME NEW s, NEW n, NEW p \in Peer, Good(s, n), s.sid[p] = NoSid,
         s.ws[p] = "open" => \A c \in Code : s.codes[c].receiver # p
  PROVE  Good(Clear(s, p), n)
<1>. DEFINE t == Clear(s, p)
<1>1. s \in SState BY DEF Good
<1>2. /\ t \in SState /\ t.codes = s.codes /\ t.sessions = s.sessions /\ t.ws = s.ws
      /\ t.sid = [s.sid EXCEPT ![p] = NoSid] /\ t.code = [s.code EXCEPT ![p] = NoCode]
      /\ t.role = [s.role EXCEPT ![p] = "none"]
  BY <1>1, ClearType
<1>. HIDE DEF t
<1>3. s.sid \in [Peer -> SessionId \cup {NoSid}] /\ s.code \in [Peer -> Code \cup {NoCode}]
      /\ s.role \in [Peer -> {"none", "sender", "receiver"}]
  BY <1>1 DEF SState
<1>4. SL(t, n)
  <2>. SUFFICES ASSUME NEW i \in SessionId, s.sessions[i].sid # NoSid
       PROVE  s.sessions[i].sender # p /\ s.sessions[i].receiver # p
    BY <1>2, <1>3 DEF SL, Good
  <2>1. i # NoSid BY DEF SessionId, NoSid
  <2>2. QED BY <2>1 DEF SL, Good
<1>5. PL(t) BY <1>2, <1>3 DEF PL, Good
<1>6. CL(t, n)
  <2>. SUFFICES ASSUME NEW c \in Code, s.codes[c].receiver # NoPeer
       PROVE  /\ s.codes[c].receiver \in n.accepted /\ s.codes[c].remaining > 0
              /\ t.sid[s.codes[c].receiver] = NoSid
              /\ s.ws[s.codes[c].receiver] = "open" =>
                   t.role[s.codes[c].receiver] = "receiver" /\ t.code[s.codes[c].receiver] = c
    BY <1>2 DEF CL
  <2>1. s.codes[c].receiver \in Peer BY <1>1 DEF SState, CodeEntry
  <2>2. QED BY <1>2, <1>3, <2>1 DEF CL, Good
<1>7. QED BY <1>2, <1>4, <1>5, <1>6 DEF Good, t

-----------------------------------------------------------------------------
(* A handler keeps using a session object after a failed send may have taken it *)
(* out of the table.  At any point of a handler the object x is still in the    *)
(* table, or it is out of it and neither of its peers is linked to it.          *)

\* A session object of two accepted connections, in the table or just taken out of it.
Member(x, n) ==
  /\ x \in Session /\ x.sid \in SessionId /\ x.code \in Code
  /\ x.sender \in Peer /\ x.receiver \in Peer /\ x.sender # x.receiver
  /\ x.sender \in n.accepted /\ x.receiver \in n.accepted

Alive(s, x) == s.sessions[x.sid] = x

Dead(s, x) ==
  /\ s.sessions[x.sid].sid = NoSid
  /\ s.sid[x.sender] = NoSid /\ s.sid[x.receiver] = NoSid
  /\ s.ws[x.sender] # "open"
  /\ s.ws[x.receiver] = "open" =>
       \A c \in Code : s.codes[c].receiver = x.receiver => c = x.code

Tracks(s, x) == Alive(s, x) \/ Dead(s, x)

\* Freeing codes leaves an attempt to every code that still waits.
LEMMA AttemptsLeft ==
  ASSUME NEW s, NEW n, NEW u, Good(s, n),
         \A c \in Code : u.codes[c] = s.codes[c] \/ u.codes[c] = Free
  PROVE  \A c \in Code : u.codes[c].receiver # NoPeer => u.codes[c].remaining > 0
  BY DEF Good, CL, Free

\* The registry is consistent again once x is out of the table, both its peers are
\* unlinked, and whichever of them is still open waits only under the code it names.
LEMMA Unlink ==
  ASSUME NEW s, NEW u \in SState, NEW n, NEW x, Member(x, n), Good(s, n), Tracks(s, x),
         u.sessions = [s.sessions EXCEPT ![x.sid] = NoSession],
         \A q \in Peer : q # x.sender /\ q # x.receiver =>
           u.sid[q] = s.sid[q] /\ u.role[q] = s.role[q] /\ u.code[q] = s.code[q],
         u.sid[x.sender] = NoSid, u.sid[x.receiver] = NoSid,
         \A q \in Peer : u.ws[q] = "open" => s.ws[q] = "open",
         \A c \in Code : u.codes[c].receiver # NoPeer =>
           u.codes[c].receiver = s.codes[c].receiver \/ u.codes[c].receiver = x.receiver,
         \A c \in Code : u.codes[c].receiver # NoPeer => u.codes[c].remaining > 0,
         \A c \in Code : u.codes[c].receiver = x.sender => u.ws[x.sender] # "open",
         \A c \in Code : u.codes[c].receiver = x.receiver /\ u.ws[x.receiver] = "open" =>
           u.role[x.receiver] = "receiver" /\ u.code[x.receiver] = c
  PROVE  Good(u, n)
<1>1. s \in SState /\ SL(s, n) /\ PL(s) /\ CL(s, n) BY DEF Good
<1>2. x.sid \in SessionId /\ x.sender \in Peer /\ x.receiver \in Peer /\ x.sid # NoSid
  BY DEF Member, SessionId, NoSid
<1>3. s.sessions \in [SessionId -> Session] BY <1>1 DEF SState
<1>4. /\ s.sid[x.sender] = x.sid \/ s.sid[x.sender] = NoSid
      /\ s.sid[x.receiver] = x.sid \/ s.sid[x.receiver] = NoSid
  BY <1>1, <1>2 DEF Tracks, Alive, Dead, SL
<1>5. NoSession.sid = NoSid BY DEF NoSession
<1>6. SL(u, n)
  <2>. SUFFICES ASSUME NEW i \in SessionId, u.sessions[i].sid # NoSid
       PROVE  /\ u.sessions[i] = s.sessions[i]
              /\ s.sessions[i].sender # x.sender /\ s.sessions[i].sender # x.receiver
              /\ s.sessions[i].receiver # x.sender /\ s.sessions[i].receiver # x.receiver
    BY <1>1 DEF SL
  <2>1. i # x.sid BY <1>3, <1>5
  <2>2. u.sessions[i] = s.sessions[i] BY <2>1, <1>3
  <2>3. i # NoSid BY DEF SessionId, NoSid
  <2>4. s.sid[s.sessions[i].sender] = i /\ s.sid[s.sessions[i].receiver] = i
    BY <2>2, <1>1 DEF SL
  <2>5. QED BY <2>1, <2>2, <2>3, <2>4, <1>4
<1>7. PL(u)
  <2>. SUFFICES ASSUME NEW q \in Peer, u.sid[q] # NoSid
       PROVE  /\ u.sessions[u.sid[q]].sid # NoSid
              /\ q = u.sessions[u.sid[q]].sender \/ q = u.sessions[u.sid[q]].receiver
    BY DEF PL
  <2>1. q # x.sender /\ q # x.receiver OBVIOUS
  <2>2. u.sid[q] = s.sid[q] BY <2>1
  <2>3. s.sid[q] \in SessionId BY <2>2, <1>1 DEF SState
  <2>4. /\ s.sessions[s.sid[q]].sid # NoSid
        /\ q = s.sessions[s.sid[q]].sender \/ q = s.sessions[s.sid[q]].receiver
    BY <2>2, <1>1 DEF PL
  <2>5. s.sid[q] # x.sid BY <2>1, <2>4 DEF Tracks, Alive, Dead
  <2>6. u.sessions[u.sid[q]] = s.sessions[s.sid[q]] BY <2>2, <2>3, <2>5, <1>3
  <2>7. QED BY <2>4, <2>6
<1>8. CL(u, n)
  <2>. SUFFICES ASSUME NEW c \in Code, u.codes[c].receiver # NoPeer
       PROVE  /\ u.codes[c].receiver \in n.accepted /\ u.codes[c].remaining > 0
              /\ u.sid[u.codes[c].receiver] = NoSid
              /\ u.ws[u.codes[c].receiver] = "open" =>
                   u.role[u.codes[c].receiver] = "receiver" /\ u.code[u.codes[c].receiver] = c
    BY DEF CL
  <2>1. u.codes[c].receiver \in Peer BY DEF SState, CodeEntry
  <2>2. CASE u.codes[c].receiver = x.sender BY <2>2 DEF Member
  <2>3. CASE u.codes[c].receiver = x.receiver BY <2>3 DEF Member
  <2>4. CASE u.codes[c].receiver # x.sender /\ u.codes[c].receiver # x.receiver
    <3>1. u.codes[c].receiver = s.codes[c].receiver BY <2>4
    <3>2. QED BY <2>1, <2>4, <3>1, <1>1 DEF CL
  <2>5. QED BY <2>2, <2>3, <2>4
<1>9. QED BY <1>6, <1>7, <1>8 DEF Good

\* A session object stays out of the table through a quiet change.
LEMMA QuietDead ==
  ASSUME NEW s, NEW t, NEW x, NEW n, Member(x, n), Dead(s, x), Quiet(s, t)
  PROVE  Dead(t, x)
<1>1. x.receiver # NoPeer BY PeerAssumption DEF Member
<1>2. \A c \in Code : t.codes[c].receiver = x.receiver => s.codes[c].receiver = x.receiver
  BY <1>1 DEF Quiet, Free
<1>3. QED BY <1>2 DEF Quiet, Dead, Member

\* The peers of a session in the table are linked to it and own no waiting code.
LEMMA AliveFacts ==
  ASSUME NEW s, NEW n, NEW x, Member(x, n), Good(s, n), Alive(s, x)
  PROVE  /\ s.sid[x.sender] = x.sid /\ s.sid[x.receiver] = x.sid /\ x.sid # NoSid
         /\ s.code[x.receiver] = x.code /\ s.role[x.receiver] = "receiver"
         /\ \A c \in Code : s.codes[c].receiver # x.sender /\ s.codes[c].receiver # x.receiver
<1>1. x.sid # NoSid /\ x.sid \in SessionId BY DEF Member, SessionId, NoSid
<1>2. /\ s.sid[x.sender] = x.sid /\ s.sid[x.receiver] = x.sid
      /\ s.code[x.receiver] = x.code /\ s.role[x.receiver] = "receiver"
  BY <1>1 DEF Good, SL, Alive
<1>3. \A c \in Code : s.codes[c].receiver # x.sender /\ s.codes[c].receiver # x.receiver
  BY <1>1, <1>2, PeerAssumption DEF Good, CL, Member
<1>4. QED BY <1>1, <1>2, <1>3

\* sessions.delete has its type.
LEMMA DeleteSessionType ==
  ASSUME NEW s \in SState, NEW i \in SessionId
  PROVE  /\ DeleteSession(s, i) \in SState
         /\ DeleteSession(s, i).sessions = [s.sessions EXCEPT ![i] = NoSession]
         /\ DeleteSession(s, i).codes = s.codes /\ DeleteSession(s, i).ws = s.ws
         /\ DeleteSession(s, i).sid = s.sid /\ DeleteSession(s, i).role = s.role
         /\ DeleteSession(s, i).code = s.code
  BY EmptyEntries DEF SState, DeleteSession

-----------------------------------------------------------------------------
(* Ending and restoring a session *)

\* Two peers are cleared and closed: whatever links they had are gone.
LEMMA ClearBothType ==
  ASSUME NEW s \in SState, NEW x, NEW n, Member(x, n)
  PROVE  LET u == Clear(Clear(s, x.sender), x.receiver)
         IN  /\ u \in SState /\ u.codes = s.codes /\ u.sessions = s.sessions /\ u.ws = s.ws
             /\ u.sid[x.sender] = NoSid /\ u.sid[x.receiver] = NoSid
             /\ \A q \in Peer : q # x.sender /\ q # x.receiver =>
                  u.sid[q] = s.sid[q] /\ u.role[q] = s.role[q] /\ u.code[q] = s.code[q]
<1>. DEFINE t == Clear(s, x.sender)
            u == Clear(t, x.receiver)
<1>1. /\ t \in SState /\ t.codes = s.codes /\ t.sessions = s.sessions /\ t.ws = s.ws
      /\ t.sid = [s.sid EXCEPT ![x.sender] = NoSid]
      /\ t.code = [s.code EXCEPT ![x.sender] = NoCode]
      /\ t.role = [s.role EXCEPT ![x.sender] = "none"]
  BY ClearType DEF Member
<1>. HIDE DEF t
<1>2. /\ u \in SState /\ u.codes = t.codes /\ u.sessions = t.sessions /\ u.ws = t.ws
      /\ u.sid = [t.sid EXCEPT ![x.receiver] = NoSid]
      /\ u.code = [t.code EXCEPT ![x.receiver] = NoCode]
      /\ u.role = [t.role EXCEPT ![x.receiver] = "none"]
  BY <1>1, ClearType DEF Member
<1>. HIDE DEF u
<1>3. /\ s.sid \in [Peer -> SessionId \cup {NoSid}] /\ s.code \in [Peer -> Code \cup {NoCode}]
      /\ s.role \in [Peer -> {"none", "sender", "receiver"}]
  BY DEF SState
<1>4. QED BY <1>1, <1>2, <1>3 DEF Member, t, u

\* closeSessionPeers, in a state q that is s or s without the session, after quiet changes.
LEMMA CloseSessionPeersFrom ==
  ASSUME NEW s, NEW n, NEW x, NEW q, Member(x, n), Good(s, n), Tracks(s, x),
         Quiet(s, q) \/ Quiet(DeleteSession(s, x.sid), q)
  PROVE  /\ Good(CloseSessionPeers(q, x), n)
         /\ Dead(CloseSessionPeers(q, x), x)
<1>. DEFINE d == DeleteSession(q, x.sid)
            u == Clear(Clear(d, x.sender), x.receiver)
            v == Close(u, x.sender)
            w == Close(v, x.receiver)
<1>1. /\ s \in SState /\ q \in SState /\ x.sid \in SessionId
      /\ x.sender \in Peer /\ x.receiver \in Peer
      /\ x.sender # NoPeer /\ x.receiver # NoPeer
  BY PeerAssumption DEF Good, Member, Quiet
<1>2. /\ DeleteSession(s, x.sid).sessions = [s.sessions EXCEPT ![x.sid] = NoSession]
      /\ DeleteSession(s, x.sid).codes = s.codes /\ DeleteSession(s, x.sid).ws = s.ws
      /\ DeleteSession(s, x.sid).sid = s.sid /\ DeleteSession(s, x.sid).role = s.role
      /\ DeleteSession(s, x.sid).code = s.code
  BY <1>1, DeleteSessionType
<1>3. /\ q.sid = s.sid /\ q.role = s.role /\ q.code = s.code
      /\ \A p \in Peer : q.ws[p] = "open" => s.ws[p] = "open"
      /\ \A c \in Code : q.codes[c].receiver # NoPeer => q.codes[c].receiver = s.codes[c].receiver
  BY <1>2 DEF Quiet, Free
<1>4. /\ d \in SState /\ d.sessions = [q.sessions EXCEPT ![x.sid] = NoSession]
      /\ d.codes = q.codes /\ d.ws = q.ws /\ d.sid = q.sid /\ d.role = q.role
      /\ d.code = q.code
  BY <1>1, DeleteSessionType
<1>. HIDE DEF d
<1>5. d.sessions = [s.sessions EXCEPT ![x.sid] = NoSession]
  BY <1>1, <1>2, <1>4 DEF Quiet, SState
<1>6. /\ u \in SState /\ u.codes = d.codes /\ u.sessions = d.sessions /\ u.ws = d.ws
      /\ u.sid[x.sender] = NoSid /\ u.sid[x.receiver] = NoSid
      /\ \A p \in Peer : p # x.sender /\ p # x.receiver =>
           u.sid[p] = d.sid[p] /\ u.role[p] = d.role[p] /\ u.code[p] = d.code[p]
  BY <1>4, ClearBothType
<1>. HIDE DEF u
<1>7. Quiet(u, v) /\ v.ws[x.sender] # "open" /\ v.codes = u.codes
  BY <1>1, <1>6, CloseQuiet
<1>. HIDE DEF v
<1>8. Quiet(v, w) /\ w.ws[x.receiver] # "open" /\ w.codes = v.codes
  BY <1>1, <1>7, CloseQuiet DEF Quiet
<1>. HIDE DEF w
<1>9. w \in SState /\ w.sessions = u.sessions /\ w.sid = u.sid /\ w.role = u.role
      /\ w.code = u.code /\ w.codes = q.codes /\ w.ws[x.sender] # "open"
      /\ \A p \in Peer : w.ws[p] = "open" => s.ws[p] = "open"
  BY <1>1, <1>3, <1>4, <1>6, <1>7, <1>8 DEF Quiet
<1>10. \A p \in Peer : p # x.sender /\ p # x.receiver =>
         w.sid[p] = s.sid[p] /\ w.role[p] = s.role[p] /\ w.code[p] = s.code[p]
  BY <1>3, <1>4, <1>6, <1>9
<1>11. Good(w, n)
  <2>1. \A c \in Code : w.codes[c].receiver # NoPeer =>
          w.codes[c].receiver = s.codes[c].receiver \/ w.codes[c].receiver = x.receiver
    BY <1>3, <1>9
  <2>2. w.sessions = [s.sessions EXCEPT ![x.sid] = NoSession] BY <1>5, <1>6, <1>9
  <2>3. w.sid[x.sender] = NoSid /\ w.sid[x.receiver] = NoSid BY <1>6, <1>9
  <2>4. \A c \in Code : w.codes[c] = s.codes[c] \/ w.codes[c] = Free
    BY <1>2, <1>9 DEF Quiet
  <2>5. \A c \in Code : w.codes[c].receiver # NoPeer => w.codes[c].remaining > 0
    BY <2>4, AttemptsLeft
  <2>6. QED BY <1>8, <1>9, <1>10, <2>1, <2>2, <2>3, <2>5, Unlink
<1>12. w.sessions[x.sid].sid = NoSid
  BY <1>1, <1>4, <1>6, <1>9 DEF SState, NoSession
<1>13. Dead(w, x) BY <1>6, <1>8, <1>9, <1>12 DEF Dead
<1>14. QED BY <1>11, <1>13 DEF CloseSessionPeers, w, v, u, d

\* closeSessionPeers.
LEMMA CloseSessionPeersGood ==
  ASSUME NEW s, NEW n, NEW x, Member(x, n), Good(s, n), Tracks(s, x)
  PROVE  /\ Good(CloseSessionPeers(s, x), n)
         /\ Dead(CloseSessionPeers(s, x), x)
<1>1. Quiet(s, s) BY DEF Quiet, Good
<1>2. QED BY <1>1, CloseSessionPeersFrom

\* endSession: the leaving peer is closed by the caller, or was closed before.
LEMMA EndSessionGood ==
  ASSUME NEW s, NEW n, NEW x, Member(x, n), Good(s, n),
         NEW p \in {x.sender, x.receiver},
         Alive(s, x) \/ (Dead(s, x) /\ s.ws[p] # "open")
  PROVE  LET w == EndSession(s, x, p)
         IN  /\ Good(w, n)
             /\ w.sessions[x.sid].sid = NoSid
             /\ w.sid[x.sender] = NoSid /\ w.sid[x.receiver] = NoSid
             /\ \A q \in {x.sender, x.receiver} : q # p => w.ws[q] # "open"
             /\ \A c \in Code : w.codes[c].receiver = p => w.ws[p] # "open"
<1>. DEFINE r == IF p = x.sender THEN x.receiver ELSE x.sender
            d == DeleteSession(s, x.sid)
            t == SendLast(d, r, "peer-left")
            u == Clear(Clear(t, x.sender), x.receiver)
            w == Close(u, r)
<1>1. /\ s \in SState /\ x.sid \in SessionId /\ x.sender \in Peer /\ x.receiver \in Peer
      /\ p \in Peer /\ r \in Peer /\ p # r
      /\ (p = x.sender /\ r = x.receiver) \/ (p = x.receiver /\ r = x.sender)
  BY DEF Good, Member
<1>. HIDE DEF r
<1>2. /\ d \in SState /\ d.sessions = [s.sessions EXCEPT ![x.sid] = NoSession]
      /\ d.codes = s.codes /\ d.ws = s.ws /\ d.sid = s.sid /\ d.role = s.role
      /\ d.code = s.code
  BY <1>1, DeleteSessionType
<1>. HIDE DEF d
<1>3. Quiet(d, t) BY <1>1, <1>2, SendLastQuiet
<1>. HIDE DEF t
<1>4. t \in SState BY <1>3 DEF Quiet
<1>5. /\ u \in SState /\ u.codes = t.codes /\ u.sessions = t.sessions /\ u.ws = t.ws
      /\ u.sid[x.sender] = NoSid /\ u.sid[x.receiver] = NoSid
      /\ \A q \in Peer : q # x.sender /\ q # x.receiver =>
           u.sid[q] = t.sid[q] /\ u.role[q] = t.role[q] /\ u.code[q] = t.code[q]
  BY <1>4, ClearBothType
<1>. HIDE DEF u
<1>6. Quiet(u, w) /\ w.ws[r] # "open" BY <1>1, <1>5, CloseQuiet
<1>. HIDE DEF w
<1>7. /\ w \in SState /\ w.sessions = d.sessions /\ w.sid = u.sid /\ w.role = u.role
      /\ w.code = u.code
      /\ \A q \in Peer : w.ws[q] = "open" => s.ws[q] = "open"
  BY <1>2, <1>3, <1>5, <1>6 DEF Quiet
<1>8. \A c \in Code : w.codes[c].receiver # NoPeer => w.codes[c].receiver = s.codes[c].receiver
  BY <1>2, <1>3, <1>5, <1>6 DEF Quiet, Free
<1>9. \A c \in Code : w.codes[c].receiver = p => w.ws[p] # "open"
  <2>1. CASE Alive(s, x)
    BY <2>1, <1>1, <1>8, AliveFacts, PeerAssumption
  <2>2. CASE s.ws[p] # "open" BY <2>2, <1>1, <1>7
  <2>3. QED BY <2>1, <2>2
<1>10. \A q \in Peer : q # x.sender /\ q # x.receiver =>
         w.sid[q] = s.sid[q] /\ w.role[q] = s.role[q] /\ w.code[q] = s.code[q]
  BY <1>2, <1>3, <1>5, <1>7 DEF Quiet
<1>11. Tracks(s, x) BY DEF Tracks
<1>12. Good(w, n)
  <2>1. \A c \in Code : w.codes[c] = s.codes[c] \/ w.codes[c] = Free
    BY <1>2, <1>3, <1>5, <1>6 DEF Quiet
  <2>2. \A c \in Code : w.codes[c].receiver # NoPeer => w.codes[c].remaining > 0
    BY <2>1, AttemptsLeft
  <2>3. QED BY <1>1, <1>2, <1>5, <1>6, <1>7, <1>8, <1>9, <1>10, <1>11, <2>2, Unlink
<1>13. w.sessions[x.sid].sid = NoSid BY <1>1, <1>2, <1>7 DEF SState, NoSession
<1>14. \A q \in {x.sender, x.receiver} : q # p => w.ws[q] # "open" BY <1>1, <1>6
<1>15. QED BY <1>5, <1>7, <1>9, <1>12, <1>13, <1>14 DEF EndSession, w, u, t, d, r

\* A peer that owns no waiting code while it is open is in that position after a
\* quiet change too.
LEMMA QuietOwner ==
  ASSUME NEW s, NEW t, NEW p \in Peer, Quiet(s, t),
         s.ws[p] = "open" => \A c \in Code : s.codes[c].receiver # p
  PROVE  t.ws[p] = "open" => \A c \in Code : t.codes[c].receiver # p
<1>1. p # NoPeer BY PeerAssumption
<1>2. QED BY <1>1 DEF Quiet, Free

\* expireReceiverAfterPrePairAttempts, entered with both peers unlinked and without code.
LEMMA ExpireReceiverGood ==
  ASSUME NEW s, NEW n, NEW x, Member(x, n), Good(s, n), s.sessions[x.sid].sid = NoSid,
         s.sid[x.sender] = NoSid, s.sid[x.receiver] = NoSid,
         \A p \in {x.sender, x.receiver} :
           s.ws[p] = "open" => \A c \in Code : s.codes[c].receiver # p
  PROVE  Good(ExpireReceiver(s, x), n) /\ Dead(ExpireReceiver(s, x), x)
<1>. DEFINE l == SendLast(s, x.receiver, "peer-left")
            a == Clear(l, x.sender)
            b == Clear(a, x.receiver)
            f == SendLast(b, x.receiver, "error")
            v == Close(f, x.sender)
            w == Close(v, x.receiver)
<1>1. s \in SState /\ x.sender \in Peer /\ x.receiver \in Peer /\ x.sender # x.receiver
  BY DEF Good, Member
<1>2. Quiet(s, l) BY <1>1, SendLastQuiet
<1>. HIDE DEF l
<1>3. /\ Good(l, n) /\ l \in SState /\ l.sid = s.sid /\ l.sessions = s.sessions
      /\ \A p \in {x.sender, x.receiver} :
           l.ws[p] = "open" => \A c \in Code : l.codes[c].receiver # p
  BY <1>1, <1>2, QuietGood, QuietOwner DEF Quiet
<1>4. Good(a, n) BY <1>1, <1>3, ClearGood
<1>5. a \in SState /\ a.codes = l.codes /\ a.sessions = l.sessions /\ a.ws = l.ws
      /\ a.sid = [l.sid EXCEPT ![x.sender] = NoSid]
  BY <1>1, <1>3, ClearType
<1>. HIDE DEF a
<1>6. a.sid[x.sender] = NoSid /\ a.sid[x.receiver] = NoSid BY <1>1, <1>3, <1>5 DEF SState
<1>7. Good(b, n) BY <1>1, <1>3, <1>4, <1>5, <1>6, ClearGood
<1>8. b \in SState /\ b.sessions = a.sessions /\ b.sid = [a.sid EXCEPT ![x.receiver] = NoSid]
  BY <1>1, <1>5, ClearType
<1>. HIDE DEF b
<1>9. b.sid[x.sender] = NoSid /\ b.sid[x.receiver] = NoSid BY <1>1, <1>5, <1>6, <1>8 DEF SState
<1>10. Quiet(b, f) BY <1>1, <1>8, SendLastQuiet
<1>. HIDE DEF f
<1>11. Quiet(f, v) /\ v.ws[x.sender] # "open" BY <1>1, <1>10, CloseQuiet DEF Quiet
<1>. HIDE DEF v
<1>12. Quiet(v, w) /\ w.ws[x.receiver] # "open" BY <1>1, <1>11, CloseQuiet DEF Quiet
<1>. HIDE DEF w
<1>13. Quiet(b, w) BY <1>10, <1>11, <1>12, QuietTrans
<1>14. Good(w, n) BY <1>7, <1>13, QuietGood
<1>15. w.ws[x.sender] # "open" BY <1>1, <1>11, <1>12 DEF Quiet
<1>16. Dead(w, x) BY <1>3, <1>5, <1>8, <1>9, <1>12, <1>13, <1>15 DEF Quiet, Dead
<1>17. QED BY <1>14, <1>16 DEF ExpireReceiver, l, a, b, f, v, w

\* sendRestoredRegistration, entered with the sender closed and the receiver waiting
\* under the session's code.
LEMMA SendRestoredGood ==
  ASSUME NEW s, NEW n, NEW x, NEW k, Member(x, n), Good(s, n), Dead(s, x)
  PROVE  /\ Good(SendRestoredRegistration(s, x, k), n)
         /\ Dead(SendRestoredRegistration(s, x, k), x)
<1>. DEFINE t == SendLast(s, x.receiver, Registered(k))
            d == IF t.codes[x.code].receiver = x.receiver THEN DeleteCode(t, x.code) ELSE t
            c == Clear(d, x.receiver)
            w == Close(c, x.receiver)
<1>1. s \in SState /\ x.receiver \in Peer /\ x.sender \in Peer /\ x.code \in Code
  BY DEF Good, Member
<1>2. Quiet(s, t) BY <1>1, SendLastQuiet
<1>3. Good(t, n) /\ Dead(t, x) /\ t \in SState BY <1>2, QuietGood, QuietDead DEF Quiet
<1>. HIDE DEF t
<1>4. CASE t.ws[x.receiver] = "open" BY <1>3, <1>4 DEF SendRestoredRegistration, t
<1>5. CASE t.ws[x.receiver] # "open"
  <2>1. Quiet(t, d) BY <1>1, <1>3, DeleteCodeQuiet DEF Quiet
  <2>. HIDE DEF d
  <2>2. Good(d, n) /\ Dead(d, x) /\ d \in SState BY <1>3, <2>1, QuietGood, QuietDead DEF Quiet
  <2>3. d.ws[x.receiver] # "open" BY <1>1, <1>5, <2>1 DEF Quiet
  <2>4. Good(c, n) BY <1>1, <2>2, <2>3, ClearGood DEF Dead
  <2>5. /\ c \in SState /\ c.codes = d.codes /\ c.sessions = d.sessions /\ c.ws = d.ws
        /\ c.sid = [d.sid EXCEPT ![x.receiver] = NoSid]
    BY <1>1, <2>2, ClearType
  <2>. HIDE DEF c
  <2>6. c.sid[x.sender] = NoSid /\ c.sid[x.receiver] = NoSid
    BY <1>1, <2>2, <2>5 DEF SState, Dead
  <2>7. Dead(c, x) BY <2>2, <2>3, <2>5, <2>6 DEF Dead
  <2>8. Quiet(c, w) BY <1>1, <2>5, CloseQuiet
  <2>. HIDE DEF w
  <2>9. Good(w, n) /\ Dead(w, x) BY <2>4, <2>7, <2>8, QuietGood, QuietDead
  <2>10. QED BY <1>5, <2>9 DEF SendRestoredRegistration, t, d, c, w
<1>6. QED BY <1>4, <1>5

\* restoreWaitingReceiver, once the code is known to be free or the receiver's.
LEMMA RestoreToGood ==
  ASSUME NEW s, NEW n, NEW x, NEW e \in CodeEntry, NEW notify \in BOOLEAN,
         Member(x, n), Good(s, n), Tracks(s, x), e.receiver = x.receiver
  PROVE  LET w == RestoreTo(DeleteSession(s, x.sid), x, e, notify)
         IN  Good(w, n) /\ Dead(w, x)
<1>. DEFINE t == DeleteSession(s, x.sid)
            b == [Clear(t, x.sender) EXCEPT !.sid[x.receiver] = NoSid,
                    !.role[x.receiver] = "receiver", !.code[x.receiver] = x.code]
            wait == [b EXCEPT !.codes[x.code] = e]
            left == IF notify THEN SendLast(wait, x.receiver, "peer-left") ELSE wait
            v == Close(left, x.sender)
<1>1. /\ s \in SState /\ x.sid \in SessionId /\ x.code \in Code
      /\ x.sender \in Peer /\ x.receiver \in Peer /\ x.sender # x.receiver
      /\ x.sender # NoPeer /\ x.receiver # NoPeer
  BY PeerAssumption DEF Good, Member
<1>2. /\ t \in SState /\ t.sessions = [s.sessions EXCEPT ![x.sid] = NoSession]
      /\ t.codes = s.codes /\ t.ws = s.ws /\ t.sid = s.sid /\ t.role = s.role
      /\ t.code = s.code
  BY <1>1, DeleteSessionType
<1>. HIDE DEF t
<1>3. /\ Clear(t, x.sender) \in SState
      /\ Clear(t, x.sender).codes = t.codes /\ Clear(t, x.sender).sessions = t.sessions
      /\ Clear(t, x.sender).ws = t.ws
      /\ Clear(t, x.sender).sid = [t.sid EXCEPT ![x.sender] = NoSid]
      /\ Clear(t, x.sender).code = [t.code EXCEPT ![x.sender] = NoCode]
      /\ Clear(t, x.sender).role = [t.role EXCEPT ![x.sender] = "none"]
  BY <1>1, <1>2, ClearType
<1>4. /\ b \in SState /\ b.codes = s.codes /\ b.sessions = t.sessions /\ b.ws = s.ws
      /\ b.sid = [Clear(t, x.sender).sid EXCEPT ![x.receiver] = NoSid]
      /\ b.role = [Clear(t, x.sender).role EXCEPT ![x.receiver] = "receiver"]
      /\ b.code = [Clear(t, x.sender).code EXCEPT ![x.receiver] = x.code]
  BY <1>1, <1>2, <1>3 DEF SState
<1>. HIDE DEF b
<1>5. /\ b.sid[x.sender] = NoSid /\ b.sid[x.receiver] = NoSid
      /\ b.role[x.receiver] = "receiver" /\ b.code[x.receiver] = x.code
      /\ \A q \in Peer : q # x.sender /\ q # x.receiver =>
           b.sid[q] = s.sid[q] /\ b.role[q] = s.role[q] /\ b.code[q] = s.code[q]
  BY <1>1, <1>2, <1>3, <1>4 DEF SState
<1>6. \A c \in Code : s.codes[c].receiver = x.sender => s.ws[x.sender] # "open"
  BY AliveFacts DEF Tracks, Dead
<1>7. \A c \in Code : s.codes[c].receiver = x.receiver /\ s.ws[x.receiver] = "open" =>
        c = x.code
  BY AliveFacts DEF Tracks, Dead
<1>8. b.sessions[x.sid].sid = NoSid BY <1>1, <1>2, <1>4 DEF SState, NoSession
<1>9. CASE e.remaining = 0
  <2>. DEFINE d == DeleteCode(b, x.code)
  <2>1. Quiet(b, d) /\ d.ws = b.ws /\ d.codes[x.code] = Free BY <1>1, <1>4, DeleteCodeQuiet
  <2>. HIDE DEF d
  <2>2. /\ d \in SState /\ d.sessions = b.sessions /\ d.sid = b.sid /\ d.role = b.role
        /\ d.code = b.code
        /\ \A c \in Code : d.codes[c] = s.codes[c] \/ d.codes[c] = Free
    BY <1>4, <2>1 DEF Quiet
  <2>3. \A c \in Code : d.codes[c].receiver # NoPeer => d.codes[c].receiver = s.codes[c].receiver
    BY <2>2 DEF Free
  <2>4. \A p \in {x.sender, x.receiver} :
          d.ws[p] = "open" => \A c \in Code : d.codes[c].receiver # p
    BY <1>1, <1>4, <1>6, <1>7, <2>1, <2>3 DEF Free
  <2>5. Good(d, n)
    <3>1. /\ d.sessions = [s.sessions EXCEPT ![x.sid] = NoSession]
          /\ \A q \in Peer : d.ws[q] = "open" => s.ws[q] = "open"
          /\ d.sid[x.sender] = NoSid /\ d.sid[x.receiver] = NoSid
      BY <1>2, <1>4, <1>5, <2>1, <2>2
    <3>2. \A q \in Peer : q # x.sender /\ q # x.receiver =>
            d.sid[q] = s.sid[q] /\ d.role[q] = s.role[q] /\ d.code[q] = s.code[q]
      BY <1>5, <2>2
    <3>3. /\ \A c \in Code : d.codes[c].receiver = x.sender => d.ws[x.sender] # "open"
          /\ \A c \in Code : ~(d.codes[c].receiver = x.receiver /\ d.ws[x.receiver] = "open")
      BY <2>4
    <3>4. \A c \in Code : d.codes[c].receiver # NoPeer => d.codes[c].remaining > 0
      BY <2>2, AttemptsLeft
    <3>5. QED BY <2>2, <2>3, <3>1, <3>2, <3>3, <3>4, Unlink
  <2>6. Good(ExpireReceiver(d, x), n) /\ Dead(ExpireReceiver(d, x), x)
    BY <1>5, <1>8, <2>2, <2>4, <2>5, ExpireReceiverGood
  <2>7. QED BY <1>9, <2>6 DEF RestoreTo, d, b, t
<1>10. CASE e.remaining # 0
  <2>1. wait \in SState /\ wait.sessions = b.sessions /\ wait.sid = b.sid
        /\ wait.role = b.role /\ wait.code = b.code /\ wait.ws = b.ws
        /\ wait.codes = [s.codes EXCEPT ![x.code] = e]
    BY <1>1, <1>4 DEF SState
  <2>. HIDE DEF wait
  <2>2. /\ wait.codes[x.code].receiver = x.receiver
        /\ \A c \in Code : c # x.code => wait.codes[c] = s.codes[c]
    BY <1>1, <2>1 DEF SState
  <2>3. Good(wait, n)
    <3>1. /\ wait.sessions = [s.sessions EXCEPT ![x.sid] = NoSession]
          /\ \A q \in Peer : wait.ws[q] = "open" => s.ws[q] = "open"
          /\ wait.sid[x.sender] = NoSid /\ wait.sid[x.receiver] = NoSid
          /\ wait.role[x.receiver] = "receiver" /\ wait.code[x.receiver] = x.code
          /\ wait.ws = s.ws
      BY <1>2, <1>4, <1>5, <2>1
    <3>2. \A q \in Peer : q # x.sender /\ q # x.receiver =>
            wait.sid[q] = s.sid[q] /\ wait.role[q] = s.role[q] /\ wait.code[q] = s.code[q]
      BY <1>5, <2>1
    <3>3. \A c \in Code : wait.codes[c].receiver # NoPeer =>
            \/ wait.codes[c].receiver = s.codes[c].receiver
            \/ wait.codes[c].receiver = x.receiver
      BY <2>2
    <3>4. \A c \in Code : wait.codes[c].receiver = x.sender => wait.ws[x.sender] # "open"
      BY <1>1, <1>6, <2>2, <3>1
    <3>5. \A c \in Code : wait.codes[c].receiver = x.receiver /\ wait.ws[x.receiver] = "open" =>
            wait.role[x.receiver] = "receiver" /\ wait.code[x.receiver] = c
      BY <1>7, <2>2, <3>1
    <3>6. wait \in SState BY <2>1
    <3>7. \A c \in Code : wait.codes[c].receiver # NoPeer => wait.codes[c].remaining > 0
      <4>1. e.remaining > 0 BY <1>10 DEF CodeEntry
      <4>2. wait.codes[x.code] = e BY <1>1, <2>1 DEF SState
      <4>3. QED BY <2>2, <4>1, <4>2 DEF Good, CL
    <3>8. QED BY ONLY <3>1, <3>2, <3>3, <3>4, <3>5, <3>6, <3>7, Unlink, Member(x, n), Good(s, n), Tracks(s, x)
  <2>4. Quiet(wait, left)
    <3>1. CASE notify BY <1>1, <2>1, <3>1, SendLastQuiet
    <3>2. CASE ~notify BY <2>1, <3>2 DEF Quiet
    <3>3. QED BY <3>1, <3>2
  <2>. HIDE DEF left
  <2>5. Quiet(left, v) /\ v.ws[x.sender] # "open" BY <1>1, <2>4, CloseQuiet DEF Quiet
  <2>. HIDE DEF v
  <2>6. Quiet(wait, v) BY <2>4, <2>5, QuietTrans
  <2>7. Good(v, n) BY <2>3, <2>6, QuietGood
  <2>8. v.sid = b.sid /\ v.sessions = b.sessions /\ v.code = b.code
    BY <2>1, <2>6 DEF Quiet
  <2>9. v.ws[x.receiver] = "open" =>
          \A c \in Code : v.codes[c].receiver = x.receiver => c = x.code
    BY <1>1, <1>5, <2>7, <2>8 DEF Good, CL
  <2>10. Dead(v, x) BY <1>5, <1>8, <2>5, <2>8, <2>9 DEF Dead
  <2>11. QED BY <1>10, <2>7, <2>10, SendRestoredGood DEF RestoreTo, v, left, wait, b, t
<1>11. QED BY <1>9, <1>10

\* restoreWaitingReceiver, of a session in or out of the table.
LEMMA RestoreGood ==
  ASSUME NEW s, NEW n, NEW x, NEW notify \in BOOLEAN, Member(x, n), Good(s, n), Tracks(s, x)
  PROVE  LET w == RestoreWaitingReceiver(s, x, notify)
         IN  Good(w, n) /\ Dead(w, x)
<1>. DEFINE t == DeleteSession(s, x.sid)
            existing == s.codes[x.code]
            fewer == IF existing.remaining < x.remaining THEN existing.remaining ELSE x.remaining
            e1 == [existing EXCEPT !.remaining = fewer]
            e2 == [receiver |-> x.receiver, ttl |-> x.codeTtl, remaining |-> x.remaining]
            a == SendLast(t, x.sender, "peer-left")
            b == SendLast(a, x.receiver, "peer-left")
<1>1. /\ s \in SState /\ x.sid \in SessionId /\ x.code \in Code /\ x \in Session
      /\ x.sender \in Peer /\ x.receiver \in Peer
  BY DEF Good, Member
<1>2. existing \in CodeEntry BY <1>1 DEF SState
<1>3. x.remaining \in Nat /\ x.codeTtl \in Nat BY <1>1 DEF Session
<1>4. fewer \in Nat BY <1>2, <1>3 DEF CodeEntry
<1>5. CASE existing.receiver = x.receiver
  <2>. HIDE DEF fewer
  <2>1. e1 \in CodeEntry /\ e1.receiver = x.receiver BY <1>2, <1>4, <1>5 DEF CodeEntry
  <2>. HIDE DEF e1
  <2>2. QED BY <1>5, <2>1, RestoreToGood DEF RestoreWaitingReceiver, e1, fewer
<1>6. CASE existing.receiver # x.receiver /\ existing.receiver = NoPeer
  <2>1. e2 \in CodeEntry /\ e2.receiver = x.receiver BY <1>1, <1>3 DEF CodeEntry
  <2>. HIDE DEF e2
  <2>2. QED BY <1>6, <2>1, RestoreToGood DEF RestoreWaitingReceiver, e2
<1>7. CASE existing.receiver # x.receiver /\ existing.receiver # NoPeer
  <2>1. t \in SState BY <1>1, DeleteSessionType
  <2>. HIDE DEF t
  <2>2. Quiet(t, a) BY <1>1, <2>1, SendLastQuiet
  <2>. HIDE DEF a
  <2>3. Quiet(a, b) BY <1>1, <2>2, SendLastQuiet DEF Quiet
  <2>. HIDE DEF b
  <2>4. Quiet(t, b) BY <2>2, <2>3, QuietTrans
  <2>5. Good(CloseSessionPeers(b, x), n) /\ Dead(CloseSessionPeers(b, x), x)
    BY <2>4, CloseSessionPeersFrom DEF t
  <2>6. QED BY <1>7, <2>5 DEF RestoreWaitingReceiver, b, a, t
<1>8. QED BY <1>5, <1>6, <1>7

\* A session in the table has whole links.
LEMMA LiveMember ==
  ASSUME NEW s, NEW n, NEW i \in SessionId, Good(s, n), s.sessions[i].sid # NoSid
  PROVE  Member(s.sessions[i], n) /\ Alive(s, s.sessions[i]) /\ s.sessions[i].sid = i
<1>1. s.sessions[i] \in Session BY DEF Good, SState
<1>2. QED BY <1>1 DEF Good, SL, Member, Alive

-----------------------------------------------------------------------------
(* cleanupPeer and send *)

\* cleanupPeer leaves the registry consistent.  For a session x the peer belongs to,
\* once the peer's socket is closed too, x is out of the table.
LEMMA CleanupGood ==
  ASSUME NEW s, NEW n, NEW p \in Peer, Good(s, n)
  PROVE  /\ Good(CleanupPeer(s, p), n)
         /\ \A x : Member(x, n) /\ Tracks(s, x) /\ p \in {x.sender, x.receiver} =>
              Dead(Close(CleanupPeer(s, p), p), x)
<1>. DEFINE d == DropCode(s, p)
            y == d.sessions[d.sid[p]]
            w == CleanupPeer(s, p)
<1>1. s \in SState BY DEF Good
<1>2. Quiet(s, d) /\ d.ws = s.ws BY <1>1, DropCodeQuiet
<1>. HIDE DEF d
<1>3. Good(d, n) /\ d \in SState /\ d.sessions = s.sessions /\ d.sid = s.sid
  BY <1>2, QuietGood DEF Quiet
<1>4. CASE ~Live(d, d.sid[p])
  <2>1. w = d BY <1>4 DEF CleanupPeer, d
  <2>2. ASSUME NEW x, Member(x, n), Tracks(s, x), p \in {x.sender, x.receiver}
        PROVE  Dead(Close(d, p), x)
    <3>1. ~Alive(s, x)
      <4>. SUFFICES ASSUME Alive(s, x) PROVE FALSE OBVIOUS
      <4>1. s.sid[p] = x.sid /\ x.sid # NoSid BY <2>2, AliveFacts
      <4>2. QED BY <1>3, <1>4, <4>1 DEF Live, Alive
    <3>2. Dead(d, x) BY <1>2, <2>2, <3>1, QuietDead DEF Tracks
    <3>3. QED BY <1>3, <2>2, <3>2, CloseQuiet, QuietDead
  <2>3. QED BY <1>3, <2>1, <2>2
<1>5. CASE Live(d, d.sid[p])
  <2>1. d.sid[p] \in SessionId /\ d.sessions[d.sid[p]].sid # NoSid
    BY <1>3, <1>5 DEF Live, SState
  <2>2. Member(y, n) /\ Alive(d, y) /\ y.sid = d.sid[p] BY <1>3, <2>1, LiveMember
  <2>3. p \in {y.sender, y.receiver} BY <1>3, <2>1 DEF Good, PL, NoSid, SessionId
  <2>. HIDE DEF y
  <2>4. ASSUME NEW x, Member(x, n), Tracks(s, x), p \in {x.sender, x.receiver}
        PROVE  x = y
    <3>1. s.sid[p] # NoSid BY <1>3, <2>1 DEF SessionId, NoSid
    <3>2. Alive(s, x) BY <2>4, <3>1 DEF Tracks, Dead
    <3>3. s.sid[p] = x.sid BY <2>4, <3>2, AliveFacts
    <3>4. QED BY <1>3, <3>2, <3>3 DEF Alive, y
  <2>5. Good(w, n) /\ w \in SState /\ Dead(Close(w, p), y)
    <3>1. CASE y.sender = p /\ ~Decided(y)
      <4>1. w = RestoreWaitingReceiver(d, y, TRUE) BY <1>5, <3>1 DEF CleanupPeer, d, y
      <4>2. Good(w, n) /\ Dead(w, y) BY <1>3, <2>2, <4>1, RestoreGood DEF Tracks
      <4>3. w \in SState BY <4>2 DEF Good
      <4>4. QED BY <2>2, <4>2, <4>3, CloseQuiet, QuietDead
    <3>2. CASE ~(y.sender = p /\ ~Decided(y))
      <4>. DEFINE k == Close(w, p)
      <4>1. w = EndSession(d, y, p) BY <1>5, <3>2 DEF CleanupPeer, d, y
      <4>2. /\ Good(w, n) /\ w.sessions[y.sid].sid = NoSid
            /\ w.sid[y.sender] = NoSid /\ w.sid[y.receiver] = NoSid
            /\ \A q \in {y.sender, y.receiver} : q # p => w.ws[q] # "open"
        BY <1>3, <2>2, <2>3, <4>1, EndSessionGood
      <4>. HIDE DEF w
      <4>3. w \in SState BY <4>2 DEF Good
      <4>4. Quiet(w, k) /\ k.ws[p] # "open" /\ \A q \in Peer : q # p => k.ws[q] = w.ws[q]
        BY <4>3, CloseQuiet
      <4>. HIDE DEF k
      <4>5. k.ws[y.sender] # "open" /\ k.ws[y.receiver] # "open"
        BY <2>2, <2>3, <4>2, <4>4 DEF Member
      <4>6. Dead(k, y) BY <4>2, <4>4, <4>5 DEF Quiet, Dead
      <4>7. QED BY <4>2, <4>3, <4>6 DEF k
    <3>3. QED BY <3>1, <3>2
  <2>6. QED BY <2>4, <2>5
<1>6. QED BY <1>4, <1>5

\* send leaves the registry consistent, and is quiet when it succeeds.
LEMMA SendGood ==
  ASSUME NEW s, NEW n, NEW p \in Peer, NEW m, Good(s, n)
  PROVE  /\ Good(Send(s, p, m), n)
         /\ Send(s, p, m).ws[p] = "open" => Quiet(s, Send(s, p, m))
<1>1. s \in SState BY DEF Good
<1>2. CASE s.ws[p] # "open" BY <1>2 DEF Send
<1>3. CASE s.ws[p] = "open" /\ s.room[p] > 0
  BY <1>1, <1>3, DeliverQuiet, QuietGood DEF Send
<1>4. CASE s.ws[p] = "open" /\ ~(s.room[p] > 0)
  <2>. DEFINE w == CleanupPeer(s, p)
  <2>1. Good(w, n) /\ w \in SState BY CleanupGood DEF Good
  <2>2. Send(s, p, m) = Close(w, p) BY <1>4 DEF Send
  <2>. HIDE DEF w
  <2>3. QED BY <2>1, <2>2, CloseQuiet, QuietGood
<1>5. QED BY <1>2, <1>3, <1>4

\* A handler may go on using a session object after a send to one of its peers.
LEMMA SendTracks ==
  ASSUME NEW s, NEW n, NEW p, NEW m, NEW x, Good(s, n), Member(x, n), Tracks(s, x),
         p \in {x.sender, x.receiver}
  PROVE  /\ Tracks(Send(s, p, m), x)
         /\ Send(s, p, m).ws[p] # "open" /\ s.ws[p] = "open" => Dead(Send(s, p, m), x)
         /\ Send(s, p, m).ws[p] = "open" /\ Alive(s, x) => Alive(Send(s, p, m), x)
<1>1. s \in SState /\ p \in Peer BY DEF Good, Member
<1>2. CASE s.ws[p] # "open" BY <1>2 DEF Send
<1>3. CASE s.ws[p] = "open" /\ s.room[p] > 0
  <2>1. /\ Quiet(s, Send(s, p, m)) /\ Send(s, p, m).ws[p] = "open"
    BY <1>1, <1>3, DeliverQuiet DEF Send
  <2>2. Alive(s, x) => Alive(Send(s, p, m), x) BY <2>1 DEF Quiet, Alive
  <2>3. Dead(s, x) => Dead(Send(s, p, m), x) BY <2>1, QuietDead
  <2>4. QED BY <2>1, <2>2, <2>3 DEF Tracks
<1>4. CASE s.ws[p] = "open" /\ ~(s.room[p] > 0)
  <2>1. Send(s, p, m) = Close(CleanupPeer(s, p), p) BY <1>4 DEF Send
  <2>2. Dead(Send(s, p, m), x) BY <1>1, <2>1, CleanupGood
  <2>3. CleanupPeer(s, p) \in SState BY <1>1, CleanupGood DEF Good
  <2>4. Send(s, p, m).ws[p] # "open" BY <1>1, <2>1, <2>3, CloseQuiet
  <2>5. QED BY <2>2, <2>4 DEF Tracks
<1>5. QED BY <1>2, <1>3, <1>4

-----------------------------------------------------------------------------
(* No handler reopens a socket *)

Shuts(s, t) == t \in SState /\ \A q \in Peer : t.ws[q] = "open" => s.ws[q] = "open"

\* Quiet changes and clearing only close sockets.
LEMMA ShutsBasic ==
  ASSUME NEW s \in SState, NEW t, NEW p \in Peer
  PROVE  /\ Quiet(s, t) => Shuts(s, t)
         /\ Shuts(s, Clear(s, p))
         /\ \A i \in SessionId : Shuts(s, DeleteSession(s, i))
  BY ClearType, DeleteSessionType DEF Quiet, Shuts

\* Shuts composes.
LEMMA ShutsTrans ==
  ASSUME NEW s, NEW t, NEW u, Shuts(s, t), Shuts(t, u)
  PROVE  Shuts(s, u)
  BY DEF Shuts

\* Each of the steps a handler is made of, from a typed state.
LEMMA ShutsSteps ==
  ASSUME NEW s \in SState, NEW p \in Peer, NEW m
  PROVE  /\ Shuts(s, SendLast(s, p, m)) /\ Shuts(s, Close(s, p)) /\ Shuts(s, Clear(s, p))
         /\ Shuts(s, DropCode(s, p))
         /\ \A i \in SessionId : Shuts(s, DeleteSession(s, i))
         /\ \A c \in Code : Shuts(s, DeleteCode(s, c))
  BY SendLastQuiet, CloseQuiet, DropCodeQuiet, DeleteCodeQuiet, ShutsBasic

\* endSession and closeSessionPeers.
LEMMA EndShuts ==
  ASSUME NEW s \in SState, NEW x, NEW n, Member(x, n), NEW p
  PROVE  Shuts(s, EndSession(s, x, p)) /\ Shuts(s, CloseSessionPeers(s, x))
<1>0. x.sid \in SessionId /\ x.sender \in Peer /\ x.receiver \in Peer BY DEF Member
<1>1. Shuts(s, EndSession(s, x, p))
  <2>. DEFINE r == IF p = x.sender THEN x.receiver ELSE x.sender
              d == DeleteSession(s, x.sid)
              t == SendLast(d, r, "peer-left")
              a == Clear(t, x.sender)
              u == Clear(a, x.receiver)
              w == Close(u, r)
  <2>0. r \in Peer BY <1>0
  <2>. HIDE DEF r
  <2>1. Shuts(s, d) BY <1>0, ShutsSteps
  <2>. HIDE DEF d
  <2>2. Shuts(d, t) BY <2>0, <2>1, ShutsSteps DEF Shuts
  <2>. HIDE DEF t
  <2>3. Shuts(t, a) BY <1>0, <2>2, ShutsSteps DEF Shuts
  <2>. HIDE DEF a
  <2>4. Shuts(a, u) BY <1>0, <2>3, ShutsSteps DEF Shuts
  <2>. HIDE DEF u
  <2>5. Shuts(u, w) BY <2>0, <2>4, ShutsSteps DEF Shuts
  <2>. HIDE DEF w
  <2>6. Shuts(s, w) BY <2>1, <2>2, <2>3, <2>4, <2>5 DEF Shuts
  <2>7. QED BY <2>6 DEF EndSession, w, u, a, t, d, r
<1>2. Shuts(s, CloseSessionPeers(s, x))
  <2>. DEFINE d == DeleteSession(s, x.sid)
              a == Clear(d, x.sender)
              u == Clear(a, x.receiver)
              v == Close(u, x.sender)
              w == Close(v, x.receiver)
  <2>1. Shuts(s, d) BY <1>0, ShutsSteps
  <2>. HIDE DEF d
  <2>2. Shuts(d, a) BY <1>0, <2>1, ShutsSteps DEF Shuts
  <2>. HIDE DEF a
  <2>3. Shuts(a, u) BY <1>0, <2>2, ShutsSteps DEF Shuts
  <2>. HIDE DEF u
  <2>4. Shuts(u, v) BY <1>0, <2>3, ShutsSteps DEF Shuts
  <2>. HIDE DEF v
  <2>5. Shuts(v, w) BY <1>0, <2>4, ShutsSteps DEF Shuts
  <2>. HIDE DEF w
  <2>6. Shuts(s, w) BY <2>1, <2>2, <2>3, <2>4, <2>5 DEF Shuts
  <2>7. QED BY <2>6 DEF CloseSessionPeers, w, v, u, a, d
<1>3. QED BY <1>1, <1>2

\* restoreWaitingReceiver, past the deletion of the session.
LEMMA RestoreToShuts ==
  ASSUME NEW s \in SState, NEW x, NEW n, Member(x, n), NEW e \in CodeEntry, NEW notify \in BOOLEAN
  PROVE  Shuts(s, RestoreTo(s, x, e, notify))
<1>. DEFINE k == Clear(s, x.sender)
            b == [k EXCEPT !.sid[x.receiver] = NoSid,
                    !.role[x.receiver] = "receiver", !.code[x.receiver] = x.code]
            wait == [b EXCEPT !.codes[x.code] = e]
            left == IF notify THEN SendLast(wait, x.receiver, "peer-left") ELSE wait
            v == Close(left, x.sender)
            t == SendLast(v, x.receiver, Registered(e.ttl))
            d == IF t.codes[x.code].receiver = x.receiver THEN DeleteCode(t, x.code) ELSE t
            c == Clear(d, x.receiver)
            w == Close(c, x.receiver)
            z == DeleteCode(b, x.code)
            l == SendLast(z, x.receiver, "peer-left")
            g == Clear(l, x.sender)
            h == Clear(g, x.receiver)
            f == SendLast(h, x.receiver, "error")
            j == Close(f, x.sender)
            o == Close(j, x.receiver)
<1>0. x.sid \in SessionId /\ x.sender \in Peer /\ x.receiver \in Peer /\ x.code \in Code
  BY DEF Member
<1>1. Shuts(s, k) BY <1>0, ShutsSteps
<1>. HIDE DEF k
<1>2. Shuts(k, b)
  <2>1. b \in SState /\ b.ws = k.ws BY <1>0, <1>1 DEF SState, Shuts
  <2>2. QED BY <2>1 DEF Shuts
<1>. HIDE DEF b
<1>3. CASE e.remaining = 0
  <2>1. Shuts(b, z) BY <1>0, <1>2, ShutsSteps DEF Shuts
  <2>. HIDE DEF z
  <2>2. Shuts(z, l) BY <1>0, <2>1, ShutsSteps DEF Shuts
  <2>. HIDE DEF l
  <2>3. Shuts(l, g) BY <1>0, <2>2, ShutsSteps DEF Shuts
  <2>. HIDE DEF g
  <2>4. Shuts(g, h) BY <1>0, <2>3, ShutsSteps DEF Shuts
  <2>. HIDE DEF h
  <2>5. Shuts(h, f) BY <1>0, <2>4, ShutsSteps DEF Shuts
  <2>. HIDE DEF f
  <2>6. Shuts(f, j) BY <1>0, <2>5, ShutsSteps DEF Shuts
  <2>. HIDE DEF j
  <2>7. Shuts(j, o) BY <1>0, <2>6, ShutsSteps DEF Shuts
  <2>. HIDE DEF o
  <2>8. Shuts(s, o) BY <1>1, <1>2, <2>1, <2>2, <2>3, <2>4, <2>5, <2>6, <2>7 DEF Shuts
  <2>9. QED BY <1>3, <2>8 DEF RestoreTo, ExpireReceiver, o, j, f, h, g, l, z, b, k
<1>4. CASE e.remaining # 0
  <2>1. Shuts(b, wait)
    <3>1. wait \in SState /\ wait.ws = b.ws BY <1>0, <1>2 DEF SState, Shuts
    <3>2. QED BY <3>1 DEF Shuts
  <2>. HIDE DEF wait
  <2>2. Shuts(wait, left)
    <3>1. CASE notify BY <1>0, <2>1, <3>1, ShutsSteps DEF Shuts
    <3>2. CASE ~notify BY <2>1, <3>2 DEF Shuts
    <3>3. QED BY <3>1, <3>2
  <2>. HIDE DEF left
  <2>3. Shuts(left, v) BY <1>0, <2>2, ShutsSteps DEF Shuts
  <2>. HIDE DEF v
  <2>4. Shuts(v, t) BY <1>0, <2>3, ShutsSteps DEF Shuts
  <2>. HIDE DEF t
  <2>5. Shuts(t, d) BY <1>0, <2>4, ShutsSteps DEF Shuts
  <2>. HIDE DEF d
  <2>6. Shuts(d, c) BY <1>0, <2>5, ShutsSteps DEF Shuts
  <2>. HIDE DEF c
  <2>7. Shuts(c, w) BY <1>0, <2>6, ShutsSteps DEF Shuts
  <2>. HIDE DEF w
  <2>8. Shuts(s, t) /\ Shuts(s, w)
    BY <1>1, <1>2, <2>1, <2>2, <2>3, <2>4, <2>5, <2>6, <2>7 DEF Shuts
  <2>9. QED BY <1>4, <2>8 DEF RestoreTo, SendRestoredRegistration, w, c, d, t, v, left, wait, b, k
<1>5. QED BY <1>3, <1>4

\* restoreWaitingReceiver.
LEMMA RestoreShuts ==
  ASSUME NEW s \in SState, NEW x, NEW n, Member(x, n), NEW notify \in BOOLEAN
  PROVE  Shuts(s, RestoreWaitingReceiver(s, x, notify))
<1>. DEFINE t == DeleteSession(s, x.sid)
            existing == s.codes[x.code]
            fewer == IF existing.remaining < x.remaining THEN existing.remaining ELSE x.remaining
            e1 == [existing EXCEPT !.remaining = fewer]
            e2 == [receiver |-> x.receiver, ttl |-> x.codeTtl, remaining |-> x.remaining]
            a == SendLast(t, x.sender, "peer-left")
            b == SendLast(a, x.receiver, "peer-left")
<1>1. /\ x.sid \in SessionId /\ x.code \in Code /\ x \in Session
      /\ x.sender \in Peer /\ x.receiver \in Peer
  BY DEF Member
<1>2. existing \in CodeEntry BY <1>1 DEF SState
<1>3. x.remaining \in Nat /\ x.codeTtl \in Nat BY <1>1 DEF Session
<1>4. fewer \in Nat BY <1>2, <1>3 DEF CodeEntry
<1>. HIDE DEF fewer
<1>5. e1 \in CodeEntry /\ e2 \in CodeEntry BY <1>1, <1>2, <1>3, <1>4 DEF CodeEntry
<1>. HIDE DEF e1, e2
<1>6. Shuts(s, t) BY <1>1, ShutsSteps
<1>. HIDE DEF t
<1>7. Shuts(t, RestoreTo(t, x, e1, notify)) /\ Shuts(t, RestoreTo(t, x, e2, notify))
  BY <1>5, <1>6, RestoreToShuts DEF Shuts
<1>8. Shuts(t, a) BY <1>1, <1>6, ShutsSteps DEF Shuts
<1>. HIDE DEF a
<1>9. Shuts(a, b) BY <1>1, <1>8, ShutsSteps DEF Shuts
<1>. HIDE DEF b
<1>10. Shuts(b, CloseSessionPeers(b, x)) BY <1>9, EndShuts DEF Shuts
<1>11. Shuts(t, CloseSessionPeers(b, x)) BY <1>8, <1>9, <1>10, ShutsTrans
<1>12. QED BY <1>6, <1>7, <1>11, ShutsTrans DEF RestoreWaitingReceiver, b, a, t, e1, e2, fewer

\* cleanupPeer and send, where the registry is consistent.
LEMMA SendShuts ==
  ASSUME NEW s, NEW n, NEW p \in Peer, NEW m, Good(s, n)
  PROVE  Shuts(s, CleanupPeer(s, p)) /\ Shuts(s, Send(s, p, m))
<1>. DEFINE d == DropCode(s, p)
            y == d.sessions[d.sid[p]]
<1>1. s \in SState BY DEF Good
<1>2. Shuts(s, d) /\ Good(d, n) BY <1>1, ShutsSteps, DropCodeQuiet, QuietGood
<1>3. Shuts(d, CleanupPeer(s, p))
  <2>1. CASE ~Live(d, d.sid[p]) BY <1>2, <2>1 DEF CleanupPeer, Shuts
  <2>2. CASE Live(d, d.sid[p])
    <3>. HIDE DEF d
    <3>1. d.sid[p] \in SessionId /\ d.sessions[d.sid[p]].sid # NoSid
      BY <1>2, <2>2 DEF Live, Good, SState
    <3>2. Member(y, n) BY <1>2, <3>1, LiveMember
    <3>. HIDE DEF y
    <3>3. d \in SState BY <1>2 DEF Good
    <3>4. Shuts(d, RestoreWaitingReceiver(d, y, TRUE)) BY <3>2, <3>3, RestoreShuts
    <3>5. Shuts(d, EndSession(d, y, p)) BY <3>2, <3>3, EndShuts
    <3>6. QED BY <2>2, <3>4, <3>5 DEF CleanupPeer, d, y
  <2>3. QED BY <2>1, <2>2
<1>4. Shuts(s, CleanupPeer(s, p)) BY <1>2, <1>3, ShutsTrans
<1>5. Shuts(s, Close(CleanupPeer(s, p), p)) BY <1>4, ShutsSteps, ShutsTrans DEF Shuts
<1>6. s.room[p] > 0 => Shuts(s, Deliver(s, p, m)) BY <1>1, DeliverQuiet, ShutsBasic
<1>7. QED BY <1>1, <1>4, <1>5, <1>6 DEF Send, Shuts

-----------------------------------------------------------------------------
(* Handlers *)

\* relayDeliveryFailed: the target's socket is not open.
LEMMA RelayDeliveryFailedGood ==
  ASSUME NEW s, NEW n, NEW x, NEW p, NEW target, NEW restore \in BOOLEAN,
         Good(s, n), Member(x, n), Tracks(s, x), p \in {x.sender, x.receiver},
         target \in {x.sender, x.receiver}, s.ws[target] # "open"
  PROVE  Good(RelayDeliveryFailed(s, x, p, target, restore), n)
<1>. DEFINE t == Fail(s, p)
<1>1. p \in Peer /\ target \in Peer BY DEF Member
<1>2. Good(t, n) /\ Tracks(t, x)
  <2>1. Good(t, n) BY <1>1, SendGood DEF Fail
  <2>2. Tracks(t, x) BY SendTracks DEF Fail
  <2>3. QED BY <2>1, <2>2
<1>2a. t.ws[target] # "open"
  <2>1. Shuts(s, t) BY <1>1, SendShuts DEF Fail
  <2>2. QED BY ONLY <1>1, <2>1, s.ws[target] # "open" DEF Shuts
<1>. HIDE DEF t
<1>3. Good(RestoreWaitingReceiver(t, x, TRUE), n) BY <1>2, RestoreGood
<1>4. Good(EndSession(t, x, target), n) BY <1>2, <1>2a, EndSessionGood DEF Tracks
<1>5. QED BY <1>3, <1>4 DEF RelayDeliveryFailed, t

\* closeSessionForTurnRateLimit.
LEMMA TurnRateLimitGood ==
  ASSUME NEW s, NEW n, NEW x, Good(s, n), Member(x, n), Tracks(s, x)
  PROVE  Good(CloseSessionForTurnRateLimit(s, x), n)
<1>. DEFINE a == Fail(s, x.sender)
            b == Fail(a, x.receiver)
<1>1. x.sender \in Peer /\ x.receiver \in Peer BY DEF Member
<1>2. Good(a, n) /\ Tracks(a, x) BY <1>1, SendGood, SendTracks DEF Fail
<1>. HIDE DEF a
<1>3. Good(b, n) /\ Tracks(b, x) BY <1>1, <1>2, SendGood, SendTracks DEF Fail
<1>. HIDE DEF b
<1>4. QED BY <1>3, CloseSessionPeersGood DEF CloseSessionForTurnRateLimit, a, b

\* The reset of a session before acceptance by a bad message of its sender.
LEMMA RejectPrePairSenderGood ==
  ASSUME NEW s, NEW n, NEW x, NEW p, Good(s, n), Member(x, n), Tracks(s, x),
         p \in {x.sender, x.receiver}
  PROVE  Good(RejectPrePairSender(s, x, p), n)
<1>. DEFINE t == Fail(s, p)
<1>1. p \in Peer BY DEF Member
<1>2. Good(t, n) /\ Tracks(t, x) BY <1>1, SendGood, SendTracks DEF Fail
<1>. HIDE DEF t
<1>3. QED BY <1>2, RestoreGood DEF RejectPrePairSender, t

\* badMessage.
LEMMA BadMessageGood ==
  ASSUME NEW s, NEW n, NEW p \in Peer, Good(s, n)
  PROVE  Good(BadMessage(s, p), n)
<1>. DEFINE x == s.sessions[s.sid[p]]
            b == [s EXCEPT !.bad[p] = s.bad[p] + 1]
            t == Fail(b, p)
<1>1. s \in SState BY DEF Good
<1>2. CASE Live(s, s.sid[p]) /\ x.sender = p /\ ~Decided(x)
  <2>1. s.sid[p] \in SessionId /\ x.sid # NoSid BY <1>1, <1>2 DEF Live, SState
  <2>2. Member(x, n) /\ Tracks(s, x) BY <2>1, LiveMember DEF Tracks
  <2>. HIDE DEF x
  <2>3. Good(RejectPrePairSender(s, x, p), n) BY <1>2, <2>2, RejectPrePairSenderGood
  <2>4. QED BY <1>2, <2>3 DEF BadMessage, x
<1>3. CASE ~(Live(s, s.sid[p]) /\ x.sender = p /\ ~Decided(x))
  <2>0. s.bad[p] + 1 \in Nat BY <1>1 DEF SState
  <2>1. Quiet(s, b) BY <1>1, <2>0 DEF SState, Quiet
  <2>2. Good(b, n) BY <2>1, QuietGood
  <2>. HIDE DEF b
  <2>3. Good(t, n) BY <2>2, SendGood DEF Fail
  <2>. HIDE DEF t
  <2>4. Good(Close(t, p), n) BY <2>3, CloseQuiet, QuietGood DEF Good
  <2>5. QED BY <1>3, <2>3, <2>4 DEF BadMessage, x, b, t
<1>4. QED BY <1>2, <1>3

\* applyRelayPhase changes the phase, the counters and the deadline of a session only.
LEMMA ApplyRelayPhaseType ==
  ASSUME NEW x, NEW p, NEW m, NEW n, Member(x, n)
  PROVE  LET y == ApplyRelayPhase(x, p, m)
         IN  y \in Session /\ y.sid = x.sid /\ y.code = x.code
             /\ y.sender = x.sender /\ y.receiver = x.receiver
<1>. DEFINE sn == CASE m = "pake" -> x.seen \cup {PakeFlag(x, p)}
                    [] m = "confirm" -> x.seen \cup {ConfirmFlag(x, p)}
                    [] m = "pair-request" -> x.seen \cup {"pairRequested"}
                    [] m = "pair-accept" -> x.seen \cup {"pairDecided"}
                    [] m \in {"offer", "answer"} -> x.seen \cup {m}
                    [] OTHER -> x.seen
            k == Side(x, p)
            c == IF m = "candidate" THEN x.candidates[k] + 1 ELSE x.candidates[k]
            tt == IF m \in {"pair-request", "pair-accept"} THEN PairTimeout ELSE x.ttl
<1>1. x \in Session BY DEF Member
<1>2. sn \in SUBSET Flag BY <1>1 DEF Session, Flag, PakeFlag, ConfirmFlag
<1>3. k \in {"sender", "receiver"} BY DEF Side
<1>4. c \in Nat BY <1>1, <1>3 DEF Session
<1>5. tt \in Nat BY <1>1, LimitAssumption DEF Session
<1>6. ApplyRelayPhase(x, p, m) =
        [x EXCEPT !.seen = sn, !.candidates = [x.candidates EXCEPT ![k] = c], !.ttl = tt]
  BY DEF ApplyRelayPhase
<1>. HIDE DEF sn, k, c, tt
<1>7. [x.candidates EXCEPT ![k] = c] \in [sender : Nat, receiver : Nat]
  BY <1>1, <1>3, <1>4 DEF Session
<1>8. QED BY <1>1, <1>2, <1>5, <1>6, <1>7 DEF Session

\* The phase of a session in the table may advance.
LEMMA AdvanceGood ==
  ASSUME NEW s, NEW n, NEW x, NEW p, NEW m, Good(s, n), Member(x, n), Alive(s, x)
  PROVE  LET a == [s EXCEPT !.sessions[x.sid] = ApplyRelayPhase(x, p, m)]
         IN  Good(a, n) /\ a.sessions[x.sid] = ApplyRelayPhase(x, p, m)
<1>. DEFINE y == ApplyRelayPhase(x, p, m)
            a == [s EXCEPT !.sessions[x.sid] = y]
<1>1. y \in Session /\ y.sid = x.sid /\ y.code = x.code
      /\ y.sender = x.sender /\ y.receiver = x.receiver
  BY ApplyRelayPhaseType
<1>. HIDE DEF y
<1>2. s \in SState /\ x.sid \in SessionId /\ x.sid # NoSid BY DEF Good, Member, SessionId, NoSid
<1>3. /\ a \in SState /\ a.sessions = [s.sessions EXCEPT ![x.sid] = y]
      /\ a.codes = s.codes /\ a.ws = s.ws /\ a.sid = s.sid /\ a.role = s.role
      /\ a.code = s.code
  BY <1>1, <1>2 DEF SState
<1>. HIDE DEF a
<1>4. /\ a.sessions[x.sid] = y
      /\ \A i \in SessionId : i # x.sid => a.sessions[i] = s.sessions[i]
  BY <1>2, <1>3 DEF SState
<1>5. SL(a, n)
  <2>. SUFFICES ASSUME NEW i \in SessionId, a.sessions[i].sid # NoSid
       PROVE  /\ a.sessions[i].sid = s.sessions[i].sid /\ a.sessions[i].code = s.sessions[i].code
              /\ a.sessions[i].sender = s.sessions[i].sender
              /\ a.sessions[i].receiver = s.sessions[i].receiver
    BY <1>3 DEF Good, SL
  <2>1. QED BY <1>1, <1>4 DEF Alive
<1>6. PL(a)
  <2>. SUFFICES ASSUME NEW q \in Peer, a.sid[q] # NoSid
       PROVE  /\ a.sessions[a.sid[q]].sid = s.sessions[s.sid[q]].sid
              /\ a.sessions[a.sid[q]].sender = s.sessions[s.sid[q]].sender
              /\ a.sessions[a.sid[q]].receiver = s.sessions[s.sid[q]].receiver
    BY <1>3 DEF Good, PL
  <2>1. s.sid[q] \in SessionId BY <1>2, <1>3 DEF SState
  <2>2. QED BY <1>1, <1>3, <1>4, <2>1 DEF Alive
<1>7. CL(a, n) BY <1>3 DEF Good, CL
<1>8. QED BY <1>3, <1>4, <1>5, <1>6, <1>7 DEF Good, a, y

\* The forwarding part of relay.
LEMMA ForwardGood ==
  ASSUME NEW s, NEW n, NEW x, NEW p, NEW m, Good(s, n), Member(x, n), Alive(s, x),
         p \in {x.sender, x.receiver}
  PROVE  Good(Forward(s, x, p, m), n)
<1>. DEFINE target == Other(x, p)
            t == Send(s, target, m)
            y == ApplyRelayPhase(x, p, m)
            a == [t EXCEPT !.sessions[x.sid] = y]
<1>1. target \in {x.sender, x.receiver} /\ target \in Peer BY DEF Other, Member
<1>. HIDE DEF target
<1>2. Good(t, n) BY <1>1, SendGood
<1>3. Tracks(t, x) /\ (t.ws[target] = "open" => Alive(t, x)) BY <1>1, SendTracks DEF Tracks
<1>. HIDE DEF t
<1>4. CASE t.ws[target] # "open"
  <2>1. Good(RelayDeliveryFailed(t, x, p, target, m # "pair-reject"), n)
    BY <1>1, <1>2, <1>3, <1>4, RelayDeliveryFailedGood
  <2>2. QED BY <1>4, <2>1 DEF Forward, t, target
<1>5. CASE t.ws[target] = "open"
  <2>1. Good(a, n) /\ a.sessions[x.sid] = y BY <1>2, <1>3, <1>5, AdvanceGood
  <2>. HIDE DEF a
  <2>2. y \in Session /\ y.sid = x.sid /\ y.code = x.code
        /\ y.sender = x.sender /\ y.receiver = x.receiver
    BY ApplyRelayPhaseType
  <2>. HIDE DEF y
  <2>3. Member(y, n) /\ Tracks(a, y) BY <2>1, <2>2 DEF Member, Tracks, Alive
  <2>4. Good(CloseSessionPeers(a, y), n) BY <2>1, <2>3, CloseSessionPeersGood
  <2>5. CloseSessionPeers(a, x) = CloseSessionPeers(a, y) BY <2>2 DEF CloseSessionPeers
  <2>6. QED BY <1>5, <2>1, <2>4, <2>5 DEF Forward, a, t, y, target
<1>6. QED BY <1>4, <1>5

\* The pair-accept part of relay.
LEMMA AcceptPairGood ==
  ASSUME NEW s, NEW n, NEW x, NEW p, NEW limited, Good(s, n), Member(x, n), Alive(s, x),
         p \in {x.sender, x.receiver}
  PROVE  Good(AcceptPair(s, x, p, limited), n)
<1>. DEFINE ice == Send(s, x.sender, "ice-config")
            acc == Send(ice, x.sender, "pair-accept")
            own == Send(acc, x.receiver, "ice-config")
            done == [own EXCEPT !.sessions[x.sid] = ApplyRelayPhase(x, p, "pair-accept")]
<1>1. x.sender \in Peer /\ x.receiver \in Peer BY DEF Member
<1>2. Good(CloseSessionForTurnRateLimit(s, x), n) BY TurnRateLimitGood DEF Tracks
<1>3. Good(ice, n) BY <1>1, SendGood
<1>4. Tracks(ice, x) /\ (ice.ws[x.sender] = "open" => Alive(ice, x))
  BY SendTracks DEF Tracks
<1>5. ice \in SState BY <1>3 DEF Good
<1>. HIDE DEF ice
<1>6. Good(acc, n) BY <1>1, <1>3, SendGood
<1>7. Tracks(acc, x) BY <1>3, <1>4, SendTracks
<1>8. acc.ws[x.sender] = "open" => Alive(acc, x)
  <2>1. acc.ws[x.sender] = "open" => ice.ws[x.sender] = "open"
    <3>1. Shuts(ice, acc) BY <1>1, <1>3, SendShuts
    <3>2. QED BY ONLY <1>1, <3>1 DEF Shuts
  <2>2. QED BY <1>3, <1>4, <2>1, SendTracks
<1>. HIDE DEF acc
<1>9. acc.ws[x.sender] # "open" => Good(RelayDeliveryFailed(acc, x, p, x.sender, TRUE), n)
  BY <1>6, <1>7, RelayDeliveryFailedGood
<1>10. Good(CloseSessionForTurnRateLimit(acc, x), n) BY <1>6, <1>7, TurnRateLimitGood
<1>11. Good(own, n) BY <1>1, <1>6, SendGood
<1>12. Tracks(own, x) BY <1>6, <1>7, SendTracks
<1>13. acc.ws[x.sender] = "open" /\ own.ws[x.receiver] = "open" => Alive(own, x)
  BY <1>6, <1>7, <1>8, SendTracks
<1>. HIDE DEF own
<1>14. Good(CloseSessionPeers(own, x), n) BY <1>11, <1>12, CloseSessionPeersGood
<1>15. acc.ws[x.sender] = "open" /\ own.ws[x.receiver] = "open" => Good(done, n)
  BY <1>11, <1>13, AdvanceGood
<1>16. QED BY <1>2, <1>9, <1>10, <1>14, <1>15 DEF AcceptPair, done, own, acc, ice

\* connect: a fresh session claims the code of an open waiting receiver.
LEMMA PairedGood ==
  ASSUME NEW s, NEW n, NEW x, Good(s, n), Member(x, n), n.minted \in Nat,
         x.sid = n.minted + 1,
         s.codes[x.code].receiver = x.receiver, s.ws[x.receiver] = "open",
         s.ws[x.sender] = "open", s.sid[x.sender] = NoSid, s.role[x.sender] # "receiver",
         NEW k, k.minted = n.minted + 1, k.accepted = n.accepted
  PROVE  Good(Paired(s, x), k) /\ Alive(Paired(s, x), x)
         /\ Paired(s, x).ws = s.ws
<1>. DEFINE d == DeleteCode(s, x.code)
            e == DropCode(d, x.sender)
            u == Paired(s, x)
<1>1. /\ s \in SState /\ x \in Session /\ x.sid \in SessionId /\ x.code \in Code
      /\ x.sender \in Peer /\ x.receiver \in Peer /\ x.sender # x.receiver
      /\ x.sender # NoPeer /\ x.receiver # NoPeer
  BY PeerAssumption DEF Good, Member
<1>2. Quiet(s, d) /\ d.ws = s.ws /\ d.codes[x.code] = Free BY <1>1, DeleteCodeQuiet
<1>3. d \in SState BY <1>2 DEF Quiet
<1>. HIDE DEF d
<1>4. Quiet(d, e) /\ e.ws = d.ws BY <1>1, <1>3, DropCodeQuiet
<1>. HIDE DEF e
<1>5. Quiet(s, e) /\ e.ws = s.ws /\ e \in SState BY <1>2, <1>4, QuietTrans DEF Quiet
<1>6. Good(e, n) BY <1>5, QuietGood
<1>7. e.sid = s.sid /\ e.role = s.role /\ e.code = s.code /\ e.sessions = s.sessions
  BY <1>5 DEF Quiet
<1>8. e.codes[x.code] = Free BY <1>1, <1>2, <1>4 DEF Quiet
<1>9. /\ u.codes = e.codes /\ u.ws = e.ws
      /\ u.sessions = [e.sessions EXCEPT ![x.sid] = x]
      /\ u.role = [e.role EXCEPT ![x.sender] = "sender"]
      /\ u.sid = [[e.sid EXCEPT ![x.sender] = x.sid] EXCEPT ![x.receiver] = x.sid]
      /\ u.code = [e.code EXCEPT ![x.sender] = x.code]
      /\ u \in SState
  BY <1>1, <1>5 DEF Paired, SState, e, d
<1>. HIDE DEF u
<1>10. s.sid[x.receiver] = NoSid /\ s.role[x.receiver] = "receiver" /\ s.code[x.receiver] = x.code
  BY <1>1 DEF Good, CL
<1>11. /\ u.sid[x.sender] = x.sid /\ u.sid[x.receiver] = x.sid
       /\ u.role[x.sender] = "sender" /\ u.role[x.receiver] = "receiver"
       /\ u.code[x.sender] = x.code /\ u.code[x.receiver] = x.code
       /\ \A q \in Peer : q # x.sender /\ q # x.receiver =>
            u.sid[q] = s.sid[q] /\ u.role[q] = s.role[q] /\ u.code[q] = s.code[q]
  BY <1>1, <1>5, <1>7, <1>9, <1>10 DEF SState
<1>12. /\ u.sessions[x.sid] = x
       /\ \A i \in SessionId : i # x.sid => u.sessions[i] = s.sessions[i]
  BY <1>1, <1>7, <1>9 DEF SState
<1>13. SL(u, k)
  <2>. SUFFICES ASSUME NEW i \in SessionId, u.sessions[i].sid # NoSid
       PROVE  /\ u.sessions[i].sid = i /\ i <= k.minted /\ u.sessions[i].code \in Code
              /\ u.sessions[i].sender \in Peer /\ u.sessions[i].receiver \in Peer
              /\ u.sessions[i].sender \in k.accepted /\ u.sessions[i].receiver \in k.accepted
              /\ u.sessions[i].sender # u.sessions[i].receiver
              /\ u.sid[u.sessions[i].sender] = i /\ u.role[u.sessions[i].sender] = "sender"
              /\ u.code[u.sessions[i].sender] = u.sessions[i].code
              /\ u.sid[u.sessions[i].receiver] = i
              /\ u.role[u.sessions[i].receiver] = "receiver"
              /\ u.code[u.sessions[i].receiver] = u.sessions[i].code
    BY DEF SL
  <2>1. CASE i = x.sid BY <2>1, <1>1, <1>11, <1>12 DEF Member
  <2>2. CASE i # x.sid
    <3>1. u.sessions[i] = s.sessions[i] BY <2>2, <1>12
    <3>2. i # NoSid /\ i \in Nat BY DEF SessionId, NoSid
    <3>3. /\ s.sessions[i].sid = i /\ i <= n.minted /\ s.sessions[i].code \in Code
          /\ s.sessions[i].sender \in Peer /\ s.sessions[i].receiver \in Peer
          /\ s.sessions[i].sender \in n.accepted /\ s.sessions[i].receiver \in n.accepted
          /\ s.sessions[i].sender # s.sessions[i].receiver
          /\ s.sid[s.sessions[i].sender] = i /\ s.role[s.sessions[i].sender] = "sender"
          /\ s.code[s.sessions[i].sender] = s.sessions[i].code
          /\ s.sid[s.sessions[i].receiver] = i
          /\ s.role[s.sessions[i].receiver] = "receiver"
          /\ s.code[s.sessions[i].receiver] = s.sessions[i].code
      BY <3>1 DEF Good, SL
    <3>4. /\ s.sessions[i].sender # x.sender /\ s.sessions[i].sender # x.receiver
          /\ s.sessions[i].receiver # x.sender /\ s.sessions[i].receiver # x.receiver
      BY <1>10, <3>2, <3>3
    <3>5. i <= k.minted BY <3>2, <3>3
    <3>6. QED BY <1>11, <3>1, <3>3, <3>4, <3>5
  <2>3. QED BY <2>1, <2>2
<1>14. PL(u)
  <2>. SUFFICES ASSUME NEW q \in Peer, u.sid[q] # NoSid
       PROVE  /\ u.sessions[u.sid[q]].sid # NoSid
              /\ q = u.sessions[u.sid[q]].sender \/ q = u.sessions[u.sid[q]].receiver
    BY DEF PL
  <2>0. x.sid # NoSid BY <1>1 DEF SessionId, NoSid
  <2>1. CASE q = x.sender \/ q = x.receiver BY <2>0, <2>1, <1>11, <1>12
  <2>2. CASE q # x.sender /\ q # x.receiver
    <3>1. u.sid[q] = s.sid[q] BY <2>2, <1>11
    <3>2. s.sid[q] \in SessionId BY <1>1, <3>1 DEF SState
    <3>3. /\ s.sessions[s.sid[q]].sid # NoSid
          /\ q = s.sessions[s.sid[q]].sender \/ q = s.sessions[s.sid[q]].receiver
      BY <3>1 DEF Good, PL
    <3>4. s.sid[q] <= n.minted BY <3>2, <3>3 DEF Good, SL
    <3>5. s.sid[q] # x.sid BY <3>2, <3>4 DEF SessionId
    <3>6. QED BY <1>12, <3>1, <3>2, <3>3, <3>5
  <2>3. QED BY <2>1, <2>2
<1>15. CL(u, k)
  <2>. SUFFICES ASSUME NEW c \in Code, u.codes[c].receiver # NoPeer
       PROVE  /\ u.codes[c].receiver \in k.accepted /\ u.codes[c].remaining > 0
              /\ u.sid[u.codes[c].receiver] = NoSid
              /\ u.ws[u.codes[c].receiver] = "open" =>
                   u.role[u.codes[c].receiver] = "receiver" /\ u.code[u.codes[c].receiver] = c
    BY DEF CL
  <2>1. u.codes[c] = s.codes[c] /\ c # x.code
    BY <1>5, <1>8, <1>9 DEF Quiet, Free
  <2>2. s.codes[c].receiver \in Peer BY <1>1, <2>1 DEF SState, CodeEntry
  <2>3. /\ s.codes[c].receiver \in n.accepted /\ s.codes[c].remaining > 0
        /\ s.sid[s.codes[c].receiver] = NoSid
        /\ s.ws[s.codes[c].receiver] = "open" =>
             s.role[s.codes[c].receiver] = "receiver" /\ s.code[s.codes[c].receiver] = c
    BY <2>1 DEF Good, CL
  <2>4. s.codes[c].receiver # x.sender /\ s.codes[c].receiver # x.receiver
    BY <1>10, <2>1, <2>3
  <2>5. QED BY <1>5, <1>9, <1>11, <2>1, <2>2, <2>3, <2>4
<1>16. QED BY <1>5, <1>9, <1>12, <1>13, <1>14, <1>15 DEF Good, Alive, u

\* connect: both peers are told, or the claim is undone.
LEMMA AnnounceGood ==
  ASSUME NEW s, NEW n, NEW x, Good(s, n), Member(x, n), Alive(s, x),
         s.ws[x.receiver] = "open", s.ws[x.sender] = "open"
  PROVE  Good(Announce(s, x), n)
<1>. DEFINE r == Send(s, x.receiver, "peer-joined")
            d == DeleteSession(r, x.sid)
            u == Clear(Clear(d, x.sender), x.receiver)
            v == Close(u, x.receiver)
            b == Send(r, x.sender, "peer-joined")
<1>1. x.sender \in Peer /\ x.receiver \in Peer /\ x.sid \in SessionId BY DEF Member
<1>2. Good(r, n) /\ r \in SState BY <1>1, SendGood DEF Good
<1>3. Tracks(r, x) /\ (r.ws[x.receiver] # "open" => Dead(r, x)) BY SendTracks DEF Tracks
<1>. HIDE DEF r
<1>4. CASE r.ws[x.receiver] # "open"
  <2>1. /\ d \in SState /\ d.sessions = [r.sessions EXCEPT ![x.sid] = NoSession]
        /\ d.codes = r.codes /\ d.ws = r.ws /\ d.sid = r.sid /\ d.role = r.role
        /\ d.code = r.code
    BY <1>1, <1>2, DeleteSessionType
  <2>. HIDE DEF d
  <2>2. /\ u \in SState /\ u.codes = d.codes /\ u.sessions = d.sessions /\ u.ws = d.ws
        /\ u.sid[x.sender] = NoSid /\ u.sid[x.receiver] = NoSid
        /\ \A q \in Peer : q # x.sender /\ q # x.receiver =>
             u.sid[q] = d.sid[q] /\ u.role[q] = d.role[q] /\ u.code[q] = d.code[q]
    BY <2>1, ClearBothType
  <2>. HIDE DEF u
  <2>3. Good(u, n)
    <3>1. u.sessions = [r.sessions EXCEPT ![x.sid] = NoSession] BY <2>1, <2>2
    <3>2. \A q \in Peer : q # x.sender /\ q # x.receiver =>
            u.sid[q] = r.sid[q] /\ u.role[q] = r.role[q] /\ u.code[q] = r.code[q]
      BY <2>1, <2>2
    <3>3. u.ws = r.ws /\ u.codes = r.codes BY <2>1, <2>2
    <3>4. u.ws[x.sender] # "open" /\ u.ws[x.receiver] # "open" BY <1>3, <1>4, <3>3 DEF Dead
    <3>5. \A c \in Code : u.codes[c].receiver # NoPeer => u.codes[c].remaining > 0
      BY <1>2, <3>3, AttemptsLeft
    <3>6. QED BY ONLY <1>2, <1>3, <2>2, <3>1, <3>2, <3>3, <3>4, <3>5, Unlink, Member(x, n)
  <2>4. Good(v, n) BY <1>1, <2>2, <2>3, CloseQuiet, QuietGood
  <2>. HIDE DEF v
  <2>5. Good(Fail(v, x.sender), n) BY <1>1, <2>4, SendGood DEF Fail
  <2>6. QED BY <1>4, <2>5 DEF Announce, v, u, d, r
<1>5. CASE r.ws[x.receiver] = "open"
  <2>1. Good(b, n) BY <1>1, <1>2, SendGood
  <2>2. Tracks(b, x) BY <1>2, <1>3, SendTracks
  <2>. HIDE DEF b
  <2>3. Good(RestoreWaitingReceiver(b, x, TRUE), n) BY <2>1, <2>2, RestoreGood
  <2>4. QED BY <1>5, <2>1, <2>3 DEF Announce, b, r
<1>6. QED BY <1>4, <1>5

-----------------------------------------------------------------------------
(* From the variables to the record of a handler and back *)

\* The counters a callback leaves alone while it works on the record.
Now == [minted |-> minted, accepted |-> accepted]

\* The inductive invariant of the registry.
Inv == TypeOK /\ RegistryConsistent

\* A consistent registry stays consistent when only sockets close.
LEMMA SocketsGood ==
  ASSUME NEW s, NEW n, NEW t \in SState, Good(s, n), t.codes = s.codes,
         t.sessions = s.sessions, t.sid = s.sid, t.role = s.role, t.code = s.code,
         \A q \in Peer : t.ws[q] = "open" => s.ws[q] = "open"
  PROVE  Good(t, n)
<1>1. SL(t, n) /\ PL(t) BY DEF Good, SL, PL
<1>2. CL(t, n)
  <2>1. \A c \in Code : t.codes[c].receiver # NoPeer => t.codes[c].receiver \in Peer
    BY DEF SState, CodeEntry
  <2>2. QED BY <2>1 DEF Good, CL
<1>3. QED BY <1>1, <1>2 DEF Good

\* A handler starts from a consistent record.
LEMMA Enter ==
  ASSUME Inv, NEW room \in [Peer -> Nat]
  PROVE  Good(Step(room), Now)
<1>. DEFINE s == Step(room)
<1>1. s \in SState BY DEF Inv, TypeOK, Step, SState
<1>2. /\ s.codes = codes /\ s.sessions = sessions /\ s.ws = ws /\ s.sid = sid
      /\ s.role = role /\ s.code = code
  BY DEF Step
<1>3. Now.minted = minted /\ Now.accepted = accepted BY DEF Now
<1>. HIDE DEF s
<1>4. accepted \subseteq Peer BY DEF Inv, TypeOK
<1>5. SL(s, Now)
  BY <1>2, <1>3, <1>4 DEF Inv, RegistryConsistent, SessionsLinked, LiveSids, SL
<1>6. PL(s) BY <1>2 DEF Inv, RegistryConsistent, PeersLinked, LiveSids, PL
<1>7. CL(s, Now) BY <1>2, <1>3 DEF Inv, RegistryConsistent, CodesLinked, Waiting, CL
<1>8. QED BY <1>1, <1>5, <1>6, <1>7 DEF Good, s

\* What a handler leaves is the consistent next state.
LEMMA Leave ==
  ASSUME NEW s, NEW k, Good(s, k), Become(s), k.minted = minted', k.accepted = accepted',
         minted' \in 0 .. MaxSid, accepted' \subseteq Peer, down' \in BOOLEAN,
         pong' \in [Peer -> BOOLEAN]
  PROVE  Inv'
<1>1. /\ codes' = s.codes /\ sessions' = s.sessions /\ ws' = s.ws /\ sid' = s.sid
      /\ role' = s.role /\ code' = s.code /\ released' = s.released /\ bad' = s.bad /\ idle' = s.idle
      /\ active' = s.active /\ told' = s.told
  BY DEF Become
<1>2. s \in SState /\ SL(s, k) /\ PL(s) /\ CL(s, k) BY DEF Good
<1>3. TypeOK' BY <1>1, <1>2 DEF TypeOK, SState
<1>4. SessionsLinked' BY <1>1, <1>2 DEF SessionsLinked, LiveSids, SL
<1>5. PeersLinked'
  <2>1. \A p \in Peer : s.sid[p] # NoSid => s.sid[p] \in SessionId BY <1>2 DEF SState
  <2>2. QED BY <1>1, <1>2, <2>1 DEF PeersLinked, LiveSids, PL
<1>6. CodesLinked' BY <1>1, <1>2 DEF CodesLinked, Waiting, CL
<1>7. QED BY <1>3, <1>4, <1>5, <1>6 DEF Inv, RegistryConsistent

\* A callback that accepts no connection and mints no session id.
LEMMA Handled ==
  ASSUME Inv, NEW s, Good(s, Now), Become(s), UNCHANGED <<accepted, minted, down>>,
         pong' \in [Peer -> BOOLEAN]
  PROVE  Inv'
<1>1. Now.minted = minted' /\ Now.accepted = accepted' BY DEF Now
<1>2. minted' \in 0 .. MaxSid /\ accepted' \subseteq Peer /\ down' \in BOOLEAN
  BY DEF Inv, TypeOK
<1>3. QED BY <1>1, <1>2, Leave

\* ... and leaves the heartbeat alone.
LEMMA HandledQuietly ==
  ASSUME Inv, NEW s, Good(s, Now), Become(s), UNCHANGED <<pong, accepted, minted, down>>
  PROVE  Inv'
  BY Handled DEF Inv, TypeOK

\* The environment's choices are functions to natural numbers.
LEMMA RoomsType == \A room \in Rooms : room \in [Peer -> Nat]
  BY LimitAssumption DEF Rooms, Room

-----------------------------------------------------------------------------
(* The parts of the remaining handlers *)

\* Closing, releasing and answering by an error.
LEMMA SimpleGood ==
  ASSUME NEW s, NEW n, NEW p \in Peer, Good(s, n)
  PROVE  /\ Good(Close(s, p), n) /\ Good(Release(s, p), n) /\ Good(Fail(s, p), n)
         /\ Good(Shut(s, p), n)
<1>1. s \in SState BY DEF Good
<1>2. Good(Close(s, p), n) BY <1>1, CloseQuiet, QuietGood
<1>3. Good(Release(s, p), n) BY <1>1, ReleaseType, SocketsGood
<1>4. Good(Fail(s, p), n) BY SendGood DEF Fail
<1>5. Quiet(s, Shut(s, p)) BY <1>1 DEF SState, Quiet, Shut
<1>6. QED BY <1>2, <1>3, <1>4, <1>5, QuietGood

\* A waiting code and its receiver's links are dropped together.
LEMMA ForgetGood ==
  ASSUME NEW s, NEW n, NEW c \in Code, NEW r \in Peer, Good(s, n), s.codes[c].receiver = r
  PROVE  Good(Clear(DeleteCode(s, c), r), n)
<1>. DEFINE d == DeleteCode(s, c)
<1>1. s \in SState /\ r # NoPeer BY PeerAssumption DEF Good
<1>2. Quiet(s, d) /\ d.ws = s.ws /\ d.codes[c] = Free BY <1>1, DeleteCodeQuiet
<1>3. Good(d, n) BY <1>2, QuietGood
<1>4. s.sid[r] = NoSid /\ (s.ws[r] = "open" => s.code[r] = c) BY <1>1 DEF Good, CL
<1>. HIDE DEF d
<1>5. d.sid[r] = NoSid BY <1>2, <1>4 DEF Quiet
<1>6. ASSUME d.ws[r] = "open", NEW e \in Code, d.codes[e].receiver = r PROVE FALSE
  <2>1. e # c BY <1>1, <1>2, <1>6 DEF Free
  <2>2. s.codes[e].receiver = r BY <1>1, <1>2, <1>6 DEF Quiet, Free
  <2>3. s.code[r] = e BY <1>1, <1>2, <1>6, <2>2 DEF Good, CL
  <2>4. QED BY <1>2, <1>4, <1>6, <2>1, <2>3
<1>7. QED BY <1>3, <1>5, <1>6, ClearGood DEF d

\* A send to a peer that is in no session only closes its socket and frees its code.
LEMMA SendUnpaired ==
  ASSUME NEW s, NEW n, NEW p \in Peer, NEW m, Good(s, n), s.sid[p] = NoSid
  PROVE  Quiet(s, Send(s, p, m))
<1>. DEFINE d == DropCode(s, p)
<1>1. s \in SState BY DEF Good
<1>2. Quiet(s, s) BY <1>1 DEF Quiet
<1>3. s.room[p] > 0 => Quiet(s, Deliver(s, p, m)) BY <1>1, DeliverQuiet
<1>4. Quiet(s, d) BY <1>1, DropCodeQuiet
<1>5. d \in SState /\ d.sid[p] = NoSid BY <1>4 DEF Quiet
<1>6. CleanupPeer(s, p) = d BY <1>5 DEF CleanupPeer, Live
<1>. HIDE DEF d
<1>7. Quiet(d, Close(d, p)) BY <1>5, CloseQuiet
<1>8. Quiet(s, Close(d, p)) BY <1>4, <1>7, QuietTrans
<1>9. QED BY <1>2, <1>3, <1>6, <1>8 DEF Send

\* A peer in no session is cleared and closed, whatever waits under its name.
LEMMA ClearCloseGood ==
  ASSUME NEW s, NEW n, NEW p \in Peer, Good(s, n), s.sid[p] = NoSid
  PROVE  Good(Close(Clear(s, p), p), n)
<1>. DEFINE a == Clear(s, p)
            v == Close(a, p)
            z == Shut(s, p)
            y == Clear(z, p)
<1>1. s \in SState BY DEF Good
<1>2. /\ a \in SState /\ a.codes = s.codes /\ a.sessions = s.sessions /\ a.ws = s.ws
      /\ a.sid = [s.sid EXCEPT ![p] = NoSid] /\ a.code = [s.code EXCEPT ![p] = NoCode]
      /\ a.role = [s.role EXCEPT ![p] = "none"]
  BY <1>1, ClearType
<1>. HIDE DEF a
<1>3. Quiet(a, v) /\ v.ws[p] # "open" /\ v.codes = a.codes
      /\ \A q \in Peer : q # p => v.ws[q] = a.ws[q]
  BY <1>2, CloseQuiet
<1>. HIDE DEF v
<1>4. Good(z, n) BY SimpleGood
<1>5. /\ z.ws[p] # "open" /\ (\A q \in Peer : q # p => z.ws[q] = s.ws[q])
      /\ z.codes = s.codes /\ z.sessions = s.sessions /\ z.sid = s.sid
      /\ z.code = s.code /\ z.role = s.role /\ z \in SState
  BY <1>1 DEF Shut, SState
<1>. HIDE DEF z
<1>6. Good(y, n) BY <1>4, <1>5, ClearGood
<1>7. /\ y.codes = z.codes /\ y.sessions = z.sessions /\ y.ws = z.ws
      /\ y.sid = [z.sid EXCEPT ![p] = NoSid] /\ y.code = [z.code EXCEPT ![p] = NoCode]
      /\ y.role = [z.role EXCEPT ![p] = "none"]
  BY <1>5, ClearType
<1>. HIDE DEF y
<1>8. /\ v \in SState /\ v.codes = y.codes /\ v.sessions = y.sessions /\ v.sid = y.sid
      /\ v.role = y.role /\ v.code = y.code
  BY <1>2, <1>3, <1>5, <1>7 DEF Quiet
<1>9. \A q \in Peer : v.ws[q] = "open" => y.ws[q] = "open" BY <1>2, <1>3, <1>5, <1>7
<1>10. QED BY <1>6, <1>8, <1>9, SocketsGood DEF v, a

\* register: the peer waits under a free code and nowhere else.
LEMMA RegisterGood ==
  ASSUME NEW s, NEW n, NEW p \in Peer, NEW c \in Code, Good(s, n), s.ws[p] = "open",
         s.sid[p] = NoSid, p \in n.accepted, s.codes[c].receiver = NoPeer
  PROVE  Good([DropCode(s, p) EXCEPT !.role[p] = "receiver", !.code[p] = c, !.idle[p] = FALSE,
                 !.codes[c] = [receiver |-> p, ttl |-> CodeTtl,
                               remaining |-> MaxPrePairAttempts]], n)
<1>. DEFINE d == DropCode(s, p)
            e == [receiver |-> p, ttl |-> CodeTtl, remaining |-> MaxPrePairAttempts]
            t == [d EXCEPT !.role[p] = "receiver", !.code[p] = c, !.idle[p] = FALSE,
                           !.codes[c] = e]
<1>1. s \in SState /\ p # NoPeer BY PeerAssumption DEF Good
<1>2. e \in CodeEntry /\ e.receiver = p /\ e.remaining > 0 BY LimitAssumption DEF CodeEntry
<1>. HIDE DEF e
<1>3. Quiet(s, d) /\ d.ws = s.ws BY <1>1, DropCodeQuiet
<1>4. Good(d, n) /\ d \in SState BY <1>3, QuietGood DEF Good
<1>5. d.sid = s.sid BY <1>3 DEF Quiet
<1>6. \A b \in Code : d.codes[b].receiver # p
  <2>. SUFFICES ASSUME NEW b \in Code, d.codes[b].receiver = p PROVE FALSE OBVIOUS
  <2>1. s.codes[b].receiver = p /\ d.codes[b] = s.codes[b]
    BY <1>1, <1>3 DEF Quiet, Free
  <2>2. s.code[p] = b BY <1>1, <2>1 DEF Good, CL
  <2>3. OwnsCode(s, p) BY <2>1, <2>2, CodeAssumption DEF OwnsCode
  <2>4. d = DeleteCode(s, b) BY <2>2, <2>3 DEF DropCode
  <2>5. d.codes[b] = Free BY <1>1, <2>4, DeleteCodeQuiet
  <2>6. QED BY <1>1, <2>5 DEF Free
<1>. HIDE DEF d
<1>7. /\ t \in SState /\ t.ws = d.ws /\ t.sid = d.sid /\ t.sessions = d.sessions
      /\ t.role = [d.role EXCEPT ![p] = "receiver"] /\ t.code = [d.code EXCEPT ![p] = c]
      /\ t.codes = [d.codes EXCEPT ![c] = e]
  BY <1>2, <1>4 DEF SState
<1>. HIDE DEF t
<1>8. /\ t.role[p] = "receiver" /\ t.code[p] = c /\ t.codes[c] = e
      /\ \A q \in Peer : q # p => t.role[q] = d.role[q] /\ t.code[q] = d.code[q]
      /\ \A b \in Code : b # c => t.codes[b] = d.codes[b]
  BY <1>4, <1>7 DEF SState
<1>9. SL(t, n)
  <2>. SUFFICES ASSUME NEW i \in SessionId, t.sessions[i].sid # NoSid
       PROVE  /\ t.sessions[i].sender # p /\ t.sessions[i].receiver # p
    BY <1>4, <1>7, <1>8 DEF Good, SL
  <2>1. i # NoSid BY DEF SessionId, NoSid
  <2>2. QED BY <1>4, <1>5, <1>7, <2>1 DEF Good, SL
<1>10. PL(t) BY <1>4, <1>7 DEF Good, PL
<1>11. CL(t, n)
  <2>. SUFFICES ASSUME NEW b \in Code, t.codes[b].receiver # NoPeer
       PROVE  /\ t.codes[b].receiver \in n.accepted /\ t.codes[b].remaining > 0
              /\ t.sid[t.codes[b].receiver] = NoSid
              /\ t.ws[t.codes[b].receiver] = "open" =>
                   t.role[t.codes[b].receiver] = "receiver" /\ t.code[t.codes[b].receiver] = b
    BY DEF CL
  <2>1. CASE b = c BY <1>2, <1>5, <1>7, <1>8, <2>1
  <2>2. CASE b # c
    <3>1. t.codes[b] = d.codes[b] BY <1>8, <2>2
    <3>2. d.codes[b].receiver \in Peer BY <1>4, <3>1 DEF SState, CodeEntry
    <3>3. d.codes[b].receiver # p BY <1>6
    <3>4. QED BY <1>4, <1>7, <1>8, <3>1, <3>2, <3>3 DEF Good, CL
  <2>3. QED BY <2>1, <2>2
<1>12. QED BY <1>7, <1>9, <1>10, <1>11 DEF Good, t, d, e

\* The socket of a connection no code and no session knows may open.
LEMMA OpenGood ==
  ASSUME NEW s, NEW n, NEW k, NEW t \in SState, NEW p \in Peer, Good(s, n),
         p \notin n.accepted, k.minted = n.minted, k.accepted = n.accepted \cup {p},
         t.codes = s.codes, t.sessions = s.sessions, t.sid = s.sid, t.role = s.role,
         t.code = s.code, \A q \in Peer : q # p /\ t.ws[q] = "open" => s.ws[q] = "open"
  PROVE  Good(t, k)
<1>1. SL(t, k) BY DEF Good, SL
<1>2. PL(t) BY DEF Good, PL
<1>3. CL(t, k)
  <2>1. \A c \in Code : t.codes[c].receiver # NoPeer =>
          t.codes[c].receiver \in Peer /\ t.codes[c].receiver # p
    BY DEF SState, CodeEntry, Good, CL
  <2>2. QED BY <2>1 DEF Good, CL
<1>4. QED BY <1>1, <1>2, <1>3 DEF Good

-----------------------------------------------------------------------------
(* One step per action *)

\* The callbacks of a connection's socket.
LEMMA SocketStep ==
  ASSUME Inv, NEW p \in Peer, Socket(p)
  PROVE  Inv'
<1>. USE RoomsType
<1>1. CASE Connection(p)
  <2>1. PICK room \in Rooms :
          LET s == [Step(room) EXCEPT !.ws[p] = "open", !.active[IpOf[p]] = @ + 1]
          IN  Become(IF s.active[IpOf[p]] > MaxConnectionsPerIp
                     THEN Close(Fail(s, p), p) ELSE [s EXCEPT !.idle[p] = TRUE])
    BY <1>1 DEF Connection
  <2>. DEFINE b == Step(room)
              s == [b EXCEPT !.ws[p] = "open", !.active[IpOf[p]] = b.active[IpOf[p]] + 1]
              t == [s EXCEPT !.idle[p] = TRUE]
              k == [minted |-> minted, accepted |-> accepted \cup {p}]
  <2>2. Good(b, Now) /\ b \in SState BY Enter DEF Good
  <2>3. b.active \in [Ip -> Nat] /\ IpOf[p] \in Ip BY <2>2, IpAssumption DEF SState
  <2>. HIDE DEF b
  <2>4. b.active[IpOf[p]] + 1 \in Nat BY <2>3
  <2>5. [b.active EXCEPT ![IpOf[p]] = b.active[IpOf[p]] + 1] \in [Ip -> Nat] BY <2>3, <2>4
  <2>6. /\ s \in SState /\ s.codes = b.codes /\ s.sessions = b.sessions /\ s.sid = b.sid
        /\ s.role = b.role /\ s.code = b.code
        /\ \A q \in Peer : q # p => s.ws[q] = b.ws[q]
    BY <2>2, <2>5 DEF SState
  <2>. HIDE DEF s
  <2>7. p \notin Now.accepted /\ k.minted = Now.minted /\ k.accepted = Now.accepted \cup {p}
    BY <1>1 DEF Connection, Now
  <2>. HIDE DEF k
  <2>8. Good(s, k) BY <2>2, <2>6, <2>7, OpenGood
  <2>9. Good(Close(Fail(s, p), p), k) BY <2>8, SimpleGood
  <2>10. k.minted = minted' /\ k.accepted = accepted' BY <1>1 DEF Connection, k
  <2>11. minted' \in 0 .. MaxSid /\ accepted' \subseteq Peer /\ down' \in BOOLEAN
         /\ pong' \in [Peer -> BOOLEAN]
    BY <1>1 DEF Connection, Inv, TypeOK
  <2>12. Become(t) \/ Become(Close(Fail(s, p), p)) BY <2>1 DEF s, b
  <2>13. Quiet(s, t) BY <2>6 DEF SState, Quiet
  <2>14. Good(t, k) BY <2>8, <2>13, QuietGood
  <2>. HIDE DEF t
  <2>15. QED BY <2>9, <2>10, <2>11, <2>12, <2>14, Leave
<1>2. CASE CloseEvent(p)
  <2>1. PICK room \in Rooms :
          Become(CleanupPeer(Release([Step(room) EXCEPT !.ws[p] = "closed"], p), p))
    BY <1>2 DEF CloseEvent
  <2>. DEFINE b == Step(room)
              s == [b EXCEPT !.ws[p] = "closed"]
  <2>2. Good(b, Now) /\ b \in SState BY Enter DEF Good
  <2>. HIDE DEF b
  <2>3. /\ s \in SState /\ s.codes = b.codes /\ s.sessions = b.sessions /\ s.sid = b.sid
        /\ s.role = b.role /\ s.code = b.code
        /\ \A q \in Peer : s.ws[q] = "open" => b.ws[q] = "open"
    BY <2>2 DEF SState
  <2>. HIDE DEF s
  <2>4. Good(s, Now) BY <2>2, <2>3, SocketsGood
  <2>5. Good(CleanupPeer(Release(s, p), p), Now) BY <2>4, SimpleGood, CleanupGood
  <2>6. Become(CleanupPeer(Release(s, p), p)) BY <2>1 DEF s, b
  <2>7. QED BY <1>2, <2>5, <2>6, HandledQuietly DEF CloseEvent
<1>3. CASE SocketError(p)
  <2>1. PICK room \in Rooms : Become(Release(CleanupPeer(Shut(Step(room), p), p), p))
    BY <1>3 DEF SocketError
  <2>2. Good(Step(room), Now) BY Enter
  <2>3. Good(Release(CleanupPeer(Shut(Step(room), p), p), p), Now)
    BY <2>2, SimpleGood, CleanupGood
  <2>4. QED BY <1>3, <2>1, <2>3, HandledQuietly DEF SocketError
<1>4. CASE RemoteClose(p)
  <2>. DEFINE room == [q \in Peer |-> 0]
              b == Step(room)
              s == [b EXCEPT !.ws[p] = "closing"]
  <2>1. Good(b, Now) /\ b \in SState BY Enter DEF Good
  <2>2. Become(s) BY <1>4 DEF RemoteClose, Become, Step
  <2>. HIDE DEF b
  <2>3. /\ s \in SState /\ s.codes = b.codes /\ s.sessions = b.sessions /\ s.sid = b.sid
        /\ s.role = b.role /\ s.code = b.code
        /\ \A q \in Peer : s.ws[q] = "open" => b.ws[q] = "open"
    BY <2>1 DEF SState
  <2>. HIDE DEF s
  <2>4. Good(s, Now) BY <2>1, <2>3, SocketsGood
  <2>5. QED BY <1>4, <2>2, <2>4, HandledQuietly DEF RemoteClose
<1>5. CASE IdleTimeout(p)
  <2>1. [q \in Peer |-> MaxSends] \in [Peer -> Nat] BY LimitAssumption
  <2>2. Good(Current, Now) BY <2>1, Enter DEF Current
  <2>3. Good(Close(Current, p), Now) BY <2>2, SimpleGood
  <2>4. QED BY <1>5, <2>3, HandledQuietly DEF IdleTimeout
<1>6. ASSUME pong' \in [Peer -> BOOLEAN],
             UNCHANGED <<codes, sessions, ws, released, role, sid, code, bad, idle, active,
                         told, accepted, minted, down>>
      PROVE  Inv'
  <2>. DEFINE b == Step([q \in Peer |-> 0])
  <2>1. Good(b, Now) BY Enter
  <2>2. Become(b) BY <1>6 DEF Become, Step
  <2>. HIDE DEF b
  <2>3. QED BY <1>6, <2>1, <2>2, Handled
<1>7. CASE HeartbeatPing(p) \/ Pong(p)
  <2>1. pong' \in [Peer -> BOOLEAN] BY <1>7 DEF HeartbeatPing, Pong, Inv, TypeOK
  <2>2. QED BY <1>6, <1>7, <2>1 DEF HeartbeatPing, Pong
<1>8. CASE HeartbeatTimeout(p) \/ HeartbeatError(p)
  <2>1. PICK room \in Rooms : Become(Terminate(Step(room), p))
    BY <1>8 DEF HeartbeatTimeout, HeartbeatError
  <2>2. Good(Step(room), Now) BY Enter
  <2>3. Good(Terminate(Step(room), p), Now) BY <2>2, SimpleGood, CleanupGood DEF Terminate
  <2>4. pong' \in [Peer -> BOOLEAN]
    BY <1>8 DEF HeartbeatTimeout, HeartbeatError, Inv, TypeOK
  <2>5. UNCHANGED <<accepted, minted, down>> BY <1>8 DEF HeartbeatTimeout, HeartbeatError
  <2>6. QED BY <2>1, <2>3, <2>4, <2>5, Handled
<1>9. QED BY <1>1, <1>2, <1>3, <1>4, <1>5, <1>7, <1>8 DEF Socket

\* register.
LEMMA RegisterStep ==
  ASSUME Inv, NEW p \in Peer, NEW c \in Code,
         RegisterAgain(p, c) \/ RegisterExpired(p, c) \/ RegisterFresh(p, c)
           \/ RegisterRefused(p, c)
  PROVE  Inv'
<1>. USE RoomsType
<1>1. CASE RegisterAgain(p, c)
  <2>1. PICK room \in Rooms :
          Become(Send([Step(room) EXCEPT !.role[p] = "receiver", !.code[p] = c,
                                         !.idle[p] = FALSE], p, "registered"))
    BY <1>1 DEF RegisterAgain
  <2>. DEFINE b == Step(room)
              s == [b EXCEPT !.role[p] = "receiver", !.code[p] = c, !.idle[p] = FALSE]
  <2>2. Good(b, Now) /\ b \in SState BY Enter DEF Good
  <2>3. b.codes[c].receiver = p /\ b.ws[p] = "open" BY <1>1 DEF RegisterAgain, Available, Step
  <2>. HIDE DEF b
  <2>4. b.role[p] = "receiver" /\ b.code[p] = c BY <2>2, <2>3, PeerAssumption DEF Good, CL
  <2>5. Quiet(b, s)
    <3>1. /\ s \in SState /\ s.sessions = b.sessions /\ s.sid = b.sid /\ s.ws = b.ws
          /\ s.codes = b.codes /\ s.role = [b.role EXCEPT ![p] = "receiver"]
          /\ s.code = [b.code EXCEPT ![p] = c]
      BY <2>2 DEF SState
    <3>2. s.role = b.role /\ s.code = b.code BY <2>2, <2>4, <3>1 DEF SState
    <3>3. QED BY <3>1, <3>2 DEF Quiet
  <2>. HIDE DEF s
  <2>6. Good(Send(s, p, "registered"), Now) BY <2>2, <2>5, QuietGood, SendGood
  <2>7. Become(Send(s, p, "registered")) BY <2>1 DEF s, b
  <2>8. QED BY <1>1, <2>6, <2>7, HandledQuietly DEF RegisterAgain
<1>2. CASE RegisterExpired(p, c)
  <2>1. PICK room \in Rooms : Become(Close(Fail(Clear(DeleteCode(Step(room), c), p), p), p))
    BY <1>2 DEF RegisterExpired
  <2>2. Good(Step(room), Now) BY Enter
  <2>3. Step(room).codes[c].receiver = p BY <1>2 DEF RegisterExpired, Step
  <2>4. Good(Clear(DeleteCode(Step(room), c), p), Now) BY <2>2, <2>3, ForgetGood
  <2>5. Good(Close(Fail(Clear(DeleteCode(Step(room), c), p), p), p), Now)
    BY <2>4, SimpleGood
  <2>6. QED BY <1>2, <2>1, <2>5, HandledQuietly DEF RegisterExpired
<1>3. CASE RegisterFresh(p, c)
  <2>1. PICK room \in Rooms :
          Become(Send([DropCode(Step(room), p) EXCEPT
                         !.role[p] = "receiver", !.code[p] = c, !.idle[p] = FALSE,
                         !.codes[c] = [receiver |-> p, ttl |-> CodeTtl,
                                       remaining |-> MaxPrePairAttempts]],
                      p, "registered"))
    BY <1>3 DEF RegisterFresh
  <2>. DEFINE b == Step(room)
              s == [DropCode(b, p) EXCEPT
                      !.role[p] = "receiver", !.code[p] = c, !.idle[p] = FALSE,
                      !.codes[c] = [receiver |-> p, ttl |-> CodeTtl,
                                    remaining |-> MaxPrePairAttempts]]
  <2>2. Good(b, Now) BY Enter
  <2>3. /\ b.ws[p] = "open" /\ b.sid[p] = NoSid /\ p \in Now.accepted
        /\ b.codes[c].receiver = NoPeer
    BY <1>3 DEF RegisterFresh, MayRegister, Accepts, Step, Now
  <2>. HIDE DEF b
  <2>4. Good(s, Now) BY <2>2, <2>3, RegisterGood
  <2>5. Become(Send(s, p, "registered")) BY <2>1 DEF b
  <2>. HIDE DEF s
  <2>6. Good(Send(s, p, "registered"), Now) BY <2>4, SendGood
  <2>7. QED BY <1>3, <2>5, <2>6, HandledQuietly DEF RegisterFresh
<1>4. CASE RegisterRefused(p, c)
  <2>1. PICK room \in Rooms : Become(Fail(Step(room), p)) BY <1>4 DEF RegisterRefused
  <2>2. Good(Fail(Step(room), p), Now) BY Enter, SimpleGood
  <2>3. QED BY <1>4, <2>1, <2>2, HandledQuietly DEF RegisterRefused
<1>5. QED BY <1>1, <1>2, <1>3, <1>4

\* connect.
LEMMA ConnectStep ==
  ASSUME Inv, NEW p \in Peer, NEW c \in Code,
         ConnectExpired(p, c) \/ ConnectRefused(p, c) \/ Connect(p, c)
  PROVE  Inv'
<1>. USE RoomsType
<1>1. CASE ConnectExpired(p, c)
  <2>. DEFINE r == codes[c].receiver
  <2>1. PICK room \in Rooms :
          Become(Fail(Close(Fail(Clear(DeleteCode(Step(room), c), r), r), r), p))
    BY <1>1 DEF ConnectExpired
  <2>2. Good(Step(room), Now) BY Enter
  <2>3. r \in Peer /\ Step(room).codes[c].receiver = r
    BY <1>1 DEF ConnectExpired, Step, Inv, TypeOK, CodeEntry
  <2>. HIDE DEF r
  <2>4. Good(Clear(DeleteCode(Step(room), c), r), Now) BY <2>2, <2>3, ForgetGood
  <2>5. Good(Fail(Close(Fail(Clear(DeleteCode(Step(room), c), r), r), r), p), Now)
    BY <2>3, <2>4, SimpleGood
  <2>6. QED BY <1>1, <2>1, <2>5, HandledQuietly DEF ConnectExpired
<1>2. CASE ConnectRefused(p, c)
  <2>1. PICK room \in Rooms : Become(Fail(Step(room), p)) BY <1>2 DEF ConnectRefused
  <2>2. Good(Fail(Step(room), p), Now) BY Enter, SimpleGood
  <2>3. QED BY <1>2, <2>1, <2>2, HandledQuietly DEF ConnectRefused
<1>3. CASE Connect(p, c)
  <2>. DEFINE x == NewSession(p, c, minted + 1)
              k == [minted |-> minted + 1, accepted |-> accepted]
  <2>1. PICK room \in Rooms : Become(Announce(Paired(Step(room), x), x))
    BY <1>3 DEF Connect
  <2>. DEFINE s == Step(room)
              u == Paired(s, x)
  <2>2. Good(s, Now) BY Enter
  <2>3. /\ minted \in Nat /\ minted + 1 \in SessionId /\ minted' = minted + 1
        /\ codes[c] \in CodeEntry
    BY <1>3, LimitAssumption DEF Connect, Inv, TypeOK, SessionId
  <2>4. codes[c].receiver \in Peer /\ codes[c].receiver # p
    BY <1>3, <2>3 DEF Connect, CodeEntry
  <2>5. codes[c].receiver \in accepted /\ codes[c].remaining - 1 \in Nat
    BY <2>3, <2>4, PeerAssumption
    DEF Inv, RegistryConsistent, CodesLinked, Waiting, CodeEntry
  <2>6. /\ ws[p] = "open" /\ p \in accepted /\ sid[p] = NoSid /\ role[p] # "receiver"
        /\ ws[codes[c].receiver] = "open"
    BY <1>3 DEF Connect, MayConnect, Accepts, Available
  <2>7. /\ x.sid = minted + 1 /\ x.code = c /\ x.sender = p /\ x.receiver = codes[c].receiver
        /\ x \in Session
    <3>. DEFINE e == codes[c]
    <3>1. e.ttl \in Nat /\ PakeTimeout \in Nat /\ minted + 1 \in Nat
      BY <2>3, LimitAssumption DEF CodeEntry
    <3>2. x = [NoSession EXCEPT
                 !.sid = minted + 1, !.code = c, !.codeTtl = e.ttl, !.sender = p,
                 !.receiver = e.receiver, !.ttl = PakeTimeout,
                 !.remaining = e.remaining - 1]
      BY DEF NewSession
    <3>3. e.receiver \in Peer /\ e.remaining - 1 \in Nat BY <2>4, <2>5
    <3>4. NoSession \in Session BY EmptyEntries
    <3>. HIDE DEF x, e
    <3>5. x \in Session BY <3>1, <3>2, <3>3, <3>4 DEF Session
    <3>6. /\ x.sid = minted + 1 /\ x.code = c /\ x.sender = p /\ x.receiver = e.receiver
      BY <3>2, <3>4 DEF Session
    <3>7. QED BY <3>5, <3>6 DEF e
  <2>. HIDE DEF x
  <2>8. Member(x, Now) /\ Member(x, k) BY <2>3, <2>4, <2>5, <2>6, <2>7 DEF Member, Now
  <2>9. /\ s.codes[x.code].receiver = x.receiver /\ s.ws[x.receiver] = "open"
        /\ s.ws[x.sender] = "open" /\ s.sid[x.sender] = NoSid
        /\ s.role[x.sender] # "receiver"
    BY <2>6, <2>7 DEF Step
  <2>10. /\ Now.minted \in Nat /\ x.sid = Now.minted + 1 /\ k.minted = Now.minted + 1
         /\ k.accepted = Now.accepted
    BY <2>3, <2>7 DEF Now
  <2>. HIDE DEF k, s
  <2>11. Good(u, k) /\ Alive(u, x) /\ u.ws = s.ws BY <2>2, <2>8, <2>9, <2>10, PairedGood
  <2>. HIDE DEF u
  <2>12. Good(Announce(u, x), k) BY <2>8, <2>9, <2>11, AnnounceGood
  <2>13. k.minted = minted' /\ k.accepted = accepted' BY <1>3 DEF Connect, k
  <2>14. minted' \in 0 .. MaxSid /\ accepted' \subseteq Peer /\ down' \in BOOLEAN
         /\ pong' \in [Peer -> BOOLEAN]
    BY <1>3, <2>3 DEF Connect, Inv, TypeOK, SessionId
  <2>15. Become(Announce(u, x)) BY <2>1 DEF u, s
  <2>16. QED BY <2>12, <2>13, <2>14, <2>15, Leave
<1>4. QED BY <1>1, <1>2, <1>3

\* relay.
LEMMA RelayStep ==
  ASSUME Inv, NEW p \in Peer, NEW i \in SessionId, NEW m,
         RelayPairAccept(p, i) \/ RelayRejected(p, i, m) \/ RelayUndeliverable(p, i, m)
           \/ RelayForward(p, i, m)
  PROVE  Inv'
<1>. USE RoomsType
<1>. DEFINE x == sessions[i]
<1>1. p \in {x.sender, x.receiver} /\ x.sid # NoSid
  BY DEF RelayPairAccept, RelayRejected, RelayUndeliverable, RelayForward, InSession, LiveSids
<1>2. ASSUME NEW room \in Rooms
      PROVE  /\ Good(Step(room), Now) /\ Step(room).ws = ws
             /\ Member(x, Now) /\ Alive(Step(room), x)
  <2>1. Good(Step(room), Now) BY Enter
  <2>2. Step(room).sessions[i] = x /\ Step(room).ws = ws BY DEF Step
  <2>3. QED BY <1>1, <2>1, <2>2, LiveMember
<1>. HIDE DEF x
<1>3. CASE RelayRejected(p, i, m)
  <2>1. PICK room \in Rooms : Become(IF p = x.sender /\ ~Decided(x)
                                     THEN RejectPrePairSender(Step(room), x, p)
                                     ELSE BadMessage(Step(room), p))
    BY <1>3 DEF RelayRejected, x
  <2>. DEFINE s == Step(room)
  <2>2. Good(s, Now) /\ Member(x, Now) /\ Tracks(s, x) BY <1>2 DEF Tracks
  <2>. HIDE DEF s
  <2>3. Good(RejectPrePairSender(s, x, p), Now) BY <1>1, <2>2, RejectPrePairSenderGood
  <2>4. Good(BadMessage(s, p), Now) BY <2>2, BadMessageGood
  <2>5. Become(RejectPrePairSender(s, x, p)) \/ Become(BadMessage(s, p)) BY <2>1 DEF s
  <2>6. QED BY <1>3, <2>3, <2>4, <2>5, HandledQuietly DEF RelayRejected
<1>4. CASE RelayUndeliverable(p, i, m)
  <2>. DEFINE target == Other(x, p)
              restore == m # "pair-reject"
  <2>1. PICK room \in Rooms :
          Become(RelayDeliveryFailed(Step(room), x, p, target, restore))
    BY <1>4 DEF RelayUndeliverable, x
  <2>. DEFINE s == Step(room)
  <2>2. Good(s, Now) /\ Member(x, Now) /\ Tracks(s, x) /\ s.ws = ws BY <1>2 DEF Tracks
  <2>3. ws[target] # "open" BY <1>4 DEF RelayUndeliverable, x
  <2>4. target \in {x.sender, x.receiver} BY DEF Other
  <2>5. restore \in BOOLEAN OBVIOUS
  <2>6. Become(RelayDeliveryFailed(s, x, p, target, restore)) BY <2>1
  <2>. HIDE DEF s, target, restore
  <2>7. Good(RelayDeliveryFailed(s, x, p, target, restore), Now)
    BY <1>1, <2>2, <2>3, <2>4, <2>5, RelayDeliveryFailedGood
  <2>8. QED BY <1>4, <2>6, <2>7, HandledQuietly DEF RelayUndeliverable
<1>5. CASE RelayForward(p, i, m)
  <2>1. PICK room \in Rooms : Become(Forward(Step(room), x, p, m))
    BY <1>5 DEF RelayForward, x
  <2>2. Good(Forward(Step(room), x, p, m), Now) BY <1>1, <1>2, ForwardGood
  <2>3. QED BY <1>5, <2>1, <2>2, HandledQuietly DEF RelayForward
<1>6. CASE RelayPairAccept(p, i)
  <2>1. PICK room \in Rooms, limited \in {NoPeer, x.sender, x.receiver} :
          Become(AcceptPair(Step(room), x, p, limited))
    BY <1>6 DEF RelayPairAccept, x
  <2>2. Good(AcceptPair(Step(room), x, p, limited), Now) BY <1>1, <1>2, AcceptPairGood
  <2>3. QED BY <1>6, <2>1, <2>2, HandledQuietly DEF RelayPairAccept
<1>7. QED BY <1>3, <1>4, <1>5, <1>6

\* The messages that are neither register, connect nor relay.
LEMMA OtherMessageStep ==
  ASSUME Inv, NEW p \in Peer,
         \/ MessageLimit(p) \/ Malformed(p) \/ Refused(p)
         \/ RetryWaiting(p) \/ RetryPaired(p) \/ Bye(p)
  PROVE  Inv'
<1>. USE RoomsType
<1>1. CASE MessageLimit(p)
  <2>1. PICK room \in Rooms : Become(Close(Fail(Step(room), p), p)) BY <1>1 DEF MessageLimit
  <2>2. Good(Close(Fail(Step(room), p), p), Now) BY Enter, SimpleGood
  <2>3. QED BY <1>1, <2>1, <2>2, HandledQuietly DEF MessageLimit
<1>2. CASE Malformed(p)
  <2>1. PICK room \in Rooms : Become(BadMessage(Step(room), p)) BY <1>2 DEF Malformed
  <2>2. Good(BadMessage(Step(room), p), Now) BY Enter, BadMessageGood
  <2>3. QED BY <1>2, <2>1, <2>2, HandledQuietly DEF Malformed
<1>3. CASE Refused(p)
  <2>1. PICK room \in Rooms : Become(Fail(Step(room), p)) BY <1>3 DEF Refused
  <2>2. Good(Fail(Step(room), p), Now) BY Enter, SimpleGood
  <2>3. QED BY <1>3, <2>1, <2>2, HandledQuietly DEF Refused
<1>4. CASE RetryWaiting(p)
  <2>. DEFINE c == code[p]
  <2>1. PICK room \in Rooms :
          Become(IF Available(c) THEN Send(Step(room), p, "registered")
                 ELSE Close(Fail(Clear(DeleteCode(Step(room), c), p), p), p))
    BY <1>4 DEF RetryWaiting
  <2>. DEFINE s == Step(room)
              w == Close(Fail(Clear(DeleteCode(s, c), p), p), p)
  <2>2. Good(s, Now) BY Enter
  <2>3. c \in Code /\ s.codes[c].receiver = p
    BY <1>4 DEF RetryWaiting, OwnsCode, Current, Step, Inv, TypeOK
  <2>4. Become(Send(s, p, "registered")) \/ Become(w) BY <2>1
  <2>. HIDE DEF c, s
  <2>5. Good(w, Now) BY <2>2, <2>3, ForgetGood, SimpleGood
  <2>. HIDE DEF w
  <2>6. Good(Send(s, p, "registered"), Now) BY <2>2, SendGood
  <2>7. QED BY <1>4, <2>4, <2>5, <2>6, HandledQuietly DEF RetryWaiting
<1>5. CASE RetryPaired(p)
  <2>. DEFINE x == sessions[sid[p]]
  <2>1. PICK room \in Rooms : Become(RestoreWaitingReceiver(Step(room), x, FALSE))
    BY <1>5 DEF RetryPaired
  <2>. DEFINE s == Step(room)
  <2>2. Good(s, Now) BY Enter
  <2>3. s.sessions[sid[p]] = x /\ sid[p] \in SessionId /\ x.sid # NoSid
    BY <1>5 DEF RetryPaired, LiveSids, Step
  <2>. HIDE DEF s, x
  <2>4. Member(x, Now) /\ Tracks(s, x) BY <2>2, <2>3, LiveMember DEF Tracks
  <2>5. Good(RestoreWaitingReceiver(s, x, FALSE), Now) BY <2>2, <2>4, RestoreGood
  <2>6. Become(RestoreWaitingReceiver(s, x, FALSE)) BY <2>1 DEF s
  <2>7. QED BY <1>5, <2>5, <2>6, HandledQuietly DEF RetryPaired
<1>6. CASE Bye(p)
  <2>1. PICK room \in Rooms : Become(Close(CleanupPeer(Step(room), p), p)) BY <1>6 DEF Bye
  <2>2. Good(Close(CleanupPeer(Step(room), p), p), Now) BY Enter, CleanupGood, SimpleGood
  <2>3. QED BY <1>6, <2>1, <2>2, HandledQuietly DEF Bye
<1>7. QED BY <1>1, <1>2, <1>3, <1>4, <1>5, <1>6

\* A tick shortens deadlines and nothing else.
LEMMA TickStep ==
  ASSUME Inv, Tick
  PROVE  Inv'
<1>1. \A k \in Nat : TickDown(k) \in Nat BY DEF TickDown
<1>2. ASSUME NEW c \in Code
      PROVE  /\ codes'[c] \in CodeEntry /\ codes'[c].receiver = codes[c].receiver
             /\ codes'[c].remaining = codes[c].remaining
  <2>1. codes[c] \in CodeEntry BY DEF Inv, TypeOK
  <2>2. codes'[c] = [codes[c] EXCEPT !.ttl = TickDown(codes[c].ttl)] BY DEF Tick
  <2>3. TickDown(codes[c].ttl) \in Nat BY <1>1, <2>1 DEF CodeEntry
  <2>4. QED BY <2>1, <2>2, <2>3 DEF CodeEntry
<1>3. ASSUME NEW i \in SessionId
      PROVE  /\ sessions'[i] \in Session /\ sessions'[i].sid = sessions[i].sid
             /\ sessions'[i].code = sessions[i].code
             /\ sessions'[i].sender = sessions[i].sender
             /\ sessions'[i].receiver = sessions[i].receiver
  <2>1. sessions[i] \in Session BY DEF Inv, TypeOK
  <2>2. sessions'[i] = [sessions[i] EXCEPT !.ttl = TickDown(sessions[i].ttl),
                                           !.codeTtl = TickDown(sessions[i].codeTtl)]
    BY DEF Tick
  <2>3. TickDown(sessions[i].ttl) \in Nat /\ TickDown(sessions[i].codeTtl) \in Nat
    BY <1>1, <2>1 DEF Session
  <2>4. QED BY <2>1, <2>2, <2>3 DEF Session
<1>4. codes' \in [Code -> CodeEntry] /\ sessions' \in [SessionId -> Session]
  BY <1>2, <1>3 DEF Tick
<1>5. UNCHANGED <<ws, released, role, sid, code, bad, idle, pong, active, told, accepted,
                  minted, down>>
  BY DEF Tick
<1>6. TypeOK' BY <1>4, <1>5 DEF Inv, TypeOK
<1>7. SessionsLinked'
  BY <1>3, <1>5 DEF Inv, RegistryConsistent, SessionsLinked, LiveSids
<1>8. PeersLinked'
  BY <1>3, <1>5 DEF Inv, RegistryConsistent, PeersLinked, LiveSids
<1>9. CodesLinked'
  BY <1>2, <1>5 DEF Inv, RegistryConsistent, CodesLinked, Waiting
<1>10. QED BY <1>6, <1>7, <1>8, <1>9 DEF Inv, RegistryConsistent

\* The expiry timer.
LEMMA ExpiryStep ==
  ASSUME Inv,
         (\E c \in Code : ExpireCode(c)) \/ (\E i \in SessionId : ExpireSession(i))
  PROVE  Inv'
<1>. USE RoomsType
<1>1. ASSUME NEW c \in Code, ExpireCode(c) PROVE Inv'
  <2>. DEFINE r == codes[c].receiver
  <2>1. PICK room \in Rooms :
          Become(DeleteCode(Close(Clear(Fail(Step(room), r), r), r), c))
    BY <1>1 DEF ExpireCode
  <2>. DEFINE b == Step(room)
              s == Fail(b, r)
              v == Close(Clear(s, r), r)
  <2>2. Good(b, Now) BY Enter
  <2>3. r \in Peer /\ b.codes[c].receiver = r
    BY <1>1 DEF ExpireCode, CodeDue, Step, Inv, TypeOK, CodeEntry
  <2>4. Become(DeleteCode(v, c)) BY <2>1
  <2>. HIDE DEF b, r
  <2>5. b.sid[r] = NoSid BY <2>2, <2>3, PeerAssumption DEF Good, CL
  <2>6. Quiet(b, s) BY <2>2, <2>3, <2>5, SendUnpaired DEF Fail
  <2>. HIDE DEF s
  <2>7. Good(s, Now) /\ s.sid[r] = NoSid BY <2>2, <2>5, <2>6, QuietGood DEF Quiet
  <2>8. Good(v, Now) BY <2>3, <2>7, ClearCloseGood
  <2>. HIDE DEF v
  <2>9. Good(DeleteCode(v, c), Now) BY <2>8, DeleteCodeQuiet, QuietGood DEF Good
  <2>10. QED BY <1>1, <2>4, <2>9, HandledQuietly DEF ExpireCode
<1>2. ASSUME NEW i \in SessionId, ExpireSession(i) PROVE Inv'
  <2>. DEFINE x == sessions[i]
  <2>1. PICK room \in Rooms :
          Become(IF ~Decided(x) /\ x.codeTtl > 0 /\ ws[x.receiver] = "open"
                 THEN RestoreWaitingReceiver(Step(room), x, TRUE)
                 ELSE CloseSessionPeers(Send(Send(Step(room), x.sender, "peer-left"),
                                             x.receiver, "peer-left"), x))
    BY <1>2 DEF ExpireSession
  <2>. DEFINE s == Step(room)
              a == Send(s, x.sender, "peer-left")
              b == Send(a, x.receiver, "peer-left")
  <2>2. Good(s, Now) BY Enter
  <2>3. s.sessions[i] = x /\ x.sid # NoSid BY <1>2 DEF ExpireSession, SessionDue, Step
  <2>4. Become(RestoreWaitingReceiver(s, x, TRUE)) \/ Become(CloseSessionPeers(b, x))
    BY <2>1
  <2>. HIDE DEF s, x
  <2>5. Member(x, Now) /\ Tracks(s, x) BY <2>2, <2>3, LiveMember DEF Tracks
  <2>6. x.sender \in Peer /\ x.receiver \in Peer BY <2>5 DEF Member
  <2>7. Good(RestoreWaitingReceiver(s, x, TRUE), Now) BY <2>2, <2>5, RestoreGood
  <2>8. Good(a, Now) /\ Tracks(a, x) BY <2>2, <2>5, <2>6, SendGood, SendTracks
  <2>. HIDE DEF a
  <2>9. Good(b, Now) /\ Tracks(b, x) BY <2>5, <2>6, <2>8, SendGood, SendTracks
  <2>. HIDE DEF b
  <2>10. Good(CloseSessionPeers(b, x), Now) BY <2>5, <2>9, CloseSessionPeersGood
  <2>11. QED BY <1>2, <2>4, <2>7, <2>10, HandledQuietly DEF ExpireSession
<1>3. QED BY <1>1, <1>2

\* shutdown closes sockets only.
LEMMA ShutdownStep ==
  ASSUME Inv, Shutdown
  PROVE  Inv'
<1>1. ws' \in [Peer -> {"open", "closing", "closed"}] BY DEF Shutdown, Inv, TypeOK
<1>2. \A p \in Peer : ws'[p] = "open" => ws[p] = "open" BY DEF Shutdown
<1>3. UNCHANGED <<codes, sessions, released, role, sid, code, bad, idle, pong, active, told,
                  accepted, minted>> /\ down' = TRUE
  BY DEF Shutdown
<1>4. TypeOK' BY <1>1, <1>3 DEF Inv, TypeOK
<1>5. SessionsLinked' /\ PeersLinked'
  BY <1>3 DEF Inv, RegistryConsistent, SessionsLinked, PeersLinked, LiveSids
<1>6. CodesLinked'
  <2>1. accepted \subseteq Peer BY DEF Inv, TypeOK
  <2>2. QED BY <1>2, <1>3, <2>1 DEF Inv, RegistryConsistent, CodesLinked, Waiting
<1>7. QED BY <1>4, <1>5, <1>6 DEF Inv, RegistryConsistent

-----------------------------------------------------------------------------

\* The first state: nothing waits and nobody is paired.
LEMMA InitInv == Init => Inv
<1>. SUFFICES ASSUME Init PROVE Inv OBVIOUS
<1>1. TypeOK
  <2>1. codes \in [Code -> CodeEntry] /\ sessions \in [SessionId -> Session]
    <3>. HIDE DEF CodeEntry, Session, Free, NoSession
    <3>1. QED BY EmptyEntries DEF Init
  <2>2. /\ released \in [Peer -> BOOLEAN] /\ idle \in [Peer -> BOOLEAN] /\ pong \in [Peer -> BOOLEAN] /\ down \in BOOLEAN
    BY DEF Init
  <2>3. /\ ws \in [Peer -> {"open", "closing", "closed"}]
        /\ role \in [Peer -> {"none", "sender", "receiver"}]
        /\ sid \in [Peer -> SessionId \cup {NoSid}] /\ code \in [Peer -> Code \cup {NoCode}]
        /\ told \in [Peer -> Lifecycle \cup {"nothing"}]
    BY DEF Init
  <2>4. bad \in [Peer -> Nat] /\ active \in [Ip -> Nat] /\ accepted \subseteq Peer
        /\ minted \in 0 .. MaxSid
    BY LimitAssumption DEF Init
  <2>5. QED BY <2>1, <2>2, <2>3, <2>4 DEF TypeOK
<1>2. RegistryConsistent
  BY DEF Init, RegistryConsistent, SessionsLinked, PeersLinked, CodesLinked, LiveSids,
         Waiting, Free, NoSession
<1>3. QED BY <1>1, <1>2 DEF Inv

\* Every callback, and every step that is none, keeps the registry consistent.
LEMMA NextInv == Inv /\ [Next]_vars => Inv'
<1>. SUFFICES ASSUME Inv, [Next]_vars PROVE Inv' OBVIOUS
<1>1. ASSUME NEW p \in Peer, Socket(p) PROVE Inv' BY <1>1, SocketStep
<1>2. ASSUME NEW p \in Peer, Message(p) PROVE Inv'
  BY <1>2, OtherMessageStep, RegisterStep, ConnectStep, RelayStep DEF Message
<1>3. CASE Timer BY <1>3, TickStep, ExpiryStep DEF Timer
<1>4. CASE Shutdown BY <1>4, ShutdownStep
<1>5. CASE UNCHANGED vars
  BY <1>5 DEF vars, Inv, TypeOK, RegistryConsistent, SessionsLinked, PeersLinked,
              CodesLinked, LiveSids, Waiting
<1>6. QED BY <1>1, <1>2, <1>3, <1>4, <1>5 DEF Next

\* Type correctness of the signaling server, for every set of connections, codes and
\* addresses, every limit, and every choice of failing sockets.
THEOREM TypeCorrect == Spec => []TypeOK
<1>1. Inv => TypeOK BY DEF Inv
<1>2. QED BY <1>1, InitInv, NextInv, PTL DEF Spec

\* The tables of codes and sessions and the connections agree after every callback of
\* src/server/index.ts: a session joins two accepted connections that both name it, a
\* connection names no session that is gone, and a waiting code has an attempt left and
\* a receiver that is in no session.
THEOREM RegistryAlwaysConsistent == Spec => []RegistryConsistent
<1>1. Inv => RegistryConsistent BY DEF Inv
<1>2. QED BY <1>1, InitInv, NextInv, PTL DEF Spec

-----------------------------------------------------------------------------
(* The connection counts and the phases of the sessions *)

\* policy.ts, for one session: what its phase flags imply.  The second line is what
\* ConfirmedBeforeSignaling needs to be inductive.
Confirmed(x) ==
  /\ "pairRequested" \in x.seen =>
       {"senderPake", "receiverPake", "senderConfirm", "receiverConfirm"} \subseteq x.seen
  /\ ("senderConfirm" \in x.seen \/ "receiverConfirm" \in x.seen) =>
       "senderPake" \in x.seen /\ "receiverPake" \in x.seen
  /\ "pairDecided" \in x.seen => "pairRequested" \in x.seen
  /\ ("offer" \in x.seen \/ "answer" \in x.seen) => "pairDecided" \in x.seen
  /\ x.candidates.sender + x.candidates.receiver > 0 => "offer" \in x.seen

\* A session object whose peers were accepted.
Party(x, A) ==
  /\ x \in Session /\ x.sid \in SessionId /\ x.code \in Code
  /\ x.sender \in A /\ x.receiver \in A

\* The connections counted for an address.
Held(s, A, a) == {p \in Peer : IpOf[p] = a /\ p \in A /\ ~s.released[p]}

\* With A the accepted connections: the sessions in the table are in phase order and
\* join accepted connections, every address is charged for what it holds, the
\* connections R are released, and a connection not yet accepted has no socket, no idle
\* timer and nothing to release.
Kept(s, A, R) ==
  /\ s \in SState
  /\ \A i \in SessionId : s.sessions[i].sid # NoSid =>
       Party(s.sessions[i], A) /\ Confirmed(s.sessions[i])
  /\ \A a \in Ip : s.active[a] = Cardinality(Held(s, A, a))
  /\ \A p \in Peer : p \in R => s.released[p]
  /\ \A p \in Peer : p \notin A => ~s.released[p] /\ ~s.idle[p] /\ s.ws[p] = "closed"

-----------------------------------------------------------------------------
(* Every operator keeps it *)

\* A change of the record that counts and releases nothing and only empties sessions.
LEMMA KeptSame ==
  ASSUME NEW s, NEW A, NEW R, Kept(s, A, R), NEW t \in SState,
         t.active = s.active, t.released = s.released,
         \A q \in Peer : q \notin A => t.ws[q] = s.ws[q] /\ t.idle[q] = s.idle[q],
         \A i \in SessionId : t.sessions[i] = s.sessions[i] \/ t.sessions[i].sid = NoSid
  PROVE  Kept(t, A, R)
<1>1. \A a \in Ip : Held(t, A, a) = Held(s, A, a) BY DEF Held
<1>2. \A i \in SessionId : t.sessions[i].sid # NoSid =>
        Party(t.sessions[i], A) /\ Confirmed(t.sessions[i])
  BY DEF Kept
<1>3. \A a \in Ip : t.active[a] = Cardinality(Held(t, A, a)) BY <1>1 DEF Kept
<1>4. QED BY <1>2, <1>3 DEF Kept

\* releaseActiveConnection gives exactly one slot back, once.
LEMMA KeptRelease ==
  ASSUME NEW s, NEW A \in SUBSET Peer, NEW R, Kept(s, A, R), NEW p \in A
  PROVE  Kept(Release(s, p), A, R) /\ Release(s, p).released[p]
<1>. DEFINE t == Release(s, p)
            b == IpOf[p]
<1>1. CASE s.released[p] BY <1>1 DEF Release, Kept
<1>2. CASE ~s.released[p]
  <2>1. /\ s \in SState /\ p \in Peer /\ b \in Ip /\ s.active \in [Ip -> Nat]
        /\ s.released \in [Peer -> BOOLEAN]
    BY IpAssumption DEF Kept, SState
  <2>2. t \in SState /\ t.sessions = s.sessions BY <2>1, ReleaseType
  <2>3. t.released = [s.released EXCEPT ![p] = TRUE] BY <1>2, <2>1 DEF Release, SState
  <2>4. t.active = [s.active EXCEPT ![b] = IF s.active[b] <= 1 THEN 0 ELSE s.active[b] - 1]
    BY <1>2, <2>1 DEF Release, SState
  <2>4a. t.ws = s.ws /\ t.idle = [s.idle EXCEPT ![p] = FALSE]
    BY <1>2, <2>1 DEF Release, SState
  <2>. HIDE DEF t
  <2>5. \A a \in Ip : a # b => Held(t, A, a) = Held(s, A, a) BY <2>1, <2>3 DEF Held
  <2>6. Held(t, A, b) = Held(s, A, b) \ {p} BY <2>1, <2>3 DEF Held
  <2>7. p \in Held(s, A, b) BY <1>2, <2>1 DEF Held
  <2>8. IsFiniteSet(Held(s, A, b))
    <3>1. Held(s, A, b) \in SUBSET Peer BY DEF Held
    <3>2. QED BY <3>1, FS_Subset, PeerAssumption
  <2>9. Cardinality(Held(t, A, b)) = Cardinality(Held(s, A, b)) - 1
    BY <2>6, <2>7, <2>8, FS_RemoveElement
  <2>10. s.active[b] = Cardinality(Held(s, A, b)) BY <2>1 DEF Kept
  <2>11. Cardinality(Held(t, A, b)) \in Nat
    BY <2>6, <2>8, FS_RemoveElement, FS_CardinalityType
  <2>12. s.active[b] \in Nat BY <2>1
  <2>13. t.active[b] = s.active[b] - 1
    <3>1. t.active[b] = IF s.active[b] <= 1 THEN 0 ELSE s.active[b] - 1 BY <2>1, <2>4
    <3>2. s.active[b] >= 1 BY <2>9, <2>10, <2>11, <2>12
    <3>3. QED BY <3>1, <3>2, <2>12
  <2>14. \A a \in Ip : t.active[a] = Cardinality(Held(t, A, a))
    <3>. SUFFICES ASSUME NEW a \in Ip PROVE t.active[a] = Cardinality(Held(t, A, a)) OBVIOUS
    <3>1. CASE a = b BY <3>1, <2>9, <2>10, <2>13
    <3>2. CASE a # b
      <4>1. t.active[a] = s.active[a] BY <2>1, <2>4, <3>2
      <4>2. QED BY <4>1, <3>2, <2>5 DEF Kept
    <3>3. QED BY <3>1, <3>2
  <2>15. \A q \in Peer : /\ s.released[q] => t.released[q]
                         /\ q \notin A => /\ t.released[q] = s.released[q]
                                          /\ t.ws[q] = s.ws[q] /\ t.idle[q] = s.idle[q]
    BY <2>1, <2>3, <2>4a DEF SState
  <2>16. Kept(t, A, R) BY <2>2, <2>14, <2>15 DEF Kept
  <2>17. QED BY <2>1, <2>3, <2>16 DEF t
<1>3. QED BY <1>1, <1>2

\* ws.close, clearPeerSessionState, codes.delete and sessions.delete.
LEMMA KeptBasic ==
  ASSUME NEW s, NEW A \in SUBSET Peer, NEW R, Kept(s, A, R), NEW p \in A
  PROVE  /\ Kept(Shut(s, p), A, R)
         /\ Kept(Clear(s, p), A, R)
         /\ \A c \in Code : Kept(DeleteCode(s, c), A, R)
         /\ \A i \in SessionId : Kept(DeleteSession(s, i), A, R)
         /\ Kept(DropCode(s, p), A, R)
<1>1. s \in SState /\ p \in Peer BY DEF Kept
<1>2. Kept(Shut(s, p), A, R)
  <2>1. /\ Shut(s, p) \in SState /\ Shut(s, p).active = s.active
        /\ Shut(s, p).released = s.released /\ Shut(s, p).sessions = s.sessions
        /\ Shut(s, p).idle = s.idle /\ \A q \in Peer : q # p => Shut(s, p).ws[q] = s.ws[q]
    BY <1>1 DEF Shut, SState
  <2>2. QED BY <2>1, KeptSame
<1>3. Kept(Clear(s, p), A, R)
  <2>1. /\ Clear(s, p) \in SState /\ Clear(s, p).active = s.active
        /\ Clear(s, p).released = s.released /\ Clear(s, p).sessions = s.sessions
        /\ Clear(s, p).idle = s.idle /\ \A q \in Peer : q # p => Clear(s, p).ws[q] = s.ws[q]
    BY <1>1 DEF Clear, SState
  <2>2. QED BY <2>1, KeptSame
<1>4. ASSUME NEW c \in Code PROVE Kept(DeleteCode(s, c), A, R)
  <2>1. /\ DeleteCode(s, c) \in SState /\ DeleteCode(s, c).active = s.active
        /\ DeleteCode(s, c).released = s.released
        /\ DeleteCode(s, c).idle = s.idle /\ DeleteCode(s, c).ws = s.ws
        /\ DeleteCode(s, c).sessions = s.sessions
    BY <1>1, EmptyEntries DEF DeleteCode, SState
  <2>2. QED BY <2>1, KeptSame
<1>5. ASSUME NEW i \in SessionId PROVE Kept(DeleteSession(s, i), A, R)
  <2>1. /\ DeleteSession(s, i) \in SState /\ DeleteSession(s, i).active = s.active
        /\ DeleteSession(s, i).released = s.released
        /\ DeleteSession(s, i).idle = s.idle /\ DeleteSession(s, i).ws = s.ws
        /\ DeleteSession(s, i).sessions = [s.sessions EXCEPT ![i] = NoSession]
    BY <1>1, EmptyEntries DEF DeleteSession, SState
  <2>2. NoSession.sid = NoSid /\ s.sessions \in [SessionId -> Session]
    BY <1>1 DEF NoSession, SState
  <2>3. \A j \in SessionId : \/ DeleteSession(s, i).sessions[j] = s.sessions[j]
                             \/ DeleteSession(s, i).sessions[j].sid = NoSid
    BY <2>1, <2>2
  <2>4. QED BY <2>1, <2>3, KeptSame
<1>6. Kept(DropCode(s, p), A, R)
  <2>1. CASE OwnsCode(s, p)
    <3>1. s.code[p] \in Code BY <1>1, <2>1 DEF OwnsCode, SState
    <3>2. QED BY <2>1, <3>1, <1>4 DEF DropCode
  <2>2. CASE ~OwnsCode(s, p) BY <2>2 DEF DropCode
  <2>3. QED BY <2>1, <2>2
<1>7. QED BY <1>2, <1>3, <1>4, <1>5, <1>6

\* closePeerAndRelease.
LEMMA KeptClose ==
  ASSUME NEW s, NEW A \in SUBSET Peer, NEW R, Kept(s, A, R), NEW p \in A
  PROVE  Kept(Close(s, p), A, R) /\ Close(s, p).released[p]
<1>1. Kept(Shut(s, p), A, R) BY KeptBasic
<1>2. QED BY <1>1, KeptRelease DEF Close

\* A delivered message.
LEMMA KeptDeliver ==
  ASSUME NEW s, NEW A \in SUBSET Peer, NEW R, Kept(s, A, R), NEW p \in A, NEW m,
         s.room[p] > 0
  PROVE  Kept(Deliver(s, p, m), A, R)
<1>1. s \in SState /\ p \in Peer BY DEF Kept
<1>2. Deliver(s, p, m) \in SState BY <1>1, DeliverQuiet DEF Quiet
<1>3. /\ Deliver(s, p, m).active = s.active /\ Deliver(s, p, m).released = s.released
      /\ Deliver(s, p, m).sessions = s.sessions
      /\ Deliver(s, p, m).idle = s.idle /\ Deliver(s, p, m).ws = s.ws
  BY <1>1 DEF Deliver, SState
<1>4. QED BY <1>2, <1>3, KeptSame

\* send, to a peer outside any session.
LEMMA KeptSendLast ==
  ASSUME NEW s, NEW A \in SUBSET Peer, NEW R, Kept(s, A, R), NEW p \in A, NEW m
  PROVE  Kept(SendLast(s, p, m), A, R)
<1>1. Kept(Close(DropCode(s, p), p), A, R) BY KeptBasic, KeptClose
<1>2. s.room[p] > 0 => Kept(Deliver(s, p, m), A, R) BY KeptDeliver
<1>3. QED BY <1>1, <1>2 DEF SendLast

\* closeSessionPeers, endSession and expireReceiverAfterPrePairAttempts.
LEMMA KeptEnding ==
  ASSUME NEW s, NEW A \in SUBSET Peer, NEW R, Kept(s, A, R), NEW x, Party(x, A)
  PROVE  /\ Kept(CloseSessionPeers(s, x), A, R)
         /\ \A q \in A : Kept(EndSession(s, x, q), A, R)
         /\ Kept(ExpireReceiver(s, x), A, R)
<1>1. x.sender \in A /\ x.receiver \in A /\ x.sid \in SessionId BY DEF Party
<1>2. Kept(CloseSessionPeers(s, x), A, R)
  <2>1. Kept(DeleteSession(s, x.sid), A, R) BY <1>1, KeptBasic
  <2>2. Kept(Clear(DeleteSession(s, x.sid), x.sender), A, R) BY <1>1, <2>1, KeptBasic
  <2>3. Kept(Clear(Clear(DeleteSession(s, x.sid), x.sender), x.receiver), A, R)
    BY <1>1, <2>2, KeptBasic
  <2>4. QED BY <1>1, <2>3, KeptClose DEF CloseSessionPeers
<1>3. ASSUME NEW q \in A PROVE Kept(EndSession(s, x, q), A, R)
  <2>. DEFINE r == IF q = x.sender THEN x.receiver ELSE x.sender
              t == SendLast(DeleteSession(s, x.sid), r, "peer-left")
  <2>1. r \in A BY <1>1
  <2>. HIDE DEF r
  <2>2. Kept(DeleteSession(s, x.sid), A, R) BY <1>1, KeptBasic
  <2>3. Kept(t, A, R) BY <2>1, <2>2, KeptSendLast
  <2>4. Kept(Clear(t, x.sender), A, R) BY <1>1, <2>3, KeptBasic
  <2>5. Kept(Clear(Clear(t, x.sender), x.receiver), A, R) BY <1>1, <2>4, KeptBasic
  <2>6. QED BY <2>1, <2>5, KeptClose DEF EndSession, r
<1>4. Kept(ExpireReceiver(s, x), A, R)
  <2>. DEFINE n == SendLast(s, x.receiver, "peer-left")
              f == SendLast(Clear(Clear(n, x.sender), x.receiver), x.receiver, "error")
  <2>1. Kept(n, A, R) BY <1>1, KeptSendLast
  <2>2. Kept(Clear(n, x.sender), A, R) BY <1>1, <2>1, KeptBasic
  <2>3. Kept(Clear(Clear(n, x.sender), x.receiver), A, R) BY <1>1, <2>2, KeptBasic
  <2>4. Kept(f, A, R) BY <1>1, <2>3, KeptSendLast
  <2>5. Kept(Close(f, x.sender), A, R) BY <1>1, <2>4, KeptClose
  <2>6. QED BY <1>1, <2>5, KeptClose DEF ExpireReceiver
<1>5. QED BY <1>2, <1>3, <1>4

\* sendRestoredRegistration.
LEMMA KeptSendRestored ==
  ASSUME NEW s, NEW A \in SUBSET Peer, NEW R, Kept(s, A, R), NEW x, Party(x, A), NEW ttl
  PROVE  Kept(SendRestoredRegistration(s, x, ttl), A, R)
<1>. DEFINE t == SendLast(s, x.receiver, Registered(ttl))
            d == IF t.codes[x.code].receiver = x.receiver THEN DeleteCode(t, x.code) ELSE t
<1>1. x.receiver \in A /\ x.code \in Code BY DEF Party
<1>2. Kept(t, A, R) BY <1>1, KeptSendLast
<1>. HIDE DEF t
<1>3. Kept(d, A, R) BY <1>1, <1>2, KeptBasic
<1>. HIDE DEF d
<1>4. Kept(Clear(d, x.receiver), A, R) BY <1>1, <1>3, KeptBasic
<1>5. Kept(Close(Clear(d, x.receiver), x.receiver), A, R) BY <1>1, <1>4, KeptClose
<1>6. QED BY <1>2, <1>5 DEF SendRestoredRegistration, t, d

\* restoreWaitingReceiver once the code's entry is known.
LEMMA KeptRestoreTo ==
  ASSUME NEW s, NEW A \in SUBSET Peer, NEW R, Kept(s, A, R), NEW x, Party(x, A),
         NEW entry \in CodeEntry, NEW notify \in BOOLEAN
  PROVE  Kept(RestoreTo(s, x, entry, notify), A, R)
<1>. DEFINE c == Clear(s, x.sender)
            back == [c EXCEPT !.sid[x.receiver] = NoSid, !.role[x.receiver] = "receiver",
                              !.code[x.receiver] = x.code]
            wait == [back EXCEPT !.codes[x.code] = entry]
            told1 == SendLast(wait, x.receiver, "peer-left")
            left == IF notify THEN told1 ELSE wait
<1>1. x.sender \in A /\ x.receiver \in A /\ x.receiver \in Peer /\ x.code \in Code
  BY DEF Party
<1>2. Kept(c, A, R) BY <1>1, KeptBasic
<1>3. c \in SState BY <1>2 DEF Kept
<1>. HIDE DEF c
<1>4. /\ back \in SState /\ back.active = c.active /\ back.released = c.released
      /\ back.sessions = c.sessions /\ back.idle = c.idle /\ back.ws = c.ws
  BY <1>1, <1>3 DEF SState
<1>5. Kept(back, A, R) BY <1>2, <1>4, KeptSame
<1>. HIDE DEF back
<1>6. /\ wait \in SState /\ wait.active = back.active /\ wait.released = back.released
      /\ wait.sessions = back.sessions /\ wait.idle = back.idle /\ wait.ws = back.ws
  BY <1>1, <1>4 DEF SState
<1>7. Kept(wait, A, R) BY <1>5, <1>6, KeptSame
<1>. HIDE DEF wait
<1>8. Kept(told1, A, R) BY <1>1, <1>7, KeptSendLast
<1>. HIDE DEF told1
<1>9. Kept(left, A, R) BY <1>7, <1>8
<1>. HIDE DEF left
<1>10. Kept(Close(left, x.sender), A, R) BY <1>1, <1>9, KeptClose
<1>11. Kept(SendRestoredRegistration(Close(left, x.sender), x, entry.ttl), A, R)
  BY <1>10, KeptSendRestored
<1>12. Kept(DeleteCode(back, x.code), A, R) BY <1>1, <1>5, KeptBasic
<1>13. Kept(ExpireReceiver(DeleteCode(back, x.code), x), A, R) BY <1>12, KeptEnding
<1>14. QED BY <1>11, <1>13 DEF RestoreTo, c, back, wait, told1, left

\* restoreWaitingReceiver.
LEMMA KeptRestore ==
  ASSUME NEW s, NEW A \in SUBSET Peer, NEW R, Kept(s, A, R), NEW x, Party(x, A),
         NEW notify \in BOOLEAN
  PROVE  Kept(RestoreWaitingReceiver(s, x, notify), A, R)
<1>. DEFINE t == DeleteSession(s, x.sid)
            existing == s.codes[x.code]
            fewer == IF existing.remaining < x.remaining THEN existing.remaining
                     ELSE x.remaining
            a == SendLast(t, x.sender, "peer-left")
            b == SendLast(a, x.receiver, "peer-left")
            e1 == [existing EXCEPT !.remaining = fewer]
            e2 == [receiver |-> x.receiver, ttl |-> x.codeTtl, remaining |-> x.remaining]
<1>1. /\ x.sender \in A /\ x.receiver \in A /\ x.receiver \in Peer /\ x.code \in Code
      /\ x.sid \in SessionId /\ x.remaining \in Nat /\ x.codeTtl \in Nat
  BY DEF Party, Session
<1>2. existing \in CodeEntry BY <1>1 DEF Kept, SState
<1>3. e1 \in CodeEntry /\ e2 \in CodeEntry BY <1>1, <1>2 DEF CodeEntry
<1>4. Kept(t, A, R) BY <1>1, KeptBasic
<1>. HIDE DEF t
<1>5. Kept(a, A, R) BY <1>1, <1>4, KeptSendLast
<1>. HIDE DEF a
<1>6. Kept(b, A, R) BY <1>1, <1>5, KeptSendLast
<1>. HIDE DEF b, e1, e2
<1>7. /\ Kept(RestoreTo(t, x, e1, notify), A, R) /\ Kept(RestoreTo(t, x, e2, notify), A, R)
      /\ Kept(CloseSessionPeers(b, x), A, R)
  BY <1>3, <1>4, <1>6, KeptRestoreTo, KeptEnding
<1>8. QED BY <1>7 DEF RestoreWaitingReceiver, t, a, b, e1, e2

\* A session in the table is a party.
LEMMA KeptParty ==
  ASSUME NEW s, NEW A \in SUBSET Peer, NEW R, Kept(s, A, R), NEW i, Live(s, i),
         i \in SessionId \cup {NoSid}
  PROVE  Party(s.sessions[i], A) /\ i \in SessionId
  BY DEF Kept, Live

\* cleanupPeer.
LEMMA KeptCleanup ==
  ASSUME NEW s, NEW A \in SUBSET Peer, NEW R, Kept(s, A, R), NEW p \in A
  PROVE  Kept(CleanupPeer(s, p), A, R)
<1>. DEFINE d == DropCode(s, p)
            x == d.sessions[d.sid[p]]
<1>1. Kept(d, A, R) BY KeptBasic
<1>2. d.sid[p] \in SessionId \cup {NoSid} BY <1>1 DEF Kept, SState
<1>. HIDE DEF d
<1>3. CASE ~Live(d, d.sid[p]) BY <1>1, <1>3 DEF CleanupPeer, d
<1>4. CASE Live(d, d.sid[p])
  <2>1. Party(x, A) BY <1>1, <1>2, <1>4, KeptParty
  <2>. HIDE DEF x
  <2>2. Kept(RestoreWaitingReceiver(d, x, TRUE), A, R) /\ Kept(EndSession(d, x, p), A, R)
    BY <1>1, <2>1, KeptRestore, KeptEnding
  <2>3. QED BY <1>4, <2>2 DEF CleanupPeer, d, x
<1>5. QED BY <1>3, <1>4

\* send.
LEMMA KeptSend ==
  ASSUME NEW s, NEW A \in SUBSET Peer, NEW R, Kept(s, A, R), NEW p \in A, NEW m
  PROVE  Kept(Send(s, p, m), A, R) /\ Kept(Fail(s, p), A, R)
<1>1. Kept(CleanupPeer(s, p), A, R) BY KeptCleanup
<1>2. Kept(Close(CleanupPeer(s, p), p), A, R) BY <1>1, KeptClose
<1>3. s.room[p] > 0 => Kept(Deliver(s, p, m), A, R) /\ Kept(Deliver(s, p, "error"), A, R)
  BY KeptDeliver
<1>4. QED BY <1>2, <1>3 DEF Send, Fail

\* relayDeliveryFailed, rejectRelayMessage and closeSessionForTurnRateLimit.
LEMMA KeptRefusal ==
  ASSUME NEW s, NEW A \in SUBSET Peer, NEW R, Kept(s, A, R), NEW x, Party(x, A),
         NEW p \in A, NEW target \in A, NEW restore \in BOOLEAN
  PROVE  /\ Kept(RelayDeliveryFailed(s, x, p, target, restore), A, R)
         /\ Kept(RejectPrePairSender(s, x, p), A, R)
         /\ Kept(CloseSessionForTurnRateLimit(s, x), A, R)
<1>. DEFINE t == Fail(s, p)
            f == Fail(s, x.sender)
            g == Fail(f, x.receiver)
<1>1. x.sender \in A /\ x.receiver \in A BY DEF Party
<1>2. Kept(t, A, R) /\ Kept(f, A, R) BY <1>1, KeptSend
<1>. HIDE DEF t, f
<1>3. Kept(g, A, R) BY <1>1, <1>2, KeptSend
<1>. HIDE DEF g
<1>4. /\ Kept(RestoreWaitingReceiver(t, x, TRUE), A, R) /\ Kept(EndSession(t, x, target), A, R)
      /\ Kept(CloseSessionPeers(g, x), A, R)
  BY <1>2, <1>3, KeptRestore, KeptEnding
<1>5. QED
  BY <1>4 DEF RelayDeliveryFailed, RejectPrePairSender, CloseSessionForTurnRateLimit, t, f, g

\* badMessage.
LEMMA KeptBadMessage ==
  ASSUME NEW s, NEW A \in SUBSET Peer, NEW R, Kept(s, A, R), NEW p \in A
  PROVE  Kept(BadMessage(s, p), A, R)
<1>. DEFINE x == s.sessions[s.sid[p]]
            n == s.bad[p] + 1
            b == [s EXCEPT !.bad[p] = n]
            t == Fail(b, p)
<1>1. s \in SState /\ p \in Peer BY DEF Kept
<1>2. n \in Nat /\ s.sid[p] \in SessionId \cup {NoSid} BY <1>1 DEF SState
<1>. HIDE DEF n
<1>3. /\ b \in SState /\ b.active = s.active /\ b.released = s.released
      /\ b.sessions = s.sessions /\ b.idle = s.idle /\ b.ws = s.ws
  BY <1>1, <1>2 DEF SState
<1>4. Kept(b, A, R) BY <1>3, KeptSame
<1>. HIDE DEF b
<1>5. Kept(t, A, R) BY <1>4, KeptSend
<1>6. Kept(Close(t, p), A, R) BY <1>5, KeptClose
<1>7. ASSUME Live(s, s.sid[p]) PROVE Kept(RejectPrePairSender(s, x, p), A, R)
  <2>1. Party(x, A) BY <1>2, <1>7, KeptParty
  <2>. HIDE DEF x
  <2>2. QED BY <2>1, KeptRefusal
<1>. HIDE DEF x, t
<1>8. QED BY <1>5, <1>6, <1>7 DEF BadMessage, x, n, b, t

-----------------------------------------------------------------------------
(* The phases of a session *)

\* applyRelayPhase after relayAllowedForPhase keeps the phase flags in order.
LEMMA ConfirmedRelay ==
  ASSUME NEW x \in Session, NEW p, NEW m \in RelayMessage, Confirmed(x),
         RelayAllowedForPhase(x, p, m)
  PROVE  Confirmed(ApplyRelayPhase(x, p, m))
<1>. DEFINE y == ApplyRelayPhase(x, p, m)
            f == CASE m = "pake" -> x.seen \cup {PakeFlag(x, p)}
                   [] m = "confirm" -> x.seen \cup {ConfirmFlag(x, p)}
                   [] m = "pair-request" -> x.seen \cup {"pairRequested"}
                   [] m = "pair-accept" -> x.seen \cup {"pairDecided"}
                   [] m \in {"offer", "answer"} -> x.seen \cup {m}
                   [] OTHER -> x.seen
<1>. SUFFICES Confirmed(y) OBVIOUS
<1>1. y.seen = f BY DEF ApplyRelayPhase, Session
<1>2. PakeFlag(x, p) \in {"senderPake", "receiverPake"}
      /\ ConfirmFlag(x, p) \in {"senderConfirm", "receiverConfirm"}
  BY DEF PakeFlag, ConfirmFlag
<1>3. Side(x, p) \in {"sender", "receiver"} BY DEF Side
<1>4. m # "candidate" => y.candidates = x.candidates
  BY <1>3 DEF ApplyRelayPhase, Session
<1>5. m = "candidate" => "offer" \in y.seen
  BY <1>1 DEF RelayAllowedForPhase
<1>. HIDE DEF y
<1>6. CASE m = "pake"
  <2>1. y.seen = x.seen \cup {PakeFlag(x, p)} BY <1>1, <1>6
  <2>2. "pairRequested" \notin x.seen BY <1>6 DEF RelayAllowedForPhase
  <2>3. QED BY <1>2, <1>4, <1>6, <2>1, <2>2 DEF Confirmed
<1>7. CASE m = "confirm"
  <2>1. y.seen = x.seen \cup {ConfirmFlag(x, p)} BY <1>1, <1>7
  <2>2. {"senderPake", "receiverPake"} \subseteq x.seen BY <1>7 DEF RelayAllowedForPhase
  <2>3. QED BY <1>2, <1>4, <1>7, <2>1, <2>2 DEF Confirmed
<1>8. CASE m = "pair-request"
  <2>1. y.seen = x.seen \cup {"pairRequested"} BY <1>1, <1>8
  <2>2. {"senderConfirm", "receiverConfirm"} \subseteq x.seen BY <1>8 DEF RelayAllowedForPhase
  <2>3. QED BY <1>4, <1>8, <2>1, <2>2 DEF Confirmed
<1>9. CASE m = "pair-accept"
  <2>1. y.seen = x.seen \cup {"pairDecided"} BY <1>1, <1>9
  <2>2. "pairRequested" \in x.seen BY <1>9 DEF RelayAllowedForPhase
  <2>3. QED BY <1>4, <1>9, <2>1, <2>2 DEF Confirmed
<1>10. CASE m \in {"offer", "answer"}
  <2>1. y.seen = x.seen \cup {m} BY <1>1, <1>10
  <2>2. "pairDecided" \in x.seen BY <1>10 DEF RelayAllowedForPhase
  <2>3. QED BY <1>4, <1>10, <2>1, <2>2 DEF Confirmed
<1>11. CASE m = "candidate"
  <2>1. y.seen = x.seen BY <1>1, <1>11
  <2>2. QED BY <1>5, <1>11, <2>1 DEF Confirmed
<1>12. CASE m \in {"pair-reject", "bad-request"}
  <2>1. y.seen = x.seen BY <1>1, <1>12
  <2>2. QED BY <1>4, <1>12, <2>1 DEF Confirmed
<1>13. QED BY <1>6, <1>7, <1>8, <1>9, <1>10, <1>11, <1>12 DEF RelayMessage

\* A session in phase order may be written into the table.
LEMMA KeptWrite ==
  ASSUME NEW s, NEW A \in SUBSET Peer, NEW R, Kept(s, A, R), NEW y, Party(y, A),
         Confirmed(y), NEW i \in SessionId
  PROVE  Kept([s EXCEPT !.sessions[i] = y], A, R)
<1>. DEFINE t == [s EXCEPT !.sessions[i] = y]
<1>1. y \in Session /\ s \in SState BY DEF Party, Kept
<1>2. /\ t \in SState /\ t.active = s.active /\ t.released = s.released
      /\ t.sessions = [s.sessions EXCEPT ![i] = y] /\ t.idle = s.idle /\ t.ws = s.ws
  BY <1>1 DEF SState
<1>. HIDE DEF t
<1>3. s.sessions \in [SessionId -> Session] BY <1>1 DEF SState
<1>4. \A j \in SessionId : t.sessions[j] = IF j = i THEN y ELSE s.sessions[j]
  BY <1>2, <1>3
<1>5. \A a \in Ip : Held(t, A, a) = Held(s, A, a) BY <1>2 DEF Held
<1>6. \A j \in SessionId : t.sessions[j].sid # NoSid =>
        Party(t.sessions[j], A) /\ Confirmed(t.sessions[j])
  BY <1>4 DEF Kept
<1>7. \A a \in Ip : t.active[a] = Cardinality(Held(t, A, a)) BY <1>2, <1>5 DEF Kept
<1>8. QED BY <1>2, <1>6, <1>7 DEF Kept, t
\* Forwarding a message, and accepting a pairing.
LEMMA KeptRelay ==
  ASSUME NEW s, NEW A \in SUBSET Peer, NEW R, Kept(s, A, R), NEW x, Party(x, A),
         Confirmed(x), NEW p \in A, NEW m \in RelayMessage, RelayAllowedForPhase(x, p, m)
  PROVE  /\ Kept(Forward(s, x, p, m), A, R)
         /\ m = "pair-accept" => \A limited : Kept(AcceptPair(s, x, p, limited), A, R)
<1>. DEFINE y == ApplyRelayPhase(x, p, m)
            target == Other(x, p)
<1>1. /\ x \in Session /\ x.sid \in SessionId /\ x.sender \in A /\ x.receiver \in A
      /\ target \in A
  BY DEF Party, Other
<1>2. Confirmed(y) BY <1>1, ConfirmedRelay
<1>3. Party(y, A)
  <2>. DEFINE sn == CASE m = "pake" -> x.seen \cup {PakeFlag(x, p)}
                      [] m = "confirm" -> x.seen \cup {ConfirmFlag(x, p)}
                      [] m = "pair-request" -> x.seen \cup {"pairRequested"}
                      [] m = "pair-accept" -> x.seen \cup {"pairDecided"}
                      [] m \in {"offer", "answer"} -> x.seen \cup {m}
                      [] OTHER -> x.seen
              k == Side(x, p)
              c == IF m = "candidate" THEN x.candidates[k] + 1 ELSE x.candidates[k]
              tt == IF m \in {"pair-request", "pair-accept"} THEN PairTimeout ELSE x.ttl
  <2>2. sn \in SUBSET Flag BY <1>1 DEF Session, Flag, PakeFlag, ConfirmFlag
  <2>3. k \in {"sender", "receiver"} BY DEF Side
  <2>4. c \in Nat BY <1>1, <2>3 DEF Session
  <2>5. tt \in Nat BY <1>1, LimitAssumption DEF Session
  <2>6. y = [x EXCEPT !.seen = sn, !.candidates = [x.candidates EXCEPT ![k] = c], !.ttl = tt]
    BY DEF ApplyRelayPhase
  <2>. HIDE DEF sn, k, c, tt, y
  <2>7. [x.candidates EXCEPT ![k] = c] \in [sender : Nat, receiver : Nat]
    BY <1>1, <2>3, <2>4 DEF Session
  <2>8. QED BY <1>1, <2>2, <2>5, <2>6, <2>7 DEF Session, Party
<1>. HIDE DEF y, target
<1>4. Kept(Forward(s, x, p, m), A, R)
  <2>. DEFINE t == Send(s, target, m)
              a == [t EXCEPT !.sessions[x.sid] = y]
  <2>1. Kept(t, A, R) BY <1>1, KeptSend
  <2>. HIDE DEF t
  <2>2. Kept(a, A, R) BY <1>1, <1>2, <1>3, <2>1, KeptWrite
  <2>. HIDE DEF a
  <2>3. Kept(CloseSessionPeers(a, x), A, R) BY <2>2, KeptEnding
  <2>4. Kept(RelayDeliveryFailed(t, x, p, target, m # "pair-reject"), A, R)
    <3>1. (m # "pair-reject") \in BOOLEAN OBVIOUS
    <3>2. QED BY <1>1, <2>1, <3>1, KeptRefusal
  <2>5. QED BY <2>2, <2>3, <2>4 DEF Forward, t, a, y, target
<1>5. ASSUME m = "pair-accept", NEW limited PROVE Kept(AcceptPair(s, x, p, limited), A, R)
  <2>. DEFINE ice == Send(s, x.sender, "ice-config")
              acc == Send(ice, x.sender, "pair-accept")
              own == Send(acc, x.receiver, "ice-config")
              a == [own EXCEPT !.sessions[x.sid] = y]
  <2>1. Kept(ice, A, R) BY <1>1, KeptSend
  <2>. HIDE DEF ice
  <2>2. Kept(acc, A, R) BY <1>1, <2>1, KeptSend
  <2>. HIDE DEF acc
  <2>3. Kept(own, A, R) BY <1>1, <2>2, KeptSend
  <2>. HIDE DEF own
  <2>4. Kept(a, A, R) BY <1>1, <1>2, <1>3, <2>3, KeptWrite
  <2>5. /\ Kept(CloseSessionForTurnRateLimit(s, x), A, R)
        /\ Kept(CloseSessionForTurnRateLimit(acc, x), A, R)
        /\ Kept(RelayDeliveryFailed(acc, x, p, x.sender, TRUE), A, R)
        /\ Kept(CloseSessionPeers(own, x), A, R)
    BY <1>1, <2>2, <2>3, KeptRefusal, KeptEnding
  <2>. HIDE DEF a
  <2>6. y = ApplyRelayPhase(x, p, "pair-accept") BY <1>5 DEF y
  <2>7. a = [own EXCEPT !.sessions[x.sid] = ApplyRelayPhase(x, p, "pair-accept")]
    BY <2>6 DEF a
  <2>8. QED BY <2>4, <2>5, <2>7 DEF AcceptPair, ice, acc, own
<1>6. QED BY <1>4, <1>5

\* Claiming a code, and announcing the session to both peers.
LEMMA KeptConnect ==
  ASSUME NEW s, NEW A \in SUBSET Peer, NEW R, Kept(s, A, R), NEW x, Party(x, A),
         Confirmed(x)
  PROVE  Kept(Announce(Paired(s, x), x), A, R)
<1>. DEFINE d == DropCode(DeleteCode(s, x.code), x.sender)
            e == [d EXCEPT !.role[x.sender] = "sender", !.sid[x.sender] = x.sid,
                           !.code[x.sender] = x.code, !.idle[x.sender] = FALSE,
                           !.sid[x.receiver] = x.sid]
            u == [e EXCEPT !.sessions[x.sid] = x]
            r == Send(u, x.receiver, "peer-joined")
            undone == Clear(Clear(DeleteSession(r, x.sid), x.sender), x.receiver)
            b == Send(r, x.sender, "peer-joined")
<1>1. /\ x.sid \in SessionId /\ x.sender \in A /\ x.receiver \in A /\ x.code \in Code
      /\ x.sender \in Peer /\ x.receiver \in Peer
  BY DEF Party
<1>2. Kept(DeleteCode(s, x.code), A, R) BY <1>1, KeptBasic
<1>3. Kept(d, A, R) BY <1>1, <1>2, KeptBasic
<1>4. d \in SState BY <1>3 DEF Kept
<1>5. Paired(s, x) = [d EXCEPT !.role[x.sender] = "sender", !.sid[x.sender] = x.sid,
                               !.code[x.sender] = x.code, !.idle[x.sender] = FALSE,
                               !.sid[x.receiver] = x.sid, !.sessions[x.sid] = x]
  BY DEF Paired
<1>. HIDE DEF d
<1>6. /\ e \in SState /\ e.active = d.active /\ e.released = d.released
      /\ e.sessions = d.sessions /\ e.ws = d.ws
      /\ \A q \in Peer : q # x.sender => e.idle[q] = d.idle[q]
  BY <1>1, <1>4 DEF SState
<1>7. Kept(e, A, R) BY <1>1, <1>3, <1>6, KeptSame
<1>8. u = Paired(s, x) BY <1>5
<1>. HIDE DEF e
<1>9. Kept(u, A, R) BY <1>1, <1>7, KeptWrite
<1>. HIDE DEF u
<1>10. Kept(r, A, R) BY <1>1, <1>9, KeptSend
<1>. HIDE DEF r
<1>11. Kept(b, A, R) BY <1>1, <1>10, KeptSend
<1>. HIDE DEF b
<1>12. Kept(RestoreWaitingReceiver(b, x, TRUE), A, R) BY <1>11, KeptRestore
<1>13. Kept(DeleteSession(r, x.sid), A, R) BY <1>1, <1>10, KeptBasic
<1>14. Kept(Clear(DeleteSession(r, x.sid), x.sender), A, R) BY <1>1, <1>13, KeptBasic
<1>15. Kept(undone, A, R) BY <1>1, <1>14, KeptBasic
<1>. HIDE DEF undone
<1>16. Kept(Close(undone, x.receiver), A, R) BY <1>1, <1>15, KeptClose
<1>17. Kept(Fail(Close(undone, x.receiver), x.sender), A, R) BY <1>1, <1>16, KeptSend
<1>18. QED BY <1>8, <1>11, <1>12, <1>17 DEF Announce, r, b, undone

-----------------------------------------------------------------------------
(* The invariant of the state *)

\* The connections already released.
Freed == {p \in Peer : released[p]}

\* No address is charged for more connections than it may hold.
Within == \A a \in Ip : active[a] <= MaxConnectionsPerIp

\* The inductive invariant of the counts and the phases.
Ledger == Inv /\ Kept(Current, accepted, {}) /\ Within

\* A handler starts from a record that is kept.
LEMMA EnterKept ==
  ASSUME Ledger, NEW room \in Rooms
  PROVE  Kept(Step(room), accepted, Freed) /\ accepted \in SUBSET Peer
<1>. DEFINE s == Step(room)
            u == Current
<1>1. room \in [Peer -> Nat] BY RoomsType
<1>2. s \in SState BY <1>1 DEF Ledger, Inv, TypeOK, Step, SState
<1>3. /\ s.active = u.active /\ s.released = u.released /\ s.sessions = u.sessions
      /\ s.ws = u.ws /\ s.idle = u.idle /\ s.released = released
  BY DEF Step, Current
<1>. HIDE DEF s, u
<1>4. Kept(s, accepted, {}) BY <1>2, <1>3, KeptSame DEF Ledger, u
<1>5. \A p \in Peer : p \in Freed => s.released[p] BY <1>3 DEF Freed
<1>6. QED BY <1>4, <1>5 DEF Kept, Ledger, Inv, TypeOK, s

\* What a handler leaves becomes the next state: releasing connections frees slots.
LEMMA LeaveKept ==
  ASSUME Ledger, Inv', NEW t, Kept(t, accepted, Freed), Become(t), accepted' = accepted
  PROVE  Ledger'
<1>. DEFINE u == Current'
<1>1. /\ u \in SState /\ u.active = t.active /\ u.released = t.released
      /\ u.sessions = t.sessions /\ u.ws = t.ws /\ u.idle = t.idle
      /\ active' = t.active
  <2>1. [p \in Peer |-> MaxSends] \in [Peer -> Nat] BY LimitAssumption
  <2>2. u \in SState BY <2>1 DEF Current, Step, Inv, TypeOK, SState
  <2>3. QED BY <2>2 DEF Current, Step, Become
<1>. HIDE DEF u
<1>2. Kept(t, accepted, {}) BY DEF Kept
<1>3. Kept(u, accepted, {}) BY <1>1, <1>2, KeptSame
<1>4. Within'
  <2>. SUFFICES ASSUME NEW a \in Ip PROVE active'[a] <= MaxConnectionsPerIp BY DEF Within
  <2>. DEFINE H == Held(Current, accepted, a)
              K == Held(t, accepted, a)
  <2>1. active'[a] = Cardinality(K) BY <1>1 DEF Kept
  <2>2. Current.released = released /\ Current.active = active BY DEF Current, Step
  <2>3. active[a] = Cardinality(H) BY <2>2 DEF Ledger, Kept
  <2>4. K \in SUBSET H BY <2>2 DEF Held, Kept, Freed
  <2>5. IsFiniteSet(H)
    <3>1. H \in SUBSET Peer BY DEF Held
    <3>2. QED BY <3>1, FS_Subset, PeerAssumption
  <2>. HIDE DEF H, K
  <2>6. /\ Cardinality(K) <= Cardinality(H) /\ Cardinality(K) \in Nat
        /\ Cardinality(H) \in Nat
    BY <2>4, <2>5, FS_Subset, FS_CardinalityType
  <2>7. active[a] <= MaxConnectionsPerIp BY DEF Ledger, Within
  <2>8. QED BY <2>1, <2>3, <2>6, <2>7, LimitAssumption
<1>5. QED BY <1>3, <1>4 DEF Ledger, u
-----------------------------------------------------------------------------
(* One step per action *)

\* wss "connection": one more slot is held, and at the limit it is given back at once.
LEMMA ConnectionKept ==
  ASSUME Ledger, Inv', NEW p \in Peer, Connection(p)
  PROVE  Ledger'
<1>1. PICK room \in Rooms :
        LET s == [Step(room) EXCEPT !.ws[p] = "open", !.active[IpOf[p]] = @ + 1]
        IN  Become(IF s.active[IpOf[p]] > MaxConnectionsPerIp
                   THEN Close(Fail(s, p), p) ELSE [s EXCEPT !.idle[p] = TRUE])
  BY DEF Connection
<1>. DEFINE b == Step(room)
            h == IpOf[p]
            s == [b EXCEPT !.ws[p] = "open", !.active[h] = b.active[h] + 1]
            i == [s EXCEPT !.idle[p] = TRUE]
            c == Close(Fail(s, p), p)
            A == accepted \cup {p}
            u == Current'
<1>2. Kept(b, accepted, Freed) /\ accepted \in SUBSET Peer BY EnterKept
<1>3. p \notin accepted /\ accepted' = A BY DEF Connection
<1>4. A \in SUBSET Peer /\ p \in A BY <1>2
<1>5. /\ b \in SState /\ b.active \in [Ip -> Nat] /\ h \in Ip
      /\ b.released \in [Peer -> BOOLEAN] /\ b.ws \in [Peer -> {"open", "closing", "closed"}]
      /\ b.idle \in [Peer -> BOOLEAN]
  BY <1>2, IpAssumption DEF Kept, SState
<1>6. b.active = active /\ b.released = released BY DEF Step
<1>7. \/ s.active[h] > MaxConnectionsPerIp /\ Become(c)
      \/ ~(s.active[h] > MaxConnectionsPerIp) /\ Become(i)
  BY <1>1
<1>. HIDE DEF b, h
<1>8. b.active[h] + 1 \in Nat BY <1>5
<1>9. /\ s \in SState /\ s.sessions = b.sessions /\ s.released = b.released /\ s.idle = b.idle
      /\ s.active = [b.active EXCEPT ![h] = b.active[h] + 1]
      /\ s.ws = [b.ws EXCEPT ![p] = "open"]
  BY <1>5, <1>8 DEF SState
<1>. HIDE DEF s
<1>10. \A a \in Ip : a # h => Held(s, A, a) = Held(b, accepted, a)
  BY <1>9 DEF Held, h
<1>11. /\ Held(s, A, h) = Held(b, accepted, h) \cup {p} /\ p \notin Held(b, accepted, h)
  BY <1>2, <1>3, <1>9 DEF Held, Kept, h
<1>12. \A a \in Ip : IsFiniteSet(Held(b, accepted, a))
  <2>. SUFFICES ASSUME NEW a \in Ip PROVE IsFiniteSet(Held(b, accepted, a)) OBVIOUS
  <2>1. Held(b, accepted, a) \in SUBSET Peer BY DEF Held
  <2>2. QED BY <2>1, FS_Subset, PeerAssumption
<1>13. Cardinality(Held(s, A, h)) = Cardinality(Held(b, accepted, h)) + 1
  <2>1. IsFiniteSet(Held(b, accepted, h)) BY <1>5, <1>12
  <2>2. QED BY <2>1, <1>11, FS_AddElement
<1>14. \A a \in Ip : s.active[a] = Cardinality(Held(s, A, a))
  <2>. SUFFICES ASSUME NEW a \in Ip PROVE s.active[a] = Cardinality(Held(s, A, a)) OBVIOUS
  <2>1. b.active[a] = Cardinality(Held(b, accepted, a)) BY <1>2 DEF Kept
  <2>2. CASE a = h BY <1>5, <1>9, <1>13, <2>1, <2>2
  <2>3. CASE a # h
    <3>1. s.active[a] = b.active[a] BY <1>5, <1>9, <2>3
    <3>2. QED BY <1>10, <2>1, <2>3, <3>1
  <2>4. QED BY <2>2, <2>3
<1>15. \A j \in SessionId : s.sessions[j].sid # NoSid =>
         Party(s.sessions[j], A) /\ Confirmed(s.sessions[j])
  BY <1>2, <1>9 DEF Kept, Party
<1>16. Kept(s, A, Freed)
  <2>1. \A q \in Peer : q \notin A => ~s.released[q] /\ ~s.idle[q] /\ s.ws[q] = "closed"
    BY <1>2, <1>5, <1>9 DEF Kept
  <2>2. \A q \in Peer : q \in Freed => s.released[q] BY <1>2, <1>9 DEF Kept
  <2>3. QED BY <1>9, <1>14, <1>15, <2>1, <2>2 DEF Kept
<1>17. /\ i \in SState /\ i.active = s.active /\ i.released = s.released
       /\ i.sessions = s.sessions /\ i.ws = s.ws
       /\ \A q \in Peer : q # p => i.idle[q] = s.idle[q]
  BY <1>9 DEF SState
<1>18. Kept(i, A, Freed) BY <1>4, <1>16, <1>17, KeptSame
<1>. HIDE DEF i
<1>19. Kept(c, A, Freed) /\ c.released[p]
  <2>1. Kept(Fail(s, p), A, Freed) BY <1>4, <1>16, KeptSend
  <2>2. QED BY <1>4, <2>1, KeptClose
<1>. HIDE DEF c, A
<1>20. PICK t : /\ Become(t) /\ Kept(t, A, Freed)
                /\ \/ t = i /\ ~(s.active[h] > MaxConnectionsPerIp)
                   \/ t = c /\ c.released[p]
  <2>1. CASE Become(c) BY <1>19, <2>1
  <2>2. CASE ~(s.active[h] > MaxConnectionsPerIp) /\ Become(i) BY <1>18, <2>2
  <2>3. QED BY <1>7, <2>1, <2>2
<1>21. /\ u \in SState /\ u.active = t.active /\ u.released = t.released
       /\ u.sessions = t.sessions /\ u.ws = t.ws /\ u.idle = t.idle
       /\ active' = t.active
  <2>1. [q \in Peer |-> MaxSends] \in [Peer -> Nat] BY LimitAssumption
  <2>2. u \in SState BY <2>1 DEF Current, Step, Inv, TypeOK, SState
  <2>3. QED BY <1>20, <2>2 DEF Current, Step, Become
<1>. HIDE DEF u
<1>22. Kept(u, A, {})
  <2>1. Kept(t, A, {}) BY <1>20 DEF Kept
  <2>2. QED BY <1>21, <2>1, KeptSame
<1>23. Within'
  <2>. SUFFICES ASSUME NEW a \in Ip PROVE active'[a] <= MaxConnectionsPerIp BY DEF Within
  <2>1. active[a] <= MaxConnectionsPerIp /\ active[a] \in Nat
    BY DEF Ledger, Within, Inv, TypeOK
  <2>2. CASE t = i /\ ~(s.active[h] > MaxConnectionsPerIp)
    <3>1. active'[a] = s.active[a] BY <1>17, <1>21, <2>2
    <3>2. CASE a = h
      <4>1. s.active[h] \in Nat BY <1>5, <1>8, <1>9
      <4>2. QED BY <1>20, <2>2, <3>1, <3>2, <4>1, LimitAssumption
    <3>3. CASE a # h BY <1>5, <1>6, <1>9, <2>1, <3>1, <3>3
    <3>4. QED BY <3>2, <3>3
  <2>3. CASE t = c /\ c.released[p]
    <3>. DEFINE H == Held(b, accepted, a)
                K == Held(c, A, a)
    <3>1. active'[a] = Cardinality(K) BY <1>19, <1>21, <2>3 DEF Kept
    <3>2. active[a] = Cardinality(H) BY <1>2, <1>6 DEF Kept
    <3>3. K \in SUBSET H
      <4>1. \A q \in Peer : ~c.released[q] => ~b.released[q]
        BY <1>6, <1>19 DEF Kept, Freed
      <4>2. QED BY <2>3, <4>1 DEF Held, A
    <3>4. IsFiniteSet(H) BY <1>12
    <3>. HIDE DEF H, K
    <3>5. Cardinality(K) <= Cardinality(H) /\ Cardinality(K) \in Nat
      BY <3>3, <3>4, FS_Subset, FS_CardinalityType
    <3>6. QED BY <2>1, <3>1, <3>2, <3>5, LimitAssumption
  <2>4. QED BY <1>20, <2>2, <2>3
<1>24. QED BY <1>3, <1>22, <1>23 DEF Ledger, u, A

\* The other callbacks of a socket, and what any connection may be answered.
LEMMA SocketKept ==
  ASSUME Ledger, Inv', NEW p \in Peer, Socket(p)
  PROVE  Ledger'
<1>. DEFINE A == accepted
<1>1. CASE Connection(p) BY <1>1, ConnectionKept
<1>2. \A q \in Peer : q \notin accepted => ~idle[q] /\ ws[q] = "closed"
  <2>1. Current.idle = idle /\ Current.ws = ws BY DEF Current, Step
  <2>2. QED BY <2>1 DEF Ledger, Kept
<1>3. CASE CloseEvent(p)
  <2>1. PICK room \in Rooms :
          Become(CleanupPeer(Release([Step(room) EXCEPT !.ws[p] = "closed"], p), p))
    BY <1>3 DEF CloseEvent
  <2>. DEFINE b == Step(room)
              s == [b EXCEPT !.ws[p] = "closed"]
  <2>2. Kept(b, A, Freed) /\ A \in SUBSET Peer BY EnterKept
  <2>3. p \in A BY <1>2, <1>3 DEF CloseEvent, CloseDue
  <2>4. b \in SState BY <2>2 DEF Kept
  <2>5. Become(CleanupPeer(Release(s, p), p)) BY <2>1
  <2>. HIDE DEF b
  <2>6. /\ s \in SState /\ s.active = b.active /\ s.released = b.released
        /\ s.sessions = b.sessions /\ s.idle = b.idle
        /\ \A q \in Peer : q # p => s.ws[q] = b.ws[q]
    BY <2>4 DEF SState
  <2>7. Kept(s, A, Freed) BY <2>2, <2>3, <2>6, KeptSame
  <2>. HIDE DEF s
  <2>8. Kept(Release(s, p), A, Freed) BY <2>2, <2>3, <2>7, KeptRelease
  <2>9. Kept(CleanupPeer(Release(s, p), p), A, Freed) BY <2>2, <2>3, <2>8, KeptCleanup
  <2>10. QED BY <1>3, <2>5, <2>9, LeaveKept DEF CloseEvent
<1>4. CASE SocketError(p)
  <2>1. PICK room \in Rooms : Become(Release(CleanupPeer(Shut(Step(room), p), p), p))
    BY <1>4 DEF SocketError
  <2>. DEFINE b == Step(room)
  <2>2. Kept(b, A, Freed) /\ A \in SUBSET Peer BY EnterKept
  <2>3. p \in A BY <1>2, <1>4 DEF SocketError
  <2>4. Become(Release(CleanupPeer(Shut(b, p), p), p)) BY <2>1
  <2>. HIDE DEF b
  <2>5. Kept(Shut(b, p), A, Freed) BY <2>2, <2>3, KeptBasic
  <2>6. Kept(CleanupPeer(Shut(b, p), p), A, Freed) BY <2>2, <2>3, <2>5, KeptCleanup
  <2>7. Kept(Release(CleanupPeer(Shut(b, p), p), p), A, Freed)
    BY <2>2, <2>3, <2>6, KeptRelease
  <2>8. QED BY <1>4, <2>4, <2>7, LeaveKept DEF SocketError
<1>5. CASE HeartbeatTimeout(p) \/ HeartbeatError(p)
  <2>1. PICK room \in Rooms : Become(Terminate(Step(room), p))
    BY <1>5 DEF HeartbeatTimeout, HeartbeatError
  <2>. DEFINE b == Step(room)
  <2>2. Kept(b, A, Freed) /\ A \in SUBSET Peer BY EnterKept
  <2>3. p \in A /\ accepted' = accepted BY <1>5 DEF HeartbeatTimeout, HeartbeatError, Accepts
  <2>4. Become(Shut(Release(CleanupPeer(b, p), p), p)) BY <2>1 DEF Terminate
  <2>. HIDE DEF b
  <2>5. Kept(CleanupPeer(b, p), A, Freed) BY <2>2, <2>3, KeptCleanup
  <2>6. Kept(Release(CleanupPeer(b, p), p), A, Freed) BY <2>2, <2>3, <2>5, KeptRelease
  <2>7. Kept(Shut(Release(CleanupPeer(b, p), p), p), A, Freed) BY <2>2, <2>3, <2>6, KeptBasic
  <2>8. QED BY <2>3, <2>4, <2>7, LeaveKept
<1>6. CASE IdleTimeout(p)
  <2>1. Kept(Current, A, Freed) /\ A \in SUBSET Peer
    BY DEF Ledger, Kept, Freed, Current, Step, Inv, TypeOK
  <2>2. p \in A BY <1>2, <1>6 DEF IdleTimeout
  <2>3. Kept(Close(Current, p), A, Freed) BY <2>1, <2>2, KeptClose
  <2>4. QED BY <1>6, <2>3, LeaveKept DEF IdleTimeout
<1>7. CASE RemoteClose(p) \/ HeartbeatPing(p) \/ Pong(p)
  <2>. DEFINE b == Current
              u == Current'
  <2>1. /\ active' = active /\ released' = released /\ sessions' = sessions /\ idle' = idle
        /\ accepted' = accepted /\ \A q \in Peer : q \notin accepted => ws'[q] = ws[q]
    <3>1. ws[p] = "open" => p \in accepted BY <1>2
    <3>2. ws \in [Peer -> {"open", "closing", "closed"}] BY DEF Ledger, Inv, TypeOK
    <3>3. QED BY <1>7, <3>1, <3>2 DEF RemoteClose, HeartbeatPing, Pong
  <2>2. [q \in Peer |-> MaxSends] \in [Peer -> Nat] BY LimitAssumption
  <2>3. u \in SState BY <2>2 DEF Current, Step, Inv, TypeOK, SState
  <2>4. /\ u.active = b.active /\ u.released = b.released /\ u.sessions = b.sessions
        /\ u.idle = b.idle /\ \A q \in Peer : q \notin accepted => u.ws[q] = b.ws[q]
    BY <2>1 DEF Current, Step
  <2>. HIDE DEF b, u
  <2>5. Kept(u, accepted, {}) BY <2>3, <2>4, KeptSame DEF Ledger, b
  <2>6. QED BY <2>1, <2>5 DEF Ledger, Within, u
<1>8. QED BY <1>1, <1>3, <1>4, <1>5, <1>6, <1>7 DEF Socket
\* A session in the table, seen from the record a handler starts with.
LEMMA EnterSession ==
  ASSUME Ledger, NEW i \in LiveSids
  PROVE  Party(sessions[i], accepted) /\ Confirmed(sessions[i]) /\ i \in SessionId
<1>1. Current.sessions = sessions BY DEF Current, Step
<1>2. QED BY <1>1 DEF Ledger, Kept, LiveSids

\* Messages that are answered, limited or refused, and bye.
LEMMA OtherMessageKept ==
  ASSUME Ledger, Inv', NEW p \in Peer,
         \/ MessageLimit(p) \/ Malformed(p) \/ Refused(p)
         \/ RetryWaiting(p) \/ RetryPaired(p) \/ Bye(p)
  PROVE  Ledger'
<1>. DEFINE A == accepted
<1>1. p \in A /\ accepted' = accepted
  BY DEF MessageLimit, Malformed, Refused, RetryWaiting, RetryPaired, Bye, Accepts
<1>2. A \in SUBSET Peer BY DEF Ledger, Inv, TypeOK
<1>3. CASE MessageLimit(p)
  <2>1. PICK room \in Rooms : Become(Close(Fail(Step(room), p), p)) BY <1>3 DEF MessageLimit
  <2>2. Kept(Step(room), A, Freed) BY EnterKept
  <2>3. Kept(Fail(Step(room), p), A, Freed) BY <1>1, <1>2, <2>2, KeptSend
  <2>4. Kept(Close(Fail(Step(room), p), p), A, Freed) BY <1>1, <1>2, <2>3, KeptClose
  <2>5. QED BY <1>1, <2>1, <2>4, LeaveKept
<1>4. CASE Malformed(p)
  <2>1. PICK room \in Rooms : Become(BadMessage(Step(room), p)) BY <1>4 DEF Malformed
  <2>2. Kept(Step(room), A, Freed) BY EnterKept
  <2>3. Kept(BadMessage(Step(room), p), A, Freed) BY <1>1, <1>2, <2>2, KeptBadMessage
  <2>4. QED BY <1>1, <2>1, <2>3, LeaveKept
<1>5. CASE Refused(p)
  <2>1. PICK room \in Rooms : Become(Fail(Step(room), p)) BY <1>5 DEF Refused
  <2>2. Kept(Step(room), A, Freed) BY EnterKept
  <2>3. Kept(Fail(Step(room), p), A, Freed) BY <1>1, <1>2, <2>2, KeptSend
  <2>4. QED BY <1>1, <2>1, <2>3, LeaveKept
<1>6. CASE RetryWaiting(p)
  <2>. DEFINE c == code[p]
  <2>1. PICK room \in Rooms :
          Become(IF Available(c) THEN Send(Step(room), p, "registered")
                 ELSE Close(Fail(Clear(DeleteCode(Step(room), c), p), p), p))
    BY <1>6 DEF RetryWaiting
  <2>2. Kept(Step(room), A, Freed) BY EnterKept
  <2>3. c \in Code
    BY <1>6 DEF RetryWaiting, OwnsCode, Current, Step, Ledger, Inv, TypeOK
  <2>. HIDE DEF c
  <2>4. Kept(Send(Step(room), p, "registered"), A, Freed) BY <1>1, <1>2, <2>2, KeptSend
  <2>5. Kept(DeleteCode(Step(room), c), A, Freed) BY <1>1, <1>2, <2>2, <2>3, KeptBasic
  <2>6. Kept(Clear(DeleteCode(Step(room), c), p), A, Freed) BY <1>1, <1>2, <2>5, KeptBasic
  <2>7. Kept(Fail(Clear(DeleteCode(Step(room), c), p), p), A, Freed)
    BY <1>1, <1>2, <2>6, KeptSend
  <2>8. Kept(Close(Fail(Clear(DeleteCode(Step(room), c), p), p), p), A, Freed)
    BY <1>1, <1>2, <2>7, KeptClose
  <2>9. QED BY <1>1, <2>1, <2>4, <2>8, LeaveKept
<1>7. CASE RetryPaired(p)
  <2>. DEFINE x == sessions[sid[p]]
  <2>1. PICK room \in Rooms : Become(RestoreWaitingReceiver(Step(room), x, FALSE))
    BY <1>7 DEF RetryPaired
  <2>2. Kept(Step(room), A, Freed) BY EnterKept
  <2>3. Party(x, A) BY <1>7, EnterSession DEF RetryPaired
  <2>. HIDE DEF x
  <2>4. Kept(RestoreWaitingReceiver(Step(room), x, FALSE), A, Freed)
    BY <1>2, <2>2, <2>3, KeptRestore
  <2>5. QED BY <1>1, <2>1, <2>4, LeaveKept
<1>8. CASE Bye(p)
  <2>1. PICK room \in Rooms : Become(Close(CleanupPeer(Step(room), p), p)) BY <1>8 DEF Bye
  <2>2. Kept(Step(room), A, Freed) BY EnterKept
  <2>3. Kept(CleanupPeer(Step(room), p), A, Freed) BY <1>1, <1>2, <2>2, KeptCleanup
  <2>4. Kept(Close(CleanupPeer(Step(room), p), p), A, Freed) BY <1>1, <1>2, <2>3, KeptClose
  <2>5. QED BY <1>1, <2>1, <2>4, LeaveKept
<1>9. QED BY <1>3, <1>4, <1>5, <1>6, <1>7, <1>8

\* register.
LEMMA RegisterKept ==
  ASSUME Ledger, Inv', NEW p \in Peer, NEW c \in Code,
         \/ RegisterAgain(p, c) \/ RegisterExpired(p, c)
         \/ RegisterFresh(p, c) \/ RegisterRefused(p, c)
  PROVE  Ledger'
<1>. DEFINE A == accepted
<1>1. p \in A /\ accepted' = accepted
  BY DEF RegisterAgain, RegisterExpired, RegisterFresh, RegisterRefused, MayRegister, Accepts
<1>2. A \in SUBSET Peer BY DEF Ledger, Inv, TypeOK
<1>3. CASE RegisterAgain(p, c)
  <2>1. PICK room \in Rooms :
          Become(Send([Step(room) EXCEPT !.role[p] = "receiver", !.code[p] = c,
                                         !.idle[p] = FALSE], p, "registered"))
    BY <1>3 DEF RegisterAgain
  <2>. DEFINE b == Step(room)
              t == [b EXCEPT !.role[p] = "receiver", !.code[p] = c, !.idle[p] = FALSE]
  <2>2. Kept(b, A, Freed) /\ b \in SState BY EnterKept DEF Kept
  <2>3. Become(Send(t, p, "registered")) BY <2>1
  <2>. HIDE DEF b
  <2>4. /\ t \in SState /\ t.active = b.active /\ t.released = b.released
        /\ t.sessions = b.sessions /\ t.ws = b.ws
        /\ \A q \in Peer : q # p => t.idle[q] = b.idle[q]
    BY <2>2 DEF SState
  <2>. HIDE DEF t
  <2>5. Kept(t, A, Freed) BY <1>1, <2>2, <2>4, KeptSame
  <2>6. Kept(Send(t, p, "registered"), A, Freed) BY <1>1, <1>2, <2>5, KeptSend
  <2>7. QED BY <1>1, <2>3, <2>6, LeaveKept
<1>4. CASE RegisterExpired(p, c)
  <2>1. PICK room \in Rooms :
          Become(Close(Fail(Clear(DeleteCode(Step(room), c), p), p), p))
    BY <1>4 DEF RegisterExpired
  <2>2. Kept(Step(room), A, Freed) BY EnterKept
  <2>3. Kept(DeleteCode(Step(room), c), A, Freed) BY <1>1, <1>2, <2>2, KeptBasic
  <2>4. Kept(Clear(DeleteCode(Step(room), c), p), A, Freed) BY <1>1, <1>2, <2>3, KeptBasic
  <2>5. Kept(Fail(Clear(DeleteCode(Step(room), c), p), p), A, Freed)
    BY <1>1, <1>2, <2>4, KeptSend
  <2>6. Kept(Close(Fail(Clear(DeleteCode(Step(room), c), p), p), p), A, Freed)
    BY <1>1, <1>2, <2>5, KeptClose
  <2>7. QED BY <1>1, <2>1, <2>6, LeaveKept
<1>5. CASE RegisterFresh(p, c)
  <2>. DEFINE e == [receiver |-> p, ttl |-> CodeTtl, remaining |-> MaxPrePairAttempts]
  <2>1. PICK room \in Rooms :
          Become(Send([DropCode(Step(room), p) EXCEPT
                         !.role[p] = "receiver", !.code[p] = c, !.idle[p] = FALSE,
                         !.codes[c] = e], p, "registered"))
    BY <1>5 DEF RegisterFresh
  <2>. DEFINE b == DropCode(Step(room), p)
              t == [b EXCEPT !.role[p] = "receiver", !.code[p] = c, !.idle[p] = FALSE,
                             !.codes[c] = e]
  <2>2. Kept(Step(room), A, Freed) BY EnterKept
  <2>3. Kept(b, A, Freed) BY <1>1, <1>2, <2>2, KeptBasic
  <2>4. b \in SState BY <2>3 DEF Kept
  <2>5. Become(Send(t, p, "registered")) BY <2>1
  <2>6. e \in CodeEntry BY LimitAssumption DEF CodeEntry
  <2>. HIDE DEF b, e
  <2>7. /\ t \in SState /\ t.active = b.active /\ t.released = b.released
        /\ t.sessions = b.sessions /\ t.ws = b.ws
        /\ \A q \in Peer : q # p => t.idle[q] = b.idle[q]
    BY <2>4, <2>6 DEF SState
  <2>. HIDE DEF t
  <2>8. Kept(t, A, Freed) BY <1>1, <2>3, <2>7, KeptSame
  <2>9. Kept(Send(t, p, "registered"), A, Freed) BY <1>1, <1>2, <2>8, KeptSend
  <2>10. QED BY <1>1, <2>5, <2>9, LeaveKept
<1>6. CASE RegisterRefused(p, c)
  <2>1. PICK room \in Rooms : Become(Fail(Step(room), p)) BY <1>6 DEF RegisterRefused
  <2>2. Kept(Step(room), A, Freed) BY EnterKept
  <2>3. Kept(Fail(Step(room), p), A, Freed) BY <1>1, <1>2, <2>2, KeptSend
  <2>4. QED BY <1>1, <2>1, <2>3, LeaveKept
<1>7. QED BY <1>3, <1>4, <1>5, <1>6

\* connect.
LEMMA ConnectKept ==
  ASSUME Ledger, Inv', NEW p \in Peer, NEW c \in Code,
         ConnectExpired(p, c) \/ ConnectRefused(p, c) \/ Connect(p, c)
  PROVE  Ledger'
<1>. DEFINE A == accepted
            r == codes[c].receiver
<1>1. p \in A /\ accepted' = accepted
  BY DEF ConnectExpired, ConnectRefused, Connect, MayConnect, Accepts
<1>2. A \in SUBSET Peer BY DEF Ledger, Inv, TypeOK
<1>3. r # NoPeer => r \in A /\ codes[c].remaining > 0
  BY DEF Ledger, Inv, RegistryConsistent, CodesLinked, Waiting
<1>4. CASE ConnectExpired(p, c)
  <2>1. PICK room \in Rooms :
          Become(Fail(Close(Fail(Clear(DeleteCode(Step(room), c), r), r), r), p))
    BY <1>4 DEF ConnectExpired
  <2>2. r \in A BY <1>3, <1>4 DEF ConnectExpired
  <2>. HIDE DEF r
  <2>3. Kept(Step(room), A, Freed) BY EnterKept
  <2>4. Kept(DeleteCode(Step(room), c), A, Freed) BY <1>1, <1>2, <2>3, KeptBasic
  <2>5. Kept(Clear(DeleteCode(Step(room), c), r), A, Freed) BY <1>2, <2>2, <2>4, KeptBasic
  <2>6. Kept(Fail(Clear(DeleteCode(Step(room), c), r), r), A, Freed)
    BY <1>2, <2>2, <2>5, KeptSend
  <2>7. Kept(Close(Fail(Clear(DeleteCode(Step(room), c), r), r), r), A, Freed)
    BY <1>2, <2>2, <2>6, KeptClose
  <2>8. Kept(Fail(Close(Fail(Clear(DeleteCode(Step(room), c), r), r), r), p), A, Freed)
    BY <1>1, <1>2, <2>7, KeptSend
  <2>9. QED BY <1>1, <2>1, <2>8, LeaveKept
<1>5. CASE ConnectRefused(p, c)
  <2>1. PICK room \in Rooms : Become(Fail(Step(room), p)) BY <1>5 DEF ConnectRefused
  <2>2. Kept(Step(room), A, Freed) BY EnterKept
  <2>3. Kept(Fail(Step(room), p), A, Freed) BY <1>1, <1>2, <2>2, KeptSend
  <2>4. QED BY <1>1, <2>1, <2>3, LeaveKept
<1>6. CASE Connect(p, c)
  <2>. DEFINE i == minted + 1
              x == NewSession(p, c, i)
  <2>1. PICK room \in Rooms : Become(Announce(Paired(Step(room), x), x))
    BY <1>6 DEF Connect
  <2>2. Kept(Step(room), A, Freed) BY EnterKept
  <2>3. r \in A /\ codes[c] \in CodeEntry /\ codes[c].remaining > 0
    BY <1>3, <1>6 DEF Connect, Ledger, Inv, TypeOK
  <2>4. i \in SessionId
    BY <1>6, LimitAssumption DEF Connect, Ledger, Inv, TypeOK, SessionId
  <2>5. /\ x.sid = i /\ x.code = c /\ x.codeTtl = codes[c].ttl /\ x.sender = p
        /\ x.receiver = r /\ x.ttl = PakeTimeout /\ x.remaining = codes[c].remaining - 1
        /\ x.seen = {} /\ x.candidates = [sender |-> 0, receiver |-> 0]
    BY DEF NewSession, NoSession
  <2>6. Party(x, A)
    <3>1. codes[c].remaining - 1 \in Nat /\ codes[c].ttl \in Nat BY <2>3 DEF CodeEntry
    <3>2. p \in Peer /\ r \in Peer BY <1>1, <1>2, <2>3
    <3>3. x \in Session
      <4>. DEFINE e == codes[c]
                  k == e.remaining - 1
      <4>1. i \in Nat /\ PakeTimeout \in Nat BY <2>4, LimitAssumption DEF SessionId
      <4>2. x = [NoSession EXCEPT
                   !.sid = i, !.code = c, !.codeTtl = e.ttl, !.sender = p,
                   !.receiver = e.receiver, !.ttl = PakeTimeout, !.remaining = k]
        BY DEF NewSession
      <4>3. NoSession \in Session BY EmptyEntries
      <4>4. e.receiver \in Peer /\ k \in Nat /\ e.ttl \in Nat BY <3>1, <3>2
      <4>. HIDE DEF x, e, i, k
      <4>5. QED BY <4>1, <4>2, <4>3, <4>4 DEF Session
    <3>4. QED BY <1>1, <2>3, <2>4, <2>5, <3>3 DEF Party
  <2>7. Confirmed(x) BY <2>5 DEF Confirmed
  <2>. HIDE DEF x
  <2>8. Kept(Announce(Paired(Step(room), x), x), A, Freed)
    BY <1>2, <2>2, <2>6, <2>7, KeptConnect
  <2>9. QED BY <1>1, <2>1, <2>8, LeaveKept
<1>7. QED BY <1>4, <1>5, <1>6

\* relay.
LEMMA RelayKept ==
  ASSUME Ledger, Inv', NEW p \in Peer, NEW i \in SessionId,
         \/ RelayPairAccept(p, i)
         \/ \E m \in RelayMessage :
              RelayRejected(p, i, m) \/ RelayUndeliverable(p, i, m) \/ RelayForward(p, i, m)
  PROVE  Ledger'
<1>. DEFINE A == accepted
            x == sessions[i]
<1>1. InSession(p, i) /\ accepted' = accepted
  BY DEF RelayPairAccept, RelayRejected, RelayUndeliverable, RelayForward
<1>2. p \in A BY <1>1 DEF InSession, Accepts
<1>3. A \in SUBSET Peer BY DEF Ledger, Inv, TypeOK
<1>4. Party(x, A) /\ Confirmed(x) BY <1>1, EnterSession DEF InSession
<1>5. Other(x, p) \in A BY <1>4 DEF Party, Other
<1>6. CASE RelayPairAccept(p, i)
  <2>1. PICK room \in Rooms, limited \in {NoPeer, x.sender, x.receiver} :
          Become(AcceptPair(Step(room), x, p, limited))
    BY <1>6 DEF RelayPairAccept
  <2>2. Kept(Step(room), A, Freed) BY EnterKept
  <2>3. RelayAllowedForPhase(x, p, "pair-accept") BY <1>6 DEF RelayPairAccept, RelayAllowed
  <2>4. "pair-accept" \in RelayMessage BY DEF RelayMessage
  <2>. HIDE DEF x
  <2>5. Kept(AcceptPair(Step(room), x, p, limited), A, Freed)
    BY <1>2, <1>3, <1>4, <2>2, <2>3, <2>4, KeptRelay
  <2>6. QED BY <1>1, <2>1, <2>5, LeaveKept
<1>7. ASSUME NEW m \in RelayMessage, RelayRejected(p, i, m) PROVE Ledger'
  <2>1. PICK room \in Rooms : \/ Become(RejectPrePairSender(Step(room), x, p))
                              \/ Become(BadMessage(Step(room), p))
    BY <1>7 DEF RelayRejected
  <2>2. Kept(Step(room), A, Freed) BY EnterKept
  <2>. HIDE DEF x
  <2>3. Kept(RejectPrePairSender(Step(room), x, p), A, Freed)
    BY <1>2, <1>3, <1>4, <2>2, KeptRefusal
  <2>4. Kept(BadMessage(Step(room), p), A, Freed) BY <1>2, <1>3, <2>2, KeptBadMessage
  <2>5. QED BY <1>1, <2>1, <2>3, <2>4, LeaveKept
<1>8. ASSUME NEW m \in RelayMessage, RelayUndeliverable(p, i, m) PROVE Ledger'
  <2>1. PICK room \in Rooms :
          Become(RelayDeliveryFailed(Step(room), x, p, Other(x, p), m # "pair-reject"))
    BY <1>8 DEF RelayUndeliverable
  <2>2. Kept(Step(room), A, Freed) BY EnterKept
  <2>3. (m # "pair-reject") \in BOOLEAN OBVIOUS
  <2>. HIDE DEF x
  <2>4. Kept(RelayDeliveryFailed(Step(room), x, p, Other(x, p), m # "pair-reject"), A, Freed)
    BY <1>2, <1>3, <1>4, <1>5, <2>2, <2>3, KeptRefusal
  <2>5. QED BY <1>1, <2>1, <2>4, LeaveKept
<1>9. ASSUME NEW m \in RelayMessage, RelayForward(p, i, m) PROVE Ledger'
  <2>1. PICK room \in Rooms : Become(Forward(Step(room), x, p, m)) BY <1>9 DEF RelayForward
  <2>2. Kept(Step(room), A, Freed) BY EnterKept
  <2>3. RelayAllowedForPhase(x, p, m) BY <1>9 DEF RelayForward, RelayAllowed
  <2>. HIDE DEF x
  <2>4. Kept(Forward(Step(room), x, p, m), A, Freed)
    BY <1>2, <1>3, <1>4, <2>2, <2>3, KeptRelay
  <2>5. QED BY <1>1, <2>1, <2>4, LeaveKept
<1>10. QED BY <1>6, <1>7, <1>8, <1>9

\* The timers and the shutdown.
LEMMA TimerKept ==
  ASSUME Ledger, Inv', Timer \/ Shutdown
  PROVE  Ledger'
<1>. DEFINE A == accepted
<1>1. A \in SUBSET Peer BY DEF Ledger, Inv, TypeOK
<1>2. CASE Tick \/ Shutdown
  <2>. DEFINE b == Current
              u == Current'
  <2>1. /\ active' = active /\ released' = released /\ idle' = idle /\ accepted' = accepted
        /\ \A q \in Peer : ws'[q] = ws[q] \/ ws[q] = "open"
    BY <1>2 DEF Tick, Shutdown
  <2>2. \A i \in SessionId :
          /\ sessions'[i].sid = sessions[i].sid /\ sessions'[i].code = sessions[i].code
          /\ sessions'[i].sender = sessions[i].sender
          /\ sessions'[i].receiver = sessions[i].receiver
          /\ sessions'[i].seen = sessions[i].seen
          /\ sessions'[i].candidates = sessions[i].candidates
    <3>1. CASE Shutdown BY <3>1 DEF Shutdown
    <3>2. CASE Tick
      <4>. SUFFICES ASSUME NEW i \in SessionId
           PROVE  /\ sessions'[i].sid = sessions[i].sid /\ sessions'[i].code = sessions[i].code
                  /\ sessions'[i].sender = sessions[i].sender
                  /\ sessions'[i].receiver = sessions[i].receiver
                  /\ sessions'[i].seen = sessions[i].seen
                  /\ sessions'[i].candidates = sessions[i].candidates
        OBVIOUS
      <4>1. sessions[i] \in Session BY DEF Ledger, Inv, TypeOK
      <4>2. sessions'[i] = [sessions[i] EXCEPT !.ttl = TickDown(sessions[i].ttl),
                                               !.codeTtl = TickDown(sessions[i].codeTtl)]
        BY <3>2 DEF Tick
      <4>3. QED BY <4>1, <4>2 DEF Session
    <3>3. QED BY <1>2, <3>1, <3>2
  <2>3. [q \in Peer |-> MaxSends] \in [Peer -> Nat] BY LimitAssumption
  <2>4. u \in SState BY <2>3 DEF Current, Step, Inv, TypeOK, SState
  <2>5. /\ u.active = b.active /\ u.released = b.released /\ u.idle = b.idle
        /\ u.sessions = sessions' /\ b.sessions = sessions /\ u.ws = ws' /\ b.ws = ws
    BY <2>1 DEF Current, Step
  <2>6. Kept(b, accepted, {}) BY DEF Ledger
  <2>. HIDE DEF b, u
  <2>7. \A i \in SessionId : u.sessions[i].sid # NoSid =>
          Party(u.sessions[i], accepted) /\ Confirmed(u.sessions[i])
    <3>. SUFFICES ASSUME NEW i \in SessionId, u.sessions[i].sid # NoSid
         PROVE  Party(u.sessions[i], accepted) /\ Confirmed(u.sessions[i])
      OBVIOUS
    <3>1. Party(b.sessions[i], accepted) /\ Confirmed(b.sessions[i])
      BY <2>2, <2>5, <2>6 DEF Kept
    <3>2. u.sessions[i] \in Session BY <2>4 DEF SState
    <3>3. QED BY <2>2, <2>5, <3>1, <3>2 DEF Party, Confirmed
  <2>8. \A a \in Ip : Held(u, accepted, a) = Held(b, accepted, a) BY <2>5 DEF Held
  <2>9. \A a \in Ip : u.active[a] = Cardinality(Held(u, accepted, a))
    BY <2>5, <2>6, <2>8 DEF Kept
  <2>10. \A q \in Peer : q \notin accepted => ~u.released[q] /\ ~u.idle[q] /\ u.ws[q] = "closed"
    BY <2>1, <2>5, <2>6 DEF Kept
  <2>11. Kept(u, accepted, {}) BY <2>4, <2>7, <2>9, <2>10 DEF Kept
  <2>12. QED BY <2>1, <2>11 DEF Ledger, Within, u
<1>3. ASSUME NEW c \in Code, ExpireCode(c) PROVE Ledger'
  <2>. DEFINE r == codes[c].receiver
  <2>1. PICK room \in Rooms :
          Become(DeleteCode(Close(Clear(Fail(Step(room), r), r), r), c))
    BY <1>3 DEF ExpireCode
  <2>2. r \in A
    BY <1>3 DEF ExpireCode, CodeDue, Ledger, Inv, RegistryConsistent, CodesLinked, Waiting
  <2>. HIDE DEF r
  <2>3. Kept(Step(room), A, Freed) BY EnterKept
  <2>4. Kept(Fail(Step(room), r), A, Freed) BY <1>1, <2>2, <2>3, KeptSend
  <2>5. Kept(Clear(Fail(Step(room), r), r), A, Freed) BY <1>1, <2>2, <2>4, KeptBasic
  <2>6. Kept(Close(Clear(Fail(Step(room), r), r), r), A, Freed) BY <1>1, <2>2, <2>5, KeptClose
  <2>7. Kept(DeleteCode(Close(Clear(Fail(Step(room), r), r), r), c), A, Freed)
    BY <1>1, <2>2, <2>6, KeptBasic
  <2>8. QED BY <1>3, <2>1, <2>7, LeaveKept DEF ExpireCode
<1>4. ASSUME NEW i \in SessionId, ExpireSession(i) PROVE Ledger'
  <2>. DEFINE x == sessions[i]
  <2>1. PICK room \in Rooms :
          \/ Become(RestoreWaitingReceiver(Step(room), x, TRUE))
          \/ Become(CloseSessionPeers(Send(Send(Step(room), x.sender, "peer-left"),
                                           x.receiver, "peer-left"), x))
    BY <1>4 DEF ExpireSession
  <2>2. Party(x, A) BY <1>4, EnterSession DEF ExpireSession, SessionDue, LiveSids
  <2>. HIDE DEF x
  <2>3. x.sender \in A /\ x.receiver \in A BY <2>2 DEF Party
  <2>. DEFINE f == Send(Step(room), x.sender, "peer-left")
              g == Send(f, x.receiver, "peer-left")
  <2>4. Kept(Step(room), A, Freed) BY EnterKept
  <2>5. Kept(f, A, Freed) BY <1>1, <2>3, <2>4, KeptSend
  <2>6. Kept(g, A, Freed) BY <1>1, <2>3, <2>5, KeptSend
  <2>7. Kept(CloseSessionPeers(g, x), A, Freed) BY <1>1, <2>2, <2>6, KeptEnding
  <2>8. Kept(RestoreWaitingReceiver(Step(room), x, TRUE), A, Freed)
    BY <1>1, <2>2, <2>4, KeptRestore
  <2>9. QED BY <1>4, <2>1, <2>7, <2>8, LeaveKept DEF ExpireSession
<1>5. QED BY <1>2, <1>3, <1>4 DEF Timer

-----------------------------------------------------------------------------

\* The first state: nobody is accepted and nothing is counted.
LEMMA InitLedger == Init => Ledger
<1>. SUFFICES ASSUME Init PROVE Ledger OBVIOUS
<1>. DEFINE u == Current
<1>1. Inv BY InitInv
<1>2. u \in SState
  <2>1. [q \in Peer |-> MaxSends] \in [Peer -> Nat] BY LimitAssumption
  <2>2. QED BY <1>1, <2>1 DEF Current, Step, Inv, TypeOK, SState
<1>3. /\ u.active = active /\ u.released = released /\ u.idle = idle /\ u.ws = ws
      /\ u.sessions = sessions
  BY DEF Current, Step
<1>. HIDE DEF u
<1>4. \A i \in SessionId : u.sessions[i].sid = NoSid BY <1>3 DEF Init, NoSession
<1>5. \A a \in Ip : Held(u, accepted, a) = {} BY DEF Held, Init
<1>6. \A a \in Ip : u.active[a] = Cardinality(Held(u, accepted, a))
  BY <1>3, <1>5, FS_EmptySet DEF Init
<1>7. \A q \in Peer : ~u.released[q] /\ ~u.idle[q] /\ u.ws[q] = "closed"
  BY <1>3 DEF Init
<1>8. Kept(u, accepted, {}) BY <1>2, <1>4, <1>6, <1>7 DEF Kept
<1>9. Within BY LimitAssumption DEF Within, Init
<1>10. QED BY <1>1, <1>8, <1>9 DEF Ledger, u

\* Every callback keeps the counts and the phases.
LEMMA NextLedger == Ledger /\ [Next]_vars => Ledger'
<1>. SUFFICES ASSUME Ledger, [Next]_vars PROVE Ledger' OBVIOUS
<1>1. Inv' BY NextInv DEF Ledger
<1>2. ASSUME NEW p \in Peer, Socket(p) PROVE Ledger' BY <1>1, <1>2, SocketKept
<1>3. ASSUME NEW p \in Peer, Message(p) PROVE Ledger'
  BY <1>1, <1>3, OtherMessageKept, RegisterKept, ConnectKept, RelayKept DEF Message
<1>4. CASE Timer \/ Shutdown BY <1>1, <1>4, TimerKept
<1>5. CASE UNCHANGED vars
  <2>1. Current' = Current BY <1>5 DEF vars, Current, Step
  <2>2. QED BY <1>1, <1>5, <2>1 DEF Ledger, Within, vars
<1>6. QED BY <1>2, <1>3, <1>4, <1>5 DEF Next

\* activeConnections is exact after every callback of src/server/index.ts: each address is
\* charged for its accepted connections that were not released, whichever of the many
\* paths closed the others, and never for more than SIGNALING_MAX_CONNECTIONS_PER_IP.
THEOREM ConnectionsAlwaysCounted == Spec => []ConnectionsCounted
<1>1. Ledger => ConnectionsCounted
  <2>. SUFFICES ASSUME Ledger PROVE ConnectionsCounted OBVIOUS
  <2>1. Current.active = active /\ Current.released = released BY DEF Current, Step
  <2>2. \A a \in Ip : Held(Current, accepted, a) =
          {p \in Peer : IpOf[p] = a /\ p \in accepted /\ ~released[p]}
    BY <2>1 DEF Held
  <2>3. QED BY <2>1, <2>2 DEF Ledger, Kept, Within, ConnectionsCounted
<1>2. QED BY <1>1, InitLedger, NextLedger, PTL DEF Spec

\* The relay policy of src/server/policy.ts: a session in the table carries a pair request
\* only after both key exchanges and confirmations, a decision only after the request, and
\* an offer, an answer or a candidate only after the decision, whatever was retried,
\* restored or forwarded before.
THEOREM SignalingOnlyConfirmed == Spec => []ConfirmedBeforeSignaling
<1>1. Ledger => ConfirmedBeforeSignaling
  <2>. SUFFICES ASSUME Ledger, NEW i \in LiveSids
       PROVE  /\ "pairRequested" \in sessions[i].seen =>
                   {"senderPake", "receiverPake", "senderConfirm", "receiverConfirm"}
                     \subseteq sessions[i].seen
              /\ Decided(sessions[i]) => "pairRequested" \in sessions[i].seen
              /\ {"offer", "answer"} \cap sessions[i].seen # {} => Decided(sessions[i])
              /\ sessions[i].candidates.sender + sessions[i].candidates.receiver > 0 =>
                   "offer" \in sessions[i].seen
    BY DEF ConfirmedBeforeSignaling
  <2>1. Confirmed(sessions[i]) BY EnterSession
  <2>2. QED BY <2>1 DEF Confirmed, Decided
<1>2. QED BY <1>1, InitLedger, NextLedger, PTL DEF Spec

-----------------------------------------------------------------------------
(* Whom a handler touches.  P are the connections a handler works for and I the   *)
(* sessions they are in: the two peers of one session, or one that is in none.    *)

\* A session object of these connections.
Ours(x, P, I) ==
  /\ x \in Session /\ x.sid \in I /\ x.code \in Code /\ x.sender \in P /\ x.receiver \in P

\* Between the record o a handler starts from and the record s: no other connection, no
\* other session and no code of another connection has changed.
Apart(o, s, P, I) ==
  /\ s \in SState
  /\ \A q \in Peer : q \notin P =>
       /\ s.ws[q] = o.ws[q] /\ s.told[q] = o.told[q] /\ s.released[q] = o.released[q]
       /\ s.role[q] = o.role[q] /\ s.sid[q] = o.sid[q] /\ s.code[q] = o.code[q]
  /\ \A c \in Code : \/ s.codes[c] = o.codes[c]
                     \/ /\ s.codes[c].receiver \in P \/ s.codes[c].receiver = NoPeer
                        /\ o.codes[c].receiver \in P \/ o.codes[c].receiver = NoPeer
  /\ \A i \in SessionId : i \notin I => s.sessions[i] = o.sessions[i]
  /\ \A p \in P : s.sid[p] \in I \/ s.sid[p] = NoSid
  /\ \A i \in I : s.sessions[i].sid # NoSid => Ours(s.sessions[i], P, I)

\* One more change that stays within P and I.
LEMMA ApartStep ==
  ASSUME NEW o, NEW s, NEW P, NEW I, Apart(o, s, P, I), NEW t \in SState,
         \A q \in Peer : q \notin P =>
           /\ t.ws[q] = s.ws[q] /\ t.told[q] = s.told[q] /\ t.released[q] = s.released[q]
           /\ t.role[q] = s.role[q] /\ t.sid[q] = s.sid[q] /\ t.code[q] = s.code[q],
         \A c \in Code : \/ t.codes[c] = s.codes[c]
                         \/ /\ t.codes[c].receiver \in P \/ t.codes[c].receiver = NoPeer
                            /\ s.codes[c].receiver \in P \/ s.codes[c].receiver = NoPeer,
         \A i \in SessionId : i \notin I => t.sessions[i] = s.sessions[i],
         \A p \in P : t.sid[p] = s.sid[p] \/ t.sid[p] \in I \/ t.sid[p] = NoSid,
         \A i \in I : \/ t.sessions[i] = s.sessions[i] \/ t.sessions[i].sid = NoSid
                      \/ Ours(t.sessions[i], P, I)
  PROVE  Apart(o, t, P, I)
<1>1. \A q \in Peer : q \notin P =>
        /\ t.ws[q] = o.ws[q] /\ t.told[q] = o.told[q] /\ t.released[q] = o.released[q]
        /\ t.role[q] = o.role[q] /\ t.sid[q] = o.sid[q] /\ t.code[q] = o.code[q]
  BY DEF Apart
<1>2. \A c \in Code : \/ t.codes[c] = o.codes[c]
                      \/ /\ t.codes[c].receiver \in P \/ t.codes[c].receiver = NoPeer
                         /\ o.codes[c].receiver \in P \/ o.codes[c].receiver = NoPeer
  <2>. SUFFICES ASSUME NEW c \in Code
       PROVE  \/ t.codes[c] = o.codes[c]
              \/ /\ t.codes[c].receiver \in P \/ t.codes[c].receiver = NoPeer
                 /\ o.codes[c].receiver \in P \/ o.codes[c].receiver = NoPeer
    OBVIOUS
  <2>1. CASE t.codes[c] = s.codes[c] BY <2>1 DEF Apart
  <2>2. CASE s.codes[c] = o.codes[c] BY <2>2
  <2>3. CASE t.codes[c] # s.codes[c] /\ s.codes[c] # o.codes[c] BY <2>3 DEF Apart
  <2>4. QED BY <2>1, <2>2, <2>3
<1>3. \A i \in SessionId : i \notin I => t.sessions[i] = o.sessions[i] BY DEF Apart
<1>4. \A p \in P : t.sid[p] \in I \/ t.sid[p] = NoSid BY DEF Apart
<1>5. \A i \in I : t.sessions[i].sid # NoSid => Ours(t.sessions[i], P, I) BY DEF Apart
<1>6. QED BY <1>1, <1>2, <1>3, <1>4, <1>5 DEF Apart

\* The elementary changes of one connection.
LEMMA ApartBasic ==
  ASSUME NEW o, NEW s, NEW P \in SUBSET Peer, NEW I \in SUBSET SessionId,
         Apart(o, s, P, I), NEW p \in P
  PROVE  /\ Apart(o, Shut(s, p), P, I)
         /\ Apart(o, Release(s, p), P, I)
         /\ Apart(o, Clear(s, p), P, I)
         /\ \A i \in I : Apart(o, DeleteSession(s, i), P, I)
         /\ \A m : s.room[p] > 0 => Apart(o, Deliver(s, p, m), P, I)
<1>1. s \in SState /\ p \in Peer BY DEF Apart
<1>2. Apart(o, Shut(s, p), P, I)
  <2>. DEFINE t == Shut(s, p)
  <2>1. /\ t \in SState /\ t.codes = s.codes /\ t.sessions = s.sessions /\ t.told = s.told
        /\ t.released = s.released /\ t.role = s.role /\ t.sid = s.sid /\ t.code = s.code
        /\ \A q \in Peer : q # p => t.ws[q] = s.ws[q]
    BY <1>1 DEF Shut, SState
  <2>. HIDE DEF t
  <2>2. QED BY <2>1, ApartStep DEF t
<1>3. Apart(o, Release(s, p), P, I)
  <2>. DEFINE t == Release(s, p)
  <2>1. /\ t \in SState /\ t.codes = s.codes /\ t.sessions = s.sessions /\ t.ws = s.ws
        /\ t.role = s.role /\ t.sid = s.sid /\ t.code = s.code
    BY <1>1, ReleaseType
  <2>2. t.told = s.told /\ \A q \in Peer : q # p => t.released[q] = s.released[q]
    BY <1>1 DEF Release, SState
  <2>. HIDE DEF t
  <2>3. QED BY <2>1, <2>2, ApartStep DEF t
<1>4. Apart(o, Clear(s, p), P, I)
  <2>. DEFINE t == Clear(s, p)
  <2>1. /\ t \in SState /\ t.codes = s.codes /\ t.sessions = s.sessions /\ t.ws = s.ws
        /\ t.told = s.told /\ t.released = s.released
        /\ \A q \in Peer : q # p =>
             t.role[q] = s.role[q] /\ t.sid[q] = s.sid[q] /\ t.code[q] = s.code[q]
        /\ t.sid[p] = NoSid
    BY <1>1 DEF Clear, SState
  <2>. HIDE DEF t
  <2>2. QED BY <2>1, ApartStep DEF t
<1>5. ASSUME NEW i \in I PROVE Apart(o, DeleteSession(s, i), P, I)
  <2>. DEFINE t == DeleteSession(s, i)
  <2>1. /\ t \in SState /\ t.codes = s.codes /\ t.ws = s.ws /\ t.told = s.told
        /\ t.released = s.released /\ t.role = s.role /\ t.sid = s.sid /\ t.code = s.code
        /\ t.sessions = [s.sessions EXCEPT ![i] = NoSession]
    BY <1>1, EmptyEntries DEF DeleteSession, SState
  <2>. HIDE DEF t
  <2>2. NoSession.sid = NoSid /\ s.sessions \in [SessionId -> Session]
    BY <1>1 DEF NoSession, SState
  <2>3. /\ \A j \in SessionId : j # i => t.sessions[j] = s.sessions[j]
        /\ t.sessions[i].sid = NoSid
    BY <2>1, <2>2
  <2>4. QED BY <2>1, <2>3, ApartStep DEF t
<1>6. ASSUME NEW m, s.room[p] > 0 PROVE Apart(o, Deliver(s, p, m), P, I)
  <2>. DEFINE t == Deliver(s, p, m)
  <2>1. t \in SState BY <1>1, <1>6, DeliverQuiet DEF Quiet
  <2>2. /\ t.codes = s.codes /\ t.sessions = s.sessions /\ t.ws = s.ws
        /\ t.released = s.released /\ t.role = s.role /\ t.sid = s.sid /\ t.code = s.code
        /\ \A q \in Peer : q # p => t.told[q] = s.told[q]
    BY <1>1 DEF Deliver, SState
  <2>. HIDE DEF t
  <2>3. QED BY <2>1, <2>2, ApartStep DEF t
<1>7. QED BY <1>2, <1>3, <1>4, <1>5, <1>6

\* codes.delete and codes.set, on a code of P or a free one.
LEMMA ApartCodes ==
  ASSUME NEW o, NEW s, NEW P \in SUBSET Peer, NEW I \in SUBSET SessionId,
         Apart(o, s, P, I), NEW c \in Code, NEW e \in CodeEntry,
         s.codes[c].receiver \in P \/ s.codes[c].receiver = NoPeer,
         e.receiver \in P \/ e.receiver = NoPeer
  PROVE  Apart(o, [s EXCEPT !.codes[c] = e], P, I)
<1>. DEFINE t == [s EXCEPT !.codes[c] = e]
<1>1. s \in SState BY DEF Apart
<1>2. /\ t \in SState /\ t.sessions = s.sessions /\ t.ws = s.ws /\ t.told = s.told
      /\ t.released = s.released /\ t.role = s.role /\ t.sid = s.sid /\ t.code = s.code
      /\ t.codes = [s.codes EXCEPT ![c] = e]
  BY <1>1 DEF SState
<1>. HIDE DEF t
<1>3. \A b \in Code : t.codes[b] = IF b = c THEN e ELSE s.codes[b]
  BY <1>1, <1>2 DEF SState
<1>4. \A b \in Code : \/ t.codes[b] = s.codes[b]
                      \/ /\ t.codes[b].receiver \in P \/ t.codes[b].receiver = NoPeer
                         /\ s.codes[b].receiver \in P \/ s.codes[b].receiver = NoPeer
  BY <1>3
<1>5. QED BY <1>2, <1>4, ApartStep DEF t

\* Freeing a code of P.
LEMMA ApartDelete ==
  ASSUME NEW o, NEW s, NEW P \in SUBSET Peer, NEW I \in SUBSET SessionId,
         Apart(o, s, P, I), NEW c \in Code,
         s.codes[c].receiver \in P \/ s.codes[c].receiver = NoPeer
  PROVE  Apart(o, DeleteCode(s, c), P, I)
<1>1. Free \in CodeEntry /\ Free.receiver = NoPeer BY EmptyEntries DEF Free
<1>2. Apart(o, [s EXCEPT !.codes[c] = Free], P, I) BY <1>1, ApartCodes
<1>3. QED BY <1>2 DEF DeleteCode

\* Closing, dropping a code, and send outside a session.
LEMMA ApartSendLast ==
  ASSUME NEW o, NEW s, NEW P \in SUBSET Peer, NEW I \in SUBSET SessionId,
         Apart(o, s, P, I), NEW p \in P, NEW m
  PROVE  /\ Apart(o, Close(s, p), P, I)
         /\ Apart(o, DropCode(s, p), P, I)
         /\ Apart(o, SendLast(s, p, m), P, I)
<1>1. s \in SState /\ p \in Peer BY DEF Apart
<1>2. ASSUME NEW t, Apart(o, t, P, I) PROVE Apart(o, Close(t, p), P, I)
  <2>1. Apart(o, Shut(t, p), P, I) BY <1>2, ApartBasic
  <2>2. QED BY <2>1, ApartBasic DEF Close
<1>3. Apart(o, DropCode(s, p), P, I)
  <2>1. CASE OwnsCode(s, p)
    <3>1. s.code[p] \in Code /\ s.codes[s.code[p]].receiver \in P
      BY <1>1, <2>1 DEF OwnsCode, SState
    <3>2. QED BY <2>1, <3>1, ApartDelete DEF DropCode
  <2>2. CASE ~OwnsCode(s, p) BY <2>2 DEF DropCode
  <2>3. QED BY <2>1, <2>2
<1>4. Apart(o, Close(DropCode(s, p), p), P, I) BY <1>2, <1>3
<1>5. s.room[p] > 0 => Apart(o, Deliver(s, p, m), P, I) BY ApartBasic
<1>6. QED BY <1>2, <1>3, <1>4, <1>5 DEF SendLast

\* closeSessionPeers, endSession and expireReceiverAfterPrePairAttempts.
LEMMA ApartEnding ==
  ASSUME NEW o, NEW s, NEW P \in SUBSET Peer, NEW I \in SUBSET SessionId,
         Apart(o, s, P, I), NEW x, Ours(x, P, I)
  PROVE  /\ Apart(o, CloseSessionPeers(s, x), P, I)
         /\ \A q : Apart(o, EndSession(s, x, q), P, I)
         /\ Apart(o, ExpireReceiver(s, x), P, I)
<1>1. x.sender \in P /\ x.receiver \in P /\ x.sid \in I BY DEF Ours
<1>2. Apart(o, CloseSessionPeers(s, x), P, I)
  <2>. DEFINE a == DeleteSession(s, x.sid)
              b == Clear(a, x.sender)
              c == Clear(b, x.receiver)
              d == Close(c, x.sender)
  <2>1. Apart(o, a, P, I) BY <1>1, ApartBasic
  <2>2. Apart(o, b, P, I) BY <1>1, <2>1, ApartBasic
  <2>3. Apart(o, c, P, I) BY <1>1, <2>2, ApartBasic
  <2>4. Apart(o, d, P, I) BY <1>1, <2>3, ApartSendLast
  <2>5. Apart(o, Close(d, x.receiver), P, I) BY <1>1, <2>4, ApartSendLast
  <2>6. QED BY <2>5 DEF CloseSessionPeers
<1>3. ASSUME NEW q PROVE Apart(o, EndSession(s, x, q), P, I)
  <2>. DEFINE r == IF q = x.sender THEN x.receiver ELSE x.sender
              a == DeleteSession(s, x.sid)
              t == SendLast(a, r, "peer-left")
              b == Clear(t, x.sender)
              c == Clear(b, x.receiver)
  <2>1. r \in P BY <1>1
  <2>. HIDE DEF r
  <2>2. Apart(o, a, P, I) BY <1>1, ApartBasic
  <2>3. Apart(o, t, P, I) BY <2>1, <2>2, ApartSendLast
  <2>4. Apart(o, b, P, I) BY <1>1, <2>3, ApartBasic
  <2>5. Apart(o, c, P, I) BY <1>1, <2>4, ApartBasic
  <2>6. Apart(o, Close(c, r), P, I) BY <2>1, <2>5, ApartSendLast
  <2>7. QED BY <2>6 DEF EndSession, r
<1>4. Apart(o, ExpireReceiver(s, x), P, I)
  <2>. DEFINE a == SendLast(s, x.receiver, "peer-left")
              b == Clear(a, x.sender)
              c == Clear(b, x.receiver)
              f == SendLast(c, x.receiver, "error")
              g == Close(f, x.sender)
  <2>1. Apart(o, a, P, I) BY <1>1, ApartSendLast
  <2>2. Apart(o, b, P, I) BY <1>1, <2>1, ApartBasic
  <2>3. Apart(o, c, P, I) BY <1>1, <2>2, ApartBasic
  <2>4. Apart(o, f, P, I) BY <1>1, <2>3, ApartSendLast
  <2>5. Apart(o, g, P, I) BY <1>1, <2>4, ApartSendLast
  <2>6. Apart(o, Close(g, x.receiver), P, I) BY <1>1, <2>5, ApartSendLast
  <2>7. QED BY <2>6 DEF ExpireReceiver
<1>5. QED BY <1>2, <1>3, <1>4

\* sendRestoredRegistration.
LEMMA ApartSendRestored ==
  ASSUME NEW o, NEW s, NEW P \in SUBSET Peer, NEW I \in SUBSET SessionId,
         Apart(o, s, P, I), NEW x, Ours(x, P, I), NEW ttl
  PROVE  Apart(o, SendRestoredRegistration(s, x, ttl), P, I)
<1>. DEFINE t == SendLast(s, x.receiver, Registered(ttl))
            d == IF t.codes[x.code].receiver = x.receiver THEN DeleteCode(t, x.code) ELSE t
            e == Clear(d, x.receiver)
<1>1. x.receiver \in P /\ x.code \in Code BY DEF Ours
<1>2. Apart(o, t, P, I) BY <1>1, ApartSendLast
<1>. HIDE DEF t
<1>3. Apart(o, d, P, I)
  <2>1. CASE t.codes[x.code].receiver = x.receiver
    <3>1. t.codes[x.code].receiver \in P BY <1>1, <2>1
    <3>2. Apart(o, DeleteCode(t, x.code), P, I) BY <1>1, <1>2, <3>1, ApartDelete
    <3>3. QED BY <2>1, <3>2
  <2>2. CASE t.codes[x.code].receiver # x.receiver BY <1>2, <2>2
  <2>3. QED BY <2>1, <2>2
<1>. HIDE DEF d
<1>4. Apart(o, e, P, I) BY <1>1, <1>3, ApartBasic
<1>. HIDE DEF e
<1>5. Apart(o, Close(e, x.receiver), P, I) BY <1>1, <1>4, ApartSendLast
<1>6. QED BY <1>2, <1>5 DEF SendRestoredRegistration, t, d, e

\* restoreWaitingReceiver once the code's entry is known.
LEMMA ApartRestoreTo ==
  ASSUME NEW o, NEW s, NEW P \in SUBSET Peer, NEW I \in SUBSET SessionId,
         Apart(o, s, P, I), NEW x, Ours(x, P, I), NEW entry \in CodeEntry,
         NEW notify \in BOOLEAN, entry.receiver = x.receiver,
         s.codes[x.code].receiver \in P \/ s.codes[x.code].receiver = NoPeer
  PROVE  Apart(o, RestoreTo(s, x, entry, notify), P, I)
<1>. DEFINE c == Clear(s, x.sender)
            back == [c EXCEPT !.sid[x.receiver] = NoSid, !.role[x.receiver] = "receiver",
                              !.code[x.receiver] = x.code]
            wait == [back EXCEPT !.codes[x.code] = entry]
            gone == DeleteCode(back, x.code)
            told1 == SendLast(wait, x.receiver, "peer-left")
            left == IF notify THEN told1 ELSE wait
            shut == Close(left, x.sender)
<1>1. /\ x.sender \in P /\ x.receiver \in P /\ x.receiver \in Peer /\ x.sender \in Peer
      /\ x.code \in Code
  BY DEF Ours
<1>2. Apart(o, c, P, I) BY <1>1, ApartBasic
<1>3. c \in SState /\ c.codes = s.codes BY <1>1, <1>2, ClearType DEF Apart
<1>. HIDE DEF c
<1>4. /\ back \in SState /\ back.codes = c.codes /\ back.sessions = c.sessions
      /\ back.ws = c.ws /\ back.told = c.told /\ back.released = c.released
      /\ \A q \in Peer : q # x.receiver =>
           back.role[q] = c.role[q] /\ back.sid[q] = c.sid[q] /\ back.code[q] = c.code[q]
      /\ back.sid[x.receiver] = NoSid
  BY <1>1, <1>3 DEF SState
<1>. HIDE DEF back
<1>5. Apart(o, back, P, I) BY <1>1, <1>2, <1>4, ApartStep
<1>6. back.codes[x.code].receiver \in P \/ back.codes[x.code].receiver = NoPeer
  BY <1>3, <1>4
<1>7. entry.receiver \in P \/ entry.receiver = NoPeer BY <1>1
<1>8. Apart(o, wait, P, I) BY <1>1, <1>5, <1>6, <1>7, ApartCodes
<1>9. Apart(o, gone, P, I) BY <1>1, <1>5, <1>6, ApartDelete
<1>. HIDE DEF wait, gone
<1>10. Apart(o, told1, P, I) BY <1>1, <1>8, ApartSendLast
<1>. HIDE DEF told1
<1>11. Apart(o, left, P, I) BY <1>8, <1>10
<1>. HIDE DEF left
<1>12. Apart(o, shut, P, I) BY <1>1, <1>11, ApartSendLast
<1>. HIDE DEF shut
<1>13. Apart(o, SendRestoredRegistration(shut, x, entry.ttl), P, I)
  BY <1>12, ApartSendRestored
<1>14. Apart(o, ExpireReceiver(gone, x), P, I) BY <1>9, ApartEnding
<1>15. QED BY <1>13, <1>14 DEF RestoreTo, c, back, wait, gone, told1, left, shut

\* restoreWaitingReceiver.
LEMMA ApartRestore ==
  ASSUME NEW o, NEW s, NEW P \in SUBSET Peer, NEW I \in SUBSET SessionId,
         Apart(o, s, P, I), NEW x, Ours(x, P, I), NEW notify \in BOOLEAN
  PROVE  Apart(o, RestoreWaitingReceiver(s, x, notify), P, I)
<1>. DEFINE t == DeleteSession(s, x.sid)
            existing == s.codes[x.code]
            fewer == IF existing.remaining < x.remaining THEN existing.remaining
                     ELSE x.remaining
            a == SendLast(t, x.sender, "peer-left")
            b == SendLast(a, x.receiver, "peer-left")
            e1 == [existing EXCEPT !.remaining = fewer]
            e2 == [receiver |-> x.receiver, ttl |-> x.codeTtl, remaining |-> x.remaining]
<1>1. /\ x.sender \in P /\ x.receiver \in P /\ x.receiver \in Peer /\ x.code \in Code
      /\ x.sid \in I /\ x.sid \in SessionId /\ x.remaining \in Nat /\ x.codeTtl \in Nat
  BY DEF Ours, Session
<1>2. existing \in CodeEntry /\ s \in SState BY <1>1 DEF Apart, SState
<1>3. /\ e1 \in CodeEntry /\ e2 \in CodeEntry /\ e2.receiver = x.receiver
      /\ e1.receiver = existing.receiver
  BY <1>1, <1>2 DEF CodeEntry
<1>4. Apart(o, t, P, I) BY <1>1, ApartBasic
<1>5. t.codes = s.codes BY <1>1, <1>2, DeleteSessionType
<1>. HIDE DEF t
<1>6. Apart(o, a, P, I) BY <1>1, <1>4, ApartSendLast
<1>. HIDE DEF a
<1>7. Apart(o, b, P, I) BY <1>1, <1>6, ApartSendLast
<1>. HIDE DEF b, e1, e2
<1>8. CASE existing.receiver = x.receiver
  <2>1. t.codes[x.code].receiver \in P /\ e1.receiver = x.receiver BY <1>1, <1>3, <1>5, <1>8
  <2>2. Apart(o, RestoreTo(t, x, e1, notify), P, I) BY <1>3, <1>4, <2>1, ApartRestoreTo
  <2>3. QED BY <1>8, <2>2 DEF RestoreWaitingReceiver, t, e1
<1>9. CASE existing.receiver # x.receiver /\ existing.receiver = NoPeer
  <2>1. t.codes[x.code].receiver = NoPeer BY <1>5, <1>9
  <2>2. Apart(o, RestoreTo(t, x, e2, notify), P, I) BY <1>3, <1>4, <2>1, ApartRestoreTo
  <2>3. QED BY <1>9, <2>2 DEF RestoreWaitingReceiver, t, e2
<1>10. CASE existing.receiver # x.receiver /\ existing.receiver # NoPeer
  <2>1. Apart(o, CloseSessionPeers(b, x), P, I) BY <1>7, ApartEnding
  <2>2. QED BY <1>10, <2>1 DEF RestoreWaitingReceiver, t, a, b
<1>11. QED BY <1>8, <1>9, <1>10

\* cleanupPeer.
LEMMA ApartCleanup ==
  ASSUME NEW o, NEW s, NEW P \in SUBSET Peer, NEW I \in SUBSET SessionId,
         Apart(o, s, P, I), NEW p \in P
  PROVE  Apart(o, CleanupPeer(s, p), P, I)
<1>. DEFINE d == DropCode(s, p)
            x == d.sessions[d.sid[p]]
<1>1. Apart(o, d, P, I) BY ApartSendLast
<1>. HIDE DEF d
<1>2. CASE ~Live(d, d.sid[p]) BY <1>1, <1>2 DEF CleanupPeer, d
<1>3. CASE Live(d, d.sid[p])
  <2>1. Ours(x, P, I) BY <1>1, <1>3 DEF Apart, Live
  <2>. HIDE DEF x
  <2>2. Apart(o, RestoreWaitingReceiver(d, x, TRUE), P, I)
        /\ Apart(o, EndSession(d, x, p), P, I)
    BY <1>1, <2>1, ApartRestore, ApartEnding
  <2>3. QED BY <1>3, <2>2 DEF CleanupPeer, d, x
<1>4. QED BY <1>2, <1>3

\* send.
LEMMA ApartSend ==
  ASSUME NEW o, NEW s, NEW P \in SUBSET Peer, NEW I \in SUBSET SessionId,
         Apart(o, s, P, I), NEW p \in P, NEW m
  PROVE  Apart(o, Send(s, p, m), P, I) /\ Apart(o, Fail(s, p), P, I)
<1>1. Apart(o, CleanupPeer(s, p), P, I) BY ApartCleanup
<1>2. Apart(o, Close(CleanupPeer(s, p), p), P, I) BY <1>1, ApartSendLast
<1>3. s.room[p] > 0 => /\ Apart(o, Deliver(s, p, m), P, I)
                       /\ Apart(o, Deliver(s, p, "error"), P, I)
  BY ApartBasic
<1>4. QED BY <1>2, <1>3 DEF Send, Fail

\* relayDeliveryFailed, rejectRelayMessage and closeSessionForTurnRateLimit.
LEMMA ApartRefusal ==
  ASSUME NEW o, NEW s, NEW P \in SUBSET Peer, NEW I \in SUBSET SessionId,
         Apart(o, s, P, I), NEW x, Ours(x, P, I), NEW p \in P
  PROVE  /\ \A target, restore : Apart(o, RelayDeliveryFailed(s, x, p, target, restore), P, I)
         /\ Apart(o, RejectPrePairSender(s, x, p), P, I)
         /\ Apart(o, CloseSessionForTurnRateLimit(s, x), P, I)
<1>. DEFINE t == Fail(s, p)
            f == Fail(s, x.sender)
            g == Fail(f, x.receiver)
<1>1. x.sender \in P /\ x.receiver \in P BY DEF Ours
<1>2. Apart(o, t, P, I) /\ Apart(o, f, P, I) BY <1>1, ApartSend
<1>. HIDE DEF t, f
<1>3. Apart(o, g, P, I) BY <1>1, <1>2, ApartSend
<1>. HIDE DEF g
<1>4. /\ Apart(o, RestoreWaitingReceiver(t, x, TRUE), P, I)
      /\ \A target : Apart(o, EndSession(t, x, target), P, I)
      /\ Apart(o, CloseSessionPeers(g, x), P, I)
  BY <1>2, <1>3, ApartRestore, ApartEnding
<1>5. QED
  BY <1>4 DEF RelayDeliveryFailed, RejectPrePairSender, CloseSessionForTurnRateLimit, t, f, g

\* badMessage.
LEMMA ApartBadMessage ==
  ASSUME NEW o, NEW s, NEW P \in SUBSET Peer, NEW I \in SUBSET SessionId,
         Apart(o, s, P, I), NEW p \in P
  PROVE  Apart(o, BadMessage(s, p), P, I)
<1>. DEFINE x == s.sessions[s.sid[p]]
            n == s.bad[p] + 1
            b == [s EXCEPT !.bad[p] = n]
            t == Fail(b, p)
<1>1. s \in SState /\ p \in Peer BY DEF Apart
<1>2. n \in Nat BY <1>1 DEF SState
<1>. HIDE DEF n
<1>3. /\ b \in SState /\ b.codes = s.codes /\ b.sessions = s.sessions /\ b.ws = s.ws
      /\ b.told = s.told /\ b.released = s.released /\ b.role = s.role /\ b.sid = s.sid
      /\ b.code = s.code
  BY <1>1, <1>2 DEF SState
<1>. HIDE DEF b
<1>4. Apart(o, b, P, I) BY <1>3, ApartStep
<1>5. Apart(o, t, P, I) BY <1>4, ApartSend
<1>. HIDE DEF t
<1>6. Apart(o, Close(t, p), P, I) BY <1>5, ApartSendLast
<1>7. ASSUME Live(s, s.sid[p]) PROVE Apart(o, RejectPrePairSender(s, x, p), P, I)
  <2>1. Ours(x, P, I) BY <1>7 DEF Apart, Live
  <2>. HIDE DEF x
  <2>2. QED BY <2>1, ApartRefusal
<1>. HIDE DEF x
<1>8. QED BY <1>5, <1>6, <1>7 DEF BadMessage, x, n, b, t
-----------------------------------------------------------------------------
(* How a session ends *)

\* A session object.
Pair(x) ==
  /\ x \in Session /\ x.sid \in SessionId /\ x.code \in Code
  /\ x.sender \in Peer /\ x.receiver \in Peer /\ x.sender # x.receiver

\* The waiting entry a session gives back.
Carry(x) == [receiver |-> x.receiver, ttl |-> x.codeTtl, remaining |-> x.remaining]

\* The session is in the table, both peers are in it and neither waits under a code.
Linked(s, x) ==
  /\ s \in SState /\ s.sessions[x.sid] = x
  /\ s.sid[x.sender] = x.sid /\ s.sid[x.receiver] = x.sid
  /\ \A c \in Code : s.codes[c].receiver # x.sender /\ s.codes[c].receiver # x.receiver

\* The session is out of the table and neither peer is in it.
Gone(s, x) ==
  /\ s \in SState /\ s.sessions[x.sid].sid = NoSid
  /\ s.sid[x.sender] = NoSid /\ s.sid[x.receiver] = NoSid

\* The receiver waits again, with what the session carried, and was told so.
Returned(s, x) ==
  /\ ~Decided(x) /\ s.codes[x.code] = Carry(x)
  /\ s.role[x.receiver] = "receiver" /\ s.code[x.receiver] = x.code

Rewaits(s, x) == Returned(s, x) /\ s.told[x.receiver] \in {"registered", "lapsed"}

\* The session ended well, but for what is about to happen to p.
OverBut(s, x, p) ==
  /\ Gone(s, x)
  /\ x.sender # p => s.ws[x.sender] # "open"
  /\ x.receiver # p /\ s.ws[x.receiver] = "open" => Rewaits(s, x)

\* The session is over for both peers.
Over(s, x) ==
  /\ Gone(s, x) /\ s.ws[x.sender] # "open"
  /\ s.ws[x.receiver] = "open" => Rewaits(s, x)

\* Closing changes nothing but the socket and the counts.
LEMMA CloseEffect ==
  ASSUME NEW s \in SState, NEW p \in Peer
  PROVE  LET t == Close(s, p)
         IN  /\ t \in SState /\ t.codes = s.codes /\ t.sessions = s.sessions
             /\ t.role = s.role /\ t.sid = s.sid /\ t.code = s.code /\ t.told = s.told
             /\ t.ws[p] # "open" /\ \A q \in Peer : q # p => t.ws[q] = s.ws[q]
<1>. DEFINE u == Shut(s, p)
<1>1. /\ u \in SState /\ u.codes = s.codes /\ u.sessions = s.sessions /\ u.told = s.told
      /\ u.role = s.role /\ u.sid = s.sid /\ u.code = s.code
      /\ u.ws[p] # "open" /\ \A q \in Peer : q # p => u.ws[q] = s.ws[q]
  BY DEF Shut, SState
<1>. HIDE DEF u
<1>2. /\ Release(u, p) \in SState /\ Release(u, p).codes = u.codes
      /\ Release(u, p).sessions = u.sessions /\ Release(u, p).ws = u.ws
      /\ Release(u, p).role = u.role /\ Release(u, p).sid = u.sid
      /\ Release(u, p).code = u.code
  BY <1>1, ReleaseType
<1>3. Release(u, p).told = u.told BY <1>1 DEF Release, SState
<1>4. QED BY <1>1, <1>2, <1>3 DEF Close, u

\* send outside a session: nothing happens, the message arrives, or the socket closes and
\* the peer's code is dropped.
LEMMA SendLastEffect ==
  ASSUME NEW s \in SState, NEW p \in Peer, NEW m
  PROVE  LET t == SendLast(s, p, m)
         IN  /\ t \in SState /\ t.sessions = s.sessions
             /\ t.role = s.role /\ t.sid = s.sid /\ t.code = s.code
             /\ \A q \in Peer : q # p => t.ws[q] = s.ws[q]
             /\ \/ s.ws[p] # "open" /\ t = s
                \/ /\ t.ws = s.ws /\ t.codes = s.codes
                   /\ t.told[p] = IF m \in Lifecycle THEN m ELSE s.told[p]
                \/ t.ws[p] # "open"
<1>. DEFINE t == SendLast(s, p, m)
<1>1. Quiet(s, t) /\ \A q \in Peer : q # p => t.ws[q] = s.ws[q] BY SendLastQuiet
<1>2. \/ s.ws[p] # "open" /\ t = s
      \/ t.ws = s.ws /\ t.codes = s.codes /\ t.told[p] = IF m \in Lifecycle THEN m ELSE s.told[p]
      \/ t.ws[p] # "open"
  <2>1. CASE s.ws[p] # "open" BY <2>1 DEF SendLast
  <2>2. CASE s.ws[p] = "open" /\ s.room[p] > 0
    <3>1. t = Deliver(s, p, m) BY <2>2 DEF SendLast
    <3>2. t.ws = s.ws /\ t.codes = s.codes BY <2>2, <3>1, DeliverQuiet
    <3>3. t.told[p] = IF m \in Lifecycle THEN m ELSE s.told[p]
      BY <3>1 DEF Deliver, SState
    <3>4. QED BY <3>2, <3>3
  <2>3. CASE s.ws[p] = "open" /\ ~(s.room[p] > 0)
    <3>1. t = Close(DropCode(s, p), p) BY <2>3 DEF SendLast
    <3>2. DropCode(s, p) \in SState BY DropCodeQuiet DEF Quiet
    <3>3. QED BY <3>1, <3>2, CloseEffect
  <2>4. QED BY <2>1, <2>2, <2>3
<1>3. QED BY <1>1, <1>2 DEF Quiet

\* closeSessionPeers: both peers are closed.
LEMMA CloseSessionPeersOver ==
  ASSUME NEW s \in SState, NEW x, Pair(x)
  PROVE  /\ Over(CloseSessionPeers(s, x), x)
         /\ CloseSessionPeers(s, x).ws[x.receiver] # "open"
<1>. DEFINE a == DeleteSession(s, x.sid)
            b == Clear(a, x.sender)
            c == Clear(b, x.receiver)
            d == Close(c, x.sender)
            e == Close(d, x.receiver)
<1>1. /\ x.sid \in SessionId /\ x.sender \in Peer /\ x.receiver \in Peer
      /\ x.sender # x.receiver
  BY DEF Pair
<1>2. a \in SState /\ a.sessions = [s.sessions EXCEPT ![x.sid] = NoSession]
  BY <1>1, DeleteSessionType
<1>3. a.sessions[x.sid].sid = NoSid BY <1>1, <1>2 DEF SState, NoSession
<1>. HIDE DEF a
<1>4. b \in SState /\ b.sessions = a.sessions /\ b.sid = [a.sid EXCEPT ![x.sender] = NoSid]
  BY <1>1, <1>2, ClearType
<1>. HIDE DEF b
<1>5. c \in SState /\ c.sessions = b.sessions /\ c.sid = [b.sid EXCEPT ![x.receiver] = NoSid]
  BY <1>1, <1>4, ClearType
<1>. HIDE DEF c
<1>6. c.sid[x.sender] = NoSid /\ c.sid[x.receiver] = NoSid
  BY <1>1, <1>2, <1>4, <1>5 DEF SState
<1>7. d \in SState /\ d.sessions = c.sessions /\ d.sid = c.sid /\ d.ws[x.sender] # "open"
  BY <1>1, <1>5, CloseEffect
<1>. HIDE DEF d
<1>8. /\ e \in SState /\ e.sessions = d.sessions /\ e.sid = d.sid
      /\ e.ws[x.receiver] # "open" /\ e.ws[x.sender] = d.ws[x.sender]
  BY <1>1, <1>7, CloseEffect
<1>9. e = CloseSessionPeers(s, x) BY DEF CloseSessionPeers, a, b, c, d
<1>. HIDE DEF e
<1>10. QED BY <1>3, <1>4, <1>5, <1>6, <1>7, <1>8, <1>9 DEF Over, Gone

\* endSession: the peer that stays is closed, the one that leaves keeps its socket.
LEMMA EndSessionOver ==
  ASSUME NEW s \in SState, NEW x, Pair(x), NEW p \in {x.sender, x.receiver}
  PROVE  /\ OverBut(EndSession(s, x, p), x, p)
         /\ EndSession(s, x, p).ws[p] = s.ws[p]
<1>. DEFINE r == IF p = x.sender THEN x.receiver ELSE x.sender
            a == DeleteSession(s, x.sid)
            t == SendLast(a, r, "peer-left")
            b == Clear(t, x.sender)
            c == Clear(b, x.receiver)
            e == Close(c, r)
<1>1. /\ x.sid \in SessionId /\ x.sender \in Peer /\ x.receiver \in Peer
      /\ x.sender # x.receiver /\ r \in Peer /\ r # p /\ p \in Peer
      /\ x.sender # p => r = x.sender
      /\ x.receiver # p => r = x.receiver
  BY DEF Pair
<1>. HIDE DEF r
<1>2. a \in SState /\ a.sessions = [s.sessions EXCEPT ![x.sid] = NoSession] /\ a.ws = s.ws
  BY <1>1, DeleteSessionType
<1>3. a.sessions[x.sid].sid = NoSid BY <1>1, <1>2 DEF SState, NoSession
<1>. HIDE DEF a
<1>4. t \in SState /\ t.sessions = a.sessions /\ t.ws[p] = a.ws[p]
  BY <1>1, <1>2, SendLastEffect
<1>. HIDE DEF t
<1>5. /\ b \in SState /\ b.sessions = t.sessions /\ b.sid = [t.sid EXCEPT ![x.sender] = NoSid]
      /\ b.ws = t.ws
  BY <1>1, <1>4, ClearType
<1>. HIDE DEF b
<1>6. /\ c \in SState /\ c.sessions = b.sessions /\ c.ws = b.ws
      /\ c.sid = [b.sid EXCEPT ![x.receiver] = NoSid]
  BY <1>1, <1>5, ClearType
<1>. HIDE DEF c
<1>7. c.sid[x.sender] = NoSid /\ c.sid[x.receiver] = NoSid
  BY <1>1, <1>4, <1>5, <1>6 DEF SState
<1>8. /\ e \in SState /\ e.sessions = c.sessions /\ e.sid = c.sid
      /\ e.ws[r] # "open" /\ \A q \in Peer : q # r => e.ws[q] = c.ws[q]
  <2>1. r \in Peer /\ c \in SState BY <1>1, <1>6
  <2>2. QED BY <2>1, CloseEffect
<1>9. e = EndSession(s, x, p) BY DEF EndSession, r, a, t, b, c
<1>. HIDE DEF e
<1>10. e.ws[p] = s.ws[p] BY <1>1, <1>2, <1>4, <1>5, <1>6, <1>8
<1>11. Gone(e, x) BY <1>3, <1>4, <1>5, <1>6, <1>7, <1>8 DEF Gone
<1>12. QED BY <1>1, <1>8, <1>9, <1>10, <1>11 DEF OverBut

\* expireReceiverAfterPrePairAttempts: both peers are closed.
LEMMA ExpireReceiverOver ==
  ASSUME NEW s \in SState, NEW x, Pair(x), s.sessions[x.sid].sid = NoSid
  PROVE  Over(ExpireReceiver(s, x), x)
<1>. DEFINE a == SendLast(s, x.receiver, "peer-left")
            b == Clear(a, x.sender)
            c == Clear(b, x.receiver)
            f == SendLast(c, x.receiver, "error")
            d == Close(f, x.sender)
            e == Close(d, x.receiver)
<1>1. x.sender \in Peer /\ x.receiver \in Peer /\ x.sender # x.receiver BY DEF Pair
<1>2. a \in SState /\ a.sessions = s.sessions BY <1>1, SendLastEffect
<1>. HIDE DEF a
<1>3. b \in SState /\ b.sessions = a.sessions /\ b.sid = [a.sid EXCEPT ![x.sender] = NoSid]
  BY <1>1, <1>2, ClearType
<1>. HIDE DEF b
<1>4. c \in SState /\ c.sessions = b.sessions /\ c.sid = [b.sid EXCEPT ![x.receiver] = NoSid]
  BY <1>1, <1>3, ClearType
<1>. HIDE DEF c
<1>5. c.sid[x.sender] = NoSid /\ c.sid[x.receiver] = NoSid
  BY <1>1, <1>2, <1>3, <1>4 DEF SState
<1>6. f \in SState /\ f.sessions = c.sessions /\ f.sid = c.sid BY <1>1, <1>4, SendLastEffect
<1>. HIDE DEF f
<1>7. d \in SState /\ d.sessions = f.sessions /\ d.sid = f.sid /\ d.ws[x.sender] # "open"
  BY <1>1, <1>6, CloseEffect
<1>. HIDE DEF d
<1>8. /\ e \in SState /\ e.sessions = d.sessions /\ e.sid = d.sid
      /\ e.ws[x.receiver] # "open" /\ e.ws[x.sender] = d.ws[x.sender]
  BY <1>1, <1>7, CloseEffect
<1>9. e = ExpireReceiver(s, x) BY DEF ExpireReceiver, a, b, c, f, d
<1>. HIDE DEF e
<1>10. QED BY <1>2, <1>3, <1>4, <1>5, <1>6, <1>7, <1>8, <1>9 DEF Over, Gone
\* sendRestoredRegistration: the receiver waits and knows it, or it is closed.
LEMMA SendRestoredOver ==
  ASSUME NEW s, NEW x, Pair(x), NEW ttl, Gone(s, x), s.ws[x.sender] # "open",
         s.ws[x.receiver] = "open" => Returned(s, x)
  PROVE  Over(SendRestoredRegistration(s, x, ttl), x)
<1>. DEFINE m == Registered(ttl)
            t == SendLast(s, x.receiver, m)
            d == IF t.codes[x.code].receiver = x.receiver THEN DeleteCode(t, x.code) ELSE t
            e == Clear(d, x.receiver)
            f == Close(e, x.receiver)
<1>1. /\ x.sender \in Peer /\ x.receiver \in Peer /\ x.sender # x.receiver /\ x.code \in Code
      /\ s \in SState
  BY DEF Pair, Gone
<1>2. m \in {"registered", "lapsed"} /\ m \in Lifecycle BY DEF Registered, Lifecycle
<1>. HIDE DEF m
<1>3. /\ t \in SState /\ t.sessions = s.sessions /\ t.role = s.role /\ t.sid = s.sid
      /\ t.code = s.code /\ \A q \in Peer : q # x.receiver => t.ws[q] = s.ws[q]
      /\ \/ s.ws[x.receiver] # "open" /\ t = s
         \/ /\ t.ws = s.ws /\ t.codes = s.codes
            /\ t.told[x.receiver] = IF m \in Lifecycle THEN m ELSE s.told[x.receiver]
         \/ t.ws[x.receiver] # "open"
  BY <1>1, SendLastEffect
<1>4. SendRestoredRegistration(s, x, ttl) = IF t.ws[x.receiver] = "open" THEN t ELSE f
  BY DEF SendRestoredRegistration, m
<1>. HIDE DEF t
<1>5. Gone(t, x) /\ t.ws[x.sender] # "open" BY <1>1, <1>3 DEF Gone
<1>6. CASE t.ws[x.receiver] = "open"
  <2>1. /\ s.ws[x.receiver] = "open" /\ t.codes = s.codes /\ t.told[x.receiver] = m
    BY <1>1, <1>2, <1>3, <1>6
  <2>2. Rewaits(t, x) BY <1>2, <1>3, <2>1 DEF Rewaits, Returned
  <2>3. QED BY <1>4, <1>5, <1>6, <2>2 DEF Over
<1>7. CASE t.ws[x.receiver] # "open"
  <2>1. d \in SState /\ d.sessions = t.sessions /\ d.ws = t.ws /\ d.sid = t.sid
    BY <1>1, <1>3, DeleteCodeQuiet DEF Quiet
  <2>. HIDE DEF d
  <2>2. /\ e \in SState /\ e.sessions = d.sessions /\ e.ws = d.ws
        /\ e.sid = [d.sid EXCEPT ![x.receiver] = NoSid]
    BY <1>1, <2>1, ClearType
  <2>. HIDE DEF e
  <2>3. /\ f \in SState /\ f.sessions = e.sessions /\ f.sid = e.sid
        /\ f.ws[x.receiver] # "open" /\ \A q \in Peer : q # x.receiver => f.ws[q] = e.ws[q]
    BY <1>1, <2>2, CloseEffect
  <2>4. f = SendRestoredRegistration(s, x, ttl) BY <1>4, <1>7
  <2>. HIDE DEF f
  <2>5. e.sid[x.sender] = NoSid /\ e.sid[x.receiver] = NoSid
    BY <1>1, <1>5, <2>1, <2>2 DEF Gone, SState
  <2>6. Gone(f, x) BY <1>5, <2>1, <2>2, <2>3, <2>5 DEF Gone
  <2>7. f.ws[x.sender] # "open" BY <1>1, <1>5, <2>1, <2>2, <2>3
  <2>8. QED BY <2>3, <2>4, <2>6, <2>7 DEF Over
<1>8. QED BY <1>6, <1>7

\* restoreWaitingReceiver with the entry the session carried.
LEMMA RestoreToOver ==
  ASSUME NEW s \in SState, NEW x, Pair(x), NEW entry \in CodeEntry, NEW notify \in BOOLEAN,
         s.sessions[x.sid].sid = NoSid, ~Decided(x),
         s.ws[x.receiver] = "open" => entry = Carry(x)
  PROVE  Over(RestoreTo(s, x, entry, notify), x)
<1>. DEFINE c == Clear(s, x.sender)
            back == [c EXCEPT !.sid[x.receiver] = NoSid, !.role[x.receiver] = "receiver",
                              !.code[x.receiver] = x.code]
            wait == [back EXCEPT !.codes[x.code] = entry]
            gone == DeleteCode(back, x.code)
            told1 == SendLast(wait, x.receiver, "peer-left")
            left == IF notify THEN told1 ELSE wait
            shut == Close(left, x.sender)
<1>1. /\ x.sender \in Peer /\ x.receiver \in Peer /\ x.sender # x.receiver /\ x.code \in Code
  BY DEF Pair
<1>2. /\ c \in SState /\ c.codes = s.codes /\ c.sessions = s.sessions /\ c.ws = s.ws
      /\ c.sid = [s.sid EXCEPT ![x.sender] = NoSid]
  BY <1>1, ClearType
<1>3. c.sid[x.sender] = NoSid BY <1>1, <1>2 DEF SState
<1>. HIDE DEF c
<1>4a. /\ back \in SState /\ back.sessions = c.sessions /\ back.ws = c.ws
       /\ back.sid = [c.sid EXCEPT ![x.receiver] = NoSid]
       /\ back.role = [c.role EXCEPT ![x.receiver] = "receiver"]
       /\ back.code = [c.code EXCEPT ![x.receiver] = x.code]
  BY <1>1, <1>2 DEF SState
<1>. HIDE DEF back
<1>4. /\ back \in SState /\ back.sessions = c.sessions /\ back.ws = c.ws
      /\ back.sid[x.sender] = c.sid[x.sender] /\ back.sid[x.receiver] = NoSid
      /\ back.role[x.receiver] = "receiver" /\ back.code[x.receiver] = x.code
  BY <1>1, <1>2, <1>4a DEF SState
<1>5. /\ wait \in SState /\ wait.sessions = back.sessions /\ wait.ws = back.ws
      /\ wait.sid = back.sid /\ wait.role = back.role /\ wait.code = back.code
      /\ wait.codes[x.code] = entry
  BY <1>1, <1>4 DEF SState
<1>6. gone \in SState /\ gone.sessions = back.sessions
  BY <1>1, <1>4, DeleteCodeQuiet DEF Quiet
<1>. HIDE DEF wait, gone
<1>7. Over(ExpireReceiver(gone, x), x) BY <1>2, <1>4, <1>6, ExpireReceiverOver
<1>8. /\ told1 \in SState /\ told1.sessions = wait.sessions /\ told1.sid = wait.sid
      /\ told1.role = wait.role /\ told1.code = wait.code
      /\ told1.ws[x.receiver] = "open" =>
           wait.ws[x.receiver] = "open" /\ told1.codes = wait.codes
  BY <1>1, <1>5, SendLastEffect
<1>. HIDE DEF told1
<1>9. /\ left \in SState /\ left.sessions = wait.sessions /\ left.sid = wait.sid
      /\ left.role = wait.role /\ left.code = wait.code
      /\ left.ws[x.receiver] = "open" =>
           wait.ws[x.receiver] = "open" /\ left.codes = wait.codes
  <2>1. CASE notify BY <1>8, <2>1
  <2>2. CASE ~notify BY <1>5, <2>2
  <2>3. QED BY <2>1, <2>2
<1>. HIDE DEF left
<1>10. /\ shut \in SState /\ shut.codes = left.codes /\ shut.sessions = left.sessions
       /\ shut.role = left.role /\ shut.sid = left.sid /\ shut.code = left.code
       /\ shut.ws[x.sender] # "open" /\ shut.ws[x.receiver] = left.ws[x.receiver]
  BY <1>1, <1>9, CloseEffect
<1>. HIDE DEF shut
<1>11. Gone(shut, x) BY <1>2, <1>3, <1>4, <1>5, <1>9, <1>10 DEF Gone
<1>12. shut.ws[x.receiver] = "open" => Returned(shut, x)
  BY <1>2, <1>4, <1>5, <1>9, <1>10 DEF Returned
<1>13. Over(SendRestoredRegistration(shut, x, entry.ttl), x)
  BY <1>10, <1>11, <1>12, SendRestoredOver
<1>14. QED BY <1>7, <1>13 DEF RestoreTo, c, back, wait, gone, told1, left, shut

\* restoreWaitingReceiver, on a session that is in the table or has just left it.
LEMMA RestoreOver ==
  ASSUME NEW s, NEW x, Pair(x), ~Decided(x), Linked(s, x) \/ Over(s, x),
         NEW notify \in BOOLEAN
  PROVE  Over(RestoreWaitingReceiver(s, x, notify), x)
<1>. DEFINE t == DeleteSession(s, x.sid)
            existing == s.codes[x.code]
            fewer == IF existing.remaining < x.remaining THEN existing.remaining
                     ELSE x.remaining
            a == SendLast(t, x.sender, "peer-left")
            b == SendLast(a, x.receiver, "peer-left")
            e1 == [existing EXCEPT !.remaining = fewer]
            e2 == Carry(x)
<1>1. /\ x.sender \in Peer /\ x.receiver \in Peer /\ x.code \in Code /\ x.sid \in SessionId
      /\ x.remaining \in Nat /\ x.codeTtl \in Nat
  BY DEF Pair, Session
<1>2. s \in SState /\ existing \in CodeEntry BY <1>1 DEF Linked, Over, Gone, SState
<1>3. e1 \in CodeEntry /\ e2 \in CodeEntry BY <1>1, <1>2 DEF CodeEntry, Carry
<1>4. /\ t \in SState /\ t.sessions = [s.sessions EXCEPT ![x.sid] = NoSession]
      /\ t.ws = s.ws
  BY <1>1, <1>2, DeleteSessionType
<1>5. t.sessions[x.sid].sid = NoSid BY <1>1, <1>2, <1>4 DEF SState, NoSession
<1>6. s.ws[x.receiver] = "open" /\ existing.receiver = x.receiver => e1 = e2
  <2>. SUFFICES ASSUME s.ws[x.receiver] = "open", existing.receiver = x.receiver
       PROVE  e1 = e2
    OBVIOUS
  <2>1. Over(s, x) BY <1>1 DEF Linked
  <2>2. existing = Carry(x) BY <2>1 DEF Over, Rewaits, Returned
  <2>3. fewer = existing.remaining BY <1>1, <2>2 DEF Carry
  <2>4. QED BY <1>2, <2>2, <2>3 DEF CodeEntry
<1>. HIDE DEF t
<1>7. a \in SState BY <1>1, <1>4, SendLastEffect
<1>. HIDE DEF a
<1>8. b \in SState BY <1>1, <1>7, SendLastEffect
<1>. HIDE DEF b, e1
<1>9. CASE existing.receiver = x.receiver
  <2>1. t.ws[x.receiver] = "open" => e1 = Carry(x) BY <1>4, <1>6, <1>9
  <2>2. Over(RestoreTo(t, x, e1, notify), x) BY <1>3, <1>4, <1>5, <2>1, RestoreToOver
  <2>3. QED BY <1>9, <2>2 DEF RestoreWaitingReceiver, t, e1
<1>10. CASE existing.receiver # x.receiver /\ existing.receiver = NoPeer
  <2>1. Over(RestoreTo(t, x, e2, notify), x) BY <1>3, <1>4, <1>5, RestoreToOver
  <2>2. QED BY <1>10, <2>1 DEF RestoreWaitingReceiver, t, Carry
<1>11. CASE existing.receiver # x.receiver /\ existing.receiver # NoPeer
  <2>1. Over(CloseSessionPeers(b, x), x) BY <1>8, CloseSessionPeersOver
  <2>2. QED BY <1>11, <2>1 DEF RestoreWaitingReceiver, t, a, b
<1>12. QED BY <1>9, <1>10, <1>11

\* cleanupPeer ends the session of the peer, but for the peer's own socket.
LEMMA CleanupOver ==
  ASSUME NEW s, NEW x, Pair(x), Linked(s, x) \/ Over(s, x), NEW p \in {x.sender, x.receiver}
  PROVE  /\ OverBut(CleanupPeer(s, p), x, p)
         /\ CleanupPeer(s, p).ws[p] = "open" => s.ws[p] = "open"
<1>. DEFINE d == DropCode(s, p)
<1>1. /\ x.sender \in Peer /\ x.receiver \in Peer /\ x.sid \in SessionId /\ x.sid # NoSid
      /\ p \in Peer /\ s \in SState /\ x.sender # x.receiver
  BY DEF Pair, Linked, Over, Gone, SessionId, NoSid
<1>2. CASE Linked(s, x)
  <2>1. s.sid[p] = x.sid /\ s.sessions[x.sid] = x BY <1>2 DEF Linked
  <2>2. d = s
    <3>1. ~OwnsCode(s, p) BY <1>1, <1>2, CodeAssumption DEF OwnsCode, Linked, SState
    <3>2. QED BY <3>1 DEF DropCode
  <2>3. Live(s, s.sid[p]) BY <1>1, <2>1 DEF Live
  <2>4. CASE x.sender = p /\ ~Decided(x)
    <3>1. CleanupPeer(s, p) = RestoreWaitingReceiver(s, x, TRUE)
      BY <2>1, <2>2, <2>3, <2>4 DEF CleanupPeer
    <3>2. Over(RestoreWaitingReceiver(s, x, TRUE), x) BY <1>2, <2>4, RestoreOver
    <3>3. QED BY <2>4, <3>1, <3>2 DEF Over, OverBut
  <2>5. CASE ~(x.sender = p /\ ~Decided(x))
    <3>1. CleanupPeer(s, p) = EndSession(s, x, p)
      BY <2>1, <2>2, <2>3, <2>5 DEF CleanupPeer
    <3>2. QED BY <1>1, <3>1, EndSessionOver
  <2>6. QED BY <2>4, <2>5
<1>3. CASE Over(s, x)
  <2>1. s.sid[p] = NoSid BY <1>3 DEF Over, Gone
  <2>2. Quiet(s, d) /\ d.ws = s.ws BY <1>1, DropCodeQuiet
  <2>3. d.told = s.told BY <1>1 DEF DropCode, DeleteCode, SState
  <2>4. CleanupPeer(s, p) = d BY <2>1, <2>2 DEF CleanupPeer, Live, Quiet
  <2>5. p = x.sender /\ s.ws[x.receiver] = "open" => d.codes[x.code] = s.codes[x.code]
    <3>. SUFFICES ASSUME p = x.sender, s.ws[x.receiver] = "open", OwnsCode(s, p)
         PROVE  d.codes[x.code] = s.codes[x.code]
      BY DEF DropCode
    <3>1. s.codes[x.code] = Carry(x) BY <1>3 DEF Over, Rewaits, Returned
    <3>2. s.codes[x.code].receiver = x.receiver BY <3>1 DEF Carry
    <3>3. s.code[p] # x.code /\ s.code[p] \in Code BY <1>1, <3>2 DEF OwnsCode, SState
    <3>4. d.codes = [s.codes EXCEPT ![s.code[p]] = Free]
      BY <1>1 DEF DropCode, DeleteCode, SState
    <3>5. QED BY <1>1, <3>3, <3>4 DEF SState, Pair
  <2>. HIDE DEF d
  <2>6. Gone(d, x) BY <1>3, <2>2 DEF Over, Gone, Quiet
  <2>7. x.receiver # p /\ d.ws[x.receiver] = "open" => Rewaits(d, x)
    BY <1>3, <2>2, <2>3, <2>5 DEF Over, Rewaits, Returned, Quiet
  <2>8. QED BY <1>3, <2>2, <2>4, <2>6, <2>7 DEF OverBut, Over
<1>4. QED BY <1>2, <1>3

\* Closing the peer that leaves completes the end of the session.
LEMMA CloseLeaving ==
  ASSUME NEW s, NEW x, Pair(x), NEW p \in {x.sender, x.receiver}, OverBut(s, x, p),
         NEW t \in SState, t.codes = s.codes, t.sessions = s.sessions, t.role = s.role,
         t.sid = s.sid, t.code = s.code, t.told = s.told, t.ws[p] # "open",
         \A q \in Peer : q # p => t.ws[q] = s.ws[q]
  PROVE  Over(t, x)
<1>1. x.sender \in Peer /\ x.receiver \in Peer /\ x.sender # x.receiver BY DEF Pair
<1>2. Gone(t, x) BY DEF OverBut, Gone
<1>3. t.ws[x.sender] # "open" BY <1>1 DEF OverBut
<1>4. t.ws[x.receiver] = "open" => Rewaits(t, x)
  BY <1>1 DEF OverBut, Rewaits, Returned
<1>5. QED BY <1>2, <1>3, <1>4 DEF Over

\* send to a peer of a session: nothing happens, the message arrives, or the session ends.
LEMMA SendOutcome ==
  ASSUME NEW s, NEW x, Pair(x), Linked(s, x), NEW p \in {x.sender, x.receiver}, NEW m
  PROVE  LET t == Send(s, p, m)
         IN  \/ s.ws[p] # "open" /\ t = s
             \/ /\ s.ws[p] = "open" /\ t \in SState
                /\ t.codes = s.codes /\ t.sessions = s.sessions /\ t.ws = s.ws
                /\ t.role = s.role /\ t.sid = s.sid /\ t.code = s.code
                /\ t.told = [s.told EXCEPT ![p] = IF m \in Lifecycle THEN m ELSE s.told[p]]
             \/ Over(t, x) /\ t.ws[p] # "open"
<1>. DEFINE t == Send(s, p, m)
<1>1. p \in Peer /\ s \in SState BY DEF Pair, Linked
<1>2. CASE s.ws[p] # "open" BY <1>2 DEF Send
<1>3. CASE s.ws[p] = "open" /\ s.room[p] > 0
  <2>1. t = Deliver(s, p, m) BY <1>3 DEF Send
  <2>2. Quiet(s, t) /\ t.ws = s.ws /\ t.codes = s.codes BY <1>1, <1>3, <2>1, DeliverQuiet
  <2>3. t.told = [s.told EXCEPT ![p] = IF m \in Lifecycle THEN m ELSE s.told[p]]
    BY <1>1, <2>1 DEF Deliver, SState
  <2>4. QED BY <1>3, <2>2, <2>3 DEF Quiet
<1>4. CASE s.ws[p] = "open" /\ ~(s.room[p] > 0)
  <2>. DEFINE u == CleanupPeer(s, p)
  <2>1. t = Close(u, p) BY <1>4 DEF Send
  <2>2. OverBut(u, x, p) BY CleanupOver
  <2>3. u \in SState BY <2>2 DEF OverBut, Gone
  <2>. HIDE DEF u, t
  <2>4. /\ t \in SState /\ t.codes = u.codes /\ t.sessions = u.sessions
        /\ t.role = u.role /\ t.sid = u.sid /\ t.code = u.code /\ t.told = u.told
        /\ t.ws[p] # "open" /\ \A q \in Peer : q # p => t.ws[q] = u.ws[q]
    BY <1>1, <2>1, <2>3, CloseEffect
  <2>5. Over(t, x) BY <2>2, <2>4, CloseLeaving
  <2>6. QED BY <2>4, <2>5 DEF t
<1>5. QED BY <1>2, <1>3, <1>4

\* Once the session is over, a message that is no lifecycle message leaves it so.
LEMMA SendOver ==
  ASSUME NEW s, NEW x, Pair(x), Over(s, x), NEW p \in {x.sender, x.receiver}, NEW m,
         m \notin Lifecycle
  PROVE  Over(Send(s, p, m), x)
<1>. DEFINE t == Send(s, p, m)
<1>1. p \in Peer /\ s \in SState BY DEF Pair, Over, Gone
<1>2. CASE s.ws[p] # "open" BY <1>2 DEF Send
<1>3. CASE s.ws[p] = "open" /\ s.room[p] > 0
  <2>1. t = Deliver(s, p, m) BY <1>3 DEF Send
  <2>2. Quiet(s, t) /\ t.ws = s.ws /\ t.codes = s.codes BY <1>1, <1>3, <2>1, DeliverQuiet
  <2>3. t.told = [s.told EXCEPT ![p] = s.told[p]] BY <1>1, <2>1 DEF Deliver, SState
  <2>4. t.told = s.told BY <1>1, <2>3 DEF SState
  <2>. HIDE DEF t
  <2>5. Over(t, x) BY <2>2, <2>4 DEF Quiet, Over, Gone, Rewaits, Returned
  <2>6. QED BY <2>5 DEF t
<1>4. CASE s.ws[p] = "open" /\ ~(s.room[p] > 0)
  <2>. DEFINE u == CleanupPeer(s, p)
  <2>1. t = Close(u, p) BY <1>4 DEF Send
  <2>2. OverBut(u, x, p) BY CleanupOver
  <2>3. u \in SState BY <2>2 DEF OverBut, Gone
  <2>. HIDE DEF u, t
  <2>4. /\ t \in SState /\ t.codes = u.codes /\ t.sessions = u.sessions
        /\ t.role = u.role /\ t.sid = u.sid /\ t.code = u.code /\ t.told = u.told
        /\ t.ws[p] # "open" /\ \A q \in Peer : q # p => t.ws[q] = u.ws[q]
    BY <1>1, <2>1, <2>3, CloseEffect
  <2>5. Over(t, x) BY <2>2, <2>4, CloseLeaving
  <2>6. QED BY <2>5 DEF t
<1>5. QED BY <1>2, <1>3, <1>4
-----------------------------------------------------------------------------
(* What a callback owes to every connection and every session *)

Blank(s, p) ==
  /\ s.told[p] = "nothing" /\ s.role[p] = "none" /\ s.sid[p] = NoSid /\ s.code[p] = NoCode

Awaits(s, p) ==
  /\ s.told[p] \in {"registered", "lapsed"} /\ s.role[p] = "receiver"
  /\ s.sid[p] = NoSid /\ s.code[p] \in Code /\ s.codes[s.code[p]].receiver = p

Seats(s, p) ==
  \/ s.told[p] = "peer-joined"
  \/ /\ s.told[p] = "pair-accept" /\ Decided(s.sessions[s.sid[p]])
     /\ s.sessions[s.sid[p]].sender = p

\* The inductive form of ClientViewAgrees for one connection, A being the accepted ones:
\* it never asked for anything, it waits under a code it owns, or it is in a session.
Seat(s, A, p) ==
  /\ p \notin A => Blank(s, p) /\ s.ws[p] # "open"
  /\ s.ws[p] = "open" => Blank(s, p) \/ Awaits(s, p) \/ (s.sid[p] # NoSid /\ Seats(s, p))

\* Lease, of a record.
LeaseOf(s, p) ==
  IF Live(s, s.sid[p])
  THEN [ttl |-> s.sessions[s.sid[p]].codeTtl, left |-> s.sessions[s.sid[p]].remaining]
  ELSE [ttl |-> s.codes[s.code[p]].ttl, left |-> s.codes[s.code[p]].remaining]

\* Between o and s a receiver that keeps its code gains neither time nor attempts.
LeaseKept(o, s, p) ==
  o.ws[p] = "open" /\ s.ws[p] = "open" /\ o.role[p] = "receiver" /\ s.code[p] = o.code[p] =>
    /\ LeaseOf(s, p).ttl <= LeaseOf(o, p).ttl
    /\ LeaseOf(s, p).left <= LeaseOf(o, p).left
    /\ o.sid[p] = NoSid /\ s.sid[p] # NoSid => LeaseOf(s, p).left < LeaseOf(o, p).left

\* Between o and s a session that left the table ended for both its peers.
EndsWell(o, s, i) ==
  o.sessions[i].sid # NoSid /\ s.sessions[i].sid = NoSid =>
    /\ s.ws[o.sessions[i].sender] # "open"
    /\ s.ws[o.sessions[i].receiver] = "open" =>
         /\ ~Decided(o.sessions[i])
         /\ s.codes[o.sessions[i].code] = Carry(o.sessions[i])

\* What a callback owes to everyone.
Settles(o, s, A) ==
  /\ \A p \in Peer : Seat(s, A, p) /\ LeaseKept(o, s, p)
  /\ \A i \in SessionId : EndsWell(o, s, i)

\* What a handler owes it owes to the connections it works for and their sessions.
LEMMA SettlesFor ==
  ASSUME NEW o, NEW s, NEW n, NEW P \in SUBSET Peer, NEW I \in SUBSET SessionId,
         Good(o, n), \A p \in Peer : Seat(o, n.accepted, p),
         Apart(o, o, P, I), Apart(o, s, P, I),
         \A p \in P : Seat(s, n.accepted, p) /\ LeaseKept(o, s, p),
         \A i \in I : EndsWell(o, s, i)
  PROVE  Settles(o, s, n.accepted)
<1>1. o \in SState /\ s \in SState BY DEF Good, Apart
<1>2. ASSUME NEW q \in Peer, q \notin P PROVE Seat(s, n.accepted, q) /\ LeaseKept(o, s, q)
  <2>1. /\ s.ws[q] = o.ws[q] /\ s.told[q] = o.told[q] /\ s.role[q] = o.role[q]
        /\ s.sid[q] = o.sid[q] /\ s.code[q] = o.code[q]
    BY <1>2 DEF Apart
  <2>2. Seat(o, n.accepted, q) BY <1>2
  <2>3. q # NoPeer BY PeerAssumption
  <2>4. s.sid[q] # NoSid => s.sessions[s.sid[q]] = o.sessions[s.sid[q]]
    <3>. SUFFICES ASSUME s.sid[q] # NoSid PROVE s.sessions[s.sid[q]] = o.sessions[s.sid[q]]
      OBVIOUS
    <3>1. s.sid[q] \in SessionId BY <1>1 DEF SState
    <3>2. /\ o.sessions[s.sid[q]].sid # NoSid
          /\ q = o.sessions[s.sid[q]].sender \/ q = o.sessions[s.sid[q]].receiver
      BY <2>1 DEF Good, PL
    <3>3. s.sid[q] \notin I BY <1>2, <3>2 DEF Apart, Ours
    <3>4. QED BY <3>1, <3>3 DEF Apart
  <2>5. Awaits(o, q) => s.codes[s.code[q]] = o.codes[s.code[q]]
    BY <1>2, <2>1, <2>3 DEF Awaits, Apart
  <2>6. Seat(s, n.accepted, q)
    BY <2>1, <2>2, <2>4, <2>5 DEF Seat, Blank, Awaits, Seats
  <2>7. LeaseKept(o, s, q)
    <3>. SUFFICES ASSUME o.ws[q] = "open", o.role[q] = "receiver"
         PROVE  /\ LeaseOf(s, q).ttl <= LeaseOf(o, q).ttl
                /\ LeaseOf(s, q).left <= LeaseOf(o, q).left
      BY <2>1 DEF LeaseKept
    <3>1. CASE s.sid[q] # NoSid
      <4>1. Live(o, o.sid[q]) /\ Live(s, s.sid[q]) BY <2>1, <2>4, <3>1 DEF Live, Good, PL
      <4>2. s.sid[q] \in SessionId BY <1>1, <3>1 DEF SState
      <4>3. o.sessions[s.sid[q]].codeTtl \in Nat /\ o.sessions[s.sid[q]].remaining \in Nat
        BY <1>1, <4>2 DEF SState, Session
      <4>4. QED BY <2>1, <2>4, <3>1, <4>1, <4>3 DEF LeaseOf
    <3>2. CASE s.sid[q] = NoSid
      <4>1. Awaits(o, q) BY <2>1, <2>2, <3>2 DEF Seat, Blank
      <4>2. ~Live(o, o.sid[q]) /\ ~Live(s, s.sid[q]) BY <2>1, <3>2 DEF Live
      <4>3. o.code[q] \in Code BY <4>1 DEF Awaits
      <4>4. o.codes[o.code[q]].ttl \in Nat /\ o.codes[o.code[q]].remaining \in Nat
        BY <1>1, <4>3 DEF SState, CodeEntry
      <4>5. QED BY <2>1, <2>5, <4>1, <4>2, <4>4 DEF LeaseOf
    <3>3. QED BY <3>1, <3>2
  <2>8. QED BY <2>6, <2>7
<1>3. ASSUME NEW i \in SessionId, i \notin I PROVE EndsWell(o, s, i)
  BY <1>3 DEF Apart, EndsWell
<1>4. QED BY <1>2, <1>3 DEF Settles

\* A session that goes on: only its phase and its peers' sockets have changed.
Stays(o, s, x, y) ==
  /\ s \in SState /\ s.sessions[x.sid] = y
  /\ y.sid = x.sid /\ y.sender = x.sender /\ y.codeTtl = x.codeTtl
  /\ y.remaining = x.remaining /\ (Decided(x) => Decided(y))
  /\ \A q \in {x.sender, x.receiver} :
       /\ s.sid[q] = x.sid /\ (s.ws[q] = "open" => o.ws[q] = "open")
       /\ s.told[q] = o.told[q] \/ (q = x.sender /\ s.told[q] = "pair-accept" /\ Decided(y))

\* The session is over or goes on, possibly in a later phase.
Settled(o, s, x) == Over(s, x) \/ \E y : Stays(o, s, x, y)

\* Whatever a handler does to a session, it owes nothing afterwards once that is settled.
LEMMA SettledPair ==
  ASSUME NEW o, NEW s, NEW n, NEW x, Pair(x), Linked(o, x), Good(o, n),
         {x.sender, x.receiver} \subseteq n.accepted,
         \A p \in Peer : Seat(o, n.accepted, p),
         Apart(o, s, {x.sender, x.receiver}, {x.sid}), Settled(o, s, x)
  PROVE  Settles(o, s, n.accepted)
<1>. DEFINE P == {x.sender, x.receiver}
            I == {x.sid}
<1>1. /\ x.sender \in Peer /\ x.receiver \in Peer /\ x.sid \in SessionId /\ x.sid # NoSid
      /\ x.code \in Code /\ x.sender # x.receiver /\ x.codeTtl \in Nat /\ x.remaining \in Nat
  BY DEF Pair, SessionId, NoSid, Session
<1>2. P \in SUBSET Peer /\ I \in SUBSET SessionId BY <1>1
<1>3. Apart(o, o, P, I) BY <1>1 DEF Apart, Ours, Linked, Pair
<1>4. /\ o.sessions[x.sid] = x /\ o.sid[x.sender] = x.sid /\ o.sid[x.receiver] = x.sid
  BY DEF Linked
<1>5. \A p \in P : Live(o, o.sid[p]) /\ o.sessions[o.sid[p]] = x BY <1>1, <1>4 DEF Live
<1>6. CASE Over(s, x)
  <2>1. s.sid[x.receiver] = NoSid /\ s.ws[x.sender] # "open" BY <1>6 DEF Over, Gone
  <2>2. s.ws[x.receiver] = "open" => Awaits(s, x.receiver)
    BY <1>1, <1>6 DEF Over, Gone, Rewaits, Returned, Awaits, Carry
  <2>3. ASSUME NEW p \in P PROVE Seat(s, n.accepted, p)
    BY <2>1, <2>2, <2>3 DEF Seat
  <2>4. LeaseKept(o, s, x.sender) BY <2>1 DEF LeaseKept
  <2>5. LeaseKept(o, s, x.receiver)
    <3>. SUFFICES ASSUME s.ws[x.receiver] = "open"
         PROVE  /\ LeaseOf(s, x.receiver).ttl <= LeaseOf(o, x.receiver).ttl
                /\ LeaseOf(s, x.receiver).left <= LeaseOf(o, x.receiver).left
      BY <1>1, <1>4 DEF LeaseKept
    <3>1. s.code[x.receiver] = x.code /\ s.codes[x.code] = Carry(x)
      BY <1>6 DEF Over, Rewaits, Returned
    <3>2. ~Live(s, s.sid[x.receiver]) BY <2>1 DEF Live
    <3>3. LeaseOf(s, x.receiver) = [ttl |-> x.codeTtl, left |-> x.remaining]
      BY <3>1, <3>2 DEF LeaseOf, Carry
    <3>4. LeaseOf(o, x.receiver) = [ttl |-> x.codeTtl, left |-> x.remaining]
      BY <1>5 DEF LeaseOf
    <3>5. QED BY <1>1, <3>3, <3>4
  <2>6. EndsWell(o, s, x.sid)
    BY <1>4, <1>6 DEF EndsWell, Over, Rewaits, Returned
  <2>7. /\ \A p \in P : Seat(s, n.accepted, p) /\ LeaseKept(o, s, p)
        /\ \A i \in I : EndsWell(o, s, i)
    BY <2>3, <2>4, <2>5, <2>6
  <2>8. QED BY <1>2, <1>3, <2>7, SettlesFor
<1>7. ASSUME NEW y, Stays(o, s, x, y) PROVE Settles(o, s, n.accepted)
  <2>1. /\ s.sessions[x.sid] = y /\ y.sid = x.sid /\ y.sender = x.sender
        /\ y.codeTtl = x.codeTtl /\ y.remaining = x.remaining /\ (Decided(x) => Decided(y))
    BY <1>7 DEF Stays
  <2>2. ASSUME NEW p \in P PROVE Seat(s, n.accepted, p) /\ LeaseKept(o, s, p)
    <3>1. /\ s.sid[p] = x.sid /\ (s.ws[p] = "open" => o.ws[p] = "open")
          /\ s.told[p] = o.told[p] \/ (p = x.sender /\ s.told[p] = "pair-accept" /\ Decided(y))
      BY <1>7, <2>2 DEF Stays
    <3>2. o.ws[p] = "open" => Seats(o, p)
      BY <1>1, <1>4, <2>2 DEF Seat, Blank, Awaits
    <3>3. s.ws[p] = "open" => Seats(s, p)
      BY <1>4, <1>5, <2>1, <3>1, <3>2 DEF Seats
    <3>4. Seat(s, n.accepted, p) BY <1>1, <2>2, <3>1, <3>3 DEF Seat
    <3>5. Live(s, s.sid[p]) BY <1>1, <2>1, <3>1 DEF Live
    <3>6. LeaseOf(s, p) = [ttl |-> x.codeTtl, left |-> x.remaining]
      BY <2>1, <3>1, <3>5 DEF LeaseOf
    <3>7. LeaseOf(o, p) = [ttl |-> x.codeTtl, left |-> x.remaining]
      BY <1>5, <2>2 DEF LeaseOf
    <3>8. o.sid[p] # NoSid BY <1>1, <1>4, <2>2
    <3>9. LeaseKept(o, s, p) BY <1>1, <3>6, <3>7, <3>8 DEF LeaseKept
    <3>10. QED BY <3>4, <3>9
  <2>3. EndsWell(o, s, x.sid) BY <1>1, <2>1 DEF EndsWell
  <2>4. QED BY <1>2, <1>3, <2>2, <2>3, SettlesFor
<1>8. QED BY <1>6, <1>7 DEF Settled

\* A connection in no session whose handler left it as it was, or closed it.
Alone(o, s, p) ==
  s.ws[p] = "open" =>
    /\ o.ws[p] = "open" /\ s.codes = o.codes /\ s.told[p] = o.told[p]
    /\ s.role[p] = o.role[p] /\ s.sid[p] = o.sid[p] /\ s.code[p] = o.code[p]

\* A callback that works for one connection in no session settles with everyone.
LEMMA SettledAlone ==
  ASSUME NEW o, NEW s, NEW n, NEW p \in Peer, o.sid[p] = NoSid, Good(o, n),
         p \in n.accepted, \A q \in Peer : Seat(o, n.accepted, q),
         Apart(o, s, {p}, {}), Alone(o, s, p)
  PROVE  Settles(o, s, n.accepted)
<1>1. o \in SState BY DEF Good
<1>2. Apart(o, o, {p}, {}) BY <1>1 DEF Apart
<1>3. Seat(o, n.accepted, p) OBVIOUS
<1>4. Seat(s, n.accepted, p) BY <1>3 DEF Seat, Alone, Blank, Awaits
<1>5. LeaseKept(o, s, p)
  <2>. SUFFICES ASSUME s.ws[p] = "open", o.role[p] = "receiver"
       PROVE  /\ LeaseOf(s, p).ttl <= LeaseOf(o, p).ttl
              /\ LeaseOf(s, p).left <= LeaseOf(o, p).left
    BY DEF LeaseKept, Alone
  <2>1. Awaits(o, p) BY <1>3 DEF Seat, Blank, Alone
  <2>2. ~Live(o, o.sid[p]) /\ ~Live(s, s.sid[p]) BY DEF Live, Alone
  <2>3. o.code[p] \in Code BY <2>1 DEF Awaits
  <2>4. o.codes[o.code[p]].ttl \in Nat /\ o.codes[o.code[p]].remaining \in Nat
    BY <1>1, <2>3 DEF SState, CodeEntry
  <2>5. QED BY <2>2, <2>4 DEF LeaseOf, Alone
<1>6. QED BY <1>2, <1>4, <1>5, SettlesFor

-----------------------------------------------------------------------------
(* What each handler does to the session it works on *)

\* A session object a handler holds: in the table, or over.
Bound(s, x) == Linked(s, x) \/ Over(s, x)

\* A change that leaves the registry alone leaves the session bound.
LEMMA LinkedSame ==
  ASSUME NEW s, NEW x, Linked(s, x), NEW t \in SState, t.codes = s.codes,
         t.sessions = s.sessions, t.sid = s.sid
  PROVE  Linked(t, x)
  BY DEF Linked

\* A session that is over stays so when a peer of it is closed.
LEMMA OverClose ==
  ASSUME NEW s, NEW x, Pair(x), Over(s, x), NEW p \in Peer
  PROVE  Over(Close(s, p), x)
<1>. DEFINE t == Close(s, p)
<1>1. s \in SState /\ x.sender \in Peer /\ x.receiver \in Peer BY DEF Over, Gone, Pair
<1>2. /\ t \in SState /\ t.codes = s.codes /\ t.sessions = s.sessions
      /\ t.role = s.role /\ t.sid = s.sid /\ t.code = s.code /\ t.told = s.told
      /\ t.ws[p] # "open" /\ \A q \in Peer : q # p => t.ws[q] = s.ws[q]
  BY <1>1, CloseEffect
<1>. SUFFICES Over(t, x) OBVIOUS
<1>. HIDE DEF t
<1>3. Gone(t, x) BY <1>2 DEF Over, Gone
<1>4. t.ws[x.sender] # "open" BY <1>1, <1>2 DEF Over
<1>5. t.ws[x.receiver] = "open" => Rewaits(t, x)
  BY <1>1, <1>2 DEF Over, Rewaits, Returned
<1>6. QED BY <1>3, <1>4, <1>5 DEF Over

\* A message that is no lifecycle message leaves the session bound.
LEMMA SendBound ==
  ASSUME NEW s, NEW x, Pair(x), Bound(s, x), NEW p \in {x.sender, x.receiver}, NEW m,
         Linked(s, x) \/ m \notin Lifecycle
  PROVE  Bound(Send(s, p, m), x)
<1>. DEFINE t == Send(s, p, m)
<1>1. CASE Linked(s, x)
  <2>1. \/ s.ws[p] # "open" /\ t = s
        \/ /\ t \in SState /\ t.codes = s.codes /\ t.sessions = s.sessions /\ t.sid = s.sid
        \/ Over(t, x)
    BY <1>1, SendOutcome
  <2>. SUFFICES Bound(t, x) OBVIOUS
  <2>. HIDE DEF t
  <2>2. QED BY <1>1, <2>1, LinkedSame DEF Bound
<1>2. CASE Over(s, x) /\ m \notin Lifecycle BY <1>2, SendOver DEF Bound
<1>3. QED BY <1>1, <1>2 DEF Bound

\* The same of an error message.
LEMMA FailBound ==
  ASSUME NEW s, NEW x, Pair(x), Bound(s, x), NEW p \in {x.sender, x.receiver}
  PROVE  Bound(Fail(s, p), x)
<1>. DEFINE m == "error"
<1>1. m \notin Lifecycle BY DEF Lifecycle
<1>. HIDE DEF m
<1>2. Bound(Send(s, p, m), x) BY <1>1, SendBound
<1>3. QED BY <1>2 DEF Fail, m

\* relayDeliveryFailed, for a target whose socket is not open any more.
LEMMA DeliveryFailedOver ==
  ASSUME NEW s, NEW n, NEW x, Pair(x), Good(s, n), Bound(s, x),
         NEW p \in {x.sender, x.receiver}, NEW target \in {x.sender, x.receiver},
         s.ws[target] # "open", NEW restore
  PROVE  Over(RelayDeliveryFailed(s, x, p, target, restore), x)
<1>. DEFINE t == Fail(s, p)
            e == EndSession(t, x, target)
<1>1. p \in Peer /\ target \in Peer BY DEF Pair
<1>2. Shuts(s, t) BY <1>1, SendShuts DEF Fail
<1>3. t \in SState /\ t.ws[target] # "open" BY <1>1, <1>2 DEF Shuts
<1>4. Bound(t, x) BY FailBound
<1>5. \/ /\ ~Decided(x)
         /\ RelayDeliveryFailed(s, x, p, target, restore) = RestoreWaitingReceiver(t, x, TRUE)
      \/ RelayDeliveryFailed(s, x, p, target, restore) = e
  BY DEF RelayDeliveryFailed
<1>. HIDE DEF t
<1>6. ~Decided(x) => Over(RestoreWaitingReceiver(t, x, TRUE), x)
  BY <1>4, RestoreOver DEF Bound
<1>7. OverBut(e, x, target) /\ e.ws[target] = t.ws[target] BY <1>3, EndSessionOver
<1>. HIDE DEF e
<1>8. Over(e, x) BY <1>3, <1>7 DEF OverBut, Over
<1>9. QED BY <1>5, <1>6, <1>8

\* The rejection of an early sender, and the TURN credential quota.
LEMMA RefusalOver ==
  ASSUME NEW s, NEW n, NEW x, Pair(x), Good(s, n), Bound(s, x),
         NEW p \in {x.sender, x.receiver}
  PROVE  /\ ~Decided(x) => Over(RejectPrePairSender(s, x, p), x)
         /\ Over(CloseSessionForTurnRateLimit(s, x), x)
<1>1. Bound(Fail(s, p), x) BY FailBound
<1>2. ~Decided(x) => Over(RejectPrePairSender(s, x, p), x)
  BY <1>1, RestoreOver DEF RejectPrePairSender, Bound
<1>. DEFINE f == Fail(s, x.sender)
            g == Fail(f, x.receiver)
<1>3. x.sender \in Peer /\ x.receiver \in Peer BY DEF Pair
<1>4. Good(f, n) BY <1>3, SimpleGood
<1>5. Good(g, n) BY <1>3, <1>4, SimpleGood
<1>6. g \in SState BY <1>5 DEF Good
<1>7. Over(CloseSessionPeers(g, x), x) BY <1>6, CloseSessionPeersOver
<1>8. QED BY <1>2, <1>7 DEF CloseSessionForTurnRateLimit

\* bye, the error and the close of a socket, and ws.terminate.
LEMMA LeaveOver ==
  ASSUME NEW s, NEW x, Pair(x), Linked(s, x), NEW p \in {x.sender, x.receiver}
  PROVE  /\ Over(Close(CleanupPeer(s, p), p), x)
         /\ Over(Terminate(s, p), x)
         /\ s.ws[p] # "open" => Over(CleanupPeer(s, p), x)
         /\ s.ws[p] # "open" => Over(Release(CleanupPeer(s, p), p), x)
<1>. DEFINE u == CleanupPeer(s, p)
            c == Close(u, p)
            r == Release(u, p)
            t == Shut(r, p)
<1>1. p \in Peer /\ x.sender \in Peer /\ x.receiver \in Peer BY DEF Pair
<1>2. OverBut(u, x, p) /\ (u.ws[p] = "open" => s.ws[p] = "open") BY CleanupOver
<1>3. u \in SState BY <1>2 DEF OverBut, Gone
<1>4. t = Terminate(s, p) BY DEF Terminate
<1>. HIDE DEF u
<1>5. /\ c \in SState /\ c.codes = u.codes /\ c.sessions = u.sessions
      /\ c.role = u.role /\ c.sid = u.sid /\ c.code = u.code /\ c.told = u.told
      /\ c.ws[p] # "open" /\ \A q \in Peer : q # p => c.ws[q] = u.ws[q]
  BY <1>1, <1>3, CloseEffect
<1>6. /\ r \in SState /\ r.codes = u.codes /\ r.sessions = u.sessions /\ r.ws = u.ws
      /\ r.role = u.role /\ r.sid = u.sid /\ r.code = u.code
  BY <1>1, <1>3, ReleaseType
<1>7. r.told = u.told BY <1>3 DEF Release, SState
<1>. HIDE DEF c, r
<1>8. /\ t \in SState /\ t.codes = r.codes /\ t.sessions = r.sessions
      /\ t.role = r.role /\ t.sid = r.sid /\ t.code = r.code /\ t.told = r.told
      /\ t.ws[p] # "open" /\ \A q \in Peer : q # p => t.ws[q] = r.ws[q]
  BY <1>1, <1>6 DEF Shut, SState
<1>. HIDE DEF t
<1>9. Over(c, x) BY <1>2, <1>5, CloseLeaving
<1>10. Over(t, x) BY <1>2, <1>6, <1>7, <1>8, CloseLeaving
<1>11. s.ws[p] # "open" => Over(u, x) BY <1>2, <1>3, CloseLeaving
<1>12. s.ws[p] # "open" => Over(r, x) BY <1>2, <1>6, <1>7, CloseLeaving
<1>13. QED BY <1>4, <1>9, <1>10, <1>11, <1>12 DEF c, r, t, u

\* A message that is no lifecycle message, and perhaps the close of its addressee.
LEMMA FailSettled ==
  ASSUME NEW o, NEW s, NEW x, Pair(x), Linked(o, x), NEW p \in {x.sender, x.receiver},
         s \in SState, s.codes = o.codes, s.sessions = o.sessions, s.sid = o.sid,
         s.ws = o.ws, s.told = o.told
  PROVE  Settled(o, Fail(s, p), x) /\ Settled(o, Close(Fail(s, p), p), x)
<1>. DEFINE m == "error"
            t == Send(s, p, m)
            c == Close(t, p)
<1>1. m \notin Lifecycle BY DEF Lifecycle
<1>2. x.sender \in Peer /\ x.receiver \in Peer /\ p \in Peer BY DEF Pair
<1>3. Linked(s, x) BY LinkedSame
<1>. HIDE DEF m
<1>4. \/ s.ws[p] # "open" /\ t = s
      \/ /\ s.ws[p] = "open" /\ t \in SState
         /\ t.codes = s.codes /\ t.sessions = s.sessions /\ t.ws = s.ws
         /\ t.role = s.role /\ t.sid = s.sid /\ t.code = s.code
         /\ t.told = [s.told EXCEPT ![p] = s.told[p]]
      \/ Over(t, x) /\ t.ws[p] # "open"
  BY <1>1, <1>3, SendOutcome
<1>5. [s.told EXCEPT ![p] = s.told[p]] = s.told BY <1>2 DEF SState
<1>. HIDE DEF t
<1>6. CASE Over(t, x)
  <2>1. Over(c, x) BY <1>2, <1>6, OverClose
  <2>2. QED BY <1>6, <2>1 DEF Settled, Fail, t, m, c
<1>7. CASE /\ t \in SState /\ t.sessions = s.sessions /\ t.ws = s.ws /\ t.sid = s.sid
           /\ t.told = s.told
  <2>1. /\ c \in SState /\ c.sessions = t.sessions /\ c.sid = t.sid /\ c.told = t.told
        /\ c.ws[p] # "open" /\ \A q \in Peer : q # p => c.ws[q] = t.ws[q]
    BY <1>2, <1>7, CloseEffect
  <2>. HIDE DEF c
  <2>2. Stays(o, t, x, x) BY <1>2, <1>7 DEF Stays, Linked
  <2>3. Stays(o, c, x, x) BY <1>2, <1>7, <2>1 DEF Stays, Linked
  <2>4. Settled(o, t, x) /\ Settled(o, c, x) BY <2>2, <2>3 DEF Settled
  <2>5. QED BY <2>4 DEF Fail, t, m, c
<1>8. QED BY <1>4, <1>5, <1>6, <1>7

\* badMessage.
LEMMA BadMessageSettled ==
  ASSUME NEW s, NEW n, NEW x, Pair(x), Good(s, n), Linked(s, x),
         NEW p \in {x.sender, x.receiver}
  PROVE  Settled(s, BadMessage(s, p), x)
<1>. DEFINE k == s.bad[p] + 1
            b == [s EXCEPT !.bad[p] = k]
            t == Fail(b, p)
<1>1. p \in Peer /\ s \in SState BY DEF Pair, Linked
<1>2. k \in Nat BY <1>1 DEF SState
<1>3. /\ Live(s, s.sid[p]) <=> x.sid # NoSid
      /\ s.sessions[s.sid[p]] = x
  BY DEF Linked, Live
<1>4. \/ ~Decided(x) /\ BadMessage(s, p) = RejectPrePairSender(s, x, p)
      \/ BadMessage(s, p) = Close(t, p)
      \/ BadMessage(s, p) = t
  BY <1>3 DEF BadMessage
<1>. HIDE DEF k
<1>5. /\ b \in SState /\ b.codes = s.codes /\ b.sessions = s.sessions /\ b.sid = s.sid
      /\ b.ws = s.ws /\ b.told = s.told
  BY <1>1, <1>2 DEF SState
<1>. HIDE DEF b
<1>6. Settled(s, t, x) /\ Settled(s, Close(t, p), x) BY <1>5, FailSettled
<1>7. ~Decided(x) => Over(RejectPrePairSender(s, x, p), x) BY RefusalOver DEF Bound
<1>8. QED BY <1>4, <1>6, <1>7 DEF Settled

\* applyRelayPhase decides at most, and does not touch what the session carries.
LEMMA PhaseKeeps ==
  ASSUME NEW x \in Session, NEW p, NEW m
  PROVE  LET y == ApplyRelayPhase(x, p, m)
         IN  /\ y.codeTtl = x.codeTtl /\ y.remaining = x.remaining
             /\ Decided(x) => Decided(y)
             /\ m = "pair-accept" => Decided(y)
<1>. DEFINE y == ApplyRelayPhase(x, p, m)
<1>1. y.codeTtl = x.codeTtl /\ y.remaining = x.remaining BY DEF ApplyRelayPhase, Session
<1>2. x.seen \subseteq y.seen
  BY DEF ApplyRelayPhase, Session
<1>3. m = "pair-accept" => y.seen = x.seen \cup {"pairDecided"}
  BY DEF ApplyRelayPhase, Session
<1>4. QED BY <1>1, <1>2, <1>3 DEF Decided

\* The session is written back with its next phase.
LEMMA AdvanceStays ==
  ASSUME NEW o, NEW t, NEW n, NEW x, NEW p, NEW m, Member(x, n), t \in SState,
         \A q \in {x.sender, x.receiver} :
           /\ t.sid[q] = x.sid /\ (t.ws[q] = "open" => o.ws[q] = "open")
           /\ \/ t.told[q] = o.told[q]
              \/ q = x.sender /\ t.told[q] = "pair-accept" /\ m = "pair-accept"
  PROVE  Settled(o, [t EXCEPT !.sessions[x.sid] = ApplyRelayPhase(x, p, m)], x)
<1>. DEFINE y == ApplyRelayPhase(x, p, m)
            a == [t EXCEPT !.sessions[x.sid] = y]
<1>1. x \in Session /\ x.sid \in SessionId BY DEF Member
<1>2. y \in Session /\ y.sid = x.sid /\ y.sender = x.sender BY ApplyRelayPhaseType
<1>3. /\ y.codeTtl = x.codeTtl /\ y.remaining = x.remaining
      /\ Decided(x) => Decided(y)
      /\ m = "pair-accept" => Decided(y)
  BY <1>1, PhaseKeeps
<1>. HIDE DEF y
<1>4. /\ a \in SState /\ a.sessions[x.sid] = y /\ a.sid = t.sid /\ a.ws = t.ws
      /\ a.told = t.told
  BY <1>1, <1>2 DEF SState
<1>. HIDE DEF a
<1>5. Stays(o, a, x, y) BY <1>2, <1>3, <1>4 DEF Stays
<1>6. QED BY <1>5 DEF Settled, a, y

\* relay: the message is forwarded and the phase advances, or the session ends.
LEMMA ForwardSettled ==
  ASSUME NEW s, NEW n, NEW x, Pair(x), Good(s, n), Member(x, n), Linked(s, x),
         NEW p \in {x.sender, x.receiver}, NEW m, m \notin Lifecycle
  PROVE  Settled(s, Forward(s, x, p, m), x)
<1>. DEFINE target == Other(x, p)
            t == Send(s, target, m)
            a == [t EXCEPT !.sessions[x.sid] = ApplyRelayPhase(x, p, m)]
            f == RelayDeliveryFailed(t, x, p, target, m # "pair-reject")
<1>1. target \in {x.sender, x.receiver} /\ target \in Peer /\ p \in Peer
  BY DEF Other, Pair
<1>2. Forward(s, x, p, m) =
        IF t.ws[target] # "open" THEN f
        ELSE IF m = "pair-reject" THEN CloseSessionPeers(a, x) ELSE a
  BY DEF Forward
<1>. HIDE DEF target
<1>3. Good(t, n) /\ t \in SState BY <1>1, SendGood DEF Good
<1>4. Bound(t, x) BY <1>1, SendBound DEF Bound
<1>5. \/ s.ws[target] # "open" /\ t = s
      \/ /\ s.ws[target] = "open" /\ t \in SState
         /\ t.codes = s.codes /\ t.sessions = s.sessions /\ t.ws = s.ws
         /\ t.role = s.role /\ t.sid = s.sid /\ t.code = s.code
         /\ t.told = [s.told EXCEPT ![target] = s.told[target]]
      \/ Over(t, x) /\ t.ws[target] # "open"
  BY <1>1, SendOutcome
<1>6. [s.told EXCEPT ![target] = s.told[target]] = s.told BY <1>1 DEF Good, SState
<1>. HIDE DEF t
<1>7. CASE t.ws[target] # "open"
  <2>1. Over(f, x) BY <1>1, <1>3, <1>4, <1>7, DeliveryFailedOver
  <2>. HIDE DEF f
  <2>2. QED BY <1>2, <1>7, <2>1 DEF Settled
<1>8. CASE t.ws[target] = "open"
  <2>1. t.sid = s.sid /\ t.ws = s.ws /\ t.told = s.told BY <1>5, <1>6, <1>8
  <2>2. \A q \in {x.sender, x.receiver} : t.sid[q] = x.sid BY <2>1 DEF Linked
  <2>3. Settled(s, a, x) BY <1>3, <2>1, <2>2, AdvanceStays
  <2>4. a \in SState
    <3>1. ApplyRelayPhase(x, p, m) \in Session BY ApplyRelayPhaseType
    <3>2. QED BY <1>3, <3>1 DEF SState, Member
  <2>. HIDE DEF a
  <2>5. Over(CloseSessionPeers(a, x), x) BY <2>4, CloseSessionPeersOver
  <2>6. QED BY <1>2, <1>8, <2>3, <2>5 DEF Settled
<1>9. QED BY <1>7, <1>8

\* pair-accept.
LEMMA AcceptSettled ==
  ASSUME NEW s, NEW n, NEW x, Pair(x), Good(s, n), Member(x, n), Linked(s, x), NEW limited
  PROVE  Settled(s, AcceptPair(s, x, x.receiver, limited), x)
<1>. DEFINE p == x.receiver
            m1 == "ice-config"
            m2 == "pair-accept"
            ice == Send(s, x.sender, m1)
            acc == Send(ice, x.sender, m2)
            own == Send(acc, p, m1)
            a == [own EXCEPT !.sessions[x.sid] = ApplyRelayPhase(x, p, m2)]
            l1 == CloseSessionForTurnRateLimit(s, x)
            l2 == CloseSessionForTurnRateLimit(acc, x)
            f == RelayDeliveryFailed(acc, x, p, x.sender, TRUE)
            c == CloseSessionPeers(own, x)
<1>1. p \in Peer /\ x.sender \in Peer /\ x.sender # p BY DEF Pair
<1>2. m1 \notin Lifecycle /\ m2 \in Lifecycle BY DEF Lifecycle
<1>3. AcceptPair(s, x, p, limited) =
        IF limited = x.sender THEN l1
        ELSE IF acc.ws[x.sender] # "open" THEN f
        ELSE IF limited = p THEN l2
        ELSE IF own.ws[p] # "open" THEN c ELSE a
  BY DEF AcceptPair
<1>. HIDE DEF m1
<1>4. Good(ice, n) /\ ice \in SState BY <1>1, SendGood DEF Good
<1>5. Good(acc, n) /\ acc \in SState BY <1>1, <1>4, SendGood DEF Good
<1>6. Good(own, n) /\ own \in SState BY <1>1, <1>5, SendGood DEF Good
<1>7. Bound(ice, x) BY <1>2, SendBound DEF Bound
<1>8. \/ s.ws[x.sender] # "open" /\ ice = s
      \/ /\ s.ws[x.sender] = "open" /\ ice.codes = s.codes /\ ice.sessions = s.sessions
         /\ ice.ws = s.ws /\ ice.sid = s.sid
         /\ ice.told = [s.told EXCEPT ![x.sender] = s.told[x.sender]]
      \/ Over(ice, x) /\ ice.ws[x.sender] # "open"
  BY <1>2, SendOutcome
<1>9. Shuts(ice, acc) /\ Shuts(acc, own) BY <1>1, <1>4, <1>5, SendShuts
<1>10. ice.ws[x.sender] # "open" => acc = ice BY DEF Send
<1>11. Bound(acc, x)
  <2>1. CASE ice.ws[x.sender] # "open" BY <1>7, <1>10, <2>1
  <2>2. CASE ice.ws[x.sender] = "open"
    <3>1. Linked(ice, x) BY <1>7, <2>2 DEF Bound, Over
    <3>. HIDE DEF m2, ice
    <3>2. QED BY <1>7, <3>1, SendBound
  <2>3. QED BY <2>1, <2>2
<1>12. Over(l1, x) BY RefusalOver DEF Bound
<1>13. Over(l2, x) BY <1>5, <1>11, RefusalOver
<1>14. acc.ws[x.sender] # "open" => Over(f, x) BY <1>5, <1>11, DeliveryFailedOver
<1>15. Over(c, x) BY <1>6, CloseSessionPeersOver
<1>16. ASSUME acc.ws[x.sender] = "open", own.ws[p] = "open" PROVE Settled(s, a, x)
  <2>1. ice.ws[x.sender] = "open" BY <1>1, <1>9, <1>16 DEF Shuts
  <2>2. Linked(ice, x) BY <1>7, <2>1 DEF Bound, Over
  <2>3. /\ ice.ws = s.ws /\ ice.sid = s.sid
        /\ ice.told = [s.told EXCEPT ![x.sender] = s.told[x.sender]]
    BY <1>8, <2>1 DEF Over, Good, SState
  <2>4. \/ ice.ws[x.sender] # "open" /\ acc = ice
        \/ /\ ice.ws[x.sender] = "open" /\ acc.codes = ice.codes
           /\ acc.sessions = ice.sessions /\ acc.ws = ice.ws /\ acc.sid = ice.sid
           /\ acc.told = [ice.told EXCEPT ![x.sender] = m2]
        \/ Over(acc, x) /\ acc.ws[x.sender] # "open"
    <3>. HIDE DEF m2, ice
    <3>1. QED BY <1>2, <2>2, SendOutcome
  <2>5. /\ acc.codes = ice.codes /\ acc.sessions = ice.sessions /\ acc.ws = ice.ws
        /\ acc.sid = ice.sid /\ acc.told = [ice.told EXCEPT ![x.sender] = m2]
    BY <1>16, <2>1, <2>4
  <2>. HIDE DEF m2, ice, acc
  <2>6. Linked(acc, x) BY <1>5, <2>2, <2>5, LinkedSame
  <2>7. \/ acc.ws[p] # "open" /\ own = acc
        \/ /\ own.ws = acc.ws /\ own.sid = acc.sid
           /\ own.told = [acc.told EXCEPT ![p] = acc.told[p]]
        \/ Over(own, x) /\ own.ws[p] # "open"
    BY <1>2, <2>6, SendOutcome
  <2>. HIDE DEF own
  <2>8. /\ own.ws = acc.ws /\ own.sid = acc.sid
        /\ own.told = [acc.told EXCEPT ![p] = acc.told[p]]
    BY <1>5, <1>16, <2>7 DEF SState
  <2>9. own.told[x.sender] = m2 /\ own.told[p] = s.told[p]
    <3>1. s.told \in [Peer -> Lifecycle \cup {"nothing"}] BY DEF Good, SState
    <3>2. ice.told \in [Peer -> Lifecycle \cup {"nothing"}] BY <1>4 DEF SState
    <3>3. acc.told \in [Peer -> Lifecycle \cup {"nothing"}] BY <1>5 DEF SState
    <3>4. QED BY <1>1, <2>3, <2>5, <2>8, <3>1, <3>2, <3>3
  <2>10. own.ws = s.ws /\ own.sid = s.sid BY <2>3, <2>5, <2>8
  <2>11. own.sid[x.sender] = x.sid /\ own.sid[x.receiver] = x.sid BY <2>10 DEF Linked
  <2>12. \A q \in {x.sender, x.receiver} :
           /\ own.sid[q] = x.sid /\ (own.ws[q] = "open" => s.ws[q] = "open")
           /\ \/ own.told[q] = s.told[q]
              \/ q = x.sender /\ own.told[q] = "pair-accept" /\ m2 = "pair-accept"
    BY <2>9, <2>10, <2>11 DEF m2
  <2>13. QED BY <1>6, <2>12, AdvanceStays
<1>. HIDE DEF l1, l2, f, c, a, own, acc, ice
<1>17. QED BY <1>3, <1>12, <1>13, <1>14, <1>15, <1>16 DEF Settled

-----------------------------------------------------------------------------
(* The handlers stay within their connections *)

\* Writing a session of P back.
LEMMA ApartWrite ==
  ASSUME NEW o, NEW s, NEW P \in SUBSET Peer, NEW I \in SUBSET SessionId,
         Apart(o, s, P, I), NEW y, Ours(y, P, I)
  PROVE  Apart(o, [s EXCEPT !.sessions[y.sid] = y], P, I)
<1>. DEFINE t == [s EXCEPT !.sessions[y.sid] = y]
<1>1. s \in SState /\ y \in Session /\ y.sid \in I /\ y.sid \in SessionId BY DEF Apart, Ours
<1>2. /\ t \in SState /\ t.codes = s.codes /\ t.ws = s.ws /\ t.told = s.told
      /\ t.released = s.released /\ t.role = s.role /\ t.sid = s.sid /\ t.code = s.code
      /\ t.sessions = [s.sessions EXCEPT ![y.sid] = y]
  BY <1>1 DEF SState
<1>3. \A i \in SessionId : t.sessions[i] = IF i = y.sid THEN y ELSE s.sessions[i]
  BY <1>1, <1>2 DEF SState
<1>. SUFFICES Apart(o, t, P, I) OBVIOUS
<1>. HIDE DEF t
<1>4. \A i \in SessionId : i \notin I => t.sessions[i] = s.sessions[i] BY <1>1, <1>3
<1>5. \A i \in I : \/ t.sessions[i] = s.sessions[i] \/ t.sessions[i].sid = NoSid
                   \/ Ours(t.sessions[i], P, I)
  BY <1>3
<1>6. QED BY <1>2, <1>4, <1>5, ApartStep

\* relay and pair-accept.
LEMMA ApartRelay ==
  ASSUME NEW o, NEW s, NEW P \in SUBSET Peer, NEW I \in SUBSET SessionId,
         Apart(o, s, P, I), NEW x, NEW n, Ours(x, P, I), Member(x, n),
         NEW p \in {x.sender, x.receiver}
  PROVE  /\ \A m : Apart(o, Forward(s, x, p, m), P, I)
         /\ \A limited : Apart(o, AcceptPair(s, x, p, limited), P, I)
<1>1. x.sender \in P /\ x.receiver \in P /\ p \in P /\ Other(x, p) \in P BY DEF Ours, Other
<1>2. ASSUME NEW t, NEW m, Apart(o, t, P, I)
      PROVE  Apart(o, [t EXCEPT !.sessions[x.sid] = ApplyRelayPhase(x, p, m)], P, I)
  <2>. DEFINE y == ApplyRelayPhase(x, p, m)
  <2>1. y \in Session /\ y.sid = x.sid /\ y.code = x.code /\ y.sender = x.sender
        /\ y.receiver = x.receiver
    BY ApplyRelayPhaseType
  <2>. HIDE DEF y
  <2>2. Ours(y, P, I) BY <2>1 DEF Ours
  <2>3. Apart(o, [t EXCEPT !.sessions[y.sid] = y], P, I) BY <1>2, <2>2, ApartWrite
  <2>4. QED BY <2>1, <2>3 DEF y
<1>3. ASSUME NEW m PROVE Apart(o, Forward(s, x, p, m), P, I)
  <2>. DEFINE target == Other(x, p)
              t == Send(s, target, m)
              a == [t EXCEPT !.sessions[x.sid] = ApplyRelayPhase(x, p, m)]
  <2>1. Forward(s, x, p, m) =
          IF t.ws[target] # "open"
          THEN RelayDeliveryFailed(t, x, p, target, m # "pair-reject")
          ELSE IF m = "pair-reject" THEN CloseSessionPeers(a, x) ELSE a
    BY DEF Forward
  <2>2. Apart(o, t, P, I) BY <1>1, ApartSend
  <2>. HIDE DEF target, t
  <2>3. Apart(o, a, P, I) BY <1>2, <2>2
  <2>. HIDE DEF a
  <2>4. Apart(o, CloseSessionPeers(a, x), P, I) BY <2>3, ApartEnding
  <2>5. Apart(o, RelayDeliveryFailed(t, x, p, target, m # "pair-reject"), P, I)
    BY <1>1, <2>2, ApartRefusal
  <2>6. QED BY <2>1, <2>3, <2>4, <2>5
<1>4. ASSUME NEW limited PROVE Apart(o, AcceptPair(s, x, p, limited), P, I)
  <2>. DEFINE ice == Send(s, x.sender, "ice-config")
              acc == Send(ice, x.sender, "pair-accept")
              own == Send(acc, x.receiver, "ice-config")
              a == [own EXCEPT !.sessions[x.sid] = ApplyRelayPhase(x, p, "pair-accept")]
  <2>1. AcceptPair(s, x, p, limited) =
          IF limited = x.sender THEN CloseSessionForTurnRateLimit(s, x)
          ELSE IF acc.ws[x.sender] # "open"
          THEN RelayDeliveryFailed(acc, x, p, x.sender, TRUE)
          ELSE IF limited = x.receiver THEN CloseSessionForTurnRateLimit(acc, x)
          ELSE IF own.ws[x.receiver] # "open" THEN CloseSessionPeers(own, x)
          ELSE a
    BY DEF AcceptPair
  <2>2. Apart(o, ice, P, I) BY <1>1, ApartSend
  <2>. HIDE DEF ice
  <2>3. Apart(o, acc, P, I) BY <1>1, <2>2, ApartSend
  <2>. HIDE DEF acc
  <2>4. Apart(o, own, P, I) BY <1>1, <2>3, ApartSend
  <2>. HIDE DEF own
  <2>5. Apart(o, a, P, I) BY <1>2, <2>4
  <2>. HIDE DEF a
  <2>6. Apart(o, CloseSessionForTurnRateLimit(s, x), P, I) BY <1>1, ApartRefusal
  <2>7. /\ Apart(o, CloseSessionForTurnRateLimit(acc, x), P, I)
        /\ Apart(o, RelayDeliveryFailed(acc, x, p, x.sender, TRUE), P, I)
    BY <1>1, <2>3, ApartRefusal
  <2>8. Apart(o, CloseSessionPeers(own, x), P, I) BY <2>4, ApartEnding
  <2>9. QED BY <2>1, <2>5, <2>6, <2>7, <2>8
<1>5. QED BY <1>3, <1>4

-----------------------------------------------------------------------------
(* The connections a connection's own callbacks work for *)

\* The connections and the sessions of p's own callbacks.
MyPeers(o, p) ==
  IF o.sid[p] = NoSid THEN {p}
  ELSE {o.sessions[o.sid[p]].sender, o.sessions[o.sid[p]].receiver}

MySessions(o, p) == IF o.sid[p] = NoSid THEN {} ELSE {o.sid[p]}

\* A session in the table, for a handler that starts from o.
LEMMA EnterPair ==
  ASSUME NEW o, NEW n, NEW i \in SessionId, Good(o, n), o.sessions[i].sid # NoSid
  PROVE  LET x == o.sessions[i]
         IN  /\ Pair(x) /\ Linked(o, x) /\ Member(x, n) /\ x.sid = i
             /\ Ours(x, {x.sender, x.receiver}, {x.sid})
             /\ Apart(o, o, {x.sender, x.receiver}, {x.sid})
             /\ o.sid[x.sender] = i /\ o.sid[x.receiver] = i
<1>. DEFINE x == o.sessions[i]
<1>1. Member(x, n) /\ x.sid = i BY LiveMember
<1>2. o.sid[x.sender] = i /\ o.sid[x.receiver] = i BY DEF Good, SL
<1>3. o \in SState /\ i # NoSid BY DEF Good, NoSid, SessionId
<1>4. x.sender # NoPeer /\ x.receiver # NoPeer BY <1>1, PeerAssumption DEF Member
<1>5. \A c \in Code : o.codes[c].receiver # x.sender /\ o.codes[c].receiver # x.receiver
  BY <1>2, <1>3, <1>4 DEF Good, CL
<1>6. o.sessions[x.sid] = x BY <1>1
<1>. SUFFICES /\ Pair(x) /\ Linked(o, x) /\ Member(x, n) /\ x.sid = i
              /\ Ours(x, {x.sender, x.receiver}, {x.sid})
              /\ Apart(o, o, {x.sender, x.receiver}, {x.sid})
              /\ o.sid[x.sender] = i /\ o.sid[x.receiver] = i
  OBVIOUS
<1>. HIDE DEF x
<1>7. Pair(x) BY <1>1 DEF Pair, Member
<1>8. Linked(o, x) BY <1>1, <1>2, <1>3, <1>5, <1>6 DEF Linked
<1>9. Ours(x, {x.sender, x.receiver}, {x.sid}) BY <1>1 DEF Ours, Member
<1>10. Apart(o, o, {x.sender, x.receiver}, {x.sid})
  BY <1>1, <1>2, <1>3, <1>6, <1>9 DEF Apart
<1>11. QED BY <1>1, <1>2, <1>7, <1>8, <1>9, <1>10

\* Whatever a handler of a session does, it is settled if it is settled for the session.
LEMMA PairSettles ==
  ASSUME NEW o, NEW n, NEW i \in SessionId, Good(o, n), o.sessions[i].sid # NoSid,
         \A p \in Peer : Seat(o, n.accepted, p), NEW t,
         Apart(o, t, {o.sessions[i].sender, o.sessions[i].receiver}, {i}),
         Settled(o, t, o.sessions[i])
  PROVE  Settles(o, t, n.accepted)
<1>. DEFINE x == o.sessions[i]
<1>1. Pair(x) /\ Linked(o, x) /\ Member(x, n) /\ x.sid = i BY EnterPair
<1>2. {x.sender, x.receiver} \subseteq n.accepted BY <1>1 DEF Member
<1>3. Apart(o, t, {x.sender, x.receiver}, {x.sid}) /\ Settled(o, t, x) BY <1>1
<1>. HIDE DEF x
<1>4. QED BY <1>1, <1>2, <1>3, SettledPair

\* The same for the callbacks of one connection, in a session or not.
LEMMA OwnSettles ==
  ASSUME NEW o, NEW n, NEW p \in Peer, Good(o, n), p \in n.accepted,
         \A q \in Peer : Seat(o, n.accepted, q), NEW t,
         Apart(o, t, MyPeers(o, p), MySessions(o, p)),
         o.sid[p] = NoSid => Alone(o, t, p),
         o.sid[p] # NoSid => Settled(o, t, o.sessions[o.sid[p]])
  PROVE  Settles(o, t, n.accepted)
<1>1. CASE o.sid[p] = NoSid
  <2>1. Apart(o, t, {p}, {}) BY <1>1 DEF MyPeers, MySessions
  <2>2. QED BY <1>1, <2>1, SettledAlone
<1>2. CASE o.sid[p] # NoSid
  <2>. DEFINE i == o.sid[p]
  <2>1. i \in SessionId /\ o.sessions[i].sid # NoSid BY <1>2 DEF Good, PL, SState
  <2>2. Apart(o, t, {o.sessions[i].sender, o.sessions[i].receiver}, {i})
    BY <1>2 DEF MyPeers, MySessions
  <2>3. Settled(o, t, o.sessions[i]) BY <1>2
  <2>. HIDE DEF i
  <2>4. QED BY <2>1, <2>2, <2>3, PairSettles
<1>3. QED BY <1>1, <1>2

\* Where such a callback starts.
LEMMA EnterOwn ==
  ASSUME NEW o, NEW n, NEW p \in Peer, Good(o, n)
  PROVE  /\ MyPeers(o, p) \in SUBSET Peer /\ MySessions(o, p) \in SUBSET SessionId
         /\ p \in MyPeers(o, p)
         /\ Apart(o, o, MyPeers(o, p), MySessions(o, p))
         /\ o.sid[p] # NoSid =>
              LET x == o.sessions[o.sid[p]]
              IN  Pair(x) /\ Linked(o, x) /\ p \in {x.sender, x.receiver}
<1>1. o \in SState BY DEF Good
<1>2. CASE o.sid[p] = NoSid
  <2>1. MyPeers(o, p) = {p} /\ MySessions(o, p) = {} BY <1>2 DEF MyPeers, MySessions
  <2>2. Apart(o, o, {p}, {}) BY <1>1, <1>2 DEF Apart
  <2>3. QED BY <1>2, <2>1, <2>2
<1>3. CASE o.sid[p] # NoSid
  <2>. DEFINE x == o.sessions[o.sid[p]]
  <2>1. o.sid[p] \in SessionId /\ x.sid # NoSid /\ (p = x.sender \/ p = x.receiver)
    BY <1>1, <1>3 DEF Good, PL, SState
  <2>2. /\ Pair(x) /\ Linked(o, x) /\ x.sid = o.sid[p]
        /\ Apart(o, o, {x.sender, x.receiver}, {x.sid})
    BY <2>1, EnterPair
  <2>3. MyPeers(o, p) = {x.sender, x.receiver} /\ MySessions(o, p) = {x.sid}
    BY <1>3, <2>2 DEF MyPeers, MySessions
  <2>4. x.sender \in Peer /\ x.receiver \in Peer /\ x.sid \in SessionId BY <2>2 DEF Pair
  <2>. HIDE DEF x
  <2>5. QED BY <2>1, <2>2, <2>3, <2>4 DEF x
<1>4. QED BY <1>2, <1>3

\* Outside a session, send is sendLast: cleanupPeer only drops the peer's code.
LEMMA SendLone ==
  ASSUME NEW s \in SState, NEW p \in Peer, NEW m, s.sid[p] = NoSid
  PROVE  Send(s, p, m) = SendLast(s, p, m) /\ CleanupPeer(s, p) = DropCode(s, p)
<1>1. DropCode(s, p).sid[p] = NoSid BY DropCodeQuiet DEF Quiet
<1>2. CleanupPeer(s, p) = DropCode(s, p) BY <1>1 DEF CleanupPeer, Live
<1>3. QED BY <1>2 DEF Send, SendLast

\* An error sent to a connection in no session.
LEMMA FailLone ==
  ASSUME NEW s \in SState, NEW p \in Peer, s.sid[p] = NoSid
  PROVE  LET t == Fail(s, p)
         IN  /\ t \in SState /\ t.sessions = s.sessions
             /\ t.role = s.role /\ t.sid = s.sid /\ t.code = s.code
             /\ \A q \in Peer : q # p => t.ws[q] = s.ws[q]
             /\ t.ws[p] = "open" =>
                  s.ws[p] = "open" /\ t.codes = s.codes /\ t.told[p] = s.told[p]
<1>. DEFINE m == "error"
            t == SendLast(s, p, m)
<1>1. m \notin Lifecycle BY DEF Lifecycle
<1>2. Fail(s, p) = t BY SendLone DEF Fail
<1>. HIDE DEF m
<1>3. /\ t \in SState /\ t.sessions = s.sessions
      /\ t.role = s.role /\ t.sid = s.sid /\ t.code = s.code
      /\ \A q \in Peer : q # p => t.ws[q] = s.ws[q]
      /\ \/ s.ws[p] # "open" /\ t = s
         \/ /\ t.ws = s.ws /\ t.codes = s.codes
            /\ t.told[p] = IF m \in Lifecycle THEN m ELSE s.told[p]
         \/ t.ws[p] # "open"
  BY SendLastEffect
<1>. HIDE DEF t
<1>4. QED BY <1>1, <1>2, <1>3

\* Whatever closes a connection that is in no session owes it nothing more.
LEMMA CloseAlone ==
  ASSUME NEW o, NEW s \in SState, NEW p \in Peer
  PROVE  Alone(o, Close(s, p), p)
<1>1. Close(s, p).ws[p] # "open" BY CloseEffect
<1>2. QED BY <1>1 DEF Alone

\* The callbacks any connection may cause: an answer, a limit, a bad message.
LEMMA AnswersSettle ==
  ASSUME NEW o, NEW n, NEW p \in Peer, Good(o, n), p \in n.accepted,
         \A q \in Peer : Seat(o, n.accepted, q)
  PROVE  /\ Settles(o, Fail(o, p), n.accepted)
         /\ Settles(o, Close(Fail(o, p), p), n.accepted)
         /\ Settles(o, BadMessage(o, p), n.accepted)
<1>. DEFINE P == MyPeers(o, p)
            I == MySessions(o, p)
            x == o.sessions[o.sid[p]]
            f == Fail(o, p)
            c == Close(f, p)
            k == o.bad[p] + 1
            b == [o EXCEPT !.bad[p] = k]
            g == Fail(b, p)
            m == BadMessage(o, p)
<1>1. o \in SState BY DEF Good
<1>2. /\ P \in SUBSET Peer /\ I \in SUBSET SessionId /\ p \in P /\ Apart(o, o, P, I)
      /\ o.sid[p] # NoSid => Pair(x) /\ Linked(o, x) /\ p \in {x.sender, x.receiver}
  BY EnterOwn
<1>. HIDE DEF P, I
<1>3. Apart(o, f, P, I) BY <1>2, ApartSend
<1>4. Apart(o, c, P, I) BY <1>2, <1>3, ApartSendLast
<1>5. Apart(o, m, P, I) BY <1>2, ApartBadMessage
<1>6. o.sid[p] # NoSid => Settled(o, f, x) /\ Settled(o, c, x)
  <2>. SUFFICES ASSUME o.sid[p] # NoSid PROVE Settled(o, f, x) /\ Settled(o, c, x) OBVIOUS
  <2>1. Pair(x) /\ Linked(o, x) /\ p \in {x.sender, x.receiver} BY <1>2
  <2>. HIDE DEF x
  <2>2. QED BY <1>1, <2>1, FailSettled
<1>7. o.sid[p] # NoSid => Settled(o, m, x)
  <2>. SUFFICES ASSUME o.sid[p] # NoSid PROVE Settled(o, m, x) OBVIOUS
  <2>1. Pair(x) /\ Linked(o, x) /\ p \in {x.sender, x.receiver} BY <1>2
  <2>. HIDE DEF x
  <2>2. QED BY <2>1, BadMessageSettled
<1>8. o.sid[p] = NoSid => Alone(o, f, p) /\ Alone(o, c, p)
  <2>. SUFFICES ASSUME o.sid[p] = NoSid PROVE Alone(o, f, p) /\ Alone(o, c, p) OBVIOUS
  <2>1. f \in SState /\ Alone(o, f, p) BY <1>1, FailLone DEF Alone
  <2>. HIDE DEF f
  <2>2. QED BY <2>1, CloseAlone
<1>9. o.sid[p] = NoSid => Alone(o, m, p)
  <2>. SUFFICES ASSUME o.sid[p] = NoSid PROVE Alone(o, m, p) OBVIOUS
  <2>1. m = g \/ m = Close(g, p) BY DEF BadMessage, Live
  <2>2. k \in Nat BY <1>1 DEF SState
  <2>. HIDE DEF k
  <2>3. /\ b \in SState /\ b.codes = o.codes /\ b.sid = o.sid /\ b.ws = o.ws
        /\ b.told = o.told /\ b.role = o.role /\ b.code = o.code
    BY <1>1, <2>2 DEF SState
  <2>. HIDE DEF b
  <2>4. g \in SState /\ Alone(o, g, p) BY <2>3, FailLone DEF Alone
  <2>. HIDE DEF g
  <2>5. Alone(o, Close(g, p), p) BY <2>4, CloseAlone
  <2>. HIDE DEF m
  <2>6. QED BY <2>1, <2>4, <2>5
<1>. HIDE DEF f, c, m, x
<1>10. Settles(o, f, n.accepted) BY <1>3, <1>6, <1>8, OwnSettles DEF P, I, x
<1>11. Settles(o, c, n.accepted) BY <1>4, <1>6, <1>8, OwnSettles DEF P, I, x
<1>12. Settles(o, m, n.accepted) BY <1>5, <1>7, <1>9, OwnSettles DEF P, I, x
<1>13. QED BY <1>10, <1>11, <1>12 DEF f, c, m

\* A record that differs from o in p's socket and counts only, p's socket not opening.
Socketed(o, s, p) ==
  /\ s \in SState /\ s.codes = o.codes /\ s.sessions = o.sessions /\ s.role = o.role
  /\ s.sid = o.sid /\ s.code = o.code /\ s.told = o.told
  /\ \A q \in Peer : q # p => s.ws[q] = o.ws[q] /\ s.released[q] = o.released[q]

\* The callbacks by which a connection leaves.
LEMMA LeavingSettles ==
  ASSUME NEW o, NEW n, NEW p \in Peer, Good(o, n), p \in n.accepted,
         \A q \in Peer : Seat(o, n.accepted, q), NEW s, Socketed(o, s, p)
  PROVE  /\ Settles(o, Close(CleanupPeer(s, p), p), n.accepted)
         /\ Settles(o, Terminate(s, p), n.accepted)
         /\ s.ws[p] # "open" => Settles(o, CleanupPeer(s, p), n.accepted)
         /\ s.ws[p] # "open" => Settles(o, Release(CleanupPeer(s, p), p), n.accepted)
<1>. DEFINE P == MyPeers(o, p)
            I == MySessions(o, p)
            x == o.sessions[o.sid[p]]
            u == CleanupPeer(s, p)
            c == Close(u, p)
            r == Release(u, p)
            t == Shut(r, p)
<1>1. /\ P \in SUBSET Peer /\ I \in SUBSET SessionId /\ p \in P /\ Apart(o, o, P, I)
      /\ o.sid[p] # NoSid => Pair(x) /\ Linked(o, x) /\ p \in {x.sender, x.receiver}
  BY EnterOwn
<1>2. t = Terminate(s, p) BY DEF Terminate
<1>. HIDE DEF P, I
<1>3. Apart(o, s, P, I) BY <1>1, ApartStep DEF Socketed
<1>4. Apart(o, u, P, I) BY <1>1, <1>3, ApartCleanup
<1>5. Apart(o, c, P, I) BY <1>1, <1>4, ApartSendLast
<1>6. Apart(o, r, P, I) BY <1>1, <1>4, ApartBasic
<1>7. Apart(o, t, P, I) BY <1>1, <1>6, ApartBasic
<1>8. ASSUME o.sid[p] # NoSid
      PROVE  /\ Settled(o, c, x) /\ Settled(o, t, x)
             /\ s.ws[p] # "open" => Settled(o, u, x) /\ Settled(o, r, x)
  <2>1. Pair(x) /\ Linked(o, x) /\ p \in {x.sender, x.receiver} BY <1>1, <1>8
  <2>. HIDE DEF x
  <2>2. Linked(s, x) BY <2>1, LinkedSame DEF Socketed
  <2>3. /\ Over(c, x) /\ Over(t, x)
        /\ s.ws[p] # "open" => Over(u, x) /\ Over(r, x)
    BY <1>2, <2>1, <2>2, LeaveOver
  <2>. HIDE DEF c, t, u, r
  <2>4. QED BY <2>3 DEF Settled
<1>9. ASSUME o.sid[p] = NoSid
      PROVE  /\ Alone(o, c, p) /\ Alone(o, t, p)
             /\ s.ws[p] # "open" => Alone(o, u, p) /\ Alone(o, r, p)
  <2>1. s \in SState /\ s.sid[p] = NoSid BY <1>9 DEF Socketed
  <2>2. u = DropCode(s, p) BY <2>1, SendLone
  <2>3. u \in SState /\ u.ws = s.ws BY <2>1, <2>2, DropCodeQuiet DEF Quiet
  <2>. HIDE DEF u
  <2>4. Alone(o, c, p) BY <2>3, CloseAlone
  <2>5. r \in SState /\ r.ws = u.ws BY <2>3, ReleaseType
  <2>. HIDE DEF r
  <2>6. t.ws[p] # "open" BY <2>5 DEF Shut, SState
  <2>. HIDE DEF t, c
  <2>7. QED BY <2>3, <2>4, <2>5, <2>6 DEF Alone
<1>. HIDE DEF u, c, r, t, x
<1>10. Settles(o, c, n.accepted) BY <1>5, <1>8, <1>9, OwnSettles DEF P, I, x
<1>11. Settles(o, t, n.accepted) BY <1>7, <1>8, <1>9, OwnSettles DEF P, I, x
<1>12. s.ws[p] # "open" => Settles(o, u, n.accepted)
  BY <1>4, <1>8, <1>9, OwnSettles DEF P, I, x
<1>13. s.ws[p] # "open" => Settles(o, r, n.accepted)
  BY <1>6, <1>8, <1>9, OwnSettles DEF P, I, x
<1>14. QED BY <1>2, <1>10, <1>11, <1>12, <1>13 DEF c, r, t, u

\* The callbacks that work on one session of the table.
LEMMA SessionSettles ==
  ASSUME NEW o, NEW n, NEW i \in SessionId, Good(o, n), o.sessions[i].sid # NoSid,
         \A q \in Peer : Seat(o, n.accepted, q)
  PROVE  LET x == o.sessions[i]
         IN  /\ \A p \in {x.sender, x.receiver} :
                  /\ ~Decided(x) => Settles(o, RejectPrePairSender(o, x, p), n.accepted)
                  /\ \A m : m \notin Lifecycle => Settles(o, Forward(o, x, p, m), n.accepted)
                  /\ \A restore : o.ws[Other(x, p)] # "open" =>
                       Settles(o, RelayDeliveryFailed(o, x, p, Other(x, p), restore), n.accepted)
             /\ \A limited : Settles(o, AcceptPair(o, x, x.receiver, limited), n.accepted)
             /\ \A notify \in BOOLEAN : ~Decided(x) =>
                  Settles(o, RestoreWaitingReceiver(o, x, notify), n.accepted)
             /\ Settles(o, CloseSessionPeers(Send(Send(o, x.sender, "peer-left"),
                                                  x.receiver, "peer-left"), x), n.accepted)
<1>. DEFINE x == o.sessions[i]
            P == {x.sender, x.receiver}
            I == {x.sid}
            m1 == "peer-left"
            f == Send(o, x.sender, m1)
            g == Send(f, x.receiver, m1)
            c == CloseSessionPeers(g, x)
<1>1. Pair(x) /\ Linked(o, x) /\ Member(x, n) /\ x.sid = i /\ Ours(x, P, I) /\ Apart(o, o, P, I)
  BY EnterPair
<1>2. P \in SUBSET Peer /\ I \in SUBSET SessionId BY <1>1 DEF Pair
<1>3. ASSUME NEW t, Apart(o, t, P, I), Settled(o, t, x) PROVE Settles(o, t, n.accepted)
  BY <1>1, <1>3, PairSettles
<1>4. x.sender \in Peer /\ x.receiver \in Peer BY <1>1 DEF Pair
<1>5. Bound(o, x) BY <1>1 DEF Bound
<1>. SUFFICES /\ \A p \in {x.sender, x.receiver} :
                  /\ ~Decided(x) => Settles(o, RejectPrePairSender(o, x, p), n.accepted)
                  /\ \A m : m \notin Lifecycle => Settles(o, Forward(o, x, p, m), n.accepted)
                  /\ \A restore : o.ws[Other(x, p)] # "open" =>
                       Settles(o, RelayDeliveryFailed(o, x, p, Other(x, p), restore), n.accepted)
              /\ \A limited : Settles(o, AcceptPair(o, x, x.receiver, limited), n.accepted)
              /\ \A notify \in BOOLEAN : ~Decided(x) =>
                   Settles(o, RestoreWaitingReceiver(o, x, notify), n.accepted)
              /\ Settles(o, c, n.accepted)
  OBVIOUS
<1>. HIDE DEF x, m1
<1>6. ASSUME NEW p \in {x.sender, x.receiver}, ~Decided(x)
      PROVE  Settles(o, RejectPrePairSender(o, x, p), n.accepted)
  <2>1. Apart(o, RejectPrePairSender(o, x, p), P, I) BY <1>1, <1>2, ApartRefusal
  <2>2. Over(RejectPrePairSender(o, x, p), x) BY <1>1, <1>5, <1>6, RefusalOver
  <2>3. QED BY <1>3, <2>1, <2>2 DEF Settled
<1>7. ASSUME NEW p \in {x.sender, x.receiver}, NEW m, m \notin Lifecycle
      PROVE  Settles(o, Forward(o, x, p, m), n.accepted)
  <2>1. Apart(o, Forward(o, x, p, m), P, I) BY <1>1, <1>2, ApartRelay
  <2>2. Settled(o, Forward(o, x, p, m), x) BY <1>1, <1>7, ForwardSettled
  <2>3. QED BY <1>3, <2>1, <2>2
<1>8. ASSUME NEW p \in {x.sender, x.receiver}, NEW restore, o.ws[Other(x, p)] # "open"
      PROVE  Settles(o, RelayDeliveryFailed(o, x, p, Other(x, p), restore), n.accepted)
  <2>. DEFINE target == Other(x, p)
  <2>1. target \in {x.sender, x.receiver} BY DEF Other
  <2>2. o.ws[target] # "open" BY <1>8
  <2>. HIDE DEF target
  <2>3. Apart(o, RelayDeliveryFailed(o, x, p, target, restore), P, I)
    BY <1>1, <1>2, <2>1, ApartRefusal
  <2>4. Over(RelayDeliveryFailed(o, x, p, target, restore), x)
    BY <1>1, <1>5, <2>1, <2>2, DeliveryFailedOver
  <2>5. Settles(o, RelayDeliveryFailed(o, x, p, target, restore), n.accepted)
    BY <1>3, <2>3, <2>4 DEF Settled
  <2>6. QED BY <2>5 DEF target
<1>9. ASSUME NEW limited PROVE Settles(o, AcceptPair(o, x, x.receiver, limited), n.accepted)
  <2>1. Apart(o, AcceptPair(o, x, x.receiver, limited), P, I) BY <1>1, <1>2, ApartRelay
  <2>2. Settled(o, AcceptPair(o, x, x.receiver, limited), x) BY <1>1, AcceptSettled
  <2>3. QED BY <1>3, <2>1, <2>2
<1>10. ASSUME NEW notify \in BOOLEAN, ~Decided(x)
       PROVE  Settles(o, RestoreWaitingReceiver(o, x, notify), n.accepted)
  <2>1. Apart(o, RestoreWaitingReceiver(o, x, notify), P, I) BY <1>1, <1>2, ApartRestore
  <2>2. Over(RestoreWaitingReceiver(o, x, notify), x) BY <1>1, <1>10, RestoreOver
  <2>3. QED BY <1>3, <2>1, <2>2 DEF Settled
<1>11. Settles(o, c, n.accepted)
  <2>1. Good(f, n) /\ Apart(o, f, P, I) BY <1>1, <1>2, <1>4, SendGood, ApartSend
  <2>. HIDE DEF f
  <2>2. Good(g, n) /\ Apart(o, g, P, I) BY <1>1, <1>2, <1>4, <2>1, SendGood, ApartSend
  <2>. HIDE DEF g
  <2>3. g \in SState BY <2>2 DEF Good
  <2>4. Apart(o, c, P, I) BY <1>1, <1>2, <2>2, ApartEnding
  <2>5. Over(c, x) BY <1>1, <2>3, CloseSessionPeersOver
  <2>. HIDE DEF c
  <2>6. QED BY <1>3, <2>4, <2>5 DEF Settled
<1>. HIDE DEF c
<1>12. QED BY <1>6, <1>7, <1>8, <1>9, <1>10, <1>11

\* A connection in no session that is closed together with the code it holds.
LEMMA ForgetSettles ==
  ASSUME NEW o, NEW n, NEW p \in Peer, NEW c \in Code, Good(o, n), p \in n.accepted,
         o.sid[p] = NoSid, o.codes[c].receiver = p,
         \A q \in Peer : Seat(o, n.accepted, q)
  PROVE  /\ Settles(o, Close(Fail(Clear(DeleteCode(o, c), p), p), p), n.accepted)
         /\ Settles(o, DeleteCode(Close(Clear(Fail(o, p), p), p), c), n.accepted)
<1>. DEFINE P == {p}
            I == {}
            d == DeleteCode(o, c)
            e == Clear(d, p)
            f == Fail(e, p)
            t == Close(f, p)
            g == Fail(o, p)
            h == Clear(g, p)
            k == Close(h, p)
            u == DeleteCode(k, c)
<1>1. P \in SUBSET Peer /\ I \in SUBSET SessionId OBVIOUS
<1>2. Apart(o, o, P, I) BY DEF Apart, Good
<1>3. Apart(o, d, P, I) BY <1>1, <1>2, ApartDelete
<1>. HIDE DEF d
<1>4. Apart(o, e, P, I) BY <1>1, <1>3, ApartBasic
<1>. HIDE DEF e
<1>5. Apart(o, f, P, I) BY <1>1, <1>4, ApartSend
<1>. HIDE DEF f
<1>6. Apart(o, t, P, I) BY <1>1, <1>5, ApartSendLast
<1>7. f \in SState BY <1>5 DEF Apart
<1>8. Alone(o, t, p) BY <1>7, CloseAlone
<1>9. Settles(o, t, n.accepted) BY <1>6, <1>8, SettledAlone
<1>10. Apart(o, g, P, I) BY <1>1, <1>2, ApartSend
<1>. HIDE DEF g
<1>11. Apart(o, h, P, I) BY <1>1, <1>10, ApartBasic
<1>. HIDE DEF h
<1>12. Apart(o, k, P, I) BY <1>1, <1>11, ApartSendLast
<1>13. h \in SState /\ k \in SState BY <1>11, <1>12 DEF Apart
<1>14. k.ws[p] # "open" BY <1>13, CloseEffect
<1>. HIDE DEF k
<1>15. k.codes[c].receiver \in P \/ k.codes[c].receiver = NoPeer BY <1>12 DEF Apart
<1>16. Apart(o, u, P, I) BY <1>1, <1>12, <1>15, ApartDelete
<1>17. u.ws[p] # "open" BY <1>13, <1>14, DeleteCodeQuiet
<1>. HIDE DEF u
<1>18. Alone(o, u, p) BY <1>17 DEF Alone
<1>19. Settles(o, u, n.accepted) BY <1>16, <1>18, SettledAlone
<1>20. QED BY <1>9, <1>19 DEF t, f, e, d, u, k, h, g

\* The answer "registered" to a receiver that holds its code: it waits and knows it, or it
\* is closed.
LEMMA RegisteredSeat ==
  ASSUME NEW s \in SState, NEW p \in Peer, NEW c \in Code, s.sid[p] = NoSid,
         s.role[p] = "receiver", s.code[p] = c, s.codes[c].receiver = p, s.ws[p] = "open"
  PROVE  LET t == Send(s, p, "registered")
         IN  t.ws[p] = "open" =>
               Awaits(t, p) /\ t.code[p] = c /\ t.codes = s.codes
<1>. DEFINE m == "registered"
            t == SendLast(s, p, m)
<1>1. m \in Lifecycle /\ m \in {"registered", "lapsed"} BY DEF Lifecycle
<1>2. Send(s, p, "registered") = t BY SendLone
<1>. HIDE DEF m
<1>3. /\ t \in SState /\ t.sessions = s.sessions
      /\ t.role = s.role /\ t.sid = s.sid /\ t.code = s.code
      /\ \/ s.ws[p] # "open" /\ t = s
         \/ /\ t.ws = s.ws /\ t.codes = s.codes /\ t.told[p] = m
         \/ t.ws[p] # "open"
  BY <1>1, SendLastEffect
<1>. HIDE DEF t
<1>4. QED BY <1>1, <1>2, <1>3 DEF Awaits

\* register and the retry of a waiting receiver: s is o with the registration made.
LEMMA RegisterSettles ==
  ASSUME NEW o, NEW n, NEW p \in Peer, NEW c \in Code, NEW s, Good(o, n), p \in n.accepted,
         o.ws[p] = "open", o.sid[p] = NoSid, \A q \in Peer : Seat(o, n.accepted, q),
         Apart(o, s, {p}, {}), s.sid[p] = NoSid, s.ws[p] = "open",
         s.role[p] = "receiver", s.code[p] = c, s.codes[c].receiver = p,
         o.codes[c].receiver = p => s.codes[c] = o.codes[c]
  PROVE  Settles(o, Send(s, p, "registered"), n.accepted)
<1>. DEFINE t == Send(s, p, "registered")
            P == {p}
            I == {}
<1>1. P \in SUBSET Peer /\ I \in SUBSET SessionId OBVIOUS
<1>2. Apart(o, o, P, I) BY DEF Apart, Good
<1>3. Apart(o, t, P, I) BY <1>1, ApartSend
<1>4. s \in SState /\ t \in SState /\ o \in SState BY <1>3 DEF Apart, Good
<1>5. t.ws[p] = "open" => Awaits(t, p) /\ t.code[p] = c /\ t.codes = s.codes
  BY <1>4, RegisteredSeat
<1>. HIDE DEF t
<1>6. Seat(t, n.accepted, p) BY <1>5 DEF Seat
<1>7. LeaseKept(o, t, p)
  <2>. SUFFICES ASSUME t.ws[p] = "open", o.role[p] = "receiver", t.code[p] = o.code[p]
       PROVE  /\ LeaseOf(t, p).ttl <= LeaseOf(o, p).ttl
              /\ LeaseOf(t, p).left <= LeaseOf(o, p).left
              /\ t.sid[p] = NoSid
    BY DEF LeaseKept
  <2>1. Awaits(t, p) /\ t.code[p] = c /\ t.codes = s.codes BY <1>5
  <2>2. Seat(o, n.accepted, p) OBVIOUS
  <2>3. o.codes[c].receiver = p BY <2>1, <2>2 DEF Seat, Blank, Awaits
  <2>4. t.codes[c] = o.codes[c] BY <2>1, <2>3
  <2>5. o.codes[c].ttl \in Nat /\ o.codes[c].remaining \in Nat BY <1>4 DEF SState, CodeEntry
  <2>6. t.sid[p] = NoSid BY <2>1 DEF Awaits
  <2>7. LeaseOf(t, p) = LeaseOf(o, p) BY <2>1, <2>4, <2>6 DEF LeaseOf, Live
  <2>8. LeaseOf(o, p).ttl = o.codes[c].ttl /\ LeaseOf(o, p).left = o.codes[c].remaining
    BY <2>1 DEF LeaseOf, Live
  <2>9. QED BY <2>5, <2>6, <2>7, <2>8
<1>8. \A q \in P : Seat(t, n.accepted, q) /\ LeaseKept(o, t, q) BY <1>6, <1>7
<1>9. \A i \in I : EndsWell(o, t, i) OBVIOUS
<1>10. Settles(o, t, n.accepted) BY <1>1, <1>2, <1>3, <1>8, <1>9, SettlesFor
<1>11. QED BY <1>10 DEF t

\* connect to a code whose receiver is gone or whose time is over.
LEMMA ConnectExpiredSettles ==
  ASSUME NEW o, NEW n, NEW p \in Peer, NEW c \in Code, NEW r \in Peer, Good(o, n),
         p \in n.accepted, r \in n.accepted, o.codes[c].receiver = r, o.sid[p] = NoSid,
         o.role[p] # "receiver", p # r, \A q \in Peer : Seat(o, n.accepted, q)
  PROVE  Settles(o, Fail(Close(Fail(Clear(DeleteCode(o, c), r), r), r), p), n.accepted)
<1>. DEFINE P == {p, r}
            I == {}
            d == DeleteCode(o, c)
            e == Clear(d, r)
            f == Fail(e, r)
            g == Close(f, r)
            t == Fail(g, p)
<1>1. P \in SUBSET Peer /\ I \in SUBSET SessionId /\ o \in SState /\ r # NoPeer
  BY PeerAssumption DEF Good
<1>2. o.sid[r] = NoSid BY <1>1 DEF Good, CL
<1>3. Apart(o, o, P, I) BY <1>1, <1>2 DEF Apart
<1>4. Apart(o, d, P, I) BY <1>1, <1>3, ApartDelete
<1>5. d \in SState /\ d.ws = o.ws /\ d.sid = o.sid /\ d.role = o.role /\ d.code = o.code
  BY <1>1, DeleteCodeQuiet DEF Quiet
<1>6. d.told = o.told BY <1>1 DEF DeleteCode, SState
<1>. HIDE DEF d
<1>7. Apart(o, e, P, I) BY <1>1, <1>4, ApartBasic
<1>8. /\ e \in SState /\ e.ws = d.ws /\ e.told = d.told
      /\ e.sid[p] = d.sid[p] /\ e.role[p] = d.role[p] /\ e.code[p] = d.code[p]
      /\ e.sid[r] = NoSid
  <2>1. e \in SState BY <1>7 DEF Apart
  <2>2. QED BY <1>5, <2>1 DEF Clear, SState
<1>. HIDE DEF e
<1>9. Apart(o, f, P, I) BY <1>1, <1>7, ApartSend
<1>10. /\ f \in SState /\ f.sid = e.sid /\ f.role = e.role /\ f.code = e.code
       /\ f.ws[p] = e.ws[p]
  BY <1>8, FailLone
<1>11. f.told[p] = e.told[p]
  <2>. DEFINE m == "error"
  <2>1. f = SendLast(e, r, m) BY <1>8, SendLone DEF Fail, f
  <2>2. \/ f = e \/ f = Deliver(e, r, m) \/ f = Close(DropCode(e, r), r)
    BY <2>1 DEF SendLast
  <2>3. Deliver(e, r, m).told[p] = e.told[p] BY <1>8 DEF Deliver, SState
  <2>4. Close(DropCode(e, r), r).told = e.told
    <3>. DEFINE k == DropCode(e, r)
    <3>1. k \in SState BY <1>8, DropCodeQuiet DEF Quiet
    <3>2. k.told = e.told BY <1>8 DEF DropCode, DeleteCode, SState
    <3>. HIDE DEF k
    <3>3. Close(k, r).told = k.told BY <3>1, CloseEffect
    <3>4. QED BY <3>2, <3>3 DEF k
  <2>. HIDE DEF f, m
  <2>5. QED BY <2>2, <2>3, <2>4
<1>. HIDE DEF f
<1>12. Apart(o, g, P, I) BY <1>1, <1>9, ApartSendLast
<1>13. /\ g \in SState /\ g.sid = f.sid /\ g.role = f.role /\ g.code = f.code
       /\ g.told = f.told /\ g.ws[r] # "open" /\ g.ws[p] = f.ws[p]
  BY <1>10, CloseEffect
<1>. HIDE DEF g
<1>14. g.sid[p] = NoSid BY <1>5, <1>8, <1>10, <1>13
<1>15. Apart(o, t, P, I) BY <1>1, <1>12, ApartSend
<1>16. /\ t \in SState /\ t.role = g.role /\ t.sid = g.sid /\ t.code = g.code
       /\ t.ws[r] = g.ws[r]
       /\ t.ws[p] = "open" => g.ws[p] = "open" /\ t.told[p] = g.told[p]
  BY <1>13, <1>14, FailLone
<1>. HIDE DEF t
<1>17. t.ws[p] = "open" =>
         /\ o.ws[p] = "open" /\ t.told[p] = o.told[p] /\ t.role[p] = o.role[p]
         /\ t.sid[p] = o.sid[p] /\ t.code[p] = o.code[p]
  BY <1>5, <1>6, <1>8, <1>10, <1>11, <1>13, <1>16
<1>18. Seat(o, n.accepted, p) OBVIOUS
<1>19. Seat(t, n.accepted, p)
  BY <1>17, <1>18 DEF Seat, Blank, Awaits
<1>20. Seat(t, n.accepted, r) BY <1>13, <1>16 DEF Seat
<1>21. LeaseKept(o, t, p) /\ LeaseKept(o, t, r) BY <1>13, <1>16 DEF LeaseKept
<1>22. \A q \in P : Seat(t, n.accepted, q) /\ LeaseKept(o, t, q) BY <1>19, <1>20, <1>21
<1>23. Settles(o, t, n.accepted) BY <1>1, <1>3, <1>15, <1>22, SettlesFor
<1>24. QED BY <1>23 DEF t, g, f, e, d

\* The connections and the session of a new claim.
PeersOf(x) == {x.sender, x.receiver}
SidsOf(x) == {x.sid}

\* connect: a claim joins exactly the sender and the receiver of the code.
LEMMA PairedLinked ==
  ASSUME NEW o, NEW n, NEW x, Good(o, n), Member(x, n), n.minted \in Nat,
         x.sid = n.minted + 1, o.codes[x.code].receiver = x.receiver,
         o.ws[x.receiver] = "open", o.ws[x.sender] = "open", o.sid[x.sender] = NoSid,
         o.role[x.sender] # "receiver"
  PROVE  /\ PeersOf(x) \in SUBSET Peer /\ SidsOf(x) \in SUBSET SessionId
         /\ Apart(o, o, PeersOf(x), SidsOf(x))
         /\ Apart(o, Paired(o, x), PeersOf(x), SidsOf(x)) /\ Linked(Paired(o, x), x)
         /\ o.code[x.receiver] = x.code /\ o.sid[x.receiver] = NoSid
         /\ o.sessions[x.sid].sid = NoSid
<1>. DEFINE P == {x.sender, x.receiver}
            I == {x.sid}
            a == DeleteCode(o, x.code)
            d == DropCode(a, x.sender)
            e == [d EXCEPT !.role[x.sender] = "sender", !.sid[x.sender] = x.sid,
                           !.code[x.sender] = x.code, !.idle[x.sender] = FALSE,
                           !.sid[x.receiver] = x.sid]
            s == [e EXCEPT !.sessions[x.sid] = x]
<1>1. /\ x \in Session /\ x.sid \in SessionId /\ x.code \in Code /\ x.sender \in Peer
      /\ x.receiver \in Peer /\ x.sender # x.receiver /\ x.sid \in I
      /\ P \in SUBSET Peer /\ I \in SUBSET SessionId /\ x.receiver # NoPeer
      /\ x.sender # NoPeer
  BY PeerAssumption DEF Member
<1>2. o \in SState BY DEF Good
<1>3. o.sid[x.receiver] = NoSid /\ o.code[x.receiver] = x.code BY <1>1 DEF Good, CL
<1>4. o.sessions[x.sid].sid = NoSid
  <2>1. ~(n.minted + 1 <= n.minted) OBVIOUS
  <2>2. QED BY <1>1, <2>1 DEF Good, SL
<1>5. Apart(o, o, P, I) BY <1>2, <1>3, <1>4 DEF Apart
<1>6. Ours(x, P, I) BY <1>1 DEF Ours
<1>7. Apart(o, a, P, I) BY <1>1, <1>5, ApartDelete
<1>8. /\ a \in SState /\ a.codes[x.code] = Free /\ a.role = o.role /\ a.code = o.code
      /\ \A c \in Code : a.codes[c] = o.codes[c] \/ a.codes[c] = Free
  BY <1>1, <1>2, DeleteCodeQuiet DEF Quiet
<1>. HIDE DEF a
<1>9. Apart(o, d, P, I) BY <1>1, <1>7, ApartSendLast
<1>10. /\ d \in SState /\ d.role = a.role /\ d.code = a.code
       /\ \A c \in Code : d.codes[c] = a.codes[c] \/ d.codes[c] = Free
  BY <1>1, <1>8, DropCodeQuiet DEF Quiet
<1>11. Paired(o, x) = [d EXCEPT !.role[x.sender] = "sender", !.sid[x.sender] = x.sid,
                                !.code[x.sender] = x.code, !.idle[x.sender] = FALSE,
                                !.sid[x.receiver] = x.sid, !.sessions[x.sid] = x]
  BY DEF Paired, a
<1>. HIDE DEF d
<1>12. s = Paired(o, x) BY <1>11
<1>13. /\ e \in SState /\ e.codes = d.codes /\ e.sessions = d.sessions /\ e.ws = d.ws
       /\ e.told = d.told /\ e.released = d.released
       /\ \A q \in Peer : q # x.sender => e.role[q] = d.role[q] /\ e.code[q] = d.code[q]
       /\ \A q \in Peer : q # x.sender /\ q # x.receiver => e.sid[q] = d.sid[q]
       /\ e.sid[x.sender] = x.sid /\ e.sid[x.receiver] = x.sid
  BY <1>1, <1>10 DEF SState
<1>. HIDE DEF e
<1>14. Apart(o, e, P, I)
  <2>1. \A q \in Peer : q \notin P =>
          /\ e.ws[q] = d.ws[q] /\ e.told[q] = d.told[q] /\ e.released[q] = d.released[q]
          /\ e.role[q] = d.role[q] /\ e.sid[q] = d.sid[q] /\ e.code[q] = d.code[q]
    BY <1>13
  <2>2. \A q \in P : e.sid[q] \in I BY <1>13
  <2>3. QED BY <1>9, <1>13, <2>1, <2>2, ApartStep
<1>15. Apart(o, s, P, I) BY <1>1, <1>6, <1>14, ApartWrite
<1>16. /\ s \in SState /\ s.codes = e.codes /\ s.sid = e.sid /\ s.role = e.role
       /\ s.code = e.code /\ s.sessions[x.sid] = x
  BY <1>1, <1>13 DEF SState
<1>17. \A c \in Code : s.codes[c].receiver # x.sender /\ s.codes[c].receiver # x.receiver
  <2>. SUFFICES ASSUME NEW c \in Code, s.codes[c].receiver \in P PROVE FALSE OBVIOUS
  <2>1. s.codes[c] = o.codes[c] /\ c # x.code
    BY <1>1, <1>8, <1>10, <1>13, <1>16 DEF Free
  <2>2. QED BY <1>1, <1>3, <2>1 DEF Good, CL
<1>18. Linked(s, x) BY <1>13, <1>16, <1>17 DEF Linked
<1>. HIDE DEF s
<1>19. PeersOf(x) = P /\ SidsOf(x) = I BY DEF PeersOf, SidsOf
<1>. HIDE DEF P, I
<1>20. QED BY <1>1, <1>3, <1>4, <1>5, <1>12, <1>15, <1>18, <1>19

\* ... and its announcement tells both of them, or gives the code back, or closes both.
LEMMA ConnectSettles ==
  ASSUME NEW o, NEW n, NEW x, Good(o, n), Member(x, n), n.minted \in Nat,
         x.sid = n.minted + 1, o.codes[x.code].receiver = x.receiver,
         o.ws[x.receiver] = "open", o.ws[x.sender] = "open", o.sid[x.sender] = NoSid,
         o.role[x.sender] # "receiver", ~Decided(x), x.codeTtl = o.codes[x.code].ttl,
         x.remaining = o.codes[x.code].remaining - 1,
         \A q \in Peer : Seat(o, n.accepted, q)
  PROVE  Settles(o, Announce(Paired(o, x), x), n.accepted)
<1>. DEFINE P == PeersOf(x)
            I == SidsOf(x)
            s == Paired(o, x)
            m == "peer-joined"
            r == Send(s, x.receiver, m)
            b == Send(r, x.sender, m)
            w == RestoreWaitingReceiver(b, x, TRUE)
            d1 == DeleteSession(r, x.sid)
            d2 == Clear(d1, x.sender)
            d3 == Clear(d2, x.receiver)
            d4 == Close(d3, x.receiver)
            d5 == Fail(d4, x.sender)
            k == [minted |-> n.minted + 1, accepted |-> n.accepted]
<1>1. /\ x \in Session /\ x.sid \in SessionId /\ x.code \in Code /\ x.sender \in Peer
      /\ x.receiver \in Peer /\ x.sender # x.receiver /\ x.sid \in I /\ x.sid # NoSid
      /\ x.sender \in P /\ x.receiver \in P
      /\ x.sender \in n.accepted /\ x.receiver \in n.accepted
  BY DEF Member, SessionId, NoSid, PeersOf, SidsOf
<1>2. Pair(x) BY <1>1 DEF Pair
<1>3. /\ P \in SUBSET Peer /\ I \in SUBSET SessionId
      /\ Apart(o, o, P, I) /\ Apart(o, s, P, I) /\ Linked(s, x)
      /\ o.code[x.receiver] = x.code /\ o.sid[x.receiver] = NoSid
      /\ o.sessions[x.sid].sid = NoSid
  BY PairedLinked
<1>4. k.minted = n.minted + 1 /\ k.accepted = n.accepted OBVIOUS
<1>. HIDE DEF k
<1>5. Good(s, k) /\ s.ws = o.ws BY <1>4, PairedGood
<1>6. m \in Lifecycle BY DEF Lifecycle
<1>7. Announce(s, x) = IF r.ws[x.receiver] # "open" THEN d5
                       ELSE IF b.ws[x.sender] # "open" THEN w ELSE b
  BY DEF Announce
<1>8. Ours(x, P, I) BY <1>1 DEF Ours, PeersOf, SidsOf
<1>. SUFFICES Settles(o, Announce(s, x), n.accepted) OBVIOUS
<1>. HIDE DEF s, m, P, I
<1>9. Good(r, k) /\ Apart(o, r, P, I) BY <1>1, <1>3, <1>5, SendGood, ApartSend
<1>10. \/ /\ r \in SState
          /\ r.codes = s.codes /\ r.sessions = s.sessions /\ r.ws = s.ws
          /\ r.role = s.role /\ r.sid = s.sid /\ r.code = s.code
          /\ r.told = [s.told EXCEPT ![x.receiver] = m]
       \/ Over(r, x) /\ r.ws[x.receiver] # "open"
  BY <1>1, <1>2, <1>3, <1>5, <1>6, SendOutcome
<1>. HIDE DEF r
<1>11. Apart(o, b, P, I) BY <1>1, <1>3, <1>9, ApartSend
<1>12. Apart(o, w, P, I) BY <1>3, <1>8, <1>11, ApartRestore
<1>13. Apart(o, d1, P, I) BY <1>1, <1>3, <1>9, ApartBasic
<1>14. Apart(o, d2, P, I) BY <1>1, <1>3, <1>13, ApartBasic
<1>15. Apart(o, d3, P, I) BY <1>1, <1>3, <1>14, ApartBasic
<1>16. Apart(o, d4, P, I) BY <1>1, <1>3, <1>15, ApartSendLast
<1>17. Apart(o, d5, P, I) BY <1>1, <1>3, <1>16, ApartSend
<1>18. ASSUME NEW t, Apart(o, t, P, I), Seat(t, n.accepted, x.sender),
              Seat(t, n.accepted, x.receiver), LeaseKept(o, t, x.receiver)
       PROVE  Settles(o, t, n.accepted)
  <2>1. LeaseKept(o, t, x.sender) BY DEF LeaseKept
  <2>2. \A q \in P : Seat(t, n.accepted, q) /\ LeaseKept(o, t, q) BY <1>18, <2>1 DEF P, PeersOf
  <2>3. \A i \in I : EndsWell(o, t, i) BY <1>3 DEF EndsWell, I, SidsOf
  <2>4. QED BY <1>3, <1>18, <2>2, <2>3, SettlesFor
<1>19. o.codes[x.code] \in CodeEntry /\ o \in SState BY <1>1 DEF Good, SState
<1>20. LeaseOf(o, x.receiver).ttl = x.codeTtl /\ LeaseOf(o, x.receiver).left = x.remaining + 1
  <2>1. ~Live(o, o.sid[x.receiver]) BY <1>3 DEF Live
  <2>2. x.remaining + 1 = o.codes[x.code].remaining BY <1>19 DEF CodeEntry
  <2>3. QED BY <1>3, <2>1, <2>2 DEF LeaseOf
<1>21. x.codeTtl \in Nat /\ x.remaining \in Nat BY <1>1 DEF Session
<1>22. CASE r.ws[x.receiver] # "open"
  <2>1. Over(r, x) BY <1>5, <1>10, <1>22
  <2>2. r \in SState /\ r.ws[x.sender] # "open" BY <2>1 DEF Over, Gone
  <2>3. d1 \in SState /\ d1.ws = r.ws BY <1>1, <2>2, DeleteSessionType
  <2>. HIDE DEF d1
  <2>4. d2 \in SState /\ d2.ws = d1.ws BY <1>1, <2>3, ClearType
  <2>. HIDE DEF d2
  <2>5. d3 \in SState /\ d3.ws = d2.ws BY <1>1, <2>4, ClearType
  <2>. HIDE DEF d3
  <2>6. d4 \in SState /\ d4.ws[x.receiver] # "open" /\ d4.ws[x.sender] = d3.ws[x.sender]
    BY <1>1, <2>5, CloseEffect
  <2>. HIDE DEF d4
  <2>7. d5 = d4 BY <2>2, <2>3, <2>4, <2>5, <2>6 DEF Fail, Send
  <2>8. d5.ws[x.receiver] # "open" /\ d5.ws[x.sender] # "open"
    BY <2>2, <2>3, <2>4, <2>5, <2>6, <2>7
  <2>. HIDE DEF d5
  <2>9. Seat(d5, n.accepted, x.sender) /\ Seat(d5, n.accepted, x.receiver)
        /\ LeaseKept(o, d5, x.receiver)
    BY <1>1, <2>8 DEF Seat, LeaseKept
  <2>10. Settles(o, d5, n.accepted) BY <1>17, <1>18, <2>9
  <2>11. QED BY <1>7, <1>22, <2>10
<1>23. CASE r.ws[x.receiver] = "open"
  <2>1. /\ r \in SState /\ r.codes = s.codes /\ r.sessions = s.sessions /\ r.ws = s.ws
        /\ r.sid = s.sid /\ r.code = s.code /\ r.told = [s.told EXCEPT ![x.receiver] = m]
    BY <1>10, <1>23
  <2>2. Linked(r, x) BY <1>3, <2>1, LinkedSame
  <2>3. Bound(b, x) BY <1>2, <2>2, SendBound DEF Bound
  <2>4. \/ /\ b \in SState /\ b.sessions = r.sessions /\ b.sid = r.sid /\ b.code = r.code
           /\ b.told = [r.told EXCEPT ![x.sender] = m]
        \/ b.ws[x.sender] # "open"
    <3>1. \/ r.ws[x.sender] # "open" /\ b = r
          \/ /\ b \in SState /\ b.sessions = r.sessions /\ b.sid = r.sid /\ b.code = r.code
             /\ b.told = [r.told EXCEPT ![x.sender] = m]
          \/ b.ws[x.sender] # "open"
      BY <1>2, <1>6, <2>2, SendOutcome
    <3>2. QED BY <3>1
  <2>. HIDE DEF b
  <2>5. CASE b.ws[x.sender] # "open"
    <3>1. Over(w, x) BY <1>2, <2>3, RestoreOver DEF Bound
    <3>. HIDE DEF w
    <3>2. w.ws[x.sender] # "open" /\ Gone(w, x) BY <3>1 DEF Over
    <3>3. Seat(w, n.accepted, x.sender) BY <1>1, <3>2 DEF Seat
    <3>4. w.ws[x.receiver] = "open" => Awaits(w, x.receiver) /\ w.codes[x.code] = Carry(x)
                                       /\ w.code[x.receiver] = x.code
      BY <1>1, <3>1 DEF Over, Gone, Rewaits, Returned, Awaits, Carry
    <3>5. Seat(w, n.accepted, x.receiver) BY <1>1, <3>4 DEF Seat
    <3>6. LeaseKept(o, w, x.receiver)
      <4>. SUFFICES ASSUME w.ws[x.receiver] = "open" PROVE LeaseKept(o, w, x.receiver)
        BY DEF LeaseKept
      <4>1. w.sid[x.receiver] = NoSid BY <3>2 DEF Gone
      <4>2. LeaseOf(w, x.receiver).ttl = x.codeTtl /\ LeaseOf(w, x.receiver).left = x.remaining
        BY <3>4, <4>1 DEF LeaseOf, Live, Carry
      <4>3. QED BY <1>20, <1>21, <4>1, <4>2 DEF LeaseKept
    <3>7. Settles(o, w, n.accepted) BY <1>12, <1>18, <3>3, <3>5, <3>6
    <3>8. QED BY <1>7, <1>23, <2>5, <3>7
  <2>6. CASE b.ws[x.sender] = "open"
    <3>1. /\ b.sessions = s.sessions /\ b.sid = s.sid /\ b.code = s.code
          /\ b.told = [r.told EXCEPT ![x.sender] = m]
      BY <2>1, <2>4, <2>6
    <3>2. b.told[x.sender] = m /\ b.told[x.receiver] = m
      <4>1. r.told \in [Peer -> Lifecycle \cup {"nothing"}] BY <2>1 DEF SState
      <4>2. s.told \in [Peer -> Lifecycle \cup {"nothing"}] BY <1>5 DEF Good, SState
      <4>3. QED BY <1>1, <2>1, <3>1, <4>1, <4>2
    <3>3. b.sid[x.sender] = x.sid /\ b.sid[x.receiver] = x.sid /\ b.sessions[x.sid] = x
      BY <1>3, <3>1 DEF Linked
    <3>4. Seat(b, n.accepted, x.sender) /\ Seat(b, n.accepted, x.receiver)
      BY <1>1, <3>2, <3>3 DEF Seat, Seats, m
    <3>5. LeaseOf(b, x.receiver).ttl = x.codeTtl /\ LeaseOf(b, x.receiver).left = x.remaining
      BY <1>1, <3>3 DEF LeaseOf, Live
    <3>6. LeaseKept(o, b, x.receiver) BY <1>20, <1>21, <3>5 DEF LeaseKept
    <3>7. Settles(o, b, n.accepted) BY <1>11, <1>18, <3>4, <3>6
    <3>8. QED BY <1>7, <1>23, <2>6, <3>7
  <2>7. QED BY <2>5, <2>6
<1>24. QED BY <1>22, <1>23 DEF s

\* A new connection, not accepted before: s is o with its socket open.
LEMMA ConnectionSettles ==
  ASSUME NEW o, NEW n, NEW p \in Peer, Good(o, n), p \notin n.accepted,
         \A q \in Peer : Seat(o, n.accepted, q), NEW s, Socketed(o, s, p),
         NEW A, A = n.accepted \cup {p}
  PROVE  Settles(o, s, A) /\ Settles(o, Close(Fail(s, p), p), A)
<1>. DEFINE k == [minted |-> n.minted, accepted |-> A]
            P == {p}
            I == {}
            c == Close(Fail(s, p), p)
<1>1. k.minted = n.minted /\ k.accepted = n.accepted \cup {p} /\ k.accepted = A OBVIOUS
<1>. HIDE DEF k
<1>2. o \in SState /\ s \in SState BY DEF Good, Socketed
<1>3. Good(o, k) BY <1>1, <1>2, OpenGood
<1>4. Seat(o, n.accepted, p) OBVIOUS
<1>5. Blank(o, p) /\ o.ws[p] # "open" BY <1>4 DEF Seat
<1>6. \A q \in Peer : Seat(o, k.accepted, q) BY <1>1 DEF Seat
<1>7. P \in SUBSET Peer /\ I \in SUBSET SessionId OBVIOUS
<1>8. o.sid[p] = NoSid /\ s.sid[p] = NoSid BY <1>5 DEF Blank, Socketed
<1>9. Apart(o, o, P, I) BY <1>2, <1>8 DEF Apart
<1>10. Apart(o, s, P, I) BY <1>7, <1>9, ApartStep DEF Socketed
<1>11. Apart(o, Fail(s, p), P, I) BY <1>7, <1>10, ApartSend
<1>12. Apart(o, c, P, I) BY <1>7, <1>11, ApartSendLast
<1>13. Seat(s, k.accepted, p) BY <1>1, <1>5 DEF Seat, Blank, Socketed
<1>14. c.ws[p] # "open"
  <2>1. Fail(s, p) \in SState BY <1>11 DEF Apart
  <2>2. QED BY <2>1, CloseEffect
<1>. HIDE DEF c
<1>15. Seat(c, k.accepted, p) BY <1>1, <1>14 DEF Seat
<1>16. LeaseKept(o, s, p) /\ LeaseKept(o, c, p) BY <1>5 DEF LeaseKept
<1>17. Settles(o, s, k.accepted)
  <2>1. \A q \in P : Seat(s, k.accepted, q) /\ LeaseKept(o, s, q) BY <1>13, <1>16
  <2>2. QED BY <1>3, <1>6, <1>7, <1>9, <1>10, <2>1, SettlesFor
<1>18. Settles(o, c, k.accepted)
  <2>1. \A q \in P : Seat(c, k.accepted, q) /\ LeaseKept(o, c, q) BY <1>15, <1>16
  <2>2. QED BY <1>3, <1>6, <1>7, <1>9, <1>12, <2>1, SettlesFor
<1>19. QED BY <1>1, <1>17, <1>18 DEF c

\* Time passes and sockets close: nothing is gained and nothing is left.
LEMMA WearSettles ==
  ASSUME NEW o, NEW n, Good(o, n), \A q \in Peer : Seat(o, n.accepted, q),
         NEW t \in SState, t.role = o.role, t.sid = o.sid, t.code = o.code, t.told = o.told,
         \A q \in Peer : t.ws[q] = "open" => o.ws[q] = "open",
         \A c \in Code : /\ t.codes[c].receiver = o.codes[c].receiver
                         /\ t.codes[c].remaining = o.codes[c].remaining
                         /\ t.codes[c].ttl <= o.codes[c].ttl,
         \A i \in SessionId : /\ t.sessions[i].sid = o.sessions[i].sid
                              /\ t.sessions[i].sender = o.sessions[i].sender
                              /\ t.sessions[i].seen = o.sessions[i].seen
                              /\ t.sessions[i].remaining = o.sessions[i].remaining
                              /\ t.sessions[i].codeTtl <= o.sessions[i].codeTtl
  PROVE  Settles(o, t, n.accepted)
<1>1. o \in SState BY DEF Good
<1>2. ASSUME NEW p \in Peer PROVE Seat(t, n.accepted, p) /\ LeaseKept(o, t, p)
  <2>1. Seat(o, n.accepted, p) OBVIOUS
  <2>2. o.sid[p] \in SessionId \/ o.sid[p] = NoSid BY <1>1 DEF SState
  <2>3. Awaits(o, p) => Awaits(t, p) BY DEF Awaits
  <2>4. o.sid[p] # NoSid /\ Seats(o, p) => Seats(t, p) BY <2>2 DEF Seats, Decided
  <2>5. Blank(o, p) => Blank(t, p) BY DEF Blank
  <2>6. Seat(t, n.accepted, p) BY <2>1, <2>3, <2>4, <2>5 DEF Seat
  <2>7. LeaseKept(o, t, p)
    <3>. SUFFICES ASSUME o.ws[p] = "open", o.role[p] = "receiver"
         PROVE  /\ LeaseOf(t, p).ttl <= LeaseOf(o, p).ttl
                /\ LeaseOf(t, p).left <= LeaseOf(o, p).left
      BY DEF LeaseKept
    <3>1. CASE o.sid[p] = NoSid
      <4>1. Awaits(o, p) BY <2>1, <3>1 DEF Seat, Blank
      <4>2. o.code[p] \in Code BY <4>1 DEF Awaits
      <4>3. o.codes[o.code[p]].remaining \in Nat BY <1>1, <4>2 DEF SState, CodeEntry
      <4>4. ~Live(o, o.sid[p]) /\ ~Live(t, t.sid[p]) BY <3>1 DEF Live
      <4>5. QED BY <4>2, <4>3, <4>4 DEF LeaseOf
    <3>2. CASE o.sid[p] \in SessionId
      <4>1. Live(o, o.sid[p]) BY <3>2 DEF Live, Good, PL, SessionId, NoSid
      <4>2. Live(t, t.sid[p]) BY <3>2, <4>1 DEF Live
      <4>3. o.sessions[o.sid[p]].remaining \in Nat BY <1>1, <3>2 DEF SState, Session
      <4>4. QED BY <3>2, <4>1, <4>2, <4>3 DEF LeaseOf
    <3>3. QED BY <2>2, <3>1, <3>2
  <2>8. QED BY <2>6, <2>7
<1>3. \A i \in SessionId : EndsWell(o, t, i) BY DEF EndsWell
<1>4. QED BY <1>2, <1>3 DEF Settles

-----------------------------------------------------------------------------
(* The steps of the server *)

\* The inductive form of ClientViewAgrees.
Seated == \A p \in Peer : Seat(Current, accepted, p)

\* The step of LeaseNeverRenewed.
LeaseStep ==
  \A p \in Peer : KeepsCode(p) =>
    /\ Lease(p)'.ttl <= Lease(p).ttl
    /\ Lease(p)'.left <= Lease(p).left
    /\ sid[p] = NoSid /\ sid[p]' # NoSid => Lease(p)'.left < Lease(p).left

\* The step of SessionEndsForBoth.
EndStep ==
  \A i \in LiveSids : i \notin LiveSids' =>
    LET x == sessions[i]
    IN  /\ ws'[x.sender] # "open"
        /\ ws'[x.receiver] = "open" =>
             /\ ~Decided(x)
             /\ codes'[x.code] = [receiver |-> x.receiver, ttl |-> x.codeTtl,
                                  remaining |-> x.remaining]

\* What every callback is shown to do.
Sound == Seated' /\ LeaseStep /\ EndStep

\* Two records that agree on what a Seat reads.
Alike(s, t) ==
  /\ t.codes = s.codes /\ t.sessions = s.sessions /\ t.ws = s.ws
  /\ t.role = s.role /\ t.sid = s.sid /\ t.code = s.code /\ t.told = s.told

\* Alike records seat everyone alike.
LEMMA SeatAlike ==
  ASSUME NEW s, NEW t, NEW A, NEW p, Alike(s, t), Seat(s, A, p)
  PROVE  Seat(t, A, p)
  BY DEF Alike, Seat, Blank, Awaits, Seats

\* A handler starts from a consistent record in which every connection is seated.
LEMMA EnterSeated ==
  ASSUME Inv, Seated, NEW room \in Rooms
  PROVE  /\ Good(Step(room), Now) /\ Now.accepted = accepted
         /\ \A p \in Peer : Seat(Step(room), Now.accepted, p)
<1>. DEFINE b == Step(room)
            u == Current
<1>1. Good(b, Now) BY RoomsType, Enter
<1>2. Now.accepted = accepted BY DEF Now
<1>3. Alike(u, b) BY DEF Alike, Current, Step
<1>4. \A p \in Peer : Seat(u, accepted, p) BY DEF Seated
<1>. HIDE DEF b, u
<1>5. \A p \in Peer : Seat(b, accepted, p) BY <1>3, <1>4, SeatAlike
<1>6. QED BY <1>1, <1>2, <1>5 DEF b

\* What a handler settled is settled in the next state.
LEMMA LeaveSettled ==
  ASSUME Inv, Inv', NEW o, NEW t, Settles(o, t, accepted'), o \in SState,
         o.codes = codes, o.sessions = sessions, o.ws = ws, o.role = role, o.sid = sid,
         o.code = code, o.told = told,
         codes' = t.codes, sessions' = t.sessions, ws' = t.ws, role' = t.role,
         sid' = t.sid, code' = t.code, told' = t.told
  PROVE  Sound
<1>1. Seated'
  <2>. DEFINE u == Current'
  <2>1. Alike(t, u) BY DEF Alike, Current, Step
  <2>2. \A p \in Peer : Seat(t, accepted', p) BY DEF Settles
  <2>. HIDE DEF u
  <2>3. \A p \in Peer : Seat(u, accepted', p) BY <2>1, <2>2, SeatAlike
  <2>4. QED BY <2>3 DEF Seated, u
<1>2. LeaseStep
  <2>. SUFFICES ASSUME NEW p \in Peer, KeepsCode(p)
       PROVE  /\ Lease(p)'.ttl <= Lease(p).ttl
              /\ Lease(p)'.left <= Lease(p).left
              /\ sid[p] = NoSid /\ sid[p]' # NoSid => Lease(p)'.left < Lease(p).left
    BY DEF LeaseStep
  <2>1. LeaseKept(o, t, p) BY DEF Settles
  <2>2. /\ o.ws[p] = "open" /\ t.ws[p] = "open" /\ o.role[p] = "receiver"
        /\ t.code[p] = o.code[p]
    BY DEF KeepsCode, Accepts
  <2>3. /\ o.sid[p] \in SessionId \cup {NoSid} /\ t.sid[p] \in SessionId \cup {NoSid}
        /\ NoSid \notin SessionId
    BY DEF Inv, TypeOK, SState, SessionId, NoSid
  <2>4. Lease(p) = LeaseOf(o, p) BY <2>3 DEF Lease, LeaseOf, Live, LiveSids
  <2>5. Lease(p)' = LeaseOf(t, p) BY <2>3 DEF Lease, LeaseOf, Live, LiveSids
  <2>6. /\ LeaseOf(t, p).ttl <= LeaseOf(o, p).ttl
        /\ LeaseOf(t, p).left <= LeaseOf(o, p).left
        /\ o.sid[p] = NoSid /\ t.sid[p] # NoSid => LeaseOf(t, p).left < LeaseOf(o, p).left
    BY <2>1, <2>2 DEF LeaseKept
  <2>7. QED BY <2>4, <2>5, <2>6
<1>3. EndStep
  <2>. SUFFICES ASSUME NEW i \in LiveSids, i \notin LiveSids'
       PROVE  LET x == sessions[i]
              IN  /\ ws'[x.sender] # "open"
                  /\ ws'[x.receiver] = "open" =>
                       /\ ~Decided(x)
                       /\ codes'[x.code] = [receiver |-> x.receiver, ttl |-> x.codeTtl,
                                            remaining |-> x.remaining]
    BY DEF EndStep
  <2>1. i \in SessionId /\ o.sessions[i].sid # NoSid /\ t.sessions[i].sid = NoSid
    BY DEF LiveSids
  <2>2. EndsWell(o, t, i) BY <2>1 DEF Settles
  <2>3. QED BY <2>1, <2>2 DEF EndsWell, Carry
<1>4. QED BY <1>1, <1>2, <1>3 DEF Sound

\* The same for a handler's result.
LEMMA Became ==
  ASSUME Inv, Inv', NEW room \in Rooms, NEW t, Settles(Step(room), t, accepted'),
         Become(t)
  PROVE  Sound
<1>. DEFINE o == Step(room)
<1>1. o \in SState BY RoomsType, Enter DEF Good
<1>2. /\ o.codes = codes /\ o.sessions = sessions /\ o.ws = ws /\ o.role = role
      /\ o.sid = sid /\ o.code = code /\ o.told = told
  BY DEF Step
<1>3. /\ codes' = t.codes /\ sessions' = t.sessions /\ ws' = t.ws /\ role' = t.role
      /\ sid' = t.sid /\ code' = t.code /\ told' = t.told
  BY DEF Become
<1>4. Settles(o, t, accepted') OBVIOUS
<1>. HIDE DEF o
<1>5. QED BY <1>1, <1>2, <1>3, <1>4, LeaveSettled

\* Steps that only let time pass or close sockets.
LEMMA WearSound ==
  ASSUME Inv, Inv', Seated, UNCHANGED <<role, sid, code, told, accepted>>,
         \A q \in Peer : ws'[q] = "open" => ws[q] = "open",
         \/ UNCHANGED <<codes, sessions>> \/ Tick
  PROVE  Sound
<1>. DEFINE room == [q \in Peer |-> MaxSends]
            b == Current
            t == Current'
<1>1. room \in [Peer -> Nat] BY LimitAssumption
<1>2. Good(b, Now) /\ Now.accepted = accepted BY <1>1, Enter DEF Current, Now
<1>3. \A q \in Peer : Seat(b, Now.accepted, q) BY <1>2 DEF Seated
<1>4. t \in SState BY <1>1 DEF Current, Step, Inv, TypeOK, SState
<1>5. /\ b.codes = codes /\ b.sessions = sessions /\ b.ws = ws /\ b.role = role
      /\ b.sid = sid /\ b.code = code /\ b.told = told
  BY DEF Current, Step
<1>6. /\ t.codes = codes' /\ t.sessions = sessions' /\ t.ws = ws' /\ t.role = role'
      /\ t.sid = sid' /\ t.code = code' /\ t.told = told'
  BY DEF Current, Step
<1>7. b \in SState BY <1>2 DEF Good
<1>. HIDE DEF b, t
<1>8. \A c \in Code : /\ codes'[c].receiver = codes[c].receiver
                      /\ codes'[c].remaining = codes[c].remaining
                      /\ codes'[c].ttl <= codes[c].ttl
  <2>. SUFFICES ASSUME NEW c \in Code
       PROVE  /\ codes'[c].receiver = codes[c].receiver
              /\ codes'[c].remaining = codes[c].remaining
              /\ codes'[c].ttl <= codes[c].ttl
    OBVIOUS
  <2>1. codes[c] \in CodeEntry BY DEF Inv, TypeOK
  <2>2. codes'[c] = codes[c] \/ codes'[c] = [codes[c] EXCEPT !.ttl = TickDown(codes[c].ttl)]
    BY DEF Tick
  <2>3. QED BY <2>1, <2>2 DEF CodeEntry, TickDown
<1>9. \A i \in SessionId :
        /\ sessions'[i].sid = sessions[i].sid /\ sessions'[i].sender = sessions[i].sender
        /\ sessions'[i].seen = sessions[i].seen
        /\ sessions'[i].remaining = sessions[i].remaining
        /\ sessions'[i].codeTtl <= sessions[i].codeTtl
  <2>. SUFFICES ASSUME NEW i \in SessionId
       PROVE  /\ sessions'[i].sid = sessions[i].sid /\ sessions'[i].sender = sessions[i].sender
              /\ sessions'[i].seen = sessions[i].seen
              /\ sessions'[i].remaining = sessions[i].remaining
              /\ sessions'[i].codeTtl <= sessions[i].codeTtl
    OBVIOUS
  <2>1. sessions[i] \in Session BY DEF Inv, TypeOK
  <2>2. \/ sessions'[i] = sessions[i]
        \/ sessions'[i] = [sessions[i] EXCEPT !.ttl = TickDown(sessions[i].ttl),
                                              !.codeTtl = TickDown(sessions[i].codeTtl)]
    BY DEF Tick
  <2>. DEFINE x == sessions[i]
              d == TickDown(x.ttl)
              e == TickDown(x.codeTtl)
              y == [x EXCEPT !.ttl = d, !.codeTtl = e]
  <2>3. x.codeTtl \in Nat BY <2>1 DEF Session
  <2>4. e <= x.codeTtl BY <2>3 DEF TickDown
  <2>5. sessions'[i] = x \/ sessions'[i] = y BY <2>2
  <2>. HIDE DEF d, e, x
  <2>6. /\ y.sid = x.sid /\ y.sender = x.sender /\ y.seen = x.seen
        /\ y.remaining = x.remaining /\ y.codeTtl = e
    BY <2>1 DEF Session, x
  <2>. HIDE DEF y
  <2>7. x.codeTtl <= x.codeTtl BY <2>3
  <2>8. QED BY <2>4, <2>5, <2>6, <2>7 DEF x
<1>10. Settles(b, t, Now.accepted) BY <1>2, <1>3, <1>4, <1>5, <1>6, <1>8, <1>9, WearSettles
<1>11. Settles(b, t, accepted') BY <1>2, <1>10
<1>12. QED BY <1>5, <1>6, <1>7, <1>11, LeaveSettled

\* The callbacks of a socket.
LEMMA SocketSound ==
  ASSUME Ledger, Inv', Seated, NEW p \in Peer, Socket(p)
  PROVE  Sound
<1>. Inv BY DEF Ledger
<1>1. \A q \in Peer : q \notin accepted => ~idle[q] /\ ws[q] = "closed"
  <2>1. Current.idle = idle /\ Current.ws = ws BY DEF Current, Step
  <2>2. QED BY <2>1 DEF Ledger, Kept
<1>2. CASE Connection(p)
  <2>1. PICK room \in Rooms :
          LET s == [Step(room) EXCEPT !.ws[p] = "open", !.active[IpOf[p]] = @ + 1]
          IN  Become(IF s.active[IpOf[p]] > MaxConnectionsPerIp
                     THEN Close(Fail(s, p), p) ELSE [s EXCEPT !.idle[p] = TRUE])
    BY <1>2 DEF Connection
  <2>. DEFINE b == Step(room)
              h == IpOf[p]
              s == [b EXCEPT !.ws[p] = "open", !.active[h] = b.active[h] + 1]
              i == [s EXCEPT !.idle[p] = TRUE]
              c == Close(Fail(s, p), p)
              A == accepted \cup {p}
  <2>2. /\ Good(b, Now) /\ Now.accepted = accepted
        /\ \A q \in Peer : Seat(b, Now.accepted, q)
    BY EnterSeated
  <2>3. p \notin accepted /\ accepted' = A BY <1>2 DEF Connection
  <2>4. Become(c) \/ Become(i) BY <2>1
  <2>5. b \in SState /\ h \in Ip BY <2>2, IpAssumption DEF Good
  <2>. HIDE DEF h
  <2>6. b.active[h] + 1 \in Nat BY <2>5 DEF SState
  <2>. HIDE DEF b
  <2>7. Socketed(b, s, p) BY <2>5, <2>6 DEF Socketed, SState
  <2>8. Socketed(b, i, p)
    <3>1. s \in SState BY <2>7 DEF Socketed
    <3>. HIDE DEF s
    <3>2. QED BY <2>7, <3>1 DEF Socketed, SState
  <2>. HIDE DEF s, i
  <2>9. A = Now.accepted \cup {p} /\ p \notin Now.accepted BY <2>2, <2>3
  <2>. HIDE DEF A
  <2>10. Settles(b, c, A) BY <2>2, <2>7, <2>9, ConnectionSettles
  <2>11. Settles(b, i, A) BY <2>2, <2>8, <2>9, ConnectionSettles
  <2>. HIDE DEF c
  <2>12. QED BY <2>3, <2>4, <2>10, <2>11, Became DEF b
<1>3. CASE CloseEvent(p)
  <2>1. PICK room \in Rooms :
          Become(CleanupPeer(Release([Step(room) EXCEPT !.ws[p] = "closed"], p), p))
    BY <1>3 DEF CloseEvent
  <2>. DEFINE b == Step(room)
              s == [b EXCEPT !.ws[p] = "closed"]
              r == Release(s, p)
              t == CleanupPeer(r, p)
  <2>2. /\ Good(b, Now) /\ Now.accepted = accepted
        /\ \A q \in Peer : Seat(b, Now.accepted, q)
    BY EnterSeated
  <2>3. ws[p] = "closing" /\ accepted' = accepted BY <1>3 DEF CloseEvent, CloseDue
  <2>4. Become(t) BY <2>1
  <2>5. b \in SState BY <2>2 DEF Good
  <2>6. p \in accepted BY <1>1, <2>3
  <2>. HIDE DEF b
  <2>7. Socketed(b, s, p) /\ s.ws[p] = "closed" BY <2>5 DEF Socketed, SState
  <2>. HIDE DEF s
  <2>8. Socketed(b, r, p) /\ r.ws[p] # "open"
    <3>1. s \in SState BY <2>7 DEF Socketed
    <3>2. /\ r \in SState /\ r.codes = s.codes /\ r.sessions = s.sessions /\ r.ws = s.ws
          /\ r.role = s.role /\ r.sid = s.sid /\ r.code = s.code
      BY <3>1, ReleaseType
    <3>3. r.told = s.told /\ \A q \in Peer : q # p => r.released[q] = s.released[q]
      BY <3>1 DEF Release, SState
    <3>. HIDE DEF r
    <3>4. QED BY <2>7, <3>2, <3>3 DEF Socketed
  <2>. HIDE DEF r
  <2>9. Settles(b, t, Now.accepted) BY <2>2, <2>6, <2>8, LeavingSettles
  <2>. HIDE DEF t
  <2>10. QED BY <2>2, <2>3, <2>4, <2>9, Became DEF b
<1>4. CASE SocketError(p)
  <2>1. PICK room \in Rooms : Become(Release(CleanupPeer(Shut(Step(room), p), p), p))
    BY <1>4 DEF SocketError
  <2>. DEFINE b == Step(room)
              s == Shut(b, p)
              t == Release(CleanupPeer(s, p), p)
  <2>2. /\ Good(b, Now) /\ Now.accepted = accepted
        /\ \A q \in Peer : Seat(b, Now.accepted, q)
    BY EnterSeated
  <2>3. p \in accepted /\ accepted' = accepted BY <1>1, <1>4 DEF SocketError
  <2>4. Become(t) BY <2>1
  <2>5. b \in SState BY <2>2 DEF Good
  <2>. HIDE DEF b
  <2>6. Socketed(b, s, p) /\ s.ws[p] # "open" BY <2>5 DEF Socketed, Shut, SState
  <2>. HIDE DEF s
  <2>7. Settles(b, t, Now.accepted) BY <2>2, <2>3, <2>6, LeavingSettles
  <2>. HIDE DEF t
  <2>8. QED BY <2>2, <2>3, <2>4, <2>7, Became DEF b
<1>5. CASE HeartbeatTimeout(p) \/ HeartbeatError(p)
  <2>1. PICK room \in Rooms : Become(Terminate(Step(room), p))
    BY <1>5 DEF HeartbeatTimeout, HeartbeatError
  <2>. DEFINE b == Step(room)
  <2>2. /\ Good(b, Now) /\ Now.accepted = accepted
        /\ \A q \in Peer : Seat(b, Now.accepted, q)
    BY EnterSeated
  <2>3. p \in accepted /\ accepted' = accepted
    BY <1>5 DEF HeartbeatTimeout, HeartbeatError, Accepts
  <2>. HIDE DEF b
  <2>4. Socketed(b, b, p) BY <2>2 DEF Socketed, Good
  <2>5. Settles(b, Terminate(b, p), Now.accepted) BY <2>2, <2>3, <2>4, LeavingSettles
  <2>6. QED BY <2>1, <2>2, <2>3, <2>5, Became DEF b
<1>6. CASE IdleTimeout(p)
  <2>. DEFINE room == [q \in Peer |-> MaxSends]
              b == Current
              t == Close(b, p)
  <2>1. room \in [Peer -> Nat] BY LimitAssumption
  <2>2. Good(b, Now) /\ Now.accepted = accepted BY <2>1, Enter DEF Current, Now
  <2>3. \A q \in Peer : Seat(b, Now.accepted, q) BY <2>2 DEF Seated
  <2>4. p \in accepted /\ accepted' = accepted BY <1>1, <1>6 DEF IdleTimeout
  <2>5. b.sid[p] = NoSid BY <1>6 DEF IdleTimeout, Current, Step
  <2>6. /\ b.codes = codes /\ b.sessions = sessions /\ b.ws = ws /\ b.role = role
        /\ b.sid = sid /\ b.code = code /\ b.told = told
    BY DEF Current, Step
  <2>7. Become(t) BY <1>6 DEF IdleTimeout
  <2>8. b \in SState BY <2>2 DEF Good
  <2>. HIDE DEF b
  <2>9. Apart(b, b, {p}, {}) BY <2>5, <2>8 DEF Apart
  <2>10. Apart(b, t, {p}, {})
    <3>. DEFINE P == {p}
                I == {}
    <3>1. P \in SUBSET Peer /\ I \in SUBSET SessionId /\ p \in P /\ Apart(b, b, P, I)
      BY <2>9
    <3>. HIDE DEF P, I
    <3>2. Apart(b, t, P, I) BY <3>1, ApartSendLast
    <3>3. QED BY <3>2 DEF P, I
  <2>11. Alone(b, t, p) BY <2>8, CloseAlone
  <2>. HIDE DEF t
  <2>12. Settles(b, t, Now.accepted) BY <2>2, <2>3, <2>4, <2>5, <2>10, <2>11, SettledAlone
  <2>13. Settles(b, t, accepted') BY <2>2, <2>4, <2>12
  <2>14. /\ codes' = t.codes /\ sessions' = t.sessions /\ ws' = t.ws /\ role' = t.role
         /\ sid' = t.sid /\ code' = t.code /\ told' = t.told
    BY <2>7 DEF Become
  <2>15. QED BY <2>6, <2>8, <2>13, <2>14, LeaveSettled
<1>7. CASE RemoteClose(p) \/ HeartbeatPing(p) \/ Pong(p)
  <2>1. /\ UNCHANGED <<codes, sessions, role, sid, code, told, accepted>>
        /\ \A q \in Peer : ws'[q] = "open" => ws[q] = "open"
    BY <1>7 DEF RemoteClose, HeartbeatPing, Pong, Inv, TypeOK
  <2>2. QED BY <2>1, WearSound
<1>8. QED BY <1>2, <1>3, <1>4, <1>5, <1>6, <1>7 DEF Socket

\* Messages that are answered, limited or refused, and bye.
LEMMA OtherMessageSound ==
  ASSUME Inv, Inv', Seated, NEW p \in Peer,
         \/ MessageLimit(p) \/ Malformed(p) \/ Refused(p)
         \/ RetryWaiting(p) \/ RetryPaired(p) \/ Bye(p)
  PROVE  Sound
<1>1. p \in accepted /\ accepted' = accepted /\ ws[p] = "open"
  BY DEF MessageLimit, Malformed, Refused, RetryWaiting, RetryPaired, Bye, Accepts
<1>2. ASSUME NEW room \in Rooms
      PROVE  /\ Good(Step(room), Now) /\ Now.accepted = accepted'
             /\ \A q \in Peer : Seat(Step(room), Now.accepted, q)
  BY <1>1, EnterSeated
<1>3. CASE MessageLimit(p) \/ Malformed(p) \/ Refused(p)
  <2>1. PICK room \in Rooms :
          \/ Become(Close(Fail(Step(room), p), p))
          \/ Become(BadMessage(Step(room), p)) \/ Become(Fail(Step(room), p))
    BY <1>3 DEF MessageLimit, Malformed, Refused
  <2>. DEFINE b == Step(room)
  <2>2. Good(b, Now) /\ \A q \in Peer : Seat(b, Now.accepted, q) BY <1>2
  <2>. HIDE DEF b
  <2>3. p \in Now.accepted BY <1>1, <1>2
  <2>4. /\ Settles(b, Fail(b, p), Now.accepted)
        /\ Settles(b, Close(Fail(b, p), p), Now.accepted)
        /\ Settles(b, BadMessage(b, p), Now.accepted)
    BY <2>2, <2>3, AnswersSettle
  <2>5. QED BY <1>2, <2>1, <2>4, Became DEF b
<1>4. CASE Bye(p)
  <2>1. PICK room \in Rooms : Become(Close(CleanupPeer(Step(room), p), p)) BY <1>4 DEF Bye
  <2>. DEFINE b == Step(room)
  <2>2. Good(b, Now) /\ \A q \in Peer : Seat(b, Now.accepted, q) BY <1>2
  <2>. HIDE DEF b
  <2>3. p \in Now.accepted BY <1>1, <1>2
  <2>4. Socketed(b, b, p) BY <2>2 DEF Socketed, Good
  <2>5. Settles(b, Close(CleanupPeer(b, p), p), Now.accepted)
    BY <2>2, <2>3, <2>4, LeavingSettles
  <2>6. QED BY <1>2, <2>1, <2>5, Became DEF b
<1>5. CASE RetryPaired(p)
  <2>. DEFINE i == sid[p]
  <2>1. PICK room \in Rooms : Become(RestoreWaitingReceiver(Step(room), sessions[i], FALSE))
    BY <1>5 DEF RetryPaired
  <2>2. i \in SessionId /\ sessions[i].sid # NoSid /\ ~Decided(sessions[i])
    BY <1>5 DEF RetryPaired, LiveSids
  <2>. HIDE DEF i
  <2>. DEFINE b == Step(room)
  <2>3. Good(b, Now) /\ \A q \in Peer : Seat(b, Now.accepted, q) BY <1>2
  <2>4. b.sessions = sessions BY DEF Step
  <2>. HIDE DEF b
  <2>5. Settles(b, RestoreWaitingReceiver(b, sessions[i], FALSE), Now.accepted)
    BY <2>2, <2>3, <2>4, SessionSettles
  <2>6. QED BY <1>2, <2>1, <2>5, Became DEF b
<1>6. CASE RetryWaiting(p)
  <2>. DEFINE c == code[p]
  <2>1. PICK room \in Rooms :
          \/ Become(Send(Step(room), p, "registered"))
          \/ Become(Close(Fail(Clear(DeleteCode(Step(room), c), p), p), p))
    BY <1>6 DEF RetryWaiting
  <2>2. sid[p] = NoSid /\ c \in Code /\ codes[c].receiver = p
    BY <1>6 DEF RetryWaiting, OwnsCode, Current, Step, Inv, TypeOK
  <2>3. role[p] = "receiver"
    BY <1>1, <2>2, PeerAssumption DEF Inv, RegistryConsistent, CodesLinked, Waiting
  <2>. DEFINE b == Step(room)
  <2>4. Good(b, Now) /\ \A q \in Peer : Seat(b, Now.accepted, q) BY <1>2
  <2>5. /\ b.sid[p] = NoSid /\ b.codes[c].receiver = p /\ b.ws[p] = "open"
        /\ b.role[p] = "receiver" /\ b.code[p] = c
    BY <1>1, <2>2, <2>3 DEF Step
  <2>6. p \in Now.accepted BY <1>1, <1>2
  <2>. HIDE DEF b, c
  <2>7. Apart(b, b, {p}, {}) BY <2>4, <2>5 DEF Apart, Good
  <2>8. Settles(b, Send(b, p, "registered"), Now.accepted)
    BY <2>2, <2>4, <2>5, <2>6, <2>7, RegisterSettles
  <2>9. Settles(b, Close(Fail(Clear(DeleteCode(b, c), p), p), p), Now.accepted)
    BY <2>2, <2>4, <2>5, <2>6, ForgetSettles
  <2>10. QED BY <1>2, <2>1, <2>8, <2>9, Became DEF b
<1>7. QED BY <1>3, <1>4, <1>5, <1>6

\* register.
LEMMA RegisterSound ==
  ASSUME Inv, Inv', Seated, NEW p \in Peer, NEW c \in Code,
         \/ RegisterAgain(p, c) \/ RegisterExpired(p, c)
         \/ RegisterFresh(p, c) \/ RegisterRefused(p, c)
  PROVE  Sound
<1>1. p \in accepted /\ accepted' = accepted /\ ws[p] = "open"
  BY DEF RegisterAgain, RegisterExpired, RegisterFresh, RegisterRefused, MayRegister, Accepts
<1>2. ASSUME NEW room \in Rooms
      PROVE  /\ Good(Step(room), Now) /\ Now.accepted = accepted'
             /\ \A q \in Peer : Seat(Step(room), Now.accepted, q)
  BY <1>1, EnterSeated
<1>3. CASE RegisterRefused(p, c)
  <2>1. PICK room \in Rooms : Become(Fail(Step(room), p)) BY <1>3 DEF RegisterRefused
  <2>. DEFINE b == Step(room)
  <2>2. Good(b, Now) /\ \A q \in Peer : Seat(b, Now.accepted, q) BY <1>2
  <2>. HIDE DEF b
  <2>3. p \in Now.accepted BY <1>1, <1>2
  <2>4. Settles(b, Fail(b, p), Now.accepted) BY <2>2, <2>3, AnswersSettle
  <2>5. QED BY <1>2, <2>1, <2>4, Became DEF b
<1>4. CASE RegisterExpired(p, c)
  <2>1. PICK room \in Rooms : Become(Close(Fail(Clear(DeleteCode(Step(room), c), p), p), p))
    BY <1>4 DEF RegisterExpired
  <2>. DEFINE b == Step(room)
  <2>2. Good(b, Now) /\ \A q \in Peer : Seat(b, Now.accepted, q) BY <1>2
  <2>3. b.sid[p] = NoSid /\ b.codes[c].receiver = p
    BY <1>4 DEF RegisterExpired, MayRegister, Step
  <2>. HIDE DEF b
  <2>4. p \in Now.accepted BY <1>1, <1>2
  <2>5. Settles(b, Close(Fail(Clear(DeleteCode(b, c), p), p), p), Now.accepted)
    BY <2>2, <2>3, <2>4, ForgetSettles
  <2>6. QED BY <1>2, <2>1, <2>5, Became DEF b
<1>5. CASE RegisterAgain(p, c)
  <2>1. PICK room \in Rooms :
          Become(Send([Step(room) EXCEPT !.role[p] = "receiver", !.code[p] = c,
                                         !.idle[p] = FALSE], p, "registered"))
    BY <1>5 DEF RegisterAgain
  <2>. DEFINE b == Step(room)
              s == [b EXCEPT !.role[p] = "receiver", !.code[p] = c, !.idle[p] = FALSE]
  <2>2. Good(b, Now) /\ b \in SState /\ \A q \in Peer : Seat(b, Now.accepted, q)
    BY <1>2 DEF Good
  <2>3. b.sid[p] = NoSid /\ b.codes[c].receiver = p /\ b.ws[p] = "open"
    BY <1>1, <1>5 DEF RegisterAgain, MayRegister, Step
  <2>4. p \in Now.accepted BY <1>1, <1>2
  <2>5. Become(Send(s, p, "registered")) BY <2>1
  <2>. HIDE DEF b
  <2>6. /\ s \in SState /\ s.codes = b.codes /\ s.sessions = b.sessions /\ s.ws = b.ws
        /\ s.told = b.told /\ s.released = b.released /\ s.sid = b.sid
        /\ s.role[p] = "receiver" /\ s.code[p] = c
        /\ \A q \in Peer : q # p => s.role[q] = b.role[q] /\ s.code[q] = b.code[q]
    BY <2>2 DEF SState
  <2>. HIDE DEF s
  <2>7. Apart(b, s, {p}, {}) BY <2>3, <2>6 DEF Apart
  <2>8. Settles(b, Send(s, p, "registered"), Now.accepted)
    BY <2>2, <2>3, <2>4, <2>6, <2>7, RegisterSettles
  <2>9. QED BY <1>2, <2>5, <2>8, Became DEF b
<1>6. CASE RegisterFresh(p, c)
  <2>. DEFINE e == [receiver |-> p, ttl |-> CodeTtl, remaining |-> MaxPrePairAttempts]
  <2>1. PICK room \in Rooms :
          Become(Send([DropCode(Step(room), p) EXCEPT
                         !.role[p] = "receiver", !.code[p] = c, !.idle[p] = FALSE,
                         !.codes[c] = e], p, "registered"))
    BY <1>6 DEF RegisterFresh
  <2>. DEFINE b == Step(room)
              d == DropCode(b, p)
              s == [d EXCEPT !.role[p] = "receiver", !.code[p] = c, !.idle[p] = FALSE,
                             !.codes[c] = e]
  <2>2. Good(b, Now) /\ b \in SState /\ \A q \in Peer : Seat(b, Now.accepted, q)
    BY <1>2 DEF Good
  <2>3. b.sid[p] = NoSid /\ b.codes[c].receiver = NoPeer /\ b.ws[p] = "open"
    BY <1>1, <1>6 DEF RegisterFresh, MayRegister, Step
  <2>4. p \in Now.accepted BY <1>1, <1>2
  <2>5. Become(Send(s, p, "registered")) BY <2>1
  <2>6. e \in CodeEntry /\ e.receiver = p BY LimitAssumption DEF CodeEntry
  <2>. HIDE DEF b, e
  <2>7. Apart(b, d, {p}, {})
    <3>. DEFINE P == {p}
                I == {}
    <3>1. P \in SUBSET Peer /\ I \in SUBSET SessionId /\ p \in P OBVIOUS
    <3>2. Apart(b, b, P, I) BY <2>2, <2>3 DEF Apart
    <3>. HIDE DEF P, I
    <3>3. Apart(b, d, P, I) BY <3>1, <3>2, ApartSendLast
    <3>4. QED BY <3>3 DEF P, I
  <2>8. /\ d \in SState /\ d.sid = b.sid /\ d.ws = b.ws
        /\ \A k \in Code : d.codes[k] = b.codes[k] \/ d.codes[k] = Free
    BY <2>2, DropCodeQuiet DEF Quiet
  <2>. HIDE DEF d
  <2>9. /\ s \in SState /\ s.sessions = d.sessions /\ s.ws = d.ws
        /\ s.told = d.told /\ s.released = d.released /\ s.sid = d.sid
        /\ s.role[p] = "receiver" /\ s.code[p] = c /\ s.codes[c] = e
        /\ \A q \in Peer : q # p => s.role[q] = d.role[q] /\ s.code[q] = d.code[q]
        /\ \A k \in Code : k # c => s.codes[k] = d.codes[k]
    BY <2>6, <2>8 DEF SState
  <2>. HIDE DEF s
  <2>10. d.codes[c].receiver = NoPeer BY <2>3, <2>8 DEF Free
  <2>11. Apart(b, s, {p}, {}) BY <2>6, <2>7, <2>9, <2>10, ApartStep
  <2>12. b.codes[c].receiver # p BY <2>3, PeerAssumption
  <2>13. Settles(b, Send(s, p, "registered"), Now.accepted)
    <3>1. s.sid[p] = NoSid BY <2>3, <2>8, <2>9
    <3>2. s.ws[p] = "open" BY <2>3, <2>8, <2>9
    <3>3. s.codes[c].receiver = p BY <2>6, <2>9
    <3>4. s.role[p] = "receiver" /\ s.code[p] = c BY <2>9
    <3>5. b.sid[p] = NoSid /\ b.ws[p] = "open" BY <2>3
    <3>6. Good(b, Now) /\ \A q \in Peer : Seat(b, Now.accepted, q) BY <2>2
    <3>7. QED BY <2>4, <2>11, <2>12, <3>1, <3>2, <3>3, <3>4, <3>5, <3>6, RegisterSettles
  <2>14. QED BY <1>2, <2>5, <2>13, Became DEF b
<1>7. QED BY <1>3, <1>4, <1>5, <1>6

\* connect.
LEMMA ConnectSound ==
  ASSUME Inv, Inv', Seated, NEW p \in Peer, NEW c \in Code,
         ConnectExpired(p, c) \/ ConnectRefused(p, c) \/ Connect(p, c)
  PROVE  Sound
<1>. DEFINE r == codes[c].receiver
<1>1. p \in accepted /\ accepted' = accepted /\ ws[p] = "open"
  BY DEF ConnectExpired, ConnectRefused, Connect, MayConnect, Accepts
<1>2. ASSUME NEW room \in Rooms
      PROVE  /\ Good(Step(room), Now) /\ Now.accepted = accepted'
             /\ \A q \in Peer : Seat(Step(room), Now.accepted, q)
  BY <1>1, EnterSeated
<1>3. r # NoPeer => /\ r \in accepted /\ codes[c].remaining > 0
                    /\ ws[r] = "open" => role[r] = "receiver"
  BY DEF Inv, RegistryConsistent, CodesLinked, Waiting
<1>4. accepted \in SUBSET Peer BY DEF Inv, TypeOK
<1>5. CASE ConnectRefused(p, c)
  <2>1. PICK room \in Rooms : Become(Fail(Step(room), p)) BY <1>5 DEF ConnectRefused
  <2>. DEFINE b == Step(room)
  <2>2. Good(b, Now) /\ \A q \in Peer : Seat(b, Now.accepted, q) BY <1>2
  <2>. HIDE DEF b
  <2>3. p \in Now.accepted BY <1>1, <1>2
  <2>4. Settles(b, Fail(b, p), Now.accepted) BY <2>2, <2>3, AnswersSettle
  <2>5. QED BY <1>2, <2>1, <2>4, Became DEF b
<1>6. CASE ConnectExpired(p, c)
  <2>1. PICK room \in Rooms :
          Become(Fail(Close(Fail(Clear(DeleteCode(Step(room), c), r), r), r), p))
    BY <1>6 DEF ConnectExpired
  <2>. DEFINE b == Step(room)
  <2>2. Good(b, Now) /\ \A q \in Peer : Seat(b, Now.accepted, q) BY <1>2
  <2>3. /\ b.codes[c].receiver = r /\ b.sid[p] = NoSid /\ b.role[p] # "receiver"
    BY <1>6 DEF ConnectExpired, MayConnect, Step
  <2>4. r \in Peer /\ r \in accepted /\ p # r
    BY <1>1, <1>3, <1>4, <1>6 DEF ConnectExpired, MayConnect
  <2>. HIDE DEF b, r
  <2>5. p \in Now.accepted /\ r \in Now.accepted BY <1>1, <1>2, <2>4
  <2>6. Settles(b, Fail(Close(Fail(Clear(DeleteCode(b, c), r), r), r), p), Now.accepted)
    BY <2>2, <2>3, <2>4, <2>5, ConnectExpiredSettles
  <2>7. QED BY <1>2, <2>1, <2>6, Became DEF b
<1>7. CASE Connect(p, c)
  <2>. DEFINE i == minted + 1
              x == NewSession(p, c, i)
  <2>1. PICK room \in Rooms : Become(Announce(Paired(Step(room), x), x))
    BY <1>7 DEF Connect
  <2>. DEFINE b == Step(room)
  <2>2. Good(b, Now) /\ \A q \in Peer : Seat(b, Now.accepted, q) BY <1>2
  <2>3. /\ r \in accepted /\ codes[c] \in CodeEntry /\ codes[c].remaining > 0 /\ p # r
        /\ ws[r] = "open" /\ sid[p] = NoSid /\ role[p] # "receiver"
    BY <1>3, <1>7 DEF Connect, MayConnect, Available, Inv, TypeOK
  <2>4. i \in SessionId /\ minted \in Nat
    BY <1>7, LimitAssumption DEF Connect, Inv, TypeOK, SessionId
  <2>5. /\ x.sid = i /\ x.code = c /\ x.codeTtl = codes[c].ttl /\ x.sender = p
        /\ x.receiver = r /\ x.remaining = codes[c].remaining - 1 /\ x.seen = {}
    BY DEF NewSession, NoSession
  <2>6. x \in Session
    <3>. DEFINE e == codes[c]
                k == e.remaining - 1
    <3>1. i \in Nat /\ PakeTimeout \in Nat BY <2>4, LimitAssumption DEF SessionId
    <3>2. x = [NoSession EXCEPT
                 !.sid = i, !.code = c, !.codeTtl = e.ttl, !.sender = p,
                 !.receiver = e.receiver, !.ttl = PakeTimeout, !.remaining = k]
      BY DEF NewSession
    <3>3. NoSession \in Session BY EmptyEntries
    <3>4. e.receiver \in Peer /\ k \in Nat /\ e.ttl \in Nat BY <1>4, <2>3 DEF CodeEntry
    <3>. HIDE DEF x, e, i, k
    <3>5. QED BY <3>1, <3>2, <3>3, <3>4 DEF Session
  <2>7. Now.accepted = accepted /\ Now.minted = minted BY DEF Now
  <2>8. /\ b.codes[c] = codes[c] /\ b.ws = ws /\ b.sid = sid /\ b.role = role BY DEF Step
  <2>9. ~Decided(x) BY <2>5 DEF Decided
  <2>. HIDE DEF x, b
  <2>10. Member(x, Now) BY <1>1, <1>4, <2>3, <2>4, <2>5, <2>6, <2>7 DEF Member
  <2>11. Now.minted \in Nat /\ x.sid = Now.minted + 1 BY <2>4, <2>5, <2>7
  <2>12. /\ b.codes[x.code].receiver = x.receiver /\ b.ws[x.receiver] = "open"
         /\ b.ws[x.sender] = "open" /\ b.sid[x.sender] = NoSid
         /\ b.role[x.sender] # "receiver" /\ x.codeTtl = b.codes[x.code].ttl
         /\ x.remaining = b.codes[x.code].remaining - 1
    BY <1>1, <2>3, <2>5, <2>8
  <2>13. Settles(b, Announce(Paired(b, x), x), Now.accepted)
    BY <2>2, <2>9, <2>10, <2>11, <2>12, ConnectSettles
  <2>14. QED BY <1>2, <2>1, <2>13, Became DEF b
<1>8. QED BY <1>5, <1>6, <1>7

\* relay.
LEMMA RelaySound ==
  ASSUME Inv, Inv', Seated, NEW p \in Peer, NEW i \in SessionId,
         \/ RelayPairAccept(p, i)
         \/ \E m \in RelayMessage :
              RelayRejected(p, i, m) \/ RelayUndeliverable(p, i, m) \/ RelayForward(p, i, m)
  PROVE  Sound
<1>. DEFINE x == sessions[i]
<1>1. InSession(p, i) /\ accepted' = accepted
  BY DEF RelayPairAccept, RelayRejected, RelayUndeliverable, RelayForward
<1>2. /\ p \in accepted /\ sessions[i].sid # NoSid /\ p \in {x.sender, x.receiver}
  BY <1>1 DEF InSession, Accepts, LiveSids
<1>3. ASSUME NEW room \in Rooms
      PROVE  /\ Good(Step(room), Now) /\ Now.accepted = accepted'
             /\ \A q \in Peer : Seat(Step(room), Now.accepted, q)
             /\ Step(room).sessions[i] = x /\ Step(room).ws = ws
  BY <1>1, EnterSeated DEF Step
<1>4. CASE RelayPairAccept(p, i)
  <2>1. PICK room \in Rooms, limited \in {NoPeer, x.sender, x.receiver} :
          Become(AcceptPair(Step(room), x, p, limited))
    BY <1>4 DEF RelayPairAccept
  <2>2. p = x.receiver
    BY <1>4 DEF RelayPairAccept, RelayAllowed, RelayAllowedForRole
  <2>. DEFINE b == Step(room)
  <2>3. Good(b, Now) /\ (\A q \in Peer : Seat(b, Now.accepted, q)) /\ b.sessions[i] = x
    BY <1>3
  <2>. HIDE DEF b, x
  <2>4. b.sessions[i].sid # NoSid BY <1>2, <2>3 DEF x
  <2>5. Settles(b, AcceptPair(b, x, x.receiver, limited), Now.accepted)
    BY <2>3, <2>4, SessionSettles
  <2>6. QED BY <1>3, <2>1, <2>2, <2>5, Became DEF b
<1>5. ASSUME NEW m \in RelayMessage, RelayRejected(p, i, m) PROVE Sound
  <2>1. PICK room \in Rooms :
          \/ ~Decided(x) /\ Become(RejectPrePairSender(Step(room), x, p))
          \/ Become(BadMessage(Step(room), p))
    BY <1>5 DEF RelayRejected
  <2>. DEFINE b == Step(room)
  <2>2. Good(b, Now) /\ (\A q \in Peer : Seat(b, Now.accepted, q)) /\ b.sessions[i] = x
    BY <1>3
  <2>. HIDE DEF b, x
  <2>3. b.sessions[i].sid # NoSid BY <1>2, <2>2 DEF x
  <2>4. p \in Now.accepted BY <1>1, <1>2, <1>3
  <2>5. CASE ~Decided(x) /\ Become(RejectPrePairSender(b, x, p))
    <3>1. Settles(b, RejectPrePairSender(b, x, p), Now.accepted)
      BY <1>2, <2>2, <2>3, <2>5, SessionSettles
    <3>2. QED BY <1>3, <2>5, <3>1, Became DEF b
  <2>6. CASE Become(BadMessage(b, p))
    <3>1. Settles(b, BadMessage(b, p), Now.accepted) BY <2>2, <2>4, AnswersSettle
    <3>2. QED BY <1>3, <2>6, <3>1, Became DEF b
  <2>7. QED BY <2>1, <2>5, <2>6 DEF b
<1>6. ASSUME NEW m \in RelayMessage, RelayUndeliverable(p, i, m) PROVE Sound
  <2>. DEFINE restore == m # "pair-reject"
  <2>1. PICK room \in Rooms :
          Become(RelayDeliveryFailed(Step(room), x, p, Other(x, p), restore))
    BY <1>6 DEF RelayUndeliverable
  <2>. DEFINE b == Step(room)
  <2>2. Good(b, Now) /\ (\A q \in Peer : Seat(b, Now.accepted, q)) /\ b.sessions[i] = x
    BY <1>3
  <2>3. b.ws[Other(x, p)] # "open" BY <1>3, <1>6 DEF RelayUndeliverable
  <2>. HIDE DEF b, x, restore
  <2>4. b.sessions[i].sid # NoSid BY <1>2, <2>2 DEF x
  <2>5. Settles(b, RelayDeliveryFailed(b, x, p, Other(x, p), restore), Now.accepted)
    BY <1>2, <2>2, <2>3, <2>4, SessionSettles
  <2>6. QED BY <1>3, <2>1, <2>5, Became DEF b
<1>7. ASSUME NEW m \in RelayMessage, RelayForward(p, i, m) PROVE Sound
  <2>1. PICK room \in Rooms : Become(Forward(Step(room), x, p, m)) BY <1>7 DEF RelayForward
  <2>2. m \notin Lifecycle BY <1>7 DEF RelayForward, RelayMessage, Lifecycle
  <2>. DEFINE b == Step(room)
  <2>3. Good(b, Now) /\ (\A q \in Peer : Seat(b, Now.accepted, q)) /\ b.sessions[i] = x
    BY <1>3
  <2>. HIDE DEF b, x
  <2>4. b.sessions[i].sid # NoSid BY <1>2, <2>3 DEF x
  <2>5. Settles(b, Forward(b, x, p, m), Now.accepted)
    BY <1>2, <2>2, <2>3, <2>4, SessionSettles
  <2>6. QED BY <1>3, <2>1, <2>5, Became DEF b
<1>8. QED BY <1>4, <1>5, <1>6, <1>7

\* The timers and the shutdown.
LEMMA TimerSound ==
  ASSUME Inv, Inv', Seated, Timer \/ Shutdown
  PROVE  Sound
<1>1. CASE Tick BY <1>1, WearSound DEF Tick
<1>2. CASE Shutdown
  <2>1. \A q \in Peer : ws'[q] = "open" => ws[q] = "open" BY <1>2 DEF Shutdown
  <2>2. UNCHANGED <<role, sid, code, told, accepted>> /\ UNCHANGED <<codes, sessions>>
    BY <1>2 DEF Shutdown
  <2>3. QED BY <2>1, <2>2, WearSound
<1>3. ASSUME NEW c \in Code, ExpireCode(c) PROVE Sound
  <2>. DEFINE r == codes[c].receiver
  <2>1. PICK room \in Rooms :
          Become(DeleteCode(Close(Clear(Fail(Step(room), r), r), r), c))
    BY <1>3 DEF ExpireCode
  <2>2. r \in accepted /\ sid[r] = NoSid
    BY <1>3 DEF ExpireCode, CodeDue, Inv, RegistryConsistent, CodesLinked, Waiting
  <2>3. accepted' = accepted /\ r \in Peer BY <1>3, <2>2 DEF ExpireCode, Inv, TypeOK
  <2>. DEFINE b == Step(room)
  <2>4. Good(b, Now) /\ Now.accepted = accepted' /\ \A q \in Peer : Seat(b, Now.accepted, q)
    BY <2>3, EnterSeated
  <2>5. b.codes[c].receiver = r /\ b.sid[r] = NoSid BY <2>2 DEF Step
  <2>. HIDE DEF b, r
  <2>6. r \in Now.accepted BY <2>2, <2>3, <2>4
  <2>7. Settles(b, DeleteCode(Close(Clear(Fail(b, r), r), r), c), Now.accepted)
    BY <2>3, <2>4, <2>5, <2>6, ForgetSettles
  <2>8. QED BY <2>1, <2>4, <2>7, Became DEF b
<1>4. ASSUME NEW i \in SessionId, ExpireSession(i) PROVE Sound
  <2>. DEFINE x == sessions[i]
              t(b) == CloseSessionPeers(Send(Send(b, x.sender, "peer-left"),
                                             x.receiver, "peer-left"), x)
  <2>1. PICK room \in Rooms :
          \/ ~Decided(x) /\ Become(RestoreWaitingReceiver(Step(room), x, TRUE))
          \/ Become(t(Step(room)))
    BY <1>4 DEF ExpireSession
  <2>. DEFINE b == Step(room)
  <2>2. accepted' = accepted /\ x.sid # NoSid BY <1>4 DEF ExpireSession, SessionDue
  <2>3. Good(b, Now) /\ Now.accepted = accepted' /\ \A q \in Peer : Seat(b, Now.accepted, q)
    BY <2>2, EnterSeated
  <2>4. b.sessions[i] = x BY DEF Step
  <2>. HIDE DEF b, x
  <2>5. b.sessions[i].sid # NoSid BY <2>2, <2>4
  <2>6. CASE ~Decided(x) /\ Become(RestoreWaitingReceiver(b, x, TRUE))
    <3>1. Settles(b, RestoreWaitingReceiver(b, x, TRUE), Now.accepted)
      BY <2>3, <2>4, <2>5, <2>6, SessionSettles
    <3>2. QED BY <2>3, <2>6, <3>1, Became DEF b
  <2>7. CASE Become(t(b))
    <3>1. Settles(b, t(b), Now.accepted) BY <2>3, <2>4, <2>5, SessionSettles
    <3>. HIDE DEF t
    <3>2. QED BY <2>3, <2>7, <3>1, Became DEF b
  <2>8. QED BY <2>1, <2>6, <2>7 DEF b
<1>5. QED BY <1>1, <1>2, <1>3, <1>4 DEF Timer

\* At the start nobody was told anything.
LEMMA InitSeated == Init => Seated
  BY PeerAssumption DEF Init, Seated, Seat, Blank, Current, Step

\* Every callback keeps the seats and treats leases and sessions as promised.
LEMMA NextSound ==
  ASSUME Ledger, Seated, Next
  PROVE  Sound
<1>1. Inv /\ Inv' BY NextInv DEF Ledger
<1>2. ASSUME NEW p \in Peer, Socket(p) PROVE Sound BY <1>1, <1>2, SocketSound
<1>3. ASSUME NEW p \in Peer, Message(p) PROVE Sound
  BY <1>1, <1>3, OtherMessageSound, RegisterSound, ConnectSound, RelaySound DEF Message
<1>4. CASE Timer \/ Shutdown BY <1>1, <1>4, TimerSound
<1>5. QED BY <1>2, <1>3, <1>4 DEF Next

\* The two invariants together.
LEMMA NextSeated == Ledger /\ Seated /\ [Next]_vars => (Ledger /\ Seated)'
<1>. SUFFICES ASSUME Ledger, Seated, [Next]_vars PROVE Ledger' /\ Seated' OBVIOUS
<1>1. Ledger' BY NextLedger
<1>2. CASE Next BY <1>1, <1>2, NextSound DEF Sound
<1>3. CASE UNCHANGED vars
  <2>1. Current' = Current /\ accepted' = accepted BY <1>3 DEF vars, Current, Step
  <2>2. QED BY <1>1, <2>1 DEF Seated
<1>4. QED BY <1>1, <1>2, <1>3

\* What src/server/index.ts last told an open connection is what it holds for it, after
\* every callback and whichever socket failed inside it: a receiver told `registered' owns
\* a waiting code, a peer told `peer-joined' is in a session of the table, a sender told
\* `pair-accept' is in a decided one, and nobody is left open after a `peer-left'.
THEOREM ClientViewAlwaysAgrees == Spec => []ClientViewAgrees
<1>1. Ledger /\ Seated => ClientViewAgrees
  <2>. SUFFICES ASSUME Ledger, Seated, NEW p \in Peer, ws[p] = "open"
       PROVE  CASE told[p] \in {"registered", "lapsed"} -> OwnsCode(Current, p)
                [] told[p] = "peer-joined" -> sid[p] \in LiveSids
                [] told[p] = "pair-accept" ->
                     sid[p] \in LiveSids /\ Decided(sessions[sid[p]])
                     /\ sessions[sid[p]].sender = p
                [] told[p] = "peer-left" -> FALSE
                [] OTHER -> role[p] = "none"
    BY DEF ClientViewAgrees
  <2>1. /\ Current.told = told /\ Current.role = role /\ Current.sid = sid /\ Current.ws = ws
        /\ Current.code = code /\ Current.codes = codes /\ Current.sessions = sessions
    BY DEF Current, Step
  <2>2. Blank(Current, p) \/ Awaits(Current, p) \/ (sid[p] # NoSid /\ Seats(Current, p))
    BY <2>1 DEF Seated, Seat
  <2>3. sid[p] # NoSid => sid[p] \in LiveSids
    BY DEF Ledger, Inv, RegistryConsistent, PeersLinked
  <2>4. CASE Blank(Current, p) BY <2>1, <2>4 DEF Blank
  <2>5. CASE Awaits(Current, p) BY <2>1, <2>5, CodeAssumption DEF Awaits, OwnsCode
  <2>6. CASE sid[p] # NoSid /\ Seats(Current, p) BY <2>1, <2>3, <2>6 DEF Seats
  <2>7. QED BY <2>2, <2>4, <2>5, <2>6
<1>2. QED BY <1>1, InitLedger, InitSeated, NextSeated, PTL DEF Spec

\* While a receiver keeps its rendezvous code, no callback of src/server/index.ts renews the
\* code's deadline or its RECEIVER_MAX_PREPAIR_ATTEMPTS: not a repeated register, a
\* retryReceiver, a restored session or an expired one; and each claim costs an attempt.
THEOREM LeaseIsNeverRenewed == Spec => LeaseNeverRenewed
<1>1. Ledger /\ Seated /\ [Next]_vars =>
        [\A p \in Peer : KeepsCode(p) =>
           /\ Lease(p)'.ttl <= Lease(p).ttl
           /\ Lease(p)'.left <= Lease(p).left
           /\ sid[p] = NoSid /\ sid[p]' # NoSid => Lease(p)'.left < Lease(p).left]_vars
  BY NextSound DEF Sound, LeaseStep
<1>2. QED BY <1>1, InitLedger, InitSeated, NextSeated, PTL DEF Spec, LeaseNeverRenewed

\* When src/server/index.ts drops a session from its table, whatever dropped it, the sender's
\* socket is no longer open, and the receiver's stays open only if the session was undecided
\* and the receiver waits under the same code with the deadline and the attempts it had.
THEOREM SessionsEndForBoth == Spec => SessionEndsForBoth
<1>1. Ledger /\ Seated /\ [Next]_vars =>
        [\A i \in LiveSids : i \notin LiveSids' =>
           LET x == sessions[i]
           IN  /\ ws'[x.sender] # "open"
               /\ ws'[x.receiver] = "open" =>
                    /\ ~Decided(x)
                    /\ codes'[x.code] = [receiver |-> x.receiver, ttl |-> x.codeTtl,
                                         remaining |-> x.remaining]]_vars
  BY NextSound DEF Sound, EndStep
<1>2. QED BY <1>1, InitLedger, InitSeated, NextSeated, PTL DEF Spec, SessionEndsForBoth

=============================================================================
