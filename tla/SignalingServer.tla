-------------------------- MODULE SignalingServer --------------------------
(***************************************************************************)
(* The signaling server of src/server/index.ts: the registry of waiting    *)
(* receive codes, the table of pairing sessions, and the per-connection    *)
(* state both refer to.  Node runs every callback to completion, so one    *)
(* callback is one action.  What makes the callbacks hard is `send': a     *)
(* write that finds the socket's buffer full closes that socket and cleans *)
(* its peer up in the middle of the handler that was using it, which may   *)
(* restore or end the very session the handler is about to change.         *)
(*                                                                         *)
(* Handlers are therefore written as functions on a record of the whole    *)
(* server state: `Step(room)' reads the variables into the record and      *)
(* `Become' writes it back.  `room' is the environment's choice of how     *)
(* many messages each socket still takes before it reports backpressure.   *)
(***************************************************************************)
EXTENDS Integers, FiniteSets

CONSTANTS
  Peer,                 \* connections, each accepted at most once
  NoPeer,
  Code,                 \* rendezvous ids (the public prefix of a receive code)
  NoCode,
  Ip,                   \* client addresses
  IpOf,                 \* the address each connection comes from
  MaxSid,               \* bound: session ids the model may mint
  MaxWaitingCodes,      \* SIGNALING_MAX_WAITING_CODES
  MaxSessions,          \* SIGNALING_MAX_SESSIONS
  MaxConnectionsPerIp,  \* SIGNALING_MAX_CONNECTIONS_PER_IP
  MaxPrePairAttempts,   \* RECEIVER_MAX_PREPAIR_ATTEMPTS
  MaxBadMessages,       \* SIGNALING_MAX_BAD_MESSAGES
  MaxCandidates,        \* SIGNALING_MAX_ICE_CANDIDATES_PER_PEER
  CodeTtl,              \* CODE_TTL_MS, in ticks
  PakeTimeout,          \* PAKE_TIMEOUT_MS, in ticks
  PairTimeout,          \* PAIR_TIMEOUT_MS, in ticks
  MaxSends,             \* bound: no handler sends one peer more messages
  MaxSendFailures,      \* bound: sockets that may fail within one handler
  Pinged                \* bound: connections the heartbeat is modelled for

ASSUME PeerAssumption == IsFiniteSet(Peer) /\ NoPeer \notin Peer
ASSUME CodeAssumption == IsFiniteSet(Code) /\ NoCode \notin Code
ASSUME IpAssumption == IpOf \in [Peer -> Ip]
ASSUME LimitAssumption ==
  /\ MaxSid \in Nat /\ MaxWaitingCodes \in Nat /\ MaxSessions \in Nat
  /\ MaxConnectionsPerIp \in Nat \ {0} /\ MaxPrePairAttempts \in Nat \ {0}
  /\ MaxBadMessages \in Nat \ {0} /\ MaxCandidates \in Nat
  /\ CodeTtl \in Nat \ {0} /\ PakeTimeout \in Nat \ {0} /\ PairTimeout \in Nat \ {0}
  /\ MaxSends \in Nat /\ MaxSendFailures \in Nat /\ Pinged \subseteq Peer

VARIABLES
  codes,     \* codes: the waiting entry of each rendezvous id
  sessions,  \* sessions: the session of each minted session id
  ws,        \* readyState of the connection's socket
  released,  \* Peer.connectionReleased
  role,      \* Peer.role
  sid,       \* Peer.sid
  code,      \* Peer.code
  bad,       \* Peer.badMessages
  idle,      \* Peer.idleTimer is pending
  pong,      \* Peer.awaitingHeartbeatPong
  active,    \* activeConnections
  told,      \* the last lifecycle message the client received
  accepted,  \* connections accepted so far: each is a Peer object of its own
  minted,    \* session ids handed out so far
  down       \* shutdownStarted

vars == <<codes, sessions, ws, released, role, sid, code, bad, idle, pong, active,
          told, accepted, minted, down>>

SessionId == 1 .. MaxSid
NoSid == 0

(***************************************************************************)
(* Deadlines are kept as the ticks left until them (expiresAt - now, at    *)
(* least 0), so `expiresAt > now' is `ttl > 0'.                            *)
(***************************************************************************)
Free == [receiver |-> NoPeer, ttl |-> 0, remaining |-> 0]

NoSession ==
  [sid |-> NoSid, code |-> NoCode, codeTtl |-> 0, sender |-> NoPeer,
   receiver |-> NoPeer, ttl |-> 0, remaining |-> 0, seen |-> {},
   candidates |-> [sender |-> 0, receiver |-> 0]]

\* The phase flags of a session.
Flag == {"senderPake", "receiverPake", "senderConfirm", "receiverConfirm",
         "pairRequested", "pairDecided", "offer", "answer"}

\* The client messages that relay forwards.  "bad-request" is a pair-request whose
\* manifest is over the limits or not redacted.
RelayMessage == {"pake", "confirm", "pair-request", "bad-request",
                 "pair-accept", "pair-reject", "offer", "answer", "candidate"}

\* The messages that change what a client believes; "lapsed" is a `registered'
\* that announces no time left (expiresInSec 0).
Lifecycle == {"registered", "lapsed", "peer-joined", "peer-left", "pair-accept"}

Live(s, i) == i # NoSid /\ s.sessions[i].sid # NoSid
Decided(x) == "pairDecided" \in x.seen

-----------------------------------------------------------------------------
(* The record the handlers work on *)

Room == {r \in [Peer -> 0 .. MaxSends] :
           Cardinality({p \in Peer : r[p] < MaxSends}) <= MaxSendFailures}

\* Only a socket that is open, or opens in this callback, can fail.
Rooms == {r \in Room : \A p \in accepted : ws[p] # "open" => r[p] = MaxSends}

Step(room) ==
  [codes |-> codes, sessions |-> sessions, ws |-> ws, released |-> released,
   role |-> role, sid |-> sid, code |-> code, bad |-> bad, idle |-> idle,
   active |-> active, told |-> told, room |-> room]

Current == Step([p \in Peer |-> MaxSends])

Become(s) ==
  /\ codes' = s.codes /\ sessions' = s.sessions
  /\ ws' = s.ws /\ released' = s.released
  /\ role' = s.role /\ sid' = s.sid /\ code' = s.code
  /\ bad' = s.bad /\ idle' = s.idle /\ active' = s.active /\ told' = s.told

-----------------------------------------------------------------------------
(* Closing a connection *)

\* Mutant: the connectionReleased guard is missing.
ReleaseTwice(s, p) ==
  [s EXCEPT !.released[p] = TRUE, !.active[IpOf[p]] = IF @ <= 1 THEN 0 ELSE @ - 1]

\* releaseActiveConnection: idempotent, gives the address its slot back.
Release(s, p) ==
  IF s.released[p] THEN s
  ELSE [s EXCEPT !.released[p] = TRUE, !.idle[p] = FALSE,
                 !.active[IpOf[p]] = IF @ <= 1 THEN 0 ELSE @ - 1]

\* ws.close: an open socket is closing from now on.
Shut(s, p) == [s EXCEPT !.ws[p] = IF @ = "open" THEN "closing" ELSE @]

\* closePeerAndRelease and closePeerWithCodeAndRelease.
Close(s, p) == Release(Shut(s, p), p)

\* clearPeerSessionState.
Clear(s, p) ==
  [s EXCEPT !.sid[p] = NoSid, !.code[p] = NoCode, !.role[p] = "none"]

DeleteCode(s, c) == [s EXCEPT !.codes[c] = Free]
DeleteSession(s, i) == [s EXCEPT !.sessions[i] = NoSession]

\* codes.get(peer.code)?.receiver.id === peer.id
OwnsCode(s, p) == s.code[p] # NoCode /\ s.codes[s.code[p]].receiver = p

DropCode(s, p) == IF OwnsCode(s, p) THEN DeleteCode(s, s.code[p]) ELSE s

-----------------------------------------------------------------------------
(* Sending.  A send that fails closes the socket and runs cleanupPeer, which *)
(* sends in turn; those nested sends happen after the session was deleted,   *)
(* where cleanupPeer stops once it has dropped the peer's waiting code.      *)

Deliver(s, p, m) ==
  [s EXCEPT !.room[p] = @ - 1, !.told[p] = IF m \in Lifecycle THEN m ELSE @]

\* send, for a peer whose session is no longer in the table.
SendLast(s, p, m) ==
  IF s.ws[p] # "open" THEN s
  ELSE IF s.room[p] > 0 THEN Deliver(s, p, m)
  ELSE Close(DropCode(s, p), p)

Registered(ttl) == IF ttl > 0 THEN "registered" ELSE "lapsed"

\* Mutant: a restored receiver is not acknowledged.
SendRestoredRegistrationSilent(s, x, ttl) == s

\* sendRestoredRegistration: undone when the receiver cannot be told.
SendRestoredRegistration(s, x, ttl) ==
  LET t == SendLast(s, x.receiver, Registered(ttl))
      d == IF t.codes[x.code].receiver = x.receiver THEN DeleteCode(t, x.code) ELSE t
  IN  IF t.ws[x.receiver] = "open" THEN t
      ELSE Close(Clear(d, x.receiver), x.receiver)

CloseSessionPeers(s, x) ==
  LET t == Clear(Clear(DeleteSession(s, x.sid), x.sender), x.receiver)
  IN  Close(Close(t, x.sender), x.receiver)

\* expireReceiverAfterPrePairAttempts, the waiting entry already deleted.
ExpireReceiver(s, x) ==
  LET n == SendLast(s, x.receiver, "peer-left")
      f == SendLast(Clear(Clear(n, x.sender), x.receiver), x.receiver, "error")
  IN  Close(Close(f, x.sender), x.receiver)

\* Mutant: the sender of the restored session is not closed.
RestoreToKeepsSender(s, x, entry, notify) ==
  LET back == [Clear(s, x.sender) EXCEPT
                 !.sid[x.receiver] = NoSid,
                 !.role[x.receiver] = "receiver",
                 !.code[x.receiver] = x.code]
      wait == [back EXCEPT !.codes[x.code] = entry]
      left == IF notify THEN SendLast(wait, x.receiver, "peer-left") ELSE wait
  IN  IF entry.remaining = 0
      THEN ExpireReceiver(DeleteCode(back, x.code), x)
      ELSE SendRestoredRegistration(left, x, entry.ttl)

\* restoreWaitingReceiver where the code is the receiver's again, with
\* `entry' as its waiting entry.
RestoreTo(s, x, entry, notify) ==
  LET back == [Clear(s, x.sender) EXCEPT
                 !.sid[x.receiver] = NoSid,
                 !.role[x.receiver] = "receiver",
                 !.code[x.receiver] = x.code]
      wait == [back EXCEPT !.codes[x.code] = entry]
      left == IF notify THEN SendLast(wait, x.receiver, "peer-left") ELSE wait
  IN  IF entry.remaining = 0
      THEN ExpireReceiver(DeleteCode(back, x.code), x)
      ELSE SendRestoredRegistration(Close(left, x.sender), x, entry.ttl)

\* restoreWaitingReceiver.  The session object may already be out of the table
\* (a failed send inside the same handler restored it first).
RestoreWaitingReceiver(s, x, notify) ==
  LET t == DeleteSession(s, x.sid)
      existing == s.codes[x.code]
      fewer == IF existing.remaining < x.remaining THEN existing.remaining ELSE x.remaining
      toldBoth == SendLast(SendLast(t, x.sender, "peer-left"), x.receiver, "peer-left")
  IN  IF existing.receiver = x.receiver
      THEN RestoreTo(t, x, [existing EXCEPT !.remaining = fewer], notify)
      ELSE IF existing.receiver = NoPeer
      THEN RestoreTo(t, x, [receiver |-> x.receiver, ttl |-> x.codeTtl,
                            remaining |-> x.remaining], notify)
      ELSE CloseSessionPeers(toldBoth, x)

\* Mutant: only the remaining peer is cleared.
EndSessionOneSided(s, x, leaving) ==
  LET remaining == IF leaving = x.sender THEN x.receiver ELSE x.sender
      t == SendLast(DeleteSession(s, x.sid), remaining, "peer-left")
  IN  Close(Clear(t, remaining), remaining)

\* endSession: `leaving' is the peer that left, the other one is told and closed.
EndSession(s, x, leaving) ==
  LET remaining == IF leaving = x.sender THEN x.receiver ELSE x.sender
      t == SendLast(DeleteSession(s, x.sid), remaining, "peer-left")
  IN  Close(Clear(Clear(t, x.sender), x.receiver), remaining)

\* cleanupPeer.
CleanupPeer(s, p) ==
  LET d == DropCode(s, p)
      x == d.sessions[d.sid[p]]
  IN  IF ~Live(d, d.sid[p]) THEN d
      ELSE IF x.sender = p /\ ~Decided(x) THEN RestoreWaitingReceiver(d, x, TRUE)
      ELSE EndSession(d, x, p)

\* send.  It returned true iff the socket is open in the state it leaves.
Send(s, p, m) ==
  IF s.ws[p] # "open" THEN s
  ELSE IF s.room[p] > 0 THEN Deliver(s, p, m)
  ELSE Close(CleanupPeer(s, p), p)

Fail(s, p) == Send(s, p, "error")

\* rejectRelayMessage and rejectMalformedPrePairSenderMessage, for the sender of a
\* session that is not accepted yet.
RejectPrePairSender(s, x, p) == RestoreWaitingReceiver(Fail(s, p), x, TRUE)

\* badMessage.
BadMessage(s, p) ==
  LET x == s.sessions[s.sid[p]]
      n == s.bad[p] + 1
      t == Fail([s EXCEPT !.bad[p] = n], p)
  IN  IF Live(s, s.sid[p]) /\ x.sender = p /\ ~Decided(x)
      THEN RejectPrePairSender(s, x, p)
      ELSE IF n >= MaxBadMessages THEN Close(t, p) ELSE t

\* relayDeliveryFailed.
RelayDeliveryFailed(s, x, p, target, restore) ==
  LET t == Fail(s, p)
  IN  IF restore /\ target = x.sender /\ ~Decided(x)
      THEN RestoreWaitingReceiver(t, x, TRUE)
      ELSE EndSession(t, x, target)

\* closeSessionForTurnRateLimit.
CloseSessionForTurnRateLimit(s, x) ==
  CloseSessionPeers(Fail(Fail(s, x.sender), x.receiver), x)

-----------------------------------------------------------------------------
(* Relay policy (policy.ts) *)

\* relayAllowedForRole.
RelayAllowedForRole(x, p, m) ==
  CASE m \in {"pair-request", "offer"} -> p = x.sender
    [] m \in {"pair-accept", "pair-reject", "answer"} -> p = x.receiver
    [] m \in {"pake", "confirm", "candidate"} -> TRUE
    [] OTHER -> FALSE

Side(x, p) == IF p = x.sender THEN "sender" ELSE "receiver"
PakeFlag(x, p) == IF p = x.sender THEN "senderPake" ELSE "receiverPake"
ConfirmFlag(x, p) == IF p = x.sender THEN "senderConfirm" ELSE "receiverConfirm"

\* Mutant: a pair-request needs only the sender's confirmation.
RelayAllowedHalfConfirmed(x, p, m) ==
  CASE m = "pake" -> PakeFlag(x, p) \notin x.seen
    [] m = "confirm" ->
         /\ {"senderPake", "receiverPake"} \subseteq x.seen
         /\ {"pairRequested", "pairDecided", ConfirmFlag(x, p)} \cap x.seen = {}
    [] m = "pair-request" ->
         "senderConfirm" \in x.seen /\ {"pairRequested", "pairDecided"} \cap x.seen = {}
    [] OTHER -> "pairRequested" \in x.seen

\* relayAllowedForPhase.
RelayAllowedForPhase(x, p, m) ==
  CASE m = "pake" ->
         {"pairRequested", "pairDecided", PakeFlag(x, p)} \cap x.seen = {}
    [] m = "confirm" ->
         /\ {"senderPake", "receiverPake"} \subseteq x.seen
         /\ {"pairRequested", "pairDecided", ConfirmFlag(x, p)} \cap x.seen = {}
    [] m = "pair-request" ->
         /\ {"senderConfirm", "receiverConfirm"} \subseteq x.seen
         /\ {"pairRequested", "pairDecided"} \cap x.seen = {}
    [] m \in {"pair-accept", "pair-reject"} ->
         "pairRequested" \in x.seen /\ "pairDecided" \notin x.seen
    [] m = "offer" -> "pairDecided" \in x.seen /\ "offer" \notin x.seen
    [] m = "answer" ->
         {"pairDecided", "offer"} \subseteq x.seen /\ "answer" \notin x.seen
    [] m = "candidate" ->
         /\ {"pairDecided", "offer"} \subseteq x.seen
         /\ x.candidates[Side(x, p)] < MaxCandidates
    [] OTHER -> FALSE

RelayAllowed(x, p, m) == RelayAllowedForRole(x, p, m) /\ RelayAllowedForPhase(x, p, m)

\* applyRelayPhase, and nextSessionExpiresAt for the deadline.
ApplyRelayPhase(x, p, m) ==
  [x EXCEPT
     !.seen = CASE m = "pake" -> @ \cup {PakeFlag(x, p)}
                [] m = "confirm" -> @ \cup {ConfirmFlag(x, p)}
                [] m = "pair-request" -> @ \cup {"pairRequested"}
                [] m = "pair-accept" -> @ \cup {"pairDecided"}
                [] m \in {"offer", "answer"} -> @ \cup {m}
                [] OTHER -> @,
     !.candidates[Side(x, p)] = IF m = "candidate" THEN @ + 1 ELSE @,
     !.ttl = IF m \in {"pair-request", "pair-accept"} THEN PairTimeout ELSE @]

-----------------------------------------------------------------------------
(* Connections *)

\* The causes of the server's own callbacks: a socket that is closing, a code or a
\* session past its deadline while the expiry timer runs.
CloseDue(p) == ws[p] = "closing"
CodeDue(c) == codes[c].receiver # NoPeer /\ codes[c].ttl = 0 /\ ~down
\* Mutant: an accepted session never expires.
SessionDueUndecided(i) ==
  sessions[i].sid # NoSid /\ sessions[i].ttl = 0 /\ ~Decided(sessions[i]) /\ ~down

SessionDue(i) == sessions[i].sid # NoSid /\ sessions[i].ttl = 0 /\ ~down

\* peerAcceptsClientMessages: a frame of any other connection is ignored.
Accepts(p) == p \in accepted /\ ws[p] = "open" /\ ~released[p]

\* wss "connection": counted, and refused at once above the address limit.
Connection(p) ==
  /\ p \notin accepted /\ ~down
  /\ accepted' = accepted \cup {p}
  /\ \E room \in Rooms :
       LET s == [Step(room) EXCEPT !.ws[p] = "open", !.active[IpOf[p]] = @ + 1]
       IN  Become(IF s.active[IpOf[p]] > MaxConnectionsPerIp
                  THEN Close(Fail(s, p), p) ELSE [s EXCEPT !.idle[p] = TRUE])
  /\ UNCHANGED <<pong, minted, down>>

\* ws "close": the socket is gone.
CloseEvent(p) ==
  /\ CloseDue(p)
  /\ \E room \in Rooms :
       LET s == [Step(room) EXCEPT !.ws[p] = "closed"]
       IN  Become(CleanupPeer(Release(s, p), p))
  /\ UNCHANGED <<pong, accepted, minted, down>>

\* ws "error": ws has moved the socket to CLOSING; its "close" follows.
SocketError(p) ==
  /\ ws[p] \in {"open", "closing"}
  /\ \E room \in Rooms : Become(Release(CleanupPeer(Shut(Step(room), p), p), p))
  /\ UNCHANGED <<pong, accepted, minted, down>>

\* The client closes, or its network does: readyState leaves OPEN before any callback.
RemoteClose(p) ==
  /\ ws[p] = "open"
  /\ ws' = [ws EXCEPT ![p] = "closing"]
  /\ UNCHANGED <<codes, sessions, released, role, sid, code, bad, idle, pong, active,
                 told, accepted, minted, down>>

\* The idle timer, pending until the connection registers, connects or is released.
IdleTimeout(p) ==
  /\ idle[p] /\ role[p] = "none" /\ sid[p] = NoSid /\ code[p] = NoCode
  /\ Become(Close(Current, p))
  /\ UNCHANGED <<pong, accepted, minted, down>>

\* heartbeatPeer: ping, or give up on a peer that left the last ping unanswered.
HeartbeatPing(p) ==
  /\ Accepts(p) /\ p \in Pinged /\ ~pong[p] /\ ~down
  /\ pong' = [pong EXCEPT ![p] = TRUE]
  /\ UNCHANGED <<codes, sessions, ws, released, role, sid, code, bad, idle, active,
                 told, accepted, minted, down>>

\* cleanupPeer, releaseActiveConnection, ws.terminate.
Terminate(s, p) == Shut(Release(CleanupPeer(s, p), p), p)

HeartbeatTimeout(p) ==
  /\ Accepts(p) /\ pong[p] /\ ~down
  /\ \E room \in Rooms : Become(Terminate(Step(room), p))
  /\ UNCHANGED <<pong, accepted, minted, down>>

\* ws.ping throws.
HeartbeatError(p) ==
  /\ Accepts(p) /\ p \in Pinged /\ ~pong[p] /\ ~down
  /\ pong' = [pong EXCEPT ![p] = TRUE]
  /\ \E room \in Rooms : Become(Terminate(Step(room), p))
  /\ UNCHANGED <<accepted, minted, down>>

\* ws "pong".
Pong(p) ==
  /\ ws[p] = "open" /\ pong[p]
  /\ pong' = [pong EXCEPT ![p] = FALSE]
  /\ UNCHANGED <<codes, sessions, ws, released, role, sid, code, bad, idle, active,
                 told, accepted, minted, down>>

\* hitMessageLimit: over the per-connection message rate.
MessageLimit(p) ==
  /\ Accepts(p)
  /\ \E room \in Rooms : Become(Close(Fail(Step(room), p), p))
  /\ UNCHANGED <<pong, accepted, minted, down>>

\* A frame that is no client message.
Malformed(p) ==
  /\ Accepts(p)
  /\ \E room \in Rooms : Become(BadMessage(Step(room), p))
  /\ UNCHANGED <<pong, accepted, minted, down>>

\* Every request that is answered by an error and nothing else: over the address's
\* request rate, an unsupported protocol version, an invalid rendezvous id, a relay
\* for a session that is gone or is not the peer's.
Refused(p) ==
  /\ Accepts(p)
  /\ \E room \in Rooms : Become(Fail(Step(room), p))
  /\ UNCHANGED <<pong, accepted, minted, down>>

-----------------------------------------------------------------------------
(* register *)

Waiting == {c \in Code : codes[c].receiver # NoPeer}
LiveSids == {i \in SessionId : sessions[i].sid # NoSid}

\* waitingReceiverAvailable.
Available(c) == codes[c].ttl > 0 /\ ws[codes[c].receiver] = "open"

MayRegister(p) == Accepts(p) /\ sid[p] = NoSid /\ role[p] # "sender"

\* The peer already waits under this code: acknowledged again, deadline kept.
RegisterAgain(p, c) ==
  /\ MayRegister(p) /\ codes[c].receiver = p /\ Available(c)
  /\ \E room \in Rooms :
       Become(Send([Step(room) EXCEPT !.role[p] = "receiver", !.code[p] = c,
                                      !.idle[p] = FALSE], p, "registered"))
  /\ UNCHANGED <<pong, accepted, minted, down>>

\* ... or its code has expired meanwhile.
RegisterExpired(p, c) ==
  /\ MayRegister(p) /\ codes[c].receiver = p /\ ~Available(c)
  /\ \E room \in Rooms :
       Become(Close(Fail(Clear(DeleteCode(Step(room), c), p), p), p))
  /\ UNCHANGED <<pong, accepted, minted, down>>

\* canRegisterWaitingCode: replacing one's own code needs no free place.
RegisterFresh(p, c) ==
  /\ MayRegister(p) /\ codes[c].receiver = NoPeer
  /\ OwnsCode(Current, p) \/ Cardinality(Waiting) < MaxWaitingCodes
  /\ \E room \in Rooms :
       LET s == DropCode(Step(room), p)
       IN  Become(Send([s EXCEPT !.role[p] = "receiver", !.code[p] = c, !.idle[p] = FALSE,
                                 !.codes[c] = [receiver |-> p, ttl |-> CodeTtl,
                                               remaining |-> MaxPrePairAttempts]],
                       p, "registered"))
  /\ UNCHANGED <<pong, accepted, minted, down>>

RegisterRefused(p, c) ==
  /\ Accepts(p)
  /\ \/ ~MayRegister(p)
     \/ codes[c].receiver \notin {NoPeer, p}
     \/ /\ codes[c].receiver = NoPeer
        /\ ~OwnsCode(Current, p) /\ Cardinality(Waiting) >= MaxWaitingCodes
  /\ \E room \in Rooms : Become(Fail(Step(room), p))
  /\ UNCHANGED <<pong, accepted, minted, down>>

-----------------------------------------------------------------------------
(* connect *)

MayConnect(p) == Accepts(p) /\ sid[p] = NoSid /\ role[p] # "receiver"

\* The waiting receiver is gone or its code has expired.
ConnectExpired(p, c) ==
  /\ MayConnect(p) /\ codes[c].receiver # NoPeer /\ ~Available(c)
  /\ \E room \in Rooms :
       LET r == codes[c].receiver
           s == Fail(Clear(DeleteCode(Step(room), c), r), r)
       IN  Become(Fail(Close(s, r), p))
  /\ UNCHANGED <<pong, accepted, minted, down>>

ConnectRefused(p, c) ==
  /\ Accepts(p)
  /\ \/ ~MayConnect(p)
     \/ codes[c].receiver = NoPeer
     \/ Available(c) /\ Cardinality(LiveSids) >= MaxSessions
  /\ \E room \in Rooms : Become(Fail(Step(room), p))
  /\ UNCHANGED <<pong, accepted, minted, down>>

\* Mutant: the claimed code gets a fresh deadline.
NewSessionFreshLease(p, c, i) ==
  [NoSession EXCEPT
     !.sid = i, !.code = c, !.codeTtl = CodeTtl, !.sender = p,
     !.receiver = codes[c].receiver, !.ttl = PakeTimeout,
     !.remaining = codes[c].remaining - 1]

\* The session that claims the code: one pre-pair attempt is consumed.
NewSession(p, c, i) ==
  [NoSession EXCEPT
     !.sid = i, !.code = c, !.codeTtl = codes[c].ttl, !.sender = p,
     !.receiver = codes[c].receiver, !.ttl = PakeTimeout,
     !.remaining = codes[c].remaining - 1]

Paired(s, x) ==
  [DropCode(DeleteCode(s, x.code), x.sender) EXCEPT
     !.role[x.sender] = "sender", !.sid[x.sender] = x.sid, !.code[x.sender] = x.code,
     !.idle[x.sender] = FALSE, !.sid[x.receiver] = x.sid, !.sessions[x.sid] = x]

\* peer-joined to both; whoever cannot be told undoes the claim.
Announce(s, x) ==
  LET r == Send(s, x.receiver, "peer-joined")
      undone == Clear(Clear(DeleteSession(r, x.sid), x.sender), x.receiver)
      b == Send(r, x.sender, "peer-joined")
  IN  IF r.ws[x.receiver] # "open" THEN Fail(Close(undone, x.receiver), x.sender)
      ELSE IF b.ws[x.sender] # "open" THEN RestoreWaitingReceiver(b, x, TRUE)
      ELSE b

Connect(p, c) ==
  /\ MayConnect(p) /\ codes[c].receiver # NoPeer /\ Available(c)
  /\ codes[c].receiver # p
  /\ Cardinality(LiveSids) < MaxSessions /\ minted < MaxSid
  /\ minted' = minted + 1
  /\ \E room \in Rooms :
       LET x == NewSession(p, c, minted + 1)
       IN  Become(Announce(Paired(Step(room), x), x))
  /\ UNCHANGED <<pong, accepted, down>>

-----------------------------------------------------------------------------
(* relay *)

InSession(p, i) ==
  Accepts(p) /\ i \in LiveSids /\ p \in {sessions[i].sender, sessions[i].receiver}

Other(x, p) == IF p = x.sender THEN x.receiver ELSE x.sender

\* rejectRelayMessage: wrong manifest, role or phase.
RelayRejected(p, i, m) ==
  /\ InSession(p, i) /\ ~RelayAllowed(sessions[i], p, m)
  /\ \E room \in Rooms :
       LET x == sessions[i]
       IN  Become(IF p = x.sender /\ ~Decided(x)
                  THEN RejectPrePairSender(Step(room), x, p)
                  ELSE BadMessage(Step(room), p))
  /\ UNCHANGED <<pong, accepted, minted, down>>

\* The target's socket is already closing.
RelayUndeliverable(p, i, m) ==
  /\ InSession(p, i) /\ RelayAllowed(sessions[i], p, m)
  /\ ws[Other(sessions[i], p)] # "open"
  /\ \E room \in Rooms :
       LET x == sessions[i]
       IN  Become(RelayDeliveryFailed(Step(room), x, p, Other(x, p), m # "pair-reject"))
  /\ UNCHANGED <<pong, accepted, minted, down>>

\* Forward, then advance the phase; a delivered pair-reject ends the session.
Forward(s, x, p, m) ==
  LET target == Other(x, p)
      t == Send(s, target, m)
      a == [t EXCEPT !.sessions[x.sid] = ApplyRelayPhase(x, p, m)]
  IN  IF t.ws[target] # "open"
      THEN RelayDeliveryFailed(t, x, p, target, m # "pair-reject")
      ELSE IF m = "pair-reject" THEN CloseSessionPeers(a, x) ELSE a

RelayForward(p, i, m) ==
  /\ m # "pair-accept"
  /\ InSession(p, i) /\ RelayAllowed(sessions[i], p, m)
  /\ ws[Other(sessions[i], p)] = "open"
  /\ \E room \in Rooms : Become(Forward(Step(room), sessions[i], p, m))
  /\ UNCHANGED <<pong, accepted, minted, down>>

\* pair-accept: ice-config to the sender, the accept, ice-config to the receiver.
\* `limited' is the peer whose address is over its TURN credential quota.
AcceptPair(s, x, p, limited) ==
  LET ice == Send(s, x.sender, "ice-config")
      acc == Send(ice, x.sender, "pair-accept")
      own == Send(acc, x.receiver, "ice-config")
  IN  IF limited = x.sender THEN CloseSessionForTurnRateLimit(s, x)
      ELSE IF acc.ws[x.sender] # "open"
      THEN RelayDeliveryFailed(acc, x, p, x.sender, TRUE)
      ELSE IF limited = x.receiver THEN CloseSessionForTurnRateLimit(acc, x)
      ELSE IF own.ws[x.receiver] # "open" THEN CloseSessionPeers(own, x)
      ELSE [own EXCEPT !.sessions[x.sid] = ApplyRelayPhase(x, p, "pair-accept")]

RelayPairAccept(p, i) ==
  /\ InSession(p, i) /\ RelayAllowed(sessions[i], p, "pair-accept")
  /\ ws[sessions[i].sender] = "open"
  /\ \E room \in Rooms, limited \in {NoPeer, sessions[i].sender, sessions[i].receiver} :
       Become(AcceptPair(Step(room), sessions[i], p, limited))
  /\ UNCHANGED <<pong, accepted, minted, down>>

-----------------------------------------------------------------------------
(* bye *)

\* retryReceiver, waiting: acknowledged again while the code lives, else closed.
RetryWaiting(p) ==
  /\ Accepts(p) /\ sid[p] = NoSid /\ OwnsCode(Current, p)
  /\ \E room \in Rooms :
       LET s == Step(room)
           c == code[p]
       IN  Become(IF Available(c) THEN Send(s, p, "registered")
                  ELSE Close(Fail(Clear(DeleteCode(s, c), p), p), p))
  /\ UNCHANGED <<pong, accepted, minted, down>>

\* retryReceiver, paired: the receiver gives up on this sender and waits again.
RetryPaired(p) ==
  /\ Accepts(p) /\ sid[p] \in LiveSids
  /\ sessions[sid[p]].receiver = p /\ ~Decided(sessions[sid[p]])
  /\ \E room \in Rooms :
       Become(RestoreWaitingReceiver(Step(room), sessions[sid[p]], FALSE))
  /\ UNCHANGED <<pong, accepted, minted, down>>

\* Any other bye.
Bye(p) ==
  /\ Accepts(p)
  /\ \E room \in Rooms : Become(Close(CleanupPeer(Step(room), p), p))
  /\ UNCHANGED <<pong, accepted, minted, down>>

-----------------------------------------------------------------------------
(* Timers.  The expiry callback visits every entry; here one entry per step, so  *)
(* that the entries of one visit may also be separated by other callbacks.       *)

\* Mutants: a deadline runs below zero; the last tick of a deadline never passes.
TickDownUnbounded(n) == n - 1
TickDownStuck(n) == IF n > 1 THEN n - 1 ELSE n

TickDown(n) == IF n > 0 THEN n - 1 ELSE 0

Tick ==
  /\ codes' = [c \in Code |-> [codes[c] EXCEPT !.ttl = TickDown(@)]]
  /\ sessions' = [i \in SessionId |->
                    [sessions[i] EXCEPT !.ttl = TickDown(@), !.codeTtl = TickDown(@)]]
  /\ UNCHANGED <<ws, released, role, sid, code, bad, idle, pong, active, told, accepted, minted, down>>

\* expiryInterval, codes.
ExpireCode(c) ==
  /\ CodeDue(c)
  /\ \E room \in Rooms :
       LET r == codes[c].receiver
           s == Fail(Step(room), r)
       IN  Become(DeleteCode(Close(Clear(s, r), r), c))
  /\ UNCHANGED <<pong, accepted, minted, down>>

\* expiryInterval, sessions: a claim that ran out before acceptance frees the receiver
\* for another sender while its code lives; any other session is over.
ExpireSession(i) ==
  /\ SessionDue(i)
  /\ \E room \in Rooms :
       LET x == sessions[i]
           s == Step(room)
           n == Send(Send(s, x.sender, "peer-left"), x.receiver, "peer-left")
       IN  Become(IF ~Decided(x) /\ x.codeTtl > 0 /\ ws[x.receiver] = "open"
                  THEN RestoreWaitingReceiver(s, x, TRUE)
                  ELSE CloseSessionPeers(n, x))
  /\ UNCHANGED <<pong, accepted, minted, down>>

\* shutdown and fatalServerError: the timers stop, every socket is closed.
Shutdown ==
  /\ ~down
  /\ down' = TRUE
  /\ ws' = [p \in Peer |-> IF ws[p] = "open" THEN "closing" ELSE ws[p]]
  /\ UNCHANGED <<codes, sessions, released, role, sid, code, bad, idle, pong, active,
                 told, accepted, minted>>

-----------------------------------------------------------------------------

Init ==
  /\ codes = [c \in Code |-> Free]
  /\ sessions = [i \in SessionId |-> NoSession]
  /\ ws = [p \in Peer |-> "closed"]
  /\ released = [p \in Peer |-> FALSE]
  /\ role = [p \in Peer |-> "none"]
  /\ sid = [p \in Peer |-> NoSid]
  /\ code = [p \in Peer |-> NoCode]
  /\ bad = [p \in Peer |-> 0]
  /\ idle = [p \in Peer |-> FALSE]
  /\ pong = [p \in Peer |-> FALSE]
  /\ active = [a \in Ip |-> 0]
  /\ told = [p \in Peer |-> "nothing"]
  /\ accepted = {}
  /\ minted = 0
  /\ down = FALSE

Socket(p) ==
  \/ Connection(p) \/ CloseEvent(p) \/ SocketError(p) \/ RemoteClose(p)
  \/ IdleTimeout(p) \/ HeartbeatPing(p) \/ HeartbeatTimeout(p)
  \/ HeartbeatError(p) \/ Pong(p)

Message(p) ==
  \/ MessageLimit(p) \/ Malformed(p) \/ Refused(p)
  \/ RetryWaiting(p) \/ RetryPaired(p) \/ Bye(p)
  \/ \E c \in Code :
       \/ RegisterAgain(p, c) \/ RegisterExpired(p, c)
       \/ RegisterFresh(p, c) \/ RegisterRefused(p, c)
       \/ ConnectExpired(p, c) \/ ConnectRefused(p, c) \/ Connect(p, c)
  \/ \E i \in SessionId :
       \/ RelayPairAccept(p, i)
       \/ \E m \in RelayMessage :
            RelayRejected(p, i, m) \/ RelayUndeliverable(p, i, m) \/ RelayForward(p, i, m)

Timer ==
  \/ Tick
  \/ \E c \in Code : ExpireCode(c)
  \/ \E i \in SessionId : ExpireSession(i)

Next == (\E p \in Peer : Socket(p) \/ Message(p)) \/ Timer \/ Shutdown

Spec == Init /\ [][Next]_vars

\* Node's loop runs every timer and delivers every "close": ws gives a closing socket
\* up after a grace time and setInterval keeps firing until the shutdown.  No client is
\* assumed to act.  The predicate of each disjunction is when its callback is enabled.
FairSpec ==
  /\ Spec
  /\ WF_vars(Tick)
  /\ \A p \in Peer : []<>~CloseDue(p) \/ []<><<CloseEvent(p)>>_vars
  /\ \A c \in Code : []<>~CodeDue(c) \/ []<><<ExpireCode(c)>>_vars
  /\ \A i \in SessionId : []<>~SessionDue(i) \/ []<><<ExpireSession(i)>>_vars

-----------------------------------------------------------------------------
(* Safety *)

CodeEntry == [receiver : Peer \cup {NoPeer}, ttl : Nat, remaining : Nat]

Session ==
  [sid : Nat, code : Code \cup {NoCode}, codeTtl : Nat,
   sender : Peer \cup {NoPeer}, receiver : Peer \cup {NoPeer}, ttl : Nat,
   remaining : Nat, seen : SUBSET Flag, candidates : [sender : Nat, receiver : Nat]]

\* Every variable of the server has its type: codes and sessions hold whole entries or
\* the free entry, a connection's links name codes and minted sessions.
TypeOK ==
  /\ codes \in [Code -> CodeEntry]
  /\ sessions \in [SessionId -> Session]
  /\ ws \in [Peer -> {"open", "closing", "closed"}]
  /\ released \in [Peer -> BOOLEAN]
  /\ role \in [Peer -> {"none", "sender", "receiver"}]
  /\ sid \in [Peer -> SessionId \cup {NoSid}]
  /\ code \in [Peer -> Code \cup {NoCode}]
  /\ bad \in [Peer -> Nat]
  /\ idle \in [Peer -> BOOLEAN]
  /\ pong \in [Peer -> BOOLEAN]
  /\ active \in [Ip -> Nat]
  /\ told \in [Peer -> Lifecycle \cup {"nothing"}]
  /\ accepted \subseteq Peer
  /\ minted \in 0 .. MaxSid
  /\ down \in BOOLEAN

\* A session in the table has a minted id and joins two different accepted connections,
\* and both name it, its code and their side of it.
SessionsLinked ==
  \A i \in LiveSids :
    LET x == sessions[i]
    IN  /\ x.sid = i /\ i <= minted /\ x.code \in Code
        /\ {x.sender, x.receiver} \subseteq accepted /\ x.sender # x.receiver
        /\ sid[x.sender] = i /\ role[x.sender] = "sender" /\ code[x.sender] = x.code
        /\ sid[x.receiver] = i /\ role[x.receiver] = "receiver" /\ code[x.receiver] = x.code

\* A connection names only a session that is in the table and that it is a member of.
PeersLinked ==
  \A p \in Peer : sid[p] # NoSid =>
    /\ sid[p] \in LiveSids
    /\ p \in {sessions[sid[p]].sender, sessions[sid[p]].receiver}

\* A waiting code has a pre-pair attempt left and belongs to an accepted receiver that
\* is in no session; while that receiver's socket is open, it names the code as its own.
CodesLinked ==
  \A c \in Waiting :
    LET r == codes[c].receiver
    IN  /\ codes[c].remaining > 0 /\ r \in accepted /\ sid[r] = NoSid
        /\ ws[r] = "open" => role[r] = "receiver" /\ code[r] = c

\* codes, sessions and the connections agree after every callback, whatever socket
\* failed in the middle of it: no receiver waits twice or waits while it is paired.
RegistryConsistent == SessionsLinked /\ PeersLinked /\ CodesLinked

\* activeConnections counts exactly the accepted connections not yet released, on
\* every path that closes one, and never admits more than the address limit.
ConnectionsCounted ==
  \A a \in Ip :
    /\ active[a] = Cardinality({p \in Peer : IpOf[p] = a /\ p \in accepted /\ ~released[p]})
    /\ active[a] <= MaxConnectionsPerIp

\* What an open connection was last told is what the server holds for it: "registered"
\* means its code is waiting, "peer-joined" that its session is live, "pair-accept"
\* that the session is decided; no open connection is left behind by a peer-left.
ClientViewAgrees ==
  \A p \in Peer : ws[p] = "open" =>
    CASE told[p] \in {"registered", "lapsed"} -> OwnsCode(Current, p)
      [] told[p] = "peer-joined" -> sid[p] \in LiveSids
      [] told[p] = "pair-accept" ->
           sid[p] \in LiveSids /\ Decided(sessions[sid[p]]) /\ sessions[sid[p]].sender = p
      [] told[p] = "peer-left" -> FALSE
      [] OTHER -> role[p] = "none"

\* policy.ts: signaling is relayed only between peers that both confirmed the PAKE and
\* agreed on the transfer.
ConfirmedBeforeSignaling ==
  \A i \in LiveSids :
    LET x == sessions[i]
    IN  /\ "pairRequested" \in x.seen =>
             {"senderPake", "receiverPake", "senderConfirm", "receiverConfirm"} \subseteq x.seen
        /\ Decided(x) => "pairRequested" \in x.seen
        /\ {"offer", "answer"} \cap x.seen # {} => Decided(x)
        /\ x.candidates.sender + x.candidates.receiver > 0 => "offer" \in x.seen

\* The deadline and the pre-pair attempts left of the code a receiver holds, waiting
\* or claimed by a session.
Lease(p) ==
  IF sid[p] \in LiveSids
  THEN [ttl |-> sessions[sid[p]].codeTtl, left |-> sessions[sid[p]].remaining]
  ELSE [ttl |-> codes[code[p]].ttl, left |-> codes[code[p]].remaining]

KeepsCode(p) ==
  Accepts(p) /\ Accepts(p)' /\ role[p] = "receiver" /\ code[p]' = code[p]

\* While a receiver keeps its code, no retry, restoration or repeated registration
\* renews the code's deadline or its attempts, and every sender that claims it costs one.
LeaseNeverRenewed ==
  [][\A p \in Peer : KeepsCode(p) =>
       /\ Lease(p)'.ttl <= Lease(p).ttl
       /\ Lease(p)'.left <= Lease(p).left
       /\ sid[p] = NoSid /\ sid[p]' # NoSid => Lease(p)'.left < Lease(p).left]_vars

\* When a session leaves the table its sender is being closed, and so is its receiver
\* unless the session was undecided and the receiver waits under the same code, with
\* the deadline and the attempts the session carried.
SessionEndsForBoth ==
  [][\A i \in LiveSids : i \notin LiveSids' =>
       LET x == sessions[i]
       IN  /\ ws'[x.sender] # "open"
           /\ ws'[x.receiver] = "open" =>
                /\ ~Decided(x)
                /\ codes'[x.code] = [receiver |-> x.receiver, ttl |-> x.codeTtl,
                                     remaining |-> x.remaining]]_vars

-----------------------------------------------------------------------------
(* Liveness *)

\* A session never outlives its deadlines: whatever its peers do or fail to do, it
\* leaves the table.
SessionsEnd == \A i \in SessionId : i \in LiveSids ~> i \notin LiveSids

\* A waiting code is claimed, given up or expired.
CodesEnd == \A c \in Code : c \in Waiting ~> (c \notin Waiting \/ down)

-----------------------------------------------------------------------------
(* Claims of the documentation the code does not keep *)

\* SECURITY.md: "retry/restoration paths must not re-acknowledge expired receiver
\* rendezvous registrations".
NoExpiredAcknowledgement == \A p \in Peer : told[p] # "lapsed"

\* SECURITY.md: a failed send must release rendezvous state at once and not leave it to
\* a later close event or the expiry timer: a waiting code is one its receiver still
\* names, so that its cleanup finds it.
NoAbandonedCode == \A c \in Waiting : code[codes[c].receiver] = c

=============================================================================
