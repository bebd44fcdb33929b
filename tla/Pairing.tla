------------------------------- MODULE Pairing -------------------------------
(***************************************************************************)
(* The commands `recv' and `send' of src/cli/index.ts and the page's       *)
(* receiveInBrowser and sendFromBrowser of src/web/main.ts, from the       *)
(* connection to the authenticated acceptance, over the signaling server:  *)
(* the registration, the key exchange, the transfer request and the        *)
(* receiver's two retry loops.  One receiver waits under one code; several *)
(* senders know its rendezvous part, some of them also its words.  Which   *)
(* clients are pages is a parameter of the behaviour.                      *)
(*                                                                         *)
(* A message finds a wait (waitForMessage) or is lost: while a client      *)
(* awaits anything else than a message it listens to nothing.  A page has  *)
(* a task for each message.  To a command, ws hands the messages of one    *)
(* read in one call, and what follows an await runs only after it: behind  *)
(* a message that settles a wait the others of the read are lost.  The     *)
(* PAKE is ideal: two parties have the same key exactly when they used the *)
(* same words.                                                             *)
(*                                                                         *)
(* An `error' of the server is where the two differ.  It is fatal to a     *)
(* command: onMessage re-emits each message under its type, and an         *)
(* EventEmitter without a listener for `error' throws, which nothing       *)
(* catches; the catch blocks that look at the error's code, and            *)
(* registerReceiver's second try after code_taken, are never reached.  A   *)
(* page's emit gives it to the wait, which fails, and to no one else.      *)
(*                                                                         *)
(* A sender connects once, so a session is named by its sender.            *)
(***************************************************************************)
EXTENDS Naturals, Sequences, FiniteSets

CONSTANTS
  Sender, Receiver,  \* the clients
  None,              \* no session, no key
  MaxAttempts,       \* RECEIVER_MAX_PREPAIR_ATTEMPTS
  MaxCodes,          \* RECEIVE_CODE_GENERATION_ATTEMPTS
  Faults,            \* what the environment may do: sets of FaultKind
  Browsers           \* which clients are pages: sets of clients

\* interrupt: the user ends a client; timeout: a timer fires, or the server cannot be
\* reached; source: a file changes while the send is prepared; expiry, taken, turn: the
\* server expires, refuses a code, or refuses TURN credentials; batch: one read of a
\* command brings several messages.
FaultKind == {"interrupt", "timeout", "source", "expiry", "taken", "turn", "batch"}

ASSUME ClientAssumption ==
  /\ IsFiniteSet(Sender) /\ Receiver \notin Sender
  /\ {None, "shared"} \cap (Sender \cup {Receiver}) = {}
  /\ MaxAttempts \in Nat \ {0} /\ MaxCodes \in Nat \ {0}
  /\ Faults \subseteq SUBSET FaultKind
  /\ Browsers \subseteq SUBSET (Sender \cup {Receiver})

Client == Sender \cup {Receiver}

VARIABLES
  knows,     \* the senders that have the receiver's words
  faults,    \* the faults of this behaviour
  browsers,  \* the clients that are pages
  stage,     \* the await a command is in
  sid,       \* the session it works on
  key,       \* its session keys
  settled,   \* what its wait for `confirm' ended with
  shut,      \* clients that have seen their socket close
  cached,    \* clients that hold an ICE configuration
  codes,     \* codes a page has tried to register
  attempt,   \* round of waitForConfirmedReceiverSession
  round,     \* pairRequestRetry
  outcome,   \* how a command ended
  accepted,  \* sessions the receiver's user accepted (history)
  missed,    \* commands that lost messages of a read (history)
  up, down,  \* messages from and to each client, in order
  waiting,   \* the code is in the server's map
  left,      \* remainingPrePairAttempts of the code or its session
  session,   \* the session of the receiver
  seen,      \* the session's phase flags
  cut        \* clients the server has closed and does not listen to

setting == <<knows, faults, browsers>>
loops == <<attempt, round>>
counters == <<codes, loops>>
held == <<sid, key, settled, cached>>
server == <<waiting, left, session, seen, cut>>
vars == <<setting, counters, held, stage, shut, outcome, accepted, missed, up, down, server>>

Init ==
  /\ knows \in SUBSET Sender /\ faults \in Faults /\ browsers \in Browsers
  /\ stage = [c \in Client |-> "start"]
  /\ sid = [c \in Client |-> None] /\ key = [c \in Client |-> None]
  /\ settled = [c \in Client |-> "no"]
  /\ shut = {} /\ cached = {}
  /\ codes = 0 /\ attempt = 1 /\ round = 0
  /\ outcome = [c \in Client |-> "none"] /\ accepted = {} /\ missed = {}
  /\ up = [c \in Client |-> <<>>] /\ down = [c \in Client |-> <<>>]
  /\ waiting = FALSE /\ left = 0 /\ session = None /\ seen = {} /\ cut = {}

-----------------------------------------------------------------------------
(* Messages *)

Msg(type, s, body) == [type |-> type, sid |-> s, body |-> body]
Plain(type) == Msg(type, None, None)

\* The client sends; the server does not listen to a connection it has closed.
Send(c, msgs) == up' = IF c \in cut THEN up ELSE [up EXCEPT ![c] = @ \o msgs]

\* The server sends: nothing reaches a socket that is closed on either side.
Out(c, msgs) == IF c \in cut \/ stage[c] = "over" THEN down[c] ELSE down[c] \o msgs

Reply(c, msgs) == down' = [down EXCEPT ![c] = Out(c, msgs)]

ReplyBoth(s, toSender, toReceiver) ==
  down' = [down EXCEPT ![s] = Out(s, toSender), ![Receiver] = Out(Receiver, toReceiver)]

Close == Plain("close")
Failure(code) == Msg("error", None, code)

Words(c) == IF c \in knows \cup {Receiver} THEN "right" ELSE "wrong"

-----------------------------------------------------------------------------
(* The server *)

\* Phase flags are pairs of a client and what was relayed from it.
Requested == <<session, "pair-request">> \in seen
Decided == <<Receiver, "pair-accept">> \in seen
Both(type) == {<<session, type>>, <<Receiver, type>>} \subseteq seen

\* canRestorePrePairCode
CanRestore == left > 0

\* restoreWaitingReceiver: the code waits again, or has used up its attempts.  The
\* session's sender is closed without a word.
RestoreWaitingReceiver(notify) ==
  LET gone == IF notify THEN <<Msg("peer-left", session, None)>> ELSE <<>> IN
  /\ session' = None /\ seen' = {}
  /\ IF CanRestore
     THEN /\ waiting' = TRUE
          /\ ReplyBoth(session, <<Close>>, gone \o <<Plain("registered")>>)
          /\ cut' = cut \cup {session}
     ELSE /\ UNCHANGED waiting
          /\ ReplyBoth(session, <<Close>>,
                       <<Msg("peer-left", session, None), Failure("expired"), Close>>)
          /\ cut' = cut \cup {session, Receiver}
  /\ UNCHANGED left

\* Mutant: the one that stays is forgotten.
EndSessionSilent(c) ==
  /\ session' = None /\ seen' = {}
  /\ cut' = cut \cup {c}
  /\ UNCHANGED <<down, waiting, left>>

\* endSession: the one that stays is told and closed.
EndSession(c) ==
  LET other == IF c = Receiver THEN session ELSE Receiver IN
  /\ session' = None /\ seen' = {}
  /\ down' = [down EXCEPT ![other] = Out(other, <<Msg("peer-left", session, None), Close>>),
                          ![c] = Out(c, <<Close>>)]
  /\ cut' = cut \cup {c, other}
  /\ UNCHANGED <<waiting, left>>

\* cleanupPeer, and the connection is closed.
CleanupPeer(c) ==
  CASE session = None \/ c \notin {session, Receiver} ->
         /\ waiting' = (waiting /\ c # Receiver)
         /\ Reply(c, <<Close>>) /\ cut' = cut \cup {c}
         /\ UNCHANGED <<left, session, seen>>
    [] c = session /\ ~Decided -> RestoreWaitingReceiver(TRUE)
    [] OTHER -> EndSession(c)

\* The next message of a client reaches the server.
Arrives(c, types) == up[c] # <<>> /\ Head(up[c]).type \in types

\* The end of a handler: its message is taken, and those of closed connections with it.
Served(c) ==
  /\ up' = [d \in Client |-> CASE d \in cut' -> <<>>
                               [] d = c /\ d \notin cut' -> Tail(up[d])
                               [] OTHER -> up[d]]
  /\ UNCHANGED <<setting, counters, held, stage, shut, outcome, accepted, missed>>

Register(c) ==
  /\ Arrives(c, {"register"})
  /\ waiting' = TRUE /\ left' = MaxAttempts
  /\ Reply(c, <<Plain("registered")>>)
  /\ UNCHANGED <<session, seen, cut>> /\ Served(c)

\* Another receiver waits under the code.
RegisterTaken(c) ==
  /\ Arrives(c, {"register"}) /\ "taken" \in faults
  /\ Reply(c, <<Failure("code_taken")>>)
  /\ UNCHANGED server /\ Served(c)

Connect(c) ==
  /\ Arrives(c, {"connect"}) /\ waiting
  /\ waiting' = FALSE /\ left' = left - 1 /\ session' = c /\ seen' = {}
  /\ ReplyBoth(c, <<Msg("peer-joined", c, None)>>, <<Msg("peer-joined", c, None)>>)
  /\ UNCHANGED cut /\ Served(c)

ConnectNotFound(c) ==
  /\ Arrives(c, {"connect"}) /\ ~waiting
  /\ Reply(c, <<Failure("code_not_found")>>)
  /\ UNCHANGED server /\ Served(c)

RelayType == {"pake", "confirm", "pair-request", "pair-accept", "pair-reject"}

\* relayAllowedForPhase
RelayAllowed(c, type) ==
  CASE type = "pake" -> <<c, "pake">> \notin seen /\ ~Requested
    [] type = "confirm" -> Both("pake") /\ <<c, "confirm">> \notin seen /\ ~Requested
    [] type = "pair-request" -> c = session /\ Both("confirm") /\ ~Requested
    [] OTHER -> c = Receiver /\ Requested /\ ~Decided

InSession(c, s) == session # None /\ s = session /\ c \in {session, Receiver}

RelayNoSession(c) ==
  /\ Arrives(c, RelayType) /\ ~InSession(c, Head(up[c]).sid)
  /\ Reply(c, <<Failure("session_not_found")>>)
  /\ UNCHANGED server /\ Served(c)

Target(c) == IF c = Receiver THEN session ELSE Receiver

\* relay and applyRelayPhase, of a message the phase allows.  A refused message has no
\* action here: PhasesRespected says that these clients send none.
Relay(c) ==
  /\ Arrives(c, {"pake", "confirm", "pair-request"})
  /\ LET m == Head(up[c]) IN
     /\ InSession(c, m.sid) /\ RelayAllowed(c, m.type)
     /\ seen' = seen \cup {<<c, m.type>>}
     /\ Reply(Target(c), <<m>>)
  /\ UNCHANGED <<waiting, left, session, cut>> /\ Served(c)

\* The sender has its ICE configuration before the acceptance.
RelayAccept(c) ==
  /\ Arrives(c, {"pair-accept"})
  /\ LET m == Head(up[c]) IN
     /\ InSession(c, m.sid) /\ RelayAllowed(c, m.type)
     /\ ReplyBoth(session, <<Plain("ice-config"), m>>, <<Plain("ice-config")>>)
  /\ seen' = seen \cup {<<Receiver, "pair-accept">>}
  /\ UNCHANGED <<waiting, left, session, cut>> /\ Served(c)

\* closeSessionForTurnRateLimit, for the sender's address or only the receiver's.
RelayTurnLimited(c, passed) ==
  /\ Arrives(c, {"pair-accept"}) /\ "turn" \in faults
  /\ LET m == Head(up[c]) IN
     /\ InSession(c, m.sid) /\ RelayAllowed(c, m.type)
     /\ ReplyBoth(session, (IF passed THEN <<Plain("ice-config"), m>> ELSE <<>>)
                             \o <<Failure("rate_limited"), Close>>,
                  <<Failure("rate_limited"), Close>>)
  /\ cut' = cut \cup {session, Receiver} /\ session' = None /\ seen' = {}
  /\ UNCHANGED <<waiting, left>> /\ Served(c)

RelayReject(c) ==
  /\ Arrives(c, {"pair-reject"})
  /\ LET m == Head(up[c]) IN
     /\ InSession(c, m.sid) /\ RelayAllowed(c, m.type)
     /\ ReplyBoth(session, <<m, Close>>, <<Close>>)
  /\ cut' = cut \cup {session, Receiver} /\ session' = None /\ seen' = {}
  /\ UNCHANGED <<waiting, left>> /\ Served(c)

\* bye with the reason prepair_retry: retryReceiver, and what it does not take is a
\* plain bye.  The session id of the message is not looked at.
Retry(c) ==
  /\ Arrives(c, {"retry"})
  /\ IF session = None /\ waiting THEN Reply(c, <<Plain("registered")>>) /\ UNCHANGED server
     ELSE IF session # None /\ ~Decided THEN RestoreWaitingReceiver(FALSE)
     ELSE CleanupPeer(c)
  /\ Served(c)

\* Any other bye, or the close of the connection.
Bye(c) ==
  /\ Arrives(c, {"bye", "close"})
  /\ CleanupPeer(c)
  /\ Served(c)

\* The expiry interval finds the code ...
ExpireCode ==
  /\ "expiry" \in faults /\ waiting
  /\ waiting' = FALSE
  /\ Reply(Receiver, <<Failure("expired"), Close>>)
  /\ cut' = cut \cup {Receiver}
  /\ UNCHANGED <<left, session, seen>> /\ Served(None)

\* ... or the session, while its code would still be valid ...
ExpireRestore ==
  /\ "expiry" \in faults /\ session # None /\ ~Decided
  /\ RestoreWaitingReceiver(TRUE)
  /\ Served(None)

\* ... or not.
ExpireSession ==
  /\ "expiry" \in faults /\ session # None
  /\ LET gone == <<Msg("peer-left", session, None), Close>> IN ReplyBoth(session, gone, gone)
  /\ cut' = cut \cup {session, Receiver} /\ session' = None /\ seen' = {}
  /\ UNCHANGED <<waiting, left>> /\ Served(None)

Serve(c) ==
  \/ Register(c) \/ RegisterTaken(c) \/ Connect(c) \/ ConnectNotFound(c)
  \/ RelayNoSession(c) \/ Relay(c) \/ RelayAccept(c) \/ RelayReject(c)
  \/ \E passed \in BOOLEAN : RelayTurnLimited(c, passed)
  \/ Retry(c) \/ Bye(c)

-----------------------------------------------------------------------------
(* The clients: what a message does to the wait of a stage *)

\* The message a stage waits for.
WaitType == [registering |-> "registered", rekeying |-> "registered",
             rerequesting |-> "registered", joining |-> "peer-joined",
             share |-> "pake", deriving |-> "confirm", confirming |-> "confirm",
             request |-> "pair-request", awaiting |-> "pair-accept", ice |-> "ice-config"]

\* Stages whose wait is for one session: it ignores the messages of others and ends
\* when the peer leaves.
OfSession == {"share", "deriving", "confirming", "request", "awaiting"}

\* waitForMessage and the onMessage of waitForPairAccept: what the next message does.
\* A wait that has settled, and a stage that waits for no message, see only the close
\* and, in a command, an error.
Reaction(c) ==
  LET m == Head(down[c])
      st == stage[c]
      hears == st \in DOMAIN WaitType /\ settled[c] = "no"
      mine == hears /\ (st \in OfSession => m.sid \in {None, sid[c]})
  IN  CASE m.type = "close" -> "closed"
        [] m.type = "error" /\ c \notin browsers -> "crash"
        [] m.type = "error" /\ c \in browsers /\ hears -> "refused"
        [] mine /\ m.type = WaitType[st] -> "answer"
        [] mine /\ m.type = "pair-reject" /\ st = "awaiting" -> "rejected"
        [] mine /\ m.type = "peer-left" /\ st \in OfSession -> "left"
        [] OTHER -> "lost"

\* A wait of establishKeys has settled and what follows it runs before the next read.
Continuing(c) == stage[c] \in {"share", "confirming"} /\ settled[c] # "no"

Gets(c, kind) ==
  /\ down[c] # <<>> /\ stage[c] # "over" /\ ~Continuing(c)
  /\ Reaction(c) = kind

Pop(c) == down' = [down EXCEPT ![c] = Tail(@)]
Go(c, st) == stage' = [stage EXCEPT ![c] = st]

\* WebSocket's events in a process: several messages may come in one call.
Batched(c) == "batch" \in faults /\ c \notin browsers

\* The head settles a wait whose listener is removed with it; until the next wait is set
\* up the messages behind it in the same read find nobody.  The wait for `confirm' goes
\* on while the share is awaited, and a settled one in `deriving' hears nothing anyway.
TakeRead(c) ==
  \/ Pop(c)
  \/ /\ Batched(c) /\ stage[c] # "deriving"
     /\ \E n \in 2 .. Len(down[c]) :
          /\ \A i \in 2 .. n : down[c][i].type \notin {"error", "close"}
          /\ down' = [down EXCEPT ![c] = SubSeq(@, n + 1, Len(@))]

\* History: who goes on and has lost more than the message it waited for.
Misses(c) == stage'[c] # "over" /\ Len(down'[c]) + 1 < Len(down[c])

ClientOnly ==
  /\ UNCHANGED <<setting, server>>
  /\ missed' = missed \cup {c \in Client : Misses(c)}

\* The `finally' of a command: bye and close, if the socket is open.
End(c, result) ==
  /\ Go(c, "over") /\ outcome' = [outcome EXCEPT ![c] = result]
  /\ Send(c, IF c \in shut THEN <<>> ELSE <<Plain("bye"), Close>>)
  /\ down' = [down EXCEPT ![c] = <<>>]
  /\ sid' = [sid EXCEPT ![c] = None] /\ key' = [key EXCEPT ![c] = None]
  /\ settled' = [settled EXCEPT ![c] = "no"]
  /\ shut' = shut \ {c} /\ cached' = cached \ {c}

\* The process or the page is gone: no bye, only the socket closes.
Vanish(c, result) ==
  /\ Go(c, "over") /\ outcome' = [outcome EXCEPT ![c] = result]
  /\ Send(c, <<Close>>)
  /\ down' = [down EXCEPT ![c] = <<>>]
  /\ sid' = [sid EXCEPT ![c] = None] /\ key' = [key EXCEPT ![c] = None]
  /\ settled' = [settled EXCEPT ![c] = "no"]
  /\ shut' = shut \ {c} /\ cached' = cached \ {c}
  /\ UNCHANGED <<counters, accepted>> /\ ClientOnly

\* An `error' stands behind the head in the same read.
ErrorBehind(c) == Batched(c) /\ \E n \in 2 .. Len(down[c]) : down[c][n].type = "error"

\* A command dies of an `error', and before it goes on when the error is of the read that
\* ends its wait.
Crash(c) ==
  /\ Gets(c, "crash") \/ (ErrorBehind(c) /\ (Gets(c, "answer") \/ Gets(c, "left")))
  /\ Vanish(c, "crashed")

Fail(c) == End(c, "failed") /\ UNCHANGED <<counters, accepted>> /\ ClientOnly
Refuse(c) == End(c, "refused") /\ UNCHANGED <<counters, accepted>> /\ ClientOnly

\* Mutant: the ICE configuration is dropped too.
LoseIce(c) ==
  /\ Gets(c, "lost") /\ Pop(c)
  /\ UNCHANGED <<held, stage, shut, counters, outcome, accepted, up>>
  /\ ClientOnly

\* A message that nobody waits for is dropped; the ICE configuration is kept.
Lose(c) ==
  /\ Gets(c, "lost") /\ Pop(c)
  /\ cached' = IF Head(down[c]).type = "ice-config" THEN cached \cup {c} ELSE cached
  /\ UNCHANGED <<sid, key, settled, stage, shut, counters, outcome, accepted, up>>
  /\ ClientOnly

-----------------------------------------------------------------------------
(* Registration and rendezvous *)

\* The client ends before the server knows of it; a socket that opens late is closed
\* with nobody listening to it.
NeverConnects(c) ==
  /\ stage[c] = "start"
  /\ Go(c, "over") /\ outcome' = [outcome EXCEPT ![c] = "failed"]
  /\ UNCHANGED <<held, counters, shut, accepted, up, down>> /\ ClientOnly

\* Sizes, hashes and the manifest are computed before anything is sent.
PlanFails(c) == "source" \in faults /\ c \in Sender /\ NeverConnects(c)

\* The socket does not open in time, or at all.
Unreachable(c) == "timeout" \in faults /\ NeverConnects(c)

StartReceiver ==
  /\ stage[Receiver] = "start"
  /\ Send(Receiver, <<Plain("register")>>) /\ Go(Receiver, "registering")
  /\ codes' = 1
  /\ UNCHANGED <<held, loops, shut, outcome, accepted, down>> /\ ClientOnly

\* A page whose code another receiver has registers under a new one.
RegisterAgain ==
  /\ stage[Receiver] = "registering" /\ Gets(Receiver, "refused")
  /\ Head(down[Receiver]).body = "code_taken" /\ codes < MaxCodes
  /\ Pop(Receiver) /\ Send(Receiver, <<Plain("register")>>) /\ codes' = codes + 1
  /\ UNCHANGED <<held, loops, stage, shut, outcome, accepted>> /\ ClientOnly

StartSender(c) ==
  /\ stage[c] = "start"
  /\ Send(c, <<Plain("connect")>>) /\ Go(c, "joining")
  /\ UNCHANGED <<held, counters, shut, outcome, accepted, down>> /\ ClientOnly

\* The receiver is registered, or again: in the loop of
\* waitForConfirmedReceiverSession or in the one around it.
Registered ==
  LET st == stage[Receiver] IN
  /\ st \in {"registering", "rekeying", "rerequesting"} /\ Gets(Receiver, "answer")
  /\ TakeRead(Receiver) /\ Go(Receiver, "joining")
  /\ attempt' = IF st = "rekeying" THEN attempt + 1 ELSE 1
  /\ round' = IF st = "rerequesting" THEN round + 1 ELSE round
  /\ UNCHANGED <<codes, held, shut, outcome, accepted, up>> /\ ClientOnly

-----------------------------------------------------------------------------
(* establishKeys *)

Joined(c) ==
  /\ stage[c] = "joining" /\ Gets(c, "answer") /\ TakeRead(c)
  /\ LET s == Head(down[c]).sid IN
     /\ sid' = [sid EXCEPT ![c] = s]
     /\ Send(c, <<Msg("pake", s, Words(c))>>)
  /\ Go(c, "share")
  /\ UNCHANGED <<key, settled, cached, counters, shut, outcome, accepted>> /\ ClientOnly

\* finishPake, an ideal PAKE: without the same words each side has a key of its own.
SessionKey(c, words) ==
  <<sid[c], IF words = Words(c) THEN "shared" ELSE c>>

PeerShare(c) ==
  /\ stage[c] = "share" /\ Gets(c, "answer") /\ Pop(c)
  /\ key' = [key EXCEPT ![c] = SessionKey(c, Head(down[c]).body)]
  /\ Go(c, "deriving")
  /\ UNCHANGED <<sid, settled, cached, counters, shut, outcome, accepted, up>> /\ ClientOnly

\* The keys are imported: only now the own confirmation is sent.
SendConfirm(c) ==
  /\ stage[c] = "deriving" /\ c \notin shut
  /\ Send(c, <<Msg("confirm", sid[c], key[c])>>) /\ Go(c, "confirming")
  /\ UNCHANGED <<held, counters, shut, outcome, accepted, down>> /\ ClientOnly

\* Mutant: the peer's tag is not compared.
VerifiesAny(c, m) == TRUE

\* verifySessionConfirmTag
Verifies(c, m) == m.body = key[c]

\* The wait for `confirm' was set up before the share was sent and settles whenever its
\* message comes, during finishPake too.
Settle(c) ==
  /\ \E kind \in {"answer", "left", "refused"} :
       /\ \/ stage[c] \in {"deriving", "confirming"}
          \/ stage[c] = "share" /\ kind # "answer"
       /\ Gets(c, kind)
       /\ settled' = [settled EXCEPT ![c] =
            IF kind # "answer" THEN kind
            ELSE IF Verifies(c, Head(down[c])) THEN "good" ELSE "bad"]
  /\ TakeRead(c)
  /\ UNCHANGED <<sid, key, cached, counters, stage, shut, outcome, accepted, up>>
  /\ ClientOnly

\* Mutant: the sender goes on without the receiver's confirmation.
ConfirmedEarly(c) ==
  /\ stage[c] = "confirming" /\ settled[c] \in {"no", "good"}
  /\ Go(c, IF c = Receiver THEN "request" ELSE "sealing")
  /\ settled' = [settled EXCEPT ![c] = "no"]
  /\ UNCHANGED <<sid, key, cached, counters, shut, outcome, accepted, up, down>>
  /\ ClientOnly

\* establishKeys returns.
Confirmed(c) ==
  /\ stage[c] = "confirming" /\ settled[c] = "good"
  /\ Go(c, IF c = Receiver THEN "request" ELSE "sealing")
  /\ settled' = [settled EXCEPT ![c] = "no"]
  /\ UNCHANGED <<sid, key, cached, counters, shut, outcome, accepted, up, down>>
  /\ ClientOnly

\* isPrePairRetryable: the errors after which the receiver goes on waiting.
Retryable == {"bad", "left", "timeout"}

\* The receiver gives the session up and waits to be registered again.
Rekey ==
  /\ Continuing(Receiver) /\ settled[Receiver] \in Retryable /\ attempt < MaxAttempts
  /\ Send(Receiver, <<Plain("retry")>>) /\ Go(Receiver, "rekeying")
  /\ sid' = [sid EXCEPT ![Receiver] = None] /\ key' = [key EXCEPT ![Receiver] = None]
  /\ settled' = [settled EXCEPT ![Receiver] = "no"]
  /\ UNCHANGED <<cached, counters, shut, outcome, accepted, down>> /\ ClientOnly

\* establishKeys throws and the command ends.
KeysFail(c) ==
  \/ /\ Continuing(c) /\ settled[c] # "good"
     /\ c \in Sender \/ settled[c] \notin Retryable \/ attempt >= MaxAttempts
     /\ IF settled[c] = "refused" THEN Refuse(c) ELSE Fail(c)
  \/ stage[c] = "deriving" /\ c \in shut /\ Fail(c)

-----------------------------------------------------------------------------
(* The transfer request and its acceptance *)

\* The sender seals the manifest and asks.
PairRequest(c) ==
  /\ stage[c] = "sealing" /\ c \notin shut
  /\ Send(c, <<Msg("pair-request", sid[c], key[c])>>) /\ Go(c, "awaiting")
  /\ UNCHANGED <<held, counters, shut, outcome, accepted, down>> /\ ClientOnly

\* The request is opened while no message is waited for.
Requests ==
  /\ stage[Receiver] = "request" /\ Gets(Receiver, "answer") /\ Pop(Receiver)
  /\ Go(Receiver, "deciding")
  /\ UNCHANGED <<held, counters, shut, outcome, accepted, up>> /\ ClientOnly

GiveUpRequest ==
  /\ stage[Receiver] = "request" /\ round < MaxAttempts - 1
  /\ Send(Receiver, <<Plain("retry")>>) /\ Go(Receiver, "rerequesting")
  /\ sid' = [sid EXCEPT ![Receiver] = None] /\ key' = [key EXCEPT ![Receiver] = None]
  /\ UNCHANGED <<settled, cached, counters, shut, outcome, accepted>> /\ ClientOnly

\* When the sender leaves before its request, or a page's wait for it is refused, the
\* outer loop tries again.
Rerequest ==
  /\ Gets(Receiver, "left") \/ Gets(Receiver, "refused")
  /\ TakeRead(Receiver) /\ GiveUpRequest

\* The user's answer, or --yes.
Accept ==
  /\ stage[Receiver] = "deciding" /\ Receiver \notin shut
  /\ Send(Receiver, <<Msg("pair-accept", sid[Receiver], key[Receiver])>>)
  /\ Go(Receiver, "ice")
  /\ accepted' = accepted \cup {sid[Receiver]}
  /\ UNCHANGED <<held, counters, shut, outcome, down>> /\ ClientOnly

Decline ==
  /\ stage[Receiver] = "deciding"
  /\ Go(Receiver, "over") /\ outcome' = [outcome EXCEPT ![Receiver] = "declined"]
  /\ Send(Receiver, IF Receiver \in shut THEN <<>>
       ELSE <<Msg("pair-reject", sid[Receiver], key[Receiver]), Plain("bye"), Close>>)
  /\ down' = [down EXCEPT ![Receiver] = <<>>]
  /\ sid' = [sid EXCEPT ![Receiver] = None] /\ key' = [key EXCEPT ![Receiver] = None]
  /\ shut' = shut \ {Receiver}
  /\ UNCHANGED <<settled, cached, counters, accepted>> /\ ClientOnly

\* Mutant: a rejection resolves it too.
AcceptedAny(c) ==
  /\ stage[c] = "awaiting" /\ (Gets(c, "answer") \/ Gets(c, "rejected"))
  /\ Verifies(c, Head(down[c])) /\ Pop(c)
  /\ Go(c, IF c \in cached THEN "paired" ELSE "ice")
  /\ UNCHANGED <<held, counters, shut, outcome, accepted, up>> /\ ClientOnly

\* waitForPairAccept resolves: the decision is authenticated.
Accepted(c) ==
  /\ stage[c] = "awaiting" /\ Gets(c, "answer") /\ Verifies(c, Head(down[c])) /\ Pop(c)
  /\ Go(c, IF c \in cached THEN "paired" ELSE "ice")
  /\ UNCHANGED <<held, counters, shut, outcome, accepted, up>> /\ ClientOnly

\* ... or rejects.
Rejected(c) ==
  /\ Gets(c, "rejected") /\ Verifies(c, Head(down[c]))
  /\ End(c, "declined")
  /\ UNCHANGED <<counters, accepted>> /\ ClientOnly

\* getIceServersAfterAccept, for a client whose configuration did not come before.
IceConfig(c) ==
  /\ stage[c] = "ice" /\ Gets(c, "answer") /\ Pop(c)
  /\ Go(c, "paired") /\ cached' = cached \cup {c}
  /\ UNCHANGED <<sid, key, settled, counters, shut, outcome, accepted, up>> /\ ClientOnly

\* WebRTC and the transfer, which end one way or the other.
Finish(c, result) ==
  /\ stage[c] = "paired" /\ End(c, result)
  /\ UNCHANGED <<counters, accepted>> /\ ClientOnly

-----------------------------------------------------------------------------
(* What ends a command *)

\* A wait that throws: a peer that left, a closed socket.
WaitFails(c) ==
  \/ /\ \/ stage[c] = "awaiting"
        \/ stage[c] = "request" /\ round >= MaxAttempts - 1
     /\ Gets(c, "left") /\ Fail(c)
  \/ /\ stage[c] \in DOMAIN WaitType \ {"deriving"} /\ Gets(c, "closed")
     /\ Fail(c)
  \/ stage[c] \in {"sealing", "deciding"} /\ c \in shut /\ Fail(c)

\* The wait of a page is refused, and nothing is tried again.
WaitRefused(c) ==
  /\ Gets(c, "refused") /\ stage[c] \notin {"share", "deriving", "confirming"}
  /\ stage[c] = "request" => round >= MaxAttempts - 1
  /\ stage[c] = "registering" => Head(down[c]).body # "code_taken" \/ codes >= MaxCodes
  /\ Refuse(c)

\* The socket closes while the command waits for something else.
SeesClose(c) ==
  /\ stage[c] \in {"deriving", "sealing", "deciding", "paired"} /\ Gets(c, "closed")
  /\ Pop(c) /\ shut' = shut \cup {c} /\ cached' = cached \ {c}
  /\ UNCHANGED <<sid, key, settled, stage, counters, outcome, accepted, up>> /\ ClientOnly

\* The timer of a wait.
Timeout(c) ==
  /\ "timeout" \in faults
  /\ \/ /\ stage[c] \in {"registering", "joining", "rekeying", "rerequesting", "awaiting"}
        /\ Fail(c)
     \/ /\ stage[c] \in {"share", "deriving", "confirming"} /\ settled[c] = "no"
        /\ settled' = [settled EXCEPT ![c] = "timeout"]
        /\ UNCHANGED <<sid, key, cached, counters, stage, shut, outcome, accepted, up, down>>
        /\ ClientOnly
     \/ c = Receiver /\ UNCHANGED down /\ GiveUpRequest
     \/ stage[c] = "request" /\ round >= MaxAttempts - 1 /\ Fail(c)
     \/ /\ stage[c] = "ice" /\ Go(c, "paired")
        /\ UNCHANGED <<held, counters, shut, outcome, accepted, up, down>> /\ ClientOnly

\* The page is closed.
ClosePage(c) ==
  /\ "interrupt" \in faults /\ c \in browsers /\ stage[c] \notin {"start", "over"}
  /\ Vanish(c, "interrupted")

\* SIGINT or SIGTERM: onInterrupt's cleanup, then the operation ends with the socket.
Interrupt(c) ==
  /\ "interrupt" \in faults /\ c \notin browsers /\ stage[c] \notin {"start", "over"}
  /\ End(c, "interrupted")
  /\ UNCHANGED <<counters, accepted>> /\ ClientOnly

Command(c) ==
  \/ Lose(c) \/ Crash(c) \/ Joined(c) \/ PeerShare(c) \/ SendConfirm(c) \/ Settle(c) \/ Confirmed(c)
  \/ KeysFail(c) \/ IceConfig(c) \/ WaitFails(c) \/ WaitRefused(c) \/ SeesClose(c)
  \/ \E result \in {"done", "broken"} : Finish(c, result)

Recv ==
  \/ Command(Receiver)
  \/ StartReceiver \/ RegisterAgain \/ Registered \/ Rekey \/ Requests \/ Rerequest
  \/ Accept \/ Decline

SendCommand(c) ==
  \/ Command(c)
  \/ StartSender(c) \/ PairRequest(c) \/ Accepted(c) \/ Rejected(c)

Next ==
  \/ Recv \/ \E c \in Sender : SendCommand(c)
  \/ \E c \in Client : Serve(c) \/ PlanFails(c) \/ Unreachable(c) \/ Timeout(c)
                     \/ Interrupt(c) \/ ClosePage(c)
  \/ ExpireCode \/ ExpireRestore \/ ExpireSession

Spec == Init /\ [][Next]_vars

-----------------------------------------------------------------------------
(* Properties *)

Stage == {"start", "joining", "share", "deriving", "confirming", "sealing", "awaiting",
          "registering", "rekeying", "rerequesting", "request", "deciding", "ice",
          "paired", "over"}

Outcome == {"none", "done", "broken", "failed", "crashed", "refused", "declined",
            "interrupted"}

\* The types of the clients and of the server, and the bounds of the retry loops.
TypeOK ==
  /\ knows \subseteq Sender /\ faults \in Faults /\ browsers \in Browsers
  /\ stage \in [Client -> Stage] /\ outcome \in [Client -> Outcome]
  /\ sid \in [Client -> Sender \cup {None}]
  /\ settled \in [Client -> {"no", "good", "bad", "left", "refused", "timeout"}]
  /\ shut \subseteq Client /\ cached \subseteq Client /\ cut \subseteq Client
  /\ missed \subseteq Client
  /\ accepted \subseteq Sender
  /\ codes \in 0 .. MaxCodes /\ attempt \in 1 .. MaxAttempts
  /\ round \in 0 .. MaxAttempts - 1
  /\ waiting \in BOOLEAN /\ left \in 0 .. MaxAttempts
  /\ session \in Sender \cup {None} /\ (waiting => session = None)
  /\ seen \subseteq Client \X (RelayType)

\* Both sides of a session hold the same key before anything is asked or answered, and
\* what is asked or answered in a session is under the key its reader holds.
KeysAgree ==
  /\ stage[Receiver] \in {"request", "deciding", "ice", "paired"} =>
       sid[Receiver] \in knows /\ key[Receiver] = <<sid[Receiver], "shared">>
  /\ \A s \in Sender :
       stage[s] \in {"sealing", "awaiting", "ice", "paired"} => s \in knows /\ key[s] = <<s, "shared">>
  /\ \A c \in Client : \A i \in DOMAIN down[c] :
       LET m == down[c][i] IN
       m.type \in {"pair-request", "pair-accept", "pair-reject"} /\ m.sid = sid[c] => m.body = key[c]

\* A sender goes on to WebRTC only in a session that the receiver's user accepted, and
\* the user of one receive accepts once.
AcceptedOnce ==
  /\ \A s \in Sender : stage[s] \in {"ice", "paired"} => s \in accepted
  /\ Cardinality(accepted) <= 1

\* The clients never send what the relay's phases refuse in a live session.
PhasesRespected ==
  \A c \in Client : up[c] # <<>> =>
    LET m == Head(up[c]) IN
    m.type \in RelayType /\ InSession(c, m.sid) => RelayAllowed(c, m.type)

\* When nobody gives up, no timer fires and every sender has the words, a pairing that ends
\* ends as the users want it, however the messages are read.  The server refuses only a
\* sender that finds no waiting code.
NoSpuriousFailure ==
  faults \subseteq {"batch"} /\ knows = Sender =>
    /\ \A c \in Client : outcome[c] # "failed"
    /\ \A c \in accepted \cup {Receiver} : outcome[c] \notin {"crashed", "refused"}

\* A command that can go on only with a message.
Waits(c) == stage[c] \in DOMAIN WaitType \ {"deriving"} /\ ~Continuing(c)

\* Nobody waits for a message that will not come: when nothing is in flight and every
\* command waits, the senders have ended and the receiver has or waits for a sender.
\* The timers are not needed to get there, unless a command has lost messages that stood
\* behind another in one read: then they are what ends the waits.
NobodyStuck ==
  (missed = {} /\ \A c \in Client : /\ up[c] = <<>> /\ down[c] = <<>>
                                    /\ Waits(c) \/ stage[c] \in {"start", "over"})
    => /\ \A s \in Sender : stage[s] \in {"start", "over"}
       /\ stage[Receiver] \in {"start", "joining", "over"}

-----------------------------------------------------------------------------
(* A claim of the documentation the code does not keep *)

\* SECURITY.md: an invalid sender flow before the acceptance "must restore the receiver
\* code so one bad sender cannot burn it", and "invalid attempts must not strand the
\* receive flow": the receive command goes on while the code has attempts left.
BadSenderNotFatal == outcome[Receiver] \in {"failed", "crashed", "refused"} => left = 0
=============================================================================
