---------------------------- MODULE SignalWiring ----------------------------
(***************************************************************************)
(* From the authenticated acceptance to the open data channels: wireSignals *)
(* and what surrounds it in the commands of cli/index.ts and in            *)
(* sendFromBrowser and receiveInBrowser of web/main.ts, for a sender and a *)
(* receiver of either kind.  Offers, answers and ICE candidates are sealed, *)
(* relayed by the server, opened and applied to the peer connection.       *)
(*                                                                         *)
(* onSignal is asynchronous and not serialised: each frame starts a job,   *)
(* and jobs wait for the crypto and the peer connection independently.  A  *)
(* job is at "opening" (openSignal), "applying" (setRemoteDescription or   *)
(* addIceCandidate), "answering" (createAnswer, setLocalDescription),      *)
(* "sealing" (its answer) or "draining" (queued candidates).               *)
(*                                                                         *)
(* External: the peer connection, the socket, and the order in which the   *)
(* WebCrypto thread pool completes operations.                             *)
(***************************************************************************)
EXTENDS Naturals, Sequences, FiniteSets, SequencesExt

CONSTANTS
  MaxQueued,  \* MAX_QUEUED_ICE_CANDIDATES
  MaxEarly,   \* MAX_BUFFERED_SIGNAL_MESSAGES
  MaxRelayed, \* SIGNALING_MAX_ICE_CANDIDATES_PER_PEER
  Worlds      \* what the environment is like: a set of World

Side == {"sender", "receiver"}
Other(c) == IF c = "sender" THEN "receiver" ELSE "sender"
Label == {"control", "bulk"}

\* drop: the server ends the session; replay: a frame is relayed twice; badsig: a
\* signal does not open; rtc: a wait of the peer connection fails or times out;
\* apply: the peer connection rejects; seal: sealing rejects; interrupt: the user
\* stops a command; alien: the peer opens a channel nobody expects.
FaultKind == {"drop", "replay", "badsig", "rtc", "apply", "seal", "interrupt", "alien"}

\* cands: how many local candidates a side gathers.  ordered: seals end in the order
\* they began.  settles: operations pending at pc.close() reject (the WebRTC standard
\* lets them stay pending for ever).
World == [kind : [Side -> {"cli", "browser"}], cands : [Side -> Nat], ordered : BOOLEAN,
          settles : BOOLEAN, faults : SUBSET FaultKind]

ASSUME WiringAssumption ==
  /\ MaxQueued \in Nat /\ MaxEarly \in Nat /\ MaxRelayed \in Nat
  /\ Worlds \subseteq World

VARIABLES
  world,
  stage,   \* where a command is
  why,     \* how it ended
  wired,   \* wireSignals listens: not disposed
  early,   \* earlySignals of the signaling client
  queued,  \* queuedCandidates
  jobs,    \* the running onSignal calls
  seen,    \* the replay guard
  remote,  \* pc.remoteDescription is set
  local,   \* setLocalDescription is done
  added,   \* candidates handed to addIceCandidate, in order (history)
  pcOpen,  \* the peer connection is not closed
  emitted, \* local candidates gathered
  sealing, \* local signals being sealed, in the order begun
  sock,    \* the socket, as the client sees it
  linked,  \* the two peer connections are connected
  chans,   \* data channels the receiver has got
  up, down,\* frames from and to a client
  relay,   \* the session at the server: [live, offer, answer, count]
  replayed \* the environment has used its replay

vars == <<world, stage, why, wired, early, queued, jobs, seen, remote, local, added,
          pcOpen, emitted, sealing, sock, linked, chans, up, down, relay, replayed>>
wiring == <<wired, queued, jobs, seen, remote, added>>
ends == <<stage, why>>
transport == <<linked, chans>>
net == <<up, down, relay, replayed>>

Kind(c) == world.kind[c]
Fault(f) == f \in world.faults
Ended == {"over", "crashed"}

-----------------------------------------------------------------------------
(* Frames *)

Signal(kind, n) == [type |-> "signal", kind |-> kind, n |-> n, copy |-> 0]
Offer == Signal("offer", 0)
Answer == Signal("answer", 0)
Candidate(n) == Signal("candidate", n)
Plain(type) == [type |-> type]
Key(s) == <<s.kind, s.n>>

Init ==
  /\ world \in Worlds
  /\ stage = [c \in Side |-> "ice"] /\ why = [c \in Side |-> "none"]
  /\ wired = [c \in Side |-> FALSE]
  /\ early = [c \in Side |-> <<>>] /\ queued = [c \in Side |-> <<>>]
  /\ jobs = [c \in Side |-> {}] /\ seen = [c \in Side |-> {}]
  /\ remote = [c \in Side |-> FALSE] /\ local = [c \in Side |-> FALSE]
  /\ added = [c \in Side |-> <<>>]
  /\ pcOpen = [c \in Side |-> TRUE]
  /\ emitted = [c \in Side |-> 0] /\ sealing = [c \in Side |-> <<>>]
  /\ sock = [c \in Side |-> "open"]
  /\ linked = FALSE /\ chans = {}
  /\ up = [c \in Side |-> <<>>] /\ down = [c \in Side |-> <<>>]
  /\ relay = [live |-> TRUE, offer |-> FALSE, answer |-> FALSE, count |-> [c \in Side |-> 0]]
  /\ replayed = FALSE

-----------------------------------------------------------------------------
(* The client: how a command ends *)

\* signaling.send: nothing leaves a socket that is not open; the server does not
\* listen to the peers of a session it has ended.
Upward(c, frames) == IF sock[c] = "open" /\ relay.live THEN [up EXCEPT ![c] = @ \o frames] ELSE up

\* The finally of a command (after the wiring's fail, if it failed): a bye, the
\* wiring disposed, the peer and the socket closed.
Finish(c, how) ==
  /\ stage' = [stage EXCEPT ![c] = "over"] /\ why' = [why EXCEPT ![c] = how]
  /\ wired' = [wired EXCEPT ![c] = FALSE]
  /\ queued' = [queued EXCEPT ![c] = <<>>] /\ early' = [early EXCEPT ![c] = <<>>]
  /\ pcOpen' = [pcOpen EXCEPT ![c] = FALSE]
  /\ up' = Upward(c, <<Plain("bye"), Plain("close")>>)

\* fail of wireSignals: the peer connection is closed and the failure promise
\* rejects.  The command races it, except while the sender waits for createOffer
\* or setLocalDescription: then it goes on only if those settle.
Fail(c) ==
  IF stage[c] # "offering" \/ world.settles
  THEN Finish(c, "failed")
  ELSE /\ stage' = [stage EXCEPT ![c] = "hung"]
       /\ wired' = [wired EXCEPT ![c] = FALSE]
       /\ queued' = [queued EXCEPT ![c] = <<>>]
       /\ pcOpen' = [pcOpen EXCEPT ![c] = FALSE]
       /\ up' = Upward(c, <<Plain("bye")>>)
       /\ UNCHANGED <<why, early>>

\* dispose of wireSignals, once the transfer can begin.
Dispose(c) ==
  /\ wired' = [wired EXCEPT ![c] = FALSE]
  /\ queued' = [queued EXCEPT ![c] = <<>>]

\* An `error' frame at the CLI: emitted without a listener, so the process dies.
Crash(c) ==
  /\ stage' = [stage EXCEPT ![c] = "crashed"] /\ why' = [why EXCEPT ![c] = "crashed"]
  /\ wired' = [wired EXCEPT ![c] = FALSE]
  /\ queued' = [queued EXCEPT ![c] = <<>>] /\ early' = [early EXCEPT ![c] = <<>>]
  /\ pcOpen' = [pcOpen EXCEPT ![c] = FALSE]
  /\ up' = Upward(c, <<Plain("close")>>)

failing == <<stage, why, wired, queued, early, pcOpen, up>>

-----------------------------------------------------------------------------
(* Setting up *)

\* getIceServersAfterAccept is done: the peer is created, and wireSignals listens
\* and starts on the signals that came before it, unless the socket is closed.
Wire(c) ==
  /\ stage[c] = "ice"
  /\ IF sock[c] # "open"
     THEN Finish(c, "failed") /\ UNCHANGED jobs
     ELSE /\ stage' = [stage EXCEPT ![c] = IF c = "sender" THEN "offering" ELSE "linking"]
          /\ wired' = [wired EXCEPT ![c] = TRUE]
          /\ jobs' = [jobs EXCEPT ![c] = {[sig |-> s, at |-> "opening"] : s \in Range(early[c])}]
          /\ early' = [early EXCEPT ![c] = <<>>]
          /\ UNCHANGED <<why, queued, pcOpen, up>>
  /\ UNCHANGED <<world, seen, remote, local, added, emitted, sealing, sock, transport, down,
                 relay, replayed>>

\* The sender's createOffer and setLocalDescription; the offer is being sealed.
OfferReady ==
  /\ stage["sender"] = "offering"
  /\ stage' = [stage EXCEPT !["sender"] = "linking"]
  /\ local' = [local EXCEPT !["sender"] = TRUE]
  /\ sealing' = [sealing EXCEPT !["sender"] = Append(@, Offer)]
  /\ UNCHANGED <<world, why, early, wiring, pcOpen, emitted, sock, transport, net>>

\* onicecandidate is handled: in the browser until the transfer begins
\* (wireBrowserIceCandidates is undone), at the CLI until the peer is closed (createPeer).
IceWired(c) == stage[c] = "linking" \/ (Kind(c) = "cli" /\ stage[c] = "moving")

\* External: a local candidate is found; its seal begins.
Gather(c) ==
  /\ local[c] /\ pcOpen[c] /\ emitted[c] < world.cands[c] /\ IceWired(c)
  /\ emitted' = [emitted EXCEPT ![c] = @ + 1]
  /\ sealing' = [sealing EXCEPT ![c] = Append(@, Candidate(emitted[c] + 1))]
  /\ UNCHANGED <<world, ends, early, wiring, local, pcOpen, sock, transport, net>>

\* The answer's seal is done.  A closed socket is an error at the CLI; the browser
\* ignores it (safeBrowserSend) and goes on.
AnswerSealed(c, s) ==
  LET j == CHOOSE j \in jobs[c] : j.at = "sealing" IN
  IF ~wired[c]
  THEN jobs' = [jobs EXCEPT ![c] = @ \ {j}] /\ UNCHANGED <<failing, sock>>
  ELSE IF sock[c] # "open" /\ Kind(c) = "cli"
  THEN Fail(c) /\ jobs' = [jobs EXCEPT ![c] = @ \ {j}] /\ UNCHANGED sock
  ELSE /\ jobs' = [jobs EXCEPT ![c] = (@ \ {j}) \cup {[j EXCEPT !.at = "draining"]}]
       /\ up' = Upward(c, <<s>>)
       /\ UNCHANGED <<stage, why, wired, queued, early, pcOpen, sock>>

\* A candidate's seal is done: it is sent.  The CLI closes the peer when that fails.
CandidateSealed(c, s) ==
  /\ IF IceWired(c) /\ Kind(c) = "cli" /\ sock[c] # "open"
     THEN pcOpen' = [pcOpen EXCEPT ![c] = FALSE] /\ UNCHANGED up
     ELSE /\ up' = IF IceWired(c) THEN Upward(c, <<s>>) ELSE up
          /\ UNCHANGED pcOpen
  /\ UNCHANGED <<stage, why, wired, queued, early, jobs, sock>>

\* The offer's seal is done: send throws on a closed socket.
OfferSealed(c, s) ==
  /\ IF stage[c] = "linking" /\ sock[c] # "open"
     THEN Finish(c, "failed")
     ELSE /\ up' = IF stage[c] = "linking" THEN Upward(c, <<s>>) ELSE up
          /\ UNCHANGED <<stage, why, wired, queued, early, pcOpen>>
  /\ UNCHANGED <<jobs, sock>>

\* One seal is done; which one is the thread pool's choice unless the world is ordered.
Sealed(c) ==
  \E i \in 1..Len(sealing[c]) :
    LET s == sealing[c][i] IN
    /\ world.ordered => i = 1
    /\ sealing' = [sealing EXCEPT ![c] = RemoveAt(@, i)]
    /\ CASE s.kind = "offer" -> OfferSealed(c, s)
         [] s.kind = "answer" -> AnswerSealed(c, s)
         [] s.kind = "candidate" -> CandidateSealed(c, s)
    /\ UNCHANGED <<world, seen, remote, local, added, emitted, transport, down, relay, replayed>>

\* A candidate cannot be sealed: the CLI closes its peer, the browser its socket.
SealFails(c) ==
  /\ Fault("seal") /\ stage[c] \notin Ended
  /\ \E i \in 1..Len(sealing[c]) :
       /\ sealing[c][i].kind = "candidate"
       /\ sealing' = [sealing EXCEPT ![c] = RemoveAt(@, i)]
  /\ IF Kind(c) = "cli"
     THEN pcOpen' = [pcOpen EXCEPT ![c] = FALSE] /\ UNCHANGED <<sock, up>>
     ELSE /\ sock' = [sock EXCEPT ![c] = IF @ = "open" THEN "closing" ELSE @]
          /\ up' = Upward(c, <<Plain("close")>>)
          /\ UNCHANGED pcOpen
  /\ UNCHANGED <<world, ends, early, wiring, local, emitted, transport, down, relay, replayed>>

-----------------------------------------------------------------------------
(* onSignal *)

\* The job goes on at its next await, or ends.
Continue(c, j, at) == jobs' = [jobs EXCEPT ![c] = (@ \ {j}) \cup {[j EXCEPT !.at = at]}]
Return(c, j) == jobs' = [jobs EXCEPT ![c] = @ \ {j}]

\* Mutant: candidates are not remembered.
AcceptsDescriptions(c, s) ==
  CASE s.kind = "offer" -> c = "receiver" /\ Key(s) \notin seen[c]
    [] s.kind = "answer" -> c = "sender" /\ Key(s) \notin seen[c]
    [] OTHER -> TRUE

\* WebRtcSignalReplayGuard.accept: one offer or answer, in the right direction, and no
\* candidate twice.
Accepts(c, s) ==
  /\ s.kind = "offer" => c = "receiver"
  /\ s.kind = "answer" => c = "sender"
  /\ Key(s) \notin seen[c]

\* openSignal is done and the signal is authentic: it is applied, or, a candidate
\* before the remote description, queued.
SignalOpened(c, j) ==
  LET s == j.sig IN
  /\ j.at = "opening"
  /\ IF ~wired[c]
     THEN Return(c, j) /\ UNCHANGED <<failing, seen, added>>
     ELSE IF \/ ~Accepts(c, s)
             \/ s.kind = "candidate" /\ ~remote[c] /\ Len(queued[c]) >= MaxQueued
     THEN Return(c, j) /\ Fail(c) /\ UNCHANGED <<seen, added>>
     ELSE /\ seen' = [seen EXCEPT ![c] = @ \cup {Key(s)}]
          /\ IF s.kind = "candidate" /\ ~remote[c]
             THEN /\ queued' = [queued EXCEPT ![c] = Append(@, s.n)]
                  /\ Return(c, j) /\ UNCHANGED added
             ELSE /\ added' = IF s.kind = "candidate" THEN [added EXCEPT ![c] = Append(@, s.n)]
                              ELSE added
                  /\ Continue(c, j, "applying") /\ UNCHANGED queued
          /\ UNCHANGED <<stage, why, wired, early, pcOpen, up>>
  /\ UNCHANGED <<world, remote, local, emitted, sealing, sock, transport, down, relay, replayed>>

\* openSignal or the authentication tag rejects the signal.
SignalRejected(c, j) ==
  /\ Fault("badsig") /\ j.at = "opening" /\ wired[c]
  /\ Return(c, j) /\ Fail(c)
  /\ UNCHANGED <<world, seen, remote, local, added, emitted, sealing, sock, transport, down,
                 relay, replayed>>

\* The peer connection has applied the signal.  An offer is answered; then, at the CLI
\* after every signal, in the browser after a description, the queue is drained.
SignalApplied(c, j) ==
  LET description == j.sig.kind # "candidate" IN
  /\ j.at = "applying" /\ pcOpen[c]
  /\ remote' = [remote EXCEPT ![c] = @ \/ description]
  /\ CASE ~wired[c] -> Return(c, j)
       [] wired[c] /\ j.sig.kind = "offer" -> Continue(c, j, "answering")
       [] wired[c] /\ j.sig.kind = "answer" -> Continue(c, j, "draining")
       [] wired[c] /\ ~description ->
            IF Kind(c) = "cli" THEN Continue(c, j, "draining") ELSE Return(c, j)
  /\ UNCHANGED <<world, failing, seen, local, added, emitted, sealing, sock, transport, down,
                 relay, replayed>>

\* The peer connection refuses a signal or an answer.
SignalRefused(c, j) ==
  /\ Fault("apply") /\ j.at \in {"applying", "answering"} /\ pcOpen[c]
  /\ Return(c, j)
  /\ IF wired[c] THEN Fail(c) ELSE UNCHANGED failing
  /\ UNCHANGED <<world, seen, remote, local, added, emitted, sealing, sock, transport, down,
                 relay, replayed>>

\* createAnswer and setLocalDescription are done: the answer is sealed.
AnswerReady(c, j) ==
  /\ j.at = "answering" /\ pcOpen[c]
  /\ IF ~wired[c]
     THEN Return(c, j) /\ UNCHANGED <<local, sealing>>
     ELSE /\ local' = [local EXCEPT ![c] = TRUE]
          /\ sealing' = [sealing EXCEPT ![c] = Append(@, Answer)]
          /\ Continue(c, j, "sealing")
  /\ UNCHANGED <<world, failing, seen, remote, added, emitted, sock, transport, down, relay,
                 replayed>>

\* One turn of the drain loop.
Drain(c, j) ==
  /\ j.at = "draining"
  /\ IF wired[c] /\ queued[c] # <<>>
     THEN /\ added' = [added EXCEPT ![c] = Append(@, Head(queued[c]))]
          /\ queued' = [queued EXCEPT ![c] = Tail(@)]
          /\ UNCHANGED jobs
     ELSE Return(c, j) /\ UNCHANGED <<added, queued>>
  /\ UNCHANGED <<world, stage, why, wired, early, pcOpen, up, seen, remote, local, emitted,
                 sealing, sock, transport, down, relay, replayed>>

-----------------------------------------------------------------------------
(* Frames from the server *)

Received(c, type) == down[c] # <<>> /\ Head(down[c]).type = type
Consume(c) == down' = [down EXCEPT ![c] = Tail(@)]

\* Mutant: one signal more than the limit is kept.
EarlyFitsOneMore(c) == Len(early[c]) <= MaxEarly

\* SignalMessageQueue.push accepts another message.
EarlyFits(c) == Len(early[c]) < MaxEarly

\* A signal: to the wiring, or kept for it.  One too many closes the socket.
ReceiveSignal(c) ==
  LET heard == stage[c] \notin Ended /\ sock[c] # "closed" IN
  /\ Received(c, "signal") /\ Consume(c)
  /\ CASE ~heard -> UNCHANGED <<jobs, early, sock, up>>
       [] heard /\ wired[c] ->
            /\ jobs' = [jobs EXCEPT ![c] = @ \cup {[sig |-> Head(down[c]), at |-> "opening"]}]
            /\ UNCHANGED <<early, sock, up>>
       [] heard /\ ~wired[c] /\ EarlyFits(c) ->
            /\ early' = [early EXCEPT ![c] = Append(@, Head(down[c]))]
            /\ UNCHANGED <<jobs, sock, up>>
       [] OTHER ->
            /\ sock' = [sock EXCEPT ![c] = "closing"]
            /\ up' = Upward(c, <<Plain("close")>>)
            /\ UNCHANGED <<jobs, early>>
  /\ UNCHANGED <<world, ends, wired, queued, seen, remote, added, local, pcOpen, emitted, sealing,
                 transport, relay, replayed>>

\* The server refused a frame: fatal at the CLI, a failure of the browser's wiring.
ReceiveError(c) ==
  /\ Received(c, "error") /\ Consume(c)
  /\ CASE stage[c] \notin Ended /\ Kind(c) = "cli" -> Crash(c)
       [] stage[c] \notin Ended /\ Kind(c) = "browser" /\ wired[c] -> Fail(c)
       [] OTHER -> UNCHANGED failing
  /\ UNCHANGED <<world, jobs, seen, remote, local, added, emitted, sealing, sock, transport, relay,
                 replayed>>

\* Mutant: the wiring does not listen to the socket's end.
ReceiveCloseUnheard(c) ==
  /\ Received(c, "close") /\ Consume(c)
  /\ sock' = [sock EXCEPT ![c] = "closed"]
  /\ UNCHANGED <<world, failing, jobs, seen, remote, local, added, emitted, sealing, transport,
                 relay, replayed>>

\* The socket is closed.  Only the wiring takes it for a failure: a transfer goes on.
ReceiveClose(c) ==
  /\ Received(c, "close") /\ Consume(c)
  /\ sock' = [sock EXCEPT ![c] = "closed"]
  /\ IF wired[c] THEN Fail(c) ELSE UNCHANGED failing
  /\ UNCHANGED <<world, jobs, seen, remote, local, added, emitted, sealing, transport, relay,
                 replayed>>

-----------------------------------------------------------------------------
(* The server *)

\* Mutant: candidates wait for the answer instead of the offer.
RelayAllowedAfterAnswer(c, s) ==
  CASE s.kind = "offer" -> ~relay.offer
    [] s.kind = "answer" -> relay.offer /\ ~relay.answer
    [] s.kind = "candidate" -> relay.answer /\ relay.count[c] < MaxRelayed

\* relayAllowedForPhase, for the signals of an accepted session.
RelayAllowed(c, s) ==
  CASE s.kind = "offer" -> ~relay.offer
    [] s.kind = "answer" -> relay.offer /\ ~relay.answer
    [] s.kind = "candidate" -> relay.offer /\ relay.count[c] < MaxRelayed

\* applyRelayPhase.
ApplyRelayPhase(c, s) ==
  [relay EXCEPT !.offer = @ \/ s.kind = "offer",
                !.answer = @ \/ s.kind = "answer",
                !.count[c] = IF s.kind = "candidate" THEN @ + 1 ELSE @]

\* relay: the signal reaches the other side, or the client gets an error.
RelaySignal(c) ==
  /\ up[c] # <<>> /\ Head(up[c]).type = "signal"
  /\ up' = [up EXCEPT ![c] = Tail(@)]
  /\ IF RelayAllowed(c, Head(up[c]))
     THEN /\ down' = [down EXCEPT ![Other(c)] = Append(@, Head(up[c]))]
          /\ relay' = ApplyRelayPhase(c, Head(up[c]))
     ELSE /\ down' = [down EXCEPT ![c] = Append(@, Plain("error"))]
          /\ UNCHANGED relay
  /\ UNCHANGED <<world, ends, early, wiring, local, pcOpen, emitted, sealing, sock, transport,
                 replayed>>

\* endSession: both sockets are closed, and neither is listened to any more.
EndSession ==
  /\ relay.live
  /\ relay' = [relay EXCEPT !.live = FALSE]
  /\ up' = [c \in Side |-> <<>>]
  /\ down' = [c \in Side |-> Append(down[c], Plain("close"))]
  /\ UNCHANGED <<world, ends, early, wiring, local, pcOpen, emitted, sealing, sock, transport,
                 replayed>>

\* A bye, or a client's socket is gone (cleanupPeer).
PeerLeaves(c) == up[c] # <<>> /\ Head(up[c]).type \in {"bye", "close"} /\ EndSession

-----------------------------------------------------------------------------
(* The transport *)

Alive(c) == stage[c] \in {"linking", "moving"} /\ pcOpen[c]

\* External: both descriptions are known on both sides and one path was found.
Link ==
  /\ ~linked /\ \A c \in Side : Alive(c) /\ remote[c] /\ local[c]
  /\ \E c \in Side : added[c] # <<>>
  /\ linked' = TRUE
  /\ UNCHANGED <<world, ends, early, wiring, local, pcOpen, emitted, sealing, sock, chans, net>>

\* waitOpen of both channels and waitConnected: the sender begins to transfer.
SenderConnected ==
  /\ linked /\ stage["sender"] = "linking" /\ pcOpen["sender"]
  /\ stage' = [stage EXCEPT !["sender"] = "moving"]
  /\ Dispose("sender")
  /\ UNCHANGED <<world, why, early, jobs, seen, remote, added, local, pcOpen, emitted, sealing,
                 sock, transport, net>>

\* waitForIncomingChannels collects the two channels; then the receiver transfers.
ChannelArrives(l) ==
  /\ linked /\ stage["receiver"] = "linking" /\ pcOpen["receiver"] /\ l \notin chans
  /\ chans' = chans \cup {l}
  /\ IF chans' = Label
     THEN stage' = [stage EXCEPT !["receiver"] = "moving"] /\ Dispose("receiver")
     ELSE UNCHANGED <<stage, wired, queued>>
  /\ UNCHANGED <<world, why, early, jobs, seen, remote, added, local, pcOpen, emitted, sealing,
                 sock, linked, net>>

\* A channel with another label or other parameters, or one that is there already.
AlienChannel ==
  /\ Fault("alien") /\ linked /\ stage["receiver"] = "linking" /\ pcOpen["receiver"]
  /\ Finish("receiver", "failed")
  /\ UNCHANGED <<world, jobs, seen, remote, local, added, emitted, sealing, sock, transport, down,
                 relay, replayed>>

\* waitConnected, the channel waits or the transfer see that the connection is gone, or
\* run into their timeouts: this side's or the other's peer is closed, or (rtc) the
\* connection failed or never came up.
ConnectionLost(c) ==
  /\ stage[c] \in {"linking", "moving"}
  /\ \/ ~pcOpen[c]
     \/ linked /\ ~pcOpen[Other(c)] /\ why[Other(c)] # "complete"
     \/ Fault("rtc")
  /\ Finish(c, "failed")
  /\ UNCHANGED <<world, jobs, seen, remote, local, added, emitted, sealing, sock, transport, down,
                 relay, replayed>>

\* A transfer's end needs both sides; each says bye.
Complete(c) ==
  /\ stage[c] = "moving" /\ pcOpen[c]
  /\ \/ stage[Other(c)] = "moving" /\ pcOpen[Other(c)]
     \/ why[Other(c)] = "complete"
  /\ Finish(c, "complete")
  /\ UNCHANGED <<world, jobs, seen, remote, local, added, emitted, sealing, sock, transport, down,
                 relay, replayed>>

-----------------------------------------------------------------------------
(* The environment *)

Interrupt(c) ==
  /\ Fault("interrupt") /\ stage[c] \notin Ended
  /\ Finish(c, "cancelled")
  /\ UNCHANGED <<world, jobs, seen, remote, local, added, emitted, sealing, sock, transport, down,
                 relay, replayed>>

\* The session expires, or the server restarts.
ServerDrops == Fault("drop") /\ EndSession

Replay(c) ==
  /\ Fault("replay") /\ ~replayed /\ Received(c, "signal") /\ relay.live
  /\ replayed' = TRUE
  /\ down' = [down EXCEPT ![c] = Append(@, [Head(@) EXCEPT !.copy = 1])]
  /\ UNCHANGED <<world, ends, early, wiring, local, pcOpen, emitted, sealing, sock, transport, up,
                 relay>>

Job(c) ==
  \E j \in jobs[c] :
    \/ SignalOpened(c, j) \/ SignalRejected(c, j) \/ SignalApplied(c, j)
    \/ SignalRefused(c, j) \/ AnswerReady(c, j) \/ Drain(c, j)

Receive(c) == ReceiveSignal(c) \/ ReceiveError(c) \/ ReceiveClose(c)

Faulty(c) == SealFails(c) \/ Interrupt(c) \/ Replay(c)

\* What happens by itself.
Progress ==
  \/ OfferReady \/ Link \/ SenderConnected
  \/ \E l \in Label : ChannelArrives(l)
  \/ \E c \in Side :
       \/ Wire(c) \/ Gather(c) \/ Sealed(c) \/ Job(c) \/ Receive(c)
       \/ RelaySignal(c) \/ PeerLeaves(c) \/ ConnectionLost(c) \/ Complete(c)

Next == Progress \/ ServerDrops \/ AlienChannel \/ \E c \in Side : Faulty(c)

Spec == Init /\ [][Next]_vars

\* Timers, I/O and the microtask queue do not starve a step; no fault is fair.
FairSpec == Spec /\ WF_vars(Progress)

-----------------------------------------------------------------------------
(* Properties *)

Frame == [type : {"signal"}, kind : {"offer", "answer", "candidate"}, n : Nat, copy : {0, 1}]
           \cup [type : {"bye", "close", "error"}]

TypeOK ==
  /\ world \in World
  /\ stage \in [Side -> {"ice", "offering", "linking", "moving", "hung"} \cup Ended]
  /\ why \in [Side -> {"none", "failed", "crashed", "cancelled", "complete"}]
  /\ wired \in [Side -> BOOLEAN] /\ remote \in [Side -> BOOLEAN] /\ local \in [Side -> BOOLEAN]
  /\ pcOpen \in [Side -> BOOLEAN] /\ linked \in BOOLEAN /\ replayed \in BOOLEAN
  /\ sock \in [Side -> {"open", "closing", "closed"}] /\ chans \subseteq Label
  /\ \A c \in Side :
       /\ emitted[c] \in 0..world.cands[c]
       /\ queued[c] \in Seq(1..world.cands[Other(c)]) /\ Len(queued[c]) <= MaxQueued
       /\ added[c] \in Seq(1..world.cands[Other(c)])
       /\ early[c] \in Seq(Frame) /\ Len(early[c]) <= MaxEarly
       /\ sealing[c] \in Seq(Frame) /\ up[c] \in Seq(Frame) /\ down[c] \in Seq(Frame)
       /\ \A j \in jobs[c] : j.at \in {"opening", "applying", "answering", "sealing", "draining"}

\* Nothing that could still bring a candidate to c.
Idle(c) == jobs[c] = {} /\ early[c] = <<>> /\ ~\E i \in DOMAIN down[c] : down[c][i].type = "signal"

\* wireSignals hands every candidate the server relayed to the peer connection exactly
\* once and only after the remote description, whatever the order in which frames are
\* opened: candidates before, during and after setRemoteDescription, those that came
\* before the wiring, and frames relayed twice.
CandidatesDelivered ==
  \A c \in Side :
    /\ Cardinality(Range(added[c])) = Len(added[c])
    /\ added[c] # <<>> => remote[c]
    /\ wired[c] /\ remote[c] /\ Idle(c) => Len(added[c]) = relay.count[Other(c)]

\* When nothing fails and the seals keep their order, both sides reach the transfer: the
\* wiring, its queue limits, the replay guard and the server's phase rules never stop a
\* connection by themselves (cli/index.ts and web/main.ts, wireSignals).
SetupSucceeds ==
  world.faults = {} /\ world.ordered
    ~> chans = Label /\ stage["sender"] \in {"moving"} \cup Ended

\* A side that fails, is interrupted, crashes or completes never leaves the other one
\* behind: it learns from the socket or from the connection, without its own user.
EndSpreads ==
  \A c \in Side : world.settles /\ stage[c] \in Ended ~> stage[Other(c)] \in Ended

\* SECURITY.md 255: once the channels are open, server expiry, idle closes or broker
\* restarts cannot abort a healthy transfer.
TransferOutlivesSignaling ==
  world.faults \subseteq {"drop"} /\ (\A c \in Side : stage[c] = "moving")
    => \A c \in Side : pcOpen[c]
=============================================================================
