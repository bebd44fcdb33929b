# p2p-transfer: a TLA+ verification project

p2p-transfer sends files between two people who share a short code. A signaling
server introduces the two peers, they agree on a key from the code (a PAKE),
open a WebRTC connection and send the files, encrypted end to end, over its data
channels. This directory holds TLA+ models of the parts of that program whose
correctness depends on the order in which things happen, the TLC runs that check
them on small instances, and TLAPS proofs that hold for every value of the
constants. Paths below are relative to the repository's `src/`; the release scripts are
in `scripts/` beside it.

## 1. Inventory

| Component | Source | State | Operations | Module |
|---|---|---|---|---|
| Signaling registry and sessions | `server/index.ts`, `policy.ts`, `waiting.ts`, `prepair-attempts.ts`, `session-expiry.ts`, `capacity.ts` | `codes`, `sessions`, `activeConnections`, one `Peer` object per WebSocket | `register`, `connect`, `relay`, `bye`, socket events, expiry, heartbeat, shutdown | `SignalingServer` |
| File transfer (CLI) | `cli/transfer.ts`, `shared/control-waiter.ts`, `shared/chunks.ts`, `shared/transfer.ts` | sender position and acks; receive queue, `ReceiveState` per file, partial and published files | `sendFiles`, `receiveFiles`, finalize, publish, cleanup | `FileTransfer`, `FileDelivery` |
| Rate limiting | `server/rate-limit.ts` | timestamps per address | hit, prune | `RateLimit`, used by `HttpServer`; refusals in `SignalingServer` |
| Static asset serving | `server/index.ts` 940-1065 | in-flight byte budget | serve, reserve, release | `HttpServer` |
| Pairing | `cli/secure.ts`, `shared/security.ts`, `web/main.ts` 311-476, 1615-1840 | PAKE state, session keys, retries | pake, confirm, decision | `Pairing` (ideal PAKE) |
| CLI commands | `cli/index.ts`, `cli/interrupt.ts` | session, keys, retries | `send`, `recv`, interrupt | `Pairing` up to the acceptance, `SignalWiring` up to the channels, `PeerClose` of `FileTransfer` |
| Signaling client | `cli/signaling.ts`, `BrowserSignaling` in `web/main.ts` | pending waits, early signals | connect, send, wait, close | `Pairing`; the buffer of early signals in `SignalWiring` |
| Signal wiring | `wireSignals` in `cli/index.ts` and `web/main.ts`, `shared/signal-replay.ts`, `signal-queue.ts` | queued candidates, seen signals, running `onSignal` calls | offer, answer, candidate | `SignalWiring` |
| WebRTC peer | `cli/rtc.ts` | a peer connection, local candidates | create, handle a signal, wait, close | `SignalWiring`; its channels in `FileTransfer` |
| Output files | `cli/files.ts` | directory contents, resume secret | reserve, resume, publish, remove | steps of `FileTransfer` |
| Browser transfer | `web/main.ts` 478-1230 | the transfer again, over blobs or a folder | `sendBrowserFiles`, `receiveBrowserFiles` | `BrowserTransfer` |
| Browser resume state | `web/main.ts` 2430-2830, `web/file-system.ts` | registry and lookup key in IndexedDB, partials in a folder | remember, find, forget, prune, clear | `BrowserResume` |
| Release workflow | `scripts/*.mjs`, `.github/workflows/release.yml` | the tag, npm, docker tags, the GitHub release | tag, verify, publish, promote, release, re-run | `Release` |
| Release controls | `scripts/configure-github-release-controls.mjs`, `check-release-readiness.mjs` | repository settings | configure, verify, check | `ReleaseControls` |
| The page's elements, HTTP endpoints, headers, configuration, asset integrity, shared string checks, dependency checks | see `PROJECT.json` | none that the rest depends on | pure functions, presentation | not modelled |

**Interactions.** A client talks to the server over one WebSocket; the server
relays between the two members of a session and answers with lifecycle messages
(`registered`, `peer-joined`, `peer-left`). Once the peers are connected the
server is out of the picture: `sendFiles` and `receiveFiles` share three ordered
streams (control and bulk towards the receiver, control back) that are not
ordered with respect to each other, and a connection either side may close.

**What is hard here.** The server is single threaded, but its `send` may find a
full socket buffer and clean the peer up *inside* the handler that is using the
peer's session; a handler's next line then works on a session that was restored,
ended or deleted under it. The transfer is single threaded too, but every
`await` lets a channel close, a timer or an abort in, and the receiver's cleanup
runs while a task of its queue is still publishing a file. The handler of WebRTC
signals is asynchronous and not serialised. The browser's registry is shared by all
tabs and has no transaction that spans a read and a write. A release is a dozen
requests to stores that others change too, any of which may fail after it was
carried out. A command hears a server message only while it waits for one, and there are three parties: what a
client still believes of a session may be two sessions old. `PROJECT.json` lists
these under `hazards`, each at its line with the properties that cover it.

**What makes the parts correct.**
Registry: the two tables and the connections agree after every callback; a
client's view agrees with the server's; a code's lease is never renewed; a
session that ends ends for both peers; nothing outlives its deadline.
Transfer: the sender hears success only when every file is published and
verified; a failed receive takes everything back; without faults no
interleaving makes it fail; whatever fails, both sides end.
HTTP: a limiter that keeps a few times decides as if it kept all of them; the
bodies in memory are covered by what is reserved, however many of its ends a
response meets.
Pairing: keys agree before anything is asked; a sender goes on only in the
session the receiver's user accepted; the clients stay within the phases the
relay allows; nobody waits for a message that will not come, unless a read lost it.
Wiring: every relayed candidate is applied once and not before the remote
description; a set-up without faults succeeds; an end of one side reaches the other.
Browser: a completed receive is never taken back and a failed one leaves nothing
unaccounted for; a kept partial can be found again; no state of the stores makes a
page refuse for good.
Release: everything public under a version comes from one commit and never
changes; failed jobs can be run again to the end.

## 2. Plan

In order of importance:

1. `SignalingServer` with its proofs (done).
2. `FileDelivery` (abstract) and `FileTransfer` (detailed, refines it) (done).
3. `FileTransferProofs`: the invariants and the refinement for every number and
   size of files (done).
4. `RateLimit`: the truncated window of `rate-limit.ts`, and `HttpServer`: the
   limiters against a full history, the byte reservation across the awaits of
   `serveStatic` and the events of a client that leaves (done).
5. `Pairing`: the commands `recv` and `send` up to the acceptance, with retries,
   timeouts and interrupts, over an abstract server with one code (done).
6. `SignalWiring`: `wireSignals`, candidates around the asynchronous remote
   description, the replay guard and the buffer of early signals (done).
7. `BrowserTransfer`: `sendBrowserFiles` and `receiveBrowserFiles`, and
   `BrowserResume`: the resume registry with two tabs (done).
8. `Pairing` with pages on either side (done).
9. `ReleaseControls` and `Release`: the scripts that publish a version (done).
10. `OutputFiles`: two receivers in one directory (open).

The theorems are in section 12. Every invariant the passing runs check is proved; the
liveness properties are not (section 12 says why).

## 3. SignalingServer

One action is one Node callback: a WebSocket event, one client message, one
timer. Each handler is written as a function on a record of the whole state
(`Step(room)` reads the variables, `Become` writes them back), because a handler
calls others in the middle: `Send` may call `CleanupPeer`, which may call
`RestoreWaitingReceiver`, which sends again. `room` is the environment's choice
of how many messages each socket takes before it reports backpressure.

Correspondence with the code:

* `codes[c]` and `sessions[i]` are the maps; `ttl` is the time left to a deadline
  in ticks (`expiresAt > now` is `ttl > 0`), `remaining` the pre-pair attempts
  left, `seen` the phase flags of `policy.ts`. The per-connection variables are
  the fields of `Peer`; `told` is the last lifecycle message a client received
  and exists for `ClientViewAgrees`.
* A nested send after a session was deleted can only drop the failing peer's
  waiting code: `cleanupPeer` finds no session. `SendLast` is `send` at those
  places, which keeps the recursion finite without a RECURSIVE operator.
* Errors that change nothing else (rates, protocol version, invalid ids, unknown
  session) are one action, `Refused`. A rate may be exceeded at any time.
* Two early returns of `connect` (one's own code; no attempts left that could be
  restored) have no action: the state that would reach them is excluded by
  `CodesLinked`, which is proved.
* The expiry callback is one step per entry, which also allows other callbacks
  between two entries: more behaviours than the code has, never fewer.
* The grace timer after `ws.close` is the fairness of `CloseEvent`. A ping that
  throws is `HeartbeatError`.
* `Shutdown` stops the timers and closes the sockets; expired entries stay, as in
  the code.

Bounds: `MaxSid` session ids, `MaxSends` = 5 messages to one peer in one handler
(the most any handler sends, so larger rooms add nothing), `MaxSendFailures`
sockets that fail inside one handler (2 covers both members of a session), and
`Pinged` connections for which the heartbeat is modelled. Every connection is a
new `Peer` and is used once.

| Run | Instance | Shows |
|---|---|---|
| `server_pairing` | 3 connections, 1 code, 2 sessions, 2 failing sockets | `RegistryConsistent`, `ClientViewAgrees`, `LeaseNeverRenewed`, `SessionEndsForBoth` with any socket failing inside any handler, a second sender competing, and a receiver restored once with one attempt left |
| `server_capacity` | 2 codes for 1 place, 1 session, an address limited to 2 of 3 connections | `TypeOK`, `ConnectionsCounted` at the limits |
| `server_live` | 2 connections, heartbeat, fair timers | `SessionsEnd`, `CodesEnd`, `ConfirmedBeforeSignaling` |

Fairness (`FairSpec`, only in `server_live`): the clock ticks, a closing socket
gets its `close` event, the expiry interval visits what is due. No client is
assumed to act, so `SessionsEnd` says that silent clients hold nothing forever.
It is written `[]<>~Due \/ []<><<A>>_vars`, which is weak fairness of an action
that is enabled exactly when `Due`.

Peers (and codes, where two are used) are interchangeable: no definition names
one, so symmetry is sound for the invariants and action properties; the liveness
run uses none.

### Proofs

For all sets of connections, codes and addresses and all limits, whichever sockets fail
inside a handler, `SignalingServerProofs` proves

* `TypeCorrect` and `RegistryAlwaysConsistent`: `TypeOK` and `RegistryConsistent`;
* `ConnectionsAlwaysCounted`: `ConnectionsCounted`;
* `SignalingOnlyConfirmed`: `ConfirmedBeforeSignaling`;
* `ClientViewAlwaysAgrees`: `ClientViewAgrees`;
* `LeaseIsNeverRenewed` and `SessionsEndForBoth`: the action properties
  `LeaseNeverRenewed` and `SessionEndsForBoth`.

The inductive invariant of the registry is `Inv == TypeOK /\ RegistryConsistent`; the
three parts of `RegistryConsistent` need each other (a session is safe to delete only
because both members name it; a code is safe to restore only because its receiver is in
no session). A handler is a composition of functions on records, so the argument goes
along the same lines: a predicate on records says that a record is well typed and linked
*except* at the peers a handler has already detached, one lemma per helper says what it
preserves, and each action composes the lemmas. Sends and closes are "quiet": they only
close sockets and free codes, and preserve consistency wherever they occur.

Counts and phases use `Ledger`: `Kept`, a statement about a record that every operator
preserves by itself (each address is charged for the connections it holds, a session's
members are accepted connections, its phase flags are in order), and `Within`, that no
address is over its limit.

What a callback owes to the clients is stated between the record it starts from and the
one it leaves (`Settles`): every connection keeps its seat (`Seat`, the inductive form of
`ClientViewAgrees`: it never asked for anything, it waits under a code it owns, or it is
in a session, and was told so) and its lease, and a session that is gone has ended
well (`Over`). `Apart` says whom a handler cannot touch, so `Settles` has to be shown only
for one connection or one session.

The assumptions are the named ones of `SignalingServer`: finite sets, `NoPeer` and `NoCode`
outside them, positive limits.

## 4. FileTransfer and FileDelivery

`FileDelivery` is what the two users are promised: files are published and taken
back while the receive runs; the receive ends with all of them or none; the
sender may succeed only after the receive did, and may fail although it did (its
last acknowledgement can be lost).

`FileTransfer` is the protocol at the granularity of awaits. The sender is `spc`,
the step of `sendFiles` it is at. The receiver is its queue, plus the await the
running task is in (`task`): `reserve`, `restart`, `ready`, `write`, `verify`,
`link`, `publish`, `recheck`, `all-done-ok`. `clean` is the file the `finally` of
`receiveFiles` visits next: it moves while a task may still be running.

Abstractions: a file is a number of chunks; of its bytes the model keeps whether
the accepted ones are the sender's (`stale`: a partial of something else) and
whether those on disk were changed later (`rotten`). An encrypted message is
itself. The sender's `await senderControlQueue` is folded into the arrival of
the message: arrived but unhandled is the same as in flight. A send on a closed
channel throws; messages sent just before a close may be lost, because the close
may be noticed at any time. The byte bound of the receive queue is folded into
its bound on messages. A manifest that differs from the accepted one, or exceeds
a limit, is not modelled: the sender is this program's. A removal that fails
during the cleanup, which the code reports and does not retry, is not modelled
either.

`Faults` names what the environment may do: `timeout` (either side's timers),
`link` (the connection drops), `disk` (an awaited file operation fails), `rot`
(a partial changes on disk), `source` (a file changes at the sender).

| Run | Instance | Shows |
|---|---|---|
| `transfer_plain` | 3 files (one empty), any partials, no faults, fair | `NoSpuriousFailure`, `ReceiveSucceeds`: a `file-end` that overtakes its chunks, a wrong partial, a complete partial, all end well |
| `transfer_faults` | 2 files of 2 chunks, resume, all faults, queue of 3, fair | `TypeOK`, `BookkeepingAgrees`, `DoneIsVerified`, `ImplementsDelivery`, `BothEnd` |

Two files are the least for which one is published when the other fails; two
chunks the least for which one may be old and one new; a queue of three overflows
and also lets a control message and a chunk wait together. In `transfer_plain`
the queue never overflows: the sender is not slowed down by the receiver, so with
a small queue even a transfer without faults may end in an overflow.
`transfer_plain` does not list the other invariants again: `transfer_faults` has them.

Fairness: the sender, the receiver and the closing of the connection by a command
that ended are weakly fair (both event loops run, commands reach their `finally`).
The link is not fair. `transfer_faults` has timers among the steps of each side, so
a silent peer is met by a timeout.

### Proofs

`FileTransferProofs` proves, for every number and size of files, every set of
faults, every queue bound, with and without resume:

* `TransferTypes`: `Spec => []TypeOK`;
* `BookkeepingAlwaysAgrees`: `Spec => []BookkeepingAgrees`;
* `OnlyVerifiedDone`: `Spec => []DoneIsVerified`;
* `TransferImplementsDelivery`: `Spec => ImplementsDelivery`, the refinement;
* `PlainTransferSucceeds`: `QueueSuffices => (Spec => []NoSpuriousFailure)`.

The inductive invariant is `Inv == TypeOK /\ BookkeepingAgrees /\ DoneIsVerified`.
Each part of `BookkeepingAgrees` is there for one obligation of the refinement:

* a send may succeed only after the receive did, so an `all-done-ok` in flight
  needs `rdone` and a `file-ok` in flight needs `done` (`AcksTrue`);
* a complete receive keeps every file, so `done` must be published and the last
  acknowledgement must wait for all of them (`TaskAgrees`, `PublishedAgree`);
* a failed receive keeps none although a task may publish behind the cleanup's
  back, so what has an identity is ahead of the cleanup cursor, or is the file of
  the running task (`PublishedAgree`, `CleanupAgrees`);
* the cleanup walks the map in insertion order and stops at its end, so the files
  with a state must be the first ones (`BegunInOrder`).

There is one lemma per action (the sender's are one lemma, because the receiver's
state does not change), and `StepRefines` maps every step to a step of
`FileDelivery` or a stutter. The assumptions are `SizeAssumption` and
`OldAssumption`: sizes are natural numbers and a partial is not longer than its
file (`reserveExistingResumablePart`, `cli/files.ts` 283-286, cuts a longer one to the
file's size before anything reads it).

`NoSpuriousFailure` says what does *not* happen, so its invariant has to say where the
two sides are with respect to each other. `Plain` says that the receive is complete or
`OnTrack`: nothing has failed (`Calm`), the receiver's files are those the sender has
begun (`FilesInStep`), and the two sides, the four queues and the running task are in
one of eight phases: `Starting`, `Announced`, `Between` (two files), `Opening` (the
receiver reserves the output), `Checking` (a resumed prefix is compared), `Streaming`
(chunks on one channel, the `file-end` on the other, at any place among them),
`Acknowledging` and `Finishing`. One lemma per action shows from which phase to which
it leads. The hypothesis `QueueSuffices` says that the queue holds every chunk of a file
and its `file-end`. It is needed: `RECEIVE_QUEUE_MAX_MESSAGES` is 4096 and nothing slows
the sender down when the receiver's disk is slower, so a longer file may fill the queue
and end the transfer without any fault.

## 5. HttpServer and RateLimit

`RateLimit` holds the window of `rate-limit.ts` as operators on the sequence of
times an address has left in a limiter's map. `HttpServer` uses them in the
request callback (`Arrive`), which hits the `http` limiter and, for the ICE
configuration, the `ice` limiter too, and in the expiry interval (`Prune`). The
times of *all* hits are kept beside them in `log`, a history variable no action
reads.

A request for a file is in the stage of `serveStatic` it awaits: `lookup` (the
path, `open`, `stat`), `reading` (the body is allocated and its bytes are
reserved), `closing` (the handle), `sending` (the response was ended), `finished`
(the response's `finish` event came), `over`. `held` is the set of reservations
whose release was not called, `inFlight` the counter `staticInFlightBytes`. A
client may leave at any of the awaits (`ClientGone`); Node emits a response's
`close` once, so listeners registered after it hear nothing.

Abstractions: the clock does not go back (`Date.now()` may; a time from the
future would stay in the window longer); the guards for numbers that are not safe
integers are left out, because the sizes and times that reach them are; resolving
a path, its `stat` and the check of the asset manifest succeed or fail freely.
`CloseFails` allows `handle.close()` to reject.

| Run | Instance | Shows |
|---|---|---|
| `http_serving` | 4 requests of one address, sizes 2, 2, 1, 1, a budget of 3, limits 2 and 1, a window of 2 | `TypeOK` (with the budget), `LimitExact`, `BudgetCoversBodies` |

The budget takes any one file, or one of each size, but not both large ones, so a
reservation is refused and later ones pass. `MaxTime` = 3 lets hits leave the
window while later ones stay; four hits exceed both limits by more than one, so
the truncation to one more than the limit happens. Requests for files of one size
are interchangeable, so symmetry is sound. Nothing here is fair: the runs check
invariants.

### Proofs

`HttpServerProofs` proves, for every window, limit, budget and set of requests:

* `HttpTypes`: `Spec => []TypeOK`, which includes that the budget is not exceeded;
* `LimitAlwaysExact`: `Spec => []LimitExact`;
* `BudgetAlwaysCoversBodies`: `Spec => []BudgetCoversBodies`.

What a limiter keeps depends on when it was pruned and truncated, so `LimitExact`
is not inductive. The invariant is `Inv == TypeOK /\ HitsTrack`: the history is
sorted, the times kept are its tail, and what was dropped is outside the window
unless more times than the limit are kept. `RetainFacts` and `NewestFacts` say
what the two operators of `RateLimit` return; the cut of `RetainRecent` exists by
the least element of a set of natural numbers.

For the budget the invariant is `Covered`: the counter is exactly the number of bytes
(`Bytes`, a set, so that the sum is a cardinality) of the reservations in `held`, and
every body in memory has one. It needs that a request reserves once and that only the
first of a reservation's releases counts. The assumptions are `WindowAssumption` and
`RequestAssumption`.

## 6. Pairing

One receiver waits under one code; several senders know the code's rendezvous
part and some of them (`knows`) also its words. Any of them is a command or a page
(`browsers`). Everything is in one module: the clients, the messages between them
and the server (`up`, `down`, in order per client), and the server as far as one
code goes. `SignalingServer` is the server in full, with any number of codes and
with sockets that fail; here it is reduced to what the clients can tell apart.

`stage` is the await a client is in: `start` (connecting), `registering`, `joining`
(for `peer-joined`), `share` (for `pake`), `deriving` (`finishPake`), `confirming`,
then for the receiver `request`, `deciding` (opening the manifest and asking the
user), `ice`, for the sender `sealing`, `awaiting`, `ice`; `rekeying` and
`rerequesting` are the two waits for `registered` of the retry loops, whose
counters are `attempt` and `round`. `WaitType` says which message a stage waits
for. `Reaction` is `waitForMessage` and the page's `waitFor`: a message answers the
wait, fails it, or is lost (`Lose`), because it is of another session, of another
type, or because nothing is waited for. `settled` is what the wait for `confirm`
ended with; that wait is set up before the share is sent, so it may settle during
`finishPake`. `left` is the server's count of attempts, `seen` the phase flags.

The two implementations differ where the server answers with `error`. The command
re-emits it under its type, nobody listens, and the process dies (`Crash`): no
`bye`, no `finally`. In a page the error fails the running wait (`WaitRefused`); a
page whose code is taken registers another one (`RegisterAgain`, ten codes in the
source, `MaxCodes` here). A page may also be closed at any time (`ClosePage`), which
the server sees as a closed socket.

Abstractions:

* The PAKE is ideal: `SessionKey` is the same on both sides exactly when both
  used the same words. A tag verifies when it was made under the same key.
* A sender connects once, so a session is named by its sender.
* The server's sends do not fail and its connections close in one step, `cut`
  being those it no longer listens to (`SignalingServer` has the rest). A message
  the phase refuses has no action: `PhasesRespected` shows that none is sent.
* Invalid shares and manifests are not sent: all clients are this program's.
* After the acceptance a client is `paired` until it ends, `done` or `broken`:
  the rest is `SignalWiring`'s and the transfers'.
* A page has a task for each message, so a continuation runs before the next one. To a
  command, ws 8.21.0 (`package.json` 87, no `allowSynchronousEvents` at
  `cli/signaling.ts` 132) emits all messages of one read in one call: the first settles
  the wait and removes its listener (268-310), and those behind it find nobody. With
  `batch` in the faults of a behaviour, `TakeRead` takes any number of them with the one
  that settles the wait. An `error` among them kills the command (`ErrorBehind`); a close
  is an event of its own. `missed` remembers who lost a message this way. How ws groups
  messages is external: that a behaviour may have reads of several messages, and none,
  covers both.

`Faults` is a set of sets, of which a behaviour picks one: `batch` (reads of several
messages, see above), `interrupt` (or closing the page), `timeout` (any wait, and the
connection attempt), `source` (the sender's
files cannot be read), `expiry` (of the code or the session), `taken` (another
receiver has the code), `turn` (the TURN quota at the acceptance).

| Run | Instance | Shows |
|---|---|---|
| `pairing_faults` | 2 senders, 2 attempts, 2 codes; commands only, a page that receives, or pages only; no faults, reads of several messages, those and the faults of the clients, or the server's | `KeysAgree`, `AcceptedOnce`, `PhasesRespected`, `NoSpuriousFailure`, `NobodyStuck` |
| `pairing_retry` | 2 senders, 3 attempts, commands, no faults | a sender with the wrong words ends the receive (finding) |

Two senders are the least for which one may disturb the other; with two attempts
two senders use them up, which three (the code's number) would not reach with two
senders. `pairing_retry` has the code's three, so that an attempt is left when the
receive ends. No definition names a sender, so symmetry is sound. A client may
end at any time, so there is no deadlock to check; `NobodyStuck` says instead what
a state without messages in flight may look like. It does not use the timers: without
them nobody hangs either, so no fairness is needed. It asks that no message was lost
behind another in one read (`missed = {}`): without that premise TLC refutes it in eight
states (section 11). `NoSpuriousFailure` needs no such premise: such a loss makes a
client wait, and it is the timer, a fault, that makes it fail.

### Proofs

`PairingProofs` proves `KeysAlwaysAgree` (`KeysAgree`), `AcceptedAtMostOnce`
(`AcceptedOnce`), `PhasesAlwaysRespected` (`PhasesRespected`) and `PairingSucceeds`
(`NoSpuriousFailure`), and `PairingOwedProofs`, which extends it, `NobodyEverStuck`
(`NobodyStuck`), for any number of senders, attempts and codes, any faults
and any mix of commands and pages. None of them is inductive: a key exchanged in a session
two sessions ago may still be in a queue. The invariant `IInv` says

* `UpSound`, `DownSound`: what is in flight is true of the one who sent it (a tag is made
  under its maker's key, a request or a decision under the shared one, an acceptance is the
  user's) and reaches a client only in a session of that client;
* `MeetsOnce`, `Silent`: a sender connects once and its session is announced to the
  receiver once, and before that the receiver has said nothing in it. Without this a
  receiver could come back to a session it left and derive another key;
* `Bound`: while a sender has, or is about to have, the receiver's tag, the receiver, if it
  is still in that session, holds that key;
* `Waited`, `DecidedOnce`: a request is read, or answered, only when its sender has asked,
  and the user decides once;
* `Local`: what a stage says of a client's session, key and settled wait.

`PhasesAlwaysRespected` (`PhasesRespected`) is a second layer, proved with `IInv` as a
hypothesis before and after the step. The model has no action for a message the relay
refuses (`rejectRelayMessage`), and this theorem is the reason it needs none. `Phases`
says of both members of the session, `InPhase`:

* `Ordered`: what a member has in flight is in the order of the protocol (`Rank`);
* `Within`: it has said no more than its stage allows;
* `Complete`: it has left nothing out, unless it was cut off: what its stage implies it
  said is in flight or already in the server's flags `seen`;
* `Grounded`: what it has heard, or will hear, is in `seen`, so that the other's flags are
  set before its answer is sent.

`PairingSucceeds` (`NoSpuriousFailure`) is a third layer, on top of both. Without faults
and with every sender knowing the words (`Fair`), nothing a client waits for may be
overtaken or lost, and the difficulty is that the clients end at different times: a
sender may finish its transfer and leave before the receiver has read its ICE
configuration, a receiver that declines says goodbye in the same breath, and a second
sender may connect at any moment. `Serene` says

* of each client, `Own`: it has neither failed nor seen a wait go wrong (`Unharmed`); it
  says goodbye or declines only at its end, and an acceptance is in flight only while it
  waits for its ICE configuration (`Parting`); it is in the server's session as long as
  the server listens to it (`Attached`); news that the other side has left comes after
  the decision, for a sender, and after the ICE configuration, for the receiver
  (`Timely`); every key is the shared one (`Sharing`);
* of a sender that is turned away: it has met nobody and never will (`Stranger`), so it is
  not the one that is accepted; the receiver is never turned away (`Welcome`);
* of the server: the code is registered once and waits for one session (`Registering`,
  `Opening`); once the acceptance is relayed both sides have what they wait for or it is
  in flight, and before that neither is through, and a receiver that has ended has its
  refusal in flight before its goodbye (`Verdict`).

`Verdict` is what the endings need: a `bye` or a close ends a session only when the
decision of that session has been relayed, so that `cleanupPeer` never restores the code
and `endSession` never cuts a wait short. `After(q, types, firsts)` states an order in a
queue, and `AfterHead` and `AfterJoin` carry it over a message that is taken or added.

`NobodyEverStuck` (`NobodyStuck`) rests on `IInv` and `Phases` and makes no assumption on
the faults. Its invariant is `Due`, `missed = {} => Owed`: as long as nobody has lost a
message in a read, a step takes at most one (`ReadOne`), and what was lost stays lost
(`MissedStays`). `Owed` says for every wait what will end it, in flight or still
to be sent by someone who is not waiting:

* `Closing`: a client the server has closed has ended, has seen the close or has it in
  its queue, and nobody else has; `Leaving`: a client that has ended and that the server
  knows, or will know, has its `bye` or its close on the way;
* `Hosting`: the code and the session belong to clients that are connected, and a
  registration is on its way, answered or refused;
* `Meeting`: a sender's `connect` is on its way or answered, its session lives as long as
  its connection, the announcement comes before anything relayed, and the ICE
  configuration before the acceptance;
* `Returning`: a receiver that retries or has accepted is answered, and one whose session
  is gone (`Adrift`) has an error or `peer-left` coming, is about to speak and to be
  refused, or does not wait. A retry concerns a session the receiver has left; when
  the server takes it after the next session has begun, it ends that session, and what
  the receiver says behind the retry (`Resumes`) is then refused, which wakes it;
* `Awaited`: when the server has a session that the receiver has yet to join, the
  announcement is in its queue, behind the `registered` it waits for first and before
  what was relayed;
* `Delivered`: what was relayed to a member (`seen`) is in its queue, in order, or its
  stage shows that it was read (`Past`).

`OwedSuffices` draws the conclusion. When nothing is in flight and everyone waits, no one
who waits is cut, so a session has two members that are both in it; the one behind
then waits for a message that its peer's stage says was sent (`Complete`) and so is in
`seen`, hence delivered. `Solo` and `Steady` classify the steps of a client that goes on;
`Handles(c, r)` is a step of the server that takes a message of `c` and sends `r[x]` to
each client `x`, and three lemmas finish its cases: the session stays (`StaysOwed`), ends
(`EndsOwed`) or begins (`ConnectOwed`).

The server's steps are classified by what they send (`Answered`, `Announced`), the
clients' by what they add to `up`. `ClientAssumption` says that the names of the clients,
`None` and `"shared"` are different.

## 7. SignalWiring

From the acceptance to the open data channels, for a CLI and a browser on either
side: `wireSignals` of both, `createPeer` and `handleSignal` of `cli/rtc.ts`, the
signaling client's buffer of early signals, and the relay's rules for offers,
answers and candidates. A frame starts a *job*, an `onSignal` call, and jobs wait
for the crypto and for the peer connection independently of each other (`opening`,
`applying`, `answering`, `sealing`, `draining`). `sealing` holds the local signals on
their way through WebCrypto; `added` is the history of what reached
`addIceCandidate`.

External are the peer connection, the socket, and the order in which WebCrypto
completes. A `World` says which kind each side is, how many candidates it gathers,
whether seals end in the order they began (`ordered`), whether operations that are
pending when the peer connection is closed reject (`settles`; the standard lets them
stay pending), and which faults may happen.

Run `signals`: two candidates on one side (one may be queued while the other is
applied) or one on each, limits of 2 queued and 3 early signals, and worlds with no
faults, a replayed frame, seals out of order, a dropped session, an interrupt, and
everything a peer connection can reject. Fairness is weak fairness of `Progress`, one
formula for both sides: event loops and timers run, no fault has to happen. It shows
`CandidatesDelivered`, `SetupSucceeds` and `EndSpreads`. `EndSpreads` is limited to
worlds that settle: where they do not, `createOffer` may hang (section 11).

### Proofs

`SignalWiringProofs` proves `WiringTypes` (`TypeOK`) and `CandidatesAlwaysDelivered`
(`CandidatesDelivered`) for any number of candidates, any limits and any set of worlds.
`CandidatesDelivered` speaks of a side where nothing is left to do; the invariant `Inv` says
where a candidate is until then. `Known(c)` are the candidates relayed to c: in a frame on
its way, kept early, in a job that opens it, or remembered by the replay guard.

* `Counted`: while no signal to c can have been lost (`Lossless`: c is wired, or will be
  and its socket is open) the relay's count is the size of `Known(c)`;
* `Fresh`: a candidate that is still being sealed or on its way to the server is not known
  yet and is there once, so the relay counts a new one;
* `Queue`: what the guard remembers is queued or was handed over, once in all;
* `Drained`: after the remote description a queue that is not empty has a job that will
  drain it; `Jobs`: there is at most one description job, and the answer that is being
  sealed has its job.

Most steps leave all of these alone (`CalmOnly`) or end a side; about ten move a candidate
or a job and have a lemma each. `WiringAssumption`: the limits are natural numbers.

## 8. BrowserTransfer

The page's own sender and receiver, over the same messages as `FileTransfer` but
another storage: blobs that the browser downloads, a folder of the File System Access
API whose files change when a stream is closed and are locked until then, and a folder
with a partial to resume. `snd.at` and `rcv.task` are the awaits; `rcv.clean` is the
cleanup's position, which moves although a task is running. `dir` is the storage:
partials, finals, records of the registry, downloads, and whether the user was `told`
that something could not be removed.

A `Plan` fixes mode, sizes, queue limit, what an earlier attempt left and the faults
(`link`, `timeout`, `source`, `disk`, `stuck`). Run `browser_transfer` has every fault
for each storage with a short queue, each storage without faults, and every kind of
leftover to resume. Both sides and the closing of the connection are weakly fair, as
for the CLI; deadlock is checked, `Over` being the only state that may stutter. It
shows `CompletionKept`, `FolderAccounted` and `BothEnd`, which also says that a transfer
without faults completes.

`FolderAccounted` is about contents: a receive that fails while
`createBrowserReceiveFile` is awaited may leave an empty entry. A downloaded blob cannot
be taken back; the property is about folders.

### Proofs

`BrowserProofs` proves `BrowserTypesCorrect` (`TypeOK`), `CompletionAlwaysKept`
(`CompletionKept`) and `FolderAlwaysAccounted` (`FolderAccounted`) for every set of plans:
any number and length of files, any queue limit, leftover and faults. The invariant `Inv`
has

* `Typed`: messages in flight are drawn from `Forth` and `Back`, sets that say what must
  have happened before a message may be on its way (a `file-ok` needs a file that is done,
  a chunk a prefix that was verified) and that only grow;
* `TaskSound`: what holds of the running task's file at each await, because the cleanup
  does not wait for the task;
* `FileSound`: what holds of a file before, while and after the cleanup passes it;
* `SenderSound` and `FlagsSound`. The last contains why a completion is never taken back:
  a cleanup has begun only when the receive failed and the channel is closed, so a task
  that goes on behind it can acknowledge nothing.

`PlanAssumption` says that a plan is possible: a partial is not longer than its file, a
partial of something else is not empty, and only the resuming mode has one.

## 9. BrowserResume

The stores behind resuming: the registry and the lookup key in two IndexedDB databases,
the registry older versions kept in `localStorage`, and the partials in the folder. A
tab prunes the registry when it is loaded, beside its first operation; each action is
what happens between two awaits, a transaction at most. A lookup key is a number and
an identifier the pair of key and file, so a record made with another key is not found.

A `World` gives the initial contents and how often each event may happen (`close`,
`fail`, `mismatch`, `storage`, `expire`, `clear`). `browser_resume` has all damaged
combinations of the stores with no further failure, five worlds of one page with
events, and two pages at once. It shows:

* `KeptIsFound`: in the situations `Calm` describes, a partial with contents is named
  by a record that a later resume or the clear action will find. `Calm` is the
  precondition the code needs; section 11 has what happens outside it.
* `Recovers`: from any contents of the stores every file is received in the end and
  the stores are clean, also when two pages overwrite each other's records.

Fairness: requests are answered, transfers end, the user loads the page and starts the
receive again (a user who does not return is owed nothing).

`WorldAssumption` says what the initial contents may be: registries are objects (one
record for an identifier) within the limit, partials have names of their own, and nothing
has a number that was not handed out. The limit is assumed of the legacy registry too:
`pruneBrowserResumeRegistry` takes it over without cutting it off, so a longer one would
stay longer until the next record is remembered. `Calm` asks for one page, databases that
do not fail, as many files as records at most, records made with the stored key only, and
partials that a record of their file names; where the page may also be closed, nothing to
scrub or to expire and no hash that differs. Records under another key have to be
excluded because they count towards the limit: they are the newest ones, perhaps, and
push out those that could be found.

### Proofs

`BrowserProofs`, which holds the proofs of both browser modules (so the specification here
is called `ResumeSpec` and its types `ResumeTypeOK`), proves for all sets of pages
and files, all limits and all worlds within `WorldAssumption`:

* `ResumeTypes`: `ResumeTypeOK`. Every page writes the registry as a whole from what it read
  before an await, so the limit and the identifiers (`Registered`) have to hold of every
  set of records that is stored or held by a page (`Sets`), not only of the registry. A
  partial just made is in none of them (`Unremembered`), or its record could be the
  second to name it. `Stage` ties each await to the key and the pruning of the page.
* `KeptAlwaysFound`: `KeptIsFound`. The registry is replaced by clearing it and writing
  it again, so the invariant speaks of `InForce`, the records that will be stored when
  the replacement under way is through: a partial with data is named by one of them or is
  being given up (`Reachable`), a record names a partial of its own file (`Agree`), all
  records are made with the stored key, also while a new one is being stored (`Keying`),
  and at each await the record and the partial of the received file are known (`OwnFile`):
  the record is there before the transfer and gone after it, and where it is forgotten
  first nothing else may look for the partial. `Closable` is why a page may be closed
  anywhere in such a world: nothing is replaced, so `InForce` is always the registry.
  That remembering a record pushes no other one out needs a count: records under one key
  are told apart by their file, so there are at most as many as files (`RememberedAlone`).

## 10. Release and ReleaseControls

`ReleaseControls` is the repository's settings, written request by request by
`configure-github-release-controls.mjs` (`Configure`, from `EnsureAlerts` to
`ConfigurePersisted`) and read by `check-release-readiness.mjs` (`SettingsReady`); a
maintainer may change them by hand (`Drift`), also while the script runs. `token` is the
owner of the secret `RELEASE_PREFLIGHT_TOKEN`: readiness asks that it exists and counts
its owner, like the tag's pusher, as someone who cannot approve. `late` remembers a
change of a setting the running script does not read again (`Before`, `Rereads`). `Release` composes it with one version's
release: the tag, the workflow's jobs as one sequence of steps (`Flow`), npm, the two
docker tags and the GitHub release. A job may die between a request and its answer
(`Dies`), be run again alone (`Rerun`) or with all others (`RerunAll`); main moves; the
tag may be deleted and made again at another commit; another version may be released.
A tarball is named by its commit; an image build has a digest of its own, because the
builds are not reproducible.

`Passing` are the commits on which the required workflows have succeeded; a
workflow that succeeds only later is not modelled. All jobs may be run again
whenever a run has failed, as long as fewer than `MaxBuilds` images were built.

Run `release`: three commits of which two carry the version and pass, two runs, two
builds, one change by hand, one failing request, three initial settings. It shows
`PublicAgree`, `PublicImmutable`, `ConfiguredIsReady` and `RerunCompletes`. Two runs are
the least for which one may find what the other published from another commit; with two
builds a second image exists. (Two failing requests were checked as well and take longer
than a kept run should: the safety properties with everything else as in `release`,
`RerunCompletes` without changes by hand and with two commits.) The initial settings are a
repository set up well, a new one whose token belongs to a reviewer to be, and one that
was changed and has lost its token. Fairness (`FairSpec`) is that of a runner that goes on
and a maintainer who approves and re-runs failed jobs; `RerunCompletes` ends where
something other than a failed request interferes (`disturbed`), running all jobs again
included. It also shows that a run that
passed the readiness check is never left without an approver.

`ConfiguredIsReady` says that the two scripts agree: what the configuration reports as
done is ready, if nothing was changed after the script's last look at it, the token
exists and a reviewer is left who is neither the operator nor the token's owner. The last
two conditions are about what the script does not look at (section 11).

Left out: arguments, the class and the scopes of tokens, the wording of errors, and the
contents of the smoke tests, which are part of a job's success.

### Proofs

`ReleaseProofs` proves, for any number of commits, runs, accounts, changes by hand and
failing requests: `ReleaseTypes`, `PublicAlwaysAgrees` (`PublicAgree`), `PublicNeverChanges`
(`PublicImmutable`) and `ConfiguredStaysReady` (`ConfiguredIsReady`). The invariant is `Inv /\ Prepared`:

* `Established`: what a run may rely on when it is past a step, whether it is running,
  failed or queued again (npm has its commit's tarball, the docker tags are its digest).
  It holds of a failed run because what is published does not change, which is why
  `PublicImmutable` and the invariant are proved together (`Kept`);
* `Holds`: what only the running run may rely on, such as the draft it made. That the
  workflow's concurrency group lets one run at a time (`OneAtATime`) makes it stable;
* `Prepared`: what the configuration script has got done at each of its steps, as long
  as no setting is changed by hand after the script has read it for the last time.

## 11. Findings and observations

Two findings are kept as the run `pairing_retry` (texts in `PROJECT.json`):

* SECURITY.md:62 says that one bad sender cannot burn a code and that invalid attempts
  must not strand the receive. The server does not look at the session a
  `prepair_retry` names: one that comes late gives up the session of the next sender,
  and the receiver then fails on `session_not_found`, which it does not retry. A page
  that receives ends the same way.
* A server `error` crashes a CLI command instead of failing its wait, because an
  EventEmitter throws on an `error` event nobody listens for.

The properties below also state what the documentation says and are refuted by what
the code does. They are in the modules but in no kept run; to see one, put it in place
of the properties of the named configuration (without its symmetry).

| Property (module) | Configuration | What happens |
|---|---|---|
| `NoExpiredAcknowledgement` (`SignalingServer`) | `server_pairing` | SECURITY.md:40: restoration must not re-acknowledge expired registrations. `sendRestoredRegistration` (`server/index.ts` 661-667) does not look at the clock. |
| `NoAbandonedCode` (`SignalingServer`) | `server_pairing` | SECURITY.md:218: a failed send releases rendezvous state at once. Where both peers are cleared after sends (837-841), a code restored by the first failing send stays until it expires. |
| `BudgetReturned` (`HttpServer`) | `http_serving` | SECURITY.md:213: static responses hold their reservation until the response finishes or closes. The listeners are registered after the file was read (960-961), so a client that leaves during the read, or a rejected `handle.close()`, leaves its bytes reserved for good. |
| `NoOrphanPart` (`FileTransfer`) | `transfer_faults` with `Resume = FALSE` | SECURITY.md:165: receive work must re-check failure before mutating state. After `reserveOutputFile` (`cli/transfer.ts` 518-546) nothing does, and the partial stays. |
| `TransferOutlivesSignaling` (`SignalWiring`) | `signals` with `Worlds <- OnlyDrops`, `Spec` | SECURITY.md:255: once the channels are open, closes by the server cannot abort a transfer. A local candidate gathered or sealed after that is still sent, the send on the closed socket throws, and the handler closes the peer connection (`cli/rtc.ts` 47-74). A page ignores the failed send. |
| `NoOrphanPart` (`BrowserResume`) | `browser_resume` with `Worlds <- Orphaned` | SECURITY.md:159: no orphan partial that later flows cannot discover. Two pages lose each other's update between the read and the write of the registry; a read that fails once clears all records (`web/main.ts` 2660-2671); a page closed between forgetting a mismatching partial and discarding it, or between the delete and the write of `replaceBrowserResumeRegistry` (2812-2815), strands what was named. |

Met while modelling, without a property of their own:

* A page closed after storing a new lookup key and before clearing the registry (2459-2463)
  leaves records nothing can look up; two pages that both create the key overwrite
  each other's. A blocked `deleteDatabase` is reported as failed and happens later.
* In resume mode `forgetBrowserResumePartial` is awaited between the last stop check of a
  received file and its `file-ok` (`web/main.ts` 1185-1187), which SECURITY.md:165 says are
  synchronous. While it lasts only a close fails the receive, and sending then throws.
* A candidate whose seal overtakes the offer's is refused by the relay, which ends the
  set-up (a world with `ordered` false).
* `createOffer` that is pending when the peer connection is closed may never settle; the
  command then hangs until it is interrupted (`hung`, a world with `settles` false).
* Re-running *all* jobs after the docker tags were pushed builds another image and stops
  at the tags: it fails closed; re-running the failed jobs completes.
* Messages that stand behind the one that settles a command's wait in the same read are
  lost (`cli/signaling.ts` 132 and 268-310 with ws 8.21.0): `confirm` with `pair-request`,
  or `registered` with `peer-joined` and `pake`. Both sides then wait until a timer ends
  one of them. `NobodyStuck` without `missed = {}` shows it.
* The two release scripts disagree about who may approve. `check-release-readiness.mjs`
  takes out the tag's pusher and the owner of the preflight token (630-640), as the
  repository's README:347 asks (a reviewer "other than the person or token owner that will
  push the release tag"); `configure-github-release-controls.mjs` takes out only its
  operator (306-317) and does not look at the token. It may report success for settings
  that readiness refuses: the release fails closed, before anything is published.
  `ConfiguredIsReady` without its last two conditions shows it.
* `Date.now()` may be set back: a time from the future stays in a limiter's window longer.

## 12. What is proved, what is only checked

Proved for every instance, by module:

| Module | Theorem | States |
|---|---|---|
| `SignalingServerProofs` | `TypeCorrect` | `TypeOK` |
| | `RegistryAlwaysConsistent` | `RegistryConsistent` |
| | `ConnectionsAlwaysCounted` | `ConnectionsCounted` |
| | `SignalingOnlyConfirmed` | `ConfirmedBeforeSignaling` |
| | `ClientViewAlwaysAgrees` | `ClientViewAgrees` |
| | `LeaseIsNeverRenewed` | `LeaseNeverRenewed` |
| | `SessionsEndForBoth` | `SessionEndsForBoth` |
| `FileTransferProofs` | `TransferTypes` | `TypeOK` |
| | `BookkeepingAlwaysAgrees` | `BookkeepingAgrees` |
| | `OnlyVerifiedDone` | `DoneIsVerified` |
| | `TransferImplementsDelivery` | `ImplementsDelivery`, the refinement of `FileDelivery` |
| | `PlainTransferSucceeds` | `NoSpuriousFailure`, when `QueueSuffices` |
| `HttpServerProofs` | `HttpTypes` | `TypeOK`, with the budget |
| | `LimitAlwaysExact` | `LimitExact` |
| | `BudgetAlwaysCoversBodies` | `BudgetCoversBodies` |
| `PairingProofs` | `KeysAlwaysAgree` | `KeysAgree` |
| | `AcceptedAtMostOnce` | `AcceptedOnce` |
| | `PhasesAlwaysRespected` | `PhasesRespected` |
| | `PairingSucceeds` | `NoSpuriousFailure` |
| `PairingOwedProofs` | `NobodyEverStuck` | `NobodyStuck` |
| `SignalWiringProofs` | `WiringTypes` | `TypeOK` |
| | `CandidatesAlwaysDelivered` | `CandidatesDelivered` |
| `BrowserProofs` | `BrowserTypesCorrect` | `TypeOK` |
| | `CompletionAlwaysKept` | `CompletionKept` |
| | `FolderAlwaysAccounted` | `FolderAccounted` |
| | `ResumeTypes` | `ResumeTypeOK`, with the limit of the registry |
| | `KeptAlwaysFound` | `KeptIsFound` |
| `ReleaseProofs` | `ReleaseTypes` | `TypeOK` |
| | `PublicAlwaysAgrees` | `PublicAgree` |
| | `PublicNeverChanges` | `PublicImmutable` |
| | `ConfiguredStaysReady` | `ConfiguredIsReady` |

Only model-checked:

* Liveness (`SessionsEnd`, `CodesEnd`, `ReceiveSucceeds`, `BothEnd`, `SetupSucceeds`,
  `EndSpreads`, `Recovers`, `RerunCompletes`): the prover has neither fairness nor ENABLED.

`TypeOK` of `Pairing` holds in its instances as well and is stated for the reader; the kept
runs spend their time on the other properties. The invariants of the proofs were checked
with TLC on the instances of the runs before they were proved.

## 13. Not modelled

* The page's elements, prompts, progress and names of files; options, prompts and output
  of the commands: presentation, with no state the protocol depends on.
* Cryptography (the PAKE's arithmetic, AEAD, hashes), parsing of messages and strings,
  limits, formats: pure functions, outside TLC's reach or well reached by unit tests.
* The WebRTC library, browsers, GitHub, npm and the container registry: external,
  modelled by how the code uses them.
* Configuration, HTTP headers and the small endpoints, asset integrity, dependency and
  native-library checks: one pass at start, no state kept.
* `cli/files.ts` in detail: reserving and publishing a file succeed or fail as a whole;
  the choice of a free name and the identity checks against other writers of the same
  directory are open work (section 2).
* Smoke tests, test doubles and the build: they exercise the program and are not part
  of it.

## 14. Running

| Run | Module | Distinct states | Checks |
|---|---|---|---|
| `server_pairing` | `MCSignalingServer` | 41,499 | `RegistryConsistent`, `ClientViewAgrees`, `LeaseNeverRenewed`, `SessionEndsForBoth` |
| `server_capacity` | `MCSignalingServer` | 91,495 | `TypeOK`, `ConnectionsCounted` |
| `server_live` | `MCSignalingServer` | 21,750 | `SessionsEnd`, `CodesEnd`, `ConfirmedBeforeSignaling` |
| `transfer_plain` | `MCFileTransfer` | 971 | `NoSpuriousFailure`, `ReceiveSucceeds` |
| `transfer_faults` | `MCFileTransfer` | 30,229 | `TypeOK`, `BookkeepingAgrees`, `DoneIsVerified`, `ImplementsDelivery`, `BothEnd` |
| `http_serving` | `MCHttpServer` | 180,330 | `TypeOK`, `LimitExact`, `BudgetCoversBodies` |
| `pairing_faults` | `MCPairing` | 1,301,510 | `KeysAgree`, `AcceptedOnce`, `PhasesRespected`, `NoSpuriousFailure`, `NobodyStuck` |
| `pairing_retry` | `MCPairing` | stops at the violation | `BadSenderNotFatal` |
| `signals` | `MCSignalWiring` | 384,335 | `TypeOK`, `CandidatesDelivered`, `SetupSucceeds`, `EndSpreads` |
| `browser_transfer` | `MCBrowserTransfer` | 33,666 | `TypeOK`, `CompletionKept`, `FolderAccounted`, `BothEnd` |
| `browser_resume` | `MCBrowserResume` | 164,597 | `ResumeTypeOK`, `KeptIsFound`, `Recovers` |
| `release` | `MCRelease` | 701,884 | `PublicAgree`, `ConfiguredIsReady`, `PublicImmutable`, `RerunCompletes` |

    tlc -config server_pairing.cfg MCSignalingServer    # likewise the others
    tlapm SignalingServerProofs.tla    # likewise the other modules named *Proofs

The proofs take up to ten minutes a module, all of them about half an hour.
