-------------------------- MODULE ClientConnection --------------------------
(***************************************************************************)
(* The connection of one OmpClient: packages/client/src, the parts of      *)
(* omp-client-runtime.ts that connect, wake, close, send and receive, with *)
(* OmpClientConnection (generations, transports, backoff, heartbeat),      *)
(* InboundFrameQueue, PendingRequests, OmpClientReconnectHealth and the    *)
(* table of legal states.                                                  *)
(*                                                                         *)
(* The code runs to completion between two events, so an event (a call of  *)
(* the user, a timer, a socket callback, a promise that settles) is one    *)
(* step.  Two things are spread over several: the answer to a pairing,     *)
(* whose credential is stored while frames queue up behind it, and the     *)
(* close of a ready client, which first releases its preview leases.       *)
(*                                                                         *)
(* External: the transport (a send that throws has sent nothing, and no    *)
(* callback runs inside a send), the host (one welcome per connection,     *)
(* answers only to what it was asked on it), the clock (the heartbeat      *)
(* timeout is shorter than its interval, as the defaults are).             *)
(***************************************************************************)
EXTENDS Naturals, Sequences

CONSTANTS
  Slot,       \* places of PendingRequests.entries: as many as maxPending
  Fallback,   \* compatibilityRequestedFeatures is configured
  MaxInbound, \* MAX_INBOUND_FRAMES
  MaxEnds     \* bound on the connections that end and have a successor

ASSUME FallbackAssumption == Fallback \in BOOLEAN
ASSUME BoundAssumption == MaxInbound \in Nat \ {0} /\ MaxEnds \in Nat

VARIABLES
  state,      \* stateValue
  closed,     \* closedByUser
  gen,        \* OmpClientConnection.generationValue
  opening,    \* generations whose transport factory has not settled
  socket,     \* the generation of the attached transport, 0 without one
  timer,      \* reconnectTimer
  attempt,    \* OmpClientConnection.attempt
  handshake,  \* handshakeTimer
  heartbeat,  \* off, resting (heartbeatTimer), pinged (nonce and timeout too)
  pong,       \* OmpClientReconnectHealth: a pong of this generation came
  probe,      \* its replay probe of the attached session: none, open, answered
  attached,   \* a session is attached
  pend,       \* PendingRequests.entries: kind and generation of each request
  queue,      \* InboundFrameQueue: generation and kind of each frame
  drain,      \* idle, await (a credential is being stored) or loop
  storing,    \* the generation of the pair.ok whose credential is being stored
  waiting,    \* connectWaiters has a promise to settle
  loading,    \* a connect() waits for the cursor journal
  releasing,  \* a close() waits for previewLeaseManager.releaseAll
  compat,     \* compatibilityFallbackUsed
  welcomed,   \* the host's welcome reached this connection
  late,       \* the host may still answer a pairing the client gave up
  swept,      \* a frame of this connection was dropped with the stale ones
  ends

linkVars == <<state, closed, gen, opening, socket, timer, attempt>>
healthVars == <<handshake, heartbeat, pong, probe>>
inboundVars == <<queue, drain, storing>>
callVars == <<waiting, loading, releasing>>
hostVars == <<welcomed, late, swept>>
vars == <<linkVars, healthVars, attached, pend, inboundVars, callVars, compat, hostVars, ends>>

State == {"idle", "connecting", "handshaking", "pairing", "ready", "reconnect-wait",
          "closing", "closed", "fatal"}
Terminal == {"closing", "closed", "fatal"}
Frame == {"ready", "pairing", "invalid", "bye", "pong", "pair.ok", "pair.error",
          "response", "replay", "other"}
NoRequest == [kind |-> "none", gen |-> 0, storing |-> FALSE]
Request == [kind : {"none", "command", "attach", "pair"}, gen : Nat, storing : BOOLEAN]

TypeOK ==
  /\ state \in State /\ closed \in BOOLEAN
  /\ gen \in Nat /\ opening \subseteq Nat /\ socket \in Nat
  /\ timer \in BOOLEAN /\ attempt \in Nat
  /\ handshake \in BOOLEAN /\ heartbeat \in {"off", "resting", "pinged"}
  /\ pong \in BOOLEAN /\ probe \in {"none", "open", "answered"}
  /\ attached \in BOOLEAN
  /\ pend \in [Slot -> Request]
  /\ queue \in Seq([gen : Nat, kind : Frame]) /\ Len(queue) <= MaxInbound
  /\ drain \in {"idle", "await", "loop"} /\ storing \in Nat
  /\ waiting \in BOOLEAN /\ loading \in BOOLEAN /\ releasing \in BOOLEAN
  /\ compat \in BOOLEAN
  /\ welcomed \in BOOLEAN /\ late \in BOOLEAN /\ swept \in BOOLEAN
  /\ ends \in 0 .. MaxEnds

\* createOmpClient.
Init ==
  /\ state = "idle" /\ closed = FALSE
  /\ gen = 0 /\ opening = {} /\ socket = 0 /\ timer = FALSE /\ attempt = 0
  /\ handshake = FALSE /\ heartbeat = "off" /\ pong = FALSE /\ probe = "none"
  /\ attached = FALSE
  /\ pend = [r \in Slot |-> NoRequest]
  /\ queue = <<>> /\ drain = "idle" /\ storing = 0
  /\ waiting = FALSE /\ loading = FALSE /\ releasing = FALSE
  /\ compat = FALSE
  /\ welcomed = FALSE /\ late = FALSE /\ swept = FALSE /\ ends \in 0 .. MaxEnds

Open == state \in {"pairing", "ready"}
Free == {r \in Slot : pend[r] = NoRequest}
End == ends < MaxEnds /\ ends' = ends + 1

\* No other event is handled while drain() runs its loop.
Turn == drain # "loop"

-----------------------------------------------------------------------------
(* OmpClientConnection, and the ways a connection ends                      *)

\* begin(), with `g` the generation that it starts from.
Begin(g) == gen' = g + 1 /\ opening' = opening \cup {g + 1}

\* The heartbeat of the old connection keeps running.
DisconnectBeating(g) ==
  /\ gen' = g /\ socket' = 0 /\ UNCHANGED heartbeat
  /\ welcomed' = FALSE /\ late' = FALSE /\ swept' = FALSE

\* disconnect(), the generation moving to `g`; what is known of the host is
\* about the connection that ends.
Disconnect(g) ==
  /\ gen' = g /\ socket' = 0 /\ heartbeat' = "off"
  /\ welcomed' = FALSE /\ late' = FALSE /\ swept' = FALSE

SettleAll == pend' = [r \in Slot |-> NoRequest]

\* scheduleReconnect(), after the attempts counted so far.
ScheduleReconnect(attempts) ==
  timer' = TRUE /\ attempt' = attempts + 1 /\ state' = "reconnect-wait"

\* Requests in flight are left to their timers.
DropOnly(g) ==
  /\ Disconnect(g)
  /\ handshake' = FALSE /\ pong' = FALSE /\ probe' = "none"
  /\ UNCHANGED pend

\* handleDisconnect() up to the reconnect: every request in flight is settled,
\* as outcome_unknown, since all of them were handed to the transport.
Drop(g) ==
  /\ Disconnect(g)
  /\ handshake' = FALSE /\ pong' = FALSE /\ probe' = "none"
  /\ SettleAll

\* handleDisconnect(); the inbound queue is left as it is.
Lose ==
  /\ Drop(gen + 1) /\ ScheduleReconnect(attempt)
  /\ UNCHANGED <<closed, opening, waiting>>

\* fatal() without settling what waits for the connection.
FatalOnly ==
  /\ Drop(gen + 1) /\ timer' = FALSE
  /\ state' = "fatal" /\ closed' = TRUE
  /\ UNCHANGED <<opening, attempt, waiting>>

\* fatal().
Fatal ==
  /\ Drop(gen + 1) /\ timer' = FALSE
  /\ state' = "fatal" /\ closed' = TRUE /\ waiting' = FALSE
  /\ UNCHANGED <<opening, attempt>>

-----------------------------------------------------------------------------
(* Calls of the user                                                        *)

\* connect() up to its await.
Connect ==
  /\ Turn /\ state \notin Terminal /\ ~loading
  /\ loading' = TRUE
  /\ UNCHANGED <<linkVars, healthVars, attached, pend, inboundVars, waiting, releasing,
                 compat, hostVars, ends>>

\* The rest of connect(), once the journal is loaded or failed to.
Loaded ==
  /\ Turn /\ loading /\ loading' = FALSE
  /\ IF state = "idle"
     THEN Begin(gen) /\ state' = "connecting" /\ closed' = FALSE
     ELSE UNCHANGED <<gen, opening, state, closed>>
  /\ waiting' = (waiting \/ state \notin Terminal \cup {"ready"})
  /\ UNCHANGED <<socket, timer, attempt, healthVars, attached, pend, inboundVars, releasing,
                 compat, hostVars, ends>>

\* The timer fires, and no transport is asked for.
BackoffEnds ==
  /\ Turn /\ timer
  /\ timer' = FALSE /\ state' = "connecting"
  /\ UNCHANGED <<closed, gen, opening, socket, attempt, healthVars, attached, pend, inboundVars,
                 callVars, compat, hostVars, ends>>

\* The reconnect timer, or beginReconnectNow() from wake() or reconnectNow().
BeginReconnect ==
  /\ Turn /\ timer
  /\ timer' = FALSE /\ state' = "connecting" /\ Begin(gen)
  /\ UNCHANGED <<closed, socket, attempt, healthVars, attached, pend, inboundVars, callVars,
                 compat, hostVars, ends>>

\* reconnectNow() on an open connection, or wake() on one that is stale.
ReconnectNow ==
  /\ Turn /\ Open /\ End /\ Drop(gen + 2)
  /\ attempt' = attempt + 1 /\ state' = "connecting" /\ timer' = FALSE
  /\ opening' = opening \cup {gen + 2}
  /\ UNCHANGED <<closed, attached, inboundVars, callVars, compat>>

CloseNow ==
  /\ closed' = TRUE /\ queue' = <<>> /\ Drop(gen + 1) /\ timer' = FALSE /\ waiting' = FALSE
  /\ state' = IF state = "closed" THEN "closed" ELSE "closing"
  /\ UNCHANGED <<opening, attempt, attached, drain, storing, loading, compat, ends>>

\* close() of a ready client waits for the preview leases.
Close ==
  /\ Turn /\ state \notin {"closing", "closed"}
  /\ \/ /\ state = "ready" /\ ~releasing /\ releasing' = TRUE
        /\ UNCHANGED <<linkVars, healthVars, attached, pend, inboundVars, waiting, loading,
                       compat, hostVars, ends>>
     \/ state # "ready" /\ CloseNow /\ UNCHANGED releasing

CloseReleased ==
  Turn /\ releasing /\ releasing' = FALSE /\ CloseNow

\* The end of close(), once the cursor journal has nothing more to save.
CloseDone ==
  /\ Turn /\ state = "closing" /\ state' = "closed"
  /\ UNCHANGED <<closed, gen, opening, socket, timer, attempt, healthVars, attached, pend,
                 inboundVars, callVars, compat, hostVars, ends>>

\* sendCommand() and pairStart(): PendingRequests.begin.
Send(r, kind) ==
  /\ Turn /\ pend[r] = NoRequest
  /\ state = IF kind = "pair" THEN "pairing" ELSE "ready"
  /\ pend' = [pend EXCEPT ![r] = [kind |-> kind, gen |-> gen, storing |-> FALSE]]
  /\ UNCHANGED <<linkVars, healthVars, attached, inboundVars, callVars, compat, hostVars, ends>>

\* The timer of a request, or its abort signal.
GiveUp(r) ==
  /\ Turn /\ pend[r] # NoRequest
  /\ pend' = [pend EXCEPT ![r] = NoRequest]
  /\ late' = (late \/ (pend[r].kind = "pair" /\ pend[r].gen = gen /\ ~pend[r].storing))
  /\ UNCHANGED <<linkVars, healthVars, attached, inboundVars, callVars, compat, welcomed,
                 swept, ends>>

-----------------------------------------------------------------------------
(* The transport and the timers of the connection                           *)

Stale(g) == g # gen \/ closed \/ state \in Terminal

\* A factory settles for a generation that is over: its transport is closed.
OpenedLate(g) ==
  /\ Turn /\ g \in opening /\ Stale(g)
  /\ opening' = opening \ {g}
  /\ UNCHANGED <<state, closed, gen, socket, timer, attempt, healthVars, attached, pend,
                 inboundVars, callVars, compat, hostVars, ends>>

\* handleConnected(): the hello is sent, or the authentication provider throws.
Opened(g) ==
  /\ Turn /\ g \in opening /\ ~Stale(g)
  /\ \/ /\ socket' = g /\ state' = "handshaking" /\ handshake' = TRUE
        /\ pong' = FALSE /\ probe' = "none"
        /\ opening' = opening \ {g}
        /\ UNCHANGED <<closed, gen, timer, attempt, heartbeat, attached, pend, inboundVars,
                       callVars, compat, hostVars, ends>>
     \/ /\ Drop(gen + 1) /\ timer' = FALSE
        /\ state' = "fatal" /\ closed' = TRUE /\ waiting' = FALSE /\ queue' = <<>>
        /\ opening' = opening \ {g}
        /\ UNCHANGED <<attempt, attached, drain, storing, loading, releasing, compat, ends>>

\* The factory fails, or the send of the hello throws.
OpenFails(g) ==
  /\ Turn /\ g \in opening /\ ~Stale(g)
  /\ End /\ Drop(gen + 1) /\ ScheduleReconnect(attempt)
  /\ opening' = opening \ {g}
  /\ UNCHANGED <<closed, attached, inboundVars, callVars, compat>>

\* onError, or onClose with a code that is no refusal.
Lost ==
  /\ Turn /\ socket # 0 /\ End /\ Lose
  /\ UNCHANGED <<attached, inboundVars, loading, releasing, compat>>

\* onClose with 1008 "invalid frame" as the answer to the hello.
HelloRejected ==
  /\ Turn /\ state = "handshaking" /\ Fallback /\ ~compat
  /\ compat' = TRUE /\ End /\ Lose
  /\ UNCHANGED <<attached, inboundVars, loading, releasing>>

\* onClose with 1008 or 1002 otherwise.
Refused ==
  /\ Turn /\ socket # 0 /\ Fatal /\ queue' = <<>>
  /\ UNCHANGED <<attached, drain, storing, loading, releasing, compat, ends>>

\* The handshake timer.
HandshakeTimeout ==
  /\ Turn /\ handshake /\ Fatal /\ queue' = <<>>
  /\ UNCHANGED <<attached, drain, storing, loading, releasing, compat, ends>>

\* heartbeatTick(), when the ping could be sent.
HeartbeatTick ==
  /\ Turn /\ Open /\ heartbeat = "resting" /\ heartbeat' = "pinged"
  /\ UNCHANGED <<linkVars, handshake, pong, probe, attached, pend, inboundVars, callVars,
                 compat, hostVars, ends>>

\* heartbeatTick() when the send throws, or the timeout of an unanswered ping.
HeartbeatFailure ==
  /\ Turn /\ Open /\ heartbeat # "off" /\ End /\ Lose
  /\ UNCHANGED <<attached, inboundVars, loading, releasing, compat>>

-----------------------------------------------------------------------------
(* Inbound frames.  `rest` is the queue behind the frame that is handled    *)

\* handleWelcome() with pairing-required.
WelcomePairing(rest) ==
  /\ handshake' = FALSE /\ heartbeat' = "resting" /\ pong' = FALSE /\ probe' = "none"
  /\ state' = "pairing" /\ waiting' = FALSE /\ welcomed' = TRUE /\ queue' = rest
  /\ UNCHANGED <<closed, gen, opening, socket, timer, attempt, attached, pend, storing, loading,
                 releasing, compat, late, swept>>

\* handleWelcome(), which attaches again the session that was attached; the
\* attach is dropped when the requests in flight are at their limit.
WelcomeReady(rest) ==
  /\ handshake' = FALSE /\ heartbeat' = "resting" /\ pong' = FALSE
  /\ state' = "ready" /\ waiting' = FALSE /\ welcomed' = TRUE /\ queue' = rest
  /\ probe' = IF attached THEN "open" ELSE "none"
  /\ IF attached /\ Free # {}
     THEN \E r \in Free :
            pend' = [pend EXCEPT ![r] = [kind |-> "attach", gen |-> gen, storing |-> FALSE]]
     ELSE UNCHANGED pend
  /\ UNCHANGED <<closed, gen, opening, socket, timer, attempt, attached, storing, loading,
                 releasing, compat, late, swept>>

\* Any sign of life ends the streak of failures.
AlwaysReset(clean) == attempt' = 0

\* maybeReset() of OmpClientReconnectHealth.
MaybeReset(clean) == attempt' = IF clean THEN 0 ELSE attempt

Pong(rest) ==
  /\ heartbeat = "pinged"
  /\ heartbeat' = "resting" /\ pong' = TRUE /\ MaybeReset(probe = "none")
  /\ queue' = rest
  /\ UNCHANGED <<state, closed, gen, opening, socket, timer, handshake, probe, attached, pend,
                 storing, callVars, compat, hostVars>>

\* handleResponse() to a request of this connection.  The replay that an attach
\* promises may be complete with its response.
Response(rest) ==
  /\ \E r \in Slot :
       /\ pend[r].kind \in {"command", "attach"} /\ pend[r].gen = gen
       /\ pend' = [pend EXCEPT ![r] = NoRequest]
       /\ \/ /\ pend[r].kind = "attach" /\ attached' = TRUE
             /\ \/ probe' = IF probe = "open" THEN "answered" ELSE probe
                \/ probe' = "none"
          \/ UNCHANGED <<attached, probe>>
  /\ MaybeReset(pong /\ probe # "none" /\ probe' = "none")
  /\ queue' = rest
  /\ UNCHANGED <<state, closed, gen, opening, socket, timer, handshake, heartbeat, pong,
                 storing, callVars, compat, hostVars>>

\* A snapshot or an event completes the replay of an attach that was answered.
Replay(rest) ==
  /\ probe = "answered" /\ probe' = "none" /\ MaybeReset(pong)
  /\ queue' = rest
  /\ UNCHANGED <<state, closed, gen, opening, socket, timer, handshake, heartbeat, pong,
                 attached, pend, storing, callVars, compat, hostVars>>

\* settlePairError().
PairError(rest) ==
  /\ \E r \in Slot :
       /\ pend[r].kind = "pair" /\ pend[r].gen = gen /\ ~pend[r].storing
       /\ pend' = [pend EXCEPT ![r] = NoRequest]
  /\ queue' = rest
  /\ UNCHANGED <<linkVars, healthVars, attached, storing, callVars, compat, hostVars>>

\* handlePairOk() up to the await of privilegedPairResult.
PairOk(rest) ==
  /\ \E r \in Slot :
       /\ pend[r].kind = "pair" /\ pend[r].gen = gen /\ ~pend[r].storing
       /\ pend' = [pend EXCEPT ![r].storing = TRUE]
  /\ storing' = gen /\ queue' = rest
  /\ UNCHANGED <<linkVars, healthVars, attached, callVars, compat, hostVars>>

\* A frame that ends the client: one that cannot be decoded or does not match
\* what was asked, a refusing bye, a pair.ok to a pairing that was given up.
FatalFrame ==
  /\ Fatal /\ queue' = <<>>
  /\ UNCHANGED <<attached, storing, loading, releasing, compat>>

\* A retryable bye.
Bye(rest) ==
  Lose /\ queue' = rest /\ UNCHANGED <<attached, storing, loading, releasing, compat>>

\* A frame that only reaches the listeners.
Publish(rest) ==
  /\ queue' = rest
  /\ UNCHANGED <<linkVars, healthVars, attached, pend, storing, callVars, compat, hostVars>>

\* The dispatcher.  `next` is what the drain does after a frame without await.
Handle(f, rest, next) ==
  \/ f = "ready" /\ WelcomeReady(rest) /\ drain' = next
  \/ f = "pairing" /\ WelcomePairing(rest) /\ drain' = next
  \/ f = "invalid" /\ FatalFrame /\ drain' = next
  \/ f = "bye" /\ Bye(rest) /\ drain' = next
  \/ f = "pong" /\ Pong(rest) /\ drain' = next
  \/ f = "response" /\ Response(rest) /\ drain' = next
  \/ f = "replay" /\ Replay(rest) /\ drain' = next
  \/ f = "pair.error" /\ PairError(rest) /\ drain' = next
  \/ f = "pair.ok" /\ PairOk(rest) /\ drain' = "await"
  \/ f = "pair.ok" /\ late /\ FatalFrame /\ drain' = next
  \/ f = "other" /\ Publish(rest) /\ drain' = next

\* What the host may send on this connection.
HostSends(f) ==
  /\ socket # 0
  /\ IF f \in {"ready", "pairing"} THEN ~welcomed ELSE f \in {"invalid", "bye"} \/ welcomed

\* The frames that end a connection are counted as they come.
Count(f) == IF f \in {"bye", "pair.ok"} THEN End ELSE UNCHANGED ends

\* enqueue() with nothing being drained: the frame is handled at once.
Receive(f) ==
  /\ drain = "idle" /\ HostSends(f) /\ f # "other"
  /\ Handle(f, <<>>, "idle") /\ Count(f)

\* The queue has no limit.
EnqueueAny(f) ==
  /\ drain = "await" /\ HostSends(f) /\ f \in {"ready", "pairing", "invalid", "bye", "other"}
  /\ Count(f) /\ Len(queue) <= MaxInbound
  /\ queue' = Append(queue, [gen |-> gen, kind |-> f])
  /\ welcomed' = (welcomed \/ f \in {"ready", "pairing"})
  /\ UNCHANGED <<linkVars, healthVars, attached, pend, drain, storing, callVars, compat,
                 late, swept>>

\* enqueue() behind a credential that is being stored.  Frames that the handler
\* would find nothing to do for, by the time it could run, are all "other".
Enqueue(f) ==
  /\ drain = "await" /\ HostSends(f) /\ f \in {"ready", "pairing", "invalid", "bye", "other"}
  /\ Count(f)
  /\ \/ /\ Len(queue) < MaxInbound
        /\ queue' = Append(queue, [gen |-> gen, kind |-> f])
        /\ welcomed' = (welcomed \/ f \in {"ready", "pairing"})
        /\ UNCHANGED <<linkVars, healthVars, attached, pend, drain, storing, callVars, compat,
                       late, swept>>
     \/ Len(queue) = MaxInbound /\ FatalFrame /\ UNCHANGED drain

\* privilegedPairResult resolves: the pairing is settled and the client
\* reconnects with the credential.  Other requests in flight are left alone.
PairStored ==
  /\ drain = "await" /\ drain' = "loop" /\ storing' = 0
  /\ \/ /\ storing = gen /\ ~closed
        /\ Disconnect(gen + 1) /\ ScheduleReconnect(0)
        /\ pend' = [r \in Slot |-> IF pend[r].storing THEN NoRequest ELSE pend[r]]
        /\ queue' = <<>>
        /\ UNCHANGED <<closed, opening, handshake, pong, probe>>
     \/ /\ storing # gen \/ closed
        /\ UNCHANGED <<linkVars, healthVars, pend, queue, hostVars>>
  /\ UNCHANGED <<attached, callVars, compat, ends>>

\* privilegedPairResult rejects.
PairNotStored ==
  /\ drain = "await" /\ drain' = "loop" /\ storing' = 0
  /\ \/ /\ storing = gen /\ ~closed /\ Fatal /\ queue' = <<>>
        /\ UNCHANGED <<loading, releasing>>
     \/ /\ storing # gen \/ closed
        /\ UNCHANGED <<linkVars, healthVars, pend, queue, callVars, hostVars>>
  /\ UNCHANGED <<attached, compat, ends>>

HeadCurrent == queue # <<>> /\ Head(queue).gen = gen /\ ~closed

\* Two frames are taken where one is handled.
DrainSkips ==
  /\ drain = "loop" /\ HeadCurrent /\ Len(queue) > 1
  /\ Handle(queue[2].kind, Tail(Tail(queue)), "loop") /\ UNCHANGED ends

\* The loop of drain() takes a frame of this connection.
DrainFrame ==
  /\ drain = "loop" /\ HeadCurrent
  /\ Handle(Head(queue).kind, Tail(queue), "loop") /\ UNCHANGED ends

\* The loop ends: on an empty queue, or on a frame of an earlier connection,
\* with which every frame behind it goes.
DrainEnds ==
  /\ drain = "loop" /\ ~HeadCurrent /\ drain' = "idle"
  /\ queue' = <<>>
  /\ swept' = (swept \/ \E i \in DOMAIN queue : queue[i].gen = gen)
  /\ UNCHANGED <<linkVars, healthVars, attached, pend, storing, callVars, compat, welcomed,
                 late, ends>>

-----------------------------------------------------------------------------

Next ==
  \/ Connect \/ Loaded \/ BeginReconnect \/ ReconnectNow
  \/ Close \/ CloseReleased \/ CloseDone
  \/ \E r \in Slot, kind \in {"command", "attach", "pair"} : Send(r, kind)
  \/ \E r \in Slot : GiveUp(r)
  \/ \E g \in opening : OpenedLate(g) \/ Opened(g) \/ OpenFails(g)
  \/ Lost \/ HelloRejected \/ Refused \/ HandshakeTimeout
  \/ HeartbeatTick \/ HeartbeatFailure
  \/ \E f \in Frame : Receive(f) \/ Enqueue(f)
  \/ PairStored \/ PairNotStored \/ DrainFrame \/ DrainEnds

Spec == Init /\ [][Next]_vars

-----------------------------------------------------------------------------

\* What moves the client on is there in every state, and only that: a factory
\* of the current generation while it connects, the armed backoff while it
\* waits, the transport of the current generation with its timer while it
\* shakes hands and with its heartbeat once it is open, nothing in the end.
Driven ==
  /\ socket # 0 <=> state = "handshaking" \/ Open
  /\ socket # 0 => socket = gen
  /\ state = "connecting" <=> gen \in opening /\ state \notin Terminal
  /\ timer <=> state = "reconnect-wait"
  /\ handshake <=> state = "handshaking"
  /\ heartbeat # "off" <=> Open
  /\ closed <=> state \in Terminal

\* A client that is closed or failed owes nobody an answer: no request, no
\* connect() and no frame is left behind.
EndsSettled ==
  state \in Terminal => ~waiting /\ queue = <<>> /\ Free = Slot

\* Every command in flight was sent on the transport that is attached, so that
\* its response can still come; a pairing may outlive the connection that
\* another pairing ended, up to its timeout.
RequestsLive ==
  \A r \in Slot : pend[r].kind \in {"command", "attach"} => pend[r].gen = socket

\* The count of failed attempts is only cleared by a connection on which the
\* attached session has been attached again and its replay is complete.
BudgetEarned == attempt = 0 => probe = "none"

\* A welcome that reached the client while it shakes hands is still going to be
\* handled, unless it was dropped with the frames of an earlier connection that
\* were ahead of it.
WelcomeKept ==
  state = "handshaking" /\ welcomed =>
    swept \/ \E i \in DOMAIN queue : queue[i].gen = gen /\ queue[i].kind \in {"ready", "pairing"}

\* A client that is not open connects, or ends.
Recovers ==
  state \notin Terminal ~> Open \/ state \in Terminal

=============================================================================
