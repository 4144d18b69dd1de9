----------------------- MODULE ClientConnectionProofs -----------------------
(***************************************************************************)
(* Proofs about ClientConnection, for any number of requests in flight, of *)
(* frames in the queue and of connections, one after the other.            *)
(*                                                                         *)
(* Driven, EndsSettled, RequestsLive, BudgetEarned and WelcomeKept are not *)
(* inductive.  ConnectionInv adds what ties every piece of state to the    *)
(* generation it belongs to: factories, requests, frames and the           *)
(* credential that is being stored are of this generation or of an earlier *)
(* one, and of this one only while its transport is attached; and a        *)
(* connection gets one welcome, which is handled or in the queue.          *)
(***************************************************************************)
EXTENDS ClientConnection, TLAPS

Item == [gen : Nat, kind : Frame]
Hello == {"ready", "pairing"}
Command == {"command", "attach"}

\* Factories were asked for by this generation or by an earlier one.
Factories == \A g \in opening : 1 <= g /\ g <= gen

\* So were requests sent: a pairing while pairing, and commands by this one only,
\* once it is ready.
Requests ==
  \A r \in Slot :
    /\ pend[r].kind # "none" => pend[r].gen <= gen
    /\ pend[r].kind = "pair" /\ pend[r].gen = gen => state = "pairing"
    /\ pend[r].kind \in Command => pend[r].gen = gen /\ state = "ready"

\* So was the credential that is being stored.
Credential ==
  drain = "await" => storing <= gen /\ (storing = gen /\ ~closed => state = "pairing")

\* Frame `i` of queue `q` is the welcome of this connection.
WelcomeIn(q, i) == q[i].gen = gen /\ q[i].kind \in Hello

\* So were frames queued; and the welcome once, while shaking hands.
FramesIn(q) ==
  /\ \A i \in 1 .. Len(q) : q[i].gen <= gen /\ (q[i].gen = gen => socket # 0)
  /\ \A i \in 1 .. Len(q) : WelcomeIn(q, i) => welcomed /\ state = "handshaking"
  /\ \A i, j \in 1 .. Len(q) : WelcomeIn(q, i) /\ WelcomeIn(q, j) => i = j

Frames == FramesIn(queue) /\ (drain = "idle" => queue = <<>>)

Welcomed == (Open => welcomed) /\ (welcomed => socket # 0)

KeptIn(q) ==
  state = "handshaking" /\ welcomed => swept \/ \E i \in 1 .. Len(q) : WelcomeIn(q, i)

Kept == KeptIn(queue)

\* A session is attached again only on a connection that counts as an attempt.
Attempts ==
  /\ probe # "none" => state = "ready" /\ attempt > 0
  /\ attached /\ state \in {"idle", "connecting", "handshaking", "reconnect-wait"} => attempt > 0

ConnectionInv ==
  /\ TypeOK /\ Driven /\ EndsSettled
  /\ Factories /\ Requests /\ Credential /\ Frames /\ Welcomed /\ Kept /\ Attempts

-----------------------------------------------------------------------------
(* The initial state, and the end of a connection                           *)

\* A client that was just created has the invariant.
LEMMA ConnectionInitial == Init => ConnectionInv
<1> SUFFICES ASSUME Init PROVE ConnectionInv
  OBVIOUS
<1>1. NoRequest \in Request /\ queue \in Seq(Item) /\ Len(queue) = 0
  BY DEF Init, NoRequest, Request, Item
<1>2. Len(queue) <= MaxInbound /\ ends \in 0 .. MaxEnds
  BY <1>1, BoundAssumption DEF Init
<1>3. TypeOK
  BY <1>1, <1>2, Zenon DEF Init, TypeOK, State, Item
<1>4. Driven /\ EndsSettled
  BY Zenon DEF Init, Driven, EndsSettled, Open, Terminal
<1>5. Factories /\ Requests /\ Credential /\ Frames
  BY <1>1 DEF Init, Factories, Requests, Credential, Frames, FramesIn, NoRequest,
                 Command
<1>6. Welcomed /\ Kept /\ Attempts
  BY Zenon DEF Init, Welcomed, Kept, KeptIn, Attempts, Open
<1> QED
  BY <1>3, <1>4, <1>5, <1>6, Zenon DEF ConnectionInv

\* TypeOK in two parts: the connection, and what is carried over it.
LinkTyped ==
  /\ state \in State /\ closed \in BOOLEAN
  /\ gen \in Nat /\ opening \subseteq Nat /\ socket \in Nat
  /\ timer \in BOOLEAN /\ attempt \in Nat
  /\ handshake \in BOOLEAN /\ heartbeat \in {"off", "resting", "pinged"}
  /\ pong \in BOOLEAN /\ probe \in {"none", "open", "answered"}

CarriedTyped ==
  /\ attached \in BOOLEAN /\ pend \in [Slot -> Request]
  /\ queue \in Seq(Item) /\ Len(queue) <= MaxInbound
  /\ drain \in {"idle", "await", "loop"} /\ storing \in Nat
  /\ waiting \in BOOLEAN /\ loading \in BOOLEAN /\ releasing \in BOOLEAN
  /\ compat \in BOOLEAN /\ welcomed \in BOOLEAN /\ late \in BOOLEAN /\ swept \in BOOLEAN
  /\ ends \in 0 .. MaxEnds

\* The type invariant is that of the link and that of what it carries.
LEMMA Typed == TypeOK <=> LinkTyped /\ CarriedTyped
  BY Zenon DEF TypeOK, LinkTyped, CarriedTyped, Item

\* ... and the same after a step.
LEMMA TypedNext == LinkTyped' /\ CarriedTyped' => TypeOK'
  BY Zenon DEF TypeOK, LinkTyped, CarriedTyped, Item

\* What every end of a connection does: the generation moves on, and nothing
\* of the old one is left but frames and a credential that are now stale.
Over ==
  /\ gen' \in Nat /\ gen' > gen
  /\ socket' = 0 /\ heartbeat' = "off" /\ handshake' = FALSE /\ pong' \in BOOLEAN
  /\ probe' = "none" /\ welcomed' = FALSE /\ late' \in BOOLEAN /\ swept' \in BOOLEAN
  /\ storing' \in Nat /\ drain' \in {"idle", "await", "loop"}
  /\ drain' = "await" => storing' <= gen
  /\ attempt' \in Nat /\ ends' \in 0 .. MaxEnds
  /\ attached' \in BOOLEAN /\ waiting' \in BOOLEAN /\ loading' \in BOOLEAN
  /\ releasing' \in BOOLEAN /\ compat' \in BOOLEAN

\* The frames that stay in the queue were there before.
Remains ==
  /\ queue' \in Seq(Item) /\ Len(queue') <= MaxInbound
  /\ \A i \in 1 .. Len(queue') : queue'[i].gen <= gen
  /\ drain' = "idle" => queue' = <<>>

\* So were the requests, and none is a command.
Dropped ==
  /\ pend' \in [Slot -> Request]
  /\ \A r \in Slot : pend'[r].kind # "none" => pend'[r].gen <= gen /\ pend'[r].kind = "pair"

\* Where the client goes from there.
Retries ==
  /\ closed' = FALSE /\ (attached' => attempt' > 0)
  /\ \/ state' = "reconnect-wait" /\ timer' = TRUE /\ opening' \subseteq opening
     \/ state' = "connecting" /\ timer' = FALSE /\ opening' = opening \cup {gen'}

Stops ==
  /\ state' \in Terminal /\ closed' = TRUE /\ timer' = FALSE /\ opening' \subseteq opening
  /\ waiting' = FALSE /\ queue' = <<>> /\ \A r \in Slot : pend'[r] = NoRequest

\* Every end of a connection keeps the invariant.
LEMMA Ended ==
  ASSUME ConnectionInv, Over, Remains, Dropped, Retries \/ Stops
  PROVE  ConnectionInv'
<1>0. TypeOK /\ Factories
  BY Zenon DEF ConnectionInv
<1>1. gen \in Nat /\ opening \subseteq Nat
  BY <1>0, Zenon DEF TypeOK
<1>2. opening' \subseteq Nat /\ \A g \in opening' : 1 <= g /\ g <= gen'
  <2>1. opening' \subseteq opening \cup {gen'}
    BY Zenon DEF Retries, Stops
  <2>2. gen' \in Nat /\ gen < gen'
    BY Zenon DEF Over
  <2>3. 1 <= gen'
    BY <1>1, <2>2
  <2>4. \A g \in opening : 1 <= g /\ g <= gen'
    BY <1>0, <1>1, <2>2 DEF Factories
  <2> QED
    BY <1>1, <2>1, <2>2, <2>3, <2>4
<1>3. state' \in State /\ timer' \in BOOLEAN /\ closed' \in BOOLEAN
  BY Zenon DEF Retries, Stops, State, Terminal
<1>4. TypeOK'
  BY <1>2, <1>3, Zenon DEF TypeOK, Over, Remains, Dropped, Item
<1>5. gen' \notin opening
  BY <1>0, <1>1 DEF Factories, Over
<1>6. Driven'
  BY <1>5, Zenon DEF Driven, Over, Retries, Stops, Terminal, Open
<1>7. EndsSettled'
  BY Zenon DEF EndsSettled, Retries, Stops, Free, Terminal
<1>8. Requests'
  BY <1>1, <1>4 DEF Requests, Dropped, Over, Command, TypeOK, Request
<1>9. Credential'
  BY <1>1 DEF Credential, Over
<1>10. \A i \in 1 .. Len(queue') : queue'[i].gen <= gen' /\ queue'[i].gen # gen'
  <2>1. gen' \in Nat /\ gen < gen'
    BY Zenon DEF Over
  <2>2. ASSUME NEW i \in 1 .. Len(queue')
        PROVE  queue'[i].gen \in Nat /\ queue'[i].gen <= gen
    <3>1. queue'[i] \in Item
      BY <2>2 DEF Remains
    <3> QED
      BY <2>2, <3>1, Zenon DEF Remains, Item
  <2> QED
    BY <1>1, <2>1, <2>2
<1>11. Frames'
  BY <1>10, Zenon DEF Frames, FramesIn, WelcomeIn, Remains
<1>12. Welcomed' /\ Kept' /\ Attempts'
  BY Zenon DEF Welcomed, Kept, KeptIn, Attempts, Over, Retries, Stops, Open, Terminal
<1> QED
  BY <1>2, <1>4, <1>6, <1>7, <1>8, <1>9, <1>11, <1>12, Zenon DEF ConnectionInv, Factories

\* The frames behind the first one.
LEMMA TailFacts ==
  ASSUME NEW S, NEW q \in Seq(S), q # <<>>
  PROVE  /\ Tail(q) \in Seq(S) /\ Len(q) \in Nat /\ Len(Tail(q)) = Len(q) - 1
         /\ Len(q) >= 1 /\ Head(q) = q[1]
         /\ \A i \in 1 .. Len(Tail(q)) : Tail(q)[i] = q[i + 1] /\ i + 1 \in 1 .. Len(q)
  OBVIOUS

\* The count of connections stays within its bound.
LEMMA Counted ==
  ASSUME TypeOK, End \/ ends' = ends
  PROVE  ends' \in 0 .. MaxEnds
  BY BoundAssumption DEF TypeOK, End

\* Drop() is such an end, and settles every request.
LEMMA DropIsOver ==
  ASSUME ConnectionInv, NEW g \in {gen + 1, gen + 2}, Drop(g),
         storing' \in {storing, 0}, drain' \in {drain, "idle", "loop"},
         attempt' \in {attempt, attempt + 1}, End \/ ends' = ends,
         attached' = attached, waiting' \in {waiting, FALSE}, loading' = loading,
         releasing' \in {releasing, FALSE}, compat' \in {compat, TRUE}
  PROVE  Over /\ Dropped /\ \A r \in Slot : pend'[r] = NoRequest
<1>0. TypeOK /\ Credential
  BY Zenon DEF ConnectionInv
<1>1. g \in Nat /\ g > gen /\ attempt' \in Nat
  BY <1>0 DEF TypeOK
<1>2. ends' \in 0 .. MaxEnds
  BY <1>0, Counted, Zenon
<1>3. storing' \in Nat /\ (drain' = "await" => storing' <= gen)
  BY <1>0 DEF Credential, TypeOK
<1>4. Over
  BY Zenon, <1>0, <1>1, <1>2, <1>3 DEF Over, Drop, Disconnect, TypeOK
<1>5. pend' = [r \in Slot |-> NoRequest]
  BY Zenon DEF Drop, SettleAll
<1>6. NoRequest \in Request /\ NoRequest.kind = "none"
  BY Zenon DEF NoRequest, Request
<1>7. pend' \in [Slot -> Request] /\ \A r \in Slot : pend'[r] = NoRequest
  BY <1>5, <1>6, Zenon
<1> QED
  BY <1>4, <1>6, <1>7, Zenon DEF Dropped

\* The queue is left as it is, cleared, or loses its first frame.
LEMMA QueueRemains ==
  ASSUME ConnectionInv,
         \/ queue' = queue /\ drain' = drain
         \/ queue' = <<>>
         \/ queue # <<>> /\ queue' = Tail(queue) /\ drain' # "idle"
  PROVE  Remains
<1>0. /\ queue \in Seq(Item) /\ Len(queue) <= MaxInbound /\ MaxInbound \in Nat
      /\ \A i \in 1 .. Len(queue) : queue[i].gen <= gen
      /\ drain = "idle" => queue = <<>>
  BY BoundAssumption, Zenon DEF ConnectionInv, TypeOK, Frames, FramesIn, Item
<1>1. CASE queue' = queue /\ drain' = drain
  BY <1>0, <1>1, Zenon DEF Remains
<1>2. CASE queue' = <<>>
  BY <1>0, <1>2 DEF Remains
<1>3. CASE queue # <<>> /\ queue' = Tail(queue) /\ drain' # "idle"
  <2>1. /\ Tail(queue) \in Seq(Item) /\ Len(queue) \in Nat
        /\ Len(Tail(queue)) = Len(queue) - 1
        /\ \A i \in 1 .. Len(Tail(queue)) :
             Tail(queue)[i] = queue[i + 1] /\ i + 1 \in 1 .. Len(queue)
    BY <1>0, <1>3, TailFacts, Zenon
  <2>3. \A i \in 1 .. Len(Tail(queue)) : Tail(queue)[i].gen <= gen
    BY <1>0, <2>1, Zenon
  <2>4. Len(Tail(queue)) <= MaxInbound
    <3> DEFINE n == Len(queue)
               m == Len(Tail(queue))
    <3>1. n \in Nat /\ m = n - 1 /\ n <= MaxInbound /\ MaxInbound \in Nat
      BY <1>0, <2>1, Zenon
    <3> HIDE DEF n, m
    <3>2. m <= MaxInbound
      BY <3>1
    <3> QED
      BY <3>2, Zenon DEF m
  <2> QED
    BY <1>3, <2>1, <2>3, <2>4, Zenon DEF Remains
<1> QED
  BY <1>1, <1>2, <1>3, Zenon

\* Lose, on a connection that is not over: the backoff begins.
LEMMA LoseEnds ==
  ASSUME ConnectionInv, Lose, ~closed, Remains,
         storing' = storing, drain' \in {drain, "idle", "loop"}, End \/ ends' = ends,
         attached' = attached, loading' = loading, releasing' = releasing,
         compat' \in {compat, TRUE}
  PROVE  ConnectionInv'
<1>0. attempt \in Nat /\ closed = FALSE
  BY Zenon DEF ConnectionInv, TypeOK
<1>1. Drop(gen + 1) /\ attempt' = attempt + 1 /\ waiting' = waiting
  BY Zenon DEF Lose, ScheduleReconnect
<1>2. Over /\ Dropped
  BY <1>1, DropIsOver, Zenon
<1>3. Retries
  BY <1>0, <1>1 DEF Lose, ScheduleReconnect, Retries
<1> QED
  BY <1>2, <1>3, Ended, Zenon

\* Fatal, with the queue cleared.
LEMMA FatalEnds ==
  ASSUME ConnectionInv, Fatal, queue' = <<>>,
         storing' \in {storing, 0}, drain' \in {drain, "idle", "loop"}, End \/ ends' = ends,
         attached' = attached, loading' = loading, releasing' = releasing, compat' = compat
  PROVE  ConnectionInv'
<1>1. Drop(gen + 1) /\ attempt' = attempt /\ waiting' = FALSE
  BY Zenon DEF Fatal
<1>2. Over /\ Dropped /\ \A r \in Slot : pend'[r] = NoRequest
  BY <1>1, DropIsOver, Zenon
<1>3. Remains
  BY QueueRemains, Zenon
<1>4. Stops
  BY <1>2, Zenon DEF Fatal, Stops, Terminal
<1> QED
  BY <1>2, <1>3, <1>4, Ended, Zenon

\* CloseNow.
LEMMA CloseEnds ==
  ASSUME ConnectionInv, CloseNow, releasing' \in {releasing, FALSE}
  PROVE  ConnectionInv'
<1>1. /\ Drop(gen + 1) /\ attempt' = attempt /\ waiting' = FALSE /\ storing' = storing
      /\ drain' = drain /\ ends' = ends /\ attached' = attached /\ loading' = loading
      /\ compat' = compat /\ queue' = <<>>
  BY Zenon DEF CloseNow
<1>2. Over /\ Dropped /\ \A r \in Slot : pend'[r] = NoRequest
  BY <1>1, DropIsOver, Zenon
<1>3. Remains
  BY <1>1, QueueRemains, Zenon
<1>4. Stops
  BY <1>2, Zenon DEF CloseNow, Stops, Terminal
<1> QED
  BY <1>2, <1>3, <1>4, Ended, Zenon

-----------------------------------------------------------------------------
(* Calls of the user, the transport and the timers                          *)

\* A transport is asked for, from a state without one.
LEMMA Begun ==
  ASSUME ConnectionInv, state \in {"idle", "reconnect-wait"}, Begin(gen),
         state' = "connecting", timer' = FALSE, closed' = FALSE,
         waiting' \in BOOLEAN, loading' \in BOOLEAN,
         UNCHANGED <<socket, attempt, healthVars, attached, pend, inboundVars, releasing, compat,
                     hostVars, ends>>
  PROVE  ConnectionInv'
<1>0. TypeOK /\ Driven /\ Requests /\ Credential /\ Welcomed /\ Attempts
  BY Zenon DEF ConnectionInv
<1>1. /\ socket' = socket /\ attempt' = attempt /\ handshake' = handshake
      /\ heartbeat' = heartbeat /\ pong' = pong /\ probe' = probe /\ attached' = attached
      /\ pend' = pend /\ queue' = queue /\ drain' = drain /\ storing' = storing
      /\ releasing' = releasing /\ compat' = compat /\ ends' = ends
      /\ welcomed' = welcomed /\ late' = late /\ swept' = swept
  BY Zenon DEF healthVars, inboundVars, hostVars
<1>2. socket = 0 /\ ~handshake /\ heartbeat = "off" /\ probe = "none" /\ ~welcomed
  BY <1>0, Zenon DEF Driven, Open, Welcomed, Attempts
<1>3. gen' \in Nat /\ gen' > gen /\ opening' = opening \cup {gen'}
  BY <1>0 DEF Begin, TypeOK
<1>4. drain = "await" => storing <= gen
  BY <1>0, Zenon DEF Credential
<1>5. Over
  BY <1>0, <1>1, <1>2, <1>3, <1>4, Zenon DEF Over, TypeOK
<1>6. Remains
  BY <1>1, QueueRemains, Zenon
<1>7. Dropped
  BY <1>0, <1>1, Zenon DEF Dropped, Requests, TypeOK, Request, Command
<1>8. Retries
  BY <1>0, <1>1, <1>3 DEF Retries, Attempts
<1> QED
  BY <1>5, <1>6, <1>7, <1>8, Ended, Zenon

\* What the rest of the invariant is about is left as it is.
Unmoved ==
  /\ gen' = gen /\ opening' = opening /\ socket' = socket
  /\ queue' = queue /\ drain' = drain /\ storing' = storing
  /\ attempt' = attempt /\ probe' = probe /\ attached' = attached
  /\ welcomed' = welcomed /\ swept' = swept /\ closed' = closed /\ timer' = timer
  /\ handshake' = handshake /\ (heartbeat' = "off" <=> heartbeat = "off")

\* The flags of the calls in flight, and of the host, are no part of it.
Flags ==
  /\ heartbeat' \in {"off", "resting", "pinged"} /\ pong' \in BOOLEAN
  /\ waiting' \in BOOLEAN /\ loading' \in BOOLEAN /\ releasing' \in BOOLEAN
  /\ compat' \in BOOLEAN /\ late' \in BOOLEAN /\ ends' \in 0 .. MaxEnds
  /\ state \in Terminal => ~waiting'

\* Such a step keeps the types.
LEMMA UnmovedTyped ==
  ASSUME TypeOK, Unmoved, Flags, state' \in State, pend' \in [Slot -> Request]
  PROVE  TypeOK'
  BY ZenonT(30) DEF TypeOK, Unmoved, Flags

\* A step that changes only such flags, or requests, keeps the invariant.
LEMMA RequestsMoved ==
  ASSUME ConnectionInv, Unmoved, Flags, state' = state,
         pend' \in [Slot -> Request], Requests',
         state \in Terminal => \A r \in Slot : pend'[r] = NoRequest
  PROVE  ConnectionInv'
<1>0. TypeOK'
  BY UnmovedTyped, Zenon DEF ConnectionInv, TypeOK
<1>1. Driven'
  BY Zenon DEF ConnectionInv, Driven, Unmoved, Open
<1>2. EndsSettled'
  BY Zenon DEF ConnectionInv, EndsSettled, Unmoved, Flags, Free
<1>3. Factories'
  BY Zenon DEF ConnectionInv, Factories, Unmoved
<1>4. Credential'
  BY Zenon DEF ConnectionInv, Credential, Unmoved
<1>5. Frames'
  BY SMTT(30) DEF ConnectionInv, Frames, FramesIn, WelcomeIn, Unmoved
<1>6. Welcomed' /\ Kept' /\ Attempts'
  BY Zenon DEF ConnectionInv, Welcomed, Open, Kept, KeptIn, WelcomeIn, Attempts, Unmoved
<1> QED
  BY <1>0, <1>1, <1>2, <1>3, <1>4, <1>5, <1>6, Zenon DEF ConnectionInv

\* A step that leaves the connection and its requests alone keeps the invariant.
LEMMA UnmovedKeeps ==
  ASSUME ConnectionInv, Unmoved, Flags, state' = state, pend' = pend
  PROVE  ConnectionInv'
<1>1. pend' \in [Slot -> Request]
  BY Zenon DEF ConnectionInv, TypeOK
<1>2. Requests'
  BY Zenon DEF ConnectionInv, Requests, Unmoved, Open
<1>3. state \in Terminal => \A r \in Slot : pend'[r] = NoRequest
  BY Zenon DEF ConnectionInv, EndsSettled, Free
<1> QED
  BY <1>1, <1>2, <1>3, RequestsMoved, Zenon

\* connect() up to its await.
LEMMA ConnectKeeps ==
  ASSUME ConnectionInv, Connect
  PROVE  ConnectionInv'
<1>0. TypeOK /\ EndsSettled
  BY Zenon DEF ConnectionInv
<1>1. /\ Unmoved /\ state' = state /\ pend' = pend
      /\ heartbeat' = heartbeat /\ pong' = pong /\ waiting' = waiting
      /\ loading' = TRUE /\ releasing' = releasing /\ compat' = compat /\ late' = late
      /\ ends' = ends
  BY Zenon DEF Connect, Unmoved, linkVars, healthVars, inboundVars, hostVars
<1>2. Flags
  BY <1>0, <1>1, Zenon DEF Flags, TypeOK, EndsSettled
<1> QED
  BY <1>1, <1>2, UnmovedKeeps, Zenon

\* The rest of connect().
LEMMA LoadedKeeps ==
  ASSUME ConnectionInv, Loaded
  PROVE  ConnectionInv'
<1>0. TypeOK /\ Driven /\ EndsSettled
  BY Zenon DEF ConnectionInv
<1>1. waiting' \in BOOLEAN /\ loading' \in BOOLEAN
  BY <1>0, Zenon DEF Loaded, TypeOK
<1>2. CASE state = "idle"
  <2>1. timer' = FALSE
    BY <1>0, <1>2, Zenon DEF TypeOK, Driven, Loaded
  <2>2. Begin(gen) /\ state' = "connecting" /\ closed' = FALSE
    BY <1>2, Zenon DEF Loaded
  <2>3. UNCHANGED <<socket, attempt, healthVars, attached, pend, inboundVars, releasing, compat,
                    hostVars, ends>>
    BY Zenon DEF Loaded
  <2> QED
    BY <1>1, <1>2, <2>1, <2>2, <2>3, Begun, Zenon
<1>3. CASE state # "idle"
  <2>1. /\ Unmoved /\ state' = state /\ pend' = pend
        /\ heartbeat' = heartbeat /\ pong' = pong
        /\ releasing' = releasing /\ compat' = compat /\ late' = late /\ ends' = ends
    BY <1>3, Zenon DEF Loaded, Unmoved, healthVars, inboundVars, hostVars
  <2>2. state \in Terminal => ~waiting'
    BY <1>0, Zenon DEF EndsSettled, Loaded
  <2>3. Flags
    BY <1>0, <1>1, <2>1, <2>2, Zenon DEF Flags, TypeOK
  <2> QED
    BY <2>1, <2>3, UnmovedKeeps, Zenon
<1> QED
  BY <1>2, <1>3, Zenon

\* The end of close().
LEMMA CloseDoneKeeps ==
  ASSUME ConnectionInv, CloseDone
  PROVE  ConnectionInv'
<1>0. TypeOK /\ Driven /\ EndsSettled
  BY Zenon DEF ConnectionInv
<1>1. /\ Unmoved /\ heartbeat' = heartbeat /\ pong' = pong /\ waiting' = waiting
      /\ loading' = loading /\ releasing' = releasing /\ compat' = compat /\ late' = late
      /\ ends' = ends /\ state = "closing" /\ state' = "closed" /\ pend' = pend
  BY Zenon DEF CloseDone, Unmoved, healthVars, inboundVars, hostVars, callVars
<1>2. Flags /\ state' \in State /\ pend' \in [Slot -> Request]
  <2>1. state' \in State
    BY <1>1, Zenon DEF State
  <2> QED
    BY <1>0, <1>1, <2>1, Zenon DEF Flags, TypeOK, EndsSettled
<1>3. TypeOK'
  BY <1>0, <1>1, <1>2, UnmovedTyped, Zenon
<1>4. Driven' /\ EndsSettled'
  BY <1>0, <1>1, Zenon DEF Unmoved, Driven, EndsSettled, Open, Terminal, Free
<1>5. Factories' /\ Requests' /\ Credential'
  BY <1>1, Zenon DEF Unmoved, ConnectionInv, Factories, Requests, Credential, Open
<1>6. Frames'
  BY <1>1, Zenon DEF Unmoved, ConnectionInv, Frames, FramesIn, WelcomeIn
<1>7. Welcomed' /\ Kept' /\ Attempts'
  BY <1>1, Zenon DEF Unmoved, ConnectionInv, Welcomed, Open, Kept, KeptIn, Attempts
<1> QED
  BY <1>3, <1>4, <1>5, <1>6, <1>7, Zenon DEF ConnectionInv

\* close(), before and after the preview leases are released.
LEMMA CloseKeeps ==
  ASSUME ConnectionInv, Close \/ CloseReleased
  PROVE  ConnectionInv'
<1>0. TypeOK /\ EndsSettled
  BY Zenon DEF ConnectionInv
<1>1. CASE CloseNow /\ releasing' \in {releasing, FALSE}
  BY <1>1, CloseEnds, Zenon
<1>2. CASE /\ releasing' = TRUE
           /\ UNCHANGED <<linkVars, healthVars, attached, pend, inboundVars, waiting, loading,
                          compat, hostVars, ends>>
  <2>1. /\ Unmoved /\ state' = state /\ pend' = pend
        /\ heartbeat' = heartbeat /\ pong' = pong /\ waiting' = waiting
        /\ loading' = loading /\ releasing' = TRUE /\ compat' = compat /\ late' = late
        /\ ends' = ends
    BY <1>2, Zenon DEF Unmoved, linkVars, healthVars, inboundVars, hostVars
  <2>2. Flags
    BY <1>0, <2>1, Zenon DEF Flags, TypeOK, EndsSettled
  <2> QED
    BY <2>1, <2>2, UnmovedKeeps, Zenon
<1> QED
  BY <1>1, <1>2, Zenon DEF Close, CloseReleased

\* The reconnect timer.
LEMMA BeginReconnectKeeps ==
  ASSUME ConnectionInv, BeginReconnect
  PROVE  ConnectionInv'
<1>0. TypeOK /\ Driven
  BY Zenon DEF ConnectionInv
<1>1. state = "reconnect-wait" /\ closed = FALSE
  BY <1>0, Zenon DEF BeginReconnect, Driven, TypeOK, Terminal
<1>2. waiting' \in BOOLEAN /\ loading' \in BOOLEAN
  BY <1>0, Zenon DEF BeginReconnect, callVars, TypeOK
<1>3. /\ Begin(gen) /\ state' = "connecting" /\ timer' = FALSE /\ closed' = FALSE
      /\ UNCHANGED <<socket, attempt, healthVars, attached, pend, inboundVars, releasing, compat,
                     hostVars, ends>>
  BY <1>1, Zenon DEF BeginReconnect, callVars
<1> QED
  BY <1>1, <1>2, <1>3, Begun, Zenon

\* reconnectNow() on an open connection.
LEMMA ReconnectNowKeeps ==
  ASSUME ConnectionInv, ReconnectNow
  PROVE  ConnectionInv'
<1>0. TypeOK /\ Driven
  BY Zenon DEF ConnectionInv
<1>1. closed = FALSE /\ attempt \in Nat
  BY <1>0, Zenon DEF ReconnectNow, Driven, TypeOK, Open, Terminal
<1>2. /\ End /\ Drop(gen + 2) /\ attempt' = attempt + 1 /\ closed' = closed
      /\ attached' = attached /\ queue' = queue /\ drain' = drain /\ storing' = storing
      /\ waiting' = waiting /\ loading' = loading /\ releasing' = releasing
      /\ compat' = compat
  BY Zenon DEF ReconnectNow, inboundVars, callVars
<1>3. Over /\ Dropped
  BY <1>2, DropIsOver, Zenon
<1>4. Remains
  BY <1>2, QueueRemains, Zenon
<1>5. gen' = gen + 2
  BY <1>2, Zenon DEF Drop, Disconnect
<1>6. Retries
  BY <1>1, <1>2, <1>5 DEF ReconnectNow, Retries
<1> QED
  BY <1>3, <1>4, <1>6, Ended, Zenon

\* The transport is lost, or the hello is answered by "invalid frame".
LEMMA LostKeeps ==
  ASSUME ConnectionInv, Lost \/ HelloRejected \/ HeartbeatFailure
  PROVE  ConnectionInv'
<1>1. ~closed
  BY Zenon DEF ConnectionInv, Driven, Lost, HelloRejected, HeartbeatFailure, Open, Terminal
<1>2. /\ Lose /\ End /\ attached' = attached /\ queue' = queue /\ drain' = drain
      /\ storing' = storing /\ loading' = loading /\ releasing' = releasing
      /\ compat' \in {compat, TRUE}
  BY Zenon DEF Lost, HelloRejected, HeartbeatFailure, inboundVars
<1>3. Remains
  BY <1>2, QueueRemains, Zenon
<1> QED
  BY <1>1, <1>2, <1>3, LoseEnds, Zenon

\* The host refuses the client, or does not welcome it in time.
LEMMA RefusedKeeps ==
  ASSUME ConnectionInv, Refused \/ HandshakeTimeout
  PROVE  ConnectionInv'
<1>1. /\ Fatal /\ queue' = <<>> /\ attached' = attached /\ drain' = drain
      /\ storing' = storing /\ loading' = loading /\ releasing' = releasing
      /\ compat' = compat /\ ends' = ends
  BY Zenon DEF Refused, HandshakeTimeout
<1> QED
  BY <1>1, FatalEnds, Zenon

\* The factory fails.
LEMMA OpenFailsKeeps ==
  ASSUME ConnectionInv, NEW g, OpenFails(g)
  PROVE  ConnectionInv'
<1>0. TypeOK
  BY Zenon DEF ConnectionInv
<1>1. closed = FALSE /\ attempt \in Nat
  BY <1>0, Zenon DEF OpenFails, Stale, TypeOK
<1>2. /\ End /\ Drop(gen + 1) /\ ScheduleReconnect(attempt) /\ closed' = closed
      /\ opening' = opening \ {g}
      /\ attached' = attached /\ queue' = queue /\ drain' = drain /\ storing' = storing
      /\ waiting' = waiting /\ loading' = loading /\ releasing' = releasing
      /\ compat' = compat
  BY Zenon DEF OpenFails, inboundVars, callVars
<1>3. attempt' = attempt + 1
  BY <1>2, Zenon DEF ScheduleReconnect
<1>4. Over /\ Dropped
  BY <1>2, <1>3, DropIsOver, Zenon
<1>5. Remains
  BY <1>2, QueueRemains, Zenon
<1>6. Retries
  BY <1>1, <1>2 DEF ScheduleReconnect, Retries
<1> QED
  BY <1>4, <1>5, <1>6, Ended, Zenon

\* A request is sent, or given up.
LEMMA SendKeeps ==
  ASSUME ConnectionInv, NEW r \in Slot, NEW kind \in {"command", "attach", "pair"}, Send(r, kind)
  PROVE  ConnectionInv'
<1>0. TypeOK /\ Requests /\ EndsSettled
  BY Zenon DEF ConnectionInv
<1> DEFINE sent == [kind |-> kind, gen |-> gen, storing |-> FALSE]
<1>1. sent \in Request /\ sent.kind = kind /\ sent.gen = gen
  BY <1>0, Zenon DEF TypeOK, Request
<1> HIDE DEF sent
<1>2. pend' = [pend EXCEPT ![r] = sent]
  BY Zenon DEF Send, sent
<1>3. /\ Unmoved /\ state' = state /\ heartbeat' = heartbeat /\ pong' = pong
      /\ waiting' = waiting /\ loading' = loading /\ releasing' = releasing
      /\ compat' = compat /\ late' = late /\ ends' = ends
  BY Zenon DEF Send, Unmoved, linkVars, healthVars, inboundVars, callVars, hostVars
<1>4. Flags
  BY <1>0, <1>3, Zenon DEF Flags, TypeOK, EndsSettled
<1>5. pend' \in [Slot -> Request]
  BY <1>0, <1>1, <1>2, Zenon DEF TypeOK
<1>6. /\ Open /\ state \notin Terminal
      /\ kind \in Command => state = "ready"
      /\ kind = "pair" => state = "pairing"
  BY Zenon DEF Send, Open, Terminal, Command
<1>7. gen' = gen /\ state' = state
  BY <1>3, Zenon DEF Unmoved
<1>8. Requests'
  BY <1>0, <1>1, <1>2, <1>6, <1>7 DEF Requests, Open, TypeOK
<1> QED
  BY <1>3, <1>4, <1>5, <1>6, <1>8, RequestsMoved, Zenon

\* A request whose caller gives up leaves its slot free.
LEMMA GiveUpKeeps ==
  ASSUME ConnectionInv, NEW r \in Slot, GiveUp(r)
  PROVE  ConnectionInv'
<1>0. TypeOK /\ Requests /\ EndsSettled
  BY Zenon DEF ConnectionInv
<1>1. NoRequest \in Request /\ NoRequest.kind = "none"
  BY Zenon DEF NoRequest, Request
<1>2. pend' = [pend EXCEPT ![r] = NoRequest]
  BY Zenon DEF GiveUp
<1>3. /\ Unmoved /\ state' = state /\ heartbeat' = heartbeat /\ pong' = pong
      /\ waiting' = waiting /\ loading' = loading /\ releasing' = releasing
      /\ compat' = compat /\ ends' = ends
  BY Zenon DEF GiveUp, Unmoved, linkVars, healthVars, inboundVars, callVars
<1>4. late' \in BOOLEAN
  BY <1>0, Zenon DEF GiveUp, TypeOK
<1>5. Flags
  BY <1>0, <1>3, <1>4, Zenon DEF Flags, TypeOK, EndsSettled
<1>6. pend' \in [Slot -> Request]
  BY <1>0, <1>1, <1>2, Zenon DEF TypeOK
<1>7. gen' = gen /\ state' = state
  BY <1>3, Zenon DEF Unmoved
<1>8. Requests'
  BY <1>0, <1>1, <1>2, <1>7, Zenon DEF Requests, Open, TypeOK, Command
<1>9. state \in Terminal => \A q \in Slot : pend'[q] = NoRequest
  BY <1>0, <1>2, Zenon DEF EndsSettled, Free, TypeOK
<1> QED
  BY <1>3, <1>5, <1>6, <1>8, <1>9, RequestsMoved, Zenon

\* A ping is sent.
LEMMA HeartbeatTickKeeps ==
  ASSUME ConnectionInv, HeartbeatTick
  PROVE  ConnectionInv'
<1>0. TypeOK /\ EndsSettled
  BY Zenon DEF ConnectionInv
<1>1. /\ Unmoved /\ state' = state /\ pend' = pend /\ heartbeat' = "pinged" /\ pong' = pong
      /\ waiting' = waiting /\ loading' = loading /\ releasing' = releasing
      /\ compat' = compat /\ late' = late /\ ends' = ends
  BY Zenon DEF HeartbeatTick, Unmoved, linkVars, inboundVars, callVars, hostVars
<1>2. Flags
  BY <1>0, <1>1, Zenon DEF Flags, TypeOK, EndsSettled
<1> QED
  BY <1>1, <1>2, UnmovedKeeps, Zenon

\* A factory settles for a generation that is over.
LEMMA OpenedLateKeeps ==
  ASSUME ConnectionInv, NEW g, OpenedLate(g)
  PROVE  ConnectionInv'
<1>0. TypeOK /\ Driven /\ EndsSettled /\ Factories
  BY Zenon DEF ConnectionInv
<1>a. opening' = opening \ {g}
  BY Zenon DEF OpenedLate
<1>b. /\ state' = state /\ closed' = closed /\ gen' = gen
      /\ socket' = socket /\ timer' = timer /\ attempt' = attempt /\ handshake' = handshake
      /\ heartbeat' = heartbeat /\ pong' = pong /\ probe' = probe
  BY Zenon DEF OpenedLate, healthVars
<1>c. /\ attached' = attached /\ pend' = pend /\ queue' = queue /\ drain' = drain
      /\ storing' = storing /\ waiting' = waiting /\ loading' = loading
      /\ releasing' = releasing /\ compat' = compat /\ welcomed' = welcomed
      /\ late' = late /\ swept' = swept /\ ends' = ends
  BY Zenon DEF OpenedLate, inboundVars, callVars, hostVars
<1>1. LinkTyped /\ CarriedTyped
  BY <1>0, Typed, Zenon
<1>2. opening' \subseteq Nat /\ opening' \subseteq opening
  BY <1>0, <1>a, Zenon DEF TypeOK
<1>3. TypeOK'
  <2>1. LinkTyped'
    BY <1>1, <1>b, <1>2, Zenon DEF LinkTyped
  <2>2. CarriedTyped'
    BY Zenon, <1>1, <1>c DEF CarriedTyped
  <2> QED
    BY <2>1, <2>2, TypedNext, Zenon
<1>4. state \notin Terminal /\ gen \in opening => gen \in opening'
  BY <1>0, <1>a, Zenon DEF OpenedLate, Stale, Driven
<1>5. Driven'
  BY <1>0, <1>b, <1>2, <1>4, Zenon DEF Driven, Open
<1>6. EndsSettled' /\ Factories'
  BY <1>0, <1>b, <1>c, <1>2, Zenon DEF EndsSettled, Factories, Free
<1>7. Requests' /\ Credential'
  BY ZenonT(30), <1>b, <1>c DEF ConnectionInv, Requests, Credential, Open
<1>8. Frames'
  BY ZenonT(30), <1>b, <1>c DEF ConnectionInv, Frames, FramesIn, WelcomeIn
<1>9. Welcomed' /\ Kept' /\ Attempts'
  BY <1>b, <1>c, Zenon DEF ConnectionInv, Welcomed, Open, Kept, KeptIn, WelcomeIn, Attempts
<1> QED
  BY <1>3, <1>5, <1>6, <1>7, <1>8, <1>9, Zenon DEF ConnectionInv

\* The transport of this generation opens: the handshake begins, or the client
\* ends on what its authentication provider throws.
LEMMA OpenedKeeps ==
  ASSUME ConnectionInv, NEW g, Opened(g)
  PROVE  ConnectionInv'
<1>0. TypeOK /\ Driven /\ EndsSettled /\ Factories /\ Requests /\ Credential
  BY Zenon DEF ConnectionInv
<1>1. g = gen /\ g \in opening /\ ~closed /\ state \notin Terminal
  BY Zenon DEF Opened, Stale
<1>2. /\ state = "connecting" /\ socket = 0 /\ ~timer /\ heartbeat = "off"
      /\ gen \in Nat /\ gen # 0
  BY <1>0, <1>1 DEF Driven, Open, Factories, TypeOK
<1>3. CASE /\ socket' = g /\ state' = "handshaking" /\ handshake' = TRUE
           /\ pong' = FALSE /\ probe' = "none" /\ opening' = opening \ {g}
           /\ UNCHANGED <<closed, gen, timer, attempt, heartbeat, attached, pend, inboundVars,
                          callVars, compat, hostVars, ends>>
  <2>0. /\ state' = "handshaking" /\ opening' = opening \ {g} /\ socket' = gen
        /\ handshake' = TRUE /\ pong' = FALSE /\ probe' = "none"
    BY <1>1, <1>3, Zenon
  <2>a. /\ closed' = closed /\ gen' = gen /\ timer' = timer /\ attempt' = attempt
        /\ heartbeat' = heartbeat
    BY <1>3, Zenon
  <2>b. /\ attached' = attached /\ pend' = pend /\ queue' = queue /\ drain' = drain
        /\ storing' = storing /\ waiting' = waiting /\ loading' = loading
        /\ releasing' = releasing /\ compat' = compat /\ welcomed' = welcomed
        /\ late' = late /\ swept' = swept /\ ends' = ends
    BY <1>3, Zenon DEF inboundVars, callVars, hostVars
  <2>1. LinkTyped /\ CarriedTyped
    BY <1>0, Typed, Zenon
  <2>2. /\ state' \in State /\ opening' \subseteq Nat /\ opening' \subseteq opening
        /\ socket' \in Nat /\ handshake' \in BOOLEAN /\ pong' \in BOOLEAN
        /\ probe' \in {"none", "open", "answered"}
    BY <1>0, <1>2, <2>0, Zenon DEF TypeOK, State
  <2>3. TypeOK'
    <3>1. LinkTyped'
      BY Zenon, <2>1, <2>a, <2>2 DEF LinkTyped
    <3>2. CarriedTyped'
      BY <2>1, <2>b, Zenon DEF CarriedTyped
    <3> QED
      BY <3>1, <3>2, TypedNext, Zenon
  <2>4. Driven'
    BY <1>0, <1>1, <1>2, <2>0, <2>a, <2>b, Zenon DEF Driven, Open, Terminal
  <2>5. EndsSettled' /\ Factories'
    BY <1>0, <2>0, <2>a, <2>2, Zenon DEF EndsSettled, Factories, Terminal
  <2>6. Requests'
    BY <1>0, <1>2, <2>0, <2>a, <2>b, Zenon DEF Requests, Open
  <2>7. Credential'
    BY <1>0, <1>1, <1>2, <2>0, <2>a, <2>b, Zenon DEF Credential
  <2>8. ~welcomed
    BY <1>2, Zenon DEF ConnectionInv, Welcomed
  <2>9. Frames'
    BY <1>2, <2>0, <2>a, <2>b, <2>8, Zenon DEF ConnectionInv, Frames, FramesIn, WelcomeIn
  <2>10. Welcomed' /\ Kept' /\ Attempts'
    BY <1>2, <2>0, <2>a, <2>b, <2>8, Zenon DEF ConnectionInv, Welcomed, Open, Kept, KeptIn, Attempts
  <2> QED
    BY <2>3, <2>4, <2>5, <2>6, <2>7, <2>9, <2>10, Zenon DEF ConnectionInv
<1>4. CASE /\ Drop(gen + 1) /\ timer' = FALSE
           /\ state' = "fatal" /\ closed' = TRUE /\ waiting' = FALSE /\ queue' = <<>>
           /\ opening' = opening \ {g}
           /\ UNCHANGED <<attempt, attached, drain, storing, loading, releasing, compat, ends>>
  <2>1. Over /\ Dropped /\ \A r \in Slot : pend'[r] = NoRequest
    BY <1>4, DropIsOver, Zenon
  <2>2. Remains
    BY <1>4, QueueRemains, Zenon
  <2>3. Stops
    BY <1>4, <2>1, Zenon DEF Stops, Terminal
  <2> QED
    BY <2>1, <2>2, <2>3, Ended, Zenon
<1> QED
  BY <1>3, <1>4, Zenon DEF Opened

-----------------------------------------------------------------------------
(* Inbound frames                                                           *)

\* Frame `f` may be handled, with `rest` behind it in the queue: it came on this
\* connection, and a welcome is the only one.
Behind(f, rest) ==
  /\ rest \in Seq(Item) /\ Len(rest) <= MaxInbound /\ FramesIn(rest)
  /\ drain # "await" /\ socket # 0
  /\ f \in Hello => state = "handshaking" /\ \A i \in 1 .. Len(rest) : ~WelcomeIn(rest, i)
  /\ f \notin Hello => KeptIn(rest)

\* What the handlers of the frames of an open connection leave alone.
Stays ==
  /\ state' = state /\ closed' = closed /\ gen' = gen /\ opening' = opening
  /\ socket' = socket /\ timer' = timer /\ handshake' = handshake
  /\ welcomed' = welcomed /\ swept' = swept /\ waiting' = waiting /\ loading' = loading
  /\ releasing' = releasing /\ compat' = compat /\ late' = late

\* Such a handler keeps the invariant if it does for requests, the credential
\* and the count of attempts.
LEMMA HandledKeeps ==
  ASSUME ConnectionInv, NEW f, f \notin Hello, NEW rest, Behind(f, rest), Stays,
         queue' = rest, drain' \in {"idle", "await", "loop"}, drain' = "idle" => rest = <<>>,
         heartbeat' \in {"off", "resting", "pinged"}, heartbeat' = "off" <=> heartbeat = "off",
         pong' \in BOOLEAN, probe' \in {"none", "open", "answered"}, attempt' \in Nat,
         attached' \in BOOLEAN, storing' \in Nat, ends' \in 0 .. MaxEnds,
         pend' \in [Slot -> Request], Requests', Credential', Attempts'
  PROVE  ConnectionInv'
<1>0. LinkTyped /\ CarriedTyped /\ Driven /\ Factories /\ Welcomed
  BY Typed, Zenon DEF ConnectionInv
<1>1. LinkTyped'
  BY <1>0, Zenon DEF LinkTyped, Stays
<1>2. CarriedTyped'
  <2>1. queue' \in Seq(Item) /\ Len(queue') <= MaxInbound
    BY Zenon DEF Behind
  <2> QED
    BY <1>0, <2>1, Zenon DEF CarriedTyped, Stays
<1>3. Driven'
  BY <1>0, Zenon DEF Driven, Stays, Open
<1>4. state' \notin Terminal
  BY <1>0, Zenon DEF Driven, Stays, Behind, Open, Terminal
<1>5. EndsSettled'
  BY <1>4, Zenon DEF EndsSettled
<1>6. Factories'
  BY <1>0, Zenon DEF Factories, Stays
<1>7. Frames'
  BY SMTT(30) DEF Frames, FramesIn, WelcomeIn, Behind, Stays
<1>8. Welcomed'
  BY <1>0, Zenon DEF Welcomed, Open, Stays
<1>9. Kept'
  BY Zenon DEF Kept, KeptIn, WelcomeIn, Behind, Stays
<1> QED
  BY <1>1, <1>2, <1>3, <1>5, <1>6, <1>7, <1>8, <1>9, TypedNext, Zenon DEF ConnectionInv

\* No credential is being stored after a frame that is not a pair.ok.
LEMMA HandledPlain ==
  ASSUME ConnectionInv, NEW f, f \notin Hello, NEW rest, Behind(f, rest), Stays,
         queue' = rest, drain' \in {"idle", "loop"}, drain' = "idle" => rest = <<>>,
         heartbeat' \in {"off", "resting", "pinged"}, heartbeat' = "off" <=> heartbeat = "off",
         pong' \in BOOLEAN, probe' \in {"none", "open", "answered"}, attempt' \in Nat,
         attached' \in BOOLEAN, storing' = storing, End \/ ends' = ends,
         pend' \in [Slot -> Request], Requests', Attempts'
  PROVE  ConnectionInv'
<1>1. TypeOK /\ storing' \in Nat
  BY Zenon DEF ConnectionInv, TypeOK
<1>2. ends' \in 0 .. MaxEnds
  BY <1>1, Counted, Zenon
<1>3. Credential'
  BY Zenon DEF Credential
<1> QED
  BY <1>1, <1>2, <1>3, HandledKeeps, Zenon

\* A pong, a frame of a replay, or one that only reaches the listeners.
LEMMA HealthKeeps ==
  ASSUME ConnectionInv, NEW f, f \notin Hello, NEW rest, Behind(f, rest),
         Pong(rest) \/ Replay(rest) \/ Publish(rest),
         drain' \in {"idle", "loop"}, drain' = "idle" => rest = <<>>, End \/ ends' = ends
  PROVE  ConnectionInv'
<1>0. TypeOK /\ Driven /\ Requests /\ Attempts
  BY Zenon DEF ConnectionInv
<1>1. /\ Stays /\ queue' = rest /\ pend' = pend /\ attached' = attached /\ storing' = storing
  BY Zenon DEF Pong, Replay, Publish, Stays, linkVars, healthVars, callVars, hostVars
<1>2. /\ heartbeat' \in {"off", "resting", "pinged"} /\ (heartbeat' = "off" <=> heartbeat = "off")
      /\ probe' \in {"none", "open", "answered"}
  BY <1>0, Zenon DEF Pong, Replay, Publish, healthVars, TypeOK
<1>3. pong' \in BOOLEAN
  BY Zenon, <1>0 DEF Pong, Replay, Publish, healthVars, TypeOK
<1>4. /\ attempt' \in {0, attempt} /\ (probe' # "none" => attempt' = attempt /\ probe' = probe)
      /\ attempt' # attempt => Open
  BY <1>0, Zenon DEF Pong, Replay, Publish, MaybeReset, healthVars, linkVars, Driven, Attempts, Open
<1>5. attempt' \in Nat /\ attached' \in BOOLEAN /\ pend' \in [Slot -> Request]
  BY SMTT(30), <1>0, <1>1, <1>4 DEF TypeOK
<1>6. Requests'
  BY <1>0, <1>1, Zenon DEF Requests, Stays
<1>7. Attempts'
  BY <1>0, <1>1, <1>4, Zenon DEF Attempts, Stays, Open
<1> QED
  BY <1>1, <1>2, <1>3, <1>5, <1>6, <1>7, HandledPlain, Zenon

\* A response settles its request.
LEMMA ResponseKeeps ==
  ASSUME ConnectionInv, NEW f, f \notin Hello, NEW rest, Behind(f, rest), Response(rest),
         drain' \in {"idle", "loop"}, drain' = "idle" => rest = <<>>, End \/ ends' = ends
  PROVE  ConnectionInv'
<1>0. TypeOK /\ Requests /\ Attempts
  BY Zenon DEF ConnectionInv
<1>1. /\ Stays /\ queue' = rest /\ storing' = storing /\ heartbeat' = heartbeat /\ pong' = pong
  BY Zenon DEF Response, Stays, callVars, hostVars
<1>2. PICK r \in Slot :
        /\ pend[r].kind \in {"command", "attach"}
        /\ pend' = [pend EXCEPT ![r] = NoRequest]
        /\ \/ /\ pend[r].kind = "attach" /\ attached' = TRUE
              /\ \/ probe' = IF probe = "open" THEN "answered" ELSE probe
                 \/ probe' = "none"
           \/ UNCHANGED <<attached, probe>>
  BY Zenon DEF Response
<1>3. state = "ready"
  BY <1>0, <1>2, Zenon DEF Requests, Command
<1>4. NoRequest \in Request /\ NoRequest.kind = "none"
  BY Zenon DEF NoRequest, Request
<1>5. pend' \in [Slot -> Request]
  BY <1>0, <1>2, <1>4, Zenon DEF TypeOK
<1>6. Requests'
  BY <1>0, <1>1, <1>2, <1>4, Zenon DEF Requests, Stays, TypeOK, Command
<1>7. attached' \in BOOLEAN
  BY <1>0, <1>2, Zenon DEF TypeOK
<1>8. /\ probe' \in {"none", "open", "answered"} /\ (probe' # "none" => probe # "none")
  BY <1>0, <1>2, Zenon DEF TypeOK
<1>9. attempt' \in {0, attempt} /\ (probe' # "none" => attempt' = attempt)
  BY Zenon DEF Response, MaybeReset
<1>10. attempt' \in Nat
  BY SMTT(30), <1>0, <1>9 DEF TypeOK
<1>11. Attempts'
  BY <1>0, <1>1, <1>3, <1>8, <1>9, Zenon DEF Attempts, Stays
<1>12. heartbeat' \in {"off", "resting", "pinged"} /\ pong' \in BOOLEAN
  BY <1>0, <1>1, Zenon DEF TypeOK
<1> QED
  BY <1>1, <1>5, <1>6, <1>7, <1>8, <1>10, <1>11, <1>12, HandledPlain, Zenon

\* A pairing is refused, or its credential is stored.
LEMMA PairKeeps ==
  ASSUME ConnectionInv, NEW f, f \notin Hello, NEW rest, Behind(f, rest),
         \/ /\ PairError(rest) /\ drain' \in {"idle", "loop"} /\ (drain' = "idle" => rest = <<>>)
         \/ PairOk(rest) /\ drain' = "await",
         End \/ ends' = ends
  PROVE  ConnectionInv'
<1>0. TypeOK /\ Requests /\ Attempts
  BY Zenon DEF ConnectionInv
<1>1. /\ Stays /\ queue' = rest /\ heartbeat' = heartbeat /\ pong' = pong /\ probe' = probe
      /\ attempt' = attempt /\ attached' = attached
  BY Zenon DEF PairError, PairOk, Stays, linkVars, healthVars, callVars, hostVars
<1>2. NoRequest \in Request /\ NoRequest.kind = "none"
  BY Zenon DEF NoRequest, Request
<1>3. PICK r \in Slot :
        /\ pend[r].kind = "pair" /\ pend[r].gen = gen
        /\ \/ pend' = [pend EXCEPT ![r] = NoRequest]
           \/ pend' = [pend EXCEPT ![r].storing = TRUE]
  BY Zenon DEF PairError, PairOk
<1>a. PICK answer \in Request :
        /\ pend' = [pend EXCEPT ![r] = answer]
        /\ answer.kind = "none" \/ (answer.kind = "pair" /\ answer.gen = gen)
  <2>1. CASE pend' = [pend EXCEPT ![r] = NoRequest]
    BY <1>2, <2>1, Zenon
  <2>2. CASE pend' = [pend EXCEPT ![r].storing = TRUE]
    <3> DEFINE answer == [pend[r] EXCEPT !.storing = TRUE]
    <3>1. pend[r] \in Request
      BY <1>0, Zenon DEF TypeOK
    <3>2. answer \in Request /\ answer.kind = pend[r].kind /\ answer.gen = pend[r].gen
      BY <3>1, ZenonT(30) DEF Request
    <3>3. pend' = [pend EXCEPT ![r] = answer]
      BY <2>2, Zenon
    <3> HIDE DEF answer
    <3> QED
      BY Zenon, <1>3, <3>2, <3>3
  <2> QED
    BY <1>3, <2>1, <2>2, Zenon
<1>4. pend' \in [Slot -> Request]
  BY <1>0, <1>a, Zenon DEF TypeOK
<1>5. \A q \in Slot : \/ pend'[q].kind = "none"
                      \/ pend'[q].kind = pend[q].kind /\ pend'[q].gen = pend[q].gen
  BY <1>0, <1>3, <1>a, Zenon DEF TypeOK
<1>6. Requests'
  BY <1>0, <1>1, <1>5, Zenon DEF Requests, Stays, Command
<1>7. Attempts'
  BY <1>0, <1>1, Zenon DEF Attempts, Stays
<1>8. /\ heartbeat' \in {"off", "resting", "pinged"} /\ probe' \in {"none", "open", "answered"}
      /\ pong' \in BOOLEAN /\ attempt' \in Nat /\ attached' \in BOOLEAN
  BY Zenon, <1>0, <1>1 DEF TypeOK
<1>9. CASE PairError(rest) /\ drain' \in {"idle", "loop"} /\ (drain' = "idle" => rest = <<>>)
  <2>1. storing' = storing
    BY <1>9, Zenon DEF PairError
  <2> QED
    BY <1>1, <1>4, <1>6, <1>7, <1>8, <1>9, <2>1, HandledPlain, Zenon
<1>10. CASE PairOk(rest) /\ drain' = "await"
  <2>1. storing' = gen /\ gen' = gen /\ gen \in Nat /\ state' = state
    BY <1>0, <1>1, <1>10, Zenon DEF PairOk, Stays, TypeOK
  <2>2. state = "pairing"
    BY <1>0, <1>3, Zenon DEF Requests
  <2>3. Credential'
    BY <2>1, <2>2 DEF Credential
  <2>4. ends' \in 0 .. MaxEnds
    BY <1>0, Counted, Zenon
  <2> QED
    BY <1>1, <1>4, <1>6, <1>7, <1>8, <1>10, <2>1, <2>3, <2>4, HandledKeeps, Zenon
<1> QED
  BY <1>9, <1>10, Zenon

\* The welcome opens the connection.
LEMMA WelcomeOpens ==
  ASSUME ConnectionInv, NEW f \in Hello, NEW rest, Behind(f, rest),
         WelcomePairing(rest) \/ WelcomeReady(rest),
         drain' \in {"idle", "loop"}, drain' = "idle" => rest = <<>>, End \/ ends' = ends
  PROVE  ConnectionInv'
<1>0. LinkTyped /\ CarriedTyped /\ TypeOK /\ Driven /\ Factories /\ Requests /\ Attempts
  BY Typed, Zenon DEF ConnectionInv
<1>1. state = "handshaking"
  BY Zenon DEF Behind
<1>2. /\ closed' = closed /\ gen' = gen /\ opening' = opening /\ socket' = socket
      /\ timer' = timer /\ attempt' = attempt /\ handshake' = FALSE /\ heartbeat' = "resting"
      /\ pong' = FALSE
  BY Zenon DEF WelcomePairing, WelcomeReady
<1>3. /\ attached' = attached /\ queue' = rest /\ storing' = storing
      /\ waiting' = FALSE /\ loading' = loading /\ releasing' = releasing
      /\ compat' = compat /\ welcomed' = TRUE /\ late' = late /\ swept' = swept
  BY Zenon DEF WelcomePairing, WelcomeReady
<1>4. /\ state' \in {"pairing", "ready"} /\ probe' \in {"none", "open"}
      /\ probe' # "none" => attached /\ state' = "ready"
  BY Zenon DEF WelcomePairing, WelcomeReady
<1>5. /\ pend' \in [Slot -> Request]
      /\ \A r \in Slot : \/ pend'[r] = pend[r]
                         \/ pend'[r].kind = "attach" /\ pend'[r].gen = gen /\ state' = "ready"
  <2>1. CASE pend' = pend
    BY <1>0, <2>1, Zenon DEF CarriedTyped
  <2>2. CASE pend' # pend
    <3>1. state' = "ready"
      BY <2>2, Zenon DEF WelcomePairing, WelcomeReady
    <3>2. PICK r \in Free :
            pend' = [pend EXCEPT ![r] = [kind |-> "attach", gen |-> gen, storing |-> FALSE]]
      BY <2>2, Zenon DEF WelcomePairing, WelcomeReady
    <3> DEFINE sent == [kind |-> "attach", gen |-> gen, storing |-> FALSE]
    <3>3. sent \in Request /\ sent.kind = "attach" /\ sent.gen = gen
      BY <1>0, Zenon DEF TypeOK, Request
    <3> HIDE DEF sent
    <3>4. pend' = [pend EXCEPT ![r] = sent]
      BY <3>2, Zenon DEF sent
    <3> QED
      BY ZenonT(30), <1>0, <3>1, <3>3, <3>4 DEF TypeOK
  <2> QED
    BY <2>1, <2>2, Zenon
<1>6. LinkTyped'
  <2>1. state' \in State /\ probe' \in {"none", "open", "answered"}
    BY <1>4, Zenon DEF State
  <2> QED
    BY <1>0, <1>2, <2>1, Zenon DEF LinkTyped
<1>7. CarriedTyped'
  <2>1. /\ queue' \in Seq(Item) /\ Len(queue') <= MaxInbound
        /\ drain' \in {"idle", "await", "loop"} /\ ends' \in 0 .. MaxEnds
    BY <1>0, <1>3, Counted, Zenon DEF Behind
  <2> QED
    BY <1>0, <1>3, <1>5, <2>1, ZenonT(30) DEF CarriedTyped
<1>8. Driven'
  BY <1>0, <1>1, <1>2, <1>4, Zenon DEF Driven, Open, Terminal
<1>9. EndsSettled' /\ Factories'
  BY <1>0, <1>2, <1>4, Zenon DEF EndsSettled, Factories, Terminal
<1>10. Requests'
  BY <1>0, <1>1, <1>2, <1>5 DEF Requests, Command, TypeOK
<1>11. Credential'
  BY Zenon DEF Credential
<1>12. Frames'
  BY ZenonT(30), <1>2, <1>3 DEF Frames, FramesIn, WelcomeIn, Behind
<1>13. Welcomed' /\ Kept'
  BY <1>2, <1>3, <1>4, Zenon DEF Welcomed, Kept, KeptIn, Behind, Open
<1>14. Attempts'
  BY <1>0, <1>1, <1>2, <1>3, <1>4, Zenon DEF Attempts
<1> QED
  BY <1>6, <1>7, <1>8, <1>9, <1>10, <1>11, <1>12, <1>13, <1>14, TypedNext, Zenon DEF ConnectionInv

\* Whatever the frame, its handler keeps the invariant.
LEMMA HandleKeeps ==
  ASSUME ConnectionInv, NEW f, NEW rest, NEW next \in {"idle", "loop"},
         next = "idle" => rest = <<>>, Behind(f, rest), Remains \/ queue' # rest,
         Handle(f, rest, next), End \/ ends' = ends
  PROVE  ConnectionInv'
<1>1. ~closed /\ drain' \in {"idle", "await", "loop"}
  BY Zenon DEF ConnectionInv, Driven, Behind, Handle, Open, Terminal
<1>2. CASE f \in Hello /\ (WelcomePairing(rest) \/ WelcomeReady(rest)) /\ drain' = next
  BY <1>2, WelcomeOpens, Zenon
<1>3. CASE FatalFrame /\ drain' = next
  <2>1. /\ Fatal /\ queue' = <<>> /\ storing' = storing /\ attached' = attached
        /\ loading' = loading /\ releasing' = releasing /\ compat' = compat
    BY <1>3, Zenon DEF FatalFrame
  <2> QED
    BY <1>3, <2>1, FatalEnds, Zenon
<1>4. CASE Bye(rest) /\ drain' = next
  <2>1. /\ Lose /\ queue' = rest /\ storing' = storing /\ attached' = attached
        /\ loading' = loading /\ releasing' = releasing /\ compat' = compat
    BY <1>4, Zenon DEF Bye
  <2>2. Remains
    BY <2>1, Zenon
  <2> QED
    BY <1>1, <1>4, <2>1, <2>2, LoseEnds, Zenon
<1>5. CASE f \notin Hello /\ (Pong(rest) \/ Replay(rest) \/ Publish(rest)) /\ drain' = next
  BY <1>5, HealthKeeps, Zenon
<1>6. CASE f \notin Hello /\ Response(rest) /\ drain' = next
  BY <1>6, ResponseKeeps, Zenon
<1>7. CASE f \notin Hello /\ PairError(rest) /\ drain' = next
  BY <1>7, PairKeeps, Zenon
<1>8. CASE f \notin Hello /\ PairOk(rest) /\ drain' = "await"
  BY <1>8, PairKeeps, Zenon
<1> QED
  BY <1>2, <1>3, <1>4, <1>5, <1>6, <1>7, <1>8, Zenon DEF Handle, Hello

\* A frame that is handled at once.
LEMMA ReceiveKeeps ==
  ASSUME ConnectionInv, NEW f, Receive(f)
  PROVE  ConnectionInv'
<1>0. TypeOK /\ Driven /\ Frames /\ Welcomed /\ Kept
  BY Zenon DEF ConnectionInv
<1>1. drain = "idle" /\ queue = <<>> /\ HostSends(f) /\ Handle(f, <<>>, "idle") /\ Count(f)
  BY <1>0, Zenon DEF Receive, Frames
<1>2. Behind(f, <<>>)
  <2>1. <<>> \in Seq(Item) /\ Len(<<>>) <= MaxInbound /\ FramesIn(<<>>)
    BY BoundAssumption DEF FramesIn
  <2>2. socket # 0 /\ (f \in Hello => ~welcomed)
    BY <1>1, Zenon DEF HostSends, Hello
  <2>3. f \in Hello => state = "handshaking"
    BY <1>0, <2>2, Zenon DEF Driven, Welcomed, Open
  <2>4. KeptIn(<<>>)
    BY <1>0, <1>1, Zenon DEF Kept
  <2> QED
    BY <1>1, <2>1, <2>2, <2>3, <2>4 DEF Behind
<1>3. Remains \/ queue' # <<>>
  BY QueueRemains, Zenon
<1>4. End \/ ends' = ends
  BY <1>1, Zenon DEF Count
<1> QED
  BY <1>1, <1>2, <1>3, <1>4, HandleKeeps, Zenon

\* A frame that is taken from the queue.
LEMMA DrainFrameKeeps ==
  ASSUME ConnectionInv, DrainFrame
  PROVE  ConnectionInv'
<1>0. TypeOK /\ Frames /\ Kept
  BY Zenon DEF ConnectionInv
<1> DEFINE f == Head(queue).kind
           rest == Tail(queue)
<1>1. /\ drain = "loop" /\ queue # <<>> /\ Head(queue).gen = gen
      /\ Handle(f, rest, "loop") /\ ends' = ends
  BY Zenon DEF DrainFrame, HeadCurrent
<1>2. queue \in Seq(Item) /\ Len(queue) <= MaxInbound /\ MaxInbound \in Nat
  BY <1>0, BoundAssumption, Zenon DEF TypeOK, Item
<1>3. /\ rest \in Seq(Item) /\ Len(queue) \in Nat /\ Len(rest) = Len(queue) - 1
      /\ Len(queue) >= 1 /\ Head(queue) = queue[1]
      /\ \A i \in 1 .. Len(rest) : rest[i] = queue[i + 1] /\ i + 1 \in 1 .. Len(queue)
  BY <1>1, <1>2, TailFacts, Zenon
<1> HIDE DEF rest
<1>4. 1 \in 1 .. Len(queue) /\ Len(rest) \in Nat /\ Len(rest) <= MaxInbound
  BY <1>2, <1>3
<1>5. FramesIn(rest)
  <2>1. FramesIn(queue)
    BY <1>0, Zenon DEF Frames
  <2>2. \A i \in 1 .. Len(rest) : rest[i].gen <= gen /\ (rest[i].gen = gen => socket # 0)
    BY <1>3, <2>1, Zenon DEF FramesIn
  <2>3. \A i \in 1 .. Len(rest) : WelcomeIn(rest, i) => WelcomeIn(queue, i + 1)
    BY <1>3, Zenon DEF WelcomeIn
  <2>4. \A i \in 1 .. Len(rest) : WelcomeIn(rest, i) => welcomed /\ state = "handshaking"
    BY <1>3, <2>1, <2>3, Zenon DEF FramesIn
  <2>5. ASSUME NEW i \in 1 .. Len(rest), NEW j \in 1 .. Len(rest),
               WelcomeIn(rest, i), WelcomeIn(rest, j)
        PROVE  i = j
    <3>1. i + 1 = j + 1
      BY Zenon, <1>3, <2>1, <2>3, <2>5 DEF FramesIn
    <3> QED
      BY <3>1
  <2> QED
    BY <2>2, <2>4, <2>5, Zenon DEF FramesIn
<1>6. socket # 0
  BY <1>0, <1>1, <1>3, <1>4, Zenon DEF Frames, FramesIn
<1>7. ASSUME f \in Hello
      PROVE  state = "handshaking" /\ \A i \in 1 .. Len(rest) : ~WelcomeIn(rest, i)
  <2>1. WelcomeIn(queue, 1)
    BY <1>1, <1>3, <1>7, Zenon DEF WelcomeIn
  <2>2. state = "handshaking"
    BY <1>0, <1>4, <2>1, Zenon DEF Frames, FramesIn
  <2>3. ASSUME NEW i \in 1 .. Len(rest), WelcomeIn(rest, i) PROVE FALSE
    <3>1. WelcomeIn(queue, i + 1)
      BY <1>3, <2>3, Zenon DEF WelcomeIn
    <3>2. i + 1 = 1
      BY <1>0, <1>3, <1>4, <2>1, <3>1, Zenon DEF Frames, FramesIn
    <3> QED
      BY <3>2
  <2> QED
    BY <2>2, <2>3, Zenon
<1>8. ASSUME f \notin Hello PROVE KeptIn(rest)
  <2>1. ASSUME NEW i \in 1 .. Len(queue), WelcomeIn(queue, i)
        PROVE  \E j \in 1 .. Len(rest) : WelcomeIn(rest, j)
    <3>1. i # 1
      BY <1>3, <1>8, <2>1, Zenon DEF WelcomeIn
    <3>2. i - 1 \in 1 .. Len(rest) /\ (i - 1) + 1 = i
      BY <1>3, <3>1
    <3>3. rest[i - 1] = queue[i]
      BY <1>3, <3>2, Zenon
    <3>4. WelcomeIn(rest, i - 1)
      BY ZenonT(30), <2>1, <3>3 DEF WelcomeIn
    <3> QED
      BY <3>2, <3>4, Zenon
  <2> QED
    BY <1>0, <2>1, Zenon DEF Kept, KeptIn
<1>9. Behind(f, rest)
  BY <1>1, <1>3, <1>4, <1>5, <1>6, <1>7, <1>8, Zenon DEF Behind
<1>10. drain' # "idle"
  BY <1>1, Zenon DEF Handle
<1>11. Remains \/ queue' # rest
  BY <1>1, <1>10, QueueRemains, Zenon DEF rest
<1> QED
  BY <1>1, <1>9, <1>11, HandleKeeps, Zenon

\* The drain ends, and the queue is empty.
LEMMA DrainEndsKeeps ==
  ASSUME ConnectionInv, DrainEnds
  PROVE  ConnectionInv'
<1>0. TypeOK /\ LinkTyped /\ CarriedTyped /\ Kept
  BY Typed, Zenon DEF ConnectionInv
<1>1. /\ state' = state /\ closed' = closed /\ gen' = gen /\ opening' = opening
      /\ socket' = socket /\ timer' = timer /\ attempt' = attempt /\ handshake' = handshake
      /\ heartbeat' = heartbeat /\ pong' = pong /\ probe' = probe
  BY Zenon DEF DrainEnds, linkVars, healthVars
<1>2. /\ attached' = attached /\ pend' = pend /\ storing' = storing /\ waiting' = waiting
      /\ loading' = loading /\ releasing' = releasing /\ compat' = compat
      /\ welcomed' = welcomed /\ late' = late /\ ends' = ends
  BY Zenon DEF DrainEnds, callVars
<1>3. queue' = <<>> /\ drain' = "idle"
  BY Zenon DEF DrainEnds
<1>4. swept' \in BOOLEAN
  BY <1>0, Zenon DEF DrainEnds, TypeOK
<1>5. (swept \/ \E i \in 1 .. Len(queue) : WelcomeIn(queue, i)) => swept'
  <2>1. DOMAIN queue = 1 .. Len(queue)
    BY <1>0 DEF TypeOK
  <2> QED
    BY <2>1, Zenon DEF DrainEnds, WelcomeIn
<1>6. LinkTyped'
  BY <1>0, <1>1, ZenonT(30) DEF LinkTyped
<1>7. CarriedTyped'
  <2>1. /\ queue' \in Seq(Item) /\ Len(queue') <= MaxInbound
        /\ drain' \in {"idle", "await", "loop"}
    BY <1>3, BoundAssumption
  <2> QED
    BY <1>0, <1>2, <1>4, <2>1, ZenonT(30) DEF CarriedTyped
<1>8. Driven' /\ Factories'
  BY Zenon, <1>1 DEF ConnectionInv, Driven, Factories, Open
<1>9. EndsSettled'
  BY <1>1, <1>2, <1>3, Zenon DEF ConnectionInv, EndsSettled, Free
<1>10. Requests' /\ Credential'
  BY <1>1, <1>2, <1>3, Zenon DEF ConnectionInv, Requests, Credential
<1>11. Frames'
  BY <1>3 DEF Frames, FramesIn
<1>12. Welcomed' /\ Attempts'
  BY Zenon, <1>1, <1>2 DEF ConnectionInv, Welcomed, Open, Attempts
<1>13. Kept'
  BY <1>0, <1>1, <1>2, <1>5, Zenon DEF Kept, KeptIn
<1> QED
  BY <1>6, <1>7, <1>8, <1>9, <1>10, <1>11, <1>12, <1>13, TypedNext, Zenon DEF ConnectionInv

\* The frames with another one behind them.
LEMMA AppendFacts ==
  ASSUME NEW S, NEW q \in Seq(S), NEW x \in S
  PROVE  /\ Append(q, x) \in Seq(S) /\ Len(q) \in Nat /\ Len(Append(q, x)) = Len(q) + 1
         /\ Append(q, x)[Len(q) + 1] = x
         /\ \A i \in 1 .. Len(q) : Append(q, x)[i] = q[i]
         /\ \A i \in 1 .. Len(Append(q, x)) : i \in 1 .. Len(q) \/ i = Len(q) + 1
  BY SMTT(30)

\* A frame is put into the queue, or there is no room for it.
LEMMA EnqueueKeeps ==
  ASSUME ConnectionInv, NEW f, Enqueue(f)
  PROVE  ConnectionInv'
<1>0. TypeOK /\ LinkTyped /\ CarriedTyped /\ Driven /\ Frames /\ Welcomed /\ Kept
  BY Typed, Zenon DEF ConnectionInv
<1>1. drain = "await" /\ HostSends(f) /\ f \in {"ready", "pairing", "invalid", "bye", "other"}
  BY Zenon DEF Enqueue
<1>2. End \/ ends' = ends
  BY Zenon DEF Enqueue, Count
<1>3. CASE FatalFrame /\ UNCHANGED drain
  <2>1. /\ Fatal /\ queue' = <<>> /\ storing' = storing /\ attached' = attached
        /\ loading' = loading /\ releasing' = releasing /\ compat' = compat /\ drain' = drain
    BY <1>3, Zenon DEF FatalFrame
  <2> QED
    BY <1>2, <2>1, FatalEnds, Zenon
<1>4. CASE /\ Len(queue) < MaxInbound
           /\ queue' = Append(queue, [gen |-> gen, kind |-> f])
           /\ welcomed' = (welcomed \/ f \in {"ready", "pairing"})
           /\ UNCHANGED <<linkVars, healthVars, attached, pend, drain, storing, callVars, compat,
                          late, swept>>
  <2> DEFINE item == [gen |-> gen, kind |-> f]
  <2>0. PICK n \in Nat : n = Len(queue)
    BY SMTT(30), <1>0 DEF TypeOK
  <2>1. /\ state' = state /\ closed' = closed /\ gen' = gen /\ opening' = opening
        /\ socket' = socket /\ timer' = timer /\ attempt' = attempt /\ handshake' = handshake
        /\ heartbeat' = heartbeat /\ pong' = pong /\ probe' = probe
    BY <1>4, Zenon DEF linkVars, healthVars
  <2>2. /\ attached' = attached /\ pend' = pend /\ storing' = storing /\ waiting' = waiting
        /\ loading' = loading /\ releasing' = releasing /\ compat' = compat
        /\ late' = late /\ swept' = swept /\ drain' = drain
    BY <1>4, Zenon DEF callVars
  <2>3. /\ welcomed' \in BOOLEAN /\ (welcomed => welcomed')
        /\ f \in Hello => welcomed'
        /\ f \notin Hello => welcomed' = welcomed
    BY <1>0, <1>4, Zenon DEF TypeOK, Hello
  <2>4. socket # 0 /\ (f \in Hello => ~welcomed)
    BY <1>1, Zenon DEF HostSends, Hello
  <2>5. f \in Hello => state = "handshaking"
    BY <1>0, <2>4, Zenon DEF Driven, Welcomed, Open
  <2>6. item \in Item /\ item.gen = gen /\ item.kind = f /\ queue \in Seq(Item)
    BY <1>0, <1>1, Zenon DEF TypeOK, Item, Frame
  <2>7. queue' = Append(queue, item)
    BY <1>4, Zenon
  <2> HIDE DEF item
  <2>8. /\ queue' \in Seq(Item) /\ Len(queue') = n + 1 /\ queue'[n + 1] = item
        /\ \A i \in 1 .. n : queue'[i] = queue[i]
        /\ \A i \in 1 .. Len(queue') : i \in 1 .. n \/ i = n + 1
    BY SMTT(30), <2>0, <2>6, <2>7, AppendFacts
  <2>9. Len(queue') <= MaxInbound /\ \A i \in 1 .. n : i \in 1 .. Len(queue')
    BY SMTT(30), <1>4, <2>0, <2>8, BoundAssumption
  <2>10. n + 1 \in 1 .. Len(queue')
    BY <2>8
  <2>11. LinkTyped'
    BY <1>0, <2>1, ZenonT(30) DEF LinkTyped
  <2>12. CarriedTyped'
    <3>1. ends' \in 0 .. MaxEnds
      BY <1>0, <1>2, Counted, Zenon
    <3> QED
      BY Zenon, <1>0, <2>2, <2>3, <2>8, <2>9, <3>1 DEF CarriedTyped
  <2>13. Driven' /\ Factories'
    BY Zenon, <2>1 DEF ConnectionInv, Driven, Factories, Open
  <2>14. EndsSettled'
    BY <1>0, <2>1, <2>4, Zenon DEF EndsSettled, Driven, Open, Terminal
  <2>15. Requests' /\ Credential'
    BY Zenon, <2>1, <2>2 DEF ConnectionInv, Requests, Credential
  <2>16. Welcomed' /\ Attempts'
    <3>1. Welcomed'
      BY <1>0, <2>1, <2>3, <2>4, Zenon DEF Welcomed, Open
    <3>2. Attempts'
      BY <2>1, <2>2, Zenon DEF ConnectionInv, Attempts
    <3> QED
      BY <3>1, <3>2, Zenon
  <2>17. \A i \in 1 .. n : WelcomeIn(queue, i)' <=> WelcomeIn(queue, i)
    BY ZenonT(30), <2>1, <2>8 DEF WelcomeIn
  <2>18. WelcomeIn(queue, n + 1)' <=> f \in Hello
    BY <2>1, <2>6, <2>8, Zenon DEF WelcomeIn
  <2>19. Frames'
    <3>1. FramesIn(queue)
      BY <1>0, Zenon DEF Frames
    <3>2. ASSUME NEW i \in 1 .. Len(queue')
          PROVE  queue'[i].gen <= gen' /\ (queue'[i].gen = gen' => socket' # 0)
      <4>1. CASE i \in 1 .. n
        BY ZenonT(30), <2>1, <2>8, <3>1, <4>1, <2>0 DEF FramesIn
      <4>2. CASE i = n + 1
        BY SMTT(30), <1>0, <2>1, <2>4, <2>6, <2>8, <4>2 DEF TypeOK
      <4> QED
        BY <2>8, <4>1, <4>2, Zenon
    <3>3. ASSUME NEW i \in 1 .. Len(queue'), WelcomeIn(queue, i)'
          PROVE  welcomed' /\ state' = "handshaking"
      <4>1. CASE i \in 1 .. n
        BY <2>1, <2>3, <2>17, <3>1, <3>3, <4>1, <2>0, Zenon DEF FramesIn
      <4>2. CASE i = n + 1
        BY Zenon, <2>1, <2>3, <2>5, <2>18, <3>3, <4>2
      <4> QED
        BY <2>8, <4>1, <4>2, Zenon
    <3>4. ASSUME f \in Hello, NEW i \in 1 .. n, WelcomeIn(queue, i)' PROVE FALSE
      BY ZenonT(30), <2>4, <2>17, <3>1, <3>4, <2>0 DEF FramesIn
    <3>5. ASSUME NEW i \in 1 .. Len(queue'), NEW j \in 1 .. Len(queue'),
                 WelcomeIn(queue, i)', WelcomeIn(queue, j)'
          PROVE  i = j
      <4>1. CASE i \in 1 .. n /\ j \in 1 .. n
        BY <2>17, <3>1, <3>5, <4>1, <2>0, Zenon DEF FramesIn
      <4>2. CASE i = n + 1 \/ j = n + 1
        BY <2>8, <2>18, <3>4, <3>5, <4>2, Zenon
      <4> QED
        BY <2>8, <4>1, <4>2, Zenon
    <3>6. FramesIn(queue)'
      BY Zenon, <3>2, <3>3, <3>5 DEF FramesIn
    <3>7. drain' # "idle"
      BY <1>1, <2>2, Zenon
    <3> QED
      BY <3>6, <3>7, Zenon DEF Frames
  <2>20. Kept'
    <3>1. (\E i \in 1 .. n : WelcomeIn(queue, i)) => \E i \in 1 .. Len(queue') : WelcomeIn(queue, i)'
      BY <2>9, <2>17, Zenon
    <3>2. f \in Hello => \E i \in 1 .. Len(queue') : WelcomeIn(queue, i)'
      BY ZenonT(30), <2>10, <2>18
    <3> QED
      BY <1>0, <2>1, <2>2, <2>3, <3>1, <3>2, <2>0, Zenon DEF Kept, KeptIn
  <2> QED
    BY <2>11, <2>12, <2>13, <2>14, <2>15, <2>16, <2>19, <2>20, TypedNext, Zenon DEF ConnectionInv
<1> QED
  BY <1>3, <1>4, Zenon DEF Enqueue

\* A credential was stored, or not, for a connection that is over.
LEMMA StoredLate ==
  ASSUME ConnectionInv, drain' = "loop", storing' = 0,
         UNCHANGED <<linkVars, healthVars, attached, pend, queue, callVars, compat, hostVars,
                     ends>>
  PROVE  ConnectionInv'
<1>0. LinkTyped /\ CarriedTyped
  BY Typed, Zenon DEF ConnectionInv
<1>1. /\ state' = state /\ closed' = closed /\ gen' = gen /\ opening' = opening
      /\ socket' = socket /\ timer' = timer /\ attempt' = attempt /\ handshake' = handshake
      /\ heartbeat' = heartbeat /\ pong' = pong /\ probe' = probe
  BY Zenon DEF linkVars, healthVars
<1>2. /\ attached' = attached /\ pend' = pend /\ queue' = queue /\ waiting' = waiting
      /\ loading' = loading /\ releasing' = releasing /\ compat' = compat
      /\ welcomed' = welcomed /\ late' = late /\ swept' = swept /\ ends' = ends
  BY Zenon DEF callVars, hostVars
<1>3. LinkTyped'
  BY <1>0, <1>1, ZenonT(30) DEF LinkTyped
<1>4. CarriedTyped'
  <2>1. drain' \in {"idle", "await", "loop"} /\ storing' \in Nat
    OBVIOUS
  <2> QED
    BY <1>0, <1>2, <2>1, ZenonT(30) DEF CarriedTyped
<1>5. Driven' /\ Factories'
  BY ZenonT(30), <1>1 DEF ConnectionInv, Driven, Factories, Open
<1>6. EndsSettled'
  BY <1>1, <1>2, Zenon DEF ConnectionInv, EndsSettled, Free
<1>7. Requests' /\ Credential'
  <2>1. Requests'
    BY <1>1, <1>2, Zenon DEF ConnectionInv, Requests
  <2>2. Credential'
    BY <1>1, <1>2, Zenon DEF ConnectionInv, Credential
  <2> QED
    BY <2>1, <2>2, Zenon
<1>8. Frames'
  BY Zenon, <1>1, <1>2 DEF ConnectionInv, Frames, FramesIn, WelcomeIn
<1>9. Welcomed' /\ Attempts'
  <2>1. Welcomed'
    BY <1>1, <1>2, Zenon DEF ConnectionInv, Welcomed, Open
  <2>2. Attempts'
    BY SMTT(30), <1>1, <1>2 DEF ConnectionInv, Attempts
  <2> QED
    BY <2>1, <2>2, Zenon
<1>10. Kept'
  BY <1>1, <1>2, Zenon DEF ConnectionInv, Kept, KeptIn, WelcomeIn
<1> QED
  BY <1>3, <1>4, <1>5, <1>6, <1>7, <1>8, <1>9, <1>10, TypedNext, Zenon DEF ConnectionInv

\* The credential is stored: the client reconnects with it.
LEMMA PairStoredKeeps ==
  ASSUME ConnectionInv, PairStored
  PROVE  ConnectionInv'
<1>0. TypeOK /\ Driven /\ Requests /\ Credential /\ Attempts
  BY Zenon DEF ConnectionInv
<1>1. CASE /\ storing = gen /\ ~closed
           /\ Disconnect(gen + 1) /\ ScheduleReconnect(0)
           /\ pend' = [r \in Slot |-> IF pend[r].storing THEN NoRequest ELSE pend[r]]
           /\ queue' = <<>>
           /\ UNCHANGED <<closed, opening, handshake, pong, probe>>
  <2>1. state = "pairing"
    BY <1>0, <1>1, Zenon DEF PairStored, Credential
  <2>2. /\ gen' = gen + 1 /\ socket' = 0 /\ heartbeat' = "off" /\ handshake' = handshake
        /\ pong' = pong /\ probe' = probe /\ welcomed' = FALSE /\ late' = FALSE
        /\ swept' = FALSE /\ storing' = 0 /\ drain' = "loop" /\ attempt' = 1
    BY SMTT(30), <1>1 DEF PairStored, Disconnect, ScheduleReconnect
  <2>3. /\ ends' = ends /\ attached' = attached /\ waiting' = waiting /\ loading' = loading
        /\ releasing' = releasing /\ compat' = compat
    BY Zenon DEF PairStored, callVars
  <2>4. gen' \in Nat /\ gen' > gen /\ attempt' \in Nat /\ storing' \in Nat
    BY <1>0, <2>2 DEF TypeOK
  <2>5. handshake = FALSE /\ probe = "none"
    BY <1>0, <2>1, Zenon DEF Driven, TypeOK, Attempts
  <2>6. Over
    BY Zenon, <1>0, <2>2, <2>3, <2>4, <2>5 DEF Over, TypeOK
  <2>7. Remains
    BY <1>1, QueueRemains, Zenon
  <2>8. NoRequest \in Request /\ NoRequest.kind = "none"
    BY Zenon DEF NoRequest, Request
  <2>9. \A r \in Slot : /\ pend'[r] \in {pend[r], NoRequest} /\ pend[r] \in Request
                        /\ pend[r].kind \notin Command
    BY <1>0, <1>1, <2>1, Zenon DEF Requests, TypeOK
  <2>10. pend' \in [Slot -> Request]
    BY <1>1, <2>8, <2>9, Zenon
  <2>11. Dropped
    BY <1>0, <2>8, <2>9, <2>10, Zenon DEF Dropped, Requests, Request, Command
  <2>12. Retries
    BY <1>0, <1>1, <2>2 DEF Retries, ScheduleReconnect, TypeOK
  <2> QED
    BY <2>6, <2>7, <2>11, <2>12, Ended, Zenon
<1>2. CASE UNCHANGED <<linkVars, healthVars, pend, queue, hostVars>>
  BY <1>2, StoredLate, Zenon DEF PairStored
<1> QED
  BY <1>1, <1>2, Zenon DEF PairStored

\* It is not, and the client ends.
LEMMA PairNotStoredKeeps ==
  ASSUME ConnectionInv, PairNotStored
  PROVE  ConnectionInv'
<1>1. CASE Fatal /\ queue' = <<>> /\ UNCHANGED <<loading, releasing>>
  <2>1. /\ storing' = 0 /\ drain' = "loop" /\ ends' = ends /\ attached' = attached
        /\ loading' = loading /\ releasing' = releasing /\ compat' = compat
    BY <1>1, Zenon DEF PairNotStored
  <2> QED
    BY Zenon, <1>1, <2>1, FatalEnds
<1>2. CASE UNCHANGED <<linkVars, healthVars, pend, queue, callVars, hostVars>>
  BY Zenon, <1>2, StoredLate DEF PairNotStored
<1> QED
  BY <1>1, <1>2, Zenon DEF PairNotStored

-----------------------------------------------------------------------------
(* The theorems                                                             *)

\* Every step keeps the invariant.
LEMMA ConnectionStep ==
  ASSUME ConnectionInv, Next
  PROVE  ConnectionInv'
<1>1. CASE Connect \/ Loaded \/ BeginReconnect \/ ReconnectNow
  BY <1>1, ConnectKeeps, LoadedKeeps, BeginReconnectKeeps, ReconnectNowKeeps, Zenon
<1>2. CASE Close \/ CloseReleased \/ CloseDone
  BY <1>2, CloseKeeps, CloseDoneKeeps, Zenon
<1>3. CASE \E r \in Slot, kind \in {"command", "attach", "pair"} : Send(r, kind)
  BY <1>3, SendKeeps, Zenon
<1>4. CASE \E r \in Slot : GiveUp(r)
  BY <1>4, GiveUpKeeps, Zenon
<1>5. CASE \E g \in opening : OpenedLate(g) \/ Opened(g) \/ OpenFails(g)
  BY <1>5, OpenedLateKeeps, OpenedKeeps, OpenFailsKeeps, Zenon
<1>6. CASE Lost \/ HelloRejected \/ Refused \/ HandshakeTimeout
  BY <1>6, LostKeeps, RefusedKeeps, Zenon
<1>7. CASE HeartbeatTick \/ HeartbeatFailure
  BY <1>7, HeartbeatTickKeeps, LostKeeps, Zenon
<1>8. CASE \E f \in Frame : Receive(f) \/ Enqueue(f)
  BY <1>8, ReceiveKeeps, EnqueueKeeps, Zenon
<1>9. CASE PairStored \/ PairNotStored \/ DrainFrame \/ DrainEnds
  BY <1>9, PairStoredKeeps, PairNotStoredKeeps, DrainFrameKeeps, DrainEndsKeeps, Zenon
<1> QED
  BY <1>1, <1>2, <1>3, <1>4, <1>5, <1>6, <1>7, <1>8, <1>9, Zenon DEF Next

\* A step that changes nothing keeps the invariant.
LEMMA ConnectionStutter ==
  ASSUME ConnectionInv, UNCHANGED vars
  PROVE  ConnectionInv'
<1>1. Unmoved /\ state' = state /\ pend' = pend
  BY Zenon DEF vars, linkVars, healthVars, inboundVars, hostVars, Unmoved
<1>2. /\ heartbeat' = heartbeat /\ pong' = pong /\ waiting' = waiting /\ loading' = loading
      /\ releasing' = releasing /\ compat' = compat /\ late' = late /\ ends' = ends
  BY Zenon DEF vars, healthVars, callVars, hostVars
<1>3. Flags
  BY <1>2, Zenon DEF ConnectionInv, Flags, TypeOK, EndsSettled
<1> QED
  BY <1>1, <1>3, UnmovedKeeps, Zenon

\* What the invariant is for.
LEMMA ConnectionFacts ==
  ASSUME ConnectionInv
  PROVE  TypeOK /\ Driven /\ EndsSettled /\ RequestsLive /\ BudgetEarned /\ WelcomeKept
<1>0. TypeOK /\ Driven /\ EndsSettled /\ Requests /\ Attempts /\ Kept
  BY Zenon DEF ConnectionInv
<1>1. RequestsLive
  BY <1>0, Zenon DEF Requests, RequestsLive, Driven, Open, Command
<1>2. BudgetEarned
  BY SMTT(30), <1>0 DEF Attempts, BudgetEarned
<1>3. DOMAIN queue = 1 .. Len(queue)
  BY <1>0 DEF TypeOK
<1>4. WelcomeKept
  BY <1>0, <1>3, Zenon DEF Kept, KeptIn, WelcomeIn, WelcomeKept, Hello
<1> QED
  BY <1>0, <1>1, <1>2, <1>4, Zenon

\* The invariant of the connection holds throughout.
LEMMA ConnectionAlways == Spec => []ConnectionInv
<1>1. Init => ConnectionInv
  BY ConnectionInitial, Zenon
<1>2. ConnectionInv /\ [Next]_vars => ConnectionInv'
  BY ConnectionStep, ConnectionStutter, Zenon
<1> QED
  BY <1>1, <1>2, PTL DEF Spec

\* In every state of the client there is exactly what moves it on: its
\* connection, timers and heartbeat are those of the current generation, for any
\* interleaving of factories that settle late, lost transports, reconnects and
\* closes (omp-client-connection.ts and omp-client-runtime.ts).
THEOREM AlwaysDriven == Spec => []Driven
<1>1. ConnectionInv => Driven
  BY Zenon DEF ConnectionInv
<1> QED
  BY <1>1, ConnectionAlways, PTL

\* close() and fatal() leave no request, no connect() and no frame unsettled,
\* for any number of requests in flight.
THEOREM AlwaysSettled == Spec => []EndsSettled
<1>1. ConnectionInv => EndsSettled
  BY Zenon DEF ConnectionInv
<1> QED
  BY <1>1, ConnectionAlways, PTL

\* A command waits only for a transport that is attached, for any number of
\* requests and connections: handleDisconnect() settles the others.
THEOREM AlwaysLive == Spec => []RequestsLive
<1>1. ConnectionInv => RequestsLive
  BY ConnectionFacts, Zenon
<1> QED
  BY <1>1, ConnectionAlways, PTL

\* The welcome of a connection is handled or waits in the queue, unless it went
\* with the stale frames ahead of it, for any length of the queue.
THEOREM AlwaysKept == Spec => []WelcomeKept
<1>1. ConnectionInv => WelcomeKept
  BY ConnectionFacts, Zenon
<1> QED
  BY <1>1, ConnectionAlways, PTL

\* Every variable of the connection keeps its range, for any queue limit and
\* any number of requests and connections.
THEOREM ConnectionTypes == Spec => []TypeOK
<1>1. ConnectionInv => TypeOK
  BY Zenon DEF ConnectionInv
<1> QED
  BY <1>1, ConnectionAlways, PTL

\* maybeReset() clears the count of attempts only when no replay is open.
THEOREM AlwaysEarned == Spec => []BudgetEarned
<1>1. ConnectionInv => BudgetEarned
  BY ConnectionFacts, Zenon
<1> QED
  BY <1>1, ConnectionAlways, PTL
=============================================================================
