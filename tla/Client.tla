------------------------------- MODULE Client -------------------------------
(***************************************************************************)
(* OmpClient as its desktop user creates it: ClientConnection with its     *)
(* CursorJournal, where packages/client/src/omp-client-runtime.ts and      *)
(* apps/desktop/src/target-manager.ts join them.  connect() loads the      *)
(* journal first, a welcome may reset it, session frames are remembered in *)
(* it, close() waits for its saves, and a client that was closed or whose  *)
(* process died is replaced by another one over the same store.            *)
(***************************************************************************)
EXTENDS ClientConnection, CursorJournal

CONSTANT MaxLives  \* bound on the clients created after the first, kept by NextClient

ASSUME LivesAssumption == MaxLives \in Nat

VARIABLE lives

clientVars == <<vars, journalVars, lives>>

ClientInit == Init /\ JournalInit /\ lives \in 0 .. MaxLives

WelcomeFrame == {"ready", "pairing"}
JournalIdle == UNCHANGED <<journalVars, lives>>

\* The target manager connects a client once, right after it created it.
ClientConnect == state = "idle" /\ Connect /\ JournalIdle

\* load() fails or yields what the store holds.
ClientLoaded == Loaded /\ (Load \/ UNCHANGED journalVars) /\ UNCHANGED lives

\* A welcome is handled, at once or from the queue.
ClientWelcome ==
  /\ \/ \E f \in WelcomeFrame : Receive(f)
     \/ DrainFrame /\ Head(queue).kind \in WelcomeFrame
  /\ Welcome /\ UNCHANGED lives

\* A frame of a session is remembered; it may complete a replay.
ClientStream ==
  /\ \/ Receive("replay")
     \/ state = "ready" /\ drain = "idle" /\ UNCHANGED vars
  /\ Snapshot \/ Durable
  /\ UNCHANGED lives

\* So many other sessions are remembered that this one is forgotten.
ClientEvict ==
  /\ state = "ready" /\ drain = "idle" /\ Evict
  /\ UNCHANGED <<vars, lives>>

ClientSave == Turn /\ (SaveSucceeds \/ SaveFails) /\ UNCHANGED <<vars, lives>>

\* close() that does not wait for the saves.
CloseHasty == CloseDone /\ JournalIdle

\* waitForSaves(), then the end of close().
ClientClosed == writing = NoCursor /\ CloseDone /\ JournalIdle

\* createOmpClient() once more.
Created ==
  /\ state' = "idle" /\ closed' = FALSE
  /\ gen' = 0 /\ opening' = {} /\ socket' = 0 /\ timer' = FALSE /\ attempt' = 0
  /\ handshake' = FALSE /\ heartbeat' = "off" /\ pong' = FALSE /\ probe' = "none"
  /\ attached' = FALSE /\ SettleAll
  /\ queue' = <<>> /\ drain' = "idle" /\ storing' = 0
  /\ waiting' = FALSE /\ loading' = FALSE /\ releasing' = FALSE /\ compat' = FALSE
  /\ welcomed' = FALSE /\ late' = FALSE /\ swept' = FALSE /\ UNCHANGED ends

\* The process dies and the user starts it again, or the target manager
\* replaces a client that it closed.
NextClient ==
  /\ lives < MaxLives /\ lives' = lives + 1
  /\ state # "idle" /\ Created /\ Recreate

\* Timers fire, and transport factories, the credential store and the release
\* of the preview leases answer.
Progress ==
  /\ \/ BeginReconnect \/ HandshakeTimeout \/ CloseReleased
     \/ \E g \in opening : OpenedLate(g) \/ Opened(g) \/ OpenFails(g)
     \/ PairStored \/ PairNotStored \/ DrainEnds
     \/ DrainFrame /\ Head(queue).kind \notin WelcomeFrame
  /\ JournalIdle

\* What the user, the network and the host may do or not.
Optional ==
  /\ \/ ReconnectNow \/ Close
     \/ \E r \in Slot, kind \in {"command", "attach", "pair"} : Send(r, kind)
     \/ \E r \in Slot : GiveUp(r)
     \/ Lost \/ HelloRejected \/ Refused
     \/ HeartbeatTick \/ HeartbeatFailure
     \/ \E f \in Frame \ (WelcomeFrame \cup {"replay"}) : Receive(f)
     \/ \E f \in Frame : Enqueue(f)
  /\ JournalIdle

ClientNext ==
  \/ ClientConnect \/ ClientLoaded \/ ClientWelcome \/ ClientStream \/ ClientEvict
  \/ ClientSave \/ ClientClosed \/ NextClient \/ Progress \/ Optional

ClientSpec == ClientInit /\ [][ClientNext]_clientVars

\* Some step that depends on the client alone, or on a store or a factory that
\* answers, is taken as long as there is one.
ClientFairness ==
  WF_clientVars(\/ ClientConnect \/ ClientLoaded \/ ClientSave \/ ClientClosed \/ Progress
                \/ ClientWelcome /\ drain = "loop")

-----------------------------------------------------------------------------

\* A closed client has nothing left to save: the client that replaces it loads
\* what this one remembered last, unless the save of it failed.
ClosedFlushed ==
  state = "closed" => writing = NoCursor /\ barrier = NoCursor /\ latest = NoCursor

=============================================================================
