----------------------- MODULE SessionLifecycleProofs -----------------------
(***************************************************************************)
(* Proofs about SessionLifecycle.  What a lifecycle handler established    *)
(* before an await stays true until it acts on it because the fence        *)
(* refuses new work (Undisturbed); a start in flight knows that no child   *)
(* of the session lives (Locked), that the session is on disk (OnDisk) and *)
(* that it is not shown as released (NotReleased).                         *)
(***************************************************************************)
EXTENDS SessionLifecycle, TLAPS

\* A host that is down remembers nothing, and owns no entry of the registry.
AtRest ==
  ~up => /\ ~indexed /\ ~closed /\ control = "none"
         /\ sup = "none" /\ start = NoStart /\ ~turn /\ cmd = "idle"
         /\ life = NoLife /\ refresh = Resting

\* The handlers that stop the runtime, and what each stage belongs to.
Stages ==
  /\ life.kind = "none" => life = NoLife
  /\ life.pc \in {"quiesce", "exit"} => life.kind \in {"close", "release", "archive", "delete"}
  /\ life.pc = "project" => life.kind \in {"archive", "restore"}
  /\ life.pc = "start" => life.kind = "reclaim"
  /\ life # NoLife => indexed
  /\ cmd = "join" => Starting

\* OMP's lock: the host's as long as its child lives; a child without it is one
\* that just started, or one of a crashed host that the next boot reaps.
Locked ==
  /\ lock = "host" => child
  /\ child /\ lock # "host" => IF up THEN start.pc \in {"spawn", "cleanup"} /\ registry = "own"
                                     ELSE registry = "foreign"
  /\ start.pc = "checked" => ~child

\* Once release, archive and delete saw the session idle, it stays idle; once
\* the lock was free, no child runs.
Undisturbed ==
  /\ life.kind \in {"release", "archive"} \/ (life.kind = "delete" /\ life.pc # "pre1")
       => start = NoStart /\ cmd = "idle" /\ ~turn
  /\ life.kind = "delete" /\ life.pc = "pre2" => sup = "none"
  /\ life.kind \in {"archive", "delete"} /\ life.pc \in {"apply", "project", "forget"} => ~child

\* What is on disk, what the index has of it, and which starts may go on.
OnDisk ==
  /\ file # "active" => ~child
  /\ file = "archived" => start = NoStart
  /\ file = "deleted" => start.pc \in {"none", "gate"}
  /\ life.kind = "delete" /\ life.pc = "forget" => file = "deleted"
  /\ up /\ file = "deleted" => ~indexed \/ (life.kind = "delete" /\ life.pc = "forget")
  /\ up /\ ~indexed => file = "deleted"

\* What clients see of it.
Shown ==
  up /\ indexed =>
    IF life.pc = "project" THEN file = (IF life.kind = "archive" THEN "archived" ELSE "active")
    ELSE IF life.kind = "delete" /\ life.pc = "forget" THEN TRUE
    ELSE refArch <=> file = "archived"

\* A session stays closed from the moment session.close marks it: what was
\* starting settles first, the runtime stops, and nothing starts again.
Closing ==
  /\ life.kind = "close" => closed
  /\ closed /\ ~(life.kind = "close" /\ life.pc = "pending" /\ ~life.was) => start = NoStart
  /\ closed /\ ~(life.kind = "close" /\ life.pc \in {"pending", "quiesce", "exit"} /\ ~life.was)
       => sup = "none"

\* No start is on its way while the session is shown as released.
NotReleased == Starting \/ refresh.pc = "promote" => control # "released"

LifecycleInv ==
  /\ TypeOK /\ AtRest /\ Stages /\ Locked /\ Undisturbed /\ OnDisk /\ Shown /\ Closing
  /\ NotReleased


-----------------------------------------------------------------------------
(* What the steps of the activities do *)

LifeType == [kind : Kinds \cup {"none"}, pc : LifeStage, fresh : BOOLEAN, was : BOOLEAN]
StartType == [pc : StartStage, force : BOOLEAN]
RefreshType == [pc : RefreshStage, rerun : BOOLEAN]

\* The handler stands at stage p, and is the one it was.
Moved(p) ==
  life' \in LifeType /\ life'.kind = life.kind /\ life'.pc = p /\ life'.was = life.was

\* A handler goes on to its next stage.
LEMMA GoMoves ==
  ASSUME TypeOK, NEW p \in LifeStage, Go(p)
  PROVE  Moved(p)
BY Zenon DEF TypeOK, LifeType, Go, Moved

\* The handler that is none.
LEMMA EndType == NoLife \in LifeType /\ NoLife.kind = "none" /\ NoLife.pc = "idle"
BY Zenon DEF LifeType, LifeStage, NoLife

\* The start promise is created at its gate.
LEMMA GateType ==
  NoStart \in StartType /\ \A f \in BOOLEAN : [pc |-> "gate", force |-> f] \in StartType
BY Zenon DEF StartType, StartStage, NoStart

\* The start goes on to its next stage.
LEMMA CheckType ==
  ASSUME TypeOK, NEW p \in StartStage, start' = [start EXCEPT !.pc = p]
  PROVE  start' \in StartType /\ start'.pc = p /\ start'.force = start.force
BY Zenon DEF TypeOK, StartType

\* A poll changes the record that the handler writes to, at most.
LEMMA PollMoves ==
  ASSUME TypeOK, Stages, ApplyPoll
  PROVE  Moved(life.pc) /\ (life' = NoLife <=> life = NoLife)
<1>1. life' \in {life, [life EXCEPT !.fresh = FALSE]} /\ (life = NoLife => life' = life)
  BY Zenon DEF ApplyPoll, Fenced
<1>2. Moved(life.pc)
  BY <1>1, Zenon DEF TypeOK, LifeType, Moved
<1> QED
  BY <1>1, <1>2, EndType, Zenon DEF Stages, Moved

\* A refresh that is asked for, or that ends, is at no promotion of its own.
LEMMA RefreshMoves ==
  ASSUME TypeOK
  PROVE  /\ Enqueue(refresh) \in RefreshType /\ Enqueue(refresh).pc \in {"begin", refresh.pc}
         /\ Rest(refresh) \in RefreshType /\ Rest(refresh).pc \in {"begin", "idle"}
BY Zenon DEF TypeOK, RefreshType, RefreshStage, Enqueue, Rest, Resting

\* A refresh goes on to its next stage.
LEMMA StepMoves ==
  ASSUME TypeOK, NEW p \in RefreshStage, Step(p)
  PROVE  refresh' \in RefreshType /\ refresh'.pc = p
BY Zenon DEF TypeOK, RefreshType, Step

\* A start that settles lets its callers go on, and leaves a handler other than
\* reclaim where it is.
Settled ==
  /\ start' = NoStart
  /\ cmd' \in {"idle", "call", "attach"} /\ (cmd = "idle" => cmd' = "idle")
  /\ life' \in LifeType
  /\ \/ life' = life
     \/ life.kind = "reclaim" /\ life.pc = "start" /\ life'.kind = "reclaim" /\ life'.pc = "finally"
  /\ refresh' \in RefreshType /\ (refresh'.pc = "promote" => refresh.pc = "promote")

\* The start promise settles.
LEMMA SettleMoves ==
  ASSUME TypeOK, Stages, NEW ok \in BOOLEAN, Settle(ok)
  PROVE  Settled
<1>1. start' = NoStart /\ cmd' \in {"idle", "call", "attach"} /\ (cmd = "idle" => cmd' = "idle")
  BY Zenon DEF Settle, TypeOK
<1>2. life' \in LifeType
  BY Zenon DEF TypeOK, Settle, LifeType, LifeStage
<1>3. \/ life' = life
      \/ life.kind = "reclaim" /\ life.pc = "start" /\ life'.kind = "reclaim" /\ life'.pc = "finally"
  BY Zenon DEF TypeOK, Settle, Stages
<1>4. refresh' \in RefreshType
  BY RefreshMoves, Zenon DEF TypeOK, Settle, RefreshType, RefreshStage
<1>5. refresh'.pc = "promote" => refresh.pc = "promote"
  BY RefreshMoves, Zenon DEF TypeOK, Settle
<1> QED
  BY <1>1, <1>2, <1>3, <1>4, <1>5, Zenon DEF Settled

\* A step that leaves the disk, the index and the start alone and stops the
\* runtime at most: work is added only while no handler is fenced for.
LEMMA Unaffected ==
  ASSUME LifecycleInv, TypeOK', up, NotReleased',
         UNCHANGED <<up, file, lock, registry, child, indexed, refArch, closed, start>>,
         Moved(life.pc), life' = NoLife <=> life = NoLife,
         cmd' \in {cmd, "idle"} \/ (cmd' # "join" /\ life = NoLife),
         turn' => turn \/ cmd # "idle",
         sup = "none" => sup' = "none"
  PROVE  LifecycleInv'
<1> USE DEF LifecycleInv, Moved
<1>1. AtRest' /\ Stages' /\ Locked'
  BY Zenon DEF AtRest, Stages, Locked, Starting
<1>2. Undisturbed' /\ Closing'
  BY EndType, Zenon DEF Undisturbed, Closing
<1>3. OnDisk' /\ Shown'
  BY Zenon DEF OnDisk, Shown
<1> QED
  BY <1>1, <1>2, <1>3, Zenon

-----------------------------------------------------------------------------
(* Commands of a session *)

\* A session command starts the runtime, joins a start, or calls.
LEMMA CommandKeeps ==
  ASSUME LifecycleInv, Command
  PROVE  LifecycleInv'
<1> USE DEF LifecycleInv
<1>1. start' \in {start, [pc |-> "gate", force |-> FALSE]} /\ cmd' \in {"join", "call"}
  BY Zenon DEF Command
<1>2. start' \in StartType
  BY <1>1, GateType, Zenon DEF TypeOK, StartType
<1>3. TypeOK'
  BY <1>1, <1>2 DEF TypeOK, Command, StartType, diskVars, refVars, watchVars
<1>4. AtRest' /\ Stages' /\ NotReleased'
  BY <1>1, <1>2
     DEF AtRest, Stages, NotReleased, Command, observerBarrier, refVars, watchVars, NoStart,
         Starting
<1>5. Locked' /\ Undisturbed'
  BY <1>1, <1>2 DEF Locked, Undisturbed, Command, diskVars, NoLife, NoStart, Starting, Fenced
<1>6. OnDisk' /\ Shown'
  BY <1>1, <1>2 DEF OnDisk, Shown, Command, sessionArchived, diskVars, refVars, NoLife, Fenced
<1>7. Closing'
  BY <1>1, <1>2, Zenon DEF Closing, Command, refVars
<1> QED
  BY <1>3, <1>4, <1>5, <1>6, <1>7, Zenon

\* The runtime answers a call: a turn begins only while the call is in flight.
LEMMA AnswerKeeps ==
  ASSUME LifecycleInv, Answer
  PROVE  LifecycleInv'
<1> USE DEF LifecycleInv
<1>1. turn' \in BOOLEAN
  BY Zenon DEF Answer, TypeOK
<1>2. TypeOK'
  BY <1>1 DEF TypeOK, Answer, diskVars, refVars, watchVars
<1>3. NotReleased'
  BY <1>1, Zenon DEF NotReleased, Answer, Starting, watchVars
<1> QED
  BY <1>1, <1>2, <1>3, Unaffected, Zenon DEF TypeOK, LifeType, Moved, Answer, diskVars, refVars

\* The turn ends.
LEMMA TurnEndKeeps ==
  ASSUME LifecycleInv, TurnEnd
  PROVE  LifecycleInv'
<1> USE DEF LifecycleInv
<1>1. turn' \in BOOLEAN
  BY Zenon DEF TurnEnd
<1>2. TypeOK'
  BY <1>1 DEF TypeOK, TurnEnd, diskVars, refVars, watchVars
<1>3. NotReleased'
  BY <1>1, Zenon DEF NotReleased, TurnEnd, Starting, watchVars
<1> QED
  BY <1>1, <1>2, <1>3, Unaffected, Zenon DEF TypeOK, LifeType, Moved, TurnEnd, diskVars, refVars

\* session.attach asks for a refresh.
LEMMA AttachKeeps ==
  ASSUME LifecycleInv, Attach
  PROVE  LifecycleInv'
<1> USE DEF LifecycleInv
<1>1. refresh' \in RefreshType /\ refresh'.pc \in {"begin", refresh.pc}
  BY RefreshMoves, Zenon DEF Attach
<1>2. TypeOK'
  BY <1>1 DEF TypeOK, Attach, RefreshType, diskVars, refVars, watchVars, runVars
<1>3. NotReleased'
  BY <1>1, Zenon DEF NotReleased, Attach, Starting, watchVars, runVars
<1> QED
  BY <1>1, <1>2, <1>3, Unaffected, Zenon
     DEF TypeOK, LifeType, Moved, Attach, Fenced, diskVars, refVars, runVars

\* session.attach goes on after the refresh.
LEMMA AttachAnsweredKeeps ==
  ASSUME LifecycleInv, AttachAnswered
  PROVE  LifecycleInv'
<1> USE DEF LifecycleInv
<1>1. refresh' \in RefreshType /\ refresh'.pc \in {"begin", refresh.pc}
  BY RefreshMoves, Zenon DEF AttachAnswered, TypeOK, RefreshType
<1>2. observer' \in BOOLEAN /\ timer' \in BOOLEAN /\ deliver' \in BOOLEAN
  BY Zenon DEF AttachAnswered, TypeOK, cleanupObserverState
<1>3. TypeOK'
  BY <1>1, <1>2 DEF TypeOK, AttachAnswered, RefreshType, diskVars, refVars, runVars
<1>4. NotReleased'
  BY <1>1, <1>2, Zenon DEF NotReleased, AttachAnswered, Starting, runVars
<1> QED
  BY <1>1, <1>2, <1>3, <1>4, Unaffected, Zenon
     DEF TypeOK, LifeType, Moved, AttachAnswered, diskVars, refVars, runVars

\* The attach is delivered.
LEMMA AttachedKeeps ==
  ASSUME LifecycleInv, Attached
  PROVE  LifecycleInv'
<1> USE DEF LifecycleInv
<1>1. deliver' \in BOOLEAN /\ attached' \in BOOLEAN /\ timer' \in BOOLEAN
  BY Zenon DEF Attached, TypeOK
<1>2. TypeOK'
  BY <1>1 DEF TypeOK, Attached, diskVars, refVars, runVars
<1>3. NotReleased'
  BY <1>1, Zenon DEF NotReleased, Attached, Starting, runVars
<1> QED
  BY <1>1, <1>2, <1>3, Unaffected, Zenon
     DEF TypeOK, LifeType, Moved, Attached, diskVars, refVars, runVars

\* The last client detaches.
LEMMA DetachKeeps ==
  ASSUME LifecycleInv, Detach
  PROVE  LifecycleInv'
<1> USE DEF LifecycleInv
<1>1. attached' \in BOOLEAN /\ observer' \in BOOLEAN /\ timer' \in BOOLEAN
  BY Zenon DEF Detach, cleanupObserverState
<1>2. TypeOK'
  BY <1>1 DEF TypeOK, Detach, diskVars, refVars, runVars
<1>3. NotReleased'
  BY <1>1, Zenon DEF NotReleased, Detach, Starting, runVars
<1> QED
  BY <1>1, <1>2, <1>3, Unaffected, Zenon
     DEF TypeOK, LifeType, Moved, Detach, diskVars, refVars, runVars

-----------------------------------------------------------------------------
(* startSupervisor, the child and its supervisor *)

\* A start that settles leaves a child behind only with the lock.
LEMMA SettledKeeps ==
  ASSUME LifecycleInv, Settled, up, start # NoStart,
         UNCHANGED <<up, diskVars, refVars, watchVars, turn, deliver>>,
         start.pc \in {"spawn", "cleanup"} => ~child \/ lock = "host",
         sup' \in {sup, "ready"}
  PROVE  LifecycleInv'
<1> USE DEF LifecycleInv, Settled, diskVars, refVars, watchVars
<1>1. TypeOK'
  BY GateType DEF TypeOK, LifeType, StartType, RefreshType
<1>2. AtRest' /\ Stages' /\ NotReleased'
  BY EndType, Zenon DEF AtRest, Stages, NotReleased, Starting
<1>3. Locked' /\ Undisturbed'
  BY Zenon DEF Locked, Undisturbed, NoStart
<1>4. OnDisk' /\ Shown'
  BY Zenon DEF OnDisk, Shown, NoStart
<1>5. Closing'
  BY Zenon DEF Closing
<1> QED
  BY <1>1, <1>2, <1>3, <1>4, <1>5, Zenon

\* The start passes its gate with the lock free, so no child lives.
LEMMA StartGateKeeps ==
  ASSUME LifecycleInv, StartGate
  PROVE  LifecycleInv'
<1> USE DEF LifecycleInv, diskVars, refVars, watchVars
<1>1. up /\ start.pc = "gate" /\ start # NoStart
  BY DEF StartGate, NoStart
<1>2. CASE Settle(TRUE) \/ Settle(FALSE)
  <2>1. Settled
    BY <1>2, SettleMoves, Zenon
  <2> QED
    BY <1>1, <2>1, SettledKeeps, Zenon DEF StartGate
<1>3. CASE ~ (Settle(TRUE) \/ Settle(FALSE))
  <2>1. /\ sup = "none" /\ indexed /\ MayStart(start.force) /\ lock = "free"
        /\ start' = [start EXCEPT !.pc = "checked"]
        /\ UNCHANGED <<cmd, life, refresh>>
    BY <1>3, Zenon DEF StartGate, LockFree
  <2>2. start' \in StartType /\ start'.pc = "checked"
    BY <2>1, CheckType, Zenon DEF StartStage
  <2>3. start' # NoStart
    BY <2>2 DEF NoStart
  <2>4. ~child
    BY <1>1, <2>1, Zenon DEF Locked
  <2>5. TypeOK'
    BY <2>1, <2>2 DEF StartGate, TypeOK, StartType
  <2>6. AtRest' /\ Stages' /\ NotReleased' /\ Locked'
    BY <1>1, <2>1, <2>2, <2>3, <2>4, Zenon DEF StartGate, AtRest, Stages, NotReleased, Starting, Locked
  <2>7. Undisturbed' /\ OnDisk' /\ Shown'
    BY <1>1, <2>1, <2>2, Zenon DEF StartGate, Undisturbed, OnDisk, Shown
  <2>8. Closing'
    BY <1>1, <2>1, Zenon DEF StartGate, Closing
  <2> QED
    BY <2>5, <2>6, <2>7, <2>8, Zenon
<1> QED
  BY <1>2, <1>3, Zenon

\* The child is spawned and registered.
LEMMA StartSpawnKeeps ==
  ASSUME LifecycleInv, StartSpawn
  PROVE  LifecycleInv'
<1> USE DEF LifecycleInv, diskVars, refVars, watchVars
<1>1. up /\ start.pc = "checked" /\ start # NoStart /\ ~child
  BY DEF StartSpawn, NoStart, Locked
<1>2. CASE Settle(FALSE)
  <2>1. Settled
    BY <1>2, SettleMoves, Zenon
  <2>2. start'.pc = "none"
    BY <2>1, Zenon DEF Settled, NoStart
  <2>3. start' # [start EXCEPT !.pc = "spawn"]
    BY <2>2, CheckType, Zenon DEF StartStage
  <2>4. UNCHANGED <<sup, child, registry, lock>>
    BY <2>3, Zenon DEF StartSpawn
  <2> QED
    BY <1>1, <2>1, <2>4, SettledKeeps, Zenon DEF StartSpawn
<1>3. CASE ~ Settle(FALSE)
  <2>1. /\ indexed /\ MayStart(start.force)
        /\ start' = [start EXCEPT !.pc = "spawn"]
        /\ sup' = "starting" /\ child' = TRUE /\ registry' = "own"
        /\ lock' = IF LockFree THEN "host" ELSE lock
        /\ UNCHANGED <<cmd, life, refresh>>
    BY <1>3, Zenon DEF StartSpawn
  <2>2. start' \in StartType /\ start'.pc = "spawn"
    BY <2>1, CheckType, Zenon DEF StartStage
  <2>3. start' # NoStart
    BY <2>2 DEF NoStart
  <2>4. child' \in BOOLEAN /\ child'
    BY <2>1, Zenon
  <2>5. file = "active"
    BY <1>1, Zenon DEF OnDisk, TypeOK
  <2>6. TypeOK'
    BY <2>1, <2>2, <2>4 DEF StartSpawn, TypeOK, StartType
  <2>7. AtRest' /\ Stages' /\ NotReleased' /\ Locked'
    BY <1>1, <2>1, <2>2, <2>3, <2>4, Zenon
       DEF StartSpawn, AtRest, Stages, NotReleased, Starting, Locked
  <2>8. Undisturbed'
    BY <1>1, <2>1, <2>2, Zenon DEF Undisturbed
  <2>9. OnDisk' /\ Shown'
    BY <1>1, <2>1, <2>5, Zenon DEF StartSpawn, OnDisk, Shown
  <2>10. Closing'
    BY <1>1, <2>1, Zenon DEF StartSpawn, Closing
  <2> QED
    BY <2>6, <2>7, <2>8, <2>9, <2>10, Zenon
<1> QED
  BY <1>2, <1>3, Zenon

\* The runtime is ready: the child has the lock.
LEMMA StartReadyKeeps ==
  ASSUME LifecycleInv, StartReady
  PROVE  LifecycleInv'
<1>1. Settled
  BY SettleMoves, Zenon DEF LifecycleInv, StartReady
<1>2. start # NoStart
  BY DEF StartReady, NoStart
<1> QED
  BY <1>1, <1>2, SettledKeeps, Zenon DEF StartReady, watchVars

\* The cleanup of a start that failed leaves no child without the lock.
LEMMA StartCleanupKeeps ==
  ASSUME LifecycleInv, StartCleanup
  PROVE  LifecycleInv'
<1>1. Settled
  BY SettleMoves, Zenon DEF LifecycleInv, StartCleanup
<1>2. start # NoStart
  BY DEF StartCleanup, NoStart
<1> QED
  BY <1>1, <1>2, SettledKeeps, Zenon DEF StartCleanup, watchVars

\* The runtime does not come up: the start goes on to its cleanup.
LEMMA StartFailKeeps ==
  ASSUME LifecycleInv, StartFail
  PROVE  LifecycleInv'
<1> USE DEF LifecycleInv
<1>1. start' \in StartType /\ start'.pc = "cleanup"
  BY CheckType, Zenon DEF StartFail, StartStage
<1>2. turn' \in BOOLEAN
  BY Zenon DEF StartFail
<1>3. TypeOK'
  BY <1>1, <1>2 DEF TypeOK, StartFail, StartType, diskVars, refVars, watchVars
<1>4. AtRest' /\ Stages' /\ NotReleased'
  BY <1>1, <1>2
     DEF AtRest, Stages, NotReleased, StartFail, refVars, watchVars, NoStart, Starting
<1>5. Locked' /\ Undisturbed'
  BY <1>1, <1>2 DEF Locked, Undisturbed, StartFail, diskVars, NoStart
<1>6. OnDisk' /\ Shown'
  BY <1>1, <1>2 DEF OnDisk, Shown, StartFail, diskVars, refVars, NoStart
<1>7. Closing'
  BY <1>1, <1>2 DEF Closing, StartFail, refVars, NoStart
<1> QED
  BY <1>3, <1>4, <1>5, <1>6, <1>7, Zenon

\* A child dies and lets go of the lock.
LEMMA ChildDiesKeeps ==
  ASSUME LifecycleInv, ChildDies
  PROVE  LifecycleInv'
<1> USE DEF LifecycleInv
<1>1. child' \in BOOLEAN
  BY Zenon DEF ChildDies
<1>2. TypeOK'
  BY <1>1 DEF TypeOK, ChildDies, refVars, watchVars, runVars
<1>3. AtRest' /\ Stages' /\ NotReleased'
  BY <1>1, Zenon DEF AtRest, Stages, NotReleased, ChildDies, refVars, watchVars, runVars, Starting
<1>4. Locked' /\ Undisturbed'
  BY <1>1, Zenon DEF Locked, Undisturbed, ChildDies, runVars
<1>5. OnDisk' /\ Shown'
  BY <1>1, Zenon DEF OnDisk, Shown, ChildDies, refVars
<1>6. Closing'
  BY <1>1, Zenon DEF Closing, ChildDies, refVars, runVars
<1> QED
  BY <1>2, <1>3, <1>4, <1>5, <1>6, Zenon

\* The supervisor fails while no lifecycle handler runs.
LEMMA SupervisorFailsKeeps ==
  ASSUME LifecycleInv, SupervisorFails
  PROVE  LifecycleInv'
<1> USE DEF LifecycleInv
<1>1. turn' \in BOOLEAN
  BY Zenon DEF SupervisorFails
<1>2. TypeOK'
  BY <1>1 DEF TypeOK, SupervisorFails, diskVars, refVars, watchVars
<1>3. NotReleased'
  BY <1>1, Zenon DEF NotReleased, SupervisorFails, Starting, watchVars
<1> QED
  BY <1>1, <1>2, <1>3, Unaffected, Zenon
     DEF TypeOK, LifeType, Moved, SupervisorFails, diskVars, refVars

\* The supervisor notices the exit of its child.
LEMMA SupervisorExitKeeps ==
  ASSUME LifecycleInv, SupervisorExit
  PROVE  LifecycleInv'
<1> USE DEF LifecycleInv
<1>1. turn' = FALSE \/ turn' = turn
  BY Zenon DEF SupervisorExit
<1>2. turn' \in BOOLEAN
  BY <1>1, Zenon DEF TypeOK
<1>3. turn' => turn
  BY <1>1, Zenon
<1>4. TypeOK'
  BY <1>1, <1>2, <1>3 DEF TypeOK, SupervisorExit, diskVars, refVars, watchVars
<1>5. NotReleased'
  BY <1>1, <1>2, <1>3, Zenon DEF NotReleased, SupervisorExit, Starting, watchVars
<1> QED
  BY <1>1, <1>2, <1>3, <1>4, <1>5, Unaffected, Zenon
     DEF TypeOK, LifeType, Moved, SupervisorExit, diskVars, refVars

-----------------------------------------------------------------------------
(* The lifecycle handlers begin *)

\* session.close marks the session before anything else.
LEMMA CloseKeeps ==
  ASSUME LifecycleInv, Close
  PROVE  LifecycleInv'
<1> USE DEF LifecycleInv
<1>1. life' \in LifeType /\ life'.kind = "close" /\ life'.pc = "pending" /\ life'.was = closed
  BY Zenon DEF Close, TypeOK, LifeType, LifeStage, Kinds
<1>2. closed' \in BOOLEAN
  BY Zenon DEF Close
<1>3. TypeOK'
  BY <1>1, <1>2 DEF TypeOK, Close, LifeType, diskVars, watchVars, runVars
<1>4. AtRest' /\ Stages' /\ NotReleased'
  BY <1>1, <1>2, Zenon DEF AtRest, Stages, NotReleased, Close, Admitted, watchVars, runVars, Starting
<1>5. Locked' /\ Undisturbed'
  BY <1>1, <1>2, Zenon DEF Locked, Undisturbed, Close, diskVars, runVars
<1>6. OnDisk' /\ Shown'
  BY <1>1, <1>2 DEF OnDisk, Shown, Close, Admitted, sessionArchived, diskVars, NoLife, Fenced
<1>7. Closing'
  BY <1>1, <1>2 DEF Closing, Close, Admitted, runVars, NoLife, Fenced
<1> QED
  BY <1>3, <1>4, <1>5, <1>6, <1>7, Zenon

\* session.release of an idle session.
LEMMA ReleaseKeeps ==
  ASSUME LifecycleInv, Release
  PROVE  LifecycleInv'
<1> USE DEF LifecycleInv
<1>1. life' \in LifeType /\ life'.kind = "release" /\ life'.pc = "record" /\ life'.was = FALSE
  BY Zenon DEF Release, Begin, LifeType, LifeStage, Kinds
<1>2. TypeOK'
  BY <1>1 DEF TypeOK, Release, LifeType, diskVars, refVars, watchVars, runVars
<1>3. AtRest' /\ Stages' /\ NotReleased'
  BY <1>1, Zenon
     DEF AtRest, Stages, NotReleased, Release, Admitted, refVars, watchVars, runVars, Starting
<1>4. Locked' /\ Undisturbed'
  BY <1>1, Zenon DEF Locked, Undisturbed, Release, sessionLifecycleBusy, diskVars, runVars
<1>5. OnDisk' /\ Shown'
  BY <1>1
     DEF OnDisk, Shown, Release, Admitted, sessionArchived, diskVars, refVars, NoLife, Fenced
<1>6. Closing'
  BY <1>1 DEF Closing, Release, Admitted, refVars, runVars, NoLife, Fenced
<1> QED
  BY <1>2, <1>3, <1>4, <1>5, <1>6, Zenon

\* session.reclaim.
LEMMA ReclaimKeeps ==
  ASSUME LifecycleInv, Reclaim
  PROVE  LifecycleInv'
<1> USE DEF LifecycleInv
<1>1. life' \in LifeType /\ life'.kind = "reclaim" /\ life'.pc = "status" /\ life'.was = FALSE
  BY Zenon DEF Reclaim, Begin, LifeType, LifeStage, Kinds
<1>2. TypeOK'
  BY <1>1 DEF TypeOK, Reclaim, LifeType, diskVars, refVars, watchVars, runVars
<1>3. AtRest' /\ Stages' /\ NotReleased'
  BY <1>1, Zenon
     DEF AtRest, Stages, NotReleased, Reclaim, Admitted, refVars, watchVars, runVars, Starting
<1>4. Locked' /\ Undisturbed'
  BY <1>1, Zenon DEF Locked, Undisturbed, Reclaim, diskVars, runVars
<1>5. OnDisk' /\ Shown'
  BY <1>1
     DEF OnDisk, Shown, Reclaim, Admitted, sessionArchived, diskVars, refVars, NoLife, Fenced
<1>6. Closing'
  BY <1>1 DEF Closing, Reclaim, Admitted, refVars, runVars, NoLife, Fenced
<1> QED
  BY <1>2, <1>3, <1>4, <1>5, <1>6, Zenon

\* session.archive of an idle session.
LEMMA ArchiveKeeps ==
  ASSUME LifecycleInv, Archive
  PROVE  LifecycleInv'
<1> USE DEF LifecycleInv
<1>1. life' \in LifeType /\ life'.kind = "archive" /\ life'.pc = "quiesce" /\ life'.was = FALSE
  BY Zenon DEF Archive, Begin, LifeType, LifeStage, Kinds
<1>2. TypeOK'
  BY <1>1 DEF TypeOK, Archive, LifeType, diskVars, refVars, watchVars, runVars
<1>3. AtRest' /\ Stages' /\ NotReleased'
  BY <1>1, Zenon
     DEF AtRest, Stages, NotReleased, Archive, Admitted, refVars, watchVars, runVars, Starting
<1>4. Locked' /\ Undisturbed'
  BY <1>1, Zenon DEF Locked, Undisturbed, Archive, sessionLifecycleBusy, diskVars, runVars
<1>5. OnDisk' /\ Shown'
  BY <1>1 DEF OnDisk, Shown, Archive, Admitted, diskVars, refVars, runVars, NoLife, Fenced
<1>6. Closing'
  BY <1>1 DEF Closing, Archive, Admitted, refVars, runVars, NoLife, Fenced
<1> QED
  BY <1>2, <1>3, <1>4, <1>5, <1>6, Zenon

\* session.restore of an archived one.
LEMMA RestoreKeeps ==
  ASSUME LifecycleInv, Restore
  PROVE  LifecycleInv'
<1> USE DEF LifecycleInv
<1>1. life' \in LifeType /\ life'.kind = "restore" /\ life'.pc = "apply" /\ life'.was = FALSE
  BY Zenon DEF Restore, Begin, LifeType, LifeStage, Kinds
<1>2. TypeOK'
  BY <1>1 DEF TypeOK, Restore, LifeType, diskVars, refVars, watchVars, runVars
<1>3. AtRest' /\ Stages' /\ NotReleased'
  BY <1>1, Zenon
     DEF AtRest, Stages, NotReleased, Restore, Admitted, refVars, watchVars, runVars, Starting
<1>4. Locked' /\ Undisturbed'
  BY <1>1, Zenon DEF Locked, Undisturbed, Restore, diskVars, runVars
<1>5. OnDisk' /\ Shown'
  BY <1>1 DEF OnDisk, Shown, Restore, Admitted, diskVars, refVars, runVars, NoLife, Fenced
<1>6. Closing'
  BY <1>1 DEF Closing, Restore, Admitted, refVars, runVars, NoLife, Fenced
<1> QED
  BY <1>2, <1>3, <1>4, <1>5, <1>6, Zenon

\* session.delete.
LEMMA DeleteKeeps ==
  ASSUME LifecycleInv, Delete
  PROVE  LifecycleInv'
<1> USE DEF LifecycleInv
<1>1. life' \in LifeType /\ life'.kind = "delete" /\ life'.pc = "pre1" /\ life'.was = FALSE
  BY Zenon DEF Delete, Begin, LifeType, LifeStage, Kinds
<1>2. TypeOK'
  BY <1>1 DEF TypeOK, Delete, LifeType, diskVars, refVars, watchVars, runVars
<1>3. AtRest' /\ Stages' /\ NotReleased'
  BY <1>1, Zenon
     DEF AtRest, Stages, NotReleased, Delete, Admitted, refVars, watchVars, runVars, Starting
<1>4. Locked' /\ Undisturbed'
  BY <1>1, Zenon DEF Locked, Undisturbed, Delete, diskVars, runVars
<1>5. OnDisk' /\ Shown'
  BY <1>1 DEF OnDisk, Shown, Delete, Admitted, diskVars, refVars, runVars, NoLife, Fenced
<1>6. Closing'
  BY <1>1 DEF Closing, Delete, Admitted, refVars, runVars, NoLife, Fenced
<1> QED
  BY <1>2, <1>3, <1>4, <1>5, <1>6, Zenon

-----------------------------------------------------------------------------
(* They stop the runtime *)


\* Where a handler goes on once the runtime is stopped.
LEMMA AfterQuiesceStage ==
  ASSUME Stages, life.pc \in {"quiesce", "exit"}
  PROVE  /\ AfterQuiesce(life.kind) \in {"forget", "refresh", "lock", "pre2"}
         /\ AfterQuiesce(life.kind) \in {"forget", "refresh", "lock", "pre2"} \cap LifeStage
         /\ AfterQuiesce(life.kind) = "pre2" <=> life.kind = "delete"
         /\ AfterQuiesce(life.kind) = "forget" <=> life.kind = "close"
BY Zenon DEF Stages, AfterQuiesce, LifeStage

\* A handler gives up: it ends, and a session that session.close had marked is
\* no longer closed unless it was before; release goes on to take the transfer
\* back.
LEMMA NotQuiescedMoves ==
  ASSUME TypeOK, NotQuiesced
  PROVE  /\ closed' \in BOOLEAN /\ (closed' => closed /\ (life.kind = "close" => life.was))
         /\ life.kind # "close" => (closed' <=> closed)
         /\ life' = NoLife \/ (life.kind = "release" /\ Moved("finally"))
<1>1. closed' \in BOOLEAN
  BY Zenon DEF TypeOK, NotQuiesced
<1>2. (closed' => closed /\ (life.kind = "close" => life.was)) /\ (life.kind # "close" => (closed' <=> closed))
  BY Zenon DEF NotQuiesced
<1>3. life' = NoLife \/ (life.kind = "release" /\ Moved("finally"))
  BY GoMoves, Zenon DEF NotQuiesced, End, LifeStage
<1> QED
  BY <1>1, <1>2, <1>3, Zenon

\* The runtime is stopped, or the handler gives up.
LEMMA StoppedKeeps ==
  ASSUME LifecycleInv, up, life.pc \in {"quiesce", "exit"},
         UNCHANGED <<up, diskVars, indexed, recArch, refArch, watchVars, start, cmd, deliver, refresh>>,
         turn' \in BOOLEAN, turn' => turn, closed' \in BOOLEAN,
         \/ /\ Moved(AfterQuiesce(life.kind)) /\ sup' = "none" /\ closed' = closed
         \/ /\ Moved("exit") /\ sup' = "stopped" /\ sup # "none" /\ closed' = closed
         \/ /\ life' = NoLife \/ (life.kind = "release" /\ Moved("finally"))
            /\ closed' => closed /\ (life.kind = "close" => life.was)
            /\ sup' = sup
  PROVE  LifecycleInv'
<1> USE DEF LifecycleInv, diskVars, watchVars
<1>1. /\ AfterQuiesce(life.kind) \in {"forget", "refresh", "lock", "pre2"}
      /\ AfterQuiesce(life.kind) = "pre2" <=> life.kind = "delete"
      /\ AfterQuiesce(life.kind) = "forget" <=> life.kind = "close"
      /\ life.kind \in {"close", "release", "archive", "delete"}
  BY AfterQuiesceStage, Zenon DEF Stages
<1>2. life' = NoLife \/ (life'.kind = life.kind /\ life'.was = life.was /\ life' \in LifeType)
  BY Zenon DEF Moved
<1>3. life'.pc \in {"forget", "refresh", "lock", "pre2", "exit", "idle", "finally"}
  BY <1>1, EndType, Zenon DEF Moved
<1>4. TypeOK'
  BY <1>2, EndType DEF TypeOK, LifeType
<1>5. AtRest' /\ Stages' /\ NotReleased' /\ Locked'
  BY <1>1, <1>2, <1>3, EndType, Zenon DEF AtRest, Stages, NotReleased, Starting, Locked
<1>6. Undisturbed'
  BY <1>1, <1>2, <1>3, EndType, Zenon DEF Undisturbed, Moved
<1>7. OnDisk' /\ Shown'
  BY <1>1, <1>2, <1>3, EndType, Zenon DEF OnDisk, Shown, Moved
<1>8. Closing'
  BY <1>1, <1>2, EndType, Zenon DEF Closing, Moved
<1> QED
  BY <1>4, <1>5, <1>6, <1>7, <1>8, Zenon

\* stopSupervisor is called, where there is one to stop.
LEMMA QuiesceKeeps ==
  ASSUME LifecycleInv, Quiesce
  PROVE  LifecycleInv'
<1> USE DEF LifecycleInv
<1>1. up /\ life.pc = "quiesce" /\ AfterQuiesce(life.kind) \in LifeStage /\ "exit" \in LifeStage
  BY AfterQuiesceStage, Zenon DEF Quiesce, LifeStage
<1>2. /\ turn' \in BOOLEAN
      /\ UNCHANGED <<up, diskVars, indexed, recArch, refArch, watchVars, start, cmd, deliver, refresh>>
  BY Zenon DEF Quiesce, TypeOK
<1>3. CASE sup = "none" /\ Go(AfterQuiesce(life.kind)) /\ UNCHANGED <<sup, turn, closed>>
  <2>1. Moved(AfterQuiesce(life.kind))
    BY <1>1, <1>3, GoMoves, Zenon
  <2> QED
    BY <1>1, <1>2, <1>3, <2>1, StoppedKeeps, Zenon DEF TypeOK
<1>4. CASE sup # "none" /\ sup' = "stopped" /\ Go("exit") /\ UNCHANGED <<turn, closed>>
  <2>1. Moved("exit")
    BY <1>1, <1>4, GoMoves, Zenon
  <2> QED
    BY <1>1, <1>2, <1>4, <2>1, StoppedKeeps, Zenon DEF TypeOK
<1>5. CASE /\ NotQuiesced /\ UNCHANGED sup
           /\ turn' = (turn /\ ~(life.kind = "close" /\ ~life.was /\ sup # "none"))
  <2>1. turn' => turn
    BY <1>5, Zenon
  <2> QED
    BY <1>1, <1>2, <1>5, <2>1, NotQuiescedMoves, StoppedKeeps, Zenon
<1> QED
  BY <1>3, <1>4, <1>5, Zenon DEF Quiesce

\* The runtime exits, or survives its signals.
LEMMA QuiesceExitKeeps ==
  ASSUME LifecycleInv, QuiesceExit
  PROVE  LifecycleInv'
<1> USE DEF LifecycleInv
<1>1. up /\ life.pc = "exit" /\ AfterQuiesce(life.kind) \in LifeStage
  BY AfterQuiesceStage, Zenon DEF QuiesceExit
<1>2. /\ turn' \in BOOLEAN
      /\ UNCHANGED <<up, diskVars, indexed, recArch, refArch, watchVars, start, cmd, deliver, refresh>>
  BY Zenon DEF QuiesceExit
<1>3. CASE Go(AfterQuiesce(life.kind)) /\ sup' = "none" /\ turn' = FALSE /\ UNCHANGED closed
  <2>1. Moved(AfterQuiesce(life.kind))
    BY <1>1, <1>3, GoMoves, Zenon
  <2> QED
    BY <1>1, <1>2, <1>3, <2>1, StoppedKeeps, Zenon DEF TypeOK
<1>4. CASE /\ NotQuiesced /\ UNCHANGED sup
           /\ turn' = (turn /\ ~(life.kind = "close" /\ ~life.was))
  <2>1. turn' => turn
    BY <1>4, Zenon
  <2> QED
    BY <1>1, <1>2, <1>4, <2>1, NotQuiescedMoves, StoppedKeeps, Zenon
<1> QED
  BY <1>3, <1>4, Zenon DEF QuiesceExit

-----------------------------------------------------------------------------
(* They go on *)

\* session.close waits for the start to settle.
LEMMA ClosePendingKeeps ==
  ASSUME LifecycleInv, ClosePending
  PROVE  LifecycleInv'
<1> USE DEF LifecycleInv
<1>1. Moved("quiesce")
  BY GoMoves, Zenon DEF ClosePending, LifeStage
<1>2. TypeOK'
  BY <1>1 DEF TypeOK, ClosePending, Moved, LifeType, diskVars, refVars, watchVars, runVars
<1>3. AtRest' /\ Stages' /\ NotReleased'
  BY <1>1
     DEF AtRest, Stages, NotReleased, ClosePending, At, Moved, refVars, watchVars, runVars,
         NoLife, Starting
<1>4. Locked' /\ Undisturbed'
  BY <1>1, Zenon DEF Locked, Undisturbed, ClosePending, At, Moved, diskVars, runVars
<1>5. OnDisk' /\ Shown'
  BY <1>1, Zenon DEF OnDisk, Shown, ClosePending, At, Moved, diskVars, refVars, runVars
<1>6. Closing'
  BY <1>1, Zenon DEF Closing, ClosePending, Moved, refVars, runVars, Starting
<1> QED
  BY <1>2, <1>3, <1>4, <1>5, <1>6, Zenon

\* session.close forgets the runtime.
LEMMA CloseEndKeeps ==
  ASSUME LifecycleInv, CloseEnd
  PROVE  LifecycleInv'
<1> USE DEF LifecycleInv
<1>1. observer' \in BOOLEAN /\ timer' \in BOOLEAN /\ turn' \in BOOLEAN
  BY Zenon DEF CloseEnd, cleanupObserverState
<1>2. life' = NoLife
  BY Zenon DEF CloseEnd, End
<1>3. TypeOK'
  BY <1>1, <1>2, EndType DEF TypeOK, CloseEnd, LifeType, diskVars, refVars
<1>4. AtRest' /\ Stages' /\ NotReleased'
  BY <1>1, <1>2, Zenon DEF AtRest, Stages, NotReleased, CloseEnd, At, NoLife, Starting
<1>5. Locked' /\ Undisturbed'
  BY <1>1, <1>2, Zenon DEF Locked, Undisturbed, CloseEnd, diskVars, NoLife
<1>6. OnDisk' /\ Shown'
  BY <1>1, <1>2, Zenon DEF OnDisk, Shown, CloseEnd, At, diskVars, refVars, NoLife
<1>7. Closing'
  BY <1>1, <1>2, Zenon DEF Closing, CloseEnd, At, refVars
<1> QED
  BY <1>3, <1>4, <1>5, <1>6, <1>7, Zenon

\* session.release records the transfer, or fails.
LEMMA ReleaseRecordKeeps ==
  ASSUME LifecycleInv, ReleaseRecord
  PROVE  LifecycleInv'
<1> USE DEF LifecycleInv
<1>1. (ledger' = "waiting" /\ Moved("quiesce")) \/ (ledger' = ledger /\ life' = NoLife)
  BY GoMoves, Zenon DEF ReleaseRecord, End, LifeStage
<1>2. TypeOK'
  BY <1>1, EndType
     DEF TypeOK, ReleaseRecord, Moved, Ledger, LifeType, refVars, watchVars, runVars
<1>3. AtRest' /\ Stages' /\ NotReleased'
  BY <1>1
     DEF AtRest, Stages, NotReleased, ReleaseRecord, At, Moved, refVars, watchVars, runVars,
         NoLife, Starting
<1>4. Locked' /\ Undisturbed'
  BY <1>1 DEF Locked, Undisturbed, ReleaseRecord, At, Moved, runVars, NoLife
<1>5. OnDisk' /\ Shown'
  BY <1>1 DEF OnDisk, Shown, ReleaseRecord, At, Moved, refVars, runVars, NoLife
<1>6. Closing'
  BY <1>1 DEF Closing, ReleaseRecord, At, Moved, refVars, runVars, NoLife
<1> QED
  BY <1>2, <1>3, <1>4, <1>5, <1>6, Zenon

\* session.release asks for a refresh.
LEMMA ReleaseRefreshKeeps ==
  ASSUME LifecycleInv, ReleaseRefresh
  PROVE  LifecycleInv'
<1> USE DEF LifecycleInv
<1>1. Moved("status")
  BY GoMoves, Zenon DEF ReleaseRefresh, LifeStage
<1>2. refresh' \in RefreshType /\ refresh'.pc \in {"begin", refresh.pc}
  BY RefreshMoves, Zenon DEF ReleaseRefresh
<1>3. observer' \in BOOLEAN /\ timer' \in BOOLEAN
  BY Zenon DEF ReleaseRefresh, cleanupObserverState
<1>4. TypeOK'
  BY <1>1, <1>2, <1>3
     DEF TypeOK, ReleaseRefresh, Moved, LifeType, RefreshType, diskVars, refVars, runVars
<1>5. AtRest' /\ Stages' /\ NotReleased'
  BY <1>1, <1>2, <1>3
     DEF AtRest, Stages, NotReleased, ReleaseRefresh, At, Moved, refVars, runVars, NoLife,
         Starting
<1>6. Locked' /\ Undisturbed'
  BY <1>1, <1>2, <1>3, Zenon DEF Locked, Undisturbed, ReleaseRefresh, At, Moved, diskVars, runVars
<1>7. OnDisk' /\ Shown'
  BY <1>1, <1>2, <1>3, Zenon DEF OnDisk, Shown, ReleaseRefresh, At, Moved, diskVars, refVars, runVars
<1>8. Closing'
  BY <1>1, <1>2, <1>3, Zenon DEF Closing, ReleaseRefresh, At, Moved, refVars, runVars
<1> QED
  BY <1>4, <1>5, <1>6, <1>7, <1>8, Zenon

\* session.release after the refresh.
LEMMA ReleaseRefreshedKeeps ==
  ASSUME LifecycleInv, ReleaseRefreshed
  PROVE  LifecycleInv'
<1> USE DEF LifecycleInv
<1>1. Moved("finally")
  BY GoMoves, Zenon DEF ReleaseRefreshed, LifeStage
<1>2. timer' \in BOOLEAN
  BY Zenon DEF ReleaseRefreshed
<1>3. TypeOK'
  BY <1>1, <1>2 DEF TypeOK, ReleaseRefreshed, Moved, LifeType, diskVars, refVars, runVars
<1>4. AtRest' /\ Stages' /\ NotReleased'
  BY <1>1, <1>2
     DEF AtRest, Stages, NotReleased, ReleaseRefreshed, At, Moved, refVars, runVars, NoLife,
         Starting
<1>5. Locked' /\ Undisturbed'
  BY <1>1, <1>2, Zenon DEF Locked, Undisturbed, ReleaseRefreshed, At, Moved, diskVars, runVars
<1>6. OnDisk' /\ Shown'
  BY <1>1, <1>2, Zenon DEF OnDisk, Shown, ReleaseRefreshed, At, Moved, diskVars, refVars, runVars
<1>7. Closing'
  BY <1>1, <1>2, Zenon DEF Closing, ReleaseRefreshed, At, Moved, refVars, runVars
<1> QED
  BY <1>3, <1>4, <1>5, <1>6, <1>7, Zenon

\* session.release takes the transfer back where it failed.
LEMMA ReleaseFinallyKeeps ==
  ASSUME LifecycleInv, ReleaseFinally
  PROVE  LifecycleInv'
<1> USE DEF LifecycleInv
<1>1. life' = NoLife
  BY Zenon DEF ReleaseFinally, End
<1>2. ledger' \in Ledger
  BY Zenon DEF ReleaseFinally, TypeOK, Ledger
<1>3. TypeOK'
  BY <1>1, <1>2, EndType DEF TypeOK, ReleaseFinally, LifeType, refVars, watchVars, runVars
<1>4. AtRest' /\ Stages' /\ NotReleased'
  BY <1>1, <1>2, Zenon
     DEF AtRest, Stages, NotReleased, ReleaseFinally, At, watchVars, runVars, NoLife, Starting
<1>5. Locked' /\ Undisturbed'
  BY <1>1, <1>2, Zenon DEF Locked, Undisturbed, ReleaseFinally, runVars, NoLife
<1>6. OnDisk' /\ Shown'
  BY <1>1, <1>2, Zenon DEF OnDisk, Shown, ReleaseFinally, At, refVars, runVars, NoLife
<1>7. Closing'
  BY <1>1, <1>2, Zenon DEF Closing, ReleaseFinally, At, refVars, runVars, NoLife
<1> QED
  BY <1>3, <1>4, <1>5, <1>6, <1>7, Zenon

\* session.reclaim asks for the lock.
LEMMA ReclaimStatusKeeps ==
  ASSUME LifecycleInv, ReclaimStatus
  PROVE  LifecycleInv'
<1> USE DEF LifecycleInv
<1>1. Moved("clear") \/ life' = NoLife
  BY GoMoves, Zenon DEF ReclaimStatus, End, LifeStage
<1>2. TypeOK'
  BY <1>1, EndType
     DEF TypeOK, ReclaimStatus, Moved, LifeType, diskVars, refVars, watchVars, runVars
<1>3. AtRest' /\ Stages' /\ NotReleased'
  BY <1>1
     DEF AtRest, Stages, NotReleased, ReclaimStatus, At, Moved, refVars, watchVars, runVars,
         NoLife, Starting
<1>4. Locked' /\ Undisturbed'
  BY <1>1 DEF Locked, Undisturbed, ReclaimStatus, At, Moved, diskVars, runVars, NoLife
<1>5. OnDisk' /\ Shown'
  BY <1>1 DEF OnDisk, Shown, ReclaimStatus, At, Moved, diskVars, refVars, runVars, NoLife
<1>6. Closing'
  BY <1>1 DEF Closing, ReclaimStatus, At, Moved, refVars, runVars, NoLife
<1> QED
  BY <1>2, <1>3, <1>4, <1>5, <1>6, Zenon

\* session.reclaim takes the mark away, then starts the runtime.
LEMMA ReclaimClearKeeps ==
  ASSUME LifecycleInv, ReclaimClear
  PROVE  LifecycleInv'
<1> USE DEF LifecycleInv
<1>1. \/ life' = NoLife /\ UNCHANGED <<ledger, control, start>>
      \/ /\ ledger' \in {ledger, "owned"} /\ control' = "reconciling"
         /\ Moved("start") \/ (life' \in LifeType /\ life'.kind = "reclaim" /\ life'.pc = "finally")
         /\ start' = start \/ (MayStart(TRUE) /\ start' = [pc |-> "gate", force |-> TRUE])
  BY GoMoves, Zenon DEF ReclaimClear, At, End, LifeStage, TypeOK, LifeType, MayStart
<1>2. start' \in StartType
  BY <1>1, GateType, Zenon DEF TypeOK, StartType
<1>3. TypeOK'
  BY <1>1, <1>2, EndType
     DEF TypeOK, ReclaimClear, Moved, MayStart, Control, Ledger, LifeType, StartType, refVars
<1>4. AtRest' /\ Stages' /\ NotReleased'
  BY <1>1, <1>2
     DEF AtRest, Stages, NotReleased, ReclaimClear, At, Moved, MayStart, refVars, NoLife,
         Starting
<1>5. Locked' /\ Undisturbed'
  BY <1>1, <1>2
     DEF Locked, Undisturbed, ReclaimClear, At, Moved, MayStart, NoLife, NoStart, Starting
<1>6. OnDisk' /\ Shown'
  BY <1>1, <1>2
     DEF OnDisk, Shown, ReclaimClear, At, Moved, MayStart, sessionArchived, refVars, NoLife
<1>7. Closing'
  BY <1>1, <1>2 DEF Closing, ReclaimClear, At, Moved, MayStart, refVars, NoLife
<1> QED
  BY <1>3, <1>4, <1>5, <1>6, <1>7, Zenon

\* session.reclaim ends.
LEMMA ReclaimFinallyKeeps ==
  ASSUME LifecycleInv, ReclaimFinally
  PROVE  LifecycleInv'
<1> USE DEF LifecycleInv
<1>1. life' = NoLife
  BY Zenon DEF ReclaimFinally, End
<1>2. /\ refresh' \in RefreshType /\ refresh'.pc \in {"begin", refresh.pc}
      /\ control' \in {"none", control}
  BY RefreshMoves, Zenon DEF ReclaimFinally, TypeOK, RefreshType
<1>3. observer' \in BOOLEAN /\ timer' \in BOOLEAN
  BY Zenon DEF ReclaimFinally, TypeOK, cleanupObserverState
<1>4. TypeOK'
  BY <1>1, <1>2, <1>3, EndType
     DEF TypeOK, ReclaimFinally, Control, RefreshType, LifeType, diskVars, refVars, runVars
<1>5. AtRest' /\ Stages' /\ NotReleased'
  BY <1>1, <1>2, <1>3, Zenon
     DEF AtRest, Stages, NotReleased, ReclaimFinally, At, runVars, NoLife, Starting
<1>6. Locked' /\ Undisturbed'
  BY <1>1, <1>2, <1>3, Zenon DEF Locked, Undisturbed, ReclaimFinally, diskVars, runVars, NoLife
<1>7. OnDisk' /\ Shown'
  BY <1>1, <1>2, <1>3, Zenon DEF OnDisk, Shown, ReclaimFinally, At, diskVars, refVars, runVars, NoLife
<1>8. Closing'
  BY <1>1, <1>2, <1>3, Zenon DEF Closing, ReclaimFinally, At, refVars, runVars, NoLife
<1> QED
  BY <1>4, <1>5, <1>6, <1>7, <1>8, Zenon

\* session.archive: a free lock means that no child lives, the runtime being stopped.
LEMMA ArchiveLockKeeps ==
  ASSUME LifecycleInv, ArchiveLock
  PROVE  LifecycleInv'
<1> USE DEF LifecycleInv
<1>1. (lock = "free" /\ Moved("apply")) \/ life' = NoLife
  BY GoMoves, Zenon DEF ArchiveLock, LockFree, End, LifeStage
<1>2. TypeOK'
  BY <1>1, EndType
     DEF TypeOK, ArchiveLock, Moved, LifeType, diskVars, refVars, watchVars, runVars
<1>3. AtRest' /\ Stages' /\ NotReleased'
  BY <1>1
     DEF AtRest, Stages, NotReleased, ArchiveLock, At, Moved, refVars, watchVars, runVars,
         NoLife, Starting
<1>4. Locked' /\ Undisturbed'
  BY <1>1 DEF Locked, Undisturbed, ArchiveLock, At, Moved, diskVars, runVars, NoLife, NoStart
<1>5. OnDisk' /\ Shown'
  BY <1>1 DEF OnDisk, Shown, ArchiveLock, At, Moved, diskVars, refVars, runVars, NoLife
<1>6. Closing'
  BY <1>1 DEF Closing, ArchiveLock, At, Moved, refVars, runVars, NoLife
<1> QED
  BY <1>2, <1>3, <1>4, <1>5, <1>6, Zenon

\* The session moves to the archive.
LEMMA ArchiveApplyKeeps ==
  ASSUME LifecycleInv, ArchiveApply
  PROVE  LifecycleInv'
<1> USE DEF LifecycleInv
<1>1. (file' = "archived" /\ Moved("project")) \/ (file' = file /\ life' = NoLife)
  BY GoMoves, Zenon DEF ArchiveApply, End, LifeStage
<1>2. recArch' \in BOOLEAN
  BY Zenon DEF ArchiveApply, TypeOK
<1>3. TypeOK'
  BY <1>1, <1>2, EndType DEF TypeOK, ArchiveApply, Moved, LifeType, watchVars, runVars
<1>4. AtRest' /\ Stages' /\ NotReleased'
  BY <1>1, <1>2
     DEF AtRest, Stages, NotReleased, ArchiveApply, At, Moved, watchVars, runVars, NoLife,
         Starting
<1>5. Locked' /\ Undisturbed'
  BY <1>1, <1>2 DEF Locked, Undisturbed, ArchiveApply, At, Moved, runVars, NoLife
<1>6. OnDisk' /\ Shown'
  BY <1>1, <1>2 DEF OnDisk, Shown, Undisturbed, Stages, ArchiveApply, At, Moved, runVars, NoLife
<1>7. Closing'
  BY <1>1, <1>2 DEF Closing, ArchiveApply, At, Moved, runVars, NoLife
<1> QED
  BY <1>3, <1>4, <1>5, <1>6, <1>7, Zenon

\* The session moves back.
LEMMA RestoreApplyKeeps ==
  ASSUME LifecycleInv, RestoreApply
  PROVE  LifecycleInv'
<1> USE DEF LifecycleInv
<1>1. (file' = "active" /\ Moved("project")) \/ (file' = file /\ life' = NoLife)
  BY GoMoves, Zenon DEF RestoreApply, End, LifeStage
<1>2. recArch' \in BOOLEAN
  BY Zenon DEF RestoreApply, TypeOK
<1>3. TypeOK'
  BY <1>1, <1>2, EndType DEF TypeOK, RestoreApply, Moved, LifeType, watchVars, runVars
<1>4. AtRest' /\ Stages' /\ NotReleased'
  BY <1>1, <1>2
     DEF AtRest, Stages, NotReleased, RestoreApply, At, Moved, watchVars, runVars, NoLife,
         Starting
<1>5. Locked' /\ Undisturbed'
  BY <1>1, <1>2 DEF Locked, Undisturbed, RestoreApply, At, Moved, runVars, NoLife
<1>6. OnDisk' /\ Shown'
  BY <1>1, <1>2 DEF OnDisk, Shown, Stages, RestoreApply, At, Moved, runVars, NoLife
<1>7. Closing'
  BY <1>1, <1>2 DEF Closing, RestoreApply, At, Moved, runVars, NoLife
<1> QED
  BY <1>3, <1>4, <1>5, <1>6, <1>7, Zenon

\* The ref that clients see follows the disk.
LEMMA ProjectKeeps ==
  ASSUME LifecycleInv, Project
  PROVE  LifecycleInv'
<1> USE DEF LifecycleInv
<1>1. life' = NoLife
  BY Zenon DEF Project, End
<1>2. refArch' \in BOOLEAN
  BY Zenon DEF Project
<1>3. TypeOK'
  BY <1>1, <1>2, EndType DEF TypeOK, Project, LifeType, diskVars, watchVars, runVars
<1>4. AtRest' /\ Stages' /\ NotReleased'
  BY <1>1, <1>2, Zenon DEF AtRest, Stages, NotReleased, Project, watchVars, runVars, NoLife, Starting
<1>5. Locked' /\ Undisturbed'
  BY <1>1, <1>2, Zenon DEF Locked, Undisturbed, Project, diskVars, runVars, NoLife
<1>6. OnDisk' /\ Shown'
  BY <1>1, <1>2, Zenon DEF OnDisk, Shown, Project, diskVars, runVars, NoLife
<1>7. Closing'
  BY <1>1, <1>2, Zenon DEF Closing, Project, runVars, NoLife
<1> QED
  BY <1>3, <1>4, <1>5, <1>6, <1>7, Zenon

\* session.delete looks twice: before it stops the runtime and after.
LEMMA DeletePreflightKeeps ==
  ASSUME LifecycleInv, DeletePreflight
  PROVE  LifecycleInv'
<1> USE DEF LifecycleInv
<1>1. \/ life' = NoLife
      \/ life.pc = "pre1" /\ ~sessionLifecycleBusy /\ Moved("quiesce")
      \/ life.pc = "pre2" /\ (sup # "none" \/ LockFree) /\ Moved("apply")
  BY GoMoves, Zenon DEF DeletePreflight, End, LifeStage
<1>2. TypeOK'
  BY <1>1, EndType
     DEF TypeOK, DeletePreflight, Moved, LifeType, diskVars, refVars, watchVars, runVars
<1>3. AtRest' /\ Stages' /\ NotReleased'
  BY <1>1
     DEF AtRest, Stages, NotReleased, DeletePreflight, Moved, refVars, watchVars, runVars,
         NoLife, Starting
<1>4. Locked' /\ Undisturbed'
  BY <1>1
     DEF Locked, Undisturbed, DeletePreflight, sessionLifecycleBusy, Moved, diskVars, runVars,
         NoLife, NoStart, LockFree
<1>5. OnDisk' /\ Shown'
  BY <1>1 DEF OnDisk, Shown, DeletePreflight, Moved, diskVars, refVars, runVars, NoLife
<1>6. Closing'
  BY <1>1 DEF Closing, DeletePreflight, Moved, refVars, runVars, NoLife
<1> QED
  BY <1>2, <1>3, <1>4, <1>5, <1>6, Zenon

\* The session is deleted on disk.
LEMMA DeleteApplyKeeps ==
  ASSUME LifecycleInv, DeleteApply
  PROVE  LifecycleInv'
<1> USE DEF LifecycleInv
<1>1. (file' = "deleted" /\ Moved("forget")) \/ (file' = file /\ life' = NoLife)
  BY GoMoves, Zenon DEF DeleteApply, End, LifeStage
<1>2. TypeOK'
  BY <1>1, EndType DEF TypeOK, DeleteApply, Moved, LifeType, refVars, watchVars, runVars
<1>3. AtRest' /\ Stages' /\ NotReleased'
  BY <1>1
     DEF AtRest, Stages, NotReleased, DeleteApply, At, Moved, refVars, watchVars, runVars,
         NoLife, Starting
<1>4. Locked' /\ Undisturbed'
  BY <1>1 DEF Locked, Undisturbed, DeleteApply, At, Moved, runVars, NoLife
<1>5. OnDisk' /\ Shown'
  BY <1>1
     DEF OnDisk, Shown, Undisturbed, DeleteApply, At, Moved, refVars, runVars, NoLife, NoStart
<1>6. Closing'
  BY <1>1 DEF Closing, DeleteApply, At, Moved, refVars, runVars, NoLife
<1> QED
  BY <1>2, <1>3, <1>4, <1>5, <1>6, Zenon

\* The session is taken from the index.
LEMMA DeleteForgetKeeps ==
  ASSUME LifecycleInv, DeleteForget
  PROVE  LifecycleInv'
<1> USE DEF LifecycleInv
<1>1. life' = NoLife /\ ~indexed' /\ ~refArch' /\ control' = "none"
  BY Zenon DEF DeleteForget, End
<1>2. /\ indexed' \in BOOLEAN /\ recArch' \in BOOLEAN /\ refArch' \in BOOLEAN /\ observer' \in BOOLEAN
      /\ timer' \in BOOLEAN /\ closed' \in BOOLEAN /\ turn' \in BOOLEAN /\ attached' \in BOOLEAN
  BY Zenon DEF DeleteForget, cleanupObserverState, TypeOK
<1>3. TypeOK'
  BY <1>1, <1>2, EndType DEF TypeOK, DeleteForget, Control, Ledger, LifeType
<1>4. AtRest' /\ Stages' /\ NotReleased'
  BY <1>1, <1>2, Zenon DEF AtRest, Stages, NotReleased, DeleteForget, NoLife, Starting
<1>5. Locked' /\ Undisturbed'
  BY <1>1, <1>2, Zenon DEF Locked, Undisturbed, DeleteForget, NoLife
<1>6. OnDisk' /\ Shown'
  BY <1>1, <1>2, Zenon DEF OnDisk, Shown, DeleteForget, At
<1>7. Closing'
  BY <1>1, <1>2, Zenon DEF Closing, DeleteForget, At, NoLife
<1> QED
  BY <1>3, <1>4, <1>5, <1>6, <1>7, Zenon

-----------------------------------------------------------------------------
(* The observer refresh *)

\* The timer of the observer.
LEMMA TickKeeps ==
  ASSUME LifecycleInv, Tick
  PROVE  LifecycleInv'
<1> USE DEF LifecycleInv
<1>1. refresh' \in RefreshType /\ refresh'.pc \in {"begin", refresh.pc}
  BY RefreshMoves, Zenon DEF Tick
<1>2. TypeOK'
  BY <1>1 DEF TypeOK, Tick, RefreshType, diskVars, refVars, watchVars, runVars
<1>3. NotReleased'
  BY <1>1, Zenon DEF NotReleased, Tick, Starting, watchVars, runVars
<1> QED
  BY <1>1, <1>2, <1>3, Unaffected, Zenon DEF TypeOK, LifeType, Moved, Tick, diskVars, refVars, runVars

\* refreshObserver begins.
LEMMA RefreshBeginKeeps ==
  ASSUME LifecycleInv, RefreshBegin
  PROVE  LifecycleInv'
<1> USE DEF LifecycleInv
<1>1. refresh' \in RefreshType /\ refresh'.pc \in {"status", "begin", "idle"} /\ control' \in {"none", control}
  BY RefreshMoves, StepMoves, Zenon DEF RefreshBegin, Done, RefreshStage
<1>2. observer' \in BOOLEAN /\ timer' \in BOOLEAN
  BY Zenon DEF RefreshBegin, TypeOK, cleanupObserverState
<1>3. TypeOK'
  BY <1>1, <1>2 DEF TypeOK, RefreshBegin, Control, RefreshType, diskVars, refVars, runVars
<1>4. NotReleased'
  BY <1>1, <1>2, Zenon DEF NotReleased, RefreshBegin, Starting, runVars
<1> QED
  BY <1>1, <1>2, <1>3, <1>4, Unaffected, Zenon
     DEF TypeOK, LifeType, Moved, RefreshBegin, In, diskVars, refVars, runVars

\* refreshObserver has the status of the lock.
LEMMA RefreshStatusKeeps ==
  ASSUME LifecycleInv, RefreshStatus
  PROVE  LifecycleInv'
<1> USE DEF LifecycleInv
<1>1. refresh' \in RefreshType /\ refresh'.pc \in {"live", "waiting", "poll", "begin", "idle"}
  BY RefreshMoves, StepMoves, Zenon DEF RefreshStatus, Done, RefreshStage
<1>2. ledger' \in Ledger
  BY Zenon DEF RefreshStatus, TypeOK, Ledger
<1>3. observer' \in BOOLEAN
  BY Zenon DEF RefreshStatus, TypeOK
<1>4. TypeOK'
  BY <1>1, <1>2, <1>3 DEF TypeOK, RefreshStatus, RefreshType, refVars, runVars
<1>5. NotReleased'
  BY <1>1, <1>2, <1>3, Zenon DEF NotReleased, RefreshStatus, Starting, runVars
<1> QED
  BY <1>1, <1>2, <1>3, <1>4, <1>5, Unaffected, Zenon
     DEF TypeOK, LifeType, Moved, RefreshStatus, In, refVars, runVars

\* refreshObserver shows the session as observed or released.
LEMMA RefreshShowKeeps ==
  ASSUME LifecycleInv, RefreshShow
  PROVE  LifecycleInv'
<1> USE DEF LifecycleInv
<1>1. Moved(life.pc) /\ (life' = NoLife <=> life = NoLife)
  BY PollMoves, Zenon DEF RefreshShow, TypeOK, LifeType, Moved
<1>2. /\ refresh' \in RefreshType /\ refresh'.pc \in {"begin", "idle"} /\ (control' # control => ~Starting)
      /\ control' \in {"observer", "released", control}
  BY RefreshMoves, Zenon DEF RefreshShow, Done
<1>3. TypeOK'
  BY <1>1, <1>2, EndType
     DEF TypeOK, RefreshShow, Control, Moved, LifeType, RefreshType, diskVars, refVars, runVars
<1>4. NotReleased'
  BY <1>1, <1>2, Zenon DEF NotReleased, RefreshShow, Starting, runVars
<1> QED
  BY <1>1, <1>2, <1>3, <1>4, Unaffected, Zenon DEF RefreshShow, In, diskVars, refVars, runVars

\* refreshObserver polls the transcript and reconciles.
LEMMA RefreshPollKeeps ==
  ASSUME LifecycleInv, RefreshPoll
  PROVE  LifecycleInv'
<1> USE DEF LifecycleInv
<1>1. Moved(life.pc) /\ (life' = NoLife <=> life = NoLife)
  BY PollMoves, Zenon DEF RefreshPoll, TypeOK, LifeType, Moved
<1>2. /\ refresh' \in RefreshType /\ (refresh'.pc = "promote" => control' # control \/ control # "released")
      /\ control' \in {"unverified", "reconciling", control}
  BY RefreshMoves, StepMoves, Zenon DEF RefreshPoll, Done, RefreshStage
<1>3. TypeOK'
  BY <1>1, <1>2, EndType
     DEF TypeOK, RefreshPoll, Control, Moved, LifeType, RefreshType, diskVars, refVars, runVars
<1>4. NotReleased'
  BY <1>1, <1>2, Zenon DEF NotReleased, RefreshPoll, Starting, runVars
<1> QED
  BY <1>1, <1>2, <1>3, <1>4, Unaffected, Zenon DEF RefreshPoll, In, diskVars, refVars, runVars

\* refreshObserver starts the runtime, unless the session may not start.
LEMMA RefreshPromoteKeeps ==
  ASSUME LifecycleInv, RefreshPromote
  PROVE  LifecycleInv'
<1> USE DEF LifecycleInv
<1>1. start' \in {start, [pc |-> "gate", force |-> FALSE]}
  BY Zenon DEF RefreshPromote
<1>2. start' \in StartType
  BY <1>1, GateType, Zenon DEF TypeOK, StartType
<1>3. refresh' \in RefreshType /\ refresh'.pc \in {"begin", "idle", "starting"}
  BY RefreshMoves, StepMoves, Zenon DEF RefreshPromote, Done, RefreshStage
<1>4. TypeOK'
  BY <1>1, <1>2, <1>3 DEF TypeOK, RefreshPromote, StartType, RefreshType, diskVars, refVars
<1>5. AtRest' /\ Stages' /\ NotReleased'
  BY <1>1, <1>2, <1>3, Zenon
     DEF AtRest, Stages, NotReleased, RefreshPromote, In, MayStart, refVars, Starting
<1>6. Locked' /\ Undisturbed'
  BY <1>1, <1>2, <1>3
     DEF Locked, Undisturbed, RefreshPromote, MayStart, diskVars, NoLife, NoStart, Starting,
         Fenced
<1>7. OnDisk' /\ Shown'
  BY <1>1, <1>2, <1>3
     DEF OnDisk, Shown, RefreshPromote, In, MayStart, sessionArchived, diskVars, refVars,
         NoLife, Fenced
<1>8. Closing'
  BY <1>1, <1>2, <1>3, Zenon DEF Closing, RefreshPromote, MayStart, refVars
<1> QED
  BY <1>4, <1>5, <1>6, <1>7, <1>8, Zenon

\* refreshObserver verifies the runtime it started.
LEMMA RefreshVerifyKeeps ==
  ASSUME LifecycleInv, RefreshVerify
  PROVE  LifecycleInv'
<1> USE DEF LifecycleInv
<1>1. Moved(life.pc) /\ (life' = NoLife <=> life = NoLife)
  BY PollMoves, Zenon DEF RefreshVerify
<1>2. refresh' \in RefreshType /\ refresh'.pc # "promote"
  BY RefreshMoves, StepMoves, Zenon DEF RefreshVerify, Done, RefreshStage
<1>3. /\ ledger' \in {ledger, "owned"} /\ sup' \in {sup, "stopped"} /\ (sup = "none" => sup' = "none")
  BY Zenon DEF RefreshVerify
<1>4. TypeOK'
  BY <1>1, <1>2, <1>3, EndType
     DEF TypeOK, RefreshVerify, Moved, Ledger, LifeType, RefreshType, refVars
<1>5. NotReleased'
  BY <1>1, <1>2, <1>3, Zenon DEF NotReleased, RefreshVerify, Starting
<1> QED
  BY <1>1, <1>2, <1>3, <1>4, <1>5, Unaffected, Zenon DEF RefreshVerify, In, refVars

\* refreshObserver after the ledger is written.
LEMMA RefreshAddedKeeps ==
  ASSUME LifecycleInv, RefreshAdded
  PROVE  LifecycleInv'
<1> USE DEF LifecycleInv
<1>1. refresh' \in RefreshType /\ refresh'.pc # "promote" /\ control' \in {"none", control}
  BY RefreshMoves, StepMoves, Zenon DEF RefreshAdded, Done, RefreshStage
<1>2. observer' \in BOOLEAN /\ timer' \in BOOLEAN
  BY Zenon DEF RefreshAdded, TypeOK, cleanupObserverState
<1>3. /\ ledger' \in {ledger, "foreign"} /\ sup' \in {sup, "stopped"} /\ (sup = "none" => sup' = "none")
  BY Zenon DEF RefreshAdded
<1>4. TypeOK'
  BY <1>1, <1>2, <1>3 DEF TypeOK, RefreshAdded, Ledger, Control, RefreshType, refVars
<1>5. NotReleased'
  BY <1>1, <1>2, <1>3, Zenon DEF NotReleased, RefreshAdded, Starting
<1> QED
  BY <1>1, <1>2, <1>3, <1>4, <1>5, Unaffected, Zenon
     DEF TypeOK, LifeType, Moved, RefreshAdded, In, refVars

\* refreshObserver discards the runtime it started.
LEMMA RefreshDiscardKeeps ==
  ASSUME LifecycleInv, RefreshDiscard
  PROVE  LifecycleInv'
<1> USE DEF LifecycleInv
<1>1. refresh' \in RefreshType /\ refresh'.pc \in {"begin", "idle"}
  BY RefreshMoves, Zenon DEF RefreshDiscard, Done
<1>2. turn' \in BOOLEAN /\ ~turn'
  BY Zenon DEF RefreshDiscard
<1>3. TypeOK'
  BY <1>1, <1>2 DEF TypeOK, RefreshDiscard, RefreshType, diskVars, refVars, watchVars
<1>4. NotReleased'
  BY <1>1, <1>2, Zenon DEF NotReleased, RefreshDiscard, Starting, watchVars
<1> QED
  BY <1>1, <1>2, <1>3, <1>4, Unaffected, Zenon
     DEF TypeOK, LifeType, Moved, RefreshDiscard, In, diskVars, refVars

-----------------------------------------------------------------------------
(* The terminal *)

\* A terminal takes the lock when it is free.
LEMMA TerminalOpensKeeps ==
  ASSUME LifecycleInv, TerminalOpens
  PROVE  LifecycleInv'
<1> USE DEF LifecycleInv
<1>1. TypeOK'
  BY DEF TypeOK, TerminalOpens, refVars, watchVars, runVars
<1>2. AtRest' /\ Stages' /\ NotReleased'
  BY Zenon DEF AtRest, Stages, NotReleased, TerminalOpens, refVars, watchVars, runVars, Starting
<1>3. Locked' /\ Undisturbed'
  BY Zenon DEF Locked, Undisturbed, TerminalOpens, runVars, LockFree
<1>4. OnDisk' /\ Shown'
  BY Zenon DEF OnDisk, Shown, TerminalOpens, refVars
<1>5. Closing'
  BY Zenon DEF Closing, TerminalOpens, refVars, runVars
<1> QED
  BY <1>1, <1>2, <1>3, <1>4, <1>5, Zenon

\* A terminal lets go of the lock.
LEMMA TerminalEndsKeeps ==
  ASSUME LifecycleInv, TerminalEnds
  PROVE  LifecycleInv'
<1> USE DEF LifecycleInv
<1>1. TypeOK'
  BY DEF TypeOK, TerminalEnds, refVars, watchVars, runVars
<1>2. AtRest' /\ Stages' /\ NotReleased'
  BY Zenon DEF AtRest, Stages, NotReleased, TerminalEnds, refVars, watchVars, runVars, Starting
<1>3. Locked' /\ Undisturbed'
  BY Zenon DEF Locked, Undisturbed, TerminalEnds, runVars
<1>4. OnDisk' /\ Shown'
  BY Zenon DEF OnDisk, Shown, TerminalEnds, refVars, runVars
<1>5. Closing'
  BY Zenon DEF Closing, TerminalEnds, refVars, runVars
<1> QED
  BY <1>1, <1>2, <1>3, <1>4, <1>5, Zenon

-----------------------------------------------------------------------------
(* The crash and the boot of the host *)

\* A crash leaves the disk, the lock, the ledger and a child, perhaps one that it
\* did not get to register.
LEMMA CrashKeeps ==
  ASSUME LifecycleInv, Crash
  PROVE  LifecycleInv'
<1> USE DEF LifecycleInv
<1>1. /\ ~up' /\ ~indexed' /\ ~closed' /\ control' = "none"
      /\ sup' = "none" /\ start' = NoStart /\ ~turn' /\ cmd' = "idle"
      /\ life' = NoLife /\ refresh' = Resting
      /\ file' = file /\ ledger' = ledger
  BY Zenon DEF Crash
<1>2. /\ up' \in BOOLEAN /\ indexed' \in BOOLEAN /\ recArch' \in BOOLEAN /\ refArch' \in BOOLEAN
      /\ closed' \in BOOLEAN /\ observer' \in BOOLEAN /\ timer' \in BOOLEAN /\ attached' \in BOOLEAN
      /\ turn' \in BOOLEAN /\ deliver' \in BOOLEAN /\ child' \in BOOLEAN
  BY Zenon DEF Crash, cleanupObserverState, TypeOK
<1>3. /\ registry' \in {"empty", "foreign"} /\ (registry = "own" => registry' = "foreign")
      /\ \/ lock' = lock /\ child' = child
         \/ start.pc = "checked" /\ lock' = "host" /\ child'
  BY Zenon DEF Crash, TypeOK
<1>4. lock' \in {"free", "host", "terminal"} /\ Resting \in RefreshType
  BY <1>3, Zenon DEF TypeOK, Resting, RefreshType, RefreshStage
<1>5. TypeOK'
  BY <1>1, <1>2, <1>3, <1>4, EndType, GateType, Zenon
     DEF TypeOK, LifeType, StartType, RefreshType, Control
<1>6. AtRest' /\ Stages' /\ NotReleased'
  BY <1>1, EndType, Zenon DEF AtRest, Stages, NotReleased
<1>7. Locked'
  BY <1>1, <1>3 DEF Locked, NoStart, Crash
<1>8. Undisturbed' /\ Shown' /\ Closing'
  BY <1>1, EndType, Zenon DEF Undisturbed, Shown, Closing
<1>9. OnDisk'
  <2>1. start.pc = "checked" => file = "active"
    BY DEF OnDisk, TypeOK, NoStart
  <2>2. file' # "active" => ~child'
    BY <1>1, <1>3, <2>1, Zenon DEF OnDisk
  <2> QED
    BY <1>1, <2>2, EndType, Zenon DEF OnDisk, NoStart
<1> QED
  BY <1>5, <1>6, <1>7, <1>8, <1>9, Zenon

\* The next host reaps the child that is registered and indexes what is on disk.
LEMMA BootKeeps ==
  ASSUME LifecycleInv, Boot
  PROVE  LifecycleInv'
<1> USE DEF LifecycleInv
<1>1. /\ ~up /\ up' /\ UNCHANGED <<file, ledger, closed, watchVars, runVars, cmd, deliver, life, refresh>>
      /\ life = NoLife /\ start = NoStart /\ control = "none" /\ ~closed /\ refresh = Resting /\ cmd = "idle"
  BY Zenon DEF Boot, AtRest
<1>2. /\ up' \in BOOLEAN /\ indexed' \in BOOLEAN /\ recArch' \in BOOLEAN /\ refArch' \in BOOLEAN
      /\ child' \in BOOLEAN
  BY Zenon DEF Boot, TypeOK
<1>3. (indexed' <=> file # "deleted") /\ (refArch' <=> file = "archived")
  BY Zenon DEF Boot
<1>4. /\ registry' \in {"empty", registry} /\ lock' \in {lock, "free"}
      /\ ~child' \/ (child /\ lock' = lock /\ registry # "foreign")
      /\ lock' = "host" => child'
  BY Zenon DEF Boot, Locked
<1>5. TypeOK'
  BY <1>1, <1>2, <1>4 DEF TypeOK, watchVars, runVars
<1>6. AtRest' /\ Stages' /\ NotReleased'
  BY <1>1, <1>3, EndType, Zenon DEF AtRest, Stages, NotReleased, watchVars
<1>7. Locked'
  BY <1>1, <1>4, Zenon DEF Locked, runVars
<1>8. Undisturbed' /\ Closing'
  BY <1>1, EndType, Zenon DEF Undisturbed, Closing
<1>9. OnDisk' /\ Shown'
  BY <1>1, <1>3, <1>4, EndType, Zenon DEF OnDisk, Shown, runVars
<1> QED
  BY <1>5, <1>6, <1>7, <1>8, <1>9, Zenon

-----------------------------------------------------------------------------
(* The invariant and what follows from it *)

\* A host that runs, with one session that nothing happens to.
LEMMA InitKeeps == Init => LifecycleInv
<1> SUFFICES ASSUME Init PROVE LifecycleInv
  OBVIOUS
<1>1. /\ up \in BOOLEAN /\ child \in BOOLEAN /\ indexed \in BOOLEAN /\ recArch \in BOOLEAN
      /\ refArch \in BOOLEAN /\ closed \in BOOLEAN /\ observer \in BOOLEAN /\ timer \in BOOLEAN
      /\ attached \in BOOLEAN /\ turn \in BOOLEAN /\ deliver \in BOOLEAN
      /\ up /\ indexed /\ ~child /\ ~refArch /\ ~closed /\ ~turn
  BY Zenon DEF Init
<1>2. Resting \in RefreshType
  BY Zenon DEF Resting, RefreshType, RefreshStage
<1>3. TypeOK
  BY <1>1, <1>2, EndType, GateType, Zenon
     DEF TypeOK, Init, LifeType, StartType, RefreshType, Ledger, Control
<1>4. AtRest /\ Stages /\ Locked /\ NotReleased
  BY <1>1, EndType, Zenon DEF Init, AtRest, Stages, Locked, NotReleased
<1>5. Undisturbed /\ OnDisk /\ Shown /\ Closing
  BY <1>1, EndType, Zenon DEF Init, Undisturbed, OnDisk, Shown, Closing
<1> QED
  BY <1>3, <1>4, <1>5, Zenon DEF LifecycleInv

\* Nothing happens.
LEMMA StutterKeeps ==
  ASSUME LifecycleInv, UNCHANGED vars
  PROVE  LifecycleInv'
<1> USE DEF LifecycleInv, vars, diskVars, refVars, watchVars, runVars
<1>1. TypeOK'
  BY DEF TypeOK
<1>2. AtRest' /\ Stages' /\ Locked' /\ NotReleased'
  BY Zenon DEF AtRest, Stages, Locked, NotReleased, Starting
<1>3. Undisturbed' /\ OnDisk' /\ Shown' /\ Closing'
  BY DEF Undisturbed, OnDisk, Shown, Closing
<1> QED
  BY <1>1, <1>2, <1>3, Zenon

\* Every step of the host, its child, its disk and the terminal.
LEMMA NextKeeps == LifecycleInv /\ [Next]_vars => LifecycleInv'
<1> SUFFICES ASSUME LifecycleInv, [Next]_vars PROVE LifecycleInv'
  OBVIOUS
<1>1. CASE Command \/ Answer \/ TurnEnd \/ Attach \/ AttachAnswered \/ Attached \/ Detach
  BY <1>1, CommandKeeps, AnswerKeeps, TurnEndKeeps, AttachKeeps, AttachAnsweredKeeps,
     AttachedKeeps, DetachKeeps, Zenon
<1>2. CASE StartStep
  BY <1>2, StartGateKeeps, StartSpawnKeeps, StartReadyKeeps, StartFailKeeps,
     StartCleanupKeeps, Zenon DEF StartStep
<1>3. CASE ChildDies \/ SupervisorFails \/ SupervisorExit
  BY <1>3, ChildDiesKeeps, SupervisorFailsKeeps, SupervisorExitKeeps, Zenon
<1>4. CASE LifeCommand
  BY <1>4, CloseKeeps, ReleaseKeeps, ReclaimKeeps, ArchiveKeeps, RestoreKeeps, DeleteKeeps,
     Zenon DEF LifeCommand
<1>5. CASE LifeStep
  <2>1. CASE \/ ClosePending \/ CloseEnd
             \/ ReleaseRecord \/ ReleaseRefresh \/ ReleaseRefreshed \/ ReleaseFinally
    BY <2>1, ClosePendingKeeps, CloseEndKeeps, ReleaseRecordKeeps, ReleaseRefreshKeeps,
       ReleaseRefreshedKeeps, ReleaseFinallyKeeps, Zenon
  <2>2. CASE \/ ReclaimStatus \/ ReclaimClear \/ ReclaimFinally
             \/ ArchiveLock \/ ArchiveApply \/ RestoreApply \/ Project
    BY <2>2, ReclaimStatusKeeps, ReclaimClearKeeps, ReclaimFinallyKeeps, ArchiveLockKeeps,
       ArchiveApplyKeeps, RestoreApplyKeeps, ProjectKeeps, Zenon
  <2>3. CASE DeletePreflight \/ DeleteApply \/ DeleteForget \/ Quiesce \/ QuiesceExit
    BY <2>3, DeletePreflightKeeps, DeleteApplyKeeps, DeleteForgetKeeps, QuiesceKeeps,
       QuiesceExitKeeps, Zenon
  <2> QED
    BY <1>5, <2>1, <2>2, <2>3, Zenon DEF LifeStep
<1>6. CASE Tick \/ RefreshStep
  BY <1>6, TickKeeps, RefreshBeginKeeps, RefreshStatusKeeps, RefreshShowKeeps,
     RefreshPollKeeps, RefreshPromoteKeeps, RefreshVerifyKeeps, RefreshAddedKeeps,
     RefreshDiscardKeeps, Zenon DEF RefreshStep
<1>7. CASE TerminalOpens \/ TerminalEnds \/ Crash \/ Boot
  BY <1>7, TerminalOpensKeeps, TerminalEndsKeeps, CrashKeeps, BootKeeps, Zenon
<1>8. CASE UNCHANGED vars
  BY <1>8, StutterKeeps, Zenon
<1> QED
  BY <1>1, <1>2, <1>3, <1>4, <1>5, <1>6, <1>7, <1>8, Zenon DEF Next

\* What the lifecycle handlers, a start, the child and the disk know of each
\* other, across every interleaving at the awaits and across crashes.
THEOREM LifecycleInvariant == Spec => []LifecycleInv
BY InitKeeps, NextKeeps, PTL DEF Spec

\* The state has the types that the stages of the activities give it.
THEOREM TypeCorrect == Spec => []TypeOK
<1>1. LifecycleInv => TypeOK
  BY Zenon DEF LifecycleInv
<1> QED
  BY <1>1, LifecycleInvariant, PTL

\* No child, an orphan included, writes a session that archive or delete took
\* from the active ones.
THEOREM ArchiveHasNoWriter == Spec => []NoWriterBehindArchive
<1>1. LifecycleInv => NoWriterBehindArchive
  BY Zenon DEF LifecycleInv, OnDisk, NoWriterBehindArchive
<1> QED
  BY <1>1, LifecycleInvariant, PTL

\* A session that session.close closed stays without a runtime, and none is on
\* its way: ensureSupervisor refuses, and what was starting has settled.
THEOREM ClosedStaysQuiet == Spec => []ClosedIsQuiet
<1>1. LifecycleInv => ClosedIsQuiet
  <2> SUFFICES ASSUME LifecycleInv, closed, life = NoLife
               PROVE  sup = "none" /\ ~Starting /\ cmd # "join"
    BY Zenon DEF ClosedIsQuiet, Fenced
  <2>1. sup = "none" /\ ~Starting
    BY EndType, Zenon DEF LifecycleInv, Closing, Starting
  <2> QED
    BY <2>1, Zenon DEF LifecycleInv, Stages
<1> QED
  BY <1>1, LifecycleInvariant, PTL

\* Between two lifecycle commands clients see as archived what is archived on
\* disk, after a failed move and after a crash between the move and its
\* projection as well.
THEOREM ArchiveIsShown == Spec => []ArchivedShown
<1>1. LifecycleInv => ArchivedShown
  BY EndType, Zenon DEF LifecycleInv, Shown, ArchivedShown, Fenced
<1> QED
  BY <1>1, LifecycleInvariant, PTL

\* The idleness that archive, delete and release established before their first
\* await still holds when they signal the runtime.
THEOREM StopsLoseNoWork == Spec => NoWorkKilled
<1>1. LifecycleInv /\ [Next]_vars =>
        [life.kind # "close" /\ life.pc = "quiesce" /\ life'.pc = "exit" => ~turn /\ cmd # "call"]_vars
  BY Zenon DEF LifecycleInv, Stages, Undisturbed
<1> QED
  BY <1>1, LifecycleInvariant, PTL DEF Spec, NoWorkKilled

\* Only startSupervisor makes a child, at the stage where the lock was seen free,
\* and only it makes a supervisor that is starting.
LEMMA OnlyStartSpawns ==
  ASSUME [Next]_vars
  PROVE  /\ child' => child \/ start.pc = "checked"
         /\ sup' = "starting" => sup = "starting" \/ start.pc = "checked"
<1> USE DEF diskVars, refVars, watchVars, runVars
<1>1. CASE Command \/ Answer \/ TurnEnd \/ Attach \/ AttachAnswered \/ Attached \/ Detach
  <2>1. CASE Command
    BY <2>1, Zenon DEF Command
  <2>2. CASE Answer
    BY <2>2, Zenon DEF Answer
  <2>3. CASE TurnEnd
    BY <2>3, Zenon DEF TurnEnd
  <2>4. CASE Attach
    BY <2>4, Zenon DEF Attach
  <2>5. CASE AttachAnswered
    BY <2>5, Zenon DEF AttachAnswered
  <2>6. CASE Attached
    BY <2>6, Zenon DEF Attached
  <2>7. CASE Detach
    BY <2>7, Zenon DEF Detach
  <2> QED
    BY <1>1, <2>1, <2>2, <2>3, <2>4, <2>5, <2>6, <2>7, Zenon
<1>2. CASE StartStep
  <2>1. CASE StartGate
    BY <2>1, Zenon DEF StartGate
  <2>2. CASE StartSpawn
    BY <2>2, Zenon DEF StartSpawn
  <2>3. CASE StartReady
    BY <2>3, Zenon DEF StartReady
  <2>4. CASE StartFail
    BY <2>4, Zenon DEF StartFail
  <2>5. CASE StartCleanup
    BY <2>5, Zenon DEF StartCleanup
  <2> QED
    BY <1>2, <2>1, <2>2, <2>3, <2>4, <2>5, Zenon DEF StartStep
<1>3. CASE ChildDies \/ SupervisorFails \/ SupervisorExit
  <2>1. CASE ChildDies
    BY <2>1, Zenon DEF ChildDies
  <2>2. CASE SupervisorFails
    BY <2>2, Zenon DEF SupervisorFails
  <2>3. CASE SupervisorExit
    BY <2>3, Zenon DEF SupervisorExit
  <2> QED
    BY <1>3, <2>1, <2>2, <2>3, Zenon
<1>4. CASE LifeCommand
  <2>1. CASE Close
    BY <2>1, Zenon DEF Close
  <2>2. CASE Release
    BY <2>2, Zenon DEF Release
  <2>3. CASE Reclaim
    BY <2>3, Zenon DEF Reclaim
  <2>4. CASE Archive
    BY <2>4, Zenon DEF Archive
  <2>5. CASE Restore
    BY <2>5, Zenon DEF Restore
  <2>6. CASE Delete
    BY <2>6, Zenon DEF Delete
  <2> QED
    BY <1>4, <2>1, <2>2, <2>3, <2>4, <2>5, <2>6, Zenon DEF LifeCommand
<1>5. CASE LifeStep
  <2>1. CASE ClosePending \/ CloseEnd \/ ReleaseRecord \/ ReleaseRefresh
    <3>1. CASE ClosePending
      BY <3>1, Zenon DEF ClosePending
    <3>2. CASE CloseEnd
      BY <3>2, Zenon DEF CloseEnd
    <3>3. CASE ReleaseRecord
      BY <3>3, Zenon DEF ReleaseRecord
    <3>4. CASE ReleaseRefresh
      BY <3>4, Zenon DEF ReleaseRefresh
    <3> QED
      BY <2>1, <3>1, <3>2, <3>3, <3>4, Zenon
  <2>2. CASE ReleaseRefreshed \/ ReleaseFinally \/ ReclaimStatus \/ ReclaimClear \/ ReclaimFinally
    <3>1. CASE ReleaseRefreshed
      BY <3>1, Zenon DEF ReleaseRefreshed
    <3>2. CASE ReleaseFinally
      BY <3>2, Zenon DEF ReleaseFinally
    <3>3. CASE ReclaimStatus
      BY <3>3, Zenon DEF ReclaimStatus
    <3>4. CASE ReclaimClear
      BY <3>4, Zenon DEF ReclaimClear
    <3>5. CASE ReclaimFinally
      BY <3>5, Zenon DEF ReclaimFinally
    <3> QED
      BY <2>2, <3>1, <3>2, <3>3, <3>4, <3>5, Zenon
  <2>3. CASE ArchiveLock \/ ArchiveApply \/ RestoreApply \/ Project
    <3>1. CASE ArchiveLock
      BY <3>1, Zenon DEF ArchiveLock
    <3>2. CASE ArchiveApply
      BY <3>2, Zenon DEF ArchiveApply
    <3>3. CASE RestoreApply
      BY <3>3, Zenon DEF RestoreApply
    <3>4. CASE Project
      BY <3>4, Zenon DEF Project
    <3> QED
      BY <2>3, <3>1, <3>2, <3>3, <3>4, Zenon
  <2>4. CASE DeletePreflight \/ DeleteApply \/ DeleteForget \/ Quiesce \/ QuiesceExit
    <3>1. CASE DeletePreflight
      BY <3>1, Zenon DEF DeletePreflight
    <3>2. CASE DeleteApply
      BY <3>2, Zenon DEF DeleteApply
    <3>3. CASE DeleteForget
      BY <3>3, Zenon DEF DeleteForget
    <3>4. CASE Quiesce
      BY <3>4, Zenon DEF Quiesce
    <3>5. CASE QuiesceExit
      BY <3>5, Zenon DEF QuiesceExit
    <3> QED
      BY <2>4, <3>1, <3>2, <3>3, <3>4, <3>5, Zenon
  <2> QED
    BY <1>5, <2>1, <2>2, <2>3, <2>4, Zenon DEF LifeStep
<1>6. CASE Tick \/ RefreshBegin \/ RefreshStatus \/ RefreshShow \/ RefreshPoll
  <2>1. CASE Tick
    BY <2>1, Zenon DEF Tick
  <2>2. CASE RefreshBegin
    BY <2>2, Zenon DEF RefreshBegin
  <2>3. CASE RefreshStatus
    BY <2>3, Zenon DEF RefreshStatus
  <2>4. CASE RefreshShow
    BY <2>4, Zenon DEF RefreshShow
  <2>5. CASE RefreshPoll
    BY <2>5, Zenon DEF RefreshPoll
  <2> QED
    BY <1>6, <2>1, <2>2, <2>3, <2>4, <2>5, Zenon
<1>7. CASE RefreshPromote \/ RefreshVerify \/ RefreshAdded \/ RefreshDiscard
  <2>1. CASE RefreshPromote
    BY <2>1, Zenon DEF RefreshPromote
  <2>2. CASE RefreshVerify
    BY <2>2, Zenon DEF RefreshVerify
  <2>3. CASE RefreshAdded
    BY <2>3, Zenon DEF RefreshAdded
  <2>4. CASE RefreshDiscard
    BY <2>4, Zenon DEF RefreshDiscard
  <2> QED
    BY <1>7, <2>1, <2>2, <2>3, <2>4, Zenon
<1>8. CASE TerminalOpens \/ TerminalEnds \/ Crash \/ Boot
  <2>1. CASE TerminalOpens
    BY <2>1, Zenon DEF TerminalOpens
  <2>2. CASE TerminalEnds
    BY <2>2, Zenon DEF TerminalEnds
  <2>3. CASE Crash
    BY <2>3 DEF Crash
  <2>4. CASE Boot
    BY <2>4, Zenon DEF Boot
  <2> QED
    BY <1>8, <2>1, <2>2, <2>3, <2>4, Zenon
<1>9. CASE UNCHANGED vars
  BY <1>9, Zenon DEF vars
<1> QED
  BY <1>1, <1>2, <1>3, <1>4, <1>5, <1>6, <1>7, <1>8, <1>9, Zenon DEF Next, RefreshStep

\* While the session is shown as released, no start is at the stage that spawns,
\* so the host makes no child: session.reclaim takes the mark away first.
THEOREM ReleasedStaysReleased == Spec => ReleaseHolds
<1>1. LifecycleInv /\ [Next]_vars => [control = "released" /\ ~child => ~child']_vars
  BY OnlyStartSpawns DEF LifecycleInv, NotReleased, Starting, NoStart
<1> QED
  BY <1>1, LifecycleInvariant, PTL DEF Spec, ReleaseHolds

\* The lock that startSupervisor saw free at its gate is still no child's when it
\* spawns: no second writer joins a child that is alive.
THEOREM SpawnsAreAlone == Spec => OneChild
<1>1. LifecycleInv /\ [Next]_vars => [sup # "starting" /\ sup' = "starting" => ~child]_vars
  BY OnlyStartSpawns, Zenon DEF LifecycleInv, Locked
<1> QED
  BY <1>1, LifecycleInvariant, PTL DEF Spec, OneChild

=============================================================================
