-------------------------- MODULE SessionLifecycle --------------------------
(***************************************************************************)
(* Who may write one session, and what close, release, reclaim, archive,   *)
(* restore and delete do to it while work, the start of a runtime and the  *)
(* observation of an external writer go on: packages/host-service/src,     *)
(* server.ts with SessionLifecycleRegistry, SessionOwnershipStore and      *)
(* RpcChildRegistry, across crashes of the host.                           *)
(*                                                                         *)
(* Four activities interleave at their awaits: a session command `cmd`,    *)
(* the one lifecycle handler the fence admits `life`, the start promise    *)
(* `start` and the observer refresh `refresh`.  Each is a stage; what runs *)
(* between two awaits is one step.                                         *)
(*                                                                         *)
(* External: OMP's session lock (taken by a child as it starts, by a       *)
(* terminal when it is free), the session authority (a call that fails has *)
(* changed nothing), the processes.  A write of the ownership ledger is    *)
(* one step that succeeds, or fails and leaves memory and file as before.  *)
(* Revisions always match, and there is no external runtime.               *)
(***************************************************************************)
EXTENDS Naturals

Kinds == {"close", "release", "reclaim", "archive", "restore", "delete"}
Ledger == {"foreign", "owned", "waiting", "observed"}
Control == {"none", "observer", "released", "reconciling", "unverified"}

VARIABLES
  up,        \* the host process runs
  file,      \* the session on disk: active, archived or deleted
  lock,      \* OMP's session lock: free (missing or stale), host or terminal
  ledger,    \* SessionOwnershipStore: the record of the session and its transfer
  registry,  \* RpcChildRegistry: empty, own, or foreign (a dead owner's entry)
  child,     \* the RPC child process is alive
  indexed,   \* #records and #projections have the session
  recArch,   \* #records.get(id).archivedAt
  refArch,   \* the projection's ref.archivedAt
  closed,    \* #closedSessions
  control,   \* liveState.sessionControl.mode
  observer,  \* #observers
  timer,     \* #observerTimers
  attached,  \* some client is attached
  sup,       \* #supervisors: none, starting, ready, or stopped (not exited)
  start,     \* #startPromises: where startSupervisor stands
  turn,      \* accepted work of the child: pending prompts, status active
  cmd,       \* a session command that #inflightSessionOperations counts
  deliver,   \* message() prepares the output of an attach, counted no more
  life,      \* the handler that #lifecycleMutations fences for
  refresh    \* enqueueExternalRefresh: the stage, and rerun

diskVars == <<file, lock, ledger, registry, child>>
refVars == <<indexed, recArch, refArch, closed>>
watchVars == <<control, observer, timer, attached>>
runVars == <<sup, start, turn>>
vars == <<up, diskVars, refVars, watchVars, runVars, cmd, deliver, life, refresh>>

NoLife == [kind |-> "none", pc |-> "idle", fresh |-> FALSE, was |-> FALSE]
NoStart == [pc |-> "none", force |-> FALSE]
Resting == [pc |-> "idle", rerun |-> FALSE]

StartStage == {"none", "gate", "checked", "spawn", "cleanup"}
LifeStage == {"idle", "record", "pending", "pre1", "quiesce", "exit", "lock", "pre2",
              "apply", "project", "forget", "refresh", "finally", "status", "clear", "start"}
RefreshStage == {"idle", "begin", "status", "live", "waiting", "poll", "promote", "starting",
                 "verify", "added", "discard"}

TypeOK ==
  /\ up \in BOOLEAN /\ child \in BOOLEAN /\ indexed \in BOOLEAN
  /\ file \in {"active", "archived", "deleted"}
  /\ lock \in {"free", "host", "terminal"}
  /\ ledger \in Ledger
  /\ registry \in {"empty", "own", "foreign"}
  /\ recArch \in BOOLEAN /\ refArch \in BOOLEAN /\ closed \in BOOLEAN
  /\ control \in Control
  /\ observer \in BOOLEAN /\ timer \in BOOLEAN /\ attached \in BOOLEAN
  /\ sup \in {"none", "starting", "ready", "stopped"}
  /\ start \in [pc : StartStage, force : BOOLEAN]
  /\ turn \in BOOLEAN /\ deliver \in BOOLEAN
  /\ cmd \in {"idle", "join", "call", "attach"}
  /\ life \in [kind : Kinds \cup {"none"}, pc : LifeStage, fresh : BOOLEAN, was : BOOLEAN]
  /\ refresh \in [pc : RefreshStage, rerun : BOOLEAN]

\* A session this host created, at rest.
Init ==
  /\ up = TRUE /\ file = "active" /\ lock = "free" /\ ledger = "owned"
  /\ registry = "empty" /\ child = FALSE
  /\ indexed = TRUE /\ recArch = FALSE /\ refArch = FALSE /\ closed = FALSE
  /\ control = "none" /\ observer = FALSE /\ timer = FALSE
  /\ attached = FALSE
  /\ sup = "none" /\ start = NoStart /\ turn = FALSE
  /\ cmd = "idle" /\ deliver = FALSE /\ life = NoLife /\ refresh = Resting

sessionArchived == recArch \/ refArch
Fenced == life # NoLife

\* A lock that is not asked for.
LockIgnored == TRUE

\* lockCheck resolves, and lockStatus answers missing or stale; either may also
\* fail, which counts as a lock that is held.
LockFree == lock = "free"

\* Only a session that is being watched is barred.
WatchedOnly == observer

\* observerBarrierBlocks, for a command that neither reads, reclaims nor restores.
observerBarrier == observer \/ control # "none"

\* Only commands in flight count as work, accepted prompts do not.
BusyWithCommands == cmd # "idle" \/ start # NoStart

sessionLifecycleBusy ==
  cmd # "idle" \/ start # NoStart \/ turn

\* ensureSupervisor up to its first await, for a caller that finds neither a
\* start in flight nor a supervisor.
MayStart(force) == ~closed /\ (force \/ ~Fenced) /\ ~sessionArchived
Starting == start # NoStart

-----------------------------------------------------------------------------
(* Session commands.                                                        *)

\* A command that needs the runtime (session.prompt and its like), from the
\* observer barrier to the await of ensureSupervisor.
Command ==
  /\ up /\ indexed /\ cmd = "idle"
  /\ ~observerBarrier /\ ~sessionArchived /\ ~Fenced
  /\ ~closed
  /\ IF Starting THEN cmd' = "join" /\ UNCHANGED start
     ELSE IF sup # "none" THEN cmd' = "call" /\ UNCHANGED start
     ELSE cmd' = "join" /\ start' = [pc |-> "gate", force |-> FALSE]
  /\ UNCHANGED <<up, diskVars, refVars, watchVars, sup, turn, deliver, life, refresh>>

\* The child answers the call: it may have accepted work that outlives it.
Answer ==
  /\ up /\ cmd = "call"
  /\ cmd' = "idle"
  /\ \/ sup = "ready" /\ child /\ turn' \in {turn, TRUE}
     \/ sup # "ready" /\ UNCHANGED turn   \* "rpc child unavailable"
  /\ UNCHANGED <<up, diskVars, refVars, watchVars, sup, start, deliver, life, refresh>>

TurnEnd ==
  /\ up /\ turn /\ sup = "ready" /\ child
  /\ turn' = FALSE
  /\ UNCHANGED <<up, diskVars, refVars, watchVars, sup, start, cmd, deliver, life, refresh>>

\* enqueueExternalRefresh: a run in flight goes round once more.
Enqueue(r) ==
  IF r.pc = "idle" THEN [pc |-> "begin", rerun |-> FALSE] ELSE [r EXCEPT !.rerun = TRUE]

\* The end of one refresh: the loop goes on while somebody asked for it.
Rest(r) == IF r.rerun THEN [pc |-> "begin", rerun |-> FALSE] ELSE Resting

cleanupObserverState == observer' = FALSE /\ timer' = FALSE

\* session.attach refreshes what is known of an external writer, as a counted
\* command and once more in message(), which holds the projection it found.
Attach ==
  /\ up /\ indexed /\ cmd = "idle" /\ ~deliver /\ ~Fenced
  /\ cmd' = "attach"
  /\ refresh' = Enqueue(refresh)
  /\ UNCHANGED <<up, diskVars, refVars, watchVars, runVars, deliver, life>>

AttachAnswered ==
  /\ up /\ cmd = "attach" /\ refresh.pc = "idle"
  /\ cmd' = "idle"
  /\ \/ /\ indexed
        /\ deliver' = TRUE
        /\ refresh' = Enqueue(refresh)
        /\ UNCHANGED <<observer, timer>>
     \/ /\ IF attached THEN UNCHANGED <<observer, timer>>  \* session or client gone
           ELSE cleanupObserverState
        /\ UNCHANGED <<deliver, refresh>>
  /\ UNCHANGED <<up, diskVars, refVars, control, attached, runVars, life>>

\* The set the session is added to is nobody's if its client disconnected.
Attached ==
  /\ up /\ deliver /\ refresh.pc = "idle"
  /\ deliver' = FALSE
  /\ attached' \in {attached, TRUE}
  /\ timer' = TRUE
  /\ UNCHANGED <<up, diskVars, refVars, control, observer, runVars, cmd, life, refresh>>

\* The last attached client disconnects.
Detach ==
  /\ up /\ attached
  /\ attached' = FALSE
  /\ cleanupObserverState
  /\ UNCHANGED <<up, diskVars, refVars, control, runVars, cmd, deliver, life, refresh>>

-----------------------------------------------------------------------------
(* startSupervisor.                                                         *)

\* What the callers awaiting the start promise do when it settles.
Settle(ok) ==
  /\ start' = NoStart
  /\ cmd' = IF cmd # "join" THEN cmd ELSE IF ok THEN "call" ELSE "idle"
  /\ life' = IF life.pc # "start" THEN life
             ELSE [life EXCEPT !.pc = "finally", !.was = ok]
  /\ refresh' = IF refresh.pc # "starting" THEN refresh
                ELSE IF ok THEN [refresh EXCEPT !.pc = "verify"] ELSE Rest(refresh)

\* Up to the answer of lockCheck.  The second case is a check that throws.
StartGate ==
  /\ up /\ start.pc = "gate"
  /\ \/ /\ sup # "none"
        /\ Settle(TRUE)
     \/ /\ sup = "none"
        /\ Settle(FALSE)
     \/ /\ sup = "none" /\ indexed /\ MayStart(start.force) /\ LockFree
        /\ start' = [start EXCEPT !.pc = "checked"]
        /\ UNCHANGED <<cmd, life, refresh>>
  /\ UNCHANGED <<up, diskVars, refVars, control, observer, timer, attached, sup, turn, deliver>>

\* The checks after lockCheck, then spawn and RpcChildRegistry.register, which
\* refuses while the file holds entries of another host process.
StartSpawn ==
  /\ up /\ start.pc = "checked"
  /\ IF indexed /\ MayStart(start.force) /\ registry # "foreign"
     THEN /\ start' = [start EXCEPT !.pc = "spawn"]
          /\ sup' = "starting" /\ child' = TRUE /\ registry' = "own"
          /\ lock' = IF LockFree THEN "host" ELSE lock
          /\ UNCHANGED <<cmd, life, refresh>>
     ELSE Settle(FALSE) /\ UNCHANGED <<sup, child, registry, lock>>
  /\ UNCHANGED <<up, file, ledger, refVars, control, observer, timer, attached, turn, deliver>>

\* The child is ready: it holds the lock.
StartReady ==
  /\ up /\ start.pc = "spawn" /\ child /\ lock = "host"
  /\ sup' = "ready"
  /\ Settle(TRUE)
  /\ UNCHANGED <<up, diskVars, refVars, control, observer, timer, attached, turn, deliver>>

\* It exits, times out or answers nonsense before it is ready.
StartFail ==
  /\ up /\ start.pc = "spawn"
  /\ start' = [start EXCEPT !.pc = "cleanup"]
  /\ sup' = "none" /\ turn' = FALSE
  /\ UNCHANGED <<up, diskVars, refVars, watchVars, cmd, deliver, life, refresh>>

\* The child is signalled and awaited; one that survives SIGKILL is left behind
\* with the lock (SessionRuntimeStuckError).
StartCleanup ==
  /\ up /\ start.pc = "cleanup"
  /\ ~child \/ lock = "host"
  /\ Settle(FALSE)
  /\ UNCHANGED <<up, diskVars, refVars, control, observer, timer, attached, sup, turn, deliver>>

-----------------------------------------------------------------------------
(* The child and its supervisor.                                            *)

\* The child exits, by itself or signalled: its lock goes, or stays behind
\* stale.  A host that runs unregisters it.
ChildDies ==
  /\ child
  /\ child' = FALSE
  /\ lock' = IF lock = "host" THEN "free" ELSE lock
  /\ registry' = IF up THEN "empty" ELSE registry
  /\ UNCHANGED <<up, file, ledger, refVars, watchVars, runVars, cmd, deliver, life, refresh>>

\* markSupervisorCrashed: the reader failed or the watchdog gave the child up.
\* The supervisor keeps its place until the process exits.
SupervisorFails ==
  /\ up /\ sup = "ready" /\ start.pc # "spawn"
  /\ sup' = "stopped" /\ turn' = FALSE
  /\ UNCHANGED <<up, diskVars, refVars, watchVars, start, cmd, deliver, life, refresh>>

\* releaseSupervisorAfterExit, which leaves accepted prompts registered.
SupervisorExit ==
  /\ up /\ ~child /\ sup \in {"ready", "stopped"} /\ refresh.pc # "discard"
  /\ sup' = "none" /\ turn' \in {FALSE, turn}
  /\ UNCHANGED <<up, diskVars, refVars, watchVars, start, cmd, deliver, life, refresh>>

-----------------------------------------------------------------------------
(* The lifecycle handlers.                                                  *)

Begin(kind, pc) ==
  life' = [kind |-> kind, pc |-> pc, fresh |-> TRUE, was |-> FALSE]
At(kind, pc) == up /\ life.kind = kind /\ life.pc = pc
Go(pc) == life' = [life EXCEPT !.pc = pc]
End == life' = NoLife

\* What admits a lifecycle command: the fence, the index, the observer barrier.
Admitted == up /\ indexed /\ ~Fenced

\* handleClose up to the await of a start in flight.
Close ==
  /\ Admitted /\ ~observerBarrier /\ ~sessionArchived
  /\ life' = [kind |-> "close", pc |-> "pending", fresh |-> TRUE, was |-> closed]
  /\ closed' = TRUE
  /\ UNCHANGED <<up, diskVars, indexed, recArch, refArch, watchVars, runVars, cmd, deliver, refresh>>

\* The runtime is stopped without waiting for the start in flight.
ClosePendingHasty ==
  /\ At("close", "pending")
  /\ Go("quiesce")
  /\ UNCHANGED <<up, diskVars, refVars, watchVars, runVars, cmd, deliver, refresh>>

ClosePending ==
  /\ At("close", "pending") /\ ~Starting
  /\ Go("quiesce")
  /\ UNCHANGED <<up, diskVars, refVars, watchVars, runVars, cmd, deliver, refresh>>

\* handleRelease up to the write of the ledger.
Release ==
  /\ Admitted /\ ~observerBarrier /\ ~sessionArchived
  /\ ledger # "foreign" /\ ~sessionLifecycleBusy
  /\ Begin("release", "record")
  /\ UNCHANGED <<up, diskVars, refVars, watchVars, runVars, cmd, deliver, refresh>>

ReleaseRecord ==
  /\ At("release", "record")
  /\ \/ ledger # "foreign" /\ ledger' = "waiting" /\ Go("quiesce")
     \/ UNCHANGED ledger /\ End
  /\ UNCHANGED <<up, file, lock, registry, child, refVars, watchVars, runVars, cmd, deliver, refresh>>

\* handleReclaim, which the barrier lets through to a released session.
Reclaim ==
  /\ Admitted /\ (control = "released" \/ ~observerBarrier) /\ ~sessionArchived
  /\ ledger = "waiting"
  /\ Begin("reclaim", "status")
  /\ UNCHANGED <<up, diskVars, refVars, watchVars, runVars, cmd, deliver, refresh>>

ReclaimStatus ==
  /\ At("reclaim", "status")
  /\ (LockFree /\ Go("clear")) \/ End
  /\ UNCHANGED <<up, diskVars, refVars, watchVars, runVars, cmd, deliver, refresh>>

\* clearTransfer, and ensureSupervisor with the fence ignored.
ReclaimClear ==
  /\ At("reclaim", "clear")
  /\ \/ /\ ledger' = IF ledger = "foreign" THEN ledger ELSE "owned"
        /\ control' = "reconciling"
        /\ IF Starting /\ MayStart(TRUE) THEN Go("start") /\ UNCHANGED start
           ELSE IF sup # "none" \/ ~MayStart(TRUE)
           THEN /\ life' = [life EXCEPT !.pc = "finally", !.was = MayStart(TRUE)]
                /\ UNCHANGED start
           ELSE Go("start") /\ start' = [pc |-> "gate", force |-> TRUE]
     \/ UNCHANGED <<ledger, control, start>> /\ End
  /\ UNCHANGED <<up, file, lock, registry, child, refVars, observer, timer, attached, sup,
                 turn, cmd, deliver, refresh>>

ReclaimFinally ==
  /\ At("reclaim", "finally")
  /\ IF life.was
     THEN /\ control' = "none" /\ cleanupObserverState
          /\ UNCHANGED refresh
     ELSE refresh' = Enqueue(refresh) /\ UNCHANGED <<control, observer, timer>>
  /\ End
  /\ UNCHANGED <<up, diskVars, refVars, attached, runVars, cmd, deliver>>

\* handleArchive up to its first await.
Archive ==
  /\ Admitted /\ ~observerBarrier /\ ~recArch
  /\ ~sessionLifecycleBusy
  /\ Begin("archive", "quiesce")
  /\ UNCHANGED <<up, diskVars, refVars, watchVars, runVars, cmd, deliver, refresh>>

\* The runtime stopped, so the lock is taken to be free.
ArchiveLockTrusting ==
  /\ At("archive", "lock")
  /\ Go("apply")
  /\ UNCHANGED <<up, diskVars, refVars, watchVars, runVars, cmd, deliver, refresh>>

ArchiveLock ==
  /\ At("archive", "lock")
  /\ (LockFree /\ Go("apply")) \/ End
  /\ UNCHANGED <<up, diskVars, refVars, watchVars, runVars, cmd, deliver, refresh>>

\* authority.archive, and archivedAt on the record read at the start of the
\* handler.
ArchiveApply ==
  /\ At("archive", "apply")
  /\ \/ /\ file' = "archived"
        /\ recArch' = (recArch \/ life.fresh)
        /\ Go("project")
     \/ UNCHANGED <<file, recArch>> /\ End
  /\ UNCHANGED <<up, lock, ledger, registry, child, indexed, refArch, closed, watchVars,
                 runVars, cmd, deliver, refresh>>

\* A restore that leaves the projection alone.
ProjectArchived ==
  /\ up /\ life.pc = "project"
  /\ refArch' = (refArch \/ life.kind = "archive")
  /\ End
  /\ UNCHANGED <<up, diskVars, indexed, recArch, closed, watchVars, runVars, cmd, deliver,
                 refresh>>

\* The projection follows once the attached clients have the event.
Project ==
  /\ up /\ life.pc = "project"
  /\ refArch' = (life.kind = "archive")
  /\ End
  /\ UNCHANGED <<up, diskVars, indexed, recArch, closed, watchVars, runVars, cmd, deliver,
                 refresh>>

\* handleRestore; for an archived session the barrier asks OMP for the lock.
Restore ==
  /\ Admitted
  /\ IF sessionArchived THEN LockFree ELSE ~observerBarrier
  /\ recArch
  /\ Begin("restore", "apply")
  /\ UNCHANGED <<up, diskVars, refVars, watchVars, runVars, cmd, deliver, refresh>>

RestoreApply ==
  /\ At("restore", "apply")
  /\ \/ /\ file' = "active"
        /\ recArch' = (recArch /\ ~life.fresh)
        /\ Go("project")
     \/ UNCHANGED <<file, recArch>> /\ End
  /\ UNCHANGED <<up, lock, ledger, registry, child, indexed, refArch, closed, watchVars,
                 runVars, cmd, deliver, refresh>>

\* handleDelete; deletePreflight asks for the lock only without a supervisor.
Delete ==
  /\ Admitted /\ ~observerBarrier
  /\ Begin("delete", "pre1")
  /\ UNCHANGED <<up, diskVars, refVars, watchVars, runVars, cmd, deliver, refresh>>

DeletePreflight ==
  /\ up /\ life.kind = "delete" /\ life.pc \in {"pre1", "pre2"}
  /\ \/ /\ sessionLifecycleBusy \/ sup = "none"
        /\ End
     \/ /\ ~sessionLifecycleBusy /\ (sup # "none" \/ LockFree)
        /\ Go(IF life.pc = "pre1" THEN "quiesce" ELSE "apply")
  /\ UNCHANGED <<up, diskVars, refVars, watchVars, runVars, cmd, deliver, refresh>>

DeleteApply ==
  /\ At("delete", "apply")
  /\ \/ file' = "deleted" /\ Go("forget")
     \/ UNCHANGED file /\ End
  /\ UNCHANGED <<up, lock, ledger, registry, child, refVars, watchVars, runVars, cmd, deliver, refresh>>

\* What the handler forgets once the authority deleted the session; a ledger
\* that cannot be written ends it early.
DeleteForget ==
  /\ At("delete", "forget")
  /\ indexed' = FALSE /\ recArch' = FALSE /\ refArch' = FALSE /\ control' = "none"
  /\ cleanupObserverState
  /\ \/ ledger' = "foreign" /\ closed' = FALSE /\ turn' = FALSE /\ attached' = FALSE
     \/ ledger # "foreign" /\ UNCHANGED <<ledger, closed, turn, attached>>
  /\ End
  /\ UNCHANGED <<up, file, lock, registry, child, sup, start, cmd, deliver, refresh>>

\* Every handler goes on as archive does.
AfterQuiesceArchive(k) == IF k = "archive" THEN "lock" ELSE "applied"

\* Where each handler goes on once quiesceSessionRuntime answered true.
AfterQuiesce(k) ==
  CASE k = "close" -> "forget" [] k = "release" -> "refresh"
    [] k = "archive" -> "lock" [] k = "delete" -> "pre2"

\* What a handler does with a runtime that did not stop cleanly.
NotQuiesced ==
  IF life.kind = "release" THEN Go("finally") /\ UNCHANGED closed
  ELSE /\ End
       /\ closed' = (closed /\ (life.kind = "close" => life.was))

\* quiesceSessionRuntime: terminals are closed in time or the handler gives up;
\* then the supervisor is stopped, which rejects its pending calls.
Quiesce ==
  /\ up /\ life.pc = "quiesce"
  /\ \/ /\ sup = "none"
        /\ Go(AfterQuiesce(life.kind))
        /\ UNCHANGED <<sup, turn, closed>>
     \/ /\ sup # "none"
        /\ sup' = "stopped"
        /\ Go("exit")
        /\ UNCHANGED <<turn, closed>>
     \/ /\ NotQuiesced
        /\ turn' = (turn /\ ~(life.kind = "close" /\ ~life.was /\ sup # "none"))
        /\ UNCHANGED sup
  /\ UNCHANGED <<up, diskVars, indexed, recArch, refArch, watchVars, start, cmd, deliver, refresh>>

\* The child exited after SIGTERM or SIGKILL, or both waits ran out.
QuiesceExit ==
  /\ up /\ life.pc = "exit"
  /\ \/ /\ ~child
        /\ Go(AfterQuiesce(life.kind))
        /\ sup' = "none" /\ turn' = FALSE
        /\ UNCHANGED closed
     \/ /\ child /\ sup # "none"
        /\ NotQuiesced
        /\ turn' = (turn /\ ~(life.kind = "close" /\ ~life.was))
        /\ UNCHANGED sup
  /\ UNCHANGED <<up, diskVars, indexed, recArch, refArch, watchVars, start, cmd, deliver, refresh>>

\* The rest of handleClose.
CloseEnd ==
  /\ At("close", "forget")
  /\ cleanupObserverState
  /\ turn' = FALSE
  /\ End
  /\ UNCHANGED <<up, diskVars, refVars, control, attached, sup, start, cmd, deliver, refresh>>

\* The rest of handleRelease: the observer is set up afresh, and a transfer that
\* the projection does not show as released is taken back.
ReleaseRefresh ==
  /\ At("release", "refresh")
  /\ cleanupObserverState
  /\ refresh' = Enqueue(refresh)
  /\ Go("status")
  /\ UNCHANGED <<up, diskVars, refVars, control, attached, runVars, cmd, deliver>>

ReleaseRefreshed ==
  /\ At("release", "status") /\ refresh.pc = "idle"
  /\ timer' = TRUE
  /\ Go("finally")
  /\ UNCHANGED <<up, diskVars, refVars, control, observer, attached, runVars, cmd, deliver, refresh>>

ReleaseFinally ==
  /\ At("release", "finally")
  /\ ledger' \in IF control # "released" /\ ledger \in {"waiting", "observed"}
                 THEN {"owned", ledger} ELSE {ledger}
  /\ End
  /\ UNCHANGED <<up, file, lock, registry, child, refVars, watchVars, runVars, cmd, deliver, refresh>>

-----------------------------------------------------------------------------
(* enqueueExternalRefresh and refreshExternalSession.                       *)

Tick ==
  /\ up /\ timer
  /\ refresh' = Enqueue(refresh)
  /\ refresh' # refresh
  /\ UNCHANGED <<up, diskVars, refVars, watchVars, runVars, cmd, deliver, life>>

In(pc) == up /\ refresh.pc = pc
Step(pc) == refresh' = [refresh EXCEPT !.pc = pc]
Done == refresh' = Rest(refresh)

\* observerIsCurrent: cleanupObserverState and delete make it false.
Current == observer /\ indexed

\* A local child owns the session, or the lock is inspected.
RefreshBegin ==
  /\ In("begin")
  /\ IF indexed /\ sup = "none"
     THEN Step("status") /\ UNCHANGED <<control, observer, timer>>
     ELSE /\ Done
          /\ IF indexed /\ ledger # "foreign"
             THEN control' = "none" /\ cleanupObserverState
             ELSE UNCHANGED <<control, observer, timer>>
  /\ UNCHANGED <<up, diskVars, refVars, attached, runVars, cmd, deliver, life>>

\* The answer of lockStatus, the ledger write it calls for, and the observer.
RefreshStatus ==
  /\ In("status")
  /\ \/ /\ \/ ~LockFree /\ ledger = "waiting" /\ ledger' = "observed"
           \/ UNCHANGED ledger  \* also: the inspection or the write fails
        /\ observer' = TRUE
        /\ Step("live")
     \/ /\ LockFree /\ ledger = "waiting"
        /\ observer' = TRUE
        /\ Step("waiting")
        /\ UNCHANGED ledger
     \/ /\ LockFree /\ ledger # "waiting"
        /\ ledger' = IF ledger = "observed" THEN "owned" ELSE ledger
        /\ observer' = TRUE
        /\ Step("poll")
     \/ /\ LockFree /\ ledger = "observed"  \* clearTransfer fails
        /\ Done
        /\ UNCHANGED <<ledger, observer>>
  /\ UNCHANGED <<up, file, lock, registry, child, refVars, control, timer, attached, runVars,
                 cmd, deliver, life>>

\* applyObserverPoll puts the record it read, if any, in #records, with archivedAt
\* kept: a handler that read the old one writes to an object nobody reads.
ApplyPoll == life' \in IF Fenced THEN {life, [life EXCEPT !.fresh = FALSE]} ELSE {life}

\* The poll of a session another process writes, or that waits for a terminal.
RefreshShow ==
  /\ In("live") \/ In("waiting")
  /\ Done
  /\ IF sup = "none" /\ ~Starting /\ Current
     THEN /\ ApplyPoll
          /\ control' = (IF refresh.pc = "live" THEN "observer" ELSE "released")
     ELSE UNCHANGED <<life, control>>
  /\ UNCHANGED <<up, diskVars, refVars, observer, timer, attached, runVars, cmd, deliver>>

\* The poll of a session nobody writes: unverified when it is not ours, else a
\* candidate for promotion when the transcript rests and a client is attached.
RefreshPoll ==
  /\ In("poll")
  /\ IF sup = "none" /\ ~Starting /\ Current
     THEN /\ ApplyPoll
          /\ control' = (IF ledger = "foreign" THEN "unverified" ELSE "reconciling")
          /\ \/ ledger # "foreign" /\ attached /\ Step("promote")
             \/ Done
     ELSE Done /\ UNCHANGED <<life, control>>
  /\ UNCHANGED <<up, diskVars, refVars, observer, timer, attached, runVars, cmd, deliver>>

\* The lock again, and ensureSupervisor.  The first case also stands for an
\* attempt that already failed with this fingerprint (#promotionFailures).
RefreshPromote ==
  /\ In("promote")
  /\ \/ Done /\ UNCHANGED start
     \/ /\ LockFree /\ sup = "none" /\ ~Starting
        /\ IF MayStart(FALSE)
           THEN Step("starting") /\ start' = [pc |-> "gate", force |-> FALSE]
           ELSE Done /\ UNCHANGED start
  /\ UNCHANGED <<up, diskVars, refVars, control, observer, timer, attached, sup, turn, cmd,
                 deliver, life>>

\* The transcript the child loaded is compared with the observer's: the child is
\* discarded when they differ or the observer is gone; else ownership is added.
RefreshVerify ==
  /\ In("verify")
  /\ \/ /\ sup # "none"
        /\ sup' = "stopped" /\ Step("discard")
        /\ ApplyPoll
        /\ UNCHANGED ledger
     \/ /\ Current /\ sup = "ready"
        /\ ApplyPoll
        /\ ledger' = "owned"
        /\ Step("added")
        /\ UNCHANGED sup
     \/ /\ sup = "none"
        /\ Done
        /\ ApplyPoll
        /\ UNCHANGED <<ledger, sup>>
  /\ UNCHANGED <<up, file, lock, registry, child, refVars, control, observer, timer, attached,
                 start, turn, cmd, deliver>>

RefreshAdded ==
  /\ In("added")
  /\ \/ /\ ~Current /\ sup # "none"
        /\ ledger' \in {"foreign", ledger}
        /\ sup' = "stopped" /\ Step("discard")
        /\ UNCHANGED <<control, observer, timer>>
     \/ /\ sup = "none"
        /\ Done
        /\ UNCHANGED <<ledger, sup, control, observer, timer>>
     \/ /\ Current /\ sup # "none"
        /\ control' = "none" /\ cleanupObserverState
        /\ Done
        /\ UNCHANGED <<ledger, sup>>
  /\ UNCHANGED <<up, file, lock, registry, child, refVars, attached, start, turn, cmd, deliver, life>>

\* discardPromotionSupervisor awaits the exit of the child, however long.
RefreshDiscard ==
  /\ In("discard") /\ (child => sup # "stopped")
  /\ sup' = (IF child THEN sup ELSE "none") /\ turn' = FALSE
  /\ Done
  /\ UNCHANGED <<up, diskVars, refVars, watchVars, start, cmd, deliver, life>>

-----------------------------------------------------------------------------
(* External: the terminal, and the crash and boot of the host.              *)

TerminalOpens ==
  /\ LockFree /\ file = "active"
  /\ lock' = "terminal"
  /\ UNCHANGED <<up, file, ledger, registry, child, refVars, watchVars, runVars, cmd, deliver,
                 life, refresh>>

TerminalEnds ==
  /\ lock = "terminal"
  /\ lock' = "free"
  /\ UNCHANGED <<up, file, ledger, registry, child, refVars, watchVars, runVars, cmd, deliver,
                 life, refresh>>

Crash ==
  /\ up
  /\ up' = FALSE
  /\ registry' = IF registry = "own" THEN "foreign" ELSE registry
  /\ indexed' = FALSE /\ recArch' = FALSE /\ refArch' = FALSE /\ closed' = FALSE
  /\ control' = "none" /\ cleanupObserverState
  /\ attached' = FALSE
  /\ sup' = "none" /\ start' = NoStart /\ turn' = FALSE
  /\ cmd' = "idle" /\ deliver' = FALSE /\ life' = NoLife /\ refresh' = Resting
  /\ \/ UNCHANGED <<lock, child>>
     \/ /\ start.pc = "checked" /\ LockFree  \* between spawn and register
        /\ lock' = "host" /\ child' = TRUE
  /\ UNCHANGED <<file, ledger>>

\* RpcChildRegistry.reap, then the load of the ledger and the inventory.  An
\* entry whose pid now belongs to another process is kept.
Boot ==
  /\ ~up
  /\ up' = TRUE
  /\ IF registry = "foreign" /\ child
     THEN /\ child' = FALSE /\ registry' = "empty"
          /\ lock' = IF lock = "host" THEN "free" ELSE lock
     ELSE registry' \in {"empty", registry} /\ UNCHANGED <<child, lock>>
  /\ indexed' = (file # "deleted")
  /\ recArch' = (file = "archived") /\ refArch' = (file = "archived")
  /\ UNCHANGED <<file, ledger, closed, watchVars, runVars, cmd, deliver, life, refresh>>

StartStep == StartGate \/ StartSpawn \/ StartReady \/ StartFail \/ StartCleanup
LifeStep ==
  \/ ClosePending \/ CloseEnd
  \/ ReleaseRecord \/ ReleaseRefresh \/ ReleaseRefreshed \/ ReleaseFinally
  \/ ReclaimStatus \/ ReclaimClear \/ ReclaimFinally
  \/ ArchiveLock \/ ArchiveApply \/ RestoreApply \/ Project
  \/ DeletePreflight \/ DeleteApply \/ DeleteForget
  \/ Quiesce \/ QuiesceExit
RefreshStep ==
  \/ RefreshBegin \/ RefreshStatus \/ RefreshShow \/ RefreshPoll
  \/ RefreshPromote \/ RefreshVerify \/ RefreshAdded \/ RefreshDiscard
LifeCommand == Close \/ Release \/ Reclaim \/ Archive \/ Restore \/ Delete

Next ==
  \/ Command \/ Answer \/ TurnEnd \/ Attach \/ AttachAnswered \/ Attached \/ Detach
  \/ StartStep \/ ChildDies \/ SupervisorFails \/ SupervisorExit
  \/ LifeCommand \/ LifeStep
  \/ Tick \/ RefreshStep
  \/ TerminalOpens \/ TerminalEnds \/ Crash \/ Boot

Spec == Init /\ [][Next]_vars

-----------------------------------------------------------------------------
(* Properties.                                                              *)

\* No child writes a session that is archived or deleted on disk, also when the
\* child is an orphan of a host that crashed or one that survived its signals:
\* archive and delete stop the runtime and check the lock under the fence.
NoWriterBehindArchive == file # "active" => ~child

\* A session that was closed has neither a runtime nor a start on its way, and no
\* command waits for one, whatever was starting when session.close came in.
ClosedIsQuiet == closed /\ ~Fenced => sup = "none" /\ ~Starting /\ cmd # "join"

\* Once no lifecycle handler runs, the ref that clients see is marked archived
\* exactly when the session is archived on disk (updateArchivedAt).
ArchivedShown == up /\ ~Fenced /\ indexed => (refArch <=> file = "archived")

\* Archive, delete and release stop a runtime only when no accepted work and no
\* call of a command is lost: what sessionLifecycleBusy saw stays true up to the
\* signal, because the fence refuses new work.
NoWorkKilled ==
  [][life.kind # "close" /\ life.pc = "quiesce" /\ life'.pc = "exit" => ~turn /\ cmd # "call"]_vars

\* While a session is shown as released to the terminal, the host starts no
\* runtime for it: only session.reclaim, which takes the mark away first, does.
ReleaseHolds == [][control = "released" /\ ~child => ~child']_vars

\* startSupervisor spawns a runtime only when no earlier child of the session is
\* alive, the orphans of a crashed host and a child that survived SIGKILL
\* included: two writers would share one transcript.
OneChild == [][sup # "starting" /\ sup' = "starting" => ~child]_vars

=============================================================================
