--------------------------- MODULE PromptExecution ---------------------------
(***************************************************************************)
(* The execution of session.prompt, session.steer, session.followUp and    *)
(* session.cancel for one session: the branches of `#commandInner` in      *)
(* packages/host-service/src/server.ts, PromptLifecycleController and the  *)
(* part of RpcChildSupervisor they rely on, with the crash and the close   *)
(* of the runtime.                                                         *)
(*                                                                         *)
(* Every await of a handler is a point where the others run, so a handler  *)
(* is a stage.  A lifecycle object is a number in Run; its commandId,      *)
(* payload and stage live beside it.  The child is external: it answers    *)
(* the lines of its stdin in order, works on what it accepted and reports  *)
(* the end of it, or fails to.                                             *)
(***************************************************************************)
EXTENDS CommandExecution, Sequences

CONSTANTS
  Steer,        \* commands that are session.steer or session.followUp
  ImagePrompt,  \* prompts that carry image uploads
  ExitFirst,    \* whether the exit of a child may be seen before its failure is
  MaxPending,   \* MAX_PENDING_PROMPTS
  MaxRun        \* bound on the lifecycles ever registered, kept by Admit

ASSUME KindAssumption ==
  Steer \subseteq Command /\ ImagePrompt \subseteq Command \ Steer
ASSUME OutcomeAssumption ==
  {"accepted", "failed"} \subseteq Outcome /\ "accepted" \in Ack
ASSUME ExitAssumption == ExitFirst \in BOOLEAN
ASSUME PendingAssumption == MaxPending \in Nat \ {0} /\ MaxRun \in Nat

VARIABLES
  started,   \* lifecycles created so far
  run,       \* what each lifecycle was registered for
  messages,  \* PromptLifecycleController.#messages and #messagesByCommandId
  active,    \* #activePrompts: the root prompt, 0 when there is none
  accepted,  \* lifecycles with accepted = true
  tagged,    \* lifecycles with an internalId
  work,      \* where each running handler stands
  cancel,    \* the handler of session.cancel
  sup,       \* the RpcChildSupervisor of the session
  stdin,     \* calls the child has not answered
  working,   \* what the child accepted and has not finished
  seen,      \* liveState.isStreaming as last reported by the child
  mutating,  \* a close holds #lifecycleMutations
  closed     \* #closedSessions

lifeVars == <<started, run, messages, active, accepted, tagged>>

childVars == <<sup, stdin, working, seen>>

closeVars == <<mutating, closed>>

promptVars == <<lifeVars, work, cancel, childVars, closeVars>>

allVars == <<vars, promptVars>>

Run == 1 .. MaxRun

NoWork == [stage |-> "none", run |-> 0]

At(r, stage) == req[r].pc = "running" /\ work[r].stage = stage

MoveTo(r, stage, n) == work' = [work EXCEPT ![r] = [stage |-> stage, run |-> n]]

FinishWork(r, o) == Finish(r, o) /\ MoveTo(r, "none", 0)

-----------------------------------------------------------------------------
(* PromptLifecycleController and the state refresh *)

IsRoot(n) == run[n].cmd \notin Steer

\* call() can write to a child that no longer answers.
Usable == sup \in {"up", "mute"}

Without(calls, i) == [j \in 1 .. Len(calls) - 1 |-> calls[IF j < i THEN j ELSE j + 1]]

\* advanceStateRefreshGeneration: the answer to an earlier get_state no longer
\* counts; one at most still did.
Advance(calls) ==
  LET asked == {i \in DOMAIN calls : calls[i].type = "state"}
  IN  IF asked = {} THEN calls ELSE Without(calls, CHOOSE i \in asked : TRUE)

\* scheduleStateRefresh: a get_state of a new generation.
Refresh(calls) ==
  IF Usable THEN Append(Advance(calls), [type |-> "state", run |-> 0])
            ELSE Advance(calls)

\* Forgetting the entry of #activePrompts.
RemoveMessages(gone) == messages' = messages \ gone /\ UNCHANGED active

\* remove(): the lifecycles leave #messages, and #activePrompts if it is theirs.
Remove(gone) ==
  /\ messages' = messages \ gone
  /\ active' = IF active \in gone THEN 0 ELSE active

\* #projectTerminalStatus after a removal, which advances the generation: no
\* refresh for a closed session.
Terminal(calls) == IF closed THEN Advance(calls) ELSE Refresh(calls)

\* release(), and #projectTerminalStatus if it released something.
Release(n) ==
  /\ Remove({n})
  /\ stdin' = IF n \in messages THEN Terminal(stdin) ELSE stdin

ReleaseAll == messages' = {} /\ active' = 0

Registered(c) == \E n \in messages : run[n].cmd = c

QueueFull == Cardinality(messages) >= MaxPending

\* register(), and setActivePrompt for a prompt.
Register(r, n) ==
  /\ n = started + 1
  /\ n \in Run
  /\ started' = n
  /\ run' = [run EXCEPT ![n] = [cmd |-> req[r].cmd, payload |-> req[r].payload]]
  /\ messages' = messages \cup {n}
  /\ active' = IF req[r].cmd \in Steer THEN active ELSE n

-----------------------------------------------------------------------------
(* The handlers of prompt, steer and follow-up *)

\* An outcome cache alone, without the accepted lifecycles.
NeverLive(c) == FALSE

\* lifecycleForCommand(commandId)?.accepted
LiveAccepted(c) == \E n \in messages \cap accepted : run[n].cmd = c

AnswerLive(r, c, p) ==
  /\ LiveAccepted(c)
  /\ AnswerEarly(r, c, p, IF \E n \in messages : run[n] = [cmd |-> c, payload |-> p]
                          THEN "accepted" ELSE Conflict)
  /\ UNCHANGED promptVars

AnswerStored(r, c, p) ==
  /\ ~ LiveAccepted(c)
  /\ BeginConflict(r, c, p) \/ BeginReplay(r, c, p) \/ BeginPending(r, c, p)
  /\ UNCHANGED promptVars

\* A lifecycle mutation fences new operations; a closed session takes no prompt.
AnswerRefused(r, c, p) ==
  /\ ~ LiveAccepted(c)
  /\ \/ mutating /\ FinishAtOnce(r, c, p, "failed")
     \/ ~ mutating /\ closed /\ c \notin Steer /\ FinishAtOnce(r, c, p, "failed")
  /\ UNCHANGED promptVars

Admit(r, c, p) ==
  /\ ~ mutating
  /\ closed => c \in Steer
  /\ started + Cardinality({q \in Request : At(q, "starting")}) < MaxRun
  /\ ~ LiveAccepted(c)
  /\ BeginNew(r, c, p)
  /\ MoveTo(r, "starting", 0)
  /\ UNCHANGED <<lifeVars, cancel, childVars, closeVars>>

Deliver(r) ==
  Free(r) /\ \E c \in Command, p \in Payload :
    \/ AnswerLive(r, c, p)
    \/ AnswerStored(r, c, p)
    \/ AnswerRefused(r, c, p)
    \/ Admit(r, c, p)

\* ensureSupervisor() refuses to start a child, or the child does not come up and
\* startSupervisor() releases every lifecycle.
NoChild ==
  /\ sup = "down"
  /\ ReleaseAll \/ UNCHANGED <<messages, active>>

FailStart(r) ==
  /\ At(r, "starting")
  /\ NoChild
  /\ FinishWork(r, "failed")
  /\ UNCHANGED <<started, run, accepted, tagged, cancel, childVars, closeVars>>

\* Back from ensureSupervisor(): another root prompt, or too many messages.
ResumeRefused(r) ==
  LET c == req[r].cmd
      root == c \notin Steer
      busy == root /\ active # 0
  IN  /\ At(r, "starting")
      /\ sup # "down"
      /\ \/ busy /\ FinishWork(r, "failed")
         \/ ~ busy /\ QueueFull /\ FinishWork(r, "failed")
         \/ ~ busy /\ ~ QueueFull /\ Registered(c) /\ FinishWork(r, "failed")
      /\ UNCHANGED <<lifeVars, cancel, childVars, closeVars>>

\* A prompt needs the root to be free; a steer or follow-up does not.
MayRegister(r) ==
  /\ At(r, "starting")
  /\ sup # "down"
  /\ req[r].cmd \in Steer \/ active = 0
  /\ ~ QueueFull
  /\ ~ Registered(req[r].cmd)

\* register() and supervisor.call() without an await in between.
ResumeDispatch(r) ==
  /\ MayRegister(r)
  /\ req[r].cmd \notin ImagePrompt
  /\ Usable
  /\ \E n \in Run :
       /\ Register(r, n)
       /\ tagged' = tagged \cup {n}
       /\ stdin' = Append(Advance(stdin), [type |-> "prompt", run |-> n])
       /\ MoveTo(r, "calling", n)
  /\ UNCHANGED <<vars, accepted, cancel, sup, working, seen, closeVars>>

\* The supervisor has failed or is being stopped: call() throws, and the catch
\* releases what register() added.
ResumeThrows(r) ==
  /\ MayRegister(r)
  /\ req[r].cmd \notin ImagePrompt
  /\ sup \in {"broken", "stopping"}
  /\ FinishWork(r, "failed")
  /\ stdin' = Advance(stdin)
  /\ UNCHANGED <<lifeVars, cancel, sup, working, seen, closeVars>>

\* A prompt with images is registered and then awaits imageUploads.consume().
ResumeConsume(r) ==
  /\ MayRegister(r)
  /\ req[r].cmd \in ImagePrompt
  /\ \E n \in Run :
       /\ Register(r, n)
       /\ MoveTo(r, IF Usable THEN "consuming" ELSE "doomed", n)
  /\ stdin' = Advance(stdin)
  /\ UNCHANGED <<vars, accepted, tagged, cancel, sup, working, seen, closeVars>>

\* consume() resolved: the prompt is written whether or not its lifecycle is
\* still registered; only the internalId depends on that.
ConsumedDispatch(r) ==
  LET n == work[r].run
  IN  /\ At(r, "consuming")
      /\ tagged' = IF n \in messages THEN tagged \cup {n} ELSE tagged
      /\ stdin' = Append(stdin, [type |-> "prompt", run |-> n])
      /\ MoveTo(r, "calling", n)
      /\ UNCHANGED <<vars, started, run, messages, active, accepted, cancel,
                     sup, working, seen, closeVars>>

\* The handler rejects: consume() failed, the call could not be written, or the
\* supervisor stopped under it.  The catch releases the lifecycle.
HandlerThrows(r) ==
  /\ At(r, "consuming") \/ At(r, "doomed")
  /\ Release(work[r].run)
  /\ FinishWork(r, "failed")
  /\ UNCHANGED <<started, run, accepted, tagged, cancel, sup, working, seen, closeVars>>

\* The child answered success: the lifecycle is accepted work.
HandlerAccepts(r) ==
  LET n == work[r].run
  IN  /\ At(r, "acked")
      /\ accepted' = accepted \cup {n}
      /\ FinishWork(r, "accepted")
      /\ stdin' = IF n \in messages \/ ~ IsRoot(n) THEN Refresh(stdin) ELSE stdin
      /\ UNCHANGED <<started, run, messages, active, tagged, cancel, sup, working, seen,
                     closeVars>>

\* The child refused the message, or handled the prompt without the agent.
HandlerReleases(r, o) ==
  /\ At(r, "refused")
  /\ o = "accepted" => IsRoot(work[r].run)
  /\ IF IsRoot(work[r].run)
     THEN Release(work[r].run)
     ELSE Remove({work[r].run}) /\ stdin' = Refresh(stdin)
  /\ FinishWork(r, o)
  /\ UNCHANGED <<started, run, accepted, tagged, cancel, sup, working, seen, closeVars>>

-----------------------------------------------------------------------------
(* The handler of session.cancel *)

NoCancel == [stage |-> "idle", target |-> 0]

\* The root to cancel is captured before the first await.
CancelBegin ==
  /\ cancel.stage = "idle"
  /\ ~ mutating
  /\ cancel' = [stage |-> "starting", target |-> active]
  /\ UNCHANGED <<vars, lifeVars, work, childVars, closeVars>>

\* The abort RPC names no prompt, so it is sent only if the root is still the
\* captured one.
CancelResume ==
  /\ cancel.stage = "starting"
  /\ Usable
  /\ IF active = cancel.target
     THEN /\ cancel' = [cancel EXCEPT !.stage = "calling"]
          /\ stdin' = Append(stdin, [type |-> "abort", run |-> 0])
     ELSE /\ cancel' = NoCancel
          /\ UNCHANGED stdin
  /\ UNCHANGED <<vars, lifeVars, work, sup, working, seen, closeVars>>

\* No supervisor, or one that has failed.
CancelThrows ==
  /\ cancel.stage = "starting"
  /\ \/ NoChild
     \/ sup \in {"broken", "stopping"} /\ UNCHANGED <<messages, active>>
  /\ cancel' = NoCancel
  /\ UNCHANGED <<vars, started, run, accepted, tagged, work, childVars, closeVars>>

\* Releasing the root of the moment the abort is acknowledged.
CancelReleasesActive ==
  /\ cancel.stage = "acked"
  /\ cancel' = NoCancel
  /\ Remove({active})
  /\ stdin' = IF closed /\ active = 0 THEN stdin ELSE Terminal(stdin)
  /\ UNCHANGED <<vars, started, run, accepted, tagged, work, sup, working, seen, closeVars>>

CancelReleases ==
  /\ cancel.stage = "acked"
  /\ cancel' = NoCancel
  /\ Remove({cancel.target})
  /\ stdin' = IF closed /\ cancel.target \notin messages THEN stdin ELSE Terminal(stdin)
  /\ UNCHANGED <<vars, started, run, accepted, tagged, work, sup, working, seen, closeVars>>

-----------------------------------------------------------------------------
(* The child and its supervisor *)

\* ensureSupervisor() starts one child for all who wait for it.
StartSupervisor ==
  /\ sup = "down"
  /\ ~ closed /\ ~ mutating
  /\ cancel.stage = "starting" \/ \E r \in Request : At(r, "starting")
  /\ sup' = "up"
  /\ UNCHANGED <<vars, lifeVars, work, cancel, stdin, working, seen, closeVars>>

NextCall(type) == sup = "up" /\ stdin # <<>> /\ Head(stdin).type = type

\* The child answers a prompt, steer or follow-up; the promise of call() is
\* resolved and the handler continues later.
ChildAnswersPrompt(ok) ==
  LET n == Head(stdin).run
  IN  /\ NextCall("prompt")
      /\ stdin' = Tail(stdin)
      /\ work' = [r \in Request |->
                    IF work[r] = [stage |-> "calling", run |-> n]
                    THEN [work[r] EXCEPT !.stage = IF ok THEN "acked" ELSE "refused"]
                    ELSE work[r]]
      /\ working' = IF ok THEN working \cup {n} ELSE working
      /\ UNCHANGED <<vars, lifeVars, cancel, sup, seen, closeVars>>

\* An abort that succeeds ends the root work; queued messages go on.
ChildAborts(ok) ==
  /\ NextCall("abort")
  /\ stdin' = Tail(stdin)
  /\ working' = IF ok THEN {n \in working : ~ IsRoot(n)} ELSE working
  /\ cancel' = CASE cancel.stage # "calling" -> cancel
                [] ok    -> [cancel EXCEPT !.stage = "acked"]
                [] OTHER -> NoCancel
  /\ UNCHANGED <<vars, lifeVars, work, sup, seen, closeVars>>

\* A get_state of the current generation: prompts the child is done with and
\* that are older than the grace period are reconciled.
ChildReportsState(k) ==
  LET stale == IF working = {} THEN {n \in messages : n <= k} ELSE {}
  IN  /\ NextCall("state")
      /\ seen' = (working # {})
      /\ Remove(stale)
      /\ stdin' = IF stale = {} THEN Tail(stdin) ELSE Terminal(Tail(stdin))
      /\ UNCHANGED <<vars, started, run, accepted, tagged, work, cancel, sup, working, closeVars>>

\* A get_state that fails: refreshState() throws, nobody hears of it, and the
\* last report stands.
ChildRefusesState ==
  /\ NextCall("state")
  /\ stdin' = Tail(stdin)
  /\ UNCHANGED <<vars, lifeVars, work, cancel, sup, working, seen, closeVars>>

\* prompt_result releases the lifecycle that carries its id.
ChildFinishes(n) ==
  LET known == n \in messages \cap tagged
  IN  /\ sup = "up"
      /\ n \in working /\ IsRoot(n)
      /\ working' = working \ {n}
      /\ IF known THEN Release(n) ELSE UNCHANGED <<messages, active, stdin>>
      /\ UNCHANGED <<vars, started, run, accepted, tagged, work, cancel, sup, seen, closeVars>>

\* The agent ends: the turn of a queued message, or a root that gets no
\* prompt_result.
ChildEnds(n) ==
  /\ sup = "up"
  /\ n \in working
  /\ working' = working \ {n}
  /\ stdin' = Refresh(stdin)
  /\ UNCHANGED <<vars, lifeVars, work, cancel, sup, seen, closeVars>>

\* The durable user entry of a steer or follow-up settles it; the child goes on
\* working on it.
ChildRecords(n) ==
  /\ sup = "up"
  /\ n \in working /\ ~ IsRoot(n)
  /\ n \in messages \cap tagged
  /\ Remove({n})
  /\ stdin' = Advance(stdin)
  /\ UNCHANGED <<vars, started, run, accepted, tagged, work, cancel, sup, working, seen, closeVars>>

\* A child that traps its signals stops answering without exiting.
Mute ==
  /\ sup = "up"
  /\ sup' = "mute"
  /\ UNCHANGED <<vars, lifeVars, work, cancel, stdin, working, seen, closeVars>>

\* Stopping without rejecting the calls that await an answer.
DoomNothing ==
  /\ stdin' = <<>>
  /\ working' = {}
  /\ UNCHANGED <<work, cancel>>

\* Rejecting every pending call.
Doom ==
  /\ work' = [r \in Request |->
                IF work[r].stage \in {"calling", "consuming"}
                THEN [work[r] EXCEPT !.stage = "doomed"] ELSE work[r]]
  /\ cancel' = IF cancel.stage = "calling" THEN NoCancel ELSE cancel
  /\ stdin' = <<>>
  /\ working' = {}

\* A crash that leaves the lifecycles to the exit of the process.
CrashKeepingPrompts ==
  /\ Usable
  /\ sup' = "broken"
  /\ seen' = FALSE
  /\ Doom
  /\ UNCHANGED <<vars, lifeVars, closeVars>>

\* markSupervisorCrashed(): the handle stays until the process has exited.
Crash ==
  /\ Usable
  /\ sup' = "broken"
  /\ seen' = FALSE
  /\ ReleaseAll
  /\ Doom
  /\ UNCHANGED <<vars, started, run, accepted, tagged, closeVars>>

\* Taking calls in flight for activity.
WatchdogOfIdle ==
  /\ working = {} /\ stdin = <<>>
  /\ messages # {}
  /\ ~ seen
  /\ Crash

\* The idle watchdog kills a child that has been silent for the grace period
\* with prompts as old, unless it was last reported streaming.
Watchdog ==
  /\ sup = "mute" \/ (working = {} /\ stdin = <<>>)
  /\ messages # {}
  /\ ~ seen
  /\ Crash

Exit ==
  /\ sup = "broken"
  /\ sup' = "down"
  /\ UNCHANGED <<vars, lifeVars, work, cancel, stdin, working, seen, closeVars>>

\* releaseSupervisorAfterExit() sees the exit of a live child.  Its failure is
\* reported once stderr is drained; markSupervisorCrashed() then finds that the
\* supervisor is no longer the session's and leaves the lifecycles alone.
ExitUnnoticed ==
  /\ ExitFirst
  /\ Usable
  /\ sup' = "down"
  /\ Doom
  /\ UNCHANGED <<vars, lifeVars, seen, closeVars>>

-----------------------------------------------------------------------------
(* session.close *)

CloseBegin ==
  /\ ~ mutating /\ ~ closed
  /\ mutating' = TRUE
  /\ closed' = TRUE
  /\ UNCHANGED <<vars, lifeVars, work, cancel, childVars>>

\* quiesceSupervisor(): stop() rejects the calls at once, the process exits later.
CloseStop ==
  /\ mutating
  /\ Usable \/ sup = "broken"
  /\ sup' = "stopping"
  /\ Doom
  /\ UNCHANGED <<vars, lifeVars, seen, closeVars>>

CloseDone ==
  /\ mutating
  /\ sup \in {"stopping", "down"}
  /\ sup' = "down"
  /\ ReleaseAll
  /\ mutating' = FALSE
  /\ UNCHANGED <<vars, started, run, accepted, tagged, work, cancel, stdin, working, seen, closed>>

\* The process survived the signals: the session stays open and crashed.
CloseFails ==
  /\ mutating
  /\ sup = "stopping"
  /\ sup' = "broken"
  /\ ReleaseAll
  /\ seen' = FALSE
  /\ mutating' = FALSE
  /\ closed' = FALSE
  /\ UNCHANGED <<vars, started, run, accepted, tagged, work, cancel, stdin, working>>

-----------------------------------------------------------------------------

PromptInit ==
  /\ Init
  /\ started = 0
  /\ run = [n \in Run |-> None]
  /\ messages = {} /\ active = 0
  /\ accepted = {} /\ tagged = {}
  /\ work = [r \in Request |-> NoWork]
  /\ cancel = NoCancel
  /\ sup = "down" /\ stdin = <<>> /\ working = {}
  /\ seen = FALSE
  /\ mutating = FALSE /\ closed = FALSE

\* What a handler does by itself once its await is over.
Proceed(r) ==
  \/ FailStart(r) \/ ResumeRefused(r) \/ ResumeDispatch(r) \/ ResumeThrows(r)
  \/ ResumeConsume(r) \/ ConsumedDispatch(r)
  \/ HandlerThrows(r)
  \/ HandlerAccepts(r)
  \/ \E o \in {"failed", "accepted"} : HandlerReleases(r, o)

CancelProceeds == CancelResume \/ CancelThrows \/ CancelReleases

ChildReplies ==
  \/ \E ok \in BOOLEAN : ChildAnswersPrompt(ok) \/ ChildAborts(ok)
  \/ \E k \in {0} \cup Run : ChildReportsState(k)
  \/ ChildRefusesState

ChildWorks(n) == ChildFinishes(n) \/ ChildEnds(n) \/ ChildRecords(n)

CloseProceeds == CloseStop \/ CloseDone \/ CloseFails

\* The store's clock stands still: an outcome is forgotten when another one
\* displaces it, which is all that its expiry would do here.
PromptNext ==
  \/ \E r \in Request : Deliver(r) \/ Proceed(r)
  \/ CancelBegin \/ CancelProceeds
  \/ StartSupervisor
  \/ ChildReplies
  \/ \E n \in Run : ChildWorks(n)
  \/ Mute \/ Crash \/ Watchdog \/ Exit \/ ExitUnnoticed
  \/ CloseBegin \/ CloseProceeds

PromptSpec == PromptInit /\ [][PromptNext]_allVars

\* Handlers whose await is over run; a child that is up answers and ends its
\* work; the watchdog's timer keeps ticking, and clients do not for ever repeat
\* a refused cancel within the grace period; a killed process exits.
PromptFairness ==
  /\ \A r \in Request : WF_allVars(Proceed(r))
  /\ WF_allVars(CancelProceeds)
  /\ WF_allVars(ChildReplies)
  /\ \A n \in Run : WF_allVars(ChildWorks(n))
  /\ SF_allVars(Watchdog)
  /\ WF_allVars(Exit)
  /\ WF_allVars(CloseProceeds)

PromptFairSpec == PromptSpec /\ PromptFairness

-----------------------------------------------------------------------------
(* Properties *)

Call(m) == [type : {"prompt", "abort", "state"}, run : 0 .. m]

Stage == {"none", "starting", "consuming", "calling", "acked", "refused", "doomed"}

\* Every variable keeps the shape the controller and the handlers give it.
PromptTypeOK ==
  /\ TypeOK
  /\ started \in 0 .. MaxRun
  /\ run \in [Run -> [cmd : Command, payload : Payload] \cup {None}]
  /\ messages \subseteq 1 .. started
  /\ active \in messages \cup {0}
  /\ accepted \subseteq 1 .. started
  /\ tagged \subseteq 1 .. started
  /\ work \in [Request -> [stage : Stage, run : 0 .. started]]
  /\ cancel \in [stage : {"idle", "starting", "calling", "acked"}, target : 0 .. started]
  /\ sup \in {"down", "up", "mute", "broken", "stopping"}
  /\ stdin \in Seq(Call(started))
  /\ working \subseteq 1 .. started
  /\ seen \in BOOLEAN /\ mutating \in BOOLEAN /\ closed \in BOOLEAN

\* The lifecycles whose prompts are among the calls.
PromptsIn(calls) == {calls[i].run : i \in {j \in DOMAIN calls : calls[j].type = "prompt"}}

Written == PromptsIn(stdin)

\* What the child was given and has not finished, refused or aborted.
InChild == working \cup Written

\* The appserver accepts one unresolved session.prompt per session: a second one
\* is answered session_busy before another prompt is written to the child
\* (README of host-wire).
OneRoot ==
  \A m, n \in InChild : IsRoot(m) /\ IsRoot(n) => m = n

\* While the child has a root prompt it was given, the session is busy with that
\* prompt: no stale result, cancel, reconciliation, crash of an earlier child or
\* late answer releases newer work.
RootIsActive ==
  \A n \in InChild : IsRoot(n) /\ run[n].cmd \notin ImagePrompt => active = n

\* A command is not executed a second time while the work an earlier delivery
\* started is still live, even when its cached outcome has expired.
NoSecondExecution ==
  \A n \in messages, r \in Request :
    req[r].pc = "running" /\ req[r].cmd = run[n].cmd => work[r].run = n

\* No lifecycle outlives the child it was dispatched to: child termination
\* releases ownership (README of host-wire).
NothingOutlivesChild ==
  sup = "down" /\ (\A r \in Request : req[r].pc = "idle") => messages = {}

-----------------------------------------------------------------------------
(* What keeps the safety properties: together with them, inductive *)

\* A handler owns the lifecycle it registered, alone, until it answers.
Owners ==
  /\ \A r \in Request :
       /\ req[r].pc # "running" => work[r] = NoWork
       /\ work[r].stage \in {"none", "starting"} <=> work[r].run = 0
       /\ work[r].run # 0 => /\ run[work[r].run] = [cmd |-> req[r].cmd, payload |-> req[r].payload]
                             /\ work[r].run \notin accepted
  /\ \A r, q \in Request : work[r].run = work[q].run /\ work[r].run # 0 => r = q

\* What is registered and not yet accepted has its handler; the active one is a
\* root prompt.
Lifecycles ==
  /\ \A n \in 1 .. started : run[n] \in [cmd : Command, payload : Payload]
  /\ \A n \in messages \ accepted : \E r \in Request : work[r].run = n
  /\ active # 0 => IsRoot(active)

Images == {n \in 1 .. started : run[n].cmd \in ImagePrompt}

\* The child holds a lifecycle once, from the write of its prompt on; a child
\* that cannot be called holds none.
Dispatched ==
  /\ 0 \notin Written
  /\ Written \cap working = {}
  /\ ~ Usable => stdin = <<>> /\ working = {}
  /\ \A r \in Request :
       /\ work[r].stage \in {"consuming", "calling"} => Usable
       /\ work[r].stage \in {"consuming", "refused", "doomed"} => work[r].run \notin InChild
       /\ work[r].stage = "consuming" => work[r].run \in Images

HasCall(calls, type) == \E i \in DOMAIN calls : calls[i].type = type

\* No call is made twice: there is one get_state, one abort and one prompt of each
\* lifecycle.  A prompt written after a get_state, or after the abort of the
\* target, was registered before it: only a prompt with images is.
InOrder(calls, images, target) ==
  /\ \A i, j \in DOMAIN calls :
       /\ calls[i].type = calls[j].type
       /\ calls[i].type = "prompt" => calls[i].run = calls[j].run
       => i = j
  /\ \A i, j \in DOMAIN calls :
       /\ i < j /\ calls[j].type = "prompt"
       /\ calls[i].type = "state" \/ (calls[i].type = "abort" /\ calls[j].run = target)
       => calls[j].run \in images

CallOrder == InOrder(stdin, Images, cancel.target)

\* The abort of a cancel ends the root it captured.
Cancelled ==
  /\ HasCall(stdin, "abort") => cancel.stage = "calling"
  /\ cancel.target # 0 => IsRoot(cancel.target)
  /\ cancel.stage = "acked" /\ cancel.target \in InChild => cancel.target \in Images

\* A child that is gone left no lifecycle behind but those of handlers that are
\* about to fail.
ReleasedWithChild ==
  ~ ExitFirst /\ sup \in {"down", "broken"} =>
    \A n \in messages : \E r \in Request : work[r] = [stage |-> "doomed", run |-> n]

PromptInv ==
  /\ ExecutionInv /\ PromptTypeOK
  /\ Owners /\ Lifecycles /\ Dispatched /\ CallOrder /\ Cancelled
  /\ RootIsActive /\ NoSecondExecution /\ ReleasedWithChild

-----------------------------------------------------------------------------
(* Progress *)

\* The case the watchdog leaves alone.
LeftAlone == sup = "mute" /\ seen

\* Every delivery is answered, unless its child fell silent while streaming.
DeliveriesAnswered == \A r \in Request : ~ Free(r) ~> Free(r) \/ LeftAlone

\* The child is done, but the report that it streams stands, because the
\* get_state after the end of its turn failed.
Unreconciled == sup = "up" /\ seen /\ working = {}

\* A root prompt does not keep the session busy for ever: its result, a
\* reconciliation, the watchdog or the end of the child releases it, unless no
\* later get_state corrects a report that the child streams.
BusyClears ==
  \A n \in Run : active = n ~> active # n \/ LeftAlone \/ []Unreconciled

=============================================================================
