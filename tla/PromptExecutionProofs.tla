------------------------ MODULE PromptExecutionProofs ------------------------
(***************************************************************************)
(* Proofs about CommandExecution, for any number of deliveries, commands   *)
(* and payloads, any retention period, any cache limit and any clock: a    *)
(* command has one execution at a time, and who waits for it waits for an  *)
(* execution that goes on.                                                 *)
(*                                                                         *)
(* Then about PromptExecution: the handlers of prompt, steer and follow-up *)
(* are executions of commands in that sense, so what holds of every        *)
(* command holds of them.  Beyond that, the child's root prompt is the     *)
(* active one, and no command executes twice while its lifecycle lives.    *)
(* PromptInv joins handlers, lifecycles, the calls in the child's stdin    *)
(* and what the child works on.                                            *)
(***************************************************************************)
EXTENDS PromptExecution, TLAPS

-----------------------------------------------------------------------------
(* Commands *)

\* #prune deletes no pending entry.
LEMMA PrunedCompleted ==
  \A e, o : Pruned(e, o) \subseteq Completed(e)
BY Zenon DEF Pruned, Expired, Completed

\* Deleting entries keeps the store a store.
LEMMA EntriesWithoutType ==
  ASSUME NEW e \in [Command -> Entry \cup {None}], NEW gone
  PROVE  /\ EntriesWithout(e, gone) \in [Command -> Entry \cup {None}]
         /\ \A c \in Command :
              EntriesWithout(e, gone)[c] = IF c \in gone THEN None ELSE e[c]
BY Zenon DEF EntriesWithout

\* The iteration order relates commands, whatever is deleted or touched.
LEMMA OrderType ==
  ASSUME NEW o, o \subseteq Command \X Command, NEW e, NEW gone, NEW c \in Command
  PROVE  /\ OrderWithout(o, gone) \subseteq Command \X Command
         /\ Touch(e, o, c) \subseteq Command \X Command
BY DEF OrderWithout, Touch, Known

\* A handler that runs or waits has a command and a payload.
LEMMA HandlerType ==
  ASSUME NEW r \in Request, req \in [Request -> Handler], req[r].pc # "idle"
  PROVE  req[r].cmd \in Command /\ req[r].payload \in Payload
BY DEF Handler, Idle

\* The prune that opens begin() leaves every pending entry as it is and makes
\* no entry pending.
LEMMA PruneStoreKeeps ==
  ASSUME TypeOK, PruneStore
  PROVE  /\ entries' \in [Command -> Entry \cup {None}]
         /\ older' \subseteq Command \X Command
         /\ \A c \in Command : Pending(c)' <=> Pending(c)
         /\ \A c \in Command : Pending(c) => entries'[c] = entries[c]
<1> DEFINE gone == Pruned(entries, older)
<1>1. entries' = EntriesWithout(entries, gone) /\ older' = OrderWithout(older, gone)
  BY Zenon DEF PruneStore
<1>2. \A c \in gone : ~ Pending(c)
  BY PrunedCompleted, Zenon DEF Completed, Known, Pending
<1>3. entries \in [Command -> Entry \cup {None}] /\ older \subseteq Command \X Command
  BY Zenon DEF TypeOK
<1>4. \A c \in Command : entries'[c] = IF c \in gone THEN None ELSE entries[c]
  BY <1>1, <1>3, EntriesWithoutType
<1>5. entries' \in [Command -> Entry \cup {None}]
  BY <1>1, <1>3, EntriesWithoutType, Zenon
<1>6. older' \subseteq Command \X Command
  BY <1>1, <1>3, Zenon DEF OrderWithout
<1> QED
  BY <1>2, <1>4, <1>5, <1>6, Zenon DEF Pending

\* A step that leaves the handlers and the pending entries alone keeps the
\* agreement between them.
LEMMA SameWork ==
  ASSUME ExecutionInv, req' = req,
         entries' \in [Command -> Entry \cup {None}],
         \A c \in Command : Pending(c)' <=> Pending(c),
         \A c \in Command : Pending(c) => entries'[c] = entries[c]
  PROVE  RunnersPending' /\ PendingRuns' /\ SingleFlight' /\ WaitersHaveRunner'
<1> USE DEF ExecutionInv
<1>1. RunnersPending'
  BY HandlerType, Zenon DEF RunnersPending, TypeOK
<1>2. PendingRuns'
  BY Zenon DEF PendingRuns, Runs
<1>3. SingleFlight' /\ WaitersHaveRunner'
  BY Zenon DEF SingleFlight, WaitersHaveRunner
<1> QED
  BY <1>1, <1>2, <1>3, Zenon

\* A response carries an answer.
LEMMA RespondType ==
  ASSUME NEW c \in Command, NEW p \in Payload, NEW a \in Answer, Respond(c, p, a)
  PROVE  reply' \in Response \cup {None}
BY Zenon DEF Respond, Response

\* Deliveries answered without touching the store.
LEMMA AnswerEarlyKeeps ==
  ASSUME ExecutionInv, NEW r \in Request, NEW c \in Command, NEW p \in Payload,
         NEW a \in EarlyAnswer, AnswerEarly(r, c, p, a)
  PROVE  ExecutionInv'
<1>1. reply' \in Response \cup {None}
  BY RespondType, Zenon DEF AnswerEarly, Answer, EarlyAnswer
<1>2. UNCHANGED <<entries, older, now, req>>
  BY Zenon DEF AnswerEarly, storeVars
<1>3. TypeOK'
  BY <1>1, <1>2, Zenon DEF ExecutionInv, TypeOK
<1> QED
  BY <1>2, <1>3, SameWork, Zenon DEF ExecutionInv, Pending, TypeOK

\* Deliveries of another payload under a known commandId.
LEMMA BeginConflictKeeps ==
  ASSUME ExecutionInv, NEW r \in Request, NEW c \in Command, NEW p \in Payload,
         BeginConflict(r, c, p)
  PROVE  ExecutionInv'
<1>1. reply' \in Response \cup {None}
  BY RespondType, Zenon DEF BeginConflict, Answer
<1>2. PruneStore /\ UNCHANGED <<now, req>>
  BY Zenon DEF BeginConflict
<1>3. TypeOK'
  BY <1>1, <1>2, PruneStoreKeeps, Zenon DEF ExecutionInv, TypeOK
<1> QED
  BY <1>2, <1>3, PruneStoreKeeps, SameWork, Zenon DEF ExecutionInv, TypeOK

\* Replays of a completed outcome.
LEMMA BeginReplayKeeps ==
  ASSUME ExecutionInv, NEW r \in Request, NEW c \in Command, NEW p \in Payload,
         BeginReplay(r, c, p)
  PROVE  ExecutionInv'
<1> DEFINE gone == Pruned(entries, older)
<1>1. /\ entries' = EntriesWithout(entries, gone)
      /\ older' = OrderWithout(Touch(entries, older, c), gone)
      /\ UNCHANGED <<now, req>>
      /\ c \in Completed(entries)
      /\ Respond(c, p, entries[c].outcome)
  BY Zenon DEF BeginReplay
<1>2. entries \in [Command -> Entry \cup {None}] /\ older \subseteq Command \X Command
  BY Zenon DEF ExecutionInv, TypeOK
<1>3. entries[c].outcome \in Answer
  BY <1>1, <1>2, Zenon DEF Completed, Known, Entry, Answer
<1>4. reply' \in Response \cup {None}
  BY <1>1, <1>3, RespondType, Zenon
<1>5. older' \subseteq Command \X Command
  <2>1. Touch(entries, older, c) \subseteq Command \X Command
    BY <1>2, OrderType, Zenon
  <2> QED
    BY <1>1, <2>1, Zenon DEF OrderWithout
<1>6. entries' \in [Command -> Entry \cup {None}]
  BY <1>1, <1>2, EntriesWithoutType, Zenon
<1>7. \A d \in Command : entries'[d] = IF d \in gone THEN None ELSE entries[d]
  BY <1>1, <1>2, EntriesWithoutType
<1>8. \A d \in gone : ~ Pending(d)
  BY PrunedCompleted, Zenon DEF Completed, Known, Pending
<1>9. /\ \A d \in Command : Pending(d)' <=> Pending(d)
      /\ \A d \in Command : Pending(d) => entries'[d] = entries[d]
  BY <1>7, <1>8, Zenon DEF Pending
<1>10. TypeOK'
  BY <1>1, <1>4, <1>5, <1>6, Zenon DEF ExecutionInv, TypeOK
<1> QED
  BY <1>1, <1>6, <1>9, <1>10, SameWork, Zenon DEF ExecutionInv

\* Joining a pending command: its entry is being executed by someone else.
LEMMA BeginPendingKeeps ==
  ASSUME ExecutionInv, NEW r \in Request, NEW c \in Command, NEW p \in Payload,
         BeginPending(r, c, p)
  PROVE  ExecutionInv'
<1>1. PruneStore /\ UNCHANGED now /\ Free(r) /\ reply' = None
  BY Zenon DEF BeginPending, Hold
<1>2. req' = [req EXCEPT ![r] = [pc |-> "waiting", cmd |-> c, payload |-> p]]
  BY Zenon DEF BeginPending, Hold
<1>3. Pending(c) /\ entries[c].hash = p
  BY Zenon DEF BeginPending, Forgotten, SamePayload, Completed, Known, Pending
<1>4. /\ entries' \in [Command -> Entry \cup {None}]
      /\ older' \subseteq Command \X Command
      /\ \A d \in Command : Pending(d)' <=> Pending(d)
      /\ \A d \in Command : Pending(d) => entries'[d] = entries[d]
  BY <1>1, PruneStoreKeeps, Zenon DEF ExecutionInv
<1>5. req \in [Request -> Handler]
  BY Zenon DEF ExecutionInv, TypeOK
<1>6. req' \in [Request -> Handler]
  BY <1>2, <1>5, Zenon DEF Handler
<1>7. TypeOK'
  BY <1>1, <1>4, <1>6, Zenon DEF ExecutionInv, TypeOK
<1>8. \A q \in Request : req'[q].pc = "running" => q # r /\ req'[q] = req[q]
  BY <1>2, <1>5, Zenon
<1>9. \A q \in Request : req[q].pc = "running" => q # r /\ req'[q] = req[q]
  BY <1>1, <1>2, <1>5, Zenon DEF Free
<1>10. RunnersPending'
  BY <1>4, <1>5, <1>8, HandlerType, Zenon DEF ExecutionInv, RunnersPending
<1>11. PendingRuns'
  BY <1>4, <1>9 DEF ExecutionInv, PendingRuns, Runs
<1>12. SingleFlight'
  BY <1>8, Zenon DEF ExecutionInv, SingleFlight
<1>13. WaitersHaveRunner'
  <2> SUFFICES ASSUME NEW q \in Request, req'[q].pc = "waiting"
               PROVE  \E s \in Request : /\ req'[s].pc = "running"
                                         /\ req'[s].cmd = req'[q].cmd
                                         /\ req'[s].payload = req'[q].payload
    BY Zenon DEF WaitersHaveRunner
  <2>1. CASE q = r
    <3>1. PICK s \in Request : Runs(s, c, p)
      BY <1>3, Zenon DEF ExecutionInv, PendingRuns
    <3>2. req'[s] = req[s] /\ req[s] = [pc |-> "running", cmd |-> c, payload |-> p]
      BY <3>1, <1>9 DEF Runs
    <3> QED
      BY <3>2, <2>1, <1>2, <1>5
  <2>2. CASE q # r
    BY <2>2, <1>2, <1>5, <1>9 DEF ExecutionInv, WaitersHaveRunner
  <2> QED
    BY <2>1, <2>2, Zenon
<1> QED
  BY <1>7, <1>10, <1>11, <1>12, <1>13, Zenon DEF ExecutionInv

\* A new execution: nobody executed or awaited this command.
LEMMA BeginNewKeeps ==
  ASSUME ExecutionInv, NEW r \in Request, NEW c \in Command, NEW p \in Payload,
         BeginNew(r, c, p)
  PROVE  ExecutionInv'
<1> DEFINE gone == Pruned(entries, older)
           new == [hash |-> p, outcome |-> None, at |-> 0]
<1>1. /\ entries' = [EntriesWithout(entries, gone) EXCEPT ![c] = new]
      /\ older' = OrderWithout(older, gone)
                    \cup {<<d, c>> : d \in Known(entries) \ (gone \cup {c})}
      /\ Free(r) /\ Forgotten(c) /\ UNCHANGED now /\ reply' = None
  BY Zenon DEF BeginNew, Hold
<1>2. req' = [req EXCEPT ![r] = [pc |-> "running", cmd |-> c, payload |-> p]]
  BY Zenon DEF BeginNew, Hold
<1>3. /\ entries \in [Command -> Entry \cup {None}]
      /\ older \subseteq Command \X Command
      /\ req \in [Request -> Handler]
  BY Zenon DEF ExecutionInv, TypeOK
<1>4. new \in Entry /\ new # None
  BY EntryAssumption, TimeAssumption DEF Entry, Time
<1>5. /\ entries' \in [Command -> Entry \cup {None}]
      /\ entries'[c] = new
      /\ \A d \in Command \ {c} : entries'[d] = IF d \in gone THEN None ELSE entries[d]
  BY <1>1, <1>3, <1>4, EntriesWithoutType
<1>6. older' \subseteq Command \X Command
  BY <1>1, <1>3 DEF OrderWithout, Known
<1>7. \A d \in gone : ~ Pending(d)
  BY PrunedCompleted, Zenon DEF Completed, Known, Pending
<1>8. ~ Pending(c)
  BY <1>1, <1>7, Zenon DEF Forgotten, Pending
<1>9. \A d \in Command \ {c} : (Pending(d)' <=> Pending(d)) /\ (Pending(d) => entries'[d] = entries[d])
  BY <1>5, <1>7, Zenon DEF Pending
<1>10. \A q \in Request : req[q].pc = "running" => q # r /\ req[q].cmd # c /\ req'[q] = req[q]
  BY <1>1, <1>2, <1>3, <1>8, Zenon DEF Free, ExecutionInv, RunnersPending
<1>11. \A q \in Request : req'[q] = IF q = r THEN [pc |-> "running", cmd |-> c, payload |-> p]
                                     ELSE req[q]
  BY <1>2, <1>3, Zenon
<1>12. TypeOK'
  <2>1. req' \in [Request -> Handler]
    BY <1>2, <1>3, Zenon DEF Handler
  <2> QED
    BY <1>1, <1>5, <1>6, <2>1, Zenon DEF ExecutionInv, TypeOK
<1>13. RunnersPending'
  <2> SUFFICES ASSUME NEW q \in Request, req'[q].pc = "running"
               PROVE  Pending(req[q].cmd)' /\ entries'[req'[q].cmd].hash = req'[q].payload
    BY Zenon DEF RunnersPending
  <2>1. CASE q = r
    BY <2>1, <1>4, <1>5, <1>11 DEF Pending
  <2>2. CASE q # r
    <3>1. req'[q] = req[q] /\ req[q].cmd \in Command \ {c}
      BY <2>2, <1>3, <1>10, <1>11, HandlerType, Zenon
    <3> QED
      BY <3>1, <1>9, Zenon DEF ExecutionInv, RunnersPending
  <2> QED
    BY <2>1, <2>2, Zenon
<1>14. PendingRuns'
  <2> SUFFICES ASSUME NEW d \in Command, Pending(d)'
               PROVE  \E q \in Request : req'[q] = [pc |-> "running", cmd |-> d,
                                                    payload |-> entries'[d].hash]
    BY Zenon DEF PendingRuns, Runs
  <2>1. CASE d = c
    BY <2>1, <1>5, <1>11
  <2>2. CASE d # c
    BY <2>2, <1>9, <1>10 DEF ExecutionInv, PendingRuns, Runs
  <2> QED
    BY <2>1, <2>2, Zenon
<1>15. SingleFlight'
  BY <1>10, <1>11 DEF ExecutionInv, SingleFlight
<1>16. WaitersHaveRunner'
  BY <1>10, <1>11 DEF ExecutionInv, WaitersHaveRunner
<1> QED
  BY <1>12, <1>13, <1>14, <1>15, <1>16, Zenon DEF ExecutionInv

\* complete() settles one entry and disturbs no other pending one.
LEMMA CompleteSettles ==
  ASSUME TypeOK, NEW c \in Command, NEW p \in Payload, NEW o \in Outcome,
         Complete(c, p, o), Forgotten(c) \/ Pending(c)
  PROVE  /\ entries' \in [Command -> Entry \cup {None}]
         /\ older' \subseteq Command \X Command
         /\ ~ Pending(c)'
         /\ \A d \in Command \ {c} : (Pending(d)' <=> Pending(d))
                                      /\ (Pending(d) => entries'[d] = entries[d])
<1> DEFINE settled == [entries EXCEPT ![c] = [hash |-> p, outcome |-> o, at |-> now]]
           touched == Touch(entries, older, c)
           gone == Pruned(settled, touched)
<1>1. entries' = EntriesWithout(settled, gone) /\ older' = OrderWithout(touched, gone)
  BY Zenon DEF Complete, Pending, Completed, Known
<1>2. /\ entries \in [Command -> Entry \cup {None}]
      /\ older \subseteq Command \X Command
      /\ now \in Time
  BY Zenon DEF TypeOK
<1>3. /\ settled \in [Command -> Entry \cup {None}]
      /\ settled[c] = [hash |-> p, outcome |-> o, at |-> now]
      /\ \A d \in Command \ {c} : settled[d] = entries[d]
  BY <1>2, Zenon DEF Entry
<1>4. o # None
  BY AnswerAssumption, Zenon
<1>5. \A d \in gone : settled[d] # None /\ settled[d].outcome # None
  BY PrunedCompleted, Zenon DEF Completed, Known
<1> HIDE DEF settled, gone
<1>6. /\ entries' \in [Command -> Entry \cup {None}]
      /\ \A d \in Command : entries'[d] = IF d \in gone THEN None ELSE settled[d]
  BY <1>1, <1>3, EntriesWithoutType
<1>7. touched \subseteq Command \X Command
  BY <1>2, OrderType, Zenon
<1>8. older' \subseteq Command \X Command
  BY <1>1, <1>7, Zenon DEF OrderWithout
<1>9. ~ Pending(c)'
  BY <1>3, <1>4, <1>6 DEF Pending
<1>10. \A d \in Command \ {c} : (Pending(d)' <=> Pending(d))
                                 /\ (Pending(d) => entries'[d] = entries[d])
  BY <1>3, <1>5, <1>6, Zenon DEF Pending
<1> QED
  BY <1>6, <1>8, <1>9, <1>10, Zenon

\* Commands refused before their first await leave a completed entry.
LEMMA FinishAtOnceKeeps ==
  ASSUME ExecutionInv, NEW r \in Request, NEW c \in Command, NEW p \in Payload,
         NEW o \in Outcome, FinishAtOnce(r, c, p, o)
  PROVE  ExecutionInv'
<1>1. Forgotten(c) /\ Complete(c, p, o) /\ UNCHANGED <<now, req>>
  BY Zenon DEF FinishAtOnce
<1>2. reply' \in Response \cup {None}
  BY RespondType, Zenon DEF FinishAtOnce, Answer
<1>3. /\ entries' \in [Command -> Entry \cup {None}]
      /\ older' \subseteq Command \X Command
      /\ ~ Pending(c)'
      /\ \A d \in Command \ {c} : (Pending(d)' <=> Pending(d))
                                   /\ (Pending(d) => entries'[d] = entries[d])
  BY <1>1, CompleteSettles, Zenon DEF ExecutionInv
<1>4. ~ Pending(c)
  BY <1>1, PrunedCompleted, Zenon DEF Forgotten, Pending, Completed, Known
<1>5. TypeOK'
  BY <1>1, <1>2, <1>3, Zenon DEF ExecutionInv, TypeOK
<1>6. /\ \A d \in Command : Pending(d)' <=> Pending(d)
      /\ \A d \in Command : Pending(d) => entries'[d] = entries[d]
  BY <1>3, <1>4, Zenon
<1> QED
  BY <1>1, <1>3, <1>5, <1>6, SameWork, Zenon DEF ExecutionInv

\* An execution ends: its entry is completed, and with it go all who waited.
LEMMA FinishKeeps ==
  ASSUME ExecutionInv, NEW r \in Request, NEW o \in Outcome, Finish(r, o)
  PROVE  ExecutionInv'
<1>1. req[r].pc = "running" /\ Resolve(r) /\ UNCHANGED now
  BY Zenon DEF Finish
<1>2. req \in [Request -> Handler]
  BY Zenon DEF ExecutionInv, TypeOK
<1>3. PICK c \in Command, p \in Payload :
        req[r].cmd = c /\ req[r].payload = p /\ Complete(c, p, o) /\ Respond(c, p, o)
  BY <1>1, <1>2, HandlerType, Zenon DEF Finish
<1>4. Pending(c)
  BY <1>1, <1>3, Zenon DEF ExecutionInv, RunnersPending
<1>5. /\ entries' \in [Command -> Entry \cup {None}]
      /\ older' \subseteq Command \X Command
      /\ ~ Pending(c)'
      /\ \A d \in Command \ {c} : (Pending(d)' <=> Pending(d))
                                   /\ (Pending(d) => entries'[d] = entries[d])
  BY <1>3, <1>4, CompleteSettles, Zenon DEF ExecutionInv
<1>6. reply' \in Response \cup {None}
  BY <1>3, RespondType, Zenon DEF Answer
<1>7. /\ req' \in [Request -> Handler]
      /\ \A q \in Request : req'[q] = Idle \/ (req'[q] = req[q] /\ q # r
                                             /\ (req[q].pc = "waiting" => req[q].cmd # c))
      /\ \A q \in Request : q # r /\ req[q].pc = "running" => req'[q] = req[q]
  BY <1>1, <1>2, <1>3, Zenon DEF Resolve, Handler
<1>8. \A q \in Request : q # r /\ req[q].pc = "running" => req[q].cmd # c
  BY <1>1, <1>3, Zenon DEF ExecutionInv, SingleFlight
<1>9. Idle.pc = "idle"
  BY Zenon DEF Idle
<1>10. TypeOK'
  BY <1>1, <1>5, <1>6, <1>7, Zenon DEF ExecutionInv, TypeOK
<1>11. RunnersPending'
  <2> SUFFICES ASSUME NEW q \in Request, req'[q].pc = "running"
               PROVE  Pending(req[q].cmd)' /\ entries'[req'[q].cmd].hash = req'[q].payload
    BY Zenon DEF RunnersPending
  <2>1. req'[q] = req[q] /\ q # r
    BY <1>7, <1>9, Zenon
  <2>2. req[q].cmd \in Command \ {c}
    BY <2>1, <1>2, <1>8, HandlerType, Zenon
  <2> QED
    BY <2>1, <2>2, <1>5, Zenon DEF ExecutionInv, RunnersPending
<1>12. PendingRuns'
  <2> SUFFICES ASSUME NEW d \in Command, Pending(d)'
               PROVE  \E q \in Request : req'[q] = [pc |-> "running", cmd |-> d,
                                                    payload |-> entries'[d].hash]
    BY Zenon DEF PendingRuns, Runs
  <2>1. d # c /\ Pending(d) /\ entries'[d] = entries[d]
    BY <1>5, Zenon
  <2>2. PICK q \in Request : req[q] = [pc |-> "running", cmd |-> d, payload |-> entries[d].hash]
    BY <2>1, Zenon DEF ExecutionInv, PendingRuns, Runs
  <2> QED
    BY <2>1, <2>2, <1>3, <1>7
<1>13. SingleFlight'
  BY <1>7, <1>9 DEF ExecutionInv, SingleFlight
<1>14. WaitersHaveRunner'
  <2> SUFFICES ASSUME NEW q \in Request, req'[q].pc = "waiting"
               PROVE  \E s \in Request : /\ req'[s].pc = "running"
                                         /\ req'[s].cmd = req'[q].cmd
                                         /\ req'[s].payload = req'[q].payload
    BY Zenon DEF WaitersHaveRunner
  <2>1. req'[q] = req[q] /\ req[q].cmd # c
    BY <1>7, <1>9, Zenon
  <2>2. PICK s \in Request : /\ req[s].pc = "running"
                             /\ req[s].cmd = req[q].cmd
                             /\ req[s].payload = req[q].payload
    BY <2>1, Zenon DEF ExecutionInv, WaitersHaveRunner
  <2> QED
    BY <2>1, <2>2, <1>3, <1>7, Zenon
<1> QED
  BY <1>10, <1>11, <1>12, <1>13, <1>14, Zenon DEF ExecutionInv

\* The clock touches neither the store nor the handlers.
LEMMA SetClockKeeps ==
  ASSUME ExecutionInv, SetClock
  PROVE  ExecutionInv'
<1>1. UNCHANGED <<entries, older, req>> /\ now' \in Time /\ reply' = None
  BY Zenon DEF SetClock
<1>2. TypeOK'
  BY <1>1, Zenon DEF ExecutionInv, TypeOK
<1> QED
  BY <1>1, <1>2, SameWork, Zenon DEF ExecutionInv, Pending, TypeOK

\* Every step of the handlers and of the clock keeps the invariant.
LEMMA ExecutionStep ==
  ASSUME ExecutionInv, [Next]_vars
  PROVE  ExecutionInv'
<1>1. CASE SetClock
  BY <1>1, SetClockKeeps, Zenon
<1>2. CASE \E r \in Request : Begin(r)
  BY Zenon, <1>2, AnswerEarlyKeeps, FinishAtOnceKeeps, BeginNewKeeps, BeginConflictKeeps,
     BeginReplayKeeps, BeginPendingKeeps DEF Begin
<1>3. CASE \E r \in Request : Conclude(r)
  BY <1>3, FinishKeeps, Zenon DEF Conclude
<1>4. CASE UNCHANGED vars
  BY <1>4, SameWork, Zenon DEF vars, ExecutionInv, TypeOK, Pending
<1> QED
  BY <1>1, <1>2, <1>3, <1>4, Zenon DEF Next

\* Nothing executes at first.
LEMMA ExecutionInitially == Init => ExecutionInv
<1> SUFFICES ASSUME Init PROVE ExecutionInv
  OBVIOUS
<1>1. TypeOK
  BY TimeAssumption DEF Init, TypeOK, Handler, Time
<1>2. \A r \in Request : req[r].pc = "idle"
  BY Zenon DEF Init, Idle
<1>3. \A c \in Command : ~ Pending(c)
  BY Zenon DEF Init, Pending
<1> QED
  BY <1>1, <1>2, <1>3, Zenon DEF ExecutionInv, RunnersPending, PendingRuns, SingleFlight,
                          WaitersHaveRunner

\* The store and the handlers agree on what executes, in every state.
THEOREM ExecutionInvariant == Spec => []ExecutionInv
<1>1. Init => ExecutionInv
  BY ExecutionInitially, Zenon
<1>2. ExecutionInv /\ [Next]_vars => ExecutionInv'
  BY ExecutionStep, Zenon
<1> QED
  BY <1>1, <1>2, PTL DEF Spec

\* begin() lets one delivery of a commandId execute at a time, however many
\* deliveries interleave and whatever the prunes of other commands drop.
THEOREM OneExecution == Spec => []SingleFlight
<1>1. ExecutionInv => SingleFlight
  BY Zenon DEF ExecutionInv
<1> QED
  BY <1>1, ExecutionInvariant, PTL

\* A delivery that joined a pending command always has an execution to wait for.
THEOREM NoOrphanedWaiter == Spec => []WaitersHaveRunner
<1>1. ExecutionInv => WaitersHaveRunner
  BY Zenon DEF ExecutionInv
<1> QED
  BY <1>1, ExecutionInvariant, PTL

\* Entries, handlers and responses stay what the store, the deliveries and the
\* response frames can hold.
THEOREM CommandTypes == Spec => []TypeOK
<1>1. ExecutionInv => TypeOK
  BY Zenon DEF ExecutionInv
<1> QED
  BY <1>1, ExecutionInvariant, PTL

-----------------------------------------------------------------------------
(* Prompts *)

\* A delivery is answered early, from the store, or begins an execution.
LEMMA DeliverIsBegin ==
  ASSUME NEW r \in Request, Deliver(r)
  PROVE  Next
<1>1. PICK c \in Command, p \in Payload :
        AnswerLive(r, c, p) \/ AnswerStored(r, c, p) \/ AnswerRefused(r, c, p) \/ Admit(r, c, p)
  BY Zenon DEF Deliver
<1>2. CASE AnswerLive(r, c, p)
  <2>1. \E a \in EarlyAnswer : AnswerEarly(r, c, p, a)
    BY <1>2, OutcomeAssumption, Zenon DEF AnswerLive, EarlyAnswer
  <2> QED
    BY <2>1, Zenon DEF Begin, Next
<1>3. CASE AnswerStored(r, c, p)
  BY <1>3, Zenon DEF AnswerStored, Begin, Next
<1>4. CASE AnswerRefused(r, c, p)
  BY <1>4, OutcomeAssumption, Zenon DEF AnswerRefused, Begin, Next
<1>5. CASE Admit(r, c, p)
  BY <1>5, Zenon DEF Admit, Begin, Next
<1> QED
  BY <1>1, <1>2, <1>3, <1>4, <1>5, Zenon

\* A handler that goes on after an await either ends the execution of its
\* command or leaves store, clock and deliveries alone.
LEMMA ProceedConcludes ==
  ASSUME NEW r \in Request, Proceed(r)
  PROVE  Conclude(r) \/ UNCHANGED vars
<1> USE OutcomeAssumption DEF Conclude, FinishWork
<1>1. FailStart(r) \/ ResumeRefused(r) \/ ResumeThrows(r) => Conclude(r)
  BY Zenon DEF FailStart, ResumeRefused, ResumeThrows
<1>2. ResumeDispatch(r) \/ ResumeConsume(r) \/ ConsumedDispatch(r) => UNCHANGED vars
  BY Zenon DEF ResumeDispatch, ResumeConsume, ConsumedDispatch
<1>3. HandlerThrows(r) \/ HandlerAccepts(r) => Conclude(r)
  BY Zenon DEF HandlerThrows, HandlerAccepts
<1>4. (\E o \in {"failed", "accepted"} : HandlerReleases(r, o)) => Conclude(r)
  BY Zenon DEF HandlerReleases
<1> QED
  BY <1>1, <1>2, <1>3, <1>4, Zenon DEF Proceed

\* session.cancel, the child, the watchdog and session.close answer no delivery.
LEMMA OthersLeaveCommands ==
  ASSUME CancelBegin \/ CancelProceeds \/ StartSupervisor \/ ChildReplies
           \/ (\E n \in Run : ChildWorks(n))
           \/ Mute \/ Crash \/ Watchdog \/ Exit \/ ExitUnnoticed \/ CloseBegin \/ CloseProceeds
  PROVE  UNCHANGED vars
<1>1. CancelBegin \/ CancelProceeds => UNCHANGED vars
  BY Zenon DEF CancelBegin, CancelProceeds, CancelResume, CancelThrows, CancelReleases
<1>2. StartSupervisor \/ ChildReplies => UNCHANGED vars
  BY Zenon DEF StartSupervisor, ChildReplies, ChildAnswersPrompt, ChildAborts, ChildReportsState,
                ChildRefusesState
<1>3. (\E n \in Run : ChildWorks(n)) => UNCHANGED vars
  BY Zenon DEF ChildWorks, ChildFinishes, ChildEnds, ChildRecords
<1>4. Mute \/ Crash \/ Watchdog \/ Exit \/ ExitUnnoticed => UNCHANGED vars
  BY Zenon DEF Mute, Crash, Watchdog, Exit, ExitUnnoticed
<1>5. CloseBegin \/ CloseProceeds => UNCHANGED vars
  BY Zenon DEF CloseBegin, CloseProceeds, CloseStop, CloseDone, CloseFails
<1> QED
  BY <1>1, <1>2, <1>3, <1>4, <1>5, Zenon

\* Every step is a step of the commands, or leaves them alone.
LEMMA PromptStepIsStep == [PromptNext]_allVars => [Next]_vars
<1>1. CASE \E r \in Request : Deliver(r) \/ Proceed(r)
  BY <1>1, DeliverIsBegin, ProceedConcludes, Zenon DEF Next
<1>2. CASE CancelBegin \/ CancelProceeds \/ StartSupervisor \/ ChildReplies
             \/ (\E n \in Run : ChildWorks(n))
             \/ Mute \/ Crash \/ Watchdog \/ Exit \/ ExitUnnoticed \/ CloseBegin \/ CloseProceeds
  BY <1>2, OthersLeaveCommands, Zenon
<1>3. CASE UNCHANGED allVars
  BY <1>3, Zenon DEF allVars
<1> QED
  BY <1>1, <1>2, <1>3, Zenon DEF PromptNext

\* The message commands implement the execution of commands.
THEOREM PromptImplementsExecution == PromptSpec => Spec
<1>1. PromptInit => Init
  BY Zenon DEF PromptInit
<1>2. [PromptNext]_allVars => [Next]_vars
  BY PromptStepIsStep, Zenon
<1> QED
  BY <1>1, <1>2, PTL DEF PromptSpec, Spec

\* One delivery of a prompt, steer or follow-up executes at a time, through
\* starts, crashes, cancels and closes of the child.
THEOREM OnePromptExecution == PromptSpec => []SingleFlight
BY PromptImplementsExecution, OneExecution, PTL

-----------------------------------------------------------------------------
(* The calls on their way to the child *)

\* A child that was written nothing was given nothing, in any order.
LEMMA NoCalls ==
  /\ PromptsIn(<<>>) = {} /\ ~ HasCall(<<>>, "abort")
  /\ \A images, target : InOrder(<<>>, images, target)
<1>1. DOMAIN <<>> = {}
  OBVIOUS
<1> QED
  BY <1>1, Zenon DEF PromptsIn, HasCall, InOrder

\* Leaving out one call keeps the others in their order.
LEMMA AdvanceMap ==
  ASSUME NEW m \in Nat, NEW s \in Seq(Call(m))
  PROVE  /\ Advance(s) \in Seq(Call(m))
         /\ \E f \in [DOMAIN Advance(s) -> DOMAIN s] :
              /\ \A i \in DOMAIN Advance(s) : Advance(s)[i] = s[f[i]]
              /\ \A i, j \in DOMAIN Advance(s) : i < j => f[i] < f[j]
              /\ \A k \in DOMAIN s : s[k].type # "state" => \E i \in DOMAIN Advance(s) : f[i] = k
<1> DEFINE asked == {i \in DOMAIN s : s[i].type = "state"}
           one == CHOOSE i \in asked : TRUE
           f == [j \in DOMAIN Advance(s) |-> IF asked = {} \/ j < one THEN j ELSE j + 1]
<1>1. CASE asked = {}
  <2>1. Advance(s) = s
    BY <1>1, Zenon DEF Advance
  <2>2. /\ f \in [DOMAIN Advance(s) -> DOMAIN s]
        /\ \A i \in DOMAIN Advance(s) : f[i] = i
    BY <1>1, <2>1, Zenon
  <2> HIDE DEF f
  <2> QED
    BY <2>1, <2>2, Zenon
<1>2. CASE asked # {}
  <2>1. one \in asked
    BY <1>2, Zenon
  <2>2. Advance(s) = [j \in 1 .. Len(s) - 1 |-> s[IF j < one THEN j ELSE j + 1]]
    BY <1>2, Zenon DEF Advance, Without
  <2>3. one \in 1 .. Len(s) /\ Len(s) \in Nat /\ DOMAIN s = 1 .. Len(s) /\ s[one].type = "state"
    BY <2>1
  <2> HIDE DEF asked, one
  <2>4. Advance(s) \in Seq(Call(m))
    BY <2>2, <2>3
  <2>5. DOMAIN Advance(s) = 1 .. Len(s) - 1
    BY <2>2, <2>3, Zenon
  <2>6. f \in [DOMAIN Advance(s) -> DOMAIN s]
    BY <2>3, <2>5
  <2>7. \A i \in DOMAIN Advance(s) : Advance(s)[i] = s[f[i]]
    BY <1>2, <2>2, <2>3, <2>5, Zenon
  <2>8. \A i, j \in DOMAIN Advance(s) : i < j => f[i] < f[j]
    BY <1>2, <2>3, <2>5
  <2>9. ASSUME NEW k \in DOMAIN s, s[k].type # "state"
        PROVE  \E i \in DOMAIN Advance(s) : f[i] = k
    <3>1. k # one
      BY <2>3, <2>9, Zenon
    <3>2. CASE k < one
      BY <3>2, <1>2, <2>3, <2>5
    <3>3. CASE k > one
      <4>1. k - 1 \in DOMAIN Advance(s) /\ f[k - 1] = k
        BY <3>3, <1>2, <2>3, <2>5
      <4> QED
        BY <4>1, Zenon
    <3> QED
      BY <3>1, <3>2, <3>3, <2>3
  <2> QED
    BY <2>4, <2>6, <2>7, <2>8, <2>9, Zenon
<1> QED
  BY <1>1, <1>2, Zenon

\* Advancing the generation of the state refresh drops the get_state and nothing
\* else.
LEMMA AdvanceKeeps ==
  ASSUME NEW m \in Nat, NEW s \in Seq(Call(m)), NEW images, NEW target, InOrder(s, images, target)
  PROVE  /\ Advance(s) \in Seq(Call(m))
         /\ PromptsIn(Advance(s)) = PromptsIn(s)
         /\ InOrder(Advance(s), images, target)
         /\ HasCall(Advance(s), "abort") => HasCall(s, "abort")
         /\ ~ HasCall(Advance(s), "state")
         /\ s = <<>> => Advance(s) = <<>>
<1>1. Advance(s) \in Seq(Call(m))
  BY AdvanceMap, Zenon
<1>2. PICK f \in [DOMAIN Advance(s) -> DOMAIN s] :
        /\ \A i \in DOMAIN Advance(s) : Advance(s)[i] = s[f[i]]
        /\ \A i, j \in DOMAIN Advance(s) : i < j => f[i] < f[j]
        /\ \A k \in DOMAIN s : s[k].type # "state" => \E i \in DOMAIN Advance(s) : f[i] = k
  BY AdvanceMap, Zenon
<1>3. DOMAIN s \subseteq Nat /\ DOMAIN Advance(s) \subseteq Nat
  BY <1>1
<1>4. \A i, j \in DOMAIN Advance(s) : f[i] = f[j] => i = j
  <2> SUFFICES ASSUME NEW i \in DOMAIN Advance(s), NEW j \in DOMAIN Advance(s), f[i] = f[j], i # j
               PROVE  FALSE
    OBVIOUS
  <2>1. i < j \/ j < i
    BY <1>3
  <2>2. f[i] \in Nat /\ f[j] \in Nat
    BY <1>2, <1>3, Zenon
  <2> QED
    BY <2>1, <2>2, <1>2
<1>5. PromptsIn(Advance(s)) \subseteq PromptsIn(s)
  BY <1>2 DEF PromptsIn
<1>6. ASSUME NEW n \in PromptsIn(s) PROVE n \in PromptsIn(Advance(s))
  <2>1. PICK k \in DOMAIN s : s[k].type = "prompt" /\ s[k].run = n
    BY Zenon DEF PromptsIn
  <2>2. PICK i \in DOMAIN Advance(s) : f[i] = k
    BY <1>2, <2>1, Zenon
  <2>3. Advance(s)[i].type = "prompt" /\ Advance(s)[i].run = n
    BY <1>2, <2>1, <2>2, Zenon
  <2> QED
    BY <2>3, Zenon DEF PromptsIn
<1>7. InOrder(Advance(s), images, target)
  <2> DEFINE t == Advance(s)
  <2>1. ASSUME NEW i \in DOMAIN t, NEW j \in DOMAIN t,
               t[i].type = t[j].type, t[i].type = "prompt" => t[i].run = t[j].run
        PROVE  i = j
    <3>1. f[i] \in DOMAIN s /\ f[j] \in DOMAIN s /\ t[i] = s[f[i]] /\ t[j] = s[f[j]]
      BY <1>2, Zenon
    <3>2. f[i] = f[j]
      BY <3>1, <2>1, Zenon DEF InOrder
    <3> QED
      BY <3>2, <1>4, Zenon
  <2>2. ASSUME NEW i \in DOMAIN t, NEW j \in DOMAIN t, i < j, t[j].type = "prompt",
               t[i].type = "state" \/ (t[i].type = "abort" /\ t[j].run = target)
        PROVE  t[j].run \in images
    <3>1. f[i] \in DOMAIN s /\ f[j] \in DOMAIN s /\ t[i] = s[f[i]] /\ t[j] = s[f[j]] /\ f[i] < f[j]
      BY <1>2, <2>2, Zenon
    <3> QED
      BY <3>1, <2>2 DEF InOrder
  <2> QED
    BY <2>1, <2>2, Zenon DEF InOrder
<1>8. HasCall(Advance(s), "abort") => HasCall(s, "abort")
  BY <1>2 DEF HasCall
<1>9. ~ HasCall(Advance(s), "state")
  <2> SUFFICES ASSUME NEW i \in DOMAIN Advance(s), Advance(s)[i].type = "state"
               PROVE  FALSE
    BY Zenon DEF HasCall
  <2> DEFINE asked == {j \in DOMAIN s : s[j].type = "state"}
             one == CHOOSE j \in asked : TRUE
  <2>1. f[i] \in asked
    BY <1>2, Zenon
  <2>2. one \in asked /\ Advance(s) = [j \in 1 .. Len(s) - 1 |-> s[IF j < one THEN j ELSE j + 1]]
    BY <2>1, Zenon DEF Advance, Without
  <2> HIDE DEF asked, one
  <2>3. asked = {j \in DOMAIN s : s[j].type = "state"}
    BY Zenon DEF asked
  <2>4. one \in 1 .. Len(s) /\ i \in 1 .. Len(s) - 1 /\ Len(s) \in Nat
    BY <2>2, <2>3
  <2>5. PICK k \in DOMAIN s : k # one /\ Advance(s)[i] = s[k]
    BY <2>2, <2>4
  <2>6. k \in asked
    BY <2>3, <2>5, Zenon
  <2> QED
    BY <2>2, <2>3, <2>5, <2>6, Zenon DEF InOrder
<1>10. s = <<>> => Advance(s) = <<>>
  BY DEF Advance
<1> QED
  BY <1>1, <1>5, <1>6, <1>7, <1>8, <1>9, <1>10, Zenon

\* A call is written behind the others.
LEMMA AppendKeeps ==
  ASSUME NEW m \in Nat, NEW s \in Seq(Call(m)), NEW images, NEW target, InOrder(s, images, target),
         NEW c \in Call(m),
         c.type # "prompt" => ~ HasCall(s, c.type),
         c.type = "prompt" =>
           /\ c.run \notin PromptsIn(s)
           /\ c.run \in images \/ (~ HasCall(s, "state") /\ c.run # target)
  PROVE  /\ Append(s, c) \in Seq(Call(m))
         /\ PromptsIn(Append(s, c)) = PromptsIn(s) \cup (IF c.type = "prompt" THEN {c.run} ELSE {})
         /\ InOrder(Append(s, c), images, target)
         /\ \A type : HasCall(Append(s, c), type) <=> HasCall(s, type) \/ c.type = type
<1> DEFINE t == Append(s, c)
           e == Len(s) + 1
<1>1. /\ t \in Seq(Call(m)) /\ DOMAIN s = 1 .. Len(s) /\ Len(s) \in Nat
      /\ DOMAIN t = DOMAIN s \cup {e} /\ t[e] = c /\ e \notin DOMAIN s
      /\ \A i \in DOMAIN s : t[i] = s[i] /\ i < e /\ i \in Nat
      /\ e \in Nat
  OBVIOUS
<1> HIDE DEF t, e
<1>2. PromptsIn(t) = PromptsIn(s) \cup (IF c.type = "prompt" THEN {c.run} ELSE {})
  BY <1>1 DEF PromptsIn
<1>3. \A type : HasCall(t, type) <=> HasCall(s, type) \/ c.type = type
  BY <1>1, Zenon DEF HasCall
<1>4. InOrder(t, images, target)
  <2>1. ASSUME NEW i \in DOMAIN t, NEW j \in DOMAIN t,
               t[i].type = t[j].type, t[i].type = "prompt" => t[i].run = t[j].run
        PROVE  i = j
    <3>1. CASE i \in DOMAIN s /\ j \in DOMAIN s
      BY <3>1, <2>1, <1>1, Zenon DEF InOrder
    <3>2. CASE i = e /\ j \in DOMAIN s
      BY <3>2, <2>1, <1>1, Zenon DEF HasCall, PromptsIn
    <3>3. CASE j = e /\ i \in DOMAIN s
      BY <3>3, <2>1, <1>1, Zenon DEF HasCall, PromptsIn
    <3> QED
      BY <3>1, <3>2, <3>3, <1>1, Zenon
  <2>2. ASSUME NEW i \in DOMAIN t, NEW j \in DOMAIN t, i < j, t[j].type = "prompt",
               t[i].type = "state" \/ (t[i].type = "abort" /\ t[j].run = target)
        PROVE  t[j].run \in images
    <3>1. i \in DOMAIN s
      BY <2>2, <1>1
    <3>2. CASE j \in DOMAIN s
      BY <3>1, <3>2, <2>2, <1>1, Zenon DEF InOrder
    <3>3. CASE j = e
      BY <3>1, <3>3, <2>2, <1>1, Zenon DEF HasCall
    <3> QED
      BY <3>2, <3>3, <1>1, Zenon
  <2> QED
    BY <2>1, <2>2, Zenon DEF InOrder
<1> QED
  BY <1>1, <1>2, <1>3, <1>4, Zenon DEF t

\* The child answers the call at the head.
LEMMA TailKeeps ==
  ASSUME NEW m \in Nat, NEW s \in Seq(Call(m)), NEW images, NEW target, InOrder(s, images, target),
         s # <<>>
  PROVE  /\ Head(s) \in Call(m)
         /\ Tail(s) \in Seq(Call(m))
         /\ InOrder(Tail(s), images, target)
         /\ PromptsIn(Tail(s)) = PromptsIn(s) \ (IF Head(s).type = "prompt" THEN {Head(s).run} ELSE {})
         /\ Head(s).type = "prompt" => Head(s).run \in PromptsIn(s)
         /\ HasCall(Tail(s), "abort") => HasCall(s, "abort") /\ Head(s).type # "abort"
         /\ Head(s).type = "abort" => HasCall(s, "abort") /\ (target \in PromptsIn(Tail(s)) => target \in images)
         /\ Head(s).type = "state" => PromptsIn(Tail(s)) \subseteq images
<1> DEFINE t == Tail(s)
<1>1. /\ Head(s) = s[1] /\ s[1] \in Call(m) /\ 1 \in DOMAIN s
      /\ t \in Seq(Call(m)) /\ DOMAIN t \subseteq Nat /\ DOMAIN s \subseteq Nat
      /\ \A i \in DOMAIN t : i + 1 \in DOMAIN s /\ t[i] = s[i + 1] /\ i + 1 > 1
      /\ \A i \in DOMAIN s : i = 1 \/ (i - 1 \in DOMAIN t /\ t[i - 1] = s[i])
  OBVIOUS
<1> HIDE DEF t
<1>2. \A i \in DOMAIN s : s[i].type = s[1].type /\ (s[1].type = "prompt" => s[i].run = s[1].run) => i = 1
  BY <1>1, Zenon DEF InOrder
<1>3. InOrder(t, images, target)
  <2>1. ASSUME NEW i \in DOMAIN t, NEW j \in DOMAIN t,
               t[i].type = t[j].type, t[i].type = "prompt" => t[i].run = t[j].run
        PROVE  i = j
    <3>1. i + 1 \in DOMAIN s /\ j + 1 \in DOMAIN s /\ t[i] = s[i + 1] /\ t[j] = s[j + 1]
      BY <1>1, Zenon
    <3>2. i + 1 = j + 1
      BY <3>1, <2>1, Zenon DEF InOrder
    <3>3. i \in Nat /\ j \in Nat
      BY <1>1, Zenon
    <3> QED
      BY <3>2, <3>3
  <2>2. ASSUME NEW i \in DOMAIN t, NEW j \in DOMAIN t, i < j, t[j].type = "prompt",
               t[i].type = "state" \/ (t[i].type = "abort" /\ t[j].run = target)
        PROVE  t[j].run \in images
    <3>1. i + 1 \in DOMAIN s /\ j + 1 \in DOMAIN s /\ t[i] = s[i + 1] /\ t[j] = s[j + 1]
      BY <1>1, Zenon
    <3>2. i + 1 < j + 1
      BY <2>2, <1>1
    <3> QED
      BY <3>1, <3>2, <2>2, Zenon DEF InOrder
  <2> QED
    BY <2>1, <2>2, Zenon DEF InOrder
<1>4. ASSUME NEW n \in PromptsIn(t)
      PROVE  n \in PromptsIn(s) /\ (s[1].type = "prompt" => n # s[1].run)
  <2>1. PICK i \in DOMAIN t : t[i].type = "prompt" /\ t[i].run = n
    BY Zenon DEF PromptsIn
  <2>2. i + 1 \in DOMAIN s /\ i + 1 # 1 /\ s[i + 1].type = "prompt" /\ s[i + 1].run = n
    BY SMTT(30), <2>1, <1>1
  <2> QED
    BY <2>2, <1>2, Zenon DEF PromptsIn
<1>5. ASSUME NEW n \in PromptsIn(s), s[1].type = "prompt" => n # s[1].run
      PROVE  n \in PromptsIn(t)
  <2>1. PICK i \in DOMAIN s : s[i].type = "prompt" /\ s[i].run = n
    BY Zenon DEF PromptsIn
  <2>2. i # 1
    BY <2>1, <1>5, Zenon
  <2>3. i - 1 \in DOMAIN t /\ t[i - 1].type = "prompt" /\ t[i - 1].run = n
    BY <2>1, <2>2, <1>1, Zenon
  <2> QED
    BY <2>3, Zenon DEF PromptsIn
<1>6. PromptsIn(t) = PromptsIn(s) \ (IF s[1].type = "prompt" THEN {s[1].run} ELSE {})
  BY <1>4, <1>5, Zenon
<1>7. s[1].type = "prompt" => s[1].run \in PromptsIn(s)
  BY <1>1, Zenon DEF PromptsIn
<1>8. HasCall(t, "abort") => HasCall(s, "abort") /\ s[1].type # "abort"
  <2> SUFFICES ASSUME NEW i \in DOMAIN t, t[i].type = "abort"
               PROVE  HasCall(s, "abort") /\ s[1].type # "abort"
    BY Zenon DEF HasCall
  <2>1. i + 1 \in DOMAIN s /\ i + 1 # 1 /\ s[i + 1].type = "abort"
    BY SMTT(30), <1>1
  <2> QED
    BY <2>1, <1>2, Zenon DEF HasCall
<1>9. s[1].type = "abort" => HasCall(s, "abort")
  BY <1>1, Zenon DEF HasCall
<1>10. ASSUME NEW n \in PromptsIn(t), s[1].type = "state" \/ (s[1].type = "abort" /\ n = target)
       PROVE  n \in images
  <2>1. PICK i \in DOMAIN t : t[i].type = "prompt" /\ t[i].run = n
    BY Zenon DEF PromptsIn
  <2>2. i + 1 \in DOMAIN s /\ 1 < i + 1 /\ s[i + 1].type = "prompt" /\ s[i + 1].run = n
    BY <2>1, <1>1, Zenon
  <2> QED
    BY <2>2, <1>1, <1>10, Zenon DEF InOrder
<1> QED
  BY <1>1, <1>3, <1>6, <1>7, <1>8, <1>9, <1>10, Zenon DEF t

\* scheduleStateRefresh writes a get_state, after the others and only to a child
\* that can be called.
LEMMA RefreshKeeps ==
  ASSUME NEW m \in Nat, NEW s \in Seq(Call(m)), NEW images, NEW target, InOrder(s, images, target),
         NEW t \in {s, Advance(s), Refresh(s), Terminal(s)}
  PROVE  /\ t \in Seq(Call(m))
         /\ PromptsIn(t) = PromptsIn(s)
         /\ InOrder(t, images, target)
         /\ HasCall(t, "abort") => HasCall(s, "abort")
         /\ ~ Usable /\ s = <<>> => t = <<>>
<1> DEFINE a == Advance(s)
           c == [type |-> "state", run |-> 0]
<1>1. /\ a \in Seq(Call(m))
      /\ PromptsIn(a) = PromptsIn(s)
      /\ InOrder(a, images, target)
      /\ HasCall(a, "abort") => HasCall(s, "abort")
      /\ ~ HasCall(a, "state")
      /\ s = <<>> => a = <<>>
  BY AdvanceKeeps, Zenon
<1>2. c \in Call(m) /\ c.type = "state"
  BY DEF Call
<1>3. Refresh(s) = IF Usable THEN Append(a, c) ELSE a
  BY Zenon DEF Refresh
<1>4. t \in {s, a, Append(a, c)} /\ (~ Usable => t \in {s, a})
  BY <1>3, Zenon DEF Terminal
<1> HIDE DEF a, c
<1>5. /\ Append(a, c) \in Seq(Call(m))
      /\ PromptsIn(Append(a, c)) = PromptsIn(a)
      /\ InOrder(Append(a, c), images, target)
      /\ HasCall(Append(a, c), "abort") => HasCall(a, "abort")
  <2>1. /\ Append(a, c) \in Seq(Call(m))
        /\ PromptsIn(Append(a, c)) = PromptsIn(a) \cup (IF c.type = "prompt" THEN {c.run} ELSE {})
        /\ InOrder(Append(a, c), images, target)
        /\ \A type : HasCall(Append(a, c), type) <=> HasCall(a, type) \/ c.type = type
    BY <1>1, <1>2, AppendKeeps, ZenonT(30)
  <2> QED
    BY <2>1, <1>2, Zenon
<1> QED
  BY <1>1, <1>4, <1>5, Zenon

-----------------------------------------------------------------------------
(* What a step that answers no delivery leaves as it was *)

\* Lifecycles are counted.
LEMMA StartedNat ==
  ASSUME PromptTypeOK
  PROVE  started \in Nat
BY PendingAssumption DEF PromptTypeOK

\* The handlers keep their lifecycles when lifecycles are at most released and
\* handlers at most go on to their call or have it settled.
LEMMA QuietKeeps ==
  ASSUME PromptInv, UNCHANGED <<req, started, run, accepted>>,
         messages' \subseteq messages, active' = 0 \/ (active' = active /\ active \in messages'),
         \A r \in Request :
           /\ work'[r].run = work[r].run
           /\ \/ work'[r] = work[r]
              \/ /\ work[r].stage \in {"consuming", "calling"}
                 /\ work'[r].stage \in {"calling", "acked", "refused", "doomed"}
  PROVE  /\ Owners' /\ Lifecycles' /\ NoSecondExecution'
         /\ sup' = sup => ReleasedWithChild'
<1> USE DEF PromptInv
<1>1. Owners'
  <2>1. ASSUME NEW r \in Request, req[r].pc # "running" PROVE work'[r] = NoWork
    <3>1. work[r] = NoWork /\ NoWork.stage = "none"
      BY <2>1, Zenon DEF Owners, NoWork
    <3> QED
      BY <3>1, Zenon
  <2>2. \A r \in Request : work'[r].stage \in {"none", "starting"} <=> work'[r].run = 0
    BY Zenon DEF Owners
  <2> QED
    BY <2>1, <2>2 DEF Owners
<1>2. Lifecycles'
  BY DEF Lifecycles, IsRoot
<1>3. NoSecondExecution'
  BY Zenon DEF NoSecondExecution
<1>4. ASSUME sup' = sup PROVE ReleasedWithChild'
  <2> SUFFICES ASSUME ~ ExitFirst, sup \in {"down", "broken"}, NEW n \in messages'
               PROVE  \E r \in Request : work'[r] = [stage |-> "doomed", run |-> n]
    BY <1>4, Zenon DEF ReleasedWithChild
  <2>1. PICK r \in Request : work[r] = [stage |-> "doomed", run |-> n]
    BY Zenon DEF ReleasedWithChild
  <2> QED
    BY <2>1
<1> QED
  BY <1>1, <1>2, <1>3, <1>4, Zenon

\* The order of the calls speaks of the captured root only while an abort is on
\* its way.
LEMMA Retarget ==
  ASSUME NEW s, NEW images, NEW more, images \subseteq more, NEW target, NEW other,
         InOrder(s, images, target), target = other \/ ~ HasCall(s, "abort")
  PROVE  InOrder(s, more, other)
BY Zenon DEF InOrder, HasCall

\* Refreshing the state, or no longer counting an answer, leaves what the child
\* holds as it was.
LEMMA CallsKept ==
  ASSUME PromptInv, UNCHANGED <<started, run, sup, working>>,
         cancel' = cancel \/ (cancel' = NoCancel /\ cancel.stage # "calling"),
         stdin' \in {stdin, Advance(stdin), Refresh(stdin), Terminal(stdin)},
         \A r \in Request : work'[r] = work[r] \/ work'[r].stage \in {"none", "starting"}
  PROVE  /\ stdin' \in Seq(Call(started))
         /\ InChild' = InChild /\ Written' = Written
         /\ Dispatched' /\ CallOrder' /\ Cancelled'
<1> USE DEF PromptInv
<1>1. started \in Nat /\ stdin \in Seq(Call(started))
  BY DEF PromptTypeOK
<1>2. InOrder(stdin, Images, cancel.target)
  BY Zenon DEF CallOrder
<1>3. /\ stdin' \in Seq(Call(started))
      /\ PromptsIn(stdin') = PromptsIn(stdin)
      /\ InOrder(stdin', Images, cancel.target)
      /\ HasCall(stdin', "abort") => HasCall(stdin, "abort")
      /\ ~ Usable /\ stdin = <<>> => stdin' = <<>>
  BY <1>1, <1>2, RefreshKeeps
<1>4. Written' = Written /\ InChild' = InChild
  BY <1>3, Zenon DEF Written, InChild
<1>5. Images' = Images /\ Usable' = Usable
  BY Zenon DEF Images, Usable
<1>6. Dispatched'
  <2>1. \A r \in Request : work'[r].stage \in {"consuming", "calling", "refused", "doomed"} => work'[r] = work[r]
    OBVIOUS
  <2> QED
    BY <2>1, <1>3, <1>4, <1>5, Zenon DEF Dispatched
<1>7. CallOrder' /\ Cancelled'
  <2>1. CASE cancel' = cancel
    BY <2>1, <1>3, <1>4, <1>5, Zenon DEF CallOrder, Cancelled, IsRoot
  <2>2. CASE cancel' = NoCancel /\ cancel.stage # "calling"
    <3>1. ~ HasCall(stdin', "abort")
      BY <2>2, <1>3, Zenon DEF Cancelled
    <3>2. InOrder(stdin', Images, NoCancel.target)
      BY <3>1, <1>3, Retarget, Zenon
    <3> QED
      BY <3>1, <3>2, <2>2, <1>5, Zenon DEF CallOrder, Cancelled, NoCancel
  <2> QED
    BY <2>1, <2>2, Zenon
<1> QED
  BY <1>3, <1>4, <1>6, <1>7, Zenon

\* The session stays busy with the root prompt of the child.
LEMMA RootKept ==
  ASSUME PromptInv, UNCHANGED run, InChild' \subseteq InChild,
         active' = active \/ active \notin InChild' \/ active \in Images
  PROVE  RootIsActive'
BY Zenon DEF PromptInv, RootIsActive, IsRoot, Images

\* What the child holds does not depend on the deliveries.
LEMMA PromptVarsKept ==
  ASSUME PromptInv, UNCHANGED promptVars
  PROVE  Dispatched' /\ CallOrder' /\ Cancelled' /\ RootIsActive'
<1>1. UNCHANGED <<started, run, sup, working, cancel, stdin, work, active>>
  BY Zenon DEF promptVars, lifeVars, childVars
<1>2. \A r \in Request : work'[r] = work[r]
  BY <1>1, Zenon
<1>3. stdin' \in {stdin, Advance(stdin), Refresh(stdin), Terminal(stdin)}
  BY <1>1, Zenon
<1>4. InChild' = InChild /\ Dispatched' /\ CallOrder' /\ Cancelled'
  BY <1>1, <1>2, <1>3, CallsKept, Zenon
<1> QED
  BY <1>1, <1>4, RootKept, Zenon

-----------------------------------------------------------------------------
(* session.cancel *)

\* Capturing the root to cancel.
LEMMA CancelBeginKeeps ==
  ASSUME PromptInv, ExecutionInv', CancelBegin
  PROVE  PromptInv'
<1> USE DEF PromptInv
<1>1. /\ cancel.stage = "idle" /\ cancel' = [stage |-> "starting", target |-> active]
      /\ UNCHANGED <<req, started, run, messages, active, accepted, tagged, work, sup, stdin,
                     working, seen, mutating, closed>>
  BY Zenon DEF CancelBegin, vars, lifeVars, childVars, closeVars
<1>2. PromptTypeOK'
  BY <1>1 DEF PromptTypeOK, ExecutionInv
<1>3. Owners' /\ Lifecycles' /\ NoSecondExecution' /\ ReleasedWithChild'
  BY <1>1, QuietKeeps, Zenon DEF PromptTypeOK
<1>4. Images' = Images /\ Usable' = Usable /\ InChild' = InChild /\ Written' = Written
  BY <1>1, Zenon DEF Images, Usable, InChild, Written
<1>5. Dispatched'
  BY <1>1, <1>4, Zenon DEF Dispatched
<1>6. ~ HasCall(stdin, "abort")
  BY <1>1, Zenon DEF Cancelled
<1>7. CallOrder'
  BY <1>1, <1>4, <1>6, Retarget, Zenon DEF CallOrder
<1>8. Cancelled'
  BY <1>1, <1>6, Zenon DEF Cancelled, Lifecycles, IsRoot
<1>9. RootIsActive'
  BY <1>1, <1>4, RootKept, Zenon
<1> QED
  BY <1>2, <1>3, <1>5, <1>7, <1>8, <1>9, Zenon

\* Writing the abort, or finding that the captured root is gone.
LEMMA CancelResumeKeeps ==
  ASSUME PromptInv, ExecutionInv', CancelResume
  PROVE  PromptInv'
<1> USE DEF PromptInv
<1>1. /\ cancel.stage = "starting" /\ Usable
      /\ UNCHANGED <<req, started, run, messages, active, accepted, tagged, work, sup,
                     working, seen, mutating, closed>>
  BY Zenon DEF CancelResume, vars, lifeVars, closeVars
<1>2. Owners' /\ Lifecycles' /\ NoSecondExecution' /\ ReleasedWithChild'
  BY <1>1, QuietKeeps, Zenon DEF PromptTypeOK
<1>3. CASE active = cancel.target
  <2> DEFINE c == [type |-> "abort", run |-> 0]
  <2>1. cancel' = [cancel EXCEPT !.stage = "calling"] /\ stdin' = Append(stdin, c)
    BY <1>3, Zenon DEF CancelResume
  <2>2. started \in Nat /\ stdin \in Seq(Call(started)) /\ c \in Call(started) /\ c.type = "abort"
    BY DEF PromptTypeOK, Call
  <2> HIDE DEF c
  <2>3. ~ HasCall(stdin, "abort")
    BY <1>1, Zenon DEF Cancelled
  <2>4. /\ stdin' \in Seq(Call(started))
        /\ PromptsIn(stdin') = PromptsIn(stdin) \cup (IF c.type = "prompt" THEN {c.run} ELSE {})
        /\ InOrder(stdin', Images, cancel.target)
    <3>1. InOrder(stdin, Images, cancel.target) /\ c.type # "prompt" /\ ~ HasCall(stdin, c.type)
      BY <2>2, <2>3, Zenon DEF CallOrder
    <3>2. /\ Append(stdin, c) \in Seq(Call(started))
          /\ PromptsIn(Append(stdin, c)) = PromptsIn(stdin) \cup (IF c.type = "prompt" THEN {c.run} ELSE {})
          /\ InOrder(Append(stdin, c), Images, cancel.target)
      BY <3>1, <2>2, AppendKeeps, Zenon
    <3> QED
      BY <3>2, <2>1, Zenon
  <2>5. cancel' \in [stage : {"idle", "starting", "calling", "acked"}, target : 0 .. started]
        /\ cancel'.target = cancel.target /\ cancel'.stage = "calling"
    BY <2>1, Zenon DEF PromptTypeOK
  <2>6. PromptTypeOK'
    BY <1>1, <2>4, <2>5, Zenon DEF PromptTypeOK, ExecutionInv
  <2>7. Images' = Images /\ Usable' = Usable /\ InChild' = InChild /\ Written' = Written
    BY <1>1, <2>2, <2>4, Zenon DEF Images, Usable, InChild, Written
  <2>8. Dispatched'
    BY <1>1, <2>7, Zenon DEF Dispatched
  <2>9. CallOrder' /\ Cancelled'
    BY <1>1, <2>4, <2>5, <2>7, Zenon DEF CallOrder, Cancelled, IsRoot
  <2>10. RootIsActive'
    BY <1>1, <2>7, RootKept, Zenon
  <2> QED
    BY <1>2, <2>6, <2>8, <2>9, <2>10, Zenon
<1>4. CASE active # cancel.target
  <2>1. cancel' = NoCancel /\ stdin' = stdin
    BY <1>4, Zenon DEF CancelResume
  <2>2. /\ stdin' \in Seq(Call(started)) /\ InChild' = InChild
        /\ Dispatched' /\ CallOrder' /\ Cancelled'
    BY <1>1, <2>1, CallsKept, Zenon
  <2>3. PromptTypeOK'
    BY <1>1, <2>1, <2>2 DEF PromptTypeOK, ExecutionInv, NoCancel
  <2>4. RootIsActive'
    BY <1>1, <2>2, RootKept, Zenon
  <2> QED
    BY <1>2, <2>2, <2>3, <2>4, Zenon
<1> QED
  BY <1>3, <1>4, Zenon

\* ensureSupervisor() fails: with no child there is nothing the release could
\* take from one.
LEMMA NoChildKeeps ==
  ASSUME PromptInv, NoChild \/ UNCHANGED <<messages, active>>
  PROVE  /\ messages' \subseteq messages
         /\ active' = 0 \/ (active' = active /\ active \in messages')
         /\ active' = active \/ InChild = {}
<1>1. CASE UNCHANGED <<messages, active>>
  BY <1>1, Zenon DEF PromptInv, PromptTypeOK
<1>2. CASE NoChild /\ ReleaseAll
  <2>1. stdin = <<>> /\ working = {}
    BY <1>2, Zenon DEF NoChild, Usable, PromptInv, Dispatched
  <2>2. InChild = {}
    BY <2>1 DEF InChild, Written, PromptsIn
  <2> QED
    BY <1>2, <2>2, Zenon DEF ReleaseAll
<1> QED
  BY <1>1, <1>2, Zenon DEF NoChild

\* session.cancel throws before its abort is written: only the command ends.
LEMMA CancelThrowsKeeps ==
  ASSUME PromptInv, ExecutionInv', CancelThrows
  PROVE  PromptInv'
<1> USE DEF PromptInv
<1>1. /\ cancel.stage = "starting" /\ cancel' = NoCancel
      /\ UNCHANGED <<req, started, run, accepted, tagged, work, sup, stdin,
                     working, seen, mutating, closed>>
  BY Zenon DEF CancelThrows, vars, childVars, closeVars
<1>2. /\ messages' \subseteq messages
      /\ active' = 0 \/ (active' = active /\ active \in messages')
      /\ active' = active \/ InChild = {}
  BY NoChildKeeps, Zenon DEF CancelThrows
<1>3. Owners' /\ Lifecycles' /\ NoSecondExecution' /\ ReleasedWithChild'
  BY <1>1, <1>2, QuietKeeps, Zenon
<1>4. /\ stdin' \in Seq(Call(started)) /\ InChild' = InChild
      /\ Dispatched' /\ CallOrder' /\ Cancelled'
  BY <1>1, CallsKept, Zenon
<1>5. PromptTypeOK'
  BY <1>1, <1>2, <1>4 DEF PromptTypeOK, ExecutionInv, NoCancel
<1>6. RootIsActive'
  BY <1>1, <1>2, <1>4, RootKept, Zenon
<1> QED
  BY <1>3, <1>4, <1>5, <1>6, Zenon

\* The abort has ended the captured root: no later root is released.
LEMMA CancelReleasesKeeps ==
  ASSUME PromptInv, ExecutionInv', CancelReleases
  PROVE  PromptInv'
<1> USE DEF PromptInv
<1>1. /\ cancel.stage = "acked" /\ cancel' = NoCancel
      /\ messages' = messages \ {cancel.target}
      /\ active' = IF active = cancel.target THEN 0 ELSE active
      /\ UNCHANGED <<req, started, run, accepted, tagged, work, sup, working, seen, mutating, closed>>
  BY Zenon DEF CancelReleases, Remove, vars, closeVars
<1>2. stdin' \in {stdin, Advance(stdin), Refresh(stdin), Terminal(stdin)}
  BY Zenon DEF CancelReleases
<1>3. active' = 0 \/ (active' = active /\ active \in messages')
  BY <1>1, Zenon DEF PromptTypeOK
<1>4. Owners' /\ Lifecycles' /\ NoSecondExecution' /\ ReleasedWithChild'
  BY <1>1, <1>3, QuietKeeps, Zenon
<1>5. /\ stdin' \in Seq(Call(started)) /\ InChild' = InChild
      /\ Dispatched' /\ CallOrder' /\ Cancelled'
  BY <1>1, <1>2, CallsKept, Zenon
<1>6. PromptTypeOK'
  <2>1. messages' \subseteq messages /\ active' \in messages' \cup {0}
    BY <1>1, <1>3, Zenon
  <2>2. cancel' \in [stage : {"idle", "starting", "calling", "acked"}, target : 0 .. started]
    BY <1>1 DEF PromptTypeOK, NoCancel
  <2>3. UNCHANGED <<started, run, accepted, tagged, work, sup, working, seen, mutating, closed>>
    BY <1>1, Zenon
  <2> QED
    BY <1>5, <2>1, <2>2, <2>3, Zenon DEF PromptTypeOK, ExecutionInv
<1>7. active' = active \/ active \notin InChild \/ active \in Images
  BY <1>1, Zenon DEF Cancelled
<1>8. RootIsActive'
  BY <1>1, <1>5, <1>7, RootKept, Zenon
<1> QED
  BY <1>4, <1>5, <1>6, <1>8, Zenon

-----------------------------------------------------------------------------
(* The child *)

\* A child comes up, or stops answering: it holds no call yet, or the same calls.
LEMMA StartSupervisorKeeps ==
  ASSUME PromptInv, ExecutionInv', StartSupervisor \/ Mute
  PROVE  PromptInv'
<1> USE DEF PromptInv
<1>1. /\ sup' \in {"up", "mute"}
      /\ UNCHANGED <<req, started, run, messages, active, accepted, tagged, work, cancel, stdin,
                     working, seen, mutating, closed>>
  BY Zenon DEF StartSupervisor, Mute, vars, lifeVars, closeVars
<1>2. Owners' /\ Lifecycles' /\ NoSecondExecution'
  BY <1>1, QuietKeeps, Zenon DEF PromptTypeOK
<1>3. PromptTypeOK'
  BY <1>1, Zenon DEF PromptTypeOK, ExecutionInv
<1>4. Images' = Images /\ Usable' /\ InChild' = InChild /\ Written' = Written
  BY <1>1, Zenon DEF Images, Usable, InChild, Written
<1>5. Dispatched'
  BY <1>1, <1>4, Zenon DEF Dispatched
<1>6. CallOrder' /\ Cancelled'
  BY <1>1, <1>4, Zenon DEF CallOrder, Cancelled, IsRoot
<1>7. RootIsActive'
  BY <1>1, <1>4, RootKept, Zenon
<1>8. ReleasedWithChild'
  BY <1>1, Zenon DEF ReleasedWithChild
<1> QED
  BY <1>2, <1>3, <1>5, <1>6, <1>7, <1>8, Zenon

\* The child answers a prompt: it holds it no longer, or works on it.
LEMMA ChildAnswersPromptKeeps ==
  ASSUME PromptInv, ExecutionInv', NEW ok \in BOOLEAN, ChildAnswersPrompt(ok)
  PROVE  PromptInv'
<1> USE DEF PromptInv
<1> DEFINE n == Head(stdin).run
           answered == IF ok THEN "acked" ELSE "refused"
<1>1. /\ sup = "up" /\ stdin # <<>> /\ Head(stdin).type = "prompt" /\ stdin' = Tail(stdin)
      /\ work' = [r \in Request |-> IF work[r] = [stage |-> "calling", run |-> n]
                                   THEN [work[r] EXCEPT !.stage = answered] ELSE work[r]]
      /\ working' = IF ok THEN working \cup {n} ELSE working
      /\ UNCHANGED <<req, started, run, messages, active, accepted, tagged, cancel, sup, seen,
                     mutating, closed>>
  BY Zenon DEF ChildAnswersPrompt, NextCall, vars, lifeVars, closeVars
<1>2. /\ Head(stdin) \in Call(started)
      /\ stdin' \in Seq(Call(started))
      /\ InOrder(stdin', Images, cancel.target)
      /\ PromptsIn(stdin') = PromptsIn(stdin) \ {n}
      /\ n \in PromptsIn(stdin)
      /\ HasCall(stdin', "abort") => HasCall(stdin, "abort")
  BY <1>1, TailKeeps DEF CallOrder, PromptTypeOK
<1>3. n \in 1 .. started /\ n \in Written /\ n \notin working
  BY <1>2 DEF Call, Dispatched, Written, PromptTypeOK
<1> HIDE DEF n
<1>4. Written' = Written \ {n} /\ InChild' \subseteq InChild /\ (~ ok => n \notin InChild')
  BY <1>1, <1>2, <1>3, Zenon DEF Written, InChild
<1>5. \A r \in Request :
        work'[r] = IF work[r] = [stage |-> "calling", run |-> n]
                   THEN [stage |-> answered, run |-> n] ELSE work[r]
  <2>1. \A r \in Request : work[r] \in [stage : Stage, run : 0 .. started]
    BY Zenon DEF PromptTypeOK
  <2> QED
    BY <1>1, <2>1
<1>6. work' \in [Request -> [stage : Stage, run : 0 .. started]]
  <2>1. \A r \in Request : work'[r] \in [stage : Stage, run : 0 .. started]
    <3>1. answered \in Stage /\ n \in 0 .. started
      BY <1>3 DEF Stage, PromptTypeOK
    <3> QED
      BY <3>1, <1>5 DEF PromptTypeOK
  <2> QED
    BY <1>1, <2>1, Zenon
<1>7. Owners' /\ Lifecycles' /\ NoSecondExecution' /\ ReleasedWithChild'
  <2>1. \A r \in Request :
           /\ work'[r].run = work[r].run
           /\ \/ work'[r] = work[r]
              \/ /\ work[r].stage \in {"consuming", "calling"}
                 /\ work'[r].stage \in {"acked", "refused", "doomed"}
    BY <1>5
  <2>2. active' = 0 \/ (active' = active /\ active \in messages')
    BY <1>1, Zenon DEF PromptTypeOK
  <2> QED
    BY <1>1, <2>1, <2>2, QuietKeeps, Zenon
<1>8. PromptTypeOK'
  <2>1. working' \subseteq 1 .. started
    BY <1>1, <1>3, Zenon DEF PromptTypeOK
  <2>2. UNCHANGED <<started, run, messages, active, accepted, tagged, cancel, sup, seen, mutating, closed>>
    BY <1>1, Zenon
  <2> QED
    BY <1>2, <1>6, <2>1, <2>2, Zenon DEF PromptTypeOK, ExecutionInv
<1>9. Images' = Images /\ Usable /\ Usable'
  BY <1>1, Zenon DEF Images, Usable
<1>10. Dispatched'
  <2>1. 0 \notin Written' /\ Written' \cap working' = {}
    BY <1>1, <1>4, Zenon DEF Dispatched
  <2>2. ASSUME NEW r \in Request, work'[r].stage \in {"consuming", "refused", "doomed"}
        PROVE  work'[r].run \notin InChild'
    BY <2>2, <1>4, <1>5 DEF Dispatched
  <2>3. \A r \in Request : work'[r].stage = "consuming" => work'[r].run \in Images
    BY <1>5 DEF Dispatched
  <2> QED
    BY <1>9, <2>1, <2>2, <2>3, Zenon DEF Dispatched
<1>11. CallOrder' /\ Cancelled'
  BY <1>1, <1>2, <1>4, <1>9, Zenon DEF CallOrder, Cancelled, IsRoot
<1>12. RootIsActive'
  BY <1>1, <1>4, RootKept, Zenon
<1> QED
  BY <1>7, <1>8, <1>10, <1>11, <1>12, Zenon

\* An abort that succeeds ends the captured root, which was written before it.
LEMMA ChildAbortsKeeps ==
  ASSUME PromptInv, ExecutionInv', NEW ok \in BOOLEAN, ChildAborts(ok)
  PROVE  PromptInv'
<1> USE DEF PromptInv
<1>1. /\ sup = "up" /\ stdin # <<>> /\ Head(stdin).type = "abort" /\ stdin' = Tail(stdin)
      /\ working' = IF ok THEN {n \in working : ~ IsRoot(n)} ELSE working
      /\ UNCHANGED <<req, started, run, messages, active, accepted, tagged, work, sup, seen,
                     mutating, closed>>
  BY Zenon DEF ChildAborts, NextCall, vars, lifeVars, closeVars
<1>2. /\ stdin' \in Seq(Call(started))
      /\ InOrder(stdin', Images, cancel.target)
      /\ PromptsIn(stdin') = PromptsIn(stdin)
      /\ ~ HasCall(stdin', "abort") /\ HasCall(stdin, "abort")
      /\ cancel.target \in PromptsIn(stdin') => cancel.target \in Images
  <2>1. started \in Nat /\ stdin \in Seq(Call(started)) /\ InOrder(stdin, Images, cancel.target)
    BY DEF CallOrder, PromptTypeOK
  <2>2. /\ Tail(stdin) \in Seq(Call(started))
        /\ InOrder(Tail(stdin), Images, cancel.target)
        /\ PromptsIn(Tail(stdin)) = PromptsIn(stdin) \ {}
        /\ HasCall(Tail(stdin), "abort") => Head(stdin).type # "abort"
        /\ HasCall(stdin, "abort")
        /\ cancel.target \in PromptsIn(Tail(stdin)) => cancel.target \in Images
    BY <1>1, <2>1, TailKeeps, Zenon
  <2> QED
    BY <1>1, <2>2, Zenon
<1>3. cancel.stage = "calling"
  BY <1>2, Zenon DEF Cancelled
<1>4. cancel' = IF ok THEN [cancel EXCEPT !.stage = "acked"] ELSE NoCancel
  BY <1>3, Zenon DEF ChildAborts
<1>5. Written' = Written /\ working' \subseteq working /\ InChild' \subseteq InChild
  BY <1>1, <1>2, Zenon DEF Written, InChild
<1>6. /\ cancel' \in [stage : {"idle", "starting", "calling", "acked"}, target : 0 .. started]
      /\ cancel'.target \in {0, cancel.target}
      /\ cancel'.stage = "acked" => ok /\ cancel'.target = cancel.target
  BY <1>4 DEF PromptTypeOK, NoCancel
<1>7. Owners' /\ Lifecycles' /\ NoSecondExecution' /\ ReleasedWithChild'
  BY <1>1, QuietKeeps, Zenon DEF PromptTypeOK
<1>8. PromptTypeOK'
  <2>1. UNCHANGED <<started, run, messages, active, accepted, tagged, work, sup, seen, mutating, closed>>
    BY <1>1, Zenon
  <2> QED
    BY <1>2, <1>5, <1>6, <2>1, Zenon DEF PromptTypeOK, ExecutionInv
<1>9. Images' = Images /\ Usable /\ Usable'
  BY <1>1, Zenon DEF Images, Usable
<1>10. Dispatched'
  BY <1>1, <1>5, <1>9, Zenon DEF Dispatched
<1>11. CallOrder'
  BY <1>2, <1>9, Retarget, Zenon DEF CallOrder
<1>12. Cancelled'
  <2>1. cancel'.target # 0 => IsRoot(cancel.target)'
    BY <1>1, <1>6, Zenon DEF Cancelled, IsRoot
  <2>2. ASSUME ok, cancel.target \in InChild' PROVE cancel.target \in Images
    <3>1. cancel.target # 0
      BY <2>2, <1>5 DEF InChild, Dispatched, PromptTypeOK
    <3>2. cancel.target \notin working'
      BY <3>1, <2>2, <1>1, Zenon DEF Cancelled
    <3> QED
      BY <3>2, <2>2, <1>2, Zenon DEF InChild, Written
  <2> QED
    BY <1>2, <1>6, <1>9, <2>1, <2>2, Zenon DEF Cancelled
<1>13. RootIsActive'
  BY <1>1, <1>5, RootKept, Zenon
<1> QED
  BY <1>7, <1>8, <1>10, <1>11, <1>12, <1>13, Zenon

\* The answer to a get_state: nothing was written behind it but prompts with
\* images, so a child without work has no root to lose.
LEMMA ChildReportsStateKeeps ==
  ASSUME PromptInv, ExecutionInv', NEW k, ChildReportsState(k)
  PROVE  PromptInv'
<1> USE DEF PromptInv
<1> DEFINE stale == IF working = {} THEN {n \in messages : n <= k} ELSE {}
<1>1. /\ sup = "up" /\ stdin # <<>> /\ Head(stdin).type = "state"
      /\ stdin' \in {Tail(stdin), Terminal(Tail(stdin))}
      /\ messages' = messages \ stale
      /\ active' = IF active \in stale THEN 0 ELSE active
      /\ seen' = (working # {})
      /\ UNCHANGED <<req, started, run, accepted, tagged, work, cancel, sup, working, mutating, closed>>
  BY Zenon DEF ChildReportsState, NextCall, Remove, vars, closeVars
<1>2. stale # {} => working = {}
  OBVIOUS
<1> HIDE DEF stale
<1>3. started \in Nat /\ stdin \in Seq(Call(started)) /\ InOrder(stdin, Images, cancel.target)
  BY DEF CallOrder, PromptTypeOK
<1>4. /\ Tail(stdin) \in Seq(Call(started))
      /\ InOrder(Tail(stdin), Images, cancel.target)
      /\ PromptsIn(Tail(stdin)) = PromptsIn(stdin) \ {}
      /\ HasCall(Tail(stdin), "abort") => HasCall(stdin, "abort")
      /\ PromptsIn(Tail(stdin)) \subseteq Images
  BY <1>1, <1>3, TailKeeps, Zenon
<1>5. /\ stdin' \in Seq(Call(started))
      /\ InOrder(stdin', Images, cancel.target)
      /\ PromptsIn(stdin') = PromptsIn(Tail(stdin))
      /\ HasCall(stdin', "abort") => HasCall(Tail(stdin), "abort")
  <2> DEFINE t == Tail(stdin)
  <2>1. t \in Seq(Call(started)) /\ InOrder(t, Images, cancel.target)
    BY <1>4, Zenon
  <2>2. stdin' \in {t, Advance(t), Refresh(t), Terminal(t)}
    BY <1>1, Zenon
  <2> HIDE DEF t
  <2>3. /\ stdin' \in Seq(Call(started))
        /\ InOrder(stdin', Images, cancel.target)
        /\ PromptsIn(stdin') = PromptsIn(t)
        /\ HasCall(stdin', "abort") => HasCall(t, "abort")
    BY <1>3, <2>1, <2>2, RefreshKeeps
  <2> QED
    BY <2>3, Zenon DEF t
<1>6. Written' = Written /\ InChild' = InChild /\ Written \subseteq Images
  BY <1>1, <1>4, <1>5, Zenon DEF Written, InChild
<1>7. active' = 0 \/ (active' = active /\ active \in messages')
  BY <1>1, Zenon DEF PromptTypeOK
<1>8. Owners' /\ Lifecycles' /\ NoSecondExecution' /\ ReleasedWithChild'
  BY <1>1, <1>7, QuietKeeps, Zenon
<1>9. PromptTypeOK'
  <2>1. messages' \subseteq messages /\ active' \in messages' \cup {0} /\ seen' \in BOOLEAN
    BY <1>1, <1>7, Zenon
  <2>2. UNCHANGED <<started, run, accepted, tagged, work, cancel, sup, working, mutating, closed>>
    BY <1>1, Zenon
  <2> QED
    BY <1>5, <2>1, <2>2, Zenon DEF PromptTypeOK, ExecutionInv
<1>10. Images' = Images /\ Usable /\ Usable'
  BY <1>1, Zenon DEF Images, Usable
<1>11. Dispatched'
  BY <1>1, <1>6, <1>10, Zenon DEF Dispatched
<1>12. CallOrder' /\ Cancelled'
  BY <1>1, <1>4, <1>5, <1>6, <1>10, Zenon DEF CallOrder, Cancelled, IsRoot
<1>13. active' = active \/ active \notin InChild' \/ active \in Images
  BY <1>1, <1>2, <1>6, Zenon DEF InChild
<1>14. RootIsActive'
  BY <1>1, <1>6, <1>13, RootKept, Zenon
<1> QED
  BY <1>8, <1>9, <1>11, <1>12, <1>14, Zenon

\* A get_state that fails is taken from the stdin and reports nothing.
LEMMA ChildRefusesStateKeeps ==
  ASSUME PromptInv, ExecutionInv', ChildRefusesState
  PROVE  PromptInv'
<1> USE DEF PromptInv
<1>1. /\ sup = "up" /\ stdin # <<>> /\ Head(stdin).type = "state" /\ stdin' = Tail(stdin)
      /\ UNCHANGED <<req, started, run, messages, active, accepted, tagged, work, cancel, sup,
                     working, seen, mutating, closed>>
  BY Zenon DEF ChildRefusesState, NextCall, vars, lifeVars, closeVars
<1>2. started \in Nat /\ stdin \in Seq(Call(started)) /\ InOrder(stdin, Images, cancel.target)
  BY DEF CallOrder, PromptTypeOK
<1>3. /\ stdin' \in Seq(Call(started))
      /\ InOrder(stdin', Images, cancel.target)
      /\ PromptsIn(stdin') = PromptsIn(stdin) \ {}
      /\ HasCall(stdin', "abort") => HasCall(stdin, "abort")
  BY <1>1, <1>2, TailKeeps, Zenon
<1>4. Written' = Written /\ InChild' = InChild
  BY <1>1, <1>3, Zenon DEF Written, InChild
<1>5. Owners' /\ Lifecycles' /\ NoSecondExecution' /\ ReleasedWithChild'
  BY <1>1, QuietKeeps, Zenon DEF PromptTypeOK
<1>6. PromptTypeOK'
  BY <1>1, <1>3, Zenon DEF PromptTypeOK, ExecutionInv
<1>7. Images' = Images /\ Usable /\ Usable'
  BY <1>1, Zenon DEF Images, Usable
<1>8. Dispatched'
  BY <1>1, <1>4, <1>7, Zenon DEF Dispatched
<1>9. CallOrder' /\ Cancelled'
  BY <1>1, <1>3, <1>4, <1>7, Zenon DEF CallOrder, Cancelled, IsRoot
<1>10. RootIsActive'
  BY <1>1, <1>4, RootKept, Zenon
<1> QED
  BY <1>5, <1>6, <1>8, <1>9, <1>10, Zenon

\* The child is done with a lifecycle or records it: it gives up no other.
LEMMA ChildWorksKeeps ==
  ASSUME PromptInv, ExecutionInv', NEW n \in Run, ChildWorks(n)
  PROVE  PromptInv'
<1> USE DEF PromptInv
<1>1. /\ sup = "up" /\ n \in working
      /\ stdin' \in {stdin, Advance(stdin), Refresh(stdin), Terminal(stdin)}
      /\ UNCHANGED <<req, started, run, accepted, tagged, work, cancel, sup, seen, mutating, closed>>
  BY Zenon DEF ChildWorks, ChildFinishes, ChildEnds, ChildRecords, Release, Remove, vars, lifeVars,
               closeVars
<1>2. /\ messages' \subseteq messages
      /\ active' = active \/ (active' = 0 /\ active = n /\ (IsRoot(n) => n \notin working'))
      /\ active' = active => active \in messages' \cup {0}
      /\ working' \subseteq working
  <2>1. active \in messages \cup {0}
    BY Zenon DEF PromptTypeOK
  <2>2. CASE ChildFinishes(n)
    BY <2>1, <2>2, Zenon DEF ChildFinishes, Release, Remove
  <2>3. CASE ChildEnds(n)
    BY <2>1, <2>3, Zenon DEF ChildEnds, lifeVars
  <2>4. CASE ChildRecords(n)
    BY <2>1, <2>4, Zenon DEF ChildRecords, Remove
  <2> QED
    BY <2>2, <2>3, <2>4, Zenon DEF ChildWorks
<1>3. n # 0 /\ n \notin Written
  BY <1>1 DEF PromptTypeOK, Dispatched
<1>4. active' = active \/ n \notin working'
  BY <1>2, <1>3, Zenon DEF Lifecycles
<1>5. started \in Nat /\ stdin \in Seq(Call(started)) /\ InOrder(stdin, Images, cancel.target)
  BY DEF CallOrder, PromptTypeOK
<1>6. /\ stdin' \in Seq(Call(started))
      /\ InOrder(stdin', Images, cancel.target)
      /\ PromptsIn(stdin') = PromptsIn(stdin)
      /\ HasCall(stdin', "abort") => HasCall(stdin, "abort")
  BY <1>1, <1>5, RefreshKeeps
<1>7. Written' = Written /\ InChild' \subseteq InChild
  BY <1>2, <1>6, Zenon DEF Written, InChild
<1>8. active' = 0 \/ (active' = active /\ active \in messages')
  BY <1>2, Zenon
<1>9. Owners' /\ Lifecycles' /\ NoSecondExecution' /\ ReleasedWithChild'
  BY <1>1, <1>2, <1>8, QuietKeeps, Zenon
<1>10. PromptTypeOK'
  BY <1>1, <1>2, <1>6, <1>8, Zenon DEF PromptTypeOK, ExecutionInv
<1>11. Images' = Images /\ Usable /\ Usable'
  BY <1>1, Zenon DEF Images, Usable
<1>12. Dispatched'
  BY <1>1, <1>2, <1>7, <1>11, Zenon DEF Dispatched
<1>13. CallOrder' /\ Cancelled'
  BY <1>1, <1>6, <1>7, <1>11, Zenon DEF CallOrder, Cancelled, IsRoot
<1>14. RootIsActive'
  <2>1. active' = active \/ active \notin InChild'
    BY <1>2, <1>3, <1>4, <1>7, Zenon DEF InChild
  <2> QED
    BY <1>1, <1>7, <2>1, RootKept, Zenon
<1> QED
  BY <1>9, <1>10, <1>12, <1>13, <1>14, Zenon

-----------------------------------------------------------------------------
(* The end of the child *)

\* Rejecting the pending calls leaves a child that holds nothing.
LEMMA DoomKeeps ==
  ASSUME PromptInv, Doom, UNCHANGED <<req, started, run, accepted>>,
         messages' \subseteq messages, active' = 0 \/ (active' = active /\ active \in messages')
  PROVE  /\ stdin' \in Seq(Call(started)) /\ working' = {}
         /\ work' \in [Request -> [stage : Stage, run : 0 .. started]]
         /\ cancel' \in [stage : {"idle", "starting", "calling", "acked"}, target : 0 .. started]
         /\ Owners' /\ Lifecycles' /\ NoSecondExecution'
         /\ Dispatched' /\ CallOrder' /\ Cancelled' /\ RootIsActive'
<1> USE DEF PromptInv
<1>1. stdin' = <<>> /\ working' = {} /\ stdin' \in Seq(Call(started))
  BY DEF Doom
<1>2. InChild' = {} /\ Written' = {} /\ ~ HasCall(stdin', "abort")
  BY <1>1 DEF InChild, Written, PromptsIn, HasCall
<1>3. \A r \in Request :
        /\ work'[r].run = work[r].run
        /\ work'[r] \in [stage : Stage, run : 0 .. started]
        /\ \/ work'[r] = work[r] /\ work[r].stage \notin {"consuming", "calling"}
           \/ work'[r].stage = "doomed" /\ work[r].stage \in {"consuming", "calling"}
  <2> SUFFICES ASSUME NEW r \in Request
               PROVE  /\ work'[r].run = work[r].run
                      /\ work'[r] \in [stage : Stage, run : 0 .. started]
                      /\ \/ work'[r] = work[r] /\ work[r].stage \notin {"consuming", "calling"}
                         \/ work'[r].stage = "doomed" /\ work[r].stage \in {"consuming", "calling"}
    OBVIOUS
  <2>1. work[r] \in [stage : Stage, run : 0 .. started] /\ "doomed" \in Stage
    BY Zenon DEF PromptTypeOK, Stage
  <2>2. work'[r] = IF work[r].stage \in {"calling", "consuming"}
                   THEN [work[r] EXCEPT !.stage = "doomed"] ELSE work[r]
    BY Zenon DEF Doom
  <2> QED
    BY <2>1, <2>2, Zenon
<1>4. work' \in [Request -> [stage : Stage, run : 0 .. started]]
  BY <1>3, Zenon DEF Doom
<1>5. /\ cancel' \in [stage : {"idle", "starting", "calling", "acked"}, target : 0 .. started]
      /\ cancel' = cancel \/ cancel'.target = 0
  BY DEF Doom, NoCancel, PromptTypeOK
<1>6. Owners' /\ Lifecycles' /\ NoSecondExecution'
  <2>1. \A r \in Request :
           /\ work'[r].run = work[r].run
           /\ \/ work'[r] = work[r]
              \/ /\ work[r].stage \in {"consuming", "calling"}
                 /\ work'[r].stage \in {"acked", "refused", "doomed"}
    BY <1>3, Zenon
  <2> QED
    BY <2>1, QuietKeeps, Zenon
<1>7. Dispatched'
  <2>1. \A r \in Request : work'[r].stage \notin {"consuming", "calling"}
    BY <1>3, Zenon
  <2> QED
    BY <1>1, <1>2, <2>1, Zenon DEF Dispatched
<1>8. CallOrder'
  BY <1>1 DEF CallOrder, InOrder
<1>9. Cancelled'
  BY <1>2, <1>5, Zenon DEF Cancelled, IsRoot
<1>10. RootIsActive'
  BY <1>2, Zenon DEF RootIsActive
<1> QED
  BY <1>1, <1>4, <1>5, <1>6, <1>7, <1>8, <1>9, <1>10, Zenon

\* A crash, also by the watchdog, releases every lifecycle.
LEMMA CrashKeeps ==
  ASSUME PromptInv, ExecutionInv', Crash \/ Watchdog
  PROVE  PromptInv'
<1> USE DEF PromptInv
<1>1. /\ Doom /\ sup' = "broken" /\ seen' = FALSE /\ messages' = {} /\ active' = 0
      /\ UNCHANGED <<req, started, run, accepted, tagged, mutating, closed>>
  BY Zenon DEF Crash, Watchdog, ReleaseAll, vars, closeVars
<1>2. /\ stdin' \in Seq(Call(started)) /\ working' = {}
      /\ work' \in [Request -> [stage : Stage, run : 0 .. started]]
      /\ cancel' \in [stage : {"idle", "starting", "calling", "acked"}, target : 0 .. started]
      /\ Owners' /\ Lifecycles' /\ NoSecondExecution'
      /\ Dispatched' /\ CallOrder' /\ Cancelled' /\ RootIsActive'
  BY <1>1, DoomKeeps, Zenon
<1>3. PromptTypeOK'
  BY <1>1, <1>2, Zenon DEF PromptTypeOK, ExecutionInv
<1>4. ReleasedWithChild'
  BY <1>1, Zenon DEF ReleasedWithChild
<1> QED
  BY <1>2, <1>3, <1>4, Zenon

\* An exit that is seen before its failure, and the stop of session.close, leave
\* the lifecycles registered.
LEMMA StopKeeps ==
  ASSUME PromptInv, ExecutionInv', ExitUnnoticed \/ CloseStop
  PROVE  PromptInv'
<1> USE DEF PromptInv
<1>1. /\ Doom /\ sup' \in {"down", "stopping"} /\ (sup' = "down" => ExitFirst)
      /\ UNCHANGED <<req, started, run, messages, active, accepted, tagged, seen, mutating, closed>>
  BY Zenon DEF ExitUnnoticed, CloseStop, vars, lifeVars, closeVars
<1>2. active' = 0 \/ (active' = active /\ active \in messages')
  BY <1>1, Zenon DEF PromptTypeOK
<1>3. /\ stdin' \in Seq(Call(started)) /\ working' = {}
      /\ work' \in [Request -> [stage : Stage, run : 0 .. started]]
      /\ cancel' \in [stage : {"idle", "starting", "calling", "acked"}, target : 0 .. started]
      /\ Owners' /\ Lifecycles' /\ NoSecondExecution'
      /\ Dispatched' /\ CallOrder' /\ Cancelled' /\ RootIsActive'
  BY <1>1, <1>2, DoomKeeps, Zenon
<1>4. PromptTypeOK'
  BY <1>1, <1>3, Zenon DEF PromptTypeOK, ExecutionInv
<1>5. ReleasedWithChild'
  BY <1>1, Zenon DEF ReleasedWithChild
<1> QED
  BY <1>3, <1>4, <1>5, Zenon

\* The process exits, or session.close begins or is over: the child held nothing.
LEMMA ExitKeeps ==
  ASSUME PromptInv, ExecutionInv', Exit \/ CloseBegin \/ CloseDone \/ CloseFails
  PROVE  PromptInv'
<1> USE DEF PromptInv
<1>1. /\ UNCHANGED <<req, started, run, accepted, tagged, work, cancel, stdin, working>>
      /\ seen' \in BOOLEAN /\ mutating' \in BOOLEAN /\ closed' \in BOOLEAN
      /\ sup' \in {"down", "up", "mute", "broken", "stopping"}
  BY Zenon DEF Exit, CloseBegin, CloseDone, CloseFails, vars, lifeVars, childVars, closeVars,
               PromptTypeOK
<1>2. /\ messages' \subseteq messages
      /\ active' = 0 \/ (active' = active /\ active \in messages')
      /\ Usable' => sup' = sup
      /\ Usable => active' = active
      /\ messages' = {} \/ sup' = sup \/ (sup = "broken" /\ sup' = "down")
  <2>1. active \in messages \cup {0}
    BY Zenon DEF PromptTypeOK
  <2> QED
    BY <2>1, Zenon DEF Exit, CloseBegin, CloseDone, CloseFails, ReleaseAll, Usable, lifeVars, childVars
<1>3. Owners' /\ Lifecycles' /\ NoSecondExecution'
  BY <1>1, <1>2, QuietKeeps, Zenon
<1>4. PromptTypeOK'
  BY <1>1, <1>2, Zenon DEF PromptTypeOK, ExecutionInv
<1>5. Images' = Images /\ InChild' = InChild /\ Written' = Written
  BY <1>1, Zenon DEF Images, InChild, Written
<1>6. Usable' <=> Usable
  BY <1>2, Zenon DEF Exit, CloseBegin, CloseDone, CloseFails, Usable, childVars
<1>7. Dispatched'
  BY <1>1, <1>5, <1>6, Zenon DEF Dispatched
<1>8. CallOrder' /\ Cancelled'
  BY <1>1, <1>5, Zenon DEF CallOrder, Cancelled, IsRoot
<1>9. RootIsActive'
  <2>1. active' = active \/ InChild = {}
    BY <1>2 DEF Dispatched, InChild, Written, PromptsIn
  <2> QED
    BY <1>1, <1>5, <2>1, RootKept, Zenon
<1>10. ReleasedWithChild'
  BY <1>1, <1>2, Zenon DEF ReleasedWithChild
<1> QED
  BY <1>3, <1>4, <1>7, <1>8, <1>9, <1>10, Zenon

-----------------------------------------------------------------------------
(* The handlers *)

\* Answering ends one execution, and no other.
LEMMA FinishWorkEffect ==
  ASSUME PromptInv, NEW r \in Request, NEW o \in Outcome, FinishWork(r, o)
  PROVE  /\ req[r].pc = "running"
         /\ \A q \in Request : q # r /\ req[q].pc = "running" => req'[q] = req[q]
         /\ \A q \in Request : req'[q].pc = "running" => q # r /\ req'[q] = req[q]
         /\ work'[r] = NoWork /\ \A q \in Request \ {r} : work'[q] = work[q]
         /\ work' \in [Request -> [stage : Stage, run : 0 .. started]]
<1>1. Finish(r, o) /\ work' = [work EXCEPT ![r] = NoWork]
  BY Zenon DEF FinishWork, MoveTo, NoWork
<1>2. req \in [Request -> Handler] /\ work \in [Request -> [stage : Stage, run : 0 .. started]]
  BY Zenon DEF PromptInv, PromptTypeOK, TypeOK
<1>3. req[r].pc = "running" /\ Resolve(r)
  BY <1>1, Zenon DEF Finish
<1>4. Idle.pc = "idle"
  BY Zenon DEF Idle
<1>5. \A q \in Request : q # r /\ req[q].pc = "running" => req'[q] = req[q]
  BY <1>3, Zenon DEF Resolve
<1>6. \A q \in Request : req'[q].pc = "running" => q # r /\ req'[q] = req[q]
  BY <1>3, <1>4, Zenon DEF Resolve
<1>7. NoWork \in [stage : Stage, run : 0 .. started]
  BY DEF NoWork, Stage, PromptInv, PromptTypeOK
<1> QED
  BY <1>1, <1>2, <1>3, <1>5, <1>6, <1>7, Zenon

\* A handler that answers gives up its lifecycle, or leaves it as accepted work.
LEMMA ConcludeKeeps ==
  ASSUME PromptInv, ExecutionInv', NEW r \in Request, NEW o \in Outcome, FinishWork(r, o),
         UNCHANGED <<started, run, tagged, cancel, sup, working, seen, mutating, closed>>,
         messages' \subseteq messages, active' = 0 \/ (active' = active /\ active \in messages'),
         active' = active \/ active \notin InChild,
         accepted' = accepted \/ (accepted' = accepted \cup {work[r].run} /\ work[r].stage = "acked"),
         work[r].run \in messages' => work[r].run \in accepted',
         stdin' \in {stdin, Advance(stdin), Refresh(stdin), Terminal(stdin)}
  PROVE  PromptInv'
<1> USE DEF PromptInv
<1>1. /\ req[r].pc = "running"
      /\ \A q \in Request : q # r /\ req[q].pc = "running" => req'[q] = req[q]
      /\ \A q \in Request : req'[q].pc = "running" => q # r /\ req'[q] = req[q]
      /\ work'[r] = NoWork /\ \A q \in Request \ {r} : work'[q] = work[q]
      /\ work' \in [Request -> [stage : Stage, run : 0 .. started]]
  BY FinishWorkEffect, Zenon
<1>2. NoWork.stage = "none" /\ NoWork.run = 0
  BY Zenon DEF NoWork
<1>3. \A q \in Request : work[q].run # 0 => req[q].pc = "running"
  BY <1>2, Zenon DEF Owners
<1>4. Owners'
  <2>1. \A q \in Request : req'[q].pc # "running" => work'[q] = NoWork
    BY <1>1, Zenon DEF Owners
  <2>2. \A q \in Request : work'[q].stage \in {"none", "starting"} <=> work'[q].run = 0
    BY <1>1, <1>2, ZenonT(30) DEF Owners
  <2>3. ASSUME NEW q \in Request, work'[q].run # 0
        PROVE  /\ run'[work'[q].run] = [cmd |-> req'[q].cmd, payload |-> req'[q].payload]
               /\ work'[q].run \notin accepted'
    <3>1. q # r /\ work'[q] = work[q] /\ req'[q] = req[q]
      BY <2>3, <1>1, <1>2, <1>3, Zenon
    <3>2. work[q].run # work[r].run
      BY <3>1, <2>3, ZenonT(30) DEF Owners
    <3> QED
      BY <3>1, <3>2, <2>3, Zenon DEF Owners
  <2>4. ASSUME NEW q \in Request, NEW u \in Request,
               work'[q].run = work'[u].run, work'[q].run # 0
        PROVE  q = u
    <3>1. q # r /\ u # r
      BY <2>4, <1>1, <1>2, Zenon
    <3>2. work[q].run = work[u].run /\ work[q].run # 0
      BY <3>1, <2>4, <1>1, Zenon
    <3> QED
      BY <3>2, Zenon DEF Owners
  <2> QED
    BY <2>1, <2>2, <2>3, <2>4, Zenon DEF Owners
<1>5. Lifecycles'
  <2>1. ASSUME NEW n \in messages', n \notin accepted' PROVE \E q \in Request : work'[q].run = n
    <3>1. PICK q \in Request : work[q].run = n
      BY <2>1, Zenon DEF Lifecycles
    <3>2. q # r
      BY <3>1, <2>1, Zenon
    <3> QED
      BY <3>1, <3>2, <1>1, Zenon
  <2> QED
    BY <2>1, Zenon DEF Lifecycles, IsRoot
<1>6. NoSecondExecution'
  BY <1>1 DEF NoSecondExecution
<1>7. ReleasedWithChild'
  <2> SUFFICES ASSUME ~ ExitFirst, sup \in {"down", "broken"}, NEW n \in messages'
               PROVE  \E q \in Request : work'[q] = [stage |-> "doomed", run |-> n]
    BY Zenon DEF ReleasedWithChild
  <2>1. PICK q \in Request : work[q] = [stage |-> "doomed", run |-> n]
    BY Zenon DEF ReleasedWithChild
  <2>2. q # r
    <3> SUFFICES ASSUME q = r PROVE FALSE
      BY Zenon
    <3>1. work[q].run = n /\ work[q].stage = "doomed"
      BY ONLY <2>1
    <3>2. n \in accepted
      BY <3>1, Zenon
    <3>3. \A m \in 1 .. started : m # 0
      <4>1. started \in Nat
        BY StartedNat, Zenon
      <4> QED
        BY ONLY <4>1
    <3>4. n # 0
      BY <3>2, <3>3, Zenon DEF PromptTypeOK
    <3> QED
      BY <3>1, <3>2, <3>4, Zenon DEF Owners
  <2> QED
    BY <2>1, <2>2, <1>1, Zenon
<1>8. /\ stdin' \in Seq(Call(started)) /\ InChild' = InChild
      /\ Dispatched' /\ CallOrder' /\ Cancelled'
  BY <1>1, <1>2, CallsKept, Zenon
<1>9. RootIsActive'
  BY <1>8, RootKept, ZenonT(30)
<1>10. PromptTypeOK'
  <2>1. accepted' \subseteq 1 .. started
    <3>1. work[r].run \in 0 .. started /\ started \in Nat
      BY StartedNat, Zenon DEF PromptTypeOK
    <3>2. work[r].stage = "acked" => work[r].run # 0
      BY Zenon DEF Owners
    <3>3. work[r].stage = "acked" => work[r].run \in 1 .. started
      BY ONLY <3>1, <3>2
    <3> QED
      BY <3>3, Zenon DEF PromptTypeOK
  <2>2. messages' \subseteq 1 .. started /\ active' \in messages' \cup {0}
    BY Zenon DEF PromptTypeOK
  <2> QED
    BY <1>1, <1>8, <2>1, <2>2, ZenonT(30) DEF PromptTypeOK, ExecutionInv
<1> QED
  BY <1>4, <1>5, <1>6, <1>7, <1>8, <1>9, <1>10, Zenon

\* No handler that was refused, or that failed before its call, left anything in
\* the child.
LEMMA HandlerEndsKeeps ==
  ASSUME PromptInv, ExecutionInv', NEW r \in Request, NEW o \in Outcome,
         \/ FailStart(r)
         \/ ResumeRefused(r)
         \/ ResumeThrows(r)
         \/ HandlerThrows(r)
         \/ HandlerAccepts(r)
         \/ HandlerReleases(r, o)
  PROVE  PromptInv'
<1>1. /\ messages \subseteq 1 .. started /\ active \in messages \cup {0} /\ started \in Nat
      /\ accepted \subseteq 1 .. started
  BY DEF PromptInv, PromptTypeOK
<1>2. "failed" \in Outcome /\ "accepted" \in Outcome
  BY OutcomeAssumption, Zenon
<1>3. work[r].stage = "starting" => work[r].run = 0
  BY Zenon DEF PromptInv, Owners
<1>4. work[r].run # 0 => work[r].run \notin accepted
  BY Zenon DEF PromptInv, Owners
<1>5. work[r].stage \in {"consuming", "refused", "doomed"} => work[r].run \notin InChild
  BY Zenon DEF PromptInv, Dispatched
<1>6. CASE FailStart(r)
  <2>1. sup = "down" /\ FinishWork(r, "failed") /\ work[r].run = 0
    BY <1>6, <1>3, Zenon DEF FailStart, NoChild, At
  <2>2. active \notin InChild
    <3>1. ~ Usable
      BY <2>1, Zenon DEF Usable
    <3>2. stdin = <<>> /\ working = {}
      BY <3>1, Zenon DEF PromptInv, Dispatched
    <3> QED
      BY ONLY <3>2 DEF InChild, Written, PromptsIn
  <2>3. /\ UNCHANGED <<started, run, tagged, cancel, sup, working, seen, mutating, closed>>
        /\ accepted' = accepted /\ stdin' = stdin
        /\ messages' \subseteq messages /\ (active' = 0 \/ (active' = active /\ active \in messages'))
    BY <1>6, <1>1, ZenonT(30) DEF FailStart, NoChild, ReleaseAll, childVars, closeVars
  <2>4. work[r].run \notin messages'
    <3>1. 0 \notin messages
      BY <1>1
    <3> QED
      BY <3>1, <2>1, <2>3, Zenon
  <2> QED
    BY <1>2, <2>1, <2>2, <2>3, <2>4, ConcludeKeeps, Zenon
<1>7. CASE ResumeRefused(r) \/ ResumeThrows(r)
  <2>1. FinishWork(r, "failed") /\ work[r].run = 0
    BY <1>7, <1>3, Zenon DEF ResumeRefused, ResumeThrows, MayRegister, At
  <2>2. /\ UNCHANGED <<started, run, tagged, cancel, sup, working, seen, mutating, closed>>
        /\ accepted' = accepted /\ stdin' \in {stdin, Advance(stdin)}
        /\ messages' = messages /\ active' = active
    BY <1>7, Zenon DEF ResumeRefused, ResumeThrows, lifeVars, childVars, closeVars
  <2>3. work[r].run \notin messages'
    BY ONLY <2>1, <2>2, <1>1
  <2>4. messages' \subseteq messages /\ (active' = 0 \/ (active' = active /\ active \in messages'))
    BY <2>2, <1>1, Zenon
  <2> QED
    BY <1>2, <2>1, <2>2, <2>3, <2>4, ConcludeKeeps, Zenon
<1>8. ASSUME NEW e \in Outcome, (HandlerThrows(r) /\ e = "failed") \/ HandlerReleases(r, e)
      PROVE  PromptInv'
  <2>1. FinishWork(r, e) /\ work[r].run \notin InChild
    BY <1>8, <1>5, Zenon DEF HandlerThrows, HandlerReleases, At
  <2>2. /\ UNCHANGED <<started, run, tagged, cancel, sup, working, seen, mutating, closed>>
        /\ accepted' = accepted
    BY <1>8, Zenon DEF HandlerThrows, HandlerReleases, closeVars
  <2>3. Remove({work[r].run}) /\ stdin' \in {stdin, Refresh(stdin), Terminal(stdin)}
    BY <1>8, Zenon DEF HandlerThrows, HandlerReleases, Release
  <2>4. /\ messages' \subseteq messages /\ work[r].run \notin messages'
        /\ active' = 0 \/ (active' = active /\ active \in messages')
        /\ active' = active \/ active = work[r].run
    BY <2>3, <1>1, Zenon DEF Remove
  <2>5. active' = active \/ active \notin InChild
    BY <2>1, <2>4, Zenon
  <2>6. stdin' \in {stdin, Advance(stdin), Refresh(stdin), Terminal(stdin)}
    BY <2>3, Zenon
  <2> QED
    BY <2>1, <2>2, <2>4, <2>5, <2>6, ConcludeKeeps, Zenon
<1>9. CASE HandlerAccepts(r)
  <2>1. FinishWork(r, "accepted") /\ work[r].stage = "acked"
    BY <1>9, Zenon DEF HandlerAccepts, At
  <2>2. /\ UNCHANGED <<started, run, tagged, cancel, sup, working, seen, mutating, closed>>
        /\ accepted' = accepted \cup {work[r].run} /\ messages' = messages /\ active' = active
    BY <1>9, Zenon DEF HandlerAccepts, closeVars
  <2>3. stdin' \in {stdin, Advance(stdin), Refresh(stdin), Terminal(stdin)}
    BY <1>9, Zenon DEF HandlerAccepts
  <2>4. /\ messages' \subseteq messages /\ (active' = 0 \/ (active' = active /\ active \in messages'))
        /\ work[r].run \in accepted'
    BY <2>2, <1>1, Zenon
  <2> QED
    BY <1>2, <2>1, <2>2, <2>3, <2>4, ConcludeKeeps, Zenon
<1> QED
  BY <1>2, <1>6, <1>7, <1>8, <1>9, Zenon

\* The call of a prompt whose images were consumed.
LEMMA ConsumedDispatchKeeps ==
  ASSUME PromptInv, ExecutionInv', NEW r \in Request, ConsumedDispatch(r)
  PROVE  PromptInv'
<1> USE DEF PromptInv
<1> DEFINE n == work[r].run
           c == [type |-> "prompt", run |-> n]
<1>1. /\ UNCHANGED <<req, started, run, messages, active, accepted, cancel, sup, working, seen,
                     mutating, closed>>
      /\ work[r].stage = "consuming"
      /\ stdin' = Append(stdin, c)
      /\ work' = [work EXCEPT ![r] = [stage |-> "calling", run |-> n]]
      /\ tagged' = tagged \/ (tagged' = tagged \cup {n} /\ n \in messages)
  BY Zenon DEF ConsumedDispatch, At, MoveTo, vars, closeVars
<1>2. /\ work \in [Request -> [stage : Stage, run : 0 .. started]] /\ started \in Nat
      /\ stdin \in Seq(Call(started)) /\ messages \subseteq 1 .. started
      /\ active \in messages \cup {0} /\ tagged \subseteq 1 .. started
  BY DEF PromptTypeOK
<1>3. n # 0 /\ n \in 1 .. started
  <2>1. n # 0
    BY <1>1, Zenon DEF Owners
  <2>2. n \in 0 .. started
    BY <1>2, Zenon
  <2> QED
    BY <1>2, <2>1, <2>2
<1>4. Usable /\ n \notin InChild /\ n \in Images
  BY <1>1, Zenon DEF Dispatched
<1>5. /\ work'[r].stage = "calling" /\ work'[r].run = n
      /\ \A q \in Request \ {r} : work'[q] = work[q]
      /\ work' \in [Request -> [stage : Stage, run : 0 .. started]]
  <2>1. "calling" \in Stage
    BY Zenon DEF Stage
  <2> QED
    BY <1>1, <1>2, <2>1, Zenon
<1>6. Owners' /\ Lifecycles' /\ NoSecondExecution' /\ ReleasedWithChild'
  <2>1. \A q \in Request :
          /\ work'[q].run = work[q].run
          /\ \/ work'[q] = work[q]
             \/ /\ work[q].stage \in {"consuming", "calling"}
                /\ work'[q].stage \in {"calling", "acked", "refused", "doomed"}
    BY <1>1, <1>5, Zenon
  <2>2. messages' \subseteq messages /\ (active' = 0 \/ (active' = active /\ active \in messages'))
    BY <1>1, <1>2, Zenon
  <2> QED
    BY <1>1, <2>1, <2>2, QuietKeeps, Zenon
<1>7. c \in Call(started) /\ c.type = "prompt" /\ c.run = n
  BY <1>2, Zenon DEF Call
<1>8. InOrder(stdin, Images, cancel.target) /\ n \notin PromptsIn(stdin)
  BY <1>4, Zenon DEF CallOrder, InChild, Written
<1> HIDE DEF c
<1>9. /\ Append(stdin, c) \in Seq(Call(started))
      /\ PromptsIn(Append(stdin, c)) = PromptsIn(stdin) \cup {n}
      /\ InOrder(Append(stdin, c), Images, cancel.target)
      /\ \A type : HasCall(Append(stdin, c), type) <=> HasCall(stdin, type) \/ c.type = type
  BY <1>2, <1>4, <1>7, <1>8, AppendKeeps, Zenon
<1> HIDE DEF n
<1>10. Images' = Images /\ InChild' = InChild \cup {n} /\ Written' = Written \cup {n} /\ Usable'
  BY <1>1, <1>4, <1>9, Zenon DEF Images, InChild, Written, Usable
<1>11. Dispatched'
  <2>1. 0 \notin Written' /\ Written' \cap working' = {}
    BY <1>1, <1>3, <1>4, <1>10, Zenon DEF Dispatched, InChild
  <2>2. \A q \in Request \ {r} : work[q].run # n
    BY <1>3, Zenon DEF Owners, n
  <2>3. ASSUME NEW q \in Request
        PROVE  /\ work'[q].stage \in {"consuming", "refused", "doomed"} => work'[q].run \notin InChild'
               /\ work'[q].stage = "consuming" => work'[q].run \in Images'
    BY <1>5, <1>10, <2>2, Zenon DEF Dispatched
  <2> QED
    BY <1>10, <2>1, <2>3, Zenon DEF Dispatched
<1>12. CallOrder'
  BY <1>1, <1>9, <1>10, Zenon DEF CallOrder
<1>13. Cancelled'
  BY <1>1, <1>4, <1>7, <1>9, <1>10, Zenon DEF Cancelled, IsRoot
<1>14. RootIsActive'
  BY <1>1, <1>4, <1>10, Zenon DEF RootIsActive, IsRoot, Images
<1>15. PromptTypeOK'
  BY <1>1, <1>2, <1>5, <1>9, ZenonT(30) DEF PromptTypeOK, ExecutionInv
<1> QED
  BY <1>6, <1>11, <1>12, <1>13, <1>14, <1>15, Zenon

\* A call the child may have been sent stays one when more lifecycles exist.
LEMMA CallsGrow ==
  ASSUME NEW m \in Nat, NEW s \in Seq(Call(m))
  PROVE  s \in Seq(Call(m + 1))
<1>1. Call(m) \subseteq Call(m + 1)
  BY DEF Call
<1> QED
  BY <1>1

\* What register() does: a new lifecycle, owned by the handler that registers it.
LEMMA RegisterEffect ==
  ASSUME PromptInv, NEW r \in Request, MayRegister(r), NEW n \in Run, Register(r, n),
         NEW stage \in Stage, stage \notin {"none", "starting"}, MoveTo(r, stage, n),
         UNCHANGED <<req, accepted>>
  PROVE  /\ started' = n /\ started' = started + 1 /\ messages' = messages \cup {n}
         /\ n \in Nat /\ n # 0 /\ n \notin 1 .. started
         /\ \A m \in 1 .. started : run'[m] = run[m]
         /\ run'[n].cmd = req[r].cmd /\ run' \in [Run -> [cmd : Command, payload : Payload] \cup {None}]
         /\ work[r].run = 0 /\ work[r].stage = "starting"
         /\ work'[r] = [stage |-> stage, run |-> n]
         /\ \A q \in Request \ {r} : work'[q] = work[q]
         /\ work' \in [Request -> [stage : Stage, run : 0 .. started']]
         /\ Owners' /\ Lifecycles' /\ NoSecondExecution'
<1> USE DEF PromptInv
<1>1. /\ started \in Nat /\ messages \subseteq 1 .. started /\ accepted \subseteq 1 .. started
      /\ run \in [Run -> [cmd : Command, payload : Payload] \cup {None}]
      /\ work \in [Request -> [stage : Stage, run : 0 .. started]]
      /\ active \in messages \cup {0} /\ started <= MaxRun /\ MaxRun \in Nat
      /\ req \in [Request -> Handler]
  BY PendingAssumption DEF PromptTypeOK, TypeOK
<1>2. /\ n = started + 1 /\ started' = n /\ messages' = messages \cup {n}
      /\ run' = [run EXCEPT ![n] = [cmd |-> req[r].cmd, payload |-> req[r].payload]]
      /\ active' = IF req[r].cmd \in Steer THEN active ELSE n
  BY Zenon DEF Register
<1>3. /\ n \in Nat /\ n # 0 /\ n \notin 1 .. started /\ 1 .. started \subseteq Run
      /\ n \in 0 .. started' /\ 0 .. started \subseteq 0 .. started' /\ 0 \notin 1 .. started
      /\ \A m \in 0 .. started : m # n /\ (m # 0 => m \in 1 .. started)
  <2>1. /\ started \in Nat /\ started <= MaxRun /\ MaxRun \in Nat
        /\ n = started + 1 /\ started' = started + 1
    BY <1>1, <1>2, Zenon
  <2> QED
    BY ONLY <2>1 DEF Run
<1>4. req[r].pc = "running" /\ work[r].stage = "starting" /\ work[r].run = 0
  <2>1. req[r].pc = "running" /\ work[r].stage = "starting"
    BY Zenon DEF MayRegister, At
  <2> QED
    BY <2>1, Zenon DEF Owners
<1>5. req[r].cmd \in Command /\ req[r].payload \in Payload
  BY <1>1, <1>4, HandlerType, Zenon
<1>6. /\ \A m \in 1 .. started : run'[m] = run[m]
      /\ run'[n] = [cmd |-> req[r].cmd, payload |-> req[r].payload]
      /\ run' \in [Run -> [cmd : Command, payload : Payload] \cup {None}]
  BY <1>1, <1>2, <1>3, <1>5, Zenon
<1>7. work' = [work EXCEPT ![r] = [stage |-> stage, run |-> n]]
  BY Zenon DEF MoveTo
<1>8. work'[r] = [stage |-> stage, run |-> n] /\ \A q \in Request \ {r} : work'[q] = work[q]
  BY <1>1, <1>7, Zenon
<1>9. work' \in [Request -> [stage : Stage, run : 0 .. started']]
  <2>1. [stage : Stage, run : 0 .. started] \subseteq [stage : Stage, run : 0 .. started']
    BY ONLY <1>3
  <2>2. [stage |-> stage, run |-> n] \in [stage : Stage, run : 0 .. started']
    BY <1>3, Zenon
  <2> QED
    BY <1>1, <1>7, <2>1, <2>2, Zenon
<1>10. \A q \in Request : work[q].run \in 0 .. started
  BY <1>1, Zenon
<1>11. \A q \in Request : work[q].run # n /\ (work[q].run # 0 => work[q].run \in 1 .. started)
  BY <1>3, <1>10, Zenon
<1>12. work'[r].run = n /\ work'[r].stage = stage
  BY ONLY <1>8
<1>13. Owners'
  <2>1. ASSUME NEW q \in Request
        PROVE  /\ req'[q].pc # "running" => work'[q] = NoWork
               /\ work'[q].stage \in {"none", "starting"} <=> work'[q].run = 0
               /\ work'[q].run # 0 =>
                    /\ run'[work'[q].run] = [cmd |-> req'[q].cmd, payload |-> req'[q].payload]
                    /\ work'[q].run \notin accepted'
    <3>1. CASE q = r
      <4>1. n \notin accepted /\ req' = req /\ accepted' = accepted
        BY <1>1, <1>3, Zenon
      <4> QED
        BY <3>1, <4>1, <1>3, <1>4, <1>6, <1>12, ZenonT(30)
    <3>2. CASE q # r
      <4>1. work'[q] = work[q]
        BY <3>2, <1>8, Zenon
      <4>2. work[q].run # 0 => run'[work[q].run] = run[work[q].run]
        BY <1>6, <1>11, Zenon
      <4> QED
        BY <4>1, <4>2, Zenon DEF Owners
    <3> QED
      BY <3>1, <3>2, ZenonT(30)
  <2>2. ASSUME NEW q \in Request, NEW u \in Request,
               work'[q].run = work'[u].run, work'[q].run # 0
        PROVE  q = u
    <3>1. CASE q # r /\ u # r
      <4>1. work[q].run = work[u].run /\ work[q].run # 0
        BY <3>1, <2>2, <1>8, Zenon
      <4> QED
        BY <4>1, Zenon DEF Owners
    <3>2. CASE q = r
      BY <3>2, <2>2, <1>8, <1>11, <1>12, Zenon
    <3>3. CASE u = r
      BY <3>3, <2>2, <1>8, <1>11, <1>12, Zenon
    <3> QED
      BY <3>1, <3>2, <3>3, Zenon
  <2> QED
    BY <2>1, <2>2, Zenon DEF Owners
<1>14. Lifecycles'
  <2>1. \A m \in 1 .. started' : m \in 1 .. started \/ m = n
    <3>1. started \in Nat /\ started' = started + 1 /\ n = started + 1
      BY <1>1, <1>2, Zenon
    <3> QED
      BY ONLY <3>1
  <2>2. [cmd |-> req[r].cmd, payload |-> req[r].payload] \in [cmd : Command, payload : Payload]
    BY <1>5, Zenon
  <2>3. \A m \in 1 .. started' : run'[m] \in [cmd : Command, payload : Payload]
    BY <1>6, <2>1, <2>2, Zenon DEF Lifecycles
  <2>4. ASSUME NEW m \in messages' \ accepted' PROVE \E q \in Request : work'[q].run = m
    <3>1. CASE m = n
      BY <3>1, <1>12, Zenon
    <3>2. CASE m # n
      <4>1. m \in messages \ accepted /\ m # 0
        BY <3>2, <1>1, <1>2, <1>3, Zenon
      <4>2. PICK q \in Request : work[q].run = m
        BY <4>1, Zenon DEF Lifecycles
      <4> QED
        BY <4>1, <4>2, <1>4, <1>8, ZenonT(30)
    <3> QED
      BY <3>1, <3>2, Zenon
  <2>5. active' # 0 => run'[active'].cmd \notin Steer
    <3>1. CASE req[r].cmd \in Steer
      <4>1. active' = active /\ (active # 0 => active \in 1 .. started)
        BY <3>1, <1>1, <1>2, Zenon
      <4> QED
        BY <4>1, <1>6, Zenon DEF Lifecycles, IsRoot
    <3>2. CASE req[r].cmd \notin Steer
      BY <3>2, <1>2, <1>6, Zenon
    <3> QED
      BY <3>1, <3>2, Zenon
  <2> QED
    BY <2>3, <2>4, <2>5, Zenon DEF Lifecycles, IsRoot
<1>15. NoSecondExecution'
  <2> SUFFICES ASSUME NEW m \in messages', NEW q \in Request,
                      req[q].pc = "running", req[q].cmd = run'[m].cmd
               PROVE  work'[q].run = m
    BY Zenon DEF NoSecondExecution
  <2>1. CASE m = n
    <3>1. run'[n].cmd = req[r].cmd
      BY ONLY <1>6
    <3>2. q = r
      BY <2>1, <3>1, <1>4, Zenon DEF ExecutionInv, SingleFlight
    <3> QED
      BY <2>1, <3>2, <1>12, ZenonT(30)
  <2>2. CASE m # n
    <3>1. m \in messages /\ run'[m] = run[m]
      BY <2>2, <1>1, <1>2, <1>6, Zenon
    <3>2. q # r
      BY <3>1, Zenon DEF MayRegister, Registered
    <3>3. work[q].run = m
      BY <3>1, Zenon DEF NoSecondExecution
    <3> QED
      BY <3>2, <3>3, <1>8, Zenon
  <2> QED
    BY <2>1, <2>2, Zenon
<1> QED
  BY <1>2, <1>3, <1>4, <1>6, <1>8, <1>9, <1>13, <1>14, <1>15, Zenon

\* Registering leaves what the child holds, and its roots, as they were.
LEMMA RegisterLeavesChild ==
  ASSUME PromptInv, NEW r \in Request, MayRegister(r), NEW n \in Run, Register(r, n)
  PROVE  /\ Advance(stdin) \in Seq(Call(started')) /\ PromptsIn(Advance(stdin)) = Written
         /\ InOrder(Advance(stdin), Images', cancel.target)
         /\ ~ HasCall(Advance(stdin), "state")
         /\ HasCall(Advance(stdin), "abort") => HasCall(stdin, "abort")
         /\ Images \subseteq Images' /\ InChild \subseteq 1 .. started /\ cancel.target \in 0 .. started
         /\ \A m \in InChild : run'[m].cmd \notin Steer \cup ImagePrompt => active' = m
         /\ cancel.target # 0 => run'[cancel.target].cmd \notin Steer
<1> USE DEF PromptInv
<1>1. /\ started \in Nat /\ messages \subseteq 1 .. started /\ working \subseteq 1 .. started
      /\ run \in [Run -> [cmd : Command, payload : Payload] \cup {None}]
      /\ started <= MaxRun /\ MaxRun \in Nat /\ stdin \in Seq(Call(started))
      /\ cancel.target \in 0 .. started
  BY PendingAssumption DEF PromptTypeOK
<1>2. /\ n = started + 1 /\ started' = n
      /\ run' = [run EXCEPT ![n] = [cmd |-> req[r].cmd, payload |-> req[r].payload]]
      /\ active' = IF req[r].cmd \in Steer THEN active ELSE n
  BY Zenon DEF Register
<1>3. n \notin 1 .. started /\ 1 .. started \subseteq Run /\ 1 .. started \subseteq 1 .. started'
  <2>1. /\ started \in Nat /\ started <= MaxRun /\ MaxRun \in Nat
        /\ n = started + 1 /\ started' = n
    BY <1>1, <1>2, Zenon
  <2> QED
    BY ONLY <2>1 DEF Run
<1>4. \A m \in 1 .. started : run'[m] = run[m]
  BY <1>1, <1>2, <1>3, Zenon
<1>5. Images \subseteq Images'
  BY <1>3, <1>4, Zenon DEF Images
<1>6. /\ Advance(stdin) \in Seq(Call(started)) /\ PromptsIn(Advance(stdin)) = PromptsIn(stdin)
      /\ InOrder(Advance(stdin), Images, cancel.target)
      /\ HasCall(Advance(stdin), "abort") => HasCall(stdin, "abort")
      /\ ~ HasCall(Advance(stdin), "state")
  BY <1>1, AdvanceKeeps, Zenon DEF CallOrder
<1>7. InOrder(Advance(stdin), Images', cancel.target)
  BY <1>5, <1>6, Retarget, Zenon
<1>8. Advance(stdin) \in Seq(Call(started'))
  BY <1>1, <1>2, <1>6, CallsGrow, Zenon
<1>9. InChild \subseteq 1 .. started
  <2>1. ASSUME NEW m \in Written PROVE m \in 1 .. started
    <3>1. PICK i \in DOMAIN stdin : stdin[i].type = "prompt" /\ m = stdin[i].run
      BY Zenon DEF Written, PromptsIn
    <3>2. stdin[i] \in Call(started)
      BY <1>1
    <3>3. m \in 0 .. started /\ m # 0
      BY <3>1, <3>2, Zenon DEF Call, Dispatched
    <3> QED
      BY <3>3, <1>1
  <2> QED
    BY <1>1, <2>1, Zenon DEF InChild
<1>10. \A m \in InChild : run'[m].cmd \notin Steer \cup ImagePrompt => active' = m
  <2> SUFFICES ASSUME NEW m \in InChild, run'[m].cmd \notin Steer \cup ImagePrompt
               PROVE  active' = m
    OBVIOUS
  <2>1. m \in 1 .. started /\ run'[m] = run[m] /\ m # 0
    BY <1>1, <1>4, <1>9
  <2>2. active = m
    BY <2>1, Zenon DEF RootIsActive, IsRoot
  <2> QED
    BY <1>2, <2>1, <2>2, Zenon DEF MayRegister
<1>11. cancel.target # 0 => run'[cancel.target].cmd \notin Steer
  BY <1>1, <1>4 DEF Cancelled, IsRoot
<1> QED
  BY <1>1, <1>5, <1>6, <1>7, <1>8, <1>9, <1>10, <1>11, ZenonT(30) DEF Written

\* A prompt without images, a steer or a follow-up is registered and written.
LEMMA ResumeDispatchKeeps ==
  ASSUME PromptInv, ExecutionInv', NEW r \in Request, ResumeDispatch(r)
  PROVE  PromptInv'
<1> USE DEF PromptInv
<1>1. /\ MayRegister(r) /\ Usable /\ req[r].cmd \notin ImagePrompt
      /\ UNCHANGED <<req, accepted, cancel, sup, working, seen, mutating, closed>>
  BY Zenon DEF ResumeDispatch, vars, closeVars
<1>2. PICK n \in Run : /\ Register(r, n) /\ tagged' = tagged \cup {n}
                       /\ stdin' = Append(Advance(stdin), [type |-> "prompt", run |-> n])
                       /\ MoveTo(r, "calling", n)
  BY Zenon DEF ResumeDispatch
<1> DEFINE c == [type |-> "prompt", run |-> n]
           s == Advance(stdin)
<1>3. "calling" \in Stage /\ "calling" \notin {"none", "starting"}
  BY Zenon DEF Stage
<1>4. /\ started' = n /\ started' = started + 1 /\ messages' = messages \cup {n}
      /\ n \in Nat /\ n # 0 /\ n \notin 1 .. started
      /\ \A m \in 1 .. started : run'[m] = run[m]
      /\ run'[n].cmd = req[r].cmd /\ run' \in [Run -> [cmd : Command, payload : Payload] \cup {None}]
      /\ work[r].run = 0 /\ work[r].stage = "starting"
      /\ work'[r] = [stage |-> "calling", run |-> n]
      /\ \A q \in Request \ {r} : work'[q] = work[q]
      /\ work' \in [Request -> [stage : Stage, run : 0 .. started']]
      /\ Owners' /\ Lifecycles' /\ NoSecondExecution'
  BY <1>1, <1>2, <1>3, RegisterEffect, ZenonT(20)
<1>5. /\ s \in Seq(Call(started')) /\ PromptsIn(s) = Written
      /\ InOrder(s, Images', cancel.target) /\ ~ HasCall(s, "state")
      /\ HasCall(s, "abort") => HasCall(stdin, "abort")
      /\ Images \subseteq Images' /\ InChild \subseteq 1 .. started /\ cancel.target \in 0 .. started
      /\ \A m \in InChild : run'[m].cmd \notin Steer \cup ImagePrompt => active' = m
      /\ cancel.target # 0 => run'[cancel.target].cmd \notin Steer
  BY <1>1, <1>2, RegisterLeavesChild, Zenon
<1>6. /\ started \in 0 .. MaxRun /\ messages \subseteq 1 .. started /\ accepted \subseteq 1 .. started
      /\ tagged \subseteq 1 .. started /\ working \subseteq 1 .. started
      /\ cancel \in [stage : {"idle", "starting", "calling", "acked"}, target : 0 .. started]
      /\ active \in messages \cup {0} /\ MaxRun \in Nat
  BY PendingAssumption, Zenon DEF PromptTypeOK
<1>7. c \in Call(started') /\ c.type = "prompt" /\ c.run = n
  <2>1. started' = n /\ n \in Nat
    BY <1>4, ZenonT(30)
  <2> QED
    BY ONLY <2>1 DEF Call, c
<1>8. n \notin InChild /\ n \notin PromptsIn(s) /\ n # cancel.target
  <2>1. started \in Nat /\ n = started + 1
    BY <1>4, StartedNat, Zenon
  <2>2. \A m \in 0 .. started : m # n
    BY ONLY <2>1
  <2> QED
    BY <1>4, <1>5, <2>2, Zenon DEF InChild
<1>9. started' \in Nat
  BY <1>4, Zenon
<1> HIDE DEF c, s
<1>10. /\ Append(s, c) \in Seq(Call(started'))
       /\ PromptsIn(Append(s, c)) = PromptsIn(s) \cup {n}
       /\ InOrder(Append(s, c), Images', cancel.target)
       /\ \A type : HasCall(Append(s, c), type) <=> HasCall(s, type) \/ c.type = type
  BY <1>5, <1>7, <1>8, <1>9, AppendKeeps, Zenon
<1>11. stdin' = Append(s, c)
  BY <1>2, Zenon DEF c, s
<1>12. InChild' = InChild \cup {n} /\ Written' = Written \cup {n} /\ Usable'
  BY <1>1, <1>5, <1>10, <1>11, Zenon DEF InChild, Written, Usable
<1>13. \A q \in Request \ {r} : work[q].run # n
  BY <1>4 DEF PromptTypeOK
<1>14. Dispatched'
  <2>1. 0 \notin Written' /\ Written' \cap working' = {}
    <3>1. 0 \notin Written /\ Written \cap working = {} /\ n # 0 /\ n \notin working
      BY <1>4, <1>8, Zenon DEF Dispatched, InChild
    <3> QED
      BY <1>1, <1>12, <3>1, Zenon
  <2>2. work'[r].stage = "calling"
    BY <1>4
  <2>3. ASSUME NEW q \in Request
        PROVE  /\ work'[q].stage \in {"consuming", "refused", "doomed"} => work'[q].run \notin InChild'
               /\ work'[q].stage = "consuming" => work'[q].run \in Images'
    <3>1. CASE q = r
      BY <3>1, <2>2, Zenon
    <3>2. CASE q # r
      <4>1. work'[q] = work[q] /\ work[q].run # n
        BY <3>2, <1>4, <1>13, Zenon
      <4>2. /\ work[q].stage \in {"consuming", "refused", "doomed"} => work[q].run \notin InChild
            /\ work[q].stage = "consuming" => work[q].run \in Images
        BY ZenonT(30), Zenon DEF Dispatched
      <4> QED
        BY <4>1, <4>2, <1>5, <1>12, Zenon
    <3> QED
      BY <3>1, <3>2, Zenon
  <2> QED
    BY <1>12, <2>1, <2>3, Zenon DEF Dispatched
<1>15. CallOrder'
  BY <1>1, <1>10, <1>11, Zenon DEF CallOrder
<1>16. Cancelled'
  <2>1. HasCall(stdin', "abort") => HasCall(stdin, "abort")
    BY <1>5, <1>7, <1>10, <1>11, Zenon
  <2>2. cancel' = cancel /\ (cancel.target \in InChild' => cancel.target \in InChild)
    BY <1>1, <1>8, <1>12, Zenon
  <2> QED
    BY <1>5, <2>1, <2>2, Zenon DEF Cancelled, IsRoot
<1>17. RootIsActive'
  <2>1. run'[n].cmd \notin Steer => active' = n
    BY <1>2, <1>4, Zenon DEF Register
  <2> QED
    BY <1>5, <1>12, <2>1, Zenon DEF RootIsActive, IsRoot
<1>18. ReleasedWithChild'
  BY <1>1, Zenon DEF ReleasedWithChild, Usable
<1>19. PromptTypeOK'
  <2>1. /\ started' \in 0 .. MaxRun /\ messages' \subseteq 1 .. started' /\ accepted' \subseteq 1 .. started'
        /\ tagged' \subseteq 1 .. started' /\ working' \subseteq 1 .. started'
    <3>0. started \in 0 .. MaxRun /\ started' = n /\ started' = started + 1 /\ n \in 1 .. MaxRun
      BY <1>4, <1>6, Zenon DEF Run
    <3>1. 1 .. started' = (1 .. started) \cup {n}
      BY ONLY <3>0
    <3>2. started' \in 0 .. MaxRun
      BY ONLY <3>0
    <3>3. messages' \subseteq 1 .. started' /\ accepted' \subseteq 1 .. started'
      BY <1>1, <1>4, <1>6, <3>1, Zenon
    <3>4. tagged' \subseteq 1 .. started' /\ working' \subseteq 1 .. started'
      BY <1>1, <1>2, <1>6, <3>1, ZenonT(20)
    <3> QED
      BY <3>2, <3>3, <3>4, Zenon
  <2>2. active' \in messages' \cup {0}
    <3>1. active \in messages \cup {0}
      BY <1>6, Zenon
    <3>2. active' \in {n, active}
      BY <1>2, Zenon DEF Register
    <3> QED
      BY <3>1, <3>2, <1>4, Zenon
  <2>3. cancel' \in [stage : {"idle", "starting", "calling", "acked"}, target : 0 .. started']
    <3>1. cancel' = cancel /\ cancel \in [stage : {"idle", "starting", "calling", "acked"}, target : 0 .. started]
      BY <1>1, Zenon DEF PromptTypeOK
    <3>2. started \in Nat /\ started' = started + 1
      BY <1>4, StartedNat, Zenon
    <3> QED
      BY ONLY <3>1, <3>2
  <2>4. sup' \in {"down", "up", "mute", "broken", "stopping"} /\ seen' \in BOOLEAN
        /\ mutating' \in BOOLEAN /\ closed' \in BOOLEAN
    BY <1>1, Zenon DEF PromptTypeOK
  <2> QED
    BY <1>4, <1>10, <1>11, <2>1, <2>2, <2>3, <2>4, ZenonT(30) DEF PromptTypeOK, ExecutionInv
<1> QED
  BY <1>4, <1>14, <1>15, <1>16, <1>17, <1>18, <1>19, Zenon

\* A prompt with images is registered; its prompt is written later, or never.
LEMMA ResumeConsumeKeeps ==
  ASSUME PromptInv, ExecutionInv', NEW r \in Request, ResumeConsume(r)
  PROVE  PromptInv'
<1> USE DEF PromptInv
<1> DEFINE next  == IF Usable THEN "consuming" ELSE "doomed"
           s    == Advance(stdin)
<1>1. /\ MayRegister(r) /\ req[r].cmd \in ImagePrompt /\ stdin' = s
      /\ UNCHANGED <<req, accepted, tagged, cancel, sup, working, seen, mutating, closed>>
  BY Zenon DEF ResumeConsume, vars, closeVars
<1>2. PICK n \in Run : Register(r, n) /\ MoveTo(r, next, n)
  BY Zenon DEF ResumeConsume
<1>3. /\ next \in Stage /\ next \notin {"none", "starting"}
      /\ (next = "consuming" /\ Usable) \/ (next = "doomed" /\ ~ Usable)
  BY Zenon DEF Stage
<1> HIDE DEF next, s
<1>4. /\ started' = n /\ started' = started + 1 /\ messages' = messages \cup {n}
      /\ n \in Nat /\ n # 0 /\ n \notin 1 .. started
      /\ \A m \in 1 .. started : run'[m] = run[m]
      /\ run'[n].cmd = req[r].cmd /\ run' \in [Run -> [cmd : Command, payload : Payload] \cup {None}]
      /\ work[r].run = 0 /\ work[r].stage = "starting"
      /\ work'[r] = [stage |-> next, run |-> n]
      /\ \A q \in Request \ {r} : work'[q] = work[q]
      /\ work' \in [Request -> [stage : Stage, run : 0 .. started']]
      /\ Owners' /\ Lifecycles' /\ NoSecondExecution'
  BY <1>1, <1>2, <1>3, RegisterEffect, ZenonT(20)
<1>5. /\ s \in Seq(Call(started')) /\ PromptsIn(s) = Written
      /\ InOrder(s, Images', cancel.target)
      /\ HasCall(s, "abort") => HasCall(stdin, "abort")
      /\ Images \subseteq Images' /\ InChild \subseteq 1 .. started /\ cancel.target \in 0 .. started
      /\ \A m \in InChild : run'[m].cmd \notin Steer \cup ImagePrompt => active' = m
      /\ cancel.target # 0 => run'[cancel.target].cmd \notin Steer
  BY <1>1, <1>2, RegisterLeavesChild, Zenon DEF s
<1>6. /\ started \in 0 .. MaxRun /\ messages \subseteq 1 .. started /\ accepted \subseteq 1 .. started
      /\ tagged \subseteq 1 .. started /\ working \subseteq 1 .. started
      /\ cancel \in [stage : {"idle", "starting", "calling", "acked"}, target : 0 .. started]
      /\ active \in messages \cup {0} /\ MaxRun \in Nat /\ stdin \in Seq(Call(started))
  BY PendingAssumption, Zenon DEF PromptTypeOK
<1>7. InChild' = InChild /\ Written' = Written /\ Usable' = Usable /\ n \notin InChild
  BY <1>1, <1>4, <1>5, Zenon DEF InChild, Written, Usable
<1>8. ~ Usable => stdin' = <<>> /\ working' = {}
  <2>1. InOrder(stdin, Images, cancel.target) /\ started \in Nat
    BY <1>6 DEF CallOrder
  <2>2. stdin = <<>> => Advance(stdin) = <<>>
    BY <1>6, <2>1, AdvanceKeeps, Zenon
  <2> QED
    BY <1>1, <2>2, Zenon DEF Dispatched, s
<1>9. n \in Images'
  <2>1. started' = n /\ n \in Nat /\ n # 0
    BY <1>4, Zenon
  <2>2. n \in 1 .. started'
    BY ONLY <2>1
  <2> QED
    BY <1>1, <1>4, <2>2, Zenon DEF Images
<1>10. Dispatched'
  <2>1. work'[r].stage = next /\ work'[r].run = n
    <3>1. work'[r] = [stage |-> next, run |-> n]
      BY <1>4, ZenonT(30)
    <3> QED
      BY ONLY <3>1
  <2>2. ASSUME NEW q \in Request
        PROVE  /\ work'[q].stage \in {"consuming", "calling"} => Usable
               /\ work'[q].stage \in {"consuming", "refused", "doomed"} => work'[q].run \notin InChild
               /\ work'[q].stage = "consuming" => work'[q].run \in Images'
    <3>1. CASE q = r
      BY <3>1, <2>1, <1>3, <1>7, <1>9, Zenon
    <3>2. CASE q # r
      <4>1. work'[q] = work[q]
        BY <3>2, <1>4, Zenon
      <4>2. /\ work[q].stage \in {"consuming", "calling"} => Usable
            /\ work[q].stage \in {"consuming", "refused", "doomed"} => work[q].run \notin InChild
            /\ work[q].stage = "consuming" => work[q].run \in Images
        BY ZenonT(30), Zenon DEF Dispatched
      <4> QED
        BY <4>1, <4>2, <1>5, Zenon
    <3> QED
      BY <3>1, <3>2, ZenonT(30)
  <2> QED
    BY <1>1, <1>7, <1>8, <2>2, Zenon DEF Dispatched
<1>11. CallOrder'
  BY <1>1, <1>5, Zenon DEF CallOrder
<1>12. Cancelled'
  BY <1>1, <1>5, <1>7, Zenon DEF Cancelled, IsRoot
<1>13. RootIsActive'
  BY <1>5, <1>7, Zenon DEF RootIsActive, IsRoot
<1>14. ReleasedWithChild'
  <2> SUFFICES ASSUME ~ ExitFirst, sup \in {"down", "broken"}, NEW m \in messages'
               PROVE  \E q \in Request : work'[q] = [stage |-> "doomed", run |-> m]
    BY <1>1, Zenon DEF ReleasedWithChild
  <2>1. CASE m = n
    BY <2>1, <1>3, <1>4, Zenon DEF Usable
  <2>2. CASE m # n
    <3>1. PICK q \in Request : work[q] = [stage |-> "doomed", run |-> m]
      BY <2>2, <1>4, ZenonT(20) DEF ReleasedWithChild
    <3>2. work[q].stage = "doomed"
      BY ONLY <3>1
    <3>3. q # r
      BY <3>2, <1>4, Zenon
    <3> QED
      BY <3>1, <3>3, <1>4, Zenon
  <2> QED
    BY <2>1, <2>2, Zenon
<1>15. PromptTypeOK'
  <2>1. /\ started' \in 0 .. MaxRun /\ messages' \subseteq 1 .. started' /\ accepted' \subseteq 1 .. started'
        /\ tagged' \subseteq 1 .. started' /\ working' \subseteq 1 .. started'
    <3>0. started \in 0 .. MaxRun /\ started' = n /\ started' = started + 1 /\ n \in 1 .. MaxRun
      BY <1>4, <1>6, Zenon DEF Run
    <3>1. 1 .. started' = (1 .. started) \cup {n}
      BY ONLY <3>0
    <3>2. started' \in 0 .. MaxRun
      BY ONLY <3>0
    <3>3. messages' \subseteq 1 .. started' /\ accepted' \subseteq 1 .. started'
      BY <1>1, <1>4, <1>6, <3>1, Zenon
    <3>4. tagged' \subseteq 1 .. started' /\ working' \subseteq 1 .. started'
      BY <1>1, <1>6, <3>1, Zenon
    <3> QED
      BY <3>2, <3>3, <3>4, Zenon
  <2>2. active' \in messages' \cup {0}
    <3>1. active \in messages \cup {0}
      BY <1>6, Zenon
    <3>2. active' \in {n, active}
      BY <1>2, Zenon DEF Register
    <3> QED
      BY <3>1, <3>2, <1>4, Zenon
  <2>3. cancel' \in [stage : {"idle", "starting", "calling", "acked"}, target : 0 .. started']
    <3>1. cancel' = cancel /\ cancel \in [stage : {"idle", "starting", "calling", "acked"}, target : 0 .. started]
      BY <1>1, Zenon DEF PromptTypeOK
    <3>2. started \in Nat /\ started' = started + 1
      BY <1>4, StartedNat, Zenon
    <3> QED
      BY ONLY <3>1, <3>2
  <2>4. sup' \in {"down", "up", "mute", "broken", "stopping"} /\ seen' \in BOOLEAN
        /\ mutating' \in BOOLEAN /\ closed' \in BOOLEAN
    BY <1>1, Zenon DEF PromptTypeOK
  <2> QED
    BY <1>1, <1>4, <1>5, <2>1, <2>2, <2>3, <2>4, ZenonT(30) DEF PromptTypeOK, ExecutionInv
<1> QED
  BY <1>4, <1>10, <1>11, <1>12, <1>13, <1>14, <1>15, Zenon

-----------------------------------------------------------------------------
(* Deliveries *)

\* A delivery that starts no handler changes at most that it waits for one.
LEMMA AnsweredKeeps ==
  ASSUME PromptInv, ExecutionInv', NEW r \in Request, NEW c \in Command, NEW p \in Payload,
         AnswerLive(r, c, p) \/ AnswerStored(r, c, p) \/ AnswerRefused(r, c, p)
  PROVE  PromptInv'
<1> USE DEF PromptInv
<1>1. UNCHANGED promptVars
  BY Zenon DEF AnswerLive, AnswerStored, AnswerRefused
<1>2. req \in [Request -> Handler]
  BY Zenon DEF PromptTypeOK, TypeOK
<1>3. req' = req \/ (Free(r) /\ Hold(r, "waiting", c, p))
  BY Zenon DEF AnswerLive, AnswerStored, AnswerRefused, AnswerEarly, BeginConflict, BeginReplay,
         BeginPending, FinishAtOnce
<1>4. \A q \in Request : req'[q].pc = "running" => req'[q] = req[q]
  BY <1>2, <1>3 DEF Hold
<1>5. \A q \in Request : req[q].pc = "running" => req'[q] = req[q]
  BY <1>2, <1>3, Zenon DEF Hold, Free
<1>6. NoWork.run = 0
  BY Zenon DEF NoWork
<1>7. Owners'
  <2>1. ASSUME NEW q \in Request
        PROVE  /\ req'[q].pc # "running" => work[q] = NoWork
               /\ work[q].run # 0 => req'[q] = req[q]
    BY <1>5, <1>6, Zenon DEF Owners
  <2>2. work' = work /\ run' = run /\ accepted' = accepted
    BY <1>1, Zenon DEF promptVars, lifeVars
  <2> QED
    BY <2>1, <2>2, ZenonT(30) DEF Owners
<1>8. NoSecondExecution'
  <2>1. messages' = messages /\ run' = run /\ work' = work
    BY <1>1, Zenon DEF promptVars, lifeVars
  <2> SUFFICES ASSUME NEW m \in messages, NEW q \in Request,
                      req'[q].pc = "running", req'[q].cmd = run[m].cmd
               PROVE  work[q].run = m
    BY <2>1, Zenon DEF NoSecondExecution
  <2>2. req[q].pc = "running" /\ req[q].cmd = run[m].cmd
    BY <1>4, Zenon
  <2> QED
    BY <2>2, Zenon DEF NoSecondExecution
<1>9. Lifecycles' /\ ReleasedWithChild'
  <2>1. /\ messages' = messages /\ run' = run /\ work' = work /\ accepted' = accepted
        /\ active' = active /\ started' = started /\ sup' = sup
    BY <1>1, Zenon DEF promptVars, lifeVars, childVars
  <2> QED
    BY <2>1, Zenon DEF Lifecycles, ReleasedWithChild, IsRoot
<1>10. Dispatched' /\ CallOrder' /\ Cancelled' /\ RootIsActive'
  BY <1>1, PromptVarsKept, Zenon
<1>11. PromptTypeOK'
  BY <1>1, ZenonT(30) DEF promptVars, lifeVars, childVars, closeVars, PromptTypeOK, Call, ExecutionInv
<1> QED
  BY <1>7, <1>8, <1>9, <1>10, <1>11, Zenon

\* A delivery that starts its handler executes a command that nothing else
\* executes: an execution in the child has its handler still, or was accepted.
LEMMA AdmitKeeps ==
  ASSUME PromptInv, ExecutionInv', NEW r \in Request, NEW c \in Command, NEW p \in Payload,
         Admit(r, c, p)
  PROVE  PromptInv'
<1> USE DEF PromptInv
<1>1. /\ UNCHANGED <<lifeVars, cancel, childVars, closeVars>>
      /\ Free(r) /\ Forgotten(c) /\ ~ LiveAccepted(c)
      /\ req' = [req EXCEPT ![r] = [pc |-> "running", cmd |-> c, payload |-> p]]
      /\ work' = [work EXCEPT ![r] = [stage |-> "starting", run |-> 0]]
  BY Zenon DEF Admit, BeginNew, Hold, MoveTo
<1>2. /\ req \in [Request -> Handler] /\ work \in [Request -> [stage : Stage, run : 0 .. started]]
      /\ started \in Nat /\ messages \subseteq 1 .. started
  BY StartedNat, Zenon DEF PromptTypeOK, TypeOK
<1>3. /\ req'[r].pc = "running" /\ req'[r].cmd = c
      /\ \A q \in Request \ {r} : req'[q] = req[q] /\ work'[q] = work[q]
      /\ work'[r].stage = "starting" /\ work'[r].run = 0
      /\ work' \in [Request -> [stage : Stage, run : 0 .. started]]
  <2>1. "starting" \in Stage
    BY Zenon DEF Stage
  <2> QED
    BY <1>1, <1>2, <2>1
<1>4. work[r] = NoWork /\ NoWork.run = 0
  BY <1>1, Zenon DEF Free, Owners, NoWork
<1>5. /\ run' = run /\ accepted' = accepted /\ messages' = messages /\ started' = started
      /\ active' = active /\ stdin' = stdin /\ working' = working /\ sup' = sup /\ cancel' = cancel
  BY <1>1, Zenon DEF lifeVars, childVars
<1>6. \A m \in messages : m # 0
  <2>1. started \in Nat
    BY <1>2, Zenon
  <2>2. \A m \in 1 .. started : m # 0
    BY ONLY <2>1
  <2> QED
    BY <1>2, <2>2, Zenon
<1>7. ~ Pending(c)
  <2>1. Pruned(entries, older) \subseteq Completed(entries)
    BY PrunedCompleted, Zenon
  <2> QED
    BY <1>1, <2>1, Zenon DEF Forgotten, Pending, Completed
<1>8. ASSUME NEW m \in messages PROVE run[m].cmd # c
  <2> SUFFICES ASSUME run[m].cmd = c PROVE FALSE
    BY Zenon
  <2>1. m \notin accepted
    BY <1>1, Zenon DEF LiveAccepted
  <2>2. PICK q \in Request : work[q].run = m
    BY <2>1, Zenon DEF Lifecycles
  <2>3. req[q].pc = "running" /\ run[m] = [cmd |-> req[q].cmd, payload |-> req[q].payload]
    BY <2>2, <1>4, <1>6, ZenonT(30) DEF Owners
  <2>4. req[q].cmd = c
    BY <2>3
  <2> QED
    BY <2>3, <2>4, <1>7, Zenon DEF ExecutionInv, RunnersPending
<1>9. Owners'
  <2>1. ASSUME NEW q \in Request
        PROVE  /\ req'[q].pc # "running" => work'[q] = NoWork
               /\ work'[q].stage \in {"none", "starting"} <=> work'[q].run = 0
               /\ work'[q].run # 0 =>
                    /\ run'[work'[q].run] = [cmd |-> req'[q].cmd, payload |-> req'[q].payload]
                    /\ work'[q].run \notin accepted'
    <3>1. CASE q = r
      BY <3>1, <1>3, Zenon
    <3>2. CASE q # r
      <4>1. work'[q] = work[q] /\ req'[q] = req[q]
        BY <3>2, <1>3, Zenon
      <4> QED
        BY <4>1, <1>5, ZenonT(20) DEF Owners
    <3> QED
      BY <3>1, <3>2, Zenon
  <2>2. ASSUME NEW q \in Request, NEW u \in Request,
               work'[q].run = work'[u].run, work'[q].run # 0
        PROVE  q = u
    <3>1. q # r /\ u # r
      BY <2>2, <1>3, Zenon
    <3>2. work[q].run = work[u].run /\ work[q].run # 0
      BY <3>1, <2>2, <1>3, Zenon
    <3> QED
      BY <3>2, Zenon DEF Owners
  <2> QED
    BY <2>1, <2>2, Zenon DEF Owners
<1>10. Lifecycles'
  <2>1. ASSUME NEW n \in messages \ accepted PROVE \E q \in Request : work'[q].run = n
    <3>1. PICK q \in Request : work[q].run = n
      BY Zenon DEF Lifecycles
    <3>2. q # r
      BY <3>1, <1>4, <1>6, Zenon
    <3> QED
      BY <3>1, <3>2, <1>3, Zenon
  <2> QED
    BY <2>1, <1>5, Zenon DEF Lifecycles, IsRoot
<1>11. NoSecondExecution'
  <2> SUFFICES ASSUME NEW m \in messages, NEW q \in Request,
                      req'[q].pc = "running", req'[q].cmd = run[m].cmd
               PROVE  work'[q].run = m
    BY <1>5, Zenon DEF NoSecondExecution
  <2>1. q # r /\ req'[q] = req[q] /\ work'[q] = work[q]
    BY <1>3, <1>8, Zenon
  <2>2. req[q].pc = "running" /\ req[q].cmd = run[m].cmd
    BY <2>1, Zenon
  <2> QED
    BY <2>1, <2>2, Zenon DEF NoSecondExecution
<1>12. ReleasedWithChild'
  <2> SUFFICES ASSUME ~ ExitFirst, sup \in {"down", "broken"}, NEW m \in messages
               PROVE  \E q \in Request : work'[q] = [stage |-> "doomed", run |-> m]
    BY <1>5, Zenon DEF ReleasedWithChild
  <2>1. PICK q \in Request : work[q] = [stage |-> "doomed", run |-> m]
    BY Zenon DEF ReleasedWithChild
  <2>2. work[q].run = m
    BY ONLY <2>1
  <2>3. q # r
    BY <2>2, <1>4, <1>6, Zenon
  <2> QED
    BY <2>1, <2>3, <1>3, Zenon
<1>13. /\ stdin' \in Seq(Call(started)) /\ InChild' = InChild
       /\ Dispatched' /\ CallOrder' /\ Cancelled'
  <2>1. \A q \in Request : work'[q] = work[q] \/ work'[q].stage \in {"none", "starting"}
    BY <1>3, Zenon
  <2>2. stdin' \in {stdin, Advance(stdin), Refresh(stdin), Terminal(stdin)}
    BY <1>5, Zenon
  <2> QED
    BY <1>5, <2>1, <2>2, CallsKept, Zenon
<1>14. RootIsActive'
  BY <1>5, <1>13, RootKept, Zenon
<1>15. PromptTypeOK'
  BY <1>1, <1>3, <1>13, ZenonT(30) DEF lifeVars, childVars, closeVars, PromptTypeOK, ExecutionInv
<1> QED
  BY <1>9, <1>10, <1>11, <1>12, <1>13, <1>14, <1>15, Zenon

-----------------------------------------------------------------------------
(* The invariant *)

\* Nothing is registered, written or under way at first.
LEMMA PromptInitially == PromptInit => PromptInv
<1> SUFFICES ASSUME PromptInit PROVE PromptInv
  OBVIOUS
<1>1. Init => ExecutionInv
  BY ExecutionInitially, Zenon
<1>2. /\ started = 0 /\ messages = {} /\ active = 0 /\ accepted = {} /\ tagged = {}
      /\ run = [n \in Run |-> None] /\ work = [r \in Request |-> NoWork] /\ cancel = NoCancel
      /\ sup = "down" /\ stdin = <<>> /\ working = {} /\ Init
      /\ seen = FALSE /\ mutating = FALSE /\ closed = FALSE
  BY Zenon DEF PromptInit
<1>3. NoWork.stage = "none" /\ NoWork.run = 0 /\ NoWork \in [stage : Stage, run : 0 .. 0]
  BY DEF NoWork, Stage
<1>4. PromptTypeOK
  <2>1. TypeOK /\ started \in 0 .. MaxRun
    BY <1>1, <1>2, PendingAssumption DEF ExecutionInv
  <2>2. /\ run \in [Run -> [cmd : Command, payload : Payload] \cup {None}]
        /\ work \in [Request -> [stage : Stage, run : 0 .. started]]
        /\ stdin \in Seq(Call(started))
    BY <1>2, <1>3
  <2>3. cancel \in [stage : {"idle", "starting", "calling", "acked"}, target : 0 .. started]
    <3>1. started = 0 /\ cancel = NoCancel
      BY <1>2, Zenon
    <3> QED
      BY ONLY <3>1 DEF NoCancel
  <2> QED
    BY <1>2, <2>1, <2>2, <2>3, Zenon DEF PromptTypeOK
<1>5. Owners /\ Lifecycles /\ NoSecondExecution /\ ReleasedWithChild
  <2>1. started = 0 /\ messages = {} /\ active = 0 /\ accepted = {} /\ \A r \in Request : work[r] = NoWork
    BY <1>2, Zenon
  <2>2. 1 .. started = {}
    BY ONLY <2>1
  <2> QED
    BY <2>1, <2>2, <1>3, Zenon DEF Owners, Lifecycles, NoSecondExecution, ReleasedWithChild
<1>6. PromptsIn(stdin) = {} /\ ~ HasCall(stdin, "abort") /\ InOrder(stdin, Images, cancel.target)
  <2>1. stdin = <<>>
    BY <1>2, Zenon
  <2> QED
    BY <2>1, NoCalls, Zenon
<1>7. Dispatched /\ CallOrder /\ Cancelled /\ RootIsActive
  BY <1>2, <1>3, <1>6, Zenon
     DEF Dispatched, CallOrder, Cancelled, RootIsActive, InChild, Written, Usable, NoCancel
<1> QED
  BY <1>1, <1>2, <1>4, <1>5, <1>7, Zenon DEF PromptInv

\* Every step of the host, the child and the handlers preserves PromptInv.
LEMMA PromptStep ==
  ASSUME PromptInv, [PromptNext]_allVars
  PROVE  PromptInv'
<1>1. ExecutionInv'
  BY PromptStepIsStep, ExecutionStep, Zenon DEF PromptInv
<1>2. ASSUME NEW r \in Request, Deliver(r) PROVE PromptInv'
  BY <1>1, <1>2, AnsweredKeeps, AdmitKeeps, Zenon DEF Deliver
<1>3. ASSUME NEW r \in Request, Proceed(r) PROVE PromptInv'
  <2>1. \A o \in {"failed", "accepted"} : o \in Outcome
    BY OutcomeAssumption, Zenon
  <2>2. CASE ResumeDispatch(r) \/ ResumeConsume(r) \/ ConsumedDispatch(r)
    BY <1>1, <2>2, ResumeDispatchKeeps, ResumeConsumeKeeps, ConsumedDispatchKeeps, Zenon
  <2>3. CASE FailStart(r) \/ ResumeRefused(r) \/ ResumeThrows(r) \/ HandlerThrows(r)
               \/ HandlerAccepts(r)
    BY <1>1, <2>1, <2>3, HandlerEndsKeeps, Zenon
  <2>4. CASE \E o \in {"failed", "accepted"} : HandlerReleases(r, o)
    BY <1>1, <2>1, <2>4, HandlerEndsKeeps, Zenon
  <2> QED
    BY <1>3, <2>2, <2>3, <2>4, Zenon DEF Proceed
<1>4. CASE CancelBegin \/ CancelProceeds
  BY <1>1, <1>4, CancelBeginKeeps, CancelResumeKeeps, CancelThrowsKeeps, CancelReleasesKeeps, Zenon
     DEF CancelProceeds
<1>5. CASE StartSupervisor \/ Mute
  BY <1>1, <1>5, StartSupervisorKeeps, Zenon
<1>6. CASE ChildReplies
  BY <1>1, <1>6, ChildAnswersPromptKeeps, ChildAbortsKeeps, ChildReportsStateKeeps,
     ChildRefusesStateKeeps, Zenon DEF ChildReplies
<1>7. CASE \E n \in Run : ChildWorks(n)
  BY <1>1, <1>7, ChildWorksKeeps, Zenon
<1>8. CASE Crash \/ Watchdog \/ ExitUnnoticed \/ CloseStop
  BY <1>1, <1>8, CrashKeeps, StopKeeps, Zenon
<1>9. CASE Exit \/ CloseBegin \/ CloseDone \/ CloseFails
  BY <1>1, <1>9, ExitKeeps, Zenon
<1>10. CASE UNCHANGED allVars
  <2> USE DEF PromptInv
  <2>1. UNCHANGED promptVars /\ UNCHANGED vars
    BY <1>10, Zenon DEF allVars
  <2>2. UNCHANGED <<req, run, accepted, work, messages, active, started>>
    BY <2>1, Zenon DEF promptVars, lifeVars, vars
  <2>3. Owners' /\ Lifecycles' /\ NoSecondExecution' /\ ReleasedWithChild'
    <3>1. sup' = sup
      BY <2>1, Zenon DEF promptVars, childVars
    <3>2. messages' \subseteq messages /\ (active' = 0 \/ (active' = active /\ active \in messages'))
      BY <2>2, Zenon DEF PromptTypeOK
    <3>3. \A r \in Request : work'[r] = work[r]
      BY <2>2, Zenon
    <3> QED
      BY <2>2, <3>1, <3>2, <3>3, QuietKeeps, Zenon
  <2>4. Dispatched' /\ CallOrder' /\ Cancelled' /\ RootIsActive'
    BY <2>1, PromptVarsKept, Zenon
  <2>6. PromptTypeOK'
    BY <1>1, <2>1, ZenonT(30)
       DEF promptVars, lifeVars, childVars, closeVars, PromptTypeOK, Call, ExecutionInv
  <2> QED
    BY <1>1, <2>3, <2>4, <2>6, Zenon
<1> QED
  BY <1>2, <1>3, <1>4, <1>5, <1>6, <1>7, <1>8, <1>9, <1>10, Zenon DEF PromptNext, CloseProceeds

\* Handlers, lifecycles, the calls in the child's stdin and what it works on
\* agree in every state, for every number of deliveries, prompts and lifecycles.
THEOREM PromptInvariant == PromptSpec => []PromptInv
<1>1. PromptInit => PromptInv
  BY PromptInitially, Zenon
<1>2. PromptInv /\ [PromptNext]_allVars => PromptInv'
  BY PromptStep, Zenon
<1> QED
  BY <1>1, <1>2, PTL DEF PromptSpec

\* Every variable of the message commands keeps its type; a lifecycle is used only
\* after register() made it.
THEOREM PromptTypes == PromptSpec => []PromptTypeOK
<1>1. PromptInv => PromptTypeOK
  BY Zenon DEF PromptInv
<1> QED
  BY <1>1, PromptInvariant, PTL

\* A root prompt without images that the child was sent and has not finished is
\* the session's active prompt: no second one is admitted beside it.
THEOREM ChildRootIsActive == PromptSpec => []RootIsActive
<1>1. PromptInv => RootIsActive
  BY Zenon DEF PromptInv
<1> QED
  BY <1>1, PromptInvariant, PTL

\* While the lifecycle of a command is registered, no other delivery of the
\* command executes, even when the outcome store has forgotten it.
THEOREM OneLifecycle == PromptSpec => []NoSecondExecution
<1>1. PromptInv => NoSecondExecution
  BY Zenon DEF PromptInv
<1> QED
  BY <1>1, PromptInvariant, PTL

\* When the failure of a child is always seen before its exit, no lifecycle
\* outlives the child: a session whose handlers are done takes prompts again.
THEOREM NothingLeftBehind ==
  ASSUME ~ ExitFirst
  PROVE  PromptSpec => []NothingOutlivesChild
<1>1. PromptInv => NothingOutlivesChild
  <2> SUFFICES ASSUME PromptInv, sup = "down", \A r \in Request : req[r].pc = "idle",
                      NEW n \in messages
               PROVE  FALSE
    BY Zenon DEF NothingOutlivesChild
  <2>1. PICK r \in Request : work[r] = [stage |-> "doomed", run |-> n]
    BY Zenon DEF PromptInv, ReleasedWithChild
  <2>2. work[r].stage = "doomed"
    BY <2>1
  <2>3. work[r] = NoWork
    BY Zenon DEF PromptInv, Owners
  <2> QED
    BY <2>2, <2>3 DEF NoWork
<1> QED
  BY <1>1, PromptInvariant, PTL

\* Where no prompt carries images, the child works on one root prompt at a time:
\* the image uploads are the only way to a second one.
THEOREM OneRootWithoutImages ==
  ASSUME ImagePrompt = {}
  PROVE  PromptSpec => []OneRoot
<1>1. PromptInv => OneRoot
  BY Zenon DEF PromptInv, RootIsActive, OneRoot
<1> QED
  BY <1>1, PromptInvariant, PTL

=============================================================================
