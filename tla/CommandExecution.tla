-------------------------- MODULE CommandExecution --------------------------
(***************************************************************************)
(* How the host executes one command frame: `#commandInner` of             *)
(* packages/host-service/src/server.ts over the IdempotencyStore of        *)
(* idempotency.ts.                                                         *)
(*                                                                         *)
(* Clients may deliver the same commandId any number of times, with the    *)
(* same payload or with another one, while an earlier delivery executes or *)
(* after it was answered.  The store joins concurrent deliveries to one    *)
(* execution and replays completed outcomes until they expire or are       *)
(* displaced.  What a command does is abstracted to its outcome; module    *)
(* PromptExecution fills in the execution of the message commands.         *)
(***************************************************************************)
EXTENDS Integers, FiniteSets

CONSTANTS
  Request,       \* handlers of deliveries (requestId), reused once they answered
  Command,       \* command identities (commandId)
  Payload,       \* semantic payloads: what payloadHash tells apart
  Outcome,       \* what an execution can answer
  Ack,           \* answers given before the store is consulted
  Conflict,      \* the idempotency_conflict answer
  None,
  Ttl,           \* completedTtlMs
  MaxCompleted,  \* maxCompletedEntries
  MaxTime        \* bound on the clock

ASSUME StoreAssumption == Ttl \in Nat \ {0} /\ MaxCompleted \in Nat \ {0}
ASSUME TimeAssumption == MaxTime \in Nat
ASSUME AnswerAssumption ==
  /\ None \notin Outcome \cup Ack \cup Command \cup Payload
  /\ Conflict \notin Outcome \cup Ack
  /\ Conflict # None

VARIABLES
  entries,  \* IdempotencyStore.#entries: what is known of each command
  older,    \* its iteration order: <<c, d>> when c comes before d
  now,      \* the store's clock (Date.now, which may be set back)
  req,      \* the handler of each delivery
  reply     \* the response the latest step sent, if it sent one

storeVars == <<entries, older, now>>

vars == <<entries, older, now, req, reply>>

Time == 0 .. MaxTime

Answer == Outcome \cup Ack \cup {Conflict}

\* Answers that need no entry of the store.
EarlyAnswer == Ack \cup {Conflict}

-----------------------------------------------------------------------------
(* IdempotencyStore *)

\* An entry is pending until it has an outcome.
Entry == [hash : Payload, outcome : Outcome \cup {None}, at : Time]

ASSUME EntryAssumption == None \notin Entry

Known(e) == {c \in Command : e[c] # None}

Completed(e) == {c \in Known(e) : e[c].outcome # None}

Expired(e) == {c \in Completed(e) : now >= e[c].at /\ now - e[c].at >= Ttl}

\* A prune that counts pending commands against the limit and evicts them too.
PrunedAlike(e, o) ==
  LET fresh == Known(e) \ Expired(e)
  IN  Expired(e) \cup
      {c \in fresh : Cardinality({d \in fresh : <<c, d>> \in o}) >= MaxCompleted}

\* The completed entries #prune deletes from e in the order o: the expired ones,
\* then the least recently used until MaxCompleted remain.
Pruned(e, o) ==
  LET fresh == Completed(e) \ Expired(e)
  IN  Expired(e) \cup
      {c \in fresh : Cardinality({d \in fresh : <<c, d>> \in o}) >= MaxCompleted}

EntriesWithout(e, gone) == [c \in Command |-> IF c \in gone THEN None ELSE e[c]]

OrderWithout(o, gone) == {p \in o : p[1] \notin gone /\ p[2] \notin gone}

\* Touching without moving: eviction in order of completion.
TouchNothing(e, o, c) == o

\* Deleting a Map key and setting it again moves it to the end.
Touch(e, o, c) ==
  {p \in o : c \notin {p[1], p[2]}} \cup {<<d, c>> : d \in Known(e) \ {c}}

-----------------------------------------------------------------------------
(* The handler of one delivery *)

Idle == [pc |-> "idle", cmd |-> None, payload |-> None]

Handler == {Idle} \cup [pc : {"waiting", "running"}, cmd : Command, payload : Payload]

Response == [cmd : Command, payload : Payload, answer : Answer]

\* A handler that has answered is free for the next delivery.
Free(r) == req[r].pc = "idle"

Hold(r, pc, c, p) ==
  /\ req' = [req EXCEPT ![r] = [pc |-> pc, cmd |-> c, payload |-> p]]
  /\ reply' = None

\* A response frame that lost its outcome.
RespondBlank(c, p, a) == reply' = [cmd |-> c, payload |-> p, answer |-> None]

Respond(c, p, a) == reply' = [cmd |-> c, payload |-> p, answer |-> a]

\* The checks before the store is consulted (host, feature, capability,
\* session inventory, observer barrier), and accepted prompts.
AnswerEarly(r, c, p, a) ==
  /\ Free(r)
  /\ Respond(c, p, a)
  /\ UNCHANGED <<storeVars, req>>

\* The store after the prune that opens begin().
PruneStore ==
  LET gone == Pruned(entries, older)
  IN  /\ entries' = EntriesWithout(entries, gone)
      /\ older' = OrderWithout(older, gone)

Forgotten(c) == entries[c] = None \/ c \in Pruned(entries, older)

\* Comparing nothing but the identity.
AnyPayload(c, p) == TRUE

SamePayload(c, p) == entries[c].hash = p

Conflicting(c, p) == entries[c] # None /\ ~ SamePayload(c, p) /\ ~ Forgotten(c)

BeginNew(r, c, p) ==
  LET gone == Pruned(entries, older)
  IN  /\ Free(r)
      /\ Forgotten(c)
      /\ entries' = [EntriesWithout(entries, gone) EXCEPT
                       ![c] = [hash |-> p, outcome |-> None, at |-> 0]]
      /\ older' = OrderWithout(older, gone)
                    \cup {<<d, c>> : d \in Known(entries) \ (gone \cup {c})}
      /\ Hold(r, "running", c, p)
      /\ UNCHANGED now

BeginConflict(r, c, p) ==
  /\ Free(r)
  /\ Conflicting(c, p)
  /\ PruneStore
  /\ Respond(c, p, Conflict)
  /\ UNCHANGED <<now, req>>

\* A replay that restarts the retention period of the outcome.
ReplayRestamped(r, c, p) ==
  LET gone == Pruned(entries, older)
  IN  /\ Free(r)
      /\ ~ Forgotten(c)
      /\ SamePayload(c, p)
      /\ c \in Completed(entries)
      /\ entries' = [EntriesWithout(entries, gone) EXCEPT ![c].at = now]
      /\ older' = OrderWithout(Touch(entries, older, c), gone)
      /\ Respond(c, p, entries[c].outcome)
      /\ UNCHANGED <<now, req>>

BeginReplay(r, c, p) ==
  LET gone == Pruned(entries, older)
  IN  /\ Free(r)
      /\ ~ Forgotten(c)
      /\ SamePayload(c, p)
      /\ c \in Completed(entries)
      /\ entries' = EntriesWithout(entries, gone)
      /\ older' = OrderWithout(Touch(entries, older, c), gone)
      /\ Respond(c, p, entries[c].outcome)
      /\ UNCHANGED <<now, req>>

BeginPending(r, c, p) ==
  /\ Free(r)
  /\ ~ Forgotten(c)
  /\ SamePayload(c, p)
  /\ c \notin Completed(entries)
  /\ PruneStore
  /\ Hold(r, "waiting", c, p)
  /\ UNCHANGED now

\* complete(): the first outcome of an entry stays; settling touches the entry
\* and prunes.  The prune before it drops nothing this one would keep.
Complete(c, p, o) ==
  IF c \in Completed(entries) /\ ~ Forgotten(c) THEN PruneStore
  ELSE LET settled == [entries EXCEPT ![c] = [hash |-> p, outcome |-> o, at |-> now]]
           touched == Touch(entries, older, c)
           gone == Pruned(settled, touched)
       IN  /\ entries' = EntriesWithout(settled, gone)
           /\ older' = OrderWithout(touched, gone)

\* Settling answers the delivery that ran the command and resolves the gate
\* that the joined deliveries await.
Resolve(r) ==
  req' = [q \in Request |->
            IF q = r \/ (req[q].pc = "waiting" /\ req[q].cmd = req[r].cmd)
            THEN Idle
            ELSE req[q]]

\* finish(): the outcome is stored and every delivery that waits gets it.
\* complete() throws when the entry belongs to another payload.
Finish(r, o) ==
  LET c == req[r].cmd
      p == req[r].payload
  IN  /\ req[r].pc = "running"
      /\ ~ Conflicting(c, p)
      /\ Complete(c, p, o)
      /\ Resolve(r)
      /\ Respond(c, p, o)
      /\ UNCHANGED now

\* A command refused between begin() and its first await: invalid arguments,
\* a wrong revision, an archived session, a lifecycle mutation in progress.
FinishAtOnce(r, c, p, o) ==
  /\ Free(r)
  /\ Forgotten(c)
  /\ Complete(c, p, o)
  /\ Respond(c, p, o)
  /\ UNCHANGED <<now, req>>

SetClock ==
  /\ now' \in Time \ {now}
  /\ reply' = None
  /\ UNCHANGED <<entries, older, req>>

Begin(r) ==
  \E c \in Command, p \in Payload :
    \/ \E a \in EarlyAnswer : AnswerEarly(r, c, p, a)
    \/ \E o \in Outcome : FinishAtOnce(r, c, p, o)
    \/ BeginNew(r, c, p)
    \/ BeginConflict(r, c, p)
    \/ BeginReplay(r, c, p)
    \/ BeginPending(r, c, p)

Conclude(r) == \E o \in Outcome : Finish(r, o)

Init ==
  /\ entries = [c \in Command |-> None]
  /\ older = {}
  /\ now = 0
  /\ req = [r \in Request |-> Idle]
  /\ reply = None

Next == SetClock \/ \E r \in Request : Begin(r) \/ Conclude(r)

Spec == Init /\ [][Next]_vars

-----------------------------------------------------------------------------
(* The store and the handlers agree on what is being executed *)

Pending(c) == entries[c] # None /\ entries[c].outcome = None

Runs(r, c, p) == req[r] = [pc |-> "running", cmd |-> c, payload |-> p]

\* The entry of a command that executes stays pending, and is its own.
RunnersPending ==
  \A r \in Request : req[r].pc = "running" =>
    Pending(req[r].cmd) /\ entries[req[r].cmd].hash = req[r].payload

\* A pending entry is being executed.
PendingRuns ==
  \A c \in Command : Pending(c) => \E r \in Request : Runs(r, c, entries[c].hash)

-----------------------------------------------------------------------------
(* Properties *)

\* Every variable keeps the shape idempotency.ts and the handlers give it.
TypeOK ==
  /\ entries \in [Command -> Entry \cup {None}]
  /\ older \subseteq Command \X Command
  /\ now \in Time
  /\ req \in [Request -> Handler]
  /\ reply \in Response \cup {None}

\* begin() lets one delivery of a commandId execute at a time, whatever the
\* prunes of other commands drop in between (idempotency.ts:63).
SingleFlight ==
  \A r, q \in Request :
    req[r].pc = "running" /\ req[q].pc = "running" /\ req[r].cmd = req[q].cmd => r = q

\* A delivery that joined a pending command waits for an execution of its own
\* payload that is still going on, so its gate can still be resolved.
WaitersHaveRunner ==
  \A q \in Request : req[q].pc = "waiting" =>
    \E r \in Request : /\ req[r].pc = "running"
                       /\ req[r].cmd = req[q].cmd
                       /\ req[r].payload = req[q].payload

\* Together inductive.
ExecutionInv == TypeOK /\ RunnersPending /\ PendingRuns /\ SingleFlight /\ WaitersHaveRunner

=============================================================================
