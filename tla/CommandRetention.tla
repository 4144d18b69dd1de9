-------------------------- MODULE CommandRetention --------------------------
(***************************************************************************)
(* CommandExecution with a history of what was executed and used, to state *)
(* how long the IdempotencyStore remembers an outcome and that what it     *)
(* remembers is true.                                                      *)
(***************************************************************************)
EXTENDS CommandExecution

\* A finished execution: what it executed, what it answered and when.
Execution == [payload : Payload, answer : Outcome, at : Time]

ASSUME ExecutionAssumption == None \notin Execution

VARIABLES
  last,   \* the latest finished execution of each command
  recent  \* <<c, d>> when d was finished or replayed after c was

historyVars == <<last, recent>>

Used(c) ==
  recent' = {p \in recent : c \notin {p[1], p[2]}} \cup {<<d, c>> : d \in Command \ {c}}

Executed(c, p, o) ==
  /\ last' = [last EXCEPT ![c] = [payload |-> p, answer |-> o, at |-> now]]
  /\ Used(c)

NewHistory(r) ==
  \/ \E c \in Command, p \in Payload, o \in Outcome :
       FinishAtOnce(r, c, p, o) /\ Executed(c, p, o)
  \/ \E o \in Outcome : Finish(r, o) /\ Executed(req[r].cmd, req[r].payload, o)
  \/ \E c \in Command, p \in Payload :
       BeginReplay(r, c, p) /\ Used(c) /\ UNCHANGED last

SameHistory(r) ==
  /\ \E c \in Command, p \in Payload :
       \/ \E a \in EarlyAnswer : AnswerEarly(r, c, p, a)
       \/ BeginNew(r, c, p)
       \/ BeginConflict(r, c, p)
       \/ BeginPending(r, c, p)
  /\ UNCHANGED historyVars

RetentionInit ==
  /\ Init
  /\ last = [c \in Command |-> None]
  /\ recent = {}

RetentionNext ==
  \/ SetClock /\ UNCHANGED historyVars
  \/ \E r \in Request : NewHistory(r) \/ SameHistory(r)

RetentionSpec == RetentionInit /\ [][RetentionNext]_<<vars, historyVars>>

\* An answer that comes from the store or from a joined execution is the answer
\* of the latest execution of the same command with the same payload, and a
\* replayed one is younger than the retention period: a replay does not extend
\* the deadline (idempotency.ts begin).
AnswersAgree ==
  reply # None =>
    \/ reply.answer \in EarlyAnswer
    \/ LET run == last[reply.cmd]
       IN  /\ run # None
           /\ reply.payload = run.payload
           /\ reply.answer = run.answer
           /\ now < run.at \/ now - run.at < Ttl

\* What an outcome is dropped for: it has expired, or MaxCompleted outcomes used
\* more recently are retained.
Due(c) ==
  \/ now - last[c].at >= Ttl
  \/ Cardinality({d \in Completed(entries') : <<c, d>> \in recent'}) >= MaxCompleted

\* A completed outcome is dropped only when it is due: until then its command
\* cannot execute again (idempotency.ts #prune).
DroppedWhenDue ==
  [][\A c \in Completed(entries) \ Completed(entries') : Due(c)]_<<vars, historyVars>>

-----------------------------------------------------------------------------
(* What keeps them: together with AnswersAgree, inductive *)

HistoryType ==
  /\ last \in [Command -> Execution \cup {None}]
  /\ recent \subseteq Command \X Command

\* The outcome of a completed entry is that of the latest execution.
StoreTrue ==
  \A c \in Completed(entries) :
    /\ last[c] # None
    /\ last[c].payload = entries[c].hash
    /\ last[c].answer = entries[c].outcome
    /\ last[c].at = entries[c].at

\* The order o of the entries S of a Map.
Ordered(S, o) ==
  /\ o \subseteq S \X S
  /\ \A a \in S : <<a, a>> \notin o
  /\ \A a, b, c \in S : <<a, b>> \in o /\ <<b, c>> \in o => <<a, c>> \in o
  /\ \A a, b \in S : a = b \/ <<a, b>> \in o \/ <<b, a>> \in o

\* Completed entries that come later in the Map were used later.
OrderTrue ==
  \A c, d \in Completed(entries) : <<c, d>> \in older => <<c, d>> \in recent

RetentionInv ==
  /\ ExecutionInv
  /\ HistoryType
  /\ StoreTrue
  /\ IsFiniteSet(Known(entries)) /\ Ordered(Known(entries), older)
  /\ OrderTrue
  /\ AnswersAgree

=============================================================================
