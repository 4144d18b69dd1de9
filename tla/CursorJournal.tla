---------------------------- MODULE CursorJournal ----------------------------
(***************************************************************************)
(* CursorJournal of packages/client/src/omp-client-cursor.ts for one       *)
(* session: the cursor the client resumes from, in memory and in the       *)
(* store, with the saves that run behind it, their failures, the eviction  *)
(* of the session by others and the crash of the client.                   *)
(*                                                                         *)
(* A cursor carries, beside its epoch and its sequence number, the line it *)
(* belongs to: a snapshot, or the first event after the client forgot the  *)
(* session, starts a line, and the events that follow it contiguously      *)
(* continue it.  The code does not keep lines; the properties do.          *)
(*                                                                         *)
(* External: the store (a save that fails has changed nothing) and the     *)
(* host (its epoch never returns, and within an epoch the numbers of its   *)
(* log go back only together with a snapshot).                             *)
(***************************************************************************)
EXTENDS Naturals

CONSTANTS
  MaxEpoch,  \* bound on the restarts of the host, kept by Welcome
  MaxSeq,    \* bound on the numbers of the log, kept by Snapshot and Durable
  MaxLine    \* bound on the lines, kept by Snapshot and Durable

ASSUME JournalAssumption == MaxEpoch \in Nat /\ MaxSeq \in Nat /\ MaxLine \in Nat

VARIABLES
  epoch,      \* epochValue of the client, 0 before the first welcome
  hostEpoch,  \* the epoch of the host
  head,       \* the last number of the host's log that a client was sent
  lines,      \* lines started so far
  cursor,     \* records and bySession
  barrier,    \* queue.barrier
  latest,     \* queue.latest
  writing,    \* the record whose save is awaited: queue.running
  saved,      \* what the client knows to be in the store
  stored,     \* the store
  failed      \* the last save that settled failed

journalVars == <<epoch, hostEpoch, head, lines, cursor, barrier, latest, writing, saved, stored,
                 failed>>

NoCursor == [epoch |-> 0, seq |-> 0, line |-> 0]
Cursor == [epoch : Nat, seq : Nat, line : Nat]

\* Types; and a queue that nothing drains is empty.
JournalTypeOK ==
  /\ writing = NoCursor => barrier = NoCursor /\ latest = NoCursor
  /\ epoch \in Nat /\ hostEpoch \in Nat /\ head \in Nat /\ lines \in Nat
  /\ cursor \in Cursor /\ barrier \in Cursor /\ latest \in Cursor
  /\ writing \in Cursor /\ saved \in Cursor /\ stored \in Cursor
  /\ failed \in BOOLEAN

\* A client that was just created, over a store it never wrote.
JournalInit ==
  /\ epoch = 0 /\ hostEpoch = 1 /\ head = 0 /\ lines \in 0 .. MaxLine
  /\ cursor = NoCursor /\ barrier = NoCursor /\ latest = NoCursor
  /\ writing = NoCursor /\ saved = NoCursor /\ stored = NoCursor /\ failed = FALSE

-----------------------------------------------------------------------------
(* The saves                                                                *)

\* What the store is known to hold counts whatever its epoch.
AheadOfSaved(known, record) == known # NoCursor /\ known.seq >= record.seq

\* A save that would not advance the store.
Redundant(known, record) ==
  known # NoCursor /\ known.epoch = record.epoch /\ known.seq >= record.seq

\* Later cursors are written before the reset they follow.
PumpLatest(reset, next, known) ==
  /\ latest' = NoCursor /\ saved' = known
  /\ IF next # NoCursor
     THEN writing' = next /\ barrier' = reset
     ELSE writing' = reset /\ barrier' = NoCursor

\* The loop of drain() up to its next await, on a queue that holds `reset` and
\* `next`, with `known` in the store.
Pump(reset, next, known) ==
  /\ barrier' = NoCursor
  /\ IF reset # NoCursor
     THEN writing' = reset /\ latest' = next /\ saved' = NoCursor
     ELSE /\ latest' = NoCursor /\ saved' = known
          /\ writing' = IF next # NoCursor /\ ~Redundant(known, next) THEN next ELSE NoCursor

\* The queue of remember(), whose drain starts at once when none runs.
Enqueued(record, authoritative) ==
  IF writing = NoCursor
  THEN IF authoritative THEN Pump(record, NoCursor, saved) ELSE Pump(NoCursor, record, saved)
  ELSE /\ barrier' = IF authoritative THEN record ELSE barrier
       /\ latest' = IF authoritative THEN NoCursor ELSE record
       /\ UNCHANGED <<writing, saved>>

\* remember().
Remember(record, authoritative) ==
  /\ cursor' = record /\ head' = record.seq
  /\ Enqueued(record, authoritative)
  /\ UNCHANGED <<epoch, hostEpoch, stored, failed>>

SaveSucceeds ==
  /\ writing # NoCursor
  /\ stored' = writing /\ failed' = FALSE
  /\ Pump(barrier, latest, writing)
  /\ UNCHANGED <<epoch, hostEpoch, head, lines, cursor>>

SaveFails ==
  /\ writing # NoCursor
  /\ failed' = TRUE
  /\ Pump(barrier, latest, saved)
  /\ UNCHANGED <<epoch, hostEpoch, head, lines, cursor, stored>>

-----------------------------------------------------------------------------
(* What the client tells the journal                                        *)

\* acceptSnapshot(), at any number: the host may have rebuilt its log.
Snapshot ==
  /\ lines < MaxLine /\ lines' = lines + 1
  /\ \E n \in 0 .. MaxSeq :
       Remember([epoch |-> hostEpoch, seq |-> n, line |-> lines + 1], TRUE)

\* acceptDurable() of an event that it accepts.
Durable ==
  \/ /\ cursor # NoCursor /\ cursor.epoch = hostEpoch /\ cursor.seq < MaxSeq
     /\ Remember([cursor EXCEPT !.seq = @ + 1], FALSE) /\ UNCHANGED lines
  \/ /\ cursor = NoCursor /\ lines < MaxLine /\ lines' = lines + 1
     /\ \E n \in head + 1 .. MaxSeq :
          Remember([epoch |-> hostEpoch, seq |-> n, line |-> lines + 1], FALSE)

\* resetForEpoch().
ForgetEpoch(e) ==
  IF cursor = NoCursor \/ cursor.epoch = e THEN UNCHANGED <<cursor, saved>>
  ELSE cursor' = NoCursor /\ saved' = NoCursor

\* handleWelcome(): the host may have restarted since the last one.
Welcome ==
  /\ \E e \in hostEpoch .. MaxEpoch :
       /\ hostEpoch' = e /\ epoch' = e
       /\ head' = IF e = hostEpoch THEN head ELSE 0
       /\ IF epoch \notin {0, e} THEN ForgetEpoch(e) ELSE UNCHANGED <<cursor, saved>>
  /\ UNCHANGED <<lines, barrier, latest, writing, stored, failed>>

\* More sessions than MAX_SAVED are remembered, and this one is the oldest.
Evict ==
  /\ cursor # NoCursor /\ cursor' = NoCursor /\ saved' = NoCursor
  /\ UNCHANGED <<epoch, hostEpoch, head, lines, barrier, latest, writing, stored, failed>>

\* load(), for the connect() of a client that has remembered nothing.
Load ==
  /\ cursor = NoCursor /\ writing = NoCursor
  /\ cursor' = stored
  /\ UNCHANGED <<epoch, hostEpoch, head, lines, barrier, latest, writing, saved, stored, failed>>

\* Another client object over the same store: the one before is gone, and the
\* save it waited for may have reached the store or not.
Recreate ==
  /\ stored' \in {stored} \cup {w \in {writing} : w # NoCursor}
  /\ epoch' = 0 /\ failed' = FALSE
  /\ cursor' = NoCursor /\ barrier' = NoCursor /\ latest' = NoCursor
  /\ writing' = NoCursor /\ saved' = NoCursor
  /\ UNCHANGED <<hostEpoch, head, lines>>

-----------------------------------------------------------------------------

JournalNext ==
  \/ SaveSucceeds \/ SaveFails
  \/ Snapshot \/ Durable \/ Welcome \/ Evict \/ Load \/ Recreate

JournalSpec == JournalInit /\ [][JournalNext]_journalVars

-----------------------------------------------------------------------------

\* Cursor `b` is no further back than `a`: of a later line, or further in it.
NotBehind(a, b) == b.line > a.line \/ (b.line = a.line /\ b.seq >= a.seq)

\* The store never goes back: not to a line from before a snapshot that it has
\* already recorded, nor within a line, whatever saves were in flight when the
\* snapshot came and whichever of them failed.
StoreAdvances == [][NotBehind(stored, stored')]_journalVars

\* When no save is left to do and the last one went well, the store holds the
\* cursor the client would resume from: none was lost by coalescing, by the
\* barrier of a snapshot or as redundant.
Flushed ==
  writing = NoCursor /\ ~failed /\ cursor # NoCursor => stored = cursor

=============================================================================
