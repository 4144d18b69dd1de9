---------------------------- MODULE ClientProofs ----------------------------
(***************************************************************************)
(* Proofs about CursorJournal, for every number of epochs, of lines and of *)
(* events in a line, and about Client, which composes the journal and the  *)
(* connection.                                                             *)
(*                                                                         *)
(* The cursors of the journal stand in a line: the store, the save in      *)
(* flight, the reset and the cursor that wait, the cursor in memory; none  *)
(* is behind the one before it (Ordered), and the last one that waits is   *)
(* the one in memory (Newest).  Within one epoch, the numbers of those     *)
(* that no reset separates increase strictly (Rising), and none is beyond  *)
(* the last one the host sent (Sent), so that no save is ever skipped as   *)
(* redundant.                                                              *)
(*                                                                         *)
(* The parts of the client keep what was proved of each alone, and a       *)
(* closed client has saved what it remembered: every step of the client    *)
(* is a step of the journal or leaves it alone, and every one is a step of *)
(* the connection, leaves it alone or creates it anew.                     *)
(***************************************************************************)
EXTENDS Client, ClientConnectionProofs

-----------------------------------------------------------------------------
(* The journal *)

\* What the journal takes to be in the store is there.
Known == saved \in {NoCursor, stored}

\* No cursor is of a line or of an epoch yet to come.
Bounded ==
  \A x \in {cursor, barrier, latest, writing, saved, stored} :
    x.line <= lines /\ x.epoch <= hostEpoch

Ordered ==
  /\ writing # NoCursor => NotBehind(stored, writing)
  /\ barrier # NoCursor => NotBehind(writing, barrier)
  /\ latest # NoCursor => NotBehind(writing, latest) /\ NotBehind(barrier, latest)
  /\ cursor # NoCursor => \A x \in {stored, writing, barrier, latest} : NotBehind(x, cursor)

Newest ==
  cursor # NoCursor /\ writing # NoCursor =>
    cursor = IF latest # NoCursor THEN latest
             ELSE IF barrier # NoCursor THEN barrier ELSE writing

\* Of one epoch, and `a` before `b`.
Under(a, b) == a # NoCursor /\ a.epoch = b.epoch => a.seq < b.seq
UpTo(a, b) == a # NoCursor /\ a.epoch = b.epoch => a.seq <= b.seq

Rising ==
  /\ latest # NoCursor => Under(barrier, latest)
  /\ latest # NoCursor /\ barrier = NoCursor => Under(writing, latest) /\ Under(saved, latest)
  /\ cursor # NoCursor => UpTo(barrier, cursor) /\ UpTo(latest, cursor)
  /\ cursor # NoCursor /\ barrier = NoCursor => UpTo(writing, cursor) /\ UpTo(saved, cursor)

Reached(x) == x # NoCursor /\ x.epoch = hostEpoch => x.seq <= head

Sent ==
  /\ Reached(barrier) /\ Reached(latest)
  /\ barrier = NoCursor => Reached(writing) /\ Reached(saved)

JournalInv ==
  JournalTypeOK /\ Known /\ Bounded /\ Ordered /\ Newest /\ Rising /\ Sent /\ Flushed

-----------------------------------------------------------------------------
(* The initial state, and remember()                                        *)

\* A journal that was just created has its invariant.
LEMMA JournalInitial == JournalInit => JournalInv
<1> SUFFICES ASSUME JournalInit PROVE JournalInv
  OBVIOUS
<1>0. lines \in Nat /\ NoCursor \in Cursor
  BY JournalAssumption DEF JournalInit, Cursor, NoCursor
<1>1. JournalTypeOK
  BY <1>0, Zenon DEF JournalInit, JournalTypeOK
<1>2. Bounded
  BY <1>0 DEF JournalInit, Bounded, NoCursor
<1>3. Ordered /\ Newest /\ Flushed /\ Known
  BY Zenon DEF JournalInit, Ordered, Newest, Flushed, Known
<1>4. Rising /\ Sent
  BY Zenon DEF JournalInit, Rising, Sent, Under, UpTo, Reached
<1> QED
  BY <1>1, <1>2, <1>3, <1>4, Zenon DEF JournalInv

\* drain() never finds a save redundant: what it takes from the queue is beyond
\* what it knows to be in the store, or of another epoch.
LEMMA NeverRedundant ==
  ASSUME NEW known \in Cursor, NEW record \in Cursor, Under(known, record)
  PROVE  ~Redundant(known, record)
  BY DEF Redundant, Under, Cursor

\* remember() of a cursor beyond those in the queue, or of a snapshot, keeps
\* the invariant: the cursor is put behind all the others.
LEMMA Remembered ==
  ASSUME JournalInv,
         NEW record \in Cursor, NEW authoritative \in BOOLEAN,
         record # NoCursor, record.epoch = hostEpoch,
         lines' \in Nat, lines <= lines', record.line <= lines',
         \A x \in {stored, writing, barrier, latest} : NotBehind(x, record),
         ~authoritative => Under(barrier, record),
         ~authoritative /\ barrier = NoCursor => Under(writing, record) /\ Under(saved, record),
         Remember(record, authoritative)
  PROVE  JournalInv'
<1>0. JournalTypeOK /\ Known /\ Bounded /\ Ordered /\ Newest /\ Rising /\ Sent
  BY Zenon DEF JournalInv
<1>1. /\ cursor' = record /\ head' = record.seq
      /\ epoch' = epoch /\ hostEpoch' = hostEpoch /\ stored' = stored /\ failed' = failed
  BY Zenon DEF Remember
<1>2. CASE writing = NoCursor
  <2>1. barrier = NoCursor /\ latest = NoCursor
    BY <1>0, <1>2, Zenon DEF JournalTypeOK
  <2>2. ~authoritative => ~Redundant(saved, record)
    BY <2>1, <1>0, NeverRedundant, Zenon DEF JournalTypeOK
  <2>3. /\ writing' = record /\ barrier' = NoCursor /\ latest' = NoCursor
        /\ saved' \in {saved, NoCursor} /\ (authoritative => saved' = NoCursor)
    BY <2>2, <1>2, Zenon DEF Remember, Enqueued, Pump
  <2>4. JournalTypeOK'
    BY <1>0, <1>1, <2>3 DEF JournalTypeOK, Cursor, NoCursor
  <2>5. Bounded'
    BY <1>0, <1>1, <2>3 DEF Bounded, JournalTypeOK, Cursor, NoCursor
  <2>6. Ordered'
    BY <1>0, <1>1, <2>3 DEF Ordered, NotBehind, JournalTypeOK, Cursor, NoCursor
  <2>7. Newest' /\ Flushed' /\ Known'
    BY <1>0, <1>1, <2>3, Zenon DEF Newest, Flushed, Known
  <2>8. Rising'
    BY <1>0, <1>1, <2>1, <2>3 DEF Rising, Under, UpTo, JournalTypeOK, Cursor
  <2>9. Sent'
    BY <1>0, <1>1, <2>1, <2>3 DEF Sent, Reached, Under, JournalTypeOK, Cursor
  <2> QED
    BY <2>4, <2>5, <2>6, <2>7, <2>8, <2>9, Zenon DEF JournalInv
<1>3. CASE writing # NoCursor
  <2>3. /\ writing' = writing /\ saved' = saved
        /\ barrier' = IF authoritative THEN record ELSE barrier
        /\ latest' = IF authoritative THEN NoCursor ELSE record
    BY <1>3, Zenon DEF Remember, Enqueued
  <2>4. JournalTypeOK'
    BY <1>0, <1>1, <1>3, <2>3, Zenon DEF JournalTypeOK, Cursor, NoCursor
  <2>5. Bounded'
    BY <1>0, <1>1, <2>3 DEF Bounded, JournalTypeOK, Cursor, NoCursor
  <2>6. Ordered'
    BY <1>0, <1>1, <2>3 DEF Ordered, NotBehind, JournalTypeOK, Cursor, NoCursor
  <2>7. Newest' /\ Flushed' /\ Known'
    BY <1>0, <1>1, <1>3, <2>3, Zenon DEF Newest, Flushed, Known
  <2>8. Rising'
    BY <1>0, <1>1, <2>3 DEF Rising, Under, UpTo, JournalTypeOK, Cursor
  <2>9. Sent'
    BY <1>0, <1>1, <2>3 DEF Sent, Reached, Under, JournalTypeOK, Cursor
  <2> QED
    BY <2>4, <2>5, <2>6, <2>7, <2>8, <2>9, Zenon DEF JournalInv
<1> QED
  BY <1>2, <1>3, Zenon

-----------------------------------------------------------------------------
(* The other steps                                                          *)

\* What waits behind the save that settled is taken next.
LEMMA Pumped ==
  ASSUME JournalInv, NEW known \in Cursor,
         Pump(barrier, latest, known),
         latest # NoCursor /\ barrier = NoCursor => Under(known, latest)
  PROVE  /\ barrier' = NoCursor
         /\ barrier # NoCursor => writing' = barrier /\ latest' = latest /\ saved' = NoCursor
         /\ barrier = NoCursor => writing' = latest /\ latest' = NoCursor /\ saved' = known
<1>1. latest \in Cursor
  BY Zenon DEF JournalInv, JournalTypeOK
<1>2. latest # NoCursor /\ barrier = NoCursor => ~Redundant(known, latest)
  BY <1>1, NeverRedundant, Zenon
<1> QED
  BY <1>2, Zenon DEF Pump

\* A save that succeeds moves the store up to it, not back, and the queue with it.
LEMMA SaveSucceedsKeeps ==
  ASSUME JournalInv, SaveSucceeds
  PROVE  JournalInv' /\ NotBehind(stored, stored')
<1>0. JournalTypeOK /\ Known /\ Bounded /\ Ordered /\ Newest /\ Rising /\ Sent
  BY Zenon DEF JournalInv
<1>1. /\ writing # NoCursor /\ stored' = writing /\ failed' = FALSE
      /\ epoch' = epoch /\ hostEpoch' = hostEpoch /\ head' = head /\ lines' = lines
      /\ cursor' = cursor
  BY Zenon DEF SaveSucceeds
<1>2. /\ barrier' = NoCursor
      /\ barrier # NoCursor => writing' = barrier /\ latest' = latest /\ saved' = NoCursor
      /\ barrier = NoCursor => writing' = latest /\ latest' = NoCursor /\ saved' = writing
  BY <1>0, Pumped, Zenon DEF SaveSucceeds, JournalTypeOK, Rising
<1>3. NotBehind(stored, stored')
  BY <1>0, <1>1, Zenon DEF Ordered
<1>4. JournalTypeOK'
  <2>1. NoCursor \in Cursor
    BY Zenon DEF Cursor, NoCursor
  <2> QED
    BY <1>0, <1>1, <1>2, <2>1, Zenon DEF JournalTypeOK
<1>5. Bounded'
  BY <1>0, <1>1, <1>2 DEF Bounded, JournalTypeOK, Cursor, NoCursor
<1>6. Ordered'
  BY <1>0, <1>1, <1>2 DEF Ordered, NotBehind, JournalTypeOK, Cursor, NoCursor
<1>7. Newest' /\ Flushed' /\ Known'
  BY <1>0, <1>1, <1>2, Zenon DEF Newest, Flushed, Known
<1>8. Rising'
  BY <1>0, <1>1, <1>2, Zenon DEF Rising, Under, UpTo, JournalTypeOK, Cursor
<1>9. Sent'
  BY <1>0, <1>1, <1>2, Zenon DEF Sent, Reached
<1> QED
  BY <1>3, <1>4, <1>5, <1>6, <1>7, <1>8, <1>9, Zenon DEF JournalInv

\* A save that fails leaves the store, and the queue moves on.
LEMMA SaveFailsKeeps ==
  ASSUME JournalInv, SaveFails
  PROVE  JournalInv'
<1>0. JournalTypeOK /\ Known /\ Bounded /\ Ordered /\ Newest /\ Rising /\ Sent
  BY Zenon DEF JournalInv
<1>1. /\ writing # NoCursor /\ stored' = stored /\ failed' = TRUE
      /\ epoch' = epoch /\ hostEpoch' = hostEpoch /\ head' = head /\ lines' = lines
      /\ cursor' = cursor
  BY Zenon DEF SaveFails
<1>2. /\ barrier' = NoCursor
      /\ barrier # NoCursor => writing' = barrier /\ latest' = latest /\ saved' = NoCursor
      /\ barrier = NoCursor => writing' = latest /\ latest' = NoCursor /\ saved' = saved
  BY <1>0, Pumped, Zenon DEF SaveFails, JournalTypeOK, Rising
<1>4. JournalTypeOK'
  <2>1. NoCursor \in Cursor
    BY Zenon DEF Cursor, NoCursor
  <2> QED
    BY <1>0, <1>1, <1>2, <2>1, Zenon DEF JournalTypeOK
<1>5. Bounded'
  BY <1>0, <1>1, <1>2 DEF Bounded, JournalTypeOK, Cursor, NoCursor
<1>6. Ordered'
  BY <1>0, <1>1, <1>2 DEF Ordered, NotBehind, JournalTypeOK, Cursor, NoCursor
<1>7. Newest' /\ Flushed' /\ Known'
  BY <1>0, <1>1, <1>2, Zenon DEF Newest, Flushed, Known
<1>8. Rising'
  BY <1>0, <1>1, <1>2, Zenon DEF Rising, Under, UpTo, JournalTypeOK, Cursor
<1>9. Sent'
  BY <1>0, <1>1, <1>2, Zenon DEF Sent, Reached
<1> QED
  BY <1>4, <1>5, <1>6, <1>7, <1>8, <1>9, Zenon DEF JournalInv

\* A snapshot starts a line, beyond all that was remembered.
LEMMA SnapshotKeeps ==
  ASSUME JournalInv, Snapshot
  PROVE  JournalInv'
<1>0. JournalTypeOK /\ Known /\ Bounded
  BY Zenon DEF JournalInv
<1>1. PICK n \in 0 .. MaxSeq :
        Remember([epoch |-> hostEpoch, seq |-> n, line |-> lines + 1], TRUE)
  BY Zenon DEF Snapshot
<1> DEFINE record == [epoch |-> hostEpoch, seq |-> n, line |-> lines + 1]
<1>2. /\ record \in Cursor /\ record # NoCursor /\ record.epoch = hostEpoch
      /\ record.line = lines + 1
  BY <1>0, JournalAssumption DEF JournalTypeOK, Cursor, NoCursor
<1>3. lines' \in Nat /\ lines <= lines' /\ record.line <= lines'
  BY <1>0, <1>2 DEF Snapshot, JournalTypeOK
<1>4. \A x \in {stored, writing, barrier, latest} : NotBehind(x, record)
  BY <1>0, <1>2 DEF Bounded, NotBehind, JournalTypeOK, Cursor
<1>5. Remember(record, TRUE)
  BY <1>1, Zenon
<1> HIDE DEF record
<1> QED
  BY <1>2, <1>3, <1>4, <1>5, Remembered, Zenon

\* An event follows the cursor in memory, or starts a line when there is none.
LEMMA DurableKeeps ==
  ASSUME JournalInv, Durable
  PROVE  JournalInv'
<1>0. JournalTypeOK /\ Known /\ Bounded /\ Ordered /\ Rising /\ Sent
  BY Zenon DEF JournalInv
<1>1. CASE /\ cursor # NoCursor /\ cursor.epoch = hostEpoch /\ lines' = lines
           /\ Remember([cursor EXCEPT !.seq = @ + 1], FALSE)
  <2> DEFINE record == [cursor EXCEPT !.seq = @ + 1]
  <2>1. /\ record \in Cursor /\ record.epoch = hostEpoch
        /\ record.seq = cursor.seq + 1 /\ record.line = cursor.line
        /\ cursor.seq \in Nat /\ cursor.line \in Nat
    BY <1>0, <1>1 DEF JournalTypeOK, Cursor
  <2>2. Remember(record, FALSE)
    BY <1>1, Zenon
  <2> HIDE DEF record
  <2>3. record # NoCursor
    BY <2>1 DEF NoCursor
  <2>4. lines' \in Nat /\ lines <= lines' /\ record.line <= lines'
    BY <1>0, <1>1, <2>1 DEF Bounded, JournalTypeOK
  <2>5. \A x \in {stored, writing, barrier, latest} : NotBehind(x, record)
    BY <1>0, <1>1, <2>1 DEF Ordered, NotBehind, JournalTypeOK, Cursor
  <2>6. Under(barrier, record)
    BY <1>0, <1>1, <2>1 DEF Rising, UpTo, Under, JournalTypeOK, Cursor
  <2>7. barrier = NoCursor => Under(writing, record) /\ Under(saved, record)
    BY <1>0, <1>1, <2>1 DEF Rising, UpTo, Under, JournalTypeOK, Cursor
  <2> QED
    BY <2>1, <2>2, <2>3, <2>4, <2>5, <2>6, <2>7, Remembered, Zenon
<1>2. CASE /\ lines' = lines + 1
           /\ \E n \in head + 1 .. MaxSeq :
                Remember([epoch |-> hostEpoch, seq |-> n, line |-> lines + 1], FALSE)
  <2>1. PICK n \in head + 1 .. MaxSeq :
          Remember([epoch |-> hostEpoch, seq |-> n, line |-> lines + 1], FALSE)
    BY <1>2, Zenon
  <2> DEFINE record == [epoch |-> hostEpoch, seq |-> n, line |-> lines + 1]
  <2>2. /\ record \in Cursor /\ record # NoCursor /\ record.epoch = hostEpoch
        /\ record.line = lines + 1 /\ record.seq = n /\ n > head
    BY <1>0, JournalAssumption DEF JournalTypeOK, Cursor, NoCursor
  <2>3. Remember(record, FALSE)
    BY <2>1, Zenon
  <2> HIDE DEF record
  <2>4. lines' \in Nat /\ lines <= lines' /\ record.line <= lines'
    BY <1>0, <1>2, <2>2 DEF JournalTypeOK
  <2>5. \A x \in {stored, writing, barrier, latest} : NotBehind(x, record)
    BY <1>0, <2>2 DEF Bounded, NotBehind, JournalTypeOK, Cursor
  <2>6. Under(barrier, record)
    BY <1>0, <2>2 DEF Sent, Reached, Under, JournalTypeOK, Cursor
  <2>7. barrier = NoCursor => Under(writing, record) /\ Under(saved, record)
    BY <1>0, <2>2 DEF Sent, Reached, Under, JournalTypeOK, Cursor
  <2> QED
    BY <2>2, <2>3, <2>4, <2>5, <2>6, <2>7, Remembered, Zenon
<1> QED
  BY <1>1, <1>2, Zenon DEF Durable

\* A welcome moves the epoch on, and forgets the cursor of another epoch.
LEMMA WelcomeKeeps ==
  ASSUME JournalInv, Welcome
  PROVE  JournalInv'
<1>0. JournalTypeOK /\ Known /\ Bounded /\ Ordered /\ Newest /\ Rising /\ Sent /\ Flushed
  BY Zenon DEF JournalInv
<1>1. PICK e \in hostEpoch .. MaxEpoch :
        /\ hostEpoch' = e /\ epoch' = e
        /\ head' = IF e = hostEpoch THEN head ELSE 0
        /\ IF epoch \notin {0, e} THEN ForgetEpoch(e) ELSE UNCHANGED <<cursor, saved>>
  BY Zenon DEF Welcome
<1>2. /\ lines' = lines /\ barrier' = barrier /\ latest' = latest /\ writing' = writing
      /\ stored' = stored /\ failed' = failed
  BY Zenon DEF Welcome
<1>3. cursor' \in {cursor, NoCursor} /\ saved' \in {saved, NoCursor}
  BY <1>1, Zenon DEF ForgetEpoch
<1>4. e \in Nat /\ hostEpoch <= e
  BY <1>0, JournalAssumption DEF JournalTypeOK
<1>5. JournalTypeOK'
  <2>1. NoCursor \in Cursor /\ head' \in Nat
    BY <1>0, <1>1, Zenon DEF Cursor, NoCursor, JournalTypeOK
  <2> QED
    BY <1>0, <1>1, <1>2, <1>3, <1>4, <2>1, Zenon DEF JournalTypeOK
<1>6. Bounded'
  BY <1>0, <1>1, <1>2, <1>3, <1>4 DEF Bounded, JournalTypeOK, Cursor, NoCursor
<1>7. Ordered' /\ Newest' /\ Flushed' /\ Known'
  BY <1>0, <1>2, <1>3, Zenon DEF Ordered, Newest, Flushed, Known
<1>8. Rising'
  BY <1>0, <1>2, <1>3, Zenon DEF Rising, Under, UpTo
<1>9. Sent'
  BY <1>0, <1>1, <1>2, <1>3, <1>4 DEF Sent, Reached, Bounded, JournalTypeOK, Cursor
<1> QED
  BY <1>5, <1>6, <1>7, <1>8, <1>9, Zenon DEF JournalInv

\* A session that is forgotten leaves its saves in the queue.
LEMMA EvictKeeps ==
  ASSUME JournalInv, Evict
  PROVE  JournalInv'
<1>0. JournalTypeOK /\ Known /\ Bounded /\ Ordered /\ Newest /\ Rising /\ Sent
  BY Zenon DEF JournalInv
<1>1. /\ cursor' = NoCursor /\ saved' = NoCursor
      /\ epoch' = epoch /\ hostEpoch' = hostEpoch /\ head' = head /\ lines' = lines
      /\ barrier' = barrier /\ latest' = latest /\ writing' = writing
      /\ stored' = stored /\ failed' = failed
  BY Zenon DEF Evict
<1>2. NoCursor \in Cursor
  BY Zenon DEF Cursor, NoCursor
<1>3. JournalTypeOK'
  BY <1>0, <1>1, <1>2, Zenon DEF JournalTypeOK
<1>4. Bounded'
  BY <1>0, <1>1 DEF Bounded, JournalTypeOK, NoCursor
<1>5. Ordered' /\ Newest' /\ Flushed' /\ Known'
  BY <1>0, <1>1, Zenon DEF Ordered, Newest, Flushed, Known
<1>6. Rising' /\ Sent'
  BY <1>0, <1>1, Zenon DEF Rising, Sent, Reached, Under, UpTo
<1> QED
  BY <1>3, <1>4, <1>5, <1>6, Zenon DEF JournalInv

\* A journal that remembers nothing takes over what the store holds.
LEMMA LoadKeeps ==
  ASSUME JournalInv, Load
  PROVE  JournalInv'
<1>0. JournalTypeOK /\ Known /\ Bounded /\ Ordered /\ Newest /\ Rising /\ Sent
  BY Zenon DEF JournalInv
<1>1. /\ cursor' = stored /\ writing = NoCursor
      /\ epoch' = epoch /\ hostEpoch' = hostEpoch /\ head' = head /\ lines' = lines
      /\ barrier' = barrier /\ latest' = latest /\ writing' = writing
      /\ saved' = saved /\ stored' = stored /\ failed' = failed
  BY Zenon DEF Load
<1>2. barrier = NoCursor /\ latest = NoCursor
  BY <1>0, <1>1, Zenon DEF JournalTypeOK
<1>3. JournalTypeOK'
  BY <1>0, <1>1, Zenon DEF JournalTypeOK
<1>4. Bounded'
  BY <1>0, <1>1, Zenon DEF Bounded
<1>5. Ordered'
  BY <1>0, <1>1, <1>2 DEF Ordered, NotBehind, JournalTypeOK, Cursor, NoCursor
<1>6. Newest' /\ Flushed' /\ Known'
  BY <1>0, <1>1, Zenon DEF Newest, Flushed, Known
<1>7. Rising' /\ Sent'
  BY <1>0, <1>1, <1>2 DEF Known, Rising, Sent, Reached, Under, UpTo, JournalTypeOK, Cursor
<1> QED
  BY <1>3, <1>4, <1>5, <1>6, <1>7, Zenon DEF JournalInv

\* A client that takes the place of another knows nothing but the store, which
\* may have received the save the other one was waiting for.
LEMMA RecreateKeeps ==
  ASSUME JournalInv, Recreate
  PROVE  JournalInv' /\ NotBehind(stored, stored')
<1>0. JournalTypeOK /\ Known /\ Bounded /\ Ordered
  BY Zenon DEF JournalInv
<1>1. /\ cursor' = NoCursor /\ barrier' = NoCursor /\ latest' = NoCursor
      /\ writing' = NoCursor /\ saved' = NoCursor /\ failed' = FALSE /\ epoch' = 0
      /\ hostEpoch' = hostEpoch /\ head' = head /\ lines' = lines
      /\ stored' = stored \/ (writing # NoCursor /\ stored' = writing)
  BY Zenon DEF Recreate
<1>2. NoCursor \in Cursor /\ 0 \in Nat
  BY Zenon DEF Cursor, NoCursor
<1>3. JournalTypeOK'
  BY <1>0, <1>1, <1>2, Zenon DEF JournalTypeOK
<1>4. Bounded'
  BY <1>0, <1>1 DEF Bounded, JournalTypeOK, Cursor, NoCursor
<1>5. Ordered' /\ Newest' /\ Flushed' /\ Known'
  BY <1>0, <1>1, Zenon DEF Ordered, Newest, Flushed, Known
<1>6. Rising' /\ Sent'
  BY <1>1, Zenon DEF Rising, Sent, Reached, Under, UpTo
<1>7. NotBehind(stored, stored')
  BY <1>0, <1>1 DEF Ordered, NotBehind, JournalTypeOK, Cursor
<1> QED
  BY <1>3, <1>4, <1>5, <1>6, <1>7, Zenon DEF JournalInv

-----------------------------------------------------------------------------
(* The theorems                                                             *)

\* Every step keeps the invariant, and does not move the store back.
LEMMA JournalStep ==
  ASSUME JournalInv, [JournalNext]_journalVars
  PROVE  JournalInv' /\ NotBehind(stored, stored')
<1>1. CASE UNCHANGED journalVars
  <2>1. JournalInv'
    BY <1>1 DEF journalVars, JournalInv, JournalTypeOK, Known, Bounded, Ordered, Newest, Rising,
                Sent, Flushed, Reached, Under, UpTo, NotBehind
  <2>2. NotBehind(stored, stored')
    BY <1>1 DEF journalVars, NotBehind, JournalInv, JournalTypeOK, Cursor
  <2> QED
    BY <2>1, <2>2, Zenon
<1>2. CASE SaveFails \/ Snapshot \/ Durable \/ Welcome \/ Evict \/ Load
  <2>1. JournalInv'
    BY <1>2, SaveFailsKeeps, SnapshotKeeps, DurableKeeps, WelcomeKeeps, EvictKeeps, LoadKeeps, Zenon
  <2>2. stored' = stored /\ stored \in Cursor
    BY Zenon, <1>2 DEF SaveFails, Snapshot, Durable, Remember, Welcome, Evict, Load, JournalInv,
                JournalTypeOK
  <2> QED
    BY <2>1, <2>2 DEF NotBehind, Cursor
<1> QED
  BY <1>1, <1>2, SaveSucceedsKeeps, RecreateKeeps, Zenon DEF JournalNext

\* The store of a session never goes back behind what it holds, neither to a
\* number that a snapshot has withdrawn nor within a line, for any number of
\* epochs, snapshots and events, whatever saves fail and whenever the client is
\* replaced: drain() of omp-client-cursor.ts writes resets and cursors in the
\* order remember() got them.
THEOREM StoreNeverGoesBack == JournalSpec => StoreAdvances
<1>1. JournalInit => JournalInv
  BY JournalInitial, Zenon
<1>2. JournalInv /\ [JournalNext]_journalVars => JournalInv'
  BY JournalStep, Zenon
<1>3. JournalInv /\ [JournalNext]_journalVars => [NotBehind(stored, stored')]_journalVars
  BY JournalStep, Zenon
<1> QED
  BY <1>1, <1>2, <1>3, PTL DEF JournalSpec, StoreAdvances

\* A journal with nothing left to save, whose last save went well, has the
\* cursor it would resume from in the store: the coalescing of drain() and its
\* test for redundant saves drop only cursors that a later one supersedes.
THEOREM NothingLost == JournalSpec => []Flushed
<1>1. JournalInit => JournalInv
  BY JournalInitial, Zenon
<1>2. JournalInv /\ [JournalNext]_journalVars => JournalInv'
  BY JournalStep, Zenon
<1>3. JournalInv => Flushed
  BY Zenon DEF JournalInv
<1> QED
  BY <1>1, <1>2, <1>3, PTL DEF JournalSpec

-----------------------------------------------------------------------------
(* The client *)

\* What a step of the client is to the journal.
LEMMA JournalPart ==
  ASSUME ClientNext
  PROVE  [JournalNext]_journalVars
  BY Zenon DEF ClientNext, ClientConnect, ClientLoaded, ClientWelcome, ClientStream, ClientEvict,
               ClientSave, ClientClosed, NextClient, Progress, Optional, JournalIdle, JournalNext

\* What it is to the connection.
LEMMA ConnectionPart ==
  ASSUME ClientNext
  PROVE  Next \/ Created \/ UNCHANGED vars
<1>1. CASE ClientConnect \/ ClientLoaded \/ ClientClosed
  BY <1>1, Zenon DEF ClientConnect, ClientLoaded, ClientClosed, Next
<1>2. CASE ClientWelcome
  <2>1. WelcomeFrame \subseteq Frame
    BY Zenon DEF WelcomeFrame, Frame
  <2> QED
    BY <1>2, <2>1, Zenon DEF ClientWelcome, Next
<1>3. CASE ClientStream
  <2>1. "replay" \in Frame
    BY Zenon DEF Frame
  <2> QED
    BY <1>3, <2>1, Zenon DEF ClientStream, Next
<1>4. CASE ClientEvict \/ ClientSave \/ NextClient
  BY <1>4, Zenon DEF ClientEvict, ClientSave, NextClient
<1>5. CASE Progress
  BY <1>5, Zenon DEF Progress, Next
<1>6. CASE Optional
  BY <1>6, Zenon DEF Optional, Next
<1> QED
  BY <1>1, <1>2, <1>3, <1>4, <1>5, <1>6, Zenon DEF ClientNext

\* The desktop client uses its journal as the journal expects: load() before
\* anything is remembered, and every epoch announced by a welcome.
THEOREM ClientKeepsJournal == ClientSpec => JournalSpec
<1>1. ClientInit => JournalInit
  BY Zenon DEF ClientInit
<1>2. [ClientNext]_clientVars => [JournalNext]_journalVars
  <2>1. CASE UNCHANGED clientVars
    BY <2>1, Zenon DEF clientVars
  <2> QED
    BY <2>1, JournalPart, Zenon
<1> QED
  BY <1>1, <1>2, PTL DEF ClientSpec, JournalSpec

\* Through crashes and replacements of the client, its store never goes back.
THEOREM ClientStoreNeverGoesBack == ClientSpec => StoreAdvances
  BY ClientKeepsJournal, StoreNeverGoesBack, PTL

-----------------------------------------------------------------------------

\* createOmpClient() leads to the invariant as the first client does.
LEMMA CreatedInitial ==
  ASSUME ConnectionInv, Created
  PROVE  ConnectionInv'
<1>1. Init'
  BY Zenon DEF Created, SettleAll, Init, ConnectionInv, TypeOK
<1> QED
  BY <1>1, ConnectionInitial, PTL

ClientInv == ConnectionInv /\ JournalInv /\ ClosedFlushed

\* A closed client has no transport, so that nothing new is remembered.
LEMMA ClosedStep ==
  ASSUME ClientInv, [ClientNext]_clientVars
  PROVE  ClosedFlushed'
<1>0. JournalTypeOK /\ Driven /\ Frames
  BY Zenon DEF ClientInv, ConnectionInv, JournalInv
<1>1. CASE UNCHANGED clientVars
  BY <1>1, Zenon DEF ClientInv, ClosedFlushed, clientVars, vars, linkVars, journalVars
<1>2. CASE ClientClosed
  <2>1. /\ writing' = NoCursor /\ barrier' = barrier /\ latest' = latest
        /\ writing = NoCursor
    BY <1>2, Zenon DEF ClientClosed, JournalIdle, journalVars
  <2> QED
    BY <1>0, <2>1, Zenon DEF ClosedFlushed, JournalTypeOK
<1>3. CASE NextClient
  BY <1>3, Zenon DEF NextClient, Created, ClosedFlushed
<1>4. CASE ClientWelcome \/ ClientStream
  <2>1. ASSUME NEW f, Receive(f) PROVE state # "closed" /\ ~closed
    BY <1>0, <2>1, Zenon DEF Receive, HostSends, Driven, Open, Terminal
  <2>2. DrainFrame => ~closed
    BY Zenon DEF DrainFrame, HeadCurrent
  <2>3. ~closed
    BY <1>0, <1>4, <2>1, <2>2, Zenon DEF ClientWelcome, ClientStream, Driven, Terminal
  <2>4. ASSUME NEW f, NEW rest, NEW next, Handle(f, rest, next) PROVE state' # "closed"
    <3>1. state # "closed"
      BY <1>0, <2>3, Zenon DEF Driven, Terminal
    <3> QED
      BY <2>4, <3>1, Zenon DEF Handle, WelcomeReady, WelcomePairing, FatalFrame, Fatal, Bye, Lose,
                               ScheduleReconnect, Pong, Response, Replay, PairError, PairOk, Publish,
                               linkVars
  <2>5. state' # "closed"
    <3>1. CASE state = "ready" /\ UNCHANGED vars
      BY <3>1, Zenon DEF vars, linkVars
    <3> QED
      BY <1>4, <2>4, <3>1, Zenon DEF ClientWelcome, ClientStream, Receive, DrainFrame
  <2> QED
    BY <2>5, Zenon DEF ClosedFlushed
<1>5. CASE ClientEvict
  BY <1>5, Zenon DEF ClientEvict, ClosedFlushed, vars, linkVars
<1>6. CASE ClientSave
  <2>1. writing # NoCursor /\ state' = state
    BY <1>6, Zenon DEF ClientSave, SaveSucceeds, SaveFails, vars, linkVars
  <2> QED
    BY <2>1, Zenon DEF ClientInv, ClosedFlushed
<1>7. CASE ClientConnect \/ ClientLoaded \/ Progress \/ Optional
  <2>1. writing' = writing /\ barrier' = barrier /\ latest' = latest
    BY <1>7, Zenon DEF ClientConnect, ClientLoaded, Progress, Optional, Load, JournalIdle, journalVars
  <2>2. state' = "closed" => state = "closed"
    <3>1. CASE ClientConnect \/ ClientLoaded
      BY <3>1, Zenon DEF ClientConnect, Connect, ClientLoaded, Loaded, linkVars
    <3>2. CASE Progress
      <4>1. ASSUME NEW f, NEW rest, NEW next, Handle(f, rest, next)
            PROVE  state' = "closed" => state = "closed"
        BY <4>1, Zenon DEF Handle, WelcomeReady, WelcomePairing, FatalFrame, Fatal, Bye, Lose,
                           ScheduleReconnect, Pong, Response, Replay, PairError, PairOk, Publish,
                           linkVars
      <4> QED
        BY <3>2, <4>1, Zenon DEF Progress, BeginReconnect, HandshakeTimeout, CloseReleased, CloseNow,
                                 OpenedLate, Opened, OpenFails, PairStored, PairNotStored, DrainEnds,
                                 DrainFrame, Fatal, ScheduleReconnect, linkVars
    <3>3. CASE Optional
      <4>1. ASSUME NEW f, NEW rest, NEW next, Handle(f, rest, next)
            PROVE  state' = "closed" => state = "closed"
        BY <4>1, Zenon DEF Handle, WelcomeReady, WelcomePairing, FatalFrame, Fatal, Bye, Lose,
                           ScheduleReconnect, Pong, Response, Replay, PairError, PairOk, Publish,
                           linkVars
      <4> QED
        BY Zenon, <3>3, <4>1 DEF Optional, ReconnectNow, Close, CloseNow, Send, GiveUp, Lost,
                          HelloRejected, Refused, HeartbeatTick, HeartbeatFailure, Receive,
                          Enqueue, FatalFrame, Fatal, Lose, ScheduleReconnect, linkVars
    <3> QED
      BY <1>7, <3>1, <3>2, <3>3, Zenon
  <2> QED
    BY <2>1, <2>2, Zenon DEF ClientInv, ClosedFlushed
<1> QED
  BY <1>1, <1>2, <1>3, <1>4, <1>5, <1>6, <1>7, Zenon DEF ClientNext

\* Connection and journal together: the invariant of both holds of the client.
LEMMA ClientAlways == ClientSpec => []ClientInv
<1>1. ClientInit => ClientInv
  BY ConnectionInitial, JournalInitial, Zenon DEF ClientInit, ClientInv, ClosedFlushed, Init
<1>2. ClientInv /\ [ClientNext]_clientVars => ClientInv'
  <2> SUFFICES ASSUME ClientInv, [ClientNext]_clientVars PROVE ClientInv'
    OBVIOUS
  <2>1. ConnectionInv /\ JournalInv
    BY Zenon DEF ClientInv
  <2>2. ConnectionInv'
    <3>1. CASE UNCHANGED clientVars
      BY <2>1, <3>1, ConnectionStutter, Zenon DEF clientVars
    <3> QED
      BY <2>1, <3>1, ConnectionPart, ConnectionStep, ConnectionStutter, CreatedInitial, Zenon
  <2>3. [JournalNext]_journalVars
    BY JournalPart, Zenon DEF clientVars
  <2>4. JournalInv'
    BY <2>1, <2>3, JournalStep, Zenon
  <2> QED
    BY <2>2, <2>4, ClosedStep, Zenon DEF ClientInv
<1> QED
  BY <1>1, <1>2, PTL DEF ClientSpec

\* close() returns only when everything remembered was handed to the store and
\* answered by it, and nothing is remembered after it.
THEOREM AlwaysClosedFlushed == ClientSpec => []ClosedFlushed
<1>1. ClientInv => ClosedFlushed
  BY Zenon DEF ClientInv
<1> QED
  BY <1>1, ClientAlways, PTL

\* Under the whole client, too, a save that went well leaves nothing behind.
THEOREM ClientNothingLost == ClientSpec => []Flushed
  BY ClientKeepsJournal, NothingLost, PTL

\* Joined to its journal, and through crashes and replacements, the client
\* keeps what was proved of the connection alone: something drives it out of
\* every state that is not terminal, what ended is settled, a request waits
\* only on a connection that can answer it, the count of attempts is cleared
\* only when no replay is open, and a welcome is handled or waits.
THEOREM ClientKeepsConnection ==
  ClientSpec => [](TypeOK /\ Driven /\ EndsSettled /\ RequestsLive /\ BudgetEarned /\ WelcomeKept)
<1>1. ClientInv => TypeOK /\ Driven /\ EndsSettled /\ RequestsLive /\ BudgetEarned /\ WelcomeKept
  BY ConnectionFacts, Zenon DEF ClientInv
<1> QED
  BY <1>1, ClientAlways, PTL

=============================================================================
