--------------------------- MODULE SessionStream ---------------------------
(***************************************************************************)
(* The omp-app/1 transcript stream of one session: the host's              *)
(* SessionProjection (cursor, bounded replay ring, rebase), the output of  *)
(* session.attach and the broadcasts that follow it on one ordered         *)
(* connection, and the cursor gate of the client (OmpClient), which        *)
(* publishes to its consumer only the frames that continue the consumer's  *)
(* copy.                                                                   *)
(*                                                                         *)
(* An entry is its identity; a frame's payload is a sequence of entries    *)
(* (the whole transcript for a snapshot, one entry for an entry frame,     *)
(* none for an event, which advances the cursor only).  Byte budgets are   *)
(* counted in frames.                                                      *)
(***************************************************************************)
EXTENDS Integers, Sequences

CONSTANTS Entry,          \* identities of durable transcript entries
          None,           \* an absent cursor, epoch or copy
          RingSize,       \* ringSize: frames kept for replay
          RebaseBudget,   \* MAX_REBASE_FRAMES
          ReplayBudget,   \* MAX_REPLAY_BYTES, in frames
          MaxEpoch,       \* bound: host restarts
          MaxSeq,         \* bound: cursor sequence within an epoch
          MaxLen,         \* bound: transcript length
          MaxGeneration,  \* bound: connections the client opens
          MaxAttach,      \* bound: attach commands in flight
          MaxWire         \* bound: frames in flight when another is queued

ASSUME RingAssumption == RingSize \in Nat \ {0}
ASSUME BudgetAssumption == RebaseBudget \in Nat /\ ReplayBudget \in Nat
ASSUME BoundAssumption == /\ MaxEpoch \in Nat /\ MaxSeq \in Nat /\ MaxLen \in Nat
                          /\ MaxGeneration \in Nat /\ MaxAttach \in Nat /\ MaxWire \in Nat
ASSUME NoneAssumption == None \notin Nat /\ None \notin Nat \X Nat /\ None \notin Seq(Entry)

VARIABLES
  epoch,       \* host: restart epoch
  seq,         \* host: SessionProjection cursor.seq
  entries,     \* host: SessionProjection entries
  ring,        \* host: replay ring
  hist,        \* history: the transcript at every cursor the host ever had
  socket,      \* host: the client's connection is open on the host's side
  hostAttached,\* host: the connection is in #attached for the session
  toClient,    \* frames sent and not yet handled by the client, in order
  toHost,      \* attach cursors sent and not yet handled by the host
  link,        \* client: "down", "handshaking" or "ready"
  generation,  \* client: connections opened so far
  epochValue,  \* client: epoch of the last welcome or accepted frame
  cursor,      \* client: journal cursor of the session
  desynced,    \* client: session is in desyncedSessions
  attached,    \* client: session is in attached (re-attached on reconnect)
  copy         \* consumer: the transcript built from the published frames

hostVars   == <<epoch, seq, entries, ring, hist>>
wireVars   == <<socket, hostAttached, toClient, toHost>>
clientVars == <<link, generation, epochValue, cursor, desynced, attached, copy>>
vars == <<hostVars, wireVars, clientVars>>

FrameTypes == {"welcome", "response", "gap", "snapshot", "entry", "event"}
Frame == [type : FrameTypes, epoch : Nat, seq : Nat, entries : Seq(Entry)]
Cursor == Nat \X Nat

MakeFrame(type, e, n, es) == [type |-> type, epoch |-> e, seq |-> n, entries |-> es]
Durable(f) == f.type \in {"entry", "event"}
\* Fault: the cursor before the frame.
CursorBefore(f) == <<f.epoch, f.seq - 1>>
CursorOf(f) == <<f.epoch, f.seq>>

----------------------------------------------------------------------------
(* The host's projection. *)

\* appendFrame, once per frame: the ring keeps the last RingSize frames.
Trim(s) == IF Len(s) > RingSize THEN SubSeq(s, Len(s) - RingSize + 1, Len(s)) ELSE s

WireHasRoom == Len(toClient) < MaxWire

\* Fault: of a gap and its snapshot only the gap is sent.
BroadcastFirst(frames) ==
  toClient' = IF hostAttached THEN toClient \o SubSeq(frames, 1, 1) ELSE toClient

\* broadcast: every frame reaches the attached connection's ordered tail.
Broadcast(frames) == toClient' = IF hostAttached THEN toClient \o frames ELSE toClient

\* The timeline goes on with the transcripts of new cursors.
Record(new) ==
  hist' = [c \in DOMAIN hist \cup DOMAIN new |-> IF c \in DOMAIN hist THEN hist[c] ELSE new[c]]

Snapshot(e, n, es) == MakeFrame("snapshot", e, n, es)
GapAndSnapshot(e, n, es) == <<MakeFrame("gap", e, n, <<>>), Snapshot(e, n, es)>>

\* appendEntry of an entry whose id is new.
AppendEntry(x) ==
  /\ WireHasRoom /\ seq < MaxSeq /\ Len(entries) < MaxLen
  /\ \A i \in DOMAIN entries : entries[i] # x
  /\ seq' = seq + 1
  /\ entries' = Append(entries, x)
  /\ Record([c \in {<<epoch, seq + 1>>} |-> Append(entries, x)])
  /\ LET f == MakeFrame("entry", epoch, seq + 1, <<x>>)
     IN  ring' = Trim(Append(ring, f)) /\ Broadcast(<<f>>)
  /\ UNCHANGED <<epoch, socket, hostAttached, toHost, clientVars>>

\* appendEvent, and appendEntry of a known id with another content.
AppendEvent ==
  /\ WireHasRoom /\ seq < MaxSeq
  /\ seq' = seq + 1
  /\ Record([c \in {<<epoch, seq + 1>>} |-> entries])
  /\ LET f == MakeFrame("event", epoch, seq + 1, <<>>)
     IN  ring' = Trim(Append(ring, f)) /\ Broadcast(<<f>>)
  /\ UNCHANGED <<epoch, entries, socket, hostAttached, toHost, clientVars>>

IsPrefix(s, t) == Len(s) <= Len(t) /\ s = SubSeq(t, 1, Len(s))
Injective(s) == \A i, j \in DOMAIN s : s[i] = s[j] => i = j
Transcripts == {s \in UNION {[1..k -> Entry] : k \in 0..MaxLen} : Injective(s)}

\* rebaseEntries when the new transcript extends the old one: an entry frame
\* for each new entry, or a gap and a snapshot when they exceed the budget.
RebaseExtend(new) ==
  LET k == Len(new) - Len(entries)
      frames == [i \in 1..k |-> MakeFrame("entry", epoch, seq + i, <<new[Len(entries) + i]>>)]
      output == IF k <= RebaseBudget THEN frames ELSE GapAndSnapshot(epoch, seq + k, new)
  IN /\ IsPrefix(entries, new) /\ k > 0
     /\ WireHasRoom /\ seq + k <= MaxSeq
     /\ seq' = seq + k
     /\ entries' = new
     /\ Record([c \in {<<epoch, seq + i>> : i \in 1..k} |->
                  SubSeq(new, 1, Len(entries) + c[2] - seq)])
     /\ ring' = IF k <= RebaseBudget THEN Trim(ring \o frames) ELSE Trim(output)
     /\ Broadcast(output)
     /\ UNCHANGED <<epoch, socket, hostAttached, toHost, clientVars>>

\* Fault: the transcript is replaced under the cursor it already had.
RebaseWithoutCursor(new) ==
  LET output == GapAndSnapshot(epoch, seq, new)
  IN /\ ~ IsPrefix(entries, new)
     /\ WireHasRoom
     /\ entries' = new
     /\ ring' = Trim(output)
     /\ Broadcast(output)
     /\ UNCHANGED <<epoch, seq, hist, socket, hostAttached, toHost, clientVars>>

\* rebaseEntries otherwise: the transcript is replaced under one new cursor.
RebaseReplace(new) ==
  LET output == GapAndSnapshot(epoch, seq + 1, new)
  IN /\ ~ IsPrefix(entries, new)
     /\ WireHasRoom /\ seq < MaxSeq
     /\ seq' = seq + 1
     /\ entries' = new
     /\ Record([c \in {<<epoch, seq + 1>>} |-> new])
     /\ ring' = Trim(output)
     /\ Broadcast(output)
     /\ UNCHANGED <<epoch, socket, hostAttached, toHost, clientVars>>

\* A new host process: a new epoch, a projection at seq 0 with the stored
\* transcript, or with none when discovery defers loading it.
HostRestart ==
  /\ epoch < MaxEpoch
  /\ epoch' = epoch + 1
  /\ seq' = 0
  /\ ring' = <<>>
  /\ entries' \in {entries, <<>>}
  /\ Record([c \in {<<epoch + 1, 0>>} |-> entries'])
  /\ socket' = FALSE /\ hostAttached' = FALSE /\ toHost' = <<>>
  /\ UNCHANGED <<toClient, clientVars>>

\* Fault: the ring is replayed as a whole.
RingWhole(n) == ring

\* The frames of the ring after seq n.  The ring is sorted, so this is a suffix.
RingAfter(n) ==
  LET later == {i \in DOMAIN ring : ring[i].seq > n}
  IN  IF later = {} THEN <<>>
      ELSE SubSeq(ring, CHOOSE i \in later : \A j \in later : i <= j, Len(ring))

\* Fault: the test for an evicted frame is off by one.
ReplayOffByOne(c) ==
  LET oldestSeq == IF ring = <<>> THEN seq + 1 ELSE ring[1].seq
      frames == RingAfter(c[2])
  IN  IF \/ c[1] # epoch
         \/ c[2] + 1 < oldestSeq - 1
         \/ Len(frames) > ReplayBudget
      THEN GapAndSnapshot(epoch, seq, entries)
      ELSE frames

Replay(c) ==
  LET oldestSeq == IF ring = <<>> THEN seq + 1 ELSE ring[1].seq
      frames == RingAfter(c[2])
  IN  IF \/ c[1] # epoch
         \/ c[2] < oldestSeq - 1
         \/ Len(frames) > ReplayBudget
      THEN GapAndSnapshot(epoch, seq, entries)
      ELSE frames

\* prepareAttachOutput and completeAttachOutput: the acknowledgement carries
\* the baseline, then the snapshot or replay, then the replay from the baseline.
AttachOutput(c) ==
  <<MakeFrame("response", epoch, seq, <<>>)>>
    \o (IF c = None THEN <<Snapshot(epoch, seq, entries)>> ELSE Replay(c))
    \o Replay(<<epoch, seq>>)

\* The attach commands are handled concurrently, so in any order; preparing
\* the output, joining #attached and queueing the output is one turn.
HostAttach ==
  /\ socket
  /\ \E i \in DOMAIN toHost :
       /\ toClient' = toClient \o AttachOutput(toHost[i])
       /\ toHost' = SubSeq(toHost, 1, i - 1) \o SubSeq(toHost, i + 1, Len(toHost))
  /\ hostAttached' = TRUE
  /\ UNCHANGED <<hostVars, socket, clientVars>>

\* The host's side of the connection closes; frames already sent may still arrive.
HostDrop ==
  /\ socket
  /\ socket' = FALSE /\ hostAttached' = FALSE /\ toHost' = <<>>
  /\ UNCHANGED <<hostVars, toClient, clientVars>>

----------------------------------------------------------------------------
(* The client. *)

\* A connection opens and hello is answered with the host's epoch.
Connect ==
  /\ link = "down" /\ generation < MaxGeneration
  /\ generation' = generation + 1
  /\ link' = "handshaking"
  /\ socket' = TRUE /\ hostAttached' = FALSE
  /\ toClient' = <<MakeFrame("welcome", epoch, 0, <<>>)>>
  /\ toHost' = <<>>
  /\ UNCHANGED <<hostVars, epochValue, cursor, desynced, attached, copy>>

\* handleDisconnect: what was in flight on the old connection is never handled.
Disconnect ==
  /\ link # "down"
  /\ link' = "down"
  /\ socket' = FALSE /\ hostAttached' = FALSE
  /\ toClient' = <<>> /\ toHost' = <<>>
  /\ UNCHANGED <<hostVars, generation, epochValue, cursor, desynced, attached, copy>>

Post(c) == toHost' = IF socket THEN Append(toHost, c) ELSE toHost

\* command("session.attach") of a consumer that has no copy yet and awaits
\* the response; later connections are re-attached by HandleWelcome.
Attach ==
  /\ link = "ready" /\ ~ attached
  /\ toHost = <<>> /\ \A i \in DOMAIN toClient : toClient[i].type # "response"
  /\ Post(None)
  /\ UNCHANGED <<hostVars, socket, hostAttached, toClient, clientVars>>

\* command("session.attach") of another consumer of the same client while the
\* session is attached: with the cursor of its copy or with none.
AttachAgain ==
  /\ link = "ready" /\ attached
  /\ Len(toHost) < MaxAttach /\ WireHasRoom
  /\ \E c \in {None, cursor} : Post(c)
  /\ UNCHANGED <<hostVars, socket, hostAttached, toClient, clientVars>>

\* Head of the ordered connection, handled by the client.
Receive(type) ==
  /\ link # "down" /\ toClient # <<>> /\ Head(toClient).type = type
  /\ toClient' = Tail(toClient)
  /\ UNCHANGED <<hostVars, socket, hostAttached, generation>>

\* Fault: the cursor of the old epoch is kept.
WelcomeKeepingCursor ==
  LET f == Head(toClient)
  IN /\ Receive("welcome") /\ link = "handshaking"
     /\ desynced' = (desynced /\ (epochValue = None \/ epochValue = f.epoch))
     /\ epochValue' = f.epoch
     /\ link' = "ready"
     /\ IF attached THEN Post(cursor) ELSE UNCHANGED toHost
     /\ UNCHANGED <<cursor, copy, attached>>

\* handleWelcome: a new epoch forgets the cursors and the desync marks; then
\* reattachSessions sends the journal's cursor.
HandleWelcome ==
  LET f == Head(toClient)
      newEpoch == epochValue # None /\ epochValue # f.epoch
      forget == newEpoch /\ cursor # None /\ cursor[1] # f.epoch
  IN /\ Receive("welcome") /\ link = "handshaking"
     /\ cursor' = IF forget THEN None ELSE cursor
     /\ copy' = IF forget THEN None ELSE copy
     /\ desynced' = (desynced /\ ~ newEpoch)
     /\ epochValue' = f.epoch
     /\ link' = "ready"
     /\ IF attached THEN Post(cursor') ELSE UNCHANGED toHost
     /\ UNCHANGED attached

HandleResponse ==
  /\ Receive("response")
  /\ attached' = TRUE
  /\ UNCHANGED <<toHost, link, epochValue, cursor, desynced, copy>>

\* Fault: a gap moves the cursor to the gap's end.
GapMovesCursor ==
  /\ Receive("gap")
  /\ desynced' = TRUE
  /\ cursor' = CursorOf(Head(toClient))
  /\ UNCHANGED <<toHost, link, epochValue, attached, copy>>

\* gap: markDesynced.
HandleGap ==
  /\ Receive("gap")
  /\ desynced' = TRUE
  /\ UNCHANGED <<toHost, link, epochValue, cursor, attached, copy>>

\* Fault: a snapshot leaves the session marked.
SnapshotKeepingDesync ==
  LET f == Head(toClient)
  IN /\ Receive("snapshot")
     /\ cursor' = CursorOf(f) /\ epochValue' = f.epoch
     /\ copy' = f.entries
     /\ UNCHANGED <<toHost, link, desynced, attached>>

\* acceptSnapshot: authoritative whatever its cursor.
AcceptSnapshot ==
  LET f == Head(toClient)
  IN /\ Receive("snapshot")
     /\ desynced' = FALSE
     /\ cursor' = CursorOf(f) /\ epochValue' = f.epoch
     /\ copy' = f.entries
     /\ UNCHANGED <<toHost, link, attached>>

Duplicate(f) == cursor # None /\ f.epoch = cursor[1] /\ f.seq <= cursor[2]
Contiguous(f) == cursor = None \/ (f.epoch = cursor[1] /\ f.seq = cursor[2] + 1)
Accepted(f) == ~ desynced /\ Contiguous(f)

\* acceptDurable of a frame that continues the copy, published to the consumer.
\* A first frame without a cursor has no copy to continue: it becomes the copy.
AcceptDurable(type) ==
  LET f == Head(toClient)
  IN /\ Receive(type) /\ Accepted(f)
     /\ cursor' = CursorOf(f) /\ epochValue' = f.epoch
     /\ copy' = IF copy = None THEN f.entries ELSE copy \o f.entries
     /\ UNCHANGED <<toHost, link, desynced, attached>>

\* acceptDurable of any other frame: a duplicate is ignored, the rest desyncs.
RejectDurable(type) ==
  LET f == Head(toClient)
  IN /\ Receive(type) /\ ~ Accepted(f)
     /\ desynced' = (desynced \/ ~ Duplicate(f))
     /\ UNCHANGED <<toHost, link, epochValue, cursor, attached, copy>>

----------------------------------------------------------------------------
Init ==
  /\ epoch = 0 /\ seq = 0 /\ ring = <<>>
  /\ entries = <<>>
  /\ hist = [c \in {<<0, 0>>} |-> <<>>]
  /\ socket = FALSE /\ hostAttached = FALSE
  /\ toClient = <<>> /\ toHost = <<>>
  /\ link = "down" /\ generation = 0
  /\ epochValue = None /\ cursor = None /\ copy = None
  /\ desynced = FALSE /\ attached = FALSE

HostNext ==
  \/ \E x \in Entry : AppendEntry(x)
  \/ AppendEvent
  \/ \E new \in Transcripts : RebaseExtend(new) \/ RebaseReplace(new)
  \/ HostRestart
  \/ HostAttach
  \/ HostDrop

Deliver ==
  \/ HandleWelcome
  \/ HandleResponse
  \/ HandleGap
  \/ AcceptSnapshot
  \/ \E type \in {"entry", "event"} : AcceptDurable(type) \/ RejectDurable(type)

ClientNext == Connect \/ Disconnect \/ Attach \/ Deliver

Next == HostNext \/ ClientNext

Spec == Init /\ [][Next]_vars

\* Several consumers share the client.
SharedNext == Next \/ AttachAgain
SharedSpec == Init /\ [][SharedNext]_vars

\* The event loops of both processes keep running, so what is queued is
\* handled; the heartbeat notices a connection the host closed, and the
\* client keeps reconnecting.
FairSpec == /\ Spec
            /\ WF_vars(Deliver) /\ WF_vars(HostAttach) /\ WF_vars(Connect)
            /\ WF_vars(Disconnect /\ ~ socket)

----------------------------------------------------------------------------
(* Properties. *)

\* Every variable keeps the shape host, wire and client give it.
TypeOK ==
  /\ epoch \in Nat /\ seq \in Nat /\ generation \in Nat
  /\ entries \in Seq(Entry)
  /\ ring \in Seq(Frame) /\ toClient \in Seq(Frame)
  /\ toHost \in Seq(Cursor \cup {None})
  /\ DOMAIN hist \subseteq Cursor /\ \A c \in DOMAIN hist : hist[c] \in Seq(Entry)
  /\ socket \in BOOLEAN /\ hostAttached \in BOOLEAN
  /\ link \in {"down", "handshaking", "ready"}
  /\ epochValue \in Nat \cup {None} /\ cursor \in Cursor \cup {None}
  /\ desynced \in BOOLEAN /\ attached \in BOOLEAN
  /\ copy \in Seq(Entry) \cup {None}

\* What OmpClient publishes is the session: the consumer's copy, built from
\* accepted snapshots, entries and events, is the host's transcript at the
\* journal cursor, with no hole, repetition or mixture, whatever was evicted,
\* rebased, lost with a connection or replayed twice.
Faithful == copy # None => cursor \in DOMAIN hist /\ copy = hist[cursor]

\* The stream keeps the promise of TranscriptFeed: read from the client's
\* journal cursor and the consumer's copy, every step of the host, the wire and
\* the client is a step of the feed or none.
Feed == INSTANCE TranscriptFeed WITH head <- <<epoch, seq>>

FeedSpec == Feed!Spec

\* The journal cursor never moves back, within an epoch or to an older epoch:
\* no snapshot or replay overtakes a newer frame on the ordered connection.
CursorMonotone ==
  [][(cursor # None /\ cursor' # None)
       => \/ cursor'[1] > cursor[1]
          \/ cursor'[1] = cursor[1] /\ cursor'[2] >= cursor[2]]_vars

\* An attached client with nothing in flight is at the host's cursor and in
\* sync: attach output and the broadcasts after it leave nothing out.
QuietInSync ==
  (hostAttached /\ link = "ready" /\ toClient = <<>> /\ toHost = <<>>)
    => ~ desynced /\ cursor = <<epoch, seq>>

\* Once the host has the client attached, a desynced client has its
\* replacement snapshot on the way, even when the connection broke between a
\* gap and its snapshot and the re-attach used the cursor before the gap.
GapAnswered ==
  (desynced /\ hostAttached) => \E i \in DOMAIN toClient : toClient[i].type = "snapshot"

\* A desynced session is in sync again unless the connection goes down first.
DesyncHeals == desynced ~> (~ desynced \/ link = "down")

\* A client that stays attached ends up at the host's cursor.
Converges == <>[](hostAttached /\ link = "ready") => <>[](cursor = <<epoch, seq>>)

----------------------------------------------------------------------------
(* What every step keeps, of host, wire and client together. *)

\* The host's cursor is the last one of the timeline and carries its transcript.
TimelineOK ==
  /\ <<epoch, seq>> \in DOMAIN hist /\ hist[<<epoch, seq>>] = entries
  /\ \A c \in DOMAIN hist : c[1] < epoch \/ (c[1] = epoch /\ c[2] <= seq)

\* A frame says the truth about a timeline h: a snapshot is the transcript of
\* its cursor; a durable frame takes the transcript before it to its own.
FrameOK(f, h) ==
  /\ f.type = "snapshot" => CursorOf(f) \in DOMAIN h /\ h[CursorOf(f)] = f.entries
  /\ Durable(f) => /\ <<f.epoch, f.seq>> \in DOMAIN h /\ <<f.epoch, f.seq - 1>> \in DOMAIN h
                   /\ h[<<f.epoch, f.seq>>] = h[<<f.epoch, f.seq - 1>>] \o f.entries

GoodFrames(h, e) == {f \in Frame : FrameOK(f, h) /\ f.epoch = e /\ f.type # "welcome"}

\* Ring and connection hold true frames, each of one epoch.
FramesOK ==
  /\ ring \in Seq(GoodFrames(hist, epoch))
  /\ link = "ready" => toClient \in Seq(GoodFrames(hist, epochValue))

\* A connection starts with its welcome; its epoch is the host's as long as the
\* host has it open.
ConnectionOK ==
  /\ hostAttached => socket
  /\ link = "down" => ~ socket /\ toClient = <<>> /\ toHost = <<>>
  /\ link = "handshaking" =>
       /\ ~ hostAttached /\ toHost = <<>>
       /\ Len(toClient) = 1 /\ toClient[1].type = "welcome"
       /\ toClient[1].epoch <= epoch /\ (socket => toClient[1].epoch = epoch)
       /\ cursor # None => cursor[1] <= toClient[1].epoch
  /\ link = "ready" => epochValue # None /\ (socket => epochValue = epoch)

CopyOK ==
  IF cursor = None THEN copy = None
  ELSE epochValue = cursor[1] /\ cursor \in DOMAIN hist /\ copy = hist[cursor]

\* Without a cursor, the first frame that can be accepted is a snapshot.
BaseFirst ==
  (link = "ready" /\ cursor = None) =>
    /\ \A i \in DOMAIN toHost : toHost[i] = None
    /\ \A i \in DOMAIN toClient : Durable(toClient[i])
         => \E j \in DOMAIN toClient : j < i /\ toClient[j].type = "snapshot"
    /\ hostAttached => \E j \in DOMAIN toClient : toClient[j].type = "snapshot"

\* The inductive invariant behind Faithful and FeedSpec, also when several
\* consumers of one client attach to the session.
StreamInv == TypeOK /\ TimelineOK /\ FramesOK /\ ConnectionOK /\ CopyOK /\ BaseFirst
============================================================================
