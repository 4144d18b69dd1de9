------------------------ MODULE SessionStreamProofs ------------------------
(***************************************************************************)
(* Proofs about SessionStream, for every ring size, budget and bound: the  *)
(* inductive invariant StreamInv of SharedSpec, and from it that the       *)
(* consumer's copy is the host's transcript at its cursor (Faithful) and   *)
(* that the stream implements TranscriptFeed (FeedSpec).  With one         *)
(* consumer per client (Spec), also that frames never move the cursor back *)
(* (CursorMonotone), that a desynced client that is attached has its       *)
(* snapshot on the way (GapAnswered), and that an attached client with     *)
(* nothing in flight is in sync at the host's cursor (QuietInSync).        *)
(***************************************************************************)
EXTENDS SessionReplayProofs

\* h2 is the timeline h with more cursors.
Extends(h, h2) == DOMAIN h \subseteq DOMAIN h2 /\ \A c \in DOMAIN h : h2[c] = h[c]

\* Trimming to the ring size keeps frames of the ring only.
LEMMA TrimSeq ==
  ASSUME NEW S, NEW s \in Seq(S)
  PROVE  Trim(s) \in Seq(S)
<1>1. CASE Len(s) > RingSize
  <2>1. Len(s) - RingSize + 1 \in 1..Len(s)
    BY <1>1, RingAssumption, LenProperties
  <2>2. \A i \in (Len(s) - RingSize + 1)..Len(s) : s[i] \in S
    BY <2>1, ElementOfSeq, LenProperties
  <2>3. SubSeq(s, Len(s) - RingSize + 1, Len(s)) \in Seq(S)
    BY <2>1, <2>2, SubSeqProperties, LenProperties
  <2> QED BY <1>1, <2>3, Zenon DEF Trim
<1> QED BY <1>1, Zenon DEF Trim

\* The part of the ring after a cursor consists of frames of the ring: the ring
\* has one frame per cursor, so the first one after n is where RingOK says.
LEMMA RingAfterSeq ==
  ASSUME StreamInv, RingOK, NEW S, ring \in Seq(S), NEW n \in Nat
  PROVE  RingAfter(n) \in Seq(S)
<1> DEFINE later == {i \in DOMAIN ring : ring[i].seq > n}
           first == CHOOSE i \in later : \A j \in later : i <= j
<1>1. CASE later = {}
  BY <1>1, EmptySeq, Zenon DEF RingAfter
<1>2. CASE later # {}
  <2>1. later \subseteq Nat /\ DOMAIN ring = 1..Len(ring) /\ Len(ring) \in Nat /\ seq \in Nat
    BY LenProperties DEF StreamInv, TypeOK
  <2>2. \A i \in DOMAIN ring : i # 1 => ring[i].seq = (seq - Len(ring)) + i
    BY <2>1, Zenon DEF RingOK
  <2>3. \E i \in later : \A j \in later : i <= j
    <3>1. CASE 1 \in later
      BY <2>1, <3>1
    <3>2. CASE 1 \notin later
      <4>1. PICK x \in later : TRUE
        BY <1>2, Zenon
      <4>2. PICK a : a = ((n + 1) + Len(ring)) - seq
        BY Zenon
      <4>3. a \in Int /\ \A j \in DOMAIN ring : j # 1 => (ring[j].seq > n <=> j >= a)
        BY <2>1, <2>2, <4>2
      <4>4. \A j \in later : j \in Nat /\ j # 1 /\ 2 <= j /\ a <= j
        BY <2>1, <3>2, <4>3
      <4>5. CASE a >= 2
        <5>1. a \in DOMAIN ring /\ a # 1
          BY <2>1, <4>1, <4>3, <4>4, <4>5
        <5>2. a \in later
          BY <4>2, <4>3, <5>1
        <5> QED BY <4>4, <5>2, Zenon
      <4>6. CASE ~ (a >= 2)
        <5>1. 2 \in DOMAIN ring
          BY <2>1, <4>1, <4>4
        <5>2. 2 \in later
          BY <4>2, <4>3, <4>6, <5>1
        <5> QED BY <4>4, <5>2, Zenon
      <4> QED BY <4>5, <4>6, Zenon
    <3> QED BY <3>1, <3>2, Zenon
  <2>4. first \in later
    BY <2>3, Zenon
  <2>5. first \in 1..Len(ring)
    BY <2>1, <2>4, Zenon
  <2>6. \A i \in first..Len(ring) : ring[i] \in S
    BY <2>1, <2>5, ElementOfSeq
  <2>7. SubSeq(ring, first, Len(ring)) \in Seq(S)
    BY <2>1, <2>5, <2>6, SubSeqProperties, SMTT(30)
  <2> QED BY <1>2, <2>7, Zenon DEF RingAfter
<1> QED BY <1>1, <1>2, Zenon

\* Frames that are true of a timeline stay true when the timeline goes on.
LEMMA GoodFramesExtend ==
  ASSUME NEW h, NEW h2, Extends(h, h2), NEW e
  PROVE  GoodFrames(h, e) \subseteq GoodFrames(h2, e)
BY Zenon DEF Extends, GoodFrames, FrameOK, CursorOf

\* Recording new cursors rewrites no old one.
LEMMA RecordExtends ==
  ASSUME NEW new, Record(new)
  PROVE  /\ Extends(hist, hist')
         /\ DOMAIN hist' = DOMAIN hist \cup DOMAIN new
         /\ \A c \in DOMAIN new : c \notin DOMAIN hist => hist'[c] = new[c]
BY Zenon DEF Record, Extends

\* A gap and a snapshot of the timeline's transcript are true frames.
LEMMA GapAndSnapshotGood ==
  ASSUME NEW h, NEW e \in Nat, NEW n \in Nat, NEW es \in Seq(Entry),
         <<e, n>> \in DOMAIN h, h[<<e, n>>] = es
  PROVE  /\ Snapshot(e, n, es) \in GoodFrames(h, e)
         /\ GapAndSnapshot(e, n, es) \in Seq(GoodFrames(h, e))
<1>1. Snapshot(e, n, es) \in GoodFrames(h, e)
  BY Zenon DEF Snapshot, MakeFrame, GoodFrames, FrameOK, Frame, FrameTypes, CursorOf, Durable
<1>2. MakeFrame("gap", e, n, <<>>) \in GoodFrames(h, e)
  BY DEF MakeFrame, GoodFrames, FrameOK, Frame, FrameTypes, Durable
<1> QED BY <1>1, <1>2 DEF GapAndSnapshot

\* What replay sends is true of the timeline and of the host's epoch.
LEMMA ReplayGood ==
  ASSUME StreamInv, RingOK, NEW c \in Cursor
  PROVE  Replay(c) \in Seq(GoodFrames(hist, epoch))
<1>1. GapAndSnapshot(epoch, seq, entries) \in Seq(GoodFrames(hist, epoch))
  BY GapAndSnapshotGood, Zenon DEF StreamInv, TypeOK, TimelineOK
<1>2. RingAfter(c[2]) \in Seq(GoodFrames(hist, epoch))
  <2>1. c[2] \in Nat /\ ring \in Seq(GoodFrames(hist, epoch))
    BY Zenon DEF Cursor, StreamInv, FramesOK
  <2> QED BY <2>1, RingAfterSeq, Zenon
<1> QED BY <1>1, <1>2, Zenon DEF Replay

\* The output of an attach is true of the timeline; without a cursor its
\* snapshot precedes every durable frame.
LEMMA AttachOutputGood ==
  ASSUME StreamInv, RingOK, NEW c \in Cursor \cup {None}
  PROVE  /\ AttachOutput(c) \in Seq(GoodFrames(hist, epoch))
         /\ c = None => /\ Len(AttachOutput(c)) >= 2
                        /\ AttachOutput(c)[1].type = "response"
                        /\ AttachOutput(c)[2].type = "snapshot"
<1> DEFINE ack == MakeFrame("response", epoch, seq, <<>>)
           good == GoodFrames(hist, epoch)
           tail == Replay(<<epoch, seq>>)
<1>1. ack \in good /\ ack.type = "response"
  BY DEF StreamInv, TypeOK, MakeFrame, GoodFrames, FrameOK, Frame, FrameTypes, Durable
<1>2. Snapshot(epoch, seq, entries) \in good /\ Snapshot(epoch, seq, entries).type = "snapshot"
  BY GapAndSnapshotGood, Zenon DEF StreamInv, TypeOK, TimelineOK, Snapshot, MakeFrame
<1>3. tail \in Seq(good) /\ (c # None => Replay(c) \in Seq(good))
  <2>1. <<epoch, seq>> \in Cursor
    BY Zenon DEF StreamInv, TypeOK, Cursor
  <2> QED BY <2>1, ReplayGood, Zenon
<1> HIDE DEF ack, good, tail
<1>4. CASE c = None
  <2> DEFINE front == <<ack>> \o <<Snapshot(epoch, seq, entries)>>
  <2>1. front \in Seq(good) /\ Len(front) = 2 /\ front[1] = ack
        /\ front[2] = Snapshot(epoch, seq, entries)
    BY <1>1, <1>2
  <2>2. AttachOutput(c) = front \o tail
    BY <1>4, Zenon DEF AttachOutput, ack, tail
  <2> HIDE DEF front
  <2>3. front \o tail \in Seq(good) /\ Len(front \o tail) >= 2
        /\ (front \o tail)[1] = ack /\ (front \o tail)[2] = Snapshot(epoch, seq, entries)
    <3>1. Len(tail) \in Nat
      BY <1>3, LenProperties, Zenon
    <3>2. /\ front \o tail \in Seq(good)
          /\ Len(front \o tail) = Len(front) + Len(tail)
          /\ \A i \in 1..Len(front) + Len(tail) :
               (front \o tail)[i] = IF i <= Len(front) THEN front[i] ELSE tail[i - Len(front)]
      BY <2>1, <1>3, ConcatProperties, Zenon
    <3> QED BY <2>1, <3>1, <3>2
  <2> QED BY <1>1, <1>2, <2>2, <2>3, Zenon DEF good
<1>5. CASE c # None
  <2>1. AttachOutput(c) = (<<ack>> \o Replay(c)) \o tail
    BY <1>5, Zenon DEF AttachOutput, ack, tail
  <2>2. <<ack>> \in Seq(good)
    BY <1>1
  <2>3. (<<ack>> \o Replay(c)) \o tail \in Seq(good)
    BY <2>2, <1>3, <1>5, ConcatProperties, Zenon
  <2> QED BY <1>5, <2>1, <2>3, Zenon DEF good
<1> QED BY <1>4, <1>5, Zenon

\* A frame is a Frame and has the fields it was made of.
LEMMA FrameFields ==
  ASSUME NEW t \in FrameTypes, NEW e \in Nat, NEW n \in Nat, NEW es \in Seq(Entry)
  PROVE  /\ MakeFrame(t, e, n, es) \in Frame
         /\ MakeFrame(t, e, n, es).type = t /\ MakeFrame(t, e, n, es).epoch = e
         /\ MakeFrame(t, e, n, es).seq = n /\ MakeFrame(t, e, n, es).entries = es
BY Zenon DEF MakeFrame, Frame

\* A step of the projection keeps the invariant when it only adds to the
\* timeline and what it keeps in the ring and broadcasts is true of it.
LEMMA ProjectionStep ==
  ASSUME StreamInv, NEW out,
         epoch' = epoch, seq' \in Nat, entries' \in Seq(Entry),
         Extends(hist, hist'), TimelineOK',
         DOMAIN hist' \subseteq Cursor, \A c \in DOMAIN hist' : hist'[c] \in Seq(Entry),
         ring' \in Seq(GoodFrames(hist', epoch)),
         out \in Seq(GoodFrames(hist', epoch)), Broadcast(out),
         UNCHANGED <<socket, hostAttached, toHost, clientVars>>
  PROVE  StreamInv'
<1> USE DEF StreamInv, clientVars
<1>1. GoodFrames(hist', epoch) \subseteq Frame
  BY Zenon DEF GoodFrames
<1>2. toClient' \in Seq(Frame)
  <2>1. out \in Seq(Frame)
    BY <1>1, SeqMonotonic, Zenon
  <2> QED BY <2>1, ConcatProperties, Zenon DEF Broadcast, TypeOK
<1>3. TypeOK'
  <2>1. ring' \in Seq(Frame)
    BY <1>1, SeqMonotonic, Zenon
  <2> QED BY <1>2, <2>1, Zenon DEF TypeOK
<1>4. FramesOK'
  <2> SUFFICES ASSUME link = "ready"
               PROVE  toClient' \in Seq(GoodFrames(hist', epochValue))
    BY Zenon DEF FramesOK
  <2>1. toClient \in Seq(GoodFrames(hist', epochValue))
    <3>1. GoodFrames(hist, epochValue) \subseteq GoodFrames(hist', epochValue)
      BY GoodFramesExtend, Zenon
    <3> QED BY <3>1, SeqMonotonic, Zenon DEF FramesOK
  <2>2. CASE hostAttached
    <3>1. epochValue = epoch
      BY <2>2, Zenon DEF ConnectionOK
    <3> QED BY <2>1, <2>2, <3>1, ConcatProperties, Zenon DEF Broadcast
  <2>3. CASE ~ hostAttached
    BY <2>1, <2>3, Zenon DEF Broadcast
  <2> QED BY <2>2, <2>3, Zenon
<1>5. ConnectionOK'
  <2>1. link # "ready" => toClient' = toClient
    BY Zenon DEF ConnectionOK, Broadcast, TypeOK
  <2> QED BY <2>1, Zenon DEF ConnectionOK
<1>6. CopyOK'
  BY Zenon DEF CopyOK, Extends
<1>7. BaseFirst'
  <2> SUFFICES ASSUME link = "ready", cursor = None
               PROVE  BaseFirst'
    BY Zenon DEF BaseFirst
  <2>1. CASE ~ hostAttached
    BY <2>1, Zenon DEF Broadcast, BaseFirst
  <2>2. CASE hostAttached
    <3>1. PICK j \in DOMAIN toClient : toClient[j].type = "snapshot"
      BY <2>2, Zenon DEF BaseFirst
    <3>2. toClient \in Seq(Frame) /\ out \in Seq(Frame)
      BY <1>1, SeqMonotonic, Zenon DEF TypeOK
    <3>3. toClient' = toClient \o out
      BY <2>2, Zenon DEF Broadcast
    <3>4. /\ DOMAIN toClient = 1..Len(toClient) /\ Len(toClient) \in Nat /\ Len(out) \in Nat
          /\ DOMAIN toClient' = 1..(Len(toClient) + Len(out))
          /\ \A i \in DOMAIN toClient : toClient'[i] = toClient[i]
      BY <3>2, <3>3, ConcatProperties, LenProperties
    <3>5. ASSUME NEW i \in DOMAIN toClient', Durable(toClient'[i])
          PROVE  \E k \in DOMAIN toClient' : k < i /\ toClient'[k].type = "snapshot"
      <4>1. CASE i \in DOMAIN toClient
        BY SMTT(30), <3>4, <3>5, <4>1 DEF BaseFirst
      <4>2. CASE i \notin DOMAIN toClient
        BY <3>1, <3>4, <3>5, <4>2
      <4> QED BY <4>1, <4>2, Zenon
    <3>6. \E k \in DOMAIN toClient' : toClient'[k].type = "snapshot"
      BY <3>1, <3>4
    <3>7. \A i \in DOMAIN toHost' : toHost'[i] = None
      BY Zenon DEF BaseFirst
    <3> QED BY <3>5, <3>6, <3>7, Zenon DEF BaseFirst
  <2> QED BY <2>1, <2>2, Zenon
<1> QED BY <1>3, <1>4, <1>5, <1>6, <1>7, Zenon

\* One new cursor with transcript es after the host's: what the timeline is then.
LEMMA RecordNext ==
  ASSUME StreamInv, NEW es \in Seq(Entry), Record([c \in {<<epoch, seq + 1>>} |-> es]),
         epoch' = epoch, seq' = seq + 1, entries' = es
  PROVE  /\ Extends(hist, hist') /\ TimelineOK'
         /\ DOMAIN hist' \subseteq Cursor /\ \A c \in DOMAIN hist' : hist'[c] \in Seq(Entry)
         /\ <<epoch, seq>> \in DOMAIN hist' /\ hist'[<<epoch, seq>>] = entries
         /\ <<epoch, seq + 1>> \in DOMAIN hist' /\ hist'[<<epoch, seq + 1>>] = es
<1> DEFINE new == [c \in {<<epoch, seq + 1>>} |-> es]
<1>1. /\ Extends(hist, hist')
      /\ DOMAIN hist' = DOMAIN hist \cup {<<epoch, seq + 1>>}
      /\ <<epoch, seq + 1>> \notin DOMAIN hist => hist'[<<epoch, seq + 1>>] = es
  <2>1. /\ Extends(hist, hist')
        /\ DOMAIN hist' = DOMAIN hist \cup DOMAIN new
        /\ \A c \in DOMAIN new : c \notin DOMAIN hist => hist'[c] = new[c]
    BY RecordExtends, Zenon
  <2> QED BY <2>1, Zenon
<1>2. epoch \in Nat /\ seq \in Nat
  BY Zenon DEF StreamInv, TypeOK
<1>3. <<epoch, seq + 1>> \notin DOMAIN hist
  BY <1>2 DEF StreamInv, TimelineOK
<1>4. /\ DOMAIN hist' \subseteq Cursor
      /\ \A c \in DOMAIN hist' : hist'[c] \in Seq(Entry)
  <2>1. <<epoch, seq + 1>> \in Cursor
    BY <1>2 DEF Cursor
  <2>2. DOMAIN hist \subseteq Cursor /\ \A c \in DOMAIN hist : hist'[c] \in Seq(Entry)
    BY <1>1, Zenon DEF StreamInv, TypeOK, Extends
  <2> QED BY <1>1, <1>3, <2>1, <2>2, Zenon
<1>5. <<epoch, seq>> \in DOMAIN hist' /\ hist'[<<epoch, seq>>] = entries
  BY <1>1, Zenon DEF StreamInv, TimelineOK, Extends
<1>6. TimelineOK'
  <2>1. ASSUME NEW c \in DOMAIN hist
        PROVE  c[1] < epoch \/ (c[1] = epoch /\ c[2] <= seq + 1)
    <3>1. c[1] \in Nat /\ c[2] \in Nat
      BY Zenon DEF StreamInv, TypeOK, Cursor
    <3> QED BY <3>1, <1>2 DEF StreamInv, TimelineOK
  <2>2. <<epoch, seq + 1>>[1] = epoch /\ <<epoch, seq + 1>>[2] <= seq + 1
    BY <1>2
  <2>3. \A c \in DOMAIN hist' : c[1] < epoch \/ (c[1] = epoch /\ c[2] <= seq + 1)
    BY <1>1, <2>1, <2>2, Zenon
  <2> QED BY <1>1, <1>3, <2>3, Zenon DEF TimelineOK
<1> QED BY <1>1, <1>3, <1>4, <1>5, <1>6, Zenon

\* A durable frame at the next cursor, appended to the ring and broadcast.
LEMMA AppendFrameStep ==
  ASSUME StreamInv, NEW type \in {"entry", "event"}, NEW payload \in Seq(Entry),
         Record([c \in {<<epoch, seq + 1>>} |-> entries \o payload]),
         epoch' = epoch, seq' = seq + 1, entries' = entries \o payload,
         ring' = Trim(Append(ring, MakeFrame(type, epoch, seq + 1, payload))),
         Broadcast(<<MakeFrame(type, epoch, seq + 1, payload)>>),
         UNCHANGED <<socket, hostAttached, toHost, clientVars>>
  PROVE  StreamInv'
<1> DEFINE f == MakeFrame(type, epoch, seq + 1, payload)
           good == GoodFrames(hist', epoch)
<1>1. epoch \in Nat /\ seq \in Nat /\ entries \in Seq(Entry) /\ entries \o payload \in Seq(Entry)
  BY ConcatProperties, Zenon DEF StreamInv, TypeOK
<1>2. /\ Extends(hist, hist') /\ TimelineOK'
      /\ DOMAIN hist' \subseteq Cursor /\ \A c \in DOMAIN hist' : hist'[c] \in Seq(Entry)
      /\ <<epoch, seq>> \in DOMAIN hist' /\ hist'[<<epoch, seq>>] = entries
      /\ <<epoch, seq + 1>> \in DOMAIN hist' /\ hist'[<<epoch, seq + 1>>] = entries \o payload
  BY <1>1, RecordNext, Zenon
<1>3. f \in good
  <2>1. f \in Frame /\ f.type = type /\ f.epoch = epoch /\ f.seq = seq + 1 /\ f.entries = payload
    BY <1>1 DEF MakeFrame, Frame, FrameTypes
  <2>2. f.seq - 1 = seq
    BY <2>1, <1>1
  <2> HIDE DEF f
  <2> QED BY <2>1, <2>2, <1>2, Zenon DEF GoodFrames, FrameOK, Durable
<1>4. ring \in Seq(good)
  BY <1>2, GoodFramesExtend, SeqMonotonic, Zenon DEF StreamInv, FramesOK
<1> HIDE DEF f, good
<1>5. ring' \in Seq(good)
  <2>1. Append(ring, f) \in Seq(good)
    BY <1>3, <1>4, AppendProperties, Zenon
  <2> QED BY <2>1, TrimSeq, Zenon DEF f
<1>6. <<f>> \in Seq(good) /\ Broadcast(<<f>>)
  BY <1>3 DEF f
<1>7. seq' \in Nat /\ entries' \in Seq(Entry)
  BY <1>1
<1> QED BY <1>2, <1>5, <1>6, <1>7, ProjectionStep, Zenon DEF good

\* A new entry extends the timeline by one cursor; its frame says so.
LEMMA AppendEntryKeeps ==
  ASSUME StreamInv, NEW x \in Entry, AppendEntry(x)
  PROVE  StreamInv'
<1>1. entries \in Seq(Entry) /\ <<x>> \in Seq(Entry) /\ Append(entries, x) = entries \o <<x>>
  BY AppendProperties DEF StreamInv, TypeOK
<1> QED BY <1>1, AppendFrameStep, Zenon DEF AppendEntry

\* An event advances the cursor over the same transcript.
LEMMA AppendEventKeeps ==
  ASSUME StreamInv, AppendEvent
  PROVE  StreamInv'
<1>1. entries \in Seq(Entry) /\ <<>> \in Seq(Entry) /\ entries = entries \o <<>>
  BY ConcatEmptySeq DEF StreamInv, TypeOK
<1>2. /\ Record([c \in {<<epoch, seq + 1>>} |-> entries \o <<>>])
      /\ entries' = entries \o <<>> /\ epoch' = epoch /\ seq' = seq + 1
      /\ ring' = Trim(Append(ring, MakeFrame("event", epoch, seq + 1, <<>>)))
      /\ Broadcast(<<MakeFrame("event", epoch, seq + 1, <<>>)>>)
      /\ UNCHANGED <<socket, hostAttached, toHost, clientVars>>
  BY <1>1, Zenon DEF AppendEvent
<1> QED BY <1>1, <1>2, AppendFrameStep, Zenon

\* A replacement takes a new cursor and is announced by a gap and its snapshot.
LEMMA RebaseReplaceKeeps ==
  ASSUME StreamInv, NEW new \in Transcripts, RebaseReplace(new)
  PROVE  StreamInv'
<1> DEFINE output == GapAndSnapshot(epoch, seq + 1, new)
<1>1. epoch \in Nat /\ seq \in Nat /\ seq + 1 \in Nat /\ new \in Seq(Entry)
  BY TranscriptsSeq DEF StreamInv, TypeOK
<1>2. /\ Record([c \in {<<epoch, seq + 1>>} |-> new])
      /\ epoch' = epoch /\ seq' = seq + 1 /\ entries' = new
      /\ ring' = Trim(output) /\ Broadcast(output)
      /\ UNCHANGED <<socket, hostAttached, toHost, clientVars>>
  BY Zenon DEF RebaseReplace
<1>3. /\ Extends(hist, hist') /\ TimelineOK'
      /\ DOMAIN hist' \subseteq Cursor /\ \A c \in DOMAIN hist' : hist'[c] \in Seq(Entry)
      /\ <<epoch, seq + 1>> \in DOMAIN hist' /\ hist'[<<epoch, seq + 1>>] = new
  BY <1>1, <1>2, RecordNext, Zenon
<1>4. output \in Seq(GoodFrames(hist', epoch))
  BY <1>1, <1>3, GapAndSnapshotGood, Zenon
<1> HIDE DEF output
<1>5. ring' \in Seq(GoodFrames(hist', epoch))
  BY <1>2, <1>4, TrimSeq, Zenon
<1> QED BY <1>1, <1>2, <1>3, <1>4, <1>5, ProjectionStep, Zenon

\* The cursors that a rebase to an extension adds: each carries the part of
\* the new transcript up to its entry.
LEMMA RecordExtension ==
  ASSUME StreamInv, NEW new \in Seq(Entry), NEW k \in Nat \ {0},
         Len(new) = Len(entries) + k, entries = SubSeq(new, 1, Len(entries)),
         Record([c \in {<<epoch, seq + i>> : i \in 1..k} |->
                   SubSeq(new, 1, Len(entries) + c[2] - seq)]),
         epoch' = epoch, seq' = seq + k, entries' = new
  PROVE  /\ Extends(hist, hist') /\ TimelineOK'
         /\ DOMAIN hist' \subseteq Cursor /\ \A c \in DOMAIN hist' : hist'[c] \in Seq(Entry)
         /\ \A i \in 0..k : /\ <<epoch, seq + i>> \in DOMAIN hist'
                             /\ hist'[<<epoch, seq + i>>] = SubSeq(new, 1, Len(entries) + i)
<1> DEFINE at == {<<epoch, seq + i>> : i \in 1..k}
           add == [c \in at |-> SubSeq(new, 1, Len(entries) + c[2] - seq)]
<1>1. epoch \in Nat /\ seq \in Nat /\ Len(entries) \in Nat /\ Len(new) \in Nat
  BY LenProperties DEF StreamInv, TypeOK
<1>2. /\ Extends(hist, hist')
      /\ DOMAIN hist' = DOMAIN hist \cup at
      /\ \A c \in at : c \notin DOMAIN hist => hist'[c] = add[c]
  <2>1. DOMAIN add = at
    OBVIOUS
  <2> HIDE DEF at
  <2> QED BY <2>1, RecordExtends, Zenon DEF at
<1>3. ASSUME NEW i \in 1..k
      PROVE  /\ <<epoch, seq + i>> \in at /\ <<epoch, seq + i>> \notin DOMAIN hist
             /\ add[<<epoch, seq + i>>] = SubSeq(new, 1, Len(entries) + i)
  <2>1. <<epoch, seq + i>> \in at
    OBVIOUS
  <2>2. <<epoch, seq + i>> \notin DOMAIN hist
    BY <1>1 DEF StreamInv, TimelineOK
  <2>3. Len(entries) + <<epoch, seq + i>>[2] - seq = Len(entries) + i
    BY <1>1
  <2> QED BY <2>1, <2>2, <2>3
<1>4. \A i \in 1..k : hist'[<<epoch, seq + i>>] = SubSeq(new, 1, Len(entries) + i)
  BY <1>2, <1>3, Zenon
<1>5. <<epoch, seq>> \in DOMAIN hist' /\ hist'[<<epoch, seq>>] = SubSeq(new, 1, Len(entries))
  BY <1>2, Zenon DEF StreamInv, TimelineOK, Extends
<1>6. ASSUME NEW i \in 0..k
      PROVE  /\ <<epoch, seq + i>> \in DOMAIN hist'
             /\ hist'[<<epoch, seq + i>>] = SubSeq(new, 1, Len(entries) + i)
  <2>1. CASE i = 0
    <3>1. seq + i = seq /\ Len(entries) + i = Len(entries)
      BY <2>1, <1>1
    <3> QED BY <3>1, <1>5, Zenon
  <2>2. CASE i \in 1..k
    BY SMTT(30), <2>2, <1>2, <1>3, <1>4
  <2>3. i = 0 \/ i \in 1..k
    OBVIOUS
  <2> QED BY <2>1, <2>2, <2>3, Zenon
<1>7. \A c \in at : c \in Cursor /\ c[1] = epoch /\ c[2] <= seq + k /\ hist'[c] \in Seq(Entry)
  <2> SUFFICES ASSUME NEW i \in 1..k
               PROVE  /\ <<epoch, seq + i>> \in Cursor
                      /\ <<epoch, seq + i>>[1] = epoch /\ <<epoch, seq + i>>[2] <= seq + k
                      /\ hist'[<<epoch, seq + i>>] \in Seq(Entry)
    BY SMTT(30)
  <2>1. SubSeq(new, 1, Len(entries) + i) \in Seq(Entry)
    <3>1. \A j \in 1..(Len(entries) + i) : new[j] \in Entry
      BY <1>1, ElementOfSeq
    <3> QED BY <3>1, <1>1, SubSeqProperties
  <2>2. hist'[<<epoch, seq + i>>] \in Seq(Entry)
    BY <1>4, <2>1, Zenon
  <2>3. seq + i \in Nat /\ seq + i <= seq + k
    BY <1>1
  <2>4. <<epoch, seq + i>> \in Cursor /\ <<epoch, seq + i>>[1] = epoch
        /\ <<epoch, seq + i>>[2] = seq + i
    BY <1>1, <2>3 DEF Cursor
  <2> QED BY <2>2, <2>3, <2>4
<1>8. /\ DOMAIN hist' \subseteq Cursor
      /\ \A c \in DOMAIN hist' : hist'[c] \in Seq(Entry)
  <2>1. DOMAIN hist \subseteq Cursor /\ \A c \in DOMAIN hist : hist'[c] \in Seq(Entry)
    BY <1>2 DEF StreamInv, TypeOK, Extends
  <2> HIDE DEF at
  <2> QED BY <1>2, <1>7, <2>1
<1>9. TimelineOK'
  <2>1. ASSUME NEW c \in DOMAIN hist
        PROVE  c[1] < epoch \/ (c[1] = epoch /\ c[2] <= seq + k)
    <3>1. c[1] \in Nat /\ c[2] \in Nat
      BY DEF StreamInv, TypeOK, Cursor
    <3> QED BY <3>1, <1>1 DEF StreamInv, TimelineOK
  <2>2. SubSeq(new, 1, Len(entries) + k) = new
    BY SubSeqFull
  <2>3. <<epoch, seq + k>> \in DOMAIN hist' /\ hist'[<<epoch, seq + k>>] = new
    BY <1>6, <2>2
  <2> HIDE DEF at
  <2>4. \A c \in DOMAIN hist' : c[1] < epoch \/ (c[1] = epoch /\ c[2] <= seq + k)
    BY SMTT(30), <1>2, <1>7, <2>1
  <2> QED BY <2>3, <2>4 DEF TimelineOK
<1> HIDE DEF at
<1> QED BY <1>2, <1>6, <1>8, <1>9

\* An extension adds one cursor for each new entry, announced entry by entry or
\* by a gap and a snapshot of the last one.
LEMMA RebaseExtendKeeps ==
  ASSUME StreamInv, NEW new \in Transcripts, RebaseExtend(new)
  PROVE  StreamInv'
<1> DEFINE k == Len(new) - Len(entries)
           frames == [i \in 1..k |->
                        MakeFrame("entry", epoch, seq + i, <<new[Len(entries) + i]>>)]
           output == IF k <= RebaseBudget THEN frames ELSE GapAndSnapshot(epoch, seq + k, new)
           good == GoodFrames(hist', epoch)
<1>1. /\ epoch \in Nat /\ seq \in Nat /\ entries \in Seq(Entry) /\ new \in Seq(Entry)
      /\ Len(entries) \in Nat /\ Len(new) \in Nat
  BY TranscriptsSeq, LenProperties, Zenon DEF StreamInv, TypeOK
<1>2. /\ IsPrefix(entries, new) /\ k > 0
      /\ Record([c \in {<<epoch, seq + i>> : i \in 1..k} |->
                   SubSeq(new, 1, Len(entries) + c[2] - seq)])
      /\ epoch' = epoch /\ seq' = seq + k /\ entries' = new
      /\ ring' = IF k <= RebaseBudget THEN Trim(ring \o frames) ELSE Trim(output)
      /\ Broadcast(output)
      /\ UNCHANGED <<socket, hostAttached, toHost, clientVars>>
  BY Zenon DEF RebaseExtend
<1>3. k \in Nat \ {0} /\ Len(new) = Len(entries) + k /\ entries = SubSeq(new, 1, Len(entries))
  BY <1>1, <1>2 DEF IsPrefix
<1> HIDE DEF k
<1>4. /\ Extends(hist, hist') /\ TimelineOK'
      /\ DOMAIN hist' \subseteq Cursor /\ \A c \in DOMAIN hist' : hist'[c] \in Seq(Entry)
      /\ \A i \in 0..k : /\ <<epoch, seq + i>> \in DOMAIN hist'
                          /\ hist'[<<epoch, seq + i>>] = SubSeq(new, 1, Len(entries) + i)
  BY <1>1, <1>2, <1>3, RecordExtension, Zenon
<1>5. ASSUME NEW i \in 1..k
      PROVE  MakeFrame("entry", epoch, seq + i, <<new[Len(entries) + i]>>) \in good
  <2> DEFINE n == Len(entries) + i
             f == MakeFrame("entry", epoch, seq + i, <<new[n]>>)
  <2>1. n \in 1..Len(new) /\ seq + i \in Nat /\ (seq + i) - 1 = seq + (i - 1)
        /\ i - 1 \in 0..k /\ i \in 0..k /\ Len(entries) + (i - 1) = n - 1
    BY <1>1, <1>3
  <2>2. new[n] \in Entry
    BY <1>1, <2>1, ElementOfSeq, Zenon
  <2>3. f \in Frame /\ f.type = "entry" /\ f.epoch = epoch /\ f.seq = seq + i
        /\ f.entries = <<new[n]>>
    <3>1. "entry" \in FrameTypes /\ <<new[n]>> \in Seq(Entry)
      BY <2>2 DEF FrameTypes
    <3>2. epoch \in Nat /\ seq + i \in Nat
      BY <1>1, <2>1, Zenon
    <3> DEFINE q == <<new[n]>>
               s == seq + i
    <3>3. q \in Seq(Entry) /\ s \in Nat
      BY <3>1, <3>2, Zenon
    <3> HIDE DEF n, q, s
    <3>4. LET g == MakeFrame("entry", epoch, s, q)
          IN  g \in Frame /\ g.type = "entry" /\ g.epoch = epoch /\ g.seq = s /\ g.entries = q
      BY <3>1, <3>2, <3>3, FrameFields
    <3> QED BY <3>4, Zenon DEF q, s
  <2>4. 1 \in 1..Len(new) /\ n \in 1..Len(new)
    BY <2>1, <1>1
  <2>5. SubSeq(new, 1, n) = SubSeq(new, 1, n - 1) \o <<new[n]>>
    BY <1>1, <2>4, SubSeqRecursiveSecond, Zenon
  <2>6. /\ <<epoch, seq + i>> \in DOMAIN hist'
        /\ hist'[<<epoch, seq + i>>] = SubSeq(new, 1, n)
    BY <1>4, <2>1, Zenon
  <2>7. /\ <<epoch, seq + (i - 1)>> \in DOMAIN hist'
        /\ hist'[<<epoch, seq + (i - 1)>>] = SubSeq(new, 1, Len(entries) + (i - 1))
    BY <1>4, <2>1, Zenon
  <2> HIDE DEF f, n
  <2>8. FrameOK(f, hist')
    BY <2>1, <2>3, <2>5, <2>6, <2>7, Zenon DEF FrameOK, Durable
  <2>9. f \in good
    BY <2>3, <2>8, Zenon DEF GoodFrames
  <2> QED BY <2>9, Zenon DEF f, n
<1>6. frames \in Seq(good)
  <2>1. frames \in [1..k -> good]
    BY <1>5, Zenon
  <2> HIDE DEF frames, good
  <2> QED BY <2>1, <1>3, SeqDef, Zenon
<1>7. GapAndSnapshot(epoch, seq + k, new) \in Seq(good)
  <2>1. SubSeq(new, 1, Len(entries) + k) = new
    BY <1>1, <1>3, SubSeqFull, Zenon
  <2>2. <<epoch, seq + k>> \in DOMAIN hist' /\ hist'[<<epoch, seq + k>>] = new
    <3>1. k \in 0..k
      BY <1>3
    <3> QED BY <1>4, <2>1, <3>1, Zenon
  <2>3. epoch \in Nat /\ seq + k \in Nat /\ new \in Seq(Entry)
    BY <1>1, <1>3
  <2> QED BY <2>2, <2>3, GapAndSnapshotGood, Zenon
<1>8. ring \in Seq(good)
  BY <1>4, GoodFramesExtend, SeqMonotonic, Zenon DEF StreamInv, FramesOK
<1> HIDE DEF frames, good
<1>9. output \in Seq(good)
  BY <1>6, <1>7, Zenon
<1> HIDE DEF output
<1>10. ring' \in Seq(good)
  <2>1. ring \o frames \in Seq(good)
    BY <1>6, <1>8, ConcatProperties, Zenon
  <2>2. Trim(ring \o frames) \in Seq(good) /\ Trim(output) \in Seq(good)
    BY <2>1, <1>9, TrimSeq, Zenon
  <2> QED BY <1>2, <2>2, Zenon
<1>11. seq' \in Nat
  BY <1>1, <1>2, <1>3
<1> QED BY <1>1, <1>2, <1>4, <1>9, <1>10, <1>11, ProjectionStep, Zenon DEF good

\* A restart opens a new epoch of the timeline; the old connection is cut off
\* from it.
LEMMA HostRestartKeeps ==
  ASSUME StreamInv, HostRestart
  PROVE  StreamInv'
<1> DEFINE new == [c \in {<<epoch + 1, 0>>} |-> entries']
<1>1. epoch \in Nat /\ seq \in Nat /\ entries' \in Seq(Entry)
  BY EmptySeq, Zenon DEF StreamInv, TypeOK, HostRestart
<1>2. /\ Extends(hist, hist')
      /\ DOMAIN hist' = DOMAIN hist \cup {<<epoch + 1, 0>>}
      /\ <<epoch + 1, 0>> \notin DOMAIN hist => hist'[<<epoch + 1, 0>>] = entries'
  <2>1. Record(new)
    BY Zenon DEF HostRestart
  <2>2. /\ Extends(hist, hist')
        /\ DOMAIN hist' = DOMAIN hist \cup DOMAIN new
        /\ \A c \in DOMAIN new : c \notin DOMAIN hist => hist'[c] = new[c]
    BY <2>1, RecordExtends, Zenon
  <2> QED BY <2>2, Zenon
<1>3. <<epoch + 1, 0>> \notin DOMAIN hist
  BY <1>1 DEF StreamInv, TimelineOK
<1>4. /\ DOMAIN hist' \subseteq Cursor
      /\ \A c \in DOMAIN hist' : hist'[c] \in Seq(Entry)
  <2>1. <<epoch + 1, 0>> \in Cursor
    BY <1>1 DEF Cursor
  <2>2. DOMAIN hist \subseteq Cursor /\ \A c \in DOMAIN hist : hist'[c] \in Seq(Entry)
    BY <1>2, Zenon DEF StreamInv, TypeOK, Extends
  <2> QED BY <1>1, <1>2, <1>3, <2>1, <2>2, Zenon
<1>5. TypeOK'
  <2>1. /\ epoch' = epoch + 1 /\ seq' = 0 /\ ring' = <<>> /\ toHost' = <<>>
        /\ UNCHANGED <<toClient, clientVars>>
    BY Zenon DEF HostRestart
  <2>2. socket' \in BOOLEAN /\ hostAttached' \in BOOLEAN
    BY Zenon DEF HostRestart
  <2>3. <<>> \in Seq(Frame) /\ <<>> \in Seq(Cursor \cup {None})
    BY EmptySeq, Zenon
  <2> QED BY <1>1, <1>4, <2>1, <2>2, <2>3 DEF StreamInv, TypeOK, clientVars
<1>6. TimelineOK'
  <2>1. ASSUME NEW c \in DOMAIN hist
        PROVE  c[1] < epoch + 1
    <3>1. c[1] \in Nat /\ c[2] \in Nat
      BY Zenon DEF StreamInv, TypeOK, Cursor
    <3> QED BY <3>1, <1>1 DEF StreamInv, TimelineOK
  <2>2. <<epoch + 1, 0>>[1] = epoch + 1 /\ <<epoch + 1, 0>>[2] <= 0
    OBVIOUS
  <2>3. \A c \in DOMAIN hist' : c[1] < epoch + 1 \/ (c[1] = epoch + 1 /\ c[2] <= 0)
    BY <1>2, <2>1, <2>2, Zenon
  <2> QED BY <1>2, <1>3, <2>3, Zenon DEF TimelineOK, HostRestart
<1>7. FramesOK'
  <2>1. ring' \in Seq(GoodFrames(hist', epoch'))
    BY EmptySeq, Zenon DEF HostRestart
  <2>2. link = "ready" => toClient \in Seq(GoodFrames(hist', epochValue))
    BY <1>2, GoodFramesExtend, SeqMonotonic, Zenon DEF StreamInv, FramesOK
  <2> QED BY <2>1, <2>2, Zenon DEF FramesOK, HostRestart, clientVars
<1>8. ConnectionOK'
  <2>1. link = "handshaking" => toClient[1].epoch \in Nat
    <3>1. toClient \in Seq(Frame) /\ (link = "handshaking" => Len(toClient) = 1)
      BY Zenon DEF StreamInv, TypeOK, ConnectionOK
    <3>2. link = "handshaking" => toClient[1] \in Frame
      BY <3>1, ElementOfSeq
    <3> QED BY <3>2, Zenon DEF Frame
  <2> QED BY <1>1, <2>1 DEF StreamInv, ConnectionOK, HostRestart, clientVars
<1>9. CopyOK'
  BY <1>2, Zenon DEF StreamInv, CopyOK, Extends, HostRestart, clientVars
<1>10. BaseFirst'
  BY DEF StreamInv, BaseFirst, HostRestart, clientVars
<1> QED BY <1>5, <1>6, <1>7, <1>8, <1>9, <1>10, Zenon DEF StreamInv

\* Taking one command out of the queue leaves commands of the queue.
LEMMA RemoveSeq ==
  ASSUME NEW S, NEW s \in Seq(S), NEW i \in DOMAIN s
  PROVE  SubSeq(s, 1, i - 1) \o SubSeq(s, i + 1, Len(s)) \in Seq(S)
<1>1. DOMAIN s = 1..Len(s) /\ Len(s) \in Nat /\ i \in 1..Len(s)
  BY LenProperties, Zenon
<1>2. \A j \in 1..Len(s) : s[j] \in S
  BY ElementOfSeq, Zenon
<1>3. SubSeq(s, 1, i - 1) \in Seq(S)
  BY <1>1, <1>2, SubSeqProperties
<1>4. SubSeq(s, i + 1, Len(s)) \in Seq(S)
  BY <1>1, <1>2, SubSeqProperties
<1> QED BY <1>3, <1>4, ConcatProperties, Zenon

\* Acknowledgement, snapshot or replay, and the second replay are true frames of
\* the current epoch, and without a cursor the snapshot comes first.
LEMMA HostAttachKeeps ==
  ASSUME StreamInv, RingOK, HostAttach
  PROVE  StreamInv'
<1>1. PICK i \in DOMAIN toHost :
        /\ toClient' = toClient \o AttachOutput(toHost[i])
        /\ toHost' = SubSeq(toHost, 1, i - 1) \o SubSeq(toHost, i + 1, Len(toHost))
  BY Zenon DEF HostAttach
<1> DEFINE c == toHost[i]
           out == AttachOutput(c)
<1>2. socket /\ hostAttached' = TRUE /\ UNCHANGED <<hostVars, socket, clientVars>>
  BY Zenon DEF HostAttach
<1>3. link = "ready" /\ epochValue = epoch
  BY <1>2 DEF StreamInv, TypeOK, ConnectionOK
<1>4. /\ out \in Seq(GoodFrames(hist, epoch))
      /\ c = None => Len(out) >= 2 /\ out[1].type = "response" /\ out[2].type = "snapshot"
  <2>1. c \in Cursor \cup {None}
    BY ElementOfSeq, LenProperties, Zenon DEF StreamInv, TypeOK
  <2> QED BY <2>1, AttachOutputGood, Zenon
<1> HIDE DEF out, c
<1>5. out \in Seq(Frame) /\ toClient \in Seq(Frame) /\ Len(out) \in Nat /\ Len(toClient) \in Nat
  <2>1. GoodFrames(hist, epoch) \subseteq Frame
    BY Zenon DEF GoodFrames
  <2>2. out \in Seq(Frame) /\ toClient \in Seq(Frame)
    BY <1>4, <2>1, SeqMonotonic, Zenon DEF StreamInv, TypeOK
  <2> QED BY <2>2, LenProperties, Zenon
<1>6. toClient' = toClient \o out
  BY <1>1, Zenon DEF out, c
<1>7. TypeOK'
  <2>1. toClient' \in Seq(Frame)
    BY <1>5, <1>6, ConcatProperties, Zenon
  <2>2. toHost' \in Seq(Cursor \cup {None})
    BY <1>1, RemoveSeq, Zenon DEF StreamInv, TypeOK
  <2>3. hostAttached' \in BOOLEAN
    BY <1>2, Zenon
  <2>4. UNCHANGED <<hostVars, socket, clientVars>>
    BY <1>2, Zenon
  <2> QED BY <2>1, <2>2, <2>3, <2>4, Zenon DEF StreamInv, TypeOK, hostVars, clientVars
<1>8. TimelineOK' /\ CopyOK' /\ ConnectionOK'
  BY <1>2, <1>3, Zenon DEF StreamInv, TimelineOK, CopyOK, ConnectionOK, hostVars, clientVars
<1>9. FramesOK'
  <2>1. toClient' \in Seq(GoodFrames(hist, epochValue))
    BY <1>3, <1>4, <1>6, ConcatProperties, Zenon DEF StreamInv, FramesOK
  <2> QED BY <1>2, <2>1, Zenon DEF StreamInv, FramesOK, hostVars, clientVars
<1>10. BaseFirst'
  <2> SUFFICES ASSUME cursor = None
               PROVE  BaseFirst'
    BY <1>2, Zenon DEF BaseFirst, clientVars
  <2>1. toHost \in Seq({None}) /\ c = None
    <3>1. \A j \in DOMAIN toHost : toHost[j] = None
      BY <1>3, Zenon DEF StreamInv, BaseFirst
    <3>2. toHost \in [1..Len(toHost) -> {None}] /\ Len(toHost) \in Nat
      BY <3>1, LenProperties, Zenon DEF StreamInv, TypeOK
    <3> QED BY <3>1, <3>2, SeqDef, Zenon DEF c
  <2>2. \A j \in DOMAIN toHost' : toHost'[j] = None
    <3>1. toHost' \in Seq({None})
      BY <1>1, <2>1, RemoveSeq, Zenon
    <3> QED BY <3>1, ElementOfSeq, LenProperties
  <2>3. /\ DOMAIN toClient = 1..Len(toClient)
        /\ DOMAIN toClient' = 1..(Len(toClient) + Len(out))
        /\ \A j \in 1..Len(toClient) : toClient'[j] = toClient[j]
        /\ \A j \in 1..Len(out) : toClient'[Len(toClient) + j] = out[j]
    BY <1>5, <1>6, ConcatProperties, LenProperties
  <2>4. /\ Len(toClient) + 2 \in DOMAIN toClient'
        /\ toClient'[Len(toClient) + 1].type = "response"
        /\ toClient'[Len(toClient) + 2].type = "snapshot"
    <3>1. 1 \in 1..Len(out) /\ 2 \in 1..Len(out)
      BY <1>4, <1>5, <2>1
    <3> QED BY <1>4, <1>5, <2>1, <2>3, <3>1
  <2>5. ASSUME NEW j \in DOMAIN toClient', Durable(toClient'[j])
        PROVE  \E k \in DOMAIN toClient' : k < j /\ toClient'[k].type = "snapshot"
    <3>1. CASE j \in DOMAIN toClient
      <4>1. \E k \in DOMAIN toClient : k < j /\ toClient[k].type = "snapshot"
        BY <1>3, <2>3, <2>5, <3>1, Zenon DEF StreamInv, BaseFirst
      <4> QED BY SMTT(30), <1>5, <2>3, <4>1
    <3>2. CASE j \notin DOMAIN toClient
      <4>1. j # Len(toClient) + 1 /\ j # Len(toClient) + 2
        BY <2>4, <2>5, Zenon DEF Durable
      <4>2. Len(toClient) + 2 < j
        BY SMTT(30), <1>5, <2>3, <3>2, <4>1
      <4> QED BY <2>4, <4>2, Zenon
    <3> QED BY <3>1, <3>2, Zenon
  <2> QED BY <2>2, <2>4, <2>5, Zenon DEF BaseFirst
<1> QED BY <1>7, <1>8, <1>9, <1>10, Zenon DEF StreamInv

\* Dropping the connection leaves what was sent to be received.
LEMMA HostDropKeeps ==
  ASSUME StreamInv, HostDrop
  PROVE  StreamInv'
<1>1. TypeOK'
  <2>1. socket' \in BOOLEAN /\ hostAttached' \in BOOLEAN
    BY Zenon DEF HostDrop
  <2>2. toHost' \in Seq(Cursor \cup {None}) /\ UNCHANGED <<hostVars, toClient, clientVars>>
    BY EmptySeq, Zenon DEF HostDrop
  <2> QED BY <2>1, <2>2, Zenon DEF StreamInv, TypeOK, hostVars, clientVars
<1>2. TimelineOK' /\ FramesOK' /\ CopyOK'
  BY Zenon DEF StreamInv, TimelineOK, FramesOK, CopyOK, HostDrop, hostVars, clientVars
<1>3. ConnectionOK' /\ BaseFirst'
  BY DEF StreamInv, ConnectionOK, BaseFirst, HostDrop, hostVars, clientVars
<1> QED BY <1>1, <1>2, <1>3, Zenon DEF StreamInv

\* A new connection starts with the welcome of the host's epoch.
LEMMA ConnectKeeps ==
  ASSUME StreamInv, Connect
  PROVE  StreamInv'
<1> DEFINE w == MakeFrame("welcome", epoch, 0, <<>>)
<1>1. w \in Frame /\ w.type = "welcome" /\ w.epoch = epoch
  BY DEF StreamInv, TypeOK, MakeFrame, Frame, FrameTypes
<1>2. toClient' = <<w>> /\ toHost' = <<>> /\ link' = "handshaking" /\ generation' = generation + 1
      /\ UNCHANGED <<hostVars, epochValue, cursor, desynced, attached, copy>>
  BY Zenon DEF Connect
<1>3. socket' = TRUE /\ hostAttached' = FALSE
  BY Zenon DEF Connect
<1> HIDE DEF w
<1>4. toClient' \in Seq(Frame) /\ Len(toClient') = 1 /\ toClient'[1] = w
  BY <1>1, <1>2
<1>5. TypeOK'
  <2>1. socket' \in BOOLEAN /\ hostAttached' \in BOOLEAN
    BY <1>3, Zenon
  <2>2. toHost' \in Seq(Cursor \cup {None})
    BY <1>2, EmptySeq, Zenon
  <2> QED BY <1>2, <1>4, <2>1, <2>2 DEF StreamInv, TypeOK, hostVars
<1>6. TimelineOK' /\ FramesOK' /\ CopyOK' /\ BaseFirst'
  BY <1>2, Zenon DEF StreamInv, TimelineOK, FramesOK, CopyOK, BaseFirst, hostVars
<1>7. ConnectionOK'
  <2>1. epoch <= epoch
    BY DEF StreamInv, TypeOK
  <2>2. cursor # None => cursor[1] <= epoch
    <3>1. \A c \in DOMAIN hist : c[1] \in Nat /\ epoch \in Nat
      BY Zenon DEF StreamInv, TypeOK, Cursor
    <3> QED BY <3>1 DEF StreamInv, CopyOK, TimelineOK
  <2> QED BY <1>1, <1>2, <1>3, <1>4, <2>1, <2>2, Zenon DEF ConnectionOK, hostVars
<1> QED BY <1>5, <1>6, <1>7, Zenon DEF StreamInv

\* A disconnect loses what was in flight, and no more.
LEMMA DisconnectKeeps ==
  ASSUME StreamInv, Disconnect
  PROVE  StreamInv'
<1>1. /\ toClient' = <<>> /\ toHost' = <<>> /\ link' = "down"
      /\ UNCHANGED <<hostVars, generation, epochValue, cursor, desynced, attached, copy>>
  BY Zenon DEF Disconnect
<1>2. socket' = FALSE /\ hostAttached' = FALSE
  BY Zenon DEF Disconnect
<1>3. TypeOK'
  <2>1. socket' \in BOOLEAN /\ hostAttached' \in BOOLEAN
    BY <1>2, Zenon
  <2>2. toHost' \in Seq(Cursor \cup {None}) /\ toClient' \in Seq(Frame)
    BY <1>1, EmptySeq, Zenon
  <2> QED BY <1>1, <2>1, <2>2, Zenon DEF StreamInv, TypeOK, hostVars
<1>4. TimelineOK' /\ FramesOK' /\ CopyOK' /\ BaseFirst'
  BY <1>1, Zenon DEF StreamInv, TimelineOK, FramesOK, CopyOK, BaseFirst, hostVars
<1>5. ConnectionOK'
  BY <1>1, <1>2, Zenon DEF ConnectionOK
<1> QED BY <1>3, <1>4, <1>5, Zenon DEF StreamInv

\* A command posted on a ready connection, with no cursor or the journal's.
LEMMA PostKeeps ==
  ASSUME StreamInv, link = "ready", NEW c \in {None, cursor}, Post(c),
         UNCHANGED <<hostVars, socket, hostAttached, toClient, clientVars>>
  PROVE  StreamInv'
<1>1. toHost \in Seq(Cursor \cup {None}) /\ c \in Cursor \cup {None}
  BY Zenon DEF StreamInv, TypeOK
<1>2. toHost' \in Seq(Cursor \cup {None})
  BY <1>1, AppendProperties, Zenon DEF Post
<1>3. TypeOK'
  BY <1>2, Zenon DEF StreamInv, TypeOK, hostVars, clientVars
<1>4. TimelineOK' /\ FramesOK' /\ CopyOK' /\ ConnectionOK'
  BY Zenon DEF StreamInv, TimelineOK, FramesOK, CopyOK, ConnectionOK, hostVars, clientVars
<1>5. BaseFirst'
  <2> SUFFICES ASSUME cursor = None
               PROVE  \A i \in DOMAIN toHost' : toHost'[i] = None
    BY Zenon DEF StreamInv, BaseFirst, clientVars
  <2>1. \A i \in DOMAIN toHost : toHost[i] = None
    BY Zenon DEF StreamInv, BaseFirst
  <2>2. \A i \in DOMAIN Append(toHost, c) : Append(toHost, c)[i] = None
    BY <1>1, <2>1, AppendProperties, LenProperties
  <2> QED BY <2>1, <2>2, Zenon DEF Post
<1> QED BY <1>3, <1>4, <1>5, Zenon DEF StreamInv

\* A client without a cursor that handles a frame other than a snapshot still
\* has a snapshot before every durable frame.
LEMMA TailBaseFirst ==
  ASSUME StreamInv, link = "ready", cursor = None, toClient # <<>>,
         Head(toClient).type # "snapshot",
         toClient' = Tail(toClient), UNCHANGED <<hostAttached, toHost>>
  PROVE  BaseFirst' /\ ~ Durable(Head(toClient))
<1>1. /\ Head(toClient) = toClient[1]
      /\ Len(toClient) \in Nat /\ DOMAIN toClient = 1..Len(toClient) /\ 1 \in DOMAIN toClient
      /\ DOMAIN toClient' = 1..(Len(toClient) - 1)
      /\ \A i \in DOMAIN toClient' : toClient'[i] = toClient[i + 1]
  BY TailFacts, Zenon DEF StreamInv, TypeOK
<1>2. /\ \A i \in DOMAIN toHost : toHost[i] = None
      /\ \A i \in DOMAIN toClient : Durable(toClient[i])
            => \E j \in DOMAIN toClient : j < i /\ toClient[j].type = "snapshot"
      /\ hostAttached => \E j \in DOMAIN toClient : toClient[j].type = "snapshot"
  BY Zenon DEF StreamInv, BaseFirst
<1>3. ~ Durable(toClient[1])
  BY <1>1, <1>2
<1>4. \A j \in DOMAIN toClient : toClient[j].type = "snapshot"
        => j - 1 \in DOMAIN toClient' /\ toClient'[j - 1].type = "snapshot"
  BY <1>1
<1>5. ASSUME NEW i \in DOMAIN toClient', Durable(toClient'[i])
      PROVE  \E j \in DOMAIN toClient' : j < i /\ toClient'[j].type = "snapshot"
  <2>1. i + 1 \in DOMAIN toClient /\ Durable(toClient[i + 1])
    BY <1>1, <1>5
  <2>2. PICK j \in DOMAIN toClient : j < i + 1 /\ toClient[j].type = "snapshot"
    BY <1>2, <2>1, Zenon
  <2>3. j - 1 \in DOMAIN toClient' /\ toClient'[j - 1].type = "snapshot" /\ j - 1 < i
    BY <1>1, <1>4, <2>2
  <2> QED BY <2>3, Zenon
<1>6. hostAttached' => \E j \in DOMAIN toClient' : toClient'[j].type = "snapshot"
  BY Zenon, <1>2, <1>4
<1>7. BaseFirst'
  BY <1>2, <1>5, <1>6, Zenon DEF BaseFirst
<1> QED BY <1>1, <1>3, <1>7, Zenon

\* Frames that change neither cursor nor copy.
LEMMA QuietReceive ==
  ASSUME StreamInv, NEW type, Receive(type), type \notin {"welcome", "snapshot"},
         desynced' \in BOOLEAN, attached' \in BOOLEAN,
         UNCHANGED <<toHost, link, epochValue, cursor, copy>>
  PROVE  StreamInv'
<1>1. /\ link = "ready" /\ toClient # <<>> /\ Head(toClient).type = type
      /\ toClient' = Tail(toClient)
      /\ Tail(toClient) \in Seq(GoodFrames(hist, epochValue))
      /\ Tail(toClient) \in Seq(Frame)
      /\ UNCHANGED <<hostVars, socket, hostAttached, generation>>
  BY ReceiveReady, Zenon
<1>2. TypeOK'
  BY <1>1, Zenon DEF StreamInv, TypeOK, hostVars
<1>3. TimelineOK' /\ FramesOK' /\ CopyOK'
  BY <1>1, Zenon DEF StreamInv, TimelineOK, FramesOK, CopyOK, hostVars
<1>4. ConnectionOK'
  BY <1>1, Zenon DEF StreamInv, ConnectionOK, hostVars
<1>5. BaseFirst'
  <2>1. CASE cursor = None
    BY <1>1, <2>1, TailBaseFirst, Zenon
  <2>2. CASE cursor # None
    BY <2>2, Zenon DEF BaseFirst
  <2> QED BY <2>1, <2>2, Zenon
<1> QED BY <1>2, <1>3, <1>4, <1>5, Zenon DEF StreamInv

\* The acknowledgement of an attach changes neither cursor nor copy.
LEMMA HandleResponseKeeps ==
  ASSUME StreamInv, HandleResponse
  PROVE  StreamInv'
<1>1. desynced' \in BOOLEAN /\ attached' \in BOOLEAN
  BY Zenon DEF StreamInv, TypeOK, HandleResponse
<1>2. Receive("response") /\ UNCHANGED <<toHost, link, epochValue, cursor, copy>>
  BY Zenon DEF HandleResponse
<1> QED BY <1>1, <1>2, QuietReceive, Zenon

\* A gap marks the session and changes neither cursor nor copy.
LEMMA HandleGapKeeps ==
  ASSUME StreamInv, HandleGap
  PROVE  StreamInv'
<1>1. desynced' \in BOOLEAN /\ attached' \in BOOLEAN
  BY Zenon DEF StreamInv, TypeOK, HandleGap
<1>2. Receive("gap") /\ UNCHANGED <<toHost, link, epochValue, cursor, copy>>
  BY Zenon DEF HandleGap
<1> QED BY <1>1, <1>2, QuietReceive, Zenon

\* A frame that does not continue the copy leaves it alone.
LEMMA RejectDurableKeeps ==
  ASSUME StreamInv, NEW type \in {"entry", "event"}, RejectDurable(type)
  PROVE  StreamInv'
<1>1. desynced' \in BOOLEAN /\ attached' \in BOOLEAN
  BY Zenon DEF StreamInv, TypeOK, RejectDurable
<1>2. Receive(type) /\ UNCHANGED <<toHost, link, epochValue, cursor, copy>>
  BY DEF RejectDurable
<1>3. type \notin {"welcome", "snapshot"}
  BY SMTT(30)
<1> QED BY <1>1, <1>2, <1>3, QuietReceive

\* A frame that sets cursor and copy to its own cursor and the transcript there.
LEMMA MoveReceive ==
  ASSUME StreamInv, NEW type, Receive(type), type # "welcome",
         CursorOf(Head(toClient)) \in DOMAIN hist,
         cursor' = CursorOf(Head(toClient)), copy' = hist[cursor'],
         epochValue' = Head(toClient).epoch,
         desynced' \in BOOLEAN, UNCHANGED <<toHost, link, attached>>
  PROVE  StreamInv' /\ epochValue' = epochValue /\ cursor'[1] = epochValue
<1>1. /\ link = "ready" /\ toClient # <<>>
      /\ Head(toClient) \in GoodFrames(hist, epochValue)
      /\ toClient' = Tail(toClient)
      /\ Tail(toClient) \in Seq(GoodFrames(hist, epochValue))
      /\ Tail(toClient) \in Seq(Frame)
      /\ UNCHANGED <<hostVars, socket, hostAttached, generation>>
  BY ReceiveReady, Zenon
<1>2. epochValue' = epochValue /\ cursor'[1] = epochValue
  BY <1>1, Zenon DEF GoodFrames, CursorOf
<1>3. cursor' \in Cursor /\ cursor' # None /\ copy' \in Seq(Entry)
  BY NoneAssumption, Zenon DEF StreamInv, TypeOK, Cursor
<1>4. TypeOK'
  BY <1>1, <1>2, <1>3, Zenon DEF StreamInv, TypeOK, hostVars
<1>5. TimelineOK' /\ FramesOK'
  BY ZenonT(30), <1>1, <1>2 DEF StreamInv, TimelineOK, FramesOK, hostVars
<1>6. ConnectionOK'
  BY <1>1, <1>2, Zenon DEF StreamInv, ConnectionOK, hostVars
<1>7. CopyOK' /\ BaseFirst'
  BY <1>1, <1>2, <1>3, Zenon DEF CopyOK, BaseFirst, hostVars
<1> QED BY <1>2, <1>4, <1>5, <1>6, <1>7, Zenon DEF StreamInv

\* A snapshot takes the client to the transcript of a cursor of its epoch.
LEMMA AcceptSnapshotMoves ==
  ASSUME StreamInv, AcceptSnapshot
  PROVE  /\ StreamInv' /\ cursor' \in DOMAIN hist /\ copy' = hist[cursor']
         /\ cursor'[1] = epochValue /\ UNCHANGED hostVars
<1> DEFINE f == Head(toClient)
<1>1. /\ Receive("snapshot") /\ cursor' = CursorOf(f) /\ epochValue' = f.epoch
      /\ copy' = f.entries /\ UNCHANGED <<toHost, link, attached>>
  BY Zenon DEF AcceptSnapshot
<1>2. desynced' \in BOOLEAN
  BY Zenon DEF AcceptSnapshot
<1>3. f.type = "snapshot" /\ f \in GoodFrames(hist, epochValue) /\ UNCHANGED hostVars
  BY <1>1, ReceiveReady, Zenon
<1> HIDE DEF f
<1>4. CursorOf(f) \in DOMAIN hist /\ hist[CursorOf(f)] = f.entries
  BY <1>3, Zenon DEF GoodFrames, FrameOK
<1>5. copy' = hist[cursor']
  BY <1>1, <1>4, Zenon
<1> QED BY <1>1, <1>2, <1>3, <1>4, <1>5, MoveReceive, Zenon DEF f

\* A durable frame is accepted only by a client that has a cursor, and takes
\* it to the transcript of the next cursor.
LEMMA AcceptDurableMoves ==
  ASSUME StreamInv, NEW type \in {"entry", "event"}, AcceptDurable(type)
  PROVE  /\ StreamInv' /\ cursor # None /\ cursor' = <<cursor[1], cursor[2] + 1>>
         /\ cursor' \in DOMAIN hist /\ copy' = hist[cursor'] /\ UNCHANGED hostVars
<1> DEFINE f == Head(toClient)
<1>1. /\ Receive(type) /\ Accepted(f) /\ cursor' = CursorOf(f) /\ epochValue' = f.epoch
      /\ copy' = (IF copy = None THEN f.entries ELSE copy \o f.entries)
      /\ UNCHANGED <<toHost, link, desynced, attached>>
  BY Zenon DEF AcceptDurable
<1>2. desynced' \in BOOLEAN
  BY <1>1, Zenon DEF StreamInv, TypeOK
<1>3. /\ link = "ready" /\ toClient # <<>> /\ f.type = type
      /\ f \in GoodFrames(hist, epochValue) /\ toClient' = Tail(toClient)
      /\ UNCHANGED <<hostVars, hostAttached>>
  BY <1>1, ReceiveReady, Zenon
<1>4. Durable(f) /\ f.type # "snapshot"
  BY <1>3, Zenon DEF Durable
<1>5. cursor # None
  BY <1>1, <1>3, <1>4, TailBaseFirst, Zenon
<1> HIDE DEF f
<1>6. f.epoch = cursor[1] /\ f.seq = cursor[2] + 1
  BY <1>1, <1>5, Zenon DEF Accepted, Contiguous
<1>7. cursor = <<cursor[1], cursor[2]>> /\ cursor[2] \in Nat
  BY <1>5 DEF StreamInv, TypeOK, Cursor
<1>8. <<f.epoch, f.seq - 1>> = cursor
  BY <1>6, <1>7
<1>9. /\ CursorOf(f) \in DOMAIN hist
      /\ hist[CursorOf(f)] = hist[cursor] \o f.entries
  BY Zenon, <1>3, <1>4, <1>8 DEF GoodFrames, FrameOK, CursorOf
<1>10. copy = hist[cursor] /\ copy # None
  BY <1>5, NoneAssumption, Zenon DEF StreamInv, CopyOK, TypeOK
<1>11. copy' = hist[cursor']
  BY <1>1, <1>9, <1>10, Zenon
<1>12. type # "welcome"
  OBVIOUS
<1>13. StreamInv'
  BY ZenonT(30), <1>1, <1>2, <1>9, <1>11, <1>12, MoveReceive DEF f
<1> QED BY Zenon, <1>1, <1>3, <1>5, <1>6, <1>9, <1>11, <1>13 DEF CursorOf

\* A welcome keeps cursor and copy, or forgets both when the host's epoch is
\* newer than theirs.
LEMMA HandleWelcomeMoves ==
  ASSUME StreamInv, HandleWelcome
  PROVE  /\ StreamInv' /\ UNCHANGED hostVars
         /\ \/ UNCHANGED <<cursor, copy>>
            \/ cursor # None /\ epoch > cursor[1] /\ cursor' = None /\ copy' = None
<1> DEFINE f == Head(toClient)
           newEpoch == epochValue # None /\ epochValue # f.epoch
           forget == newEpoch /\ cursor # None /\ cursor[1] # f.epoch
<1>1. /\ link = "handshaking" /\ link' = "ready" /\ toClient # <<>> /\ toClient' = Tail(toClient)
      /\ cursor' = (IF forget THEN None ELSE cursor)
      /\ copy' = (IF forget THEN None ELSE copy)
      /\ epochValue' = f.epoch
      /\ UNCHANGED <<hostVars, socket, hostAttached, generation, attached>>
  BY DEF HandleWelcome, Receive
<1>2. desynced' \in BOOLEAN
  BY Zenon DEF HandleWelcome
<1>3. /\ ~ hostAttached /\ toHost = <<>> /\ Len(toClient) = 1
      /\ toClient[1].epoch <= epoch /\ (socket => toClient[1].epoch = epoch)
      /\ cursor # None => cursor[1] <= toClient[1].epoch
  BY <1>1 DEF StreamInv, ConnectionOK
<1>4. f = toClient[1] /\ f.epoch \in Nat /\ toClient' = <<>>
  <2>1. /\ f = toClient[1] /\ f \in Frame /\ Tail(toClient) \in Seq(Frame)
        /\ Len(Tail(toClient)) = 0
    BY SMTT(30), <1>1, <1>3, TailFacts, HeadTailProperties DEF StreamInv, TypeOK
  <2> QED BY Zenon, <1>1, <2>1, EmptySeq DEF Frame
<1>5. IF attached THEN Post(cursor') ELSE UNCHANGED toHost
  BY DEF HandleWelcome
<1> HIDE DEF f
<1>6. cursor # None => cursor[1] \in Nat /\ epochValue = cursor[1]
  BY SMTT(30) DEF StreamInv, TypeOK, CopyOK, Cursor
<1>7. forget => cursor # None /\ epoch > cursor[1]
  BY SMTT(30), <1>3, <1>4, <1>6 DEF StreamInv, TypeOK
<1>8. ~ forget /\ cursor # None => cursor[1] = f.epoch
  BY SMTT(30), <1>6, NoneAssumption
<1> HIDE DEF forget
<1>9. cursor' \in Cursor \cup {None} /\ copy' \in Seq(Entry) \cup {None}
  BY <1>1 DEF StreamInv, TypeOK
<1>10. toHost' = <<>> \/ toHost' = <<cursor'>>
  <2>1. Append(<<>>, cursor') = <<cursor'>>
    BY SMTT(30)
  <2> QED BY <1>3, <1>5, <2>1 DEF Post
<1>11. TypeOK'
  <2>1. toHost' \in Seq(Cursor \cup {None}) /\ toClient' \in Seq(Frame)
    <3>1. <<>> \in Seq(Frame) /\ <<>> \in Seq(Cursor \cup {None})
      BY EmptySeq
    <3>2. <<cursor'>> \in Seq(Cursor \cup {None})
      BY SMTT(30), <1>9
    <3> QED BY <1>4, <1>10, <3>1, <3>2, ZenonT(30)
  <2> QED BY SMTT(30), <1>1, <1>2, <1>4, <1>9, <2>1 DEF StreamInv, TypeOK, hostVars
<1>12. TimelineOK'
  BY <1>1 DEF StreamInv, TimelineOK, hostVars
<1>13. FramesOK'
  BY ZenonT(30), <1>1, <1>4, EmptySeq DEF StreamInv, FramesOK, hostVars
<1>14. ConnectionOK'
  <2>1. f.epoch # None
    BY SMTT(30), <1>4, NoneAssumption
  <2> QED BY SMTT(30), <1>1, <1>3, <1>4, <2>1 DEF StreamInv, ConnectionOK, hostVars
<1>15. CopyOK'
  BY SMTT(30), <1>1, <1>8 DEF StreamInv, CopyOK, hostVars
<1>16. BaseFirst'
  <2>1. cursor' = None => \A i \in DOMAIN toHost' : toHost'[i] = None
    BY <1>10
  <2> QED BY <1>1, <1>3, <1>4, <2>1 DEF BaseFirst
<1> QED BY SMTT(30), <1>1, <1>7, <1>11, <1>12, <1>13, <1>14, <1>15, <1>16 DEF StreamInv

\* The invariant holds at the start.
LEMMA InitStreamInv == Init => StreamInv
<1> SUFFICES ASSUME Init PROVE StreamInv
  OBVIOUS
<1>1. /\ epoch = 0 /\ seq = 0 /\ ring = <<>> /\ entries = <<>> /\ hist = [c \in {<<0, 0>>} |-> <<>>]
      /\ toClient = <<>> /\ toHost = <<>> /\ link = "down" /\ generation = 0
      /\ epochValue = None /\ cursor = None /\ copy = None
  BY Zenon DEF Init
<1>2. socket = FALSE /\ hostAttached = FALSE /\ desynced = FALSE /\ attached = FALSE
  BY Zenon DEF Init
<1>3. socket \in BOOLEAN /\ hostAttached \in BOOLEAN /\ desynced \in BOOLEAN /\ attached \in BOOLEAN
  BY <1>2, Zenon
<1>4. DOMAIN hist = {<<0, 0>>} /\ hist[<<0, 0>>] = <<>> /\ <<0, 0>> \in Cursor
  BY <1>1, Zenon DEF Cursor
<1>5. TypeOK
  <2>1. <<>> \in Seq(Entry) /\ <<>> \in Seq(Frame) /\ <<>> \in Seq(Cursor \cup {None})
    BY EmptySeq, Zenon
  <2>2. DOMAIN hist \subseteq Cursor /\ \A c \in DOMAIN hist : hist[c] \in Seq(Entry)
    BY <1>4, <2>1, Zenon
  <2>3. epoch \in Nat /\ seq \in Nat /\ generation \in Nat
    BY <1>1, Zenon
  <2> QED BY <1>1, <1>3, <2>1, <2>2, <2>3, Zenon DEF TypeOK
<1>6. TimelineOK
  BY <1>1, <1>4 DEF TimelineOK
<1>7. FramesOK
  BY <1>1, EmptySeq, Zenon DEF FramesOK
<1>8. ConnectionOK /\ CopyOK /\ BaseFirst
  BY <1>1, <1>2, Zenon DEF ConnectionOK, CopyOK, BaseFirst
<1> QED BY <1>5, <1>6, <1>7, <1>8, Zenon DEF StreamInv

\* The invariant is a state predicate of the variables of the specification.
LEMMA StutterKeeps ==
  ASSUME StreamInv, UNCHANGED vars
  PROVE  StreamInv'
BY ZenonT(30) DEF StreamInv, TypeOK, TimelineOK, FramesOK, ConnectionOK, CopyOK, BaseFirst,
       vars, hostVars, wireVars, clientVars

\* Every step of host, wire and client keeps the invariant.
LEMMA NextStreamInv == StreamInv /\ RingOK /\ [SharedNext]_vars => StreamInv'
<1> SUFFICES ASSUME StreamInv, RingOK, [SharedNext]_vars PROVE StreamInv'
  OBVIOUS
<1>1. ASSUME NEW x \in Entry, AppendEntry(x) PROVE StreamInv'
  BY <1>1, AppendEntryKeeps, Zenon
<1>2. CASE AppendEvent
  BY <1>2, AppendEventKeeps, Zenon
<1>3. ASSUME NEW new \in Transcripts, RebaseExtend(new) PROVE StreamInv'
  BY <1>3, RebaseExtendKeeps, Zenon
<1>4. ASSUME NEW new \in Transcripts, RebaseReplace(new) PROVE StreamInv'
  BY <1>4, RebaseReplaceKeeps, Zenon
<1>5. CASE HostRestart
  BY <1>5, HostRestartKeeps, Zenon
<1>6. CASE HostAttach
  BY <1>6, HostAttachKeeps, Zenon
<1>7. CASE HostDrop
  BY <1>7, HostDropKeeps, Zenon
<1>8. CASE Connect
  BY <1>8, ConnectKeeps, Zenon
<1>9. CASE Disconnect
  BY <1>9, DisconnectKeeps, Zenon
<1>10. CASE Attach
  BY <1>10, PostKeeps, Zenon DEF Attach
<1>11. CASE AttachAgain
  BY <1>11, PostKeeps, Zenon DEF AttachAgain
<1>12. CASE HandleWelcome
  BY <1>12, HandleWelcomeMoves, Zenon
<1>13. CASE HandleResponse
  BY <1>13, HandleResponseKeeps, Zenon
<1>14. CASE HandleGap
  BY <1>14, HandleGapKeeps, Zenon
<1>15. CASE AcceptSnapshot
  BY <1>15, AcceptSnapshotMoves, Zenon
<1>16. ASSUME NEW type \in {"entry", "event"}, AcceptDurable(type) PROVE StreamInv'
  BY <1>16, AcceptDurableMoves, Zenon
<1>17. ASSUME NEW type \in {"entry", "event"}, RejectDurable(type) PROVE StreamInv'
  BY <1>17, RejectDurableKeeps, Zenon
<1>18. CASE UNCHANGED vars
  BY <1>18, StutterKeeps, Zenon
<1> QED BY Zenon, <1>1, <1>2, <1>3, <1>4, <1>5, <1>6, <1>7, <1>8, <1>9, <1>10, <1>11, <1>12, <1>13,
           <1>14, <1>15, <1>16, <1>17, <1>18, Zenon
        DEF SharedNext, Next, HostNext, ClientNext, Deliver

\* The projection keeps one frame per cursor in the ring, whoever reads it.
LEMMA NextRing == StreamInv /\ RingOK /\ [SharedNext]_vars => RingOK'
<1> SUFFICES ASSUME StreamInv, RingOK, [SharedNext]_vars PROVE RingOK'
  OBVIOUS
<1> DEFINE entryFrame(x) == MakeFrame("entry", epoch, seq + 1, <<x>>)
           eventFrame == MakeFrame("event", epoch, seq + 1, <<>>)
<1>1. epoch \in Nat /\ seq \in Nat /\ seq + 1 \in Nat
  BY DEF StreamInv, TypeOK
<1>2. ASSUME NEW x \in Entry, AppendEntry(x) PROVE RingOK'
  <2>1. entryFrame(x) \in Frame /\ Durable(entryFrame(x)) /\ entryFrame(x).seq = seq + 1
    BY <1>1 DEF MakeFrame, Frame, FrameTypes, Durable
  <2>2. seq' = seq + 1 /\ ring' = Trim(Append(ring, entryFrame(x)))
    BY <1>2, Zenon DEF AppendEntry
  <2> QED BY <2>1, <2>2, AppendRing, Zenon
<1>3. CASE AppendEvent
  <2>1. eventFrame \in Frame /\ Durable(eventFrame) /\ eventFrame.seq = seq + 1
    BY <1>1 DEF MakeFrame, Frame, FrameTypes, Durable
  <2>2. seq' = seq + 1 /\ ring' = Trim(Append(ring, eventFrame))
    BY <1>3, Zenon DEF AppendEvent
  <2> QED BY <2>1, <2>2, AppendRing, Zenon
<1>4. ASSUME NEW new \in Transcripts, NEW n, n \in Nat, seq' = n, ring' = Trim(GapAndSnapshot(epoch, n, new))
      PROVE  RingOK'
  BY <1>1, <1>4, TranscriptsSeq, RingReset, Zenon
<1>5. ASSUME NEW new \in Transcripts, RebaseExtend(new) PROVE RingOK'
  <2>1. PICK k \in Nat \ {0} :
          /\ seq' = seq + k
          /\ \/ \E frames \in Seq(Frame) :
                  /\ Len(frames) = k /\ \A j \in 1 .. k : Durable(frames[j]) /\ frames[j].seq = seq + j
                  /\ ring' = Trim(ring \o frames)
             \/ ring' = Trim(GapAndSnapshot(epoch, seq + k, new))
    BY <1>5, ExtendOutput, Zenon
  <2>2. seq + k \in Nat
    BY ONLY <1>1, <2>1
  <2> QED BY <1>4, <2>1, <2>2, RingGrows, Zenon
<1>6. ASSUME NEW new \in Transcripts, RebaseReplace(new) PROVE RingOK'
  BY <1>1, <1>4, <1>6, Zenon DEF RebaseReplace
<1>7. CASE HostRestart
  <2>1. DOMAIN ring' = {}
    BY <1>7 DEF HostRestart
  <2> QED BY <2>1, Zenon DEF RingOK
<1>8. CASE UNCHANGED <<ring, seq>>
  BY <1>8, Zenon DEF RingOK
<1>9. HostAttach \/ HostDrop \/ ClientNext \/ AttachAgain \/ UNCHANGED vars => UNCHANGED <<ring, seq>>
  BY Zenon DEF HostAttach, HostDrop, ClientNext, AttachAgain, Post, Connect, Disconnect, Attach, Deliver,
               HandleWelcome, HandleResponse, HandleGap, AcceptSnapshot, AcceptDurable, RejectDurable,
               Receive, vars, hostVars
<1> QED
  BY <1>2, <1>3, <1>5, <1>6, <1>7, <1>8, <1>9, Zenon DEF SharedNext, Next, HostNext

\* The invariant of host, wire and client holds in every state, for one consumer
\* or several, whatever the ring size and the budgets.
THEOREM StreamInvariant == SharedSpec => []StreamInv
<1>1. Init => RingOK
  BY InitSync, Zenon DEF SyncInv
<1> QED BY <1>1, InitStreamInv, NextStreamInv, NextRing, PTL DEF SharedSpec

\* Host, wire and client keep the shape of their state, with one consumer or
\* several.
THEOREM StreamTypes == SharedSpec => []TypeOK
<1>1. StreamInv => TypeOK
  BY Zenon DEF StreamInv
<1> QED BY <1>1, StreamInvariant, PTL

\* What OmpClient publishes is the host's transcript at the journal cursor,
\* also with several consumers attaching on one connection.
THEOREM FaithfulCopy == SharedSpec => []Faithful
<1>1. StreamInv => Faithful
  BY Zenon DEF StreamInv, CopyOK, Faithful
<1> QED BY <1>1, StreamInvariant, PTL

\* A step of the projection is a Write of the feed.
LEMMA ProjectionWrites ==
  ASSUME StreamInv', NEW new, Record(new), UNCHANGED <<cursor, copy>>,
         \/ epoch' > epoch
         \/ epoch' = epoch /\ seq' > seq
  PROVE  Feed!Write
<1>1. Extends(hist, hist')
  BY RecordExtends, Zenon
<1>2. <<epoch', seq'>> \in DOMAIN hist'
  BY Zenon DEF StreamInv, TimelineOK
<1> QED BY <1>1, <1>2, Zenon DEF Feed!Write, Feed!Later, Extends

\* Every step of host, wire and client is a step of the feed or none.
LEMMA NextRefines == StreamInv /\ StreamInv' /\ [SharedNext]_vars => [Feed!Next]_(Feed!feedVars)
<1> SUFFICES ASSUME StreamInv, StreamInv', [SharedNext]_vars
             PROVE  Feed!Next \/ UNCHANGED Feed!feedVars
  OBVIOUS
<1> USE DEF Feed!feedVars
<1>1. epoch \in Nat /\ seq \in Nat
  BY Zenon DEF StreamInv, TypeOK
<1>2. ASSUME NEW x \in Entry, AppendEntry(x) PROVE Feed!Next
  <2>1. seq' > seq /\ epoch' = epoch /\ UNCHANGED <<cursor, copy>>
    BY <1>1, <1>2 DEF AppendEntry, clientVars
  <2>2. Record([c \in {<<epoch, seq + 1>>} |-> Append(entries, x)])
    BY <1>2, Zenon DEF AppendEntry
  <2> QED BY <2>1, <2>2, ProjectionWrites, Zenon DEF Feed!Next
<1>3. CASE AppendEvent
  <2>1. seq' > seq /\ epoch' = epoch /\ UNCHANGED <<cursor, copy>>
    BY <1>1, <1>3 DEF AppendEvent, clientVars
  <2>2. Record([c \in {<<epoch, seq + 1>>} |-> entries])
    BY <1>3, Zenon DEF AppendEvent
  <2> QED BY <2>1, <2>2, ProjectionWrites, Zenon DEF Feed!Next
<1>4. ASSUME NEW new \in Transcripts, RebaseExtend(new) PROVE Feed!Next
  <2> DEFINE k == Len(new) - Len(entries)
  <2>1. k > 0 /\ seq' = seq + k /\ epoch' = epoch /\ UNCHANGED <<cursor, copy>>
    BY Zenon, <1>4 DEF RebaseExtend, clientVars
  <2>2. Len(new) \in Nat /\ Len(entries) \in Nat
    BY TranscriptsSeq, LenProperties, Zenon DEF StreamInv, TypeOK
  <2>3. seq' > seq
    BY <1>1, <2>1, <2>2
  <2>4. Record([c \in {<<epoch, seq + i>> : i \in 1..k} |->
                  SubSeq(new, 1, Len(entries) + c[2] - seq)])
    BY <1>4, Zenon DEF RebaseExtend
  <2> QED BY <2>1, <2>3, <2>4, ProjectionWrites, Zenon DEF Feed!Next
<1>5. ASSUME NEW new \in Transcripts, RebaseReplace(new) PROVE Feed!Next
  <2>1. seq' > seq /\ epoch' = epoch /\ UNCHANGED <<cursor, copy>>
    BY <1>1, <1>5 DEF RebaseReplace, clientVars
  <2>2. Record([c \in {<<epoch, seq + 1>>} |-> new])
    BY <1>5, Zenon DEF RebaseReplace
  <2> QED BY <2>1, <2>2, ProjectionWrites, Zenon DEF Feed!Next
<1>6. CASE HostRestart
  <2>1. epoch' > epoch /\ UNCHANGED <<cursor, copy>>
    BY <1>1, <1>6 DEF HostRestart, clientVars
  <2>2. Record([c \in {<<epoch + 1, 0>>} |-> entries'])
    BY Zenon, <1>6 DEF HostRestart
  <2> QED BY <2>1, <2>2, ProjectionWrites, Zenon DEF Feed!Next
<1>7. CASE HostAttach \/ HostDrop \/ Connect \/ Disconnect \/ Attach \/ AttachAgain
  BY <1>7, Zenon DEF HostAttach, HostDrop, Connect, Disconnect, Attach, AttachAgain, hostVars, clientVars
<1>8. CASE HandleWelcome
  BY <1>8, HandleWelcomeMoves, Zenon DEF Feed!Next, Feed!Forget, hostVars
<1>9. CASE HandleResponse \/ HandleGap
  BY <1>9, Zenon DEF HandleResponse, HandleGap, Receive, hostVars
<1>10. CASE AcceptSnapshot
  <2>1. /\ cursor' \in DOMAIN hist /\ copy' = hist[cursor']
        /\ cursor'[1] = epochValue /\ UNCHANGED hostVars
    BY <1>10, AcceptSnapshotMoves, Zenon
  <2>2. cursor # None => epochValue = cursor[1]
    BY Zenon DEF StreamInv, CopyOK
  <2>3. cursor # None => cursor'[1] = cursor[1]
    BY <2>1, <2>2, Zenon
  <2>4. hist' = hist /\ epoch' = epoch /\ seq' = seq
    BY <2>1, Zenon DEF hostVars
  <2>5. <<epoch, seq>>' = <<epoch, seq>>
    BY <2>4, Zenon
  <2>6. Feed!Load
    BY Zenon, <2>1, <2>3, <2>4, <2>5 DEF Feed!Load
  <2> QED BY Zenon, <2>6 DEF Feed!Next
<1>11. ASSUME NEW type \in {"entry", "event"}, AcceptDurable(type) PROVE Feed!Next
  BY <1>11, AcceptDurableMoves, Zenon DEF Feed!Next, Feed!Follow, hostVars
<1>12. ASSUME NEW type \in {"entry", "event"}, RejectDurable(type)
       PROVE  UNCHANGED Feed!feedVars
  BY <1>12, Zenon DEF RejectDurable, Receive, hostVars
<1>13. CASE UNCHANGED vars
  BY <1>13, Zenon DEF vars, hostVars, wireVars, clientVars
<1> QED BY Zenon, <1>2, <1>3, <1>4, <1>5, <1>6, <1>7, <1>8, <1>9, <1>10, <1>11, <1>12, <1>13
        DEF SharedNext, Next, HostNext, ClientNext, Deliver

\* The stream implements TranscriptFeed: the reader's copy follows the session's
\* timeline cursor by cursor, or is loaded whole from a cursor of its epoch, and
\* an epoch change passes through a forgotten copy.
THEOREM StreamImplementsFeed == SharedSpec => FeedSpec
<1>1. Init => Feed!Init
  BY InitStreamInv, Zenon DEF Init, Feed!Init, StreamInv, TimelineOK
<1> QED BY <1>1, StreamInvariant, NextRefines, PTL DEF SharedSpec, FeedSpec, Feed!Spec

\* One consumer per connection is a case of several.
THEOREM FaithfulSpec == Spec => []Faithful /\ FeedSpec
<1>1. [Next]_vars => [SharedNext]_vars
  BY Zenon DEF SharedNext
<1>2. Spec => SharedSpec
  BY <1>1, PTL DEF Spec, SharedSpec
<1> QED BY <1>2, FaithfulCopy, StreamImplementsFeed, Zenon

-----------------------------------------------------------------------------
(* One consumer per client *)

\* acceptDurable of the next frame moves the cursor one on.
LEMMA AcceptDurableSync ==
  ASSUME StreamInv, SyncInv, NEW type \in {"entry", "event"}, AcceptDurable(type)
  PROVE  SyncInv' /\ (cursor # None => cursor[1] = cursor'[1] /\ cursor'[2] >= cursor[2])
<1>1. /\ Receive(type) /\ Accepted(Head(toClient)) /\ attached' = attached /\ desynced' = desynced
      /\ cursor' = CursorOf(Head(toClient)) /\ epochValue' = Head(toClient).epoch
      /\ UNCHANGED <<toHost, link>>
  BY Zenon DEF AcceptDurable
<1>2. type # "welcome" /\ type # "response" /\ type # "snapshot"
  OBVIOUS
<1>3. Handles(Head(toClient)) /\ Head(toClient).type = type
  BY <1>1, <1>2, ReceiveHandles, Zenon
<1>4. Moves(Head(toClient))
  BY <1>3, Zenon DEF Moves, Durable
<1>5. ~ desynced /\ Contiguous(Head(toClient)) /\ cursor # None
  BY <1>1, AcceptDurableMoves, Zenon DEF Accepted
<1>6. Head(toClient).seq = cursor[2] + 1
  BY <1>5, Zenon DEF Contiguous
<1>7. desynced' = FALSE
  BY <1>1, <1>5, Zenon DEF StreamInv, TypeOK
<1> QED
  BY <1>1, <1>3, <1>4, <1>5, <1>6, <1>7, MoveSync, Zenon

\* Every step of host, wire and client.
LEMMA NextSync == StreamInv /\ SyncInv /\ [Next]_vars => SyncInv'
<1> SUFFICES ASSUME StreamInv, SyncInv, [Next]_vars PROVE SyncInv'
  OBVIOUS
<1>1. ASSUME NEW x \in Entry, AppendEntry(x) PROVE SyncInv'
  BY <1>1, AppendEntrySync, Zenon
<1>2. CASE AppendEvent
  BY <1>2, AppendEventSync, Zenon
<1>3. ASSUME NEW new \in Transcripts, RebaseExtend(new) PROVE SyncInv'
  BY <1>3, RebaseExtendSync, Zenon
<1>4. ASSUME NEW new \in Transcripts, RebaseReplace(new) PROVE SyncInv'
  BY <1>4, RebaseReplaceSync, Zenon
<1>5. CASE HostRestart
  BY <1>5, HostRestartSync, Zenon
<1>6. CASE HostAttach
  BY <1>6, HostAttachSync, Zenon
<1>7. CASE HostDrop
  BY <1>7, HostDropSync, Zenon
<1>8. CASE Connect
  BY <1>8, ConnectSync, Zenon
<1>9. CASE Disconnect
  BY <1>9, DisconnectSync, Zenon
<1>10. CASE Attach
  BY <1>10, AttachSync, Zenon
<1>11. CASE HandleWelcome
  BY <1>11, HandleWelcomeSync, Zenon
<1>12. CASE HandleResponse
  BY <1>12, HandleResponseSync, Zenon
<1>13. CASE HandleGap
  BY <1>13, HandleGapSync, Zenon
<1>14. CASE AcceptSnapshot
  BY <1>14, AcceptSnapshotSync, Zenon
<1>15. ASSUME NEW type \in {"entry", "event"}, AcceptDurable(type) PROVE SyncInv'
  BY <1>15, AcceptDurableSync, Zenon
<1>16. ASSUME NEW type \in {"entry", "event"}, RejectDurable(type) PROVE SyncInv'
  BY <1>16, RejectDurableSync, Zenon
<1>17. CASE UNCHANGED vars
  BY <1>17, StutterSync, Zenon
<1> QED
  BY Zenon, <1>1, <1>2, <1>3, <1>4, <1>5, <1>6, <1>7, <1>8, <1>9, <1>10, <1>11, <1>12, <1>13, <1>14,
     <1>15, <1>16, <1>17, Zenon
     DEF Next, HostNext, ClientNext, Deliver

\* The cursor moves on, stays, or is forgotten.
LEMMA NextMonotone ==
  ASSUME StreamInv, SyncInv, [Next]_vars, cursor # None, cursor' # None
  PROVE  cursor'[1] = cursor[1] /\ cursor'[2] >= cursor[2]
<1>0. cursor[2] \in Nat
  BY CursorBehind, Zenon
<1>1. CASE cursor' = cursor
  BY <1>0, <1>1
<1>2. CASE AcceptSnapshot
  BY <1>2, AcceptSnapshotSync, Zenon
<1>3. ASSUME NEW type \in {"entry", "event"}, AcceptDurable(type)
      PROVE  cursor'[1] = cursor[1] /\ cursor'[2] >= cursor[2]
  BY <1>3, AcceptDurableSync, Zenon
<1>4. CASE HandleWelcome
  BY <1>1, <1>4, HandleWelcomeMoves, Zenon
<1>5. HostNext \/ Connect \/ Disconnect \/ Attach \/ UNCHANGED vars => cursor' = cursor
  BY ZenonT(30) DEF HostNext, AppendEntry, AppendEvent, RebaseExtend, RebaseReplace, HostRestart, HostAttach, HostDrop,
         Connect, Disconnect, Attach, vars, clientVars
<1>6. HandleResponse \/ HandleGap \/ (\E type \in {"entry", "event"} : RejectDurable(type)) => cursor' = cursor
  BY Zenon DEF HandleResponse, HandleGap, RejectDurable
<1> QED
  BY <1>1, <1>2, <1>3, <1>4, <1>5, <1>6, Zenon DEF Next, ClientNext, Deliver

\* With one consumer for the session, whatever was evicted, rebased, lost or
\* replayed, what is in flight leads to the host's cursor without a hole, and a
\* client that misses frames gets a snapshot, now or when it attaches again.
THEOREM SyncInvariant == Spec => []SyncInv
<1>1. [Next]_vars => [SharedNext]_vars
  BY Zenon DEF SharedNext
<1>2. Spec => []StreamInv
  BY <1>1, StreamInvariant, PTL DEF Spec, SharedSpec
<1> QED
  BY <1>2, InitSync, NextSync, PTL DEF Spec

\* While the host has a desynced client attached, a snapshot is on the way: the
\* gap and the snapshot of streamAttachOutput are not separated for good by a
\* connection that breaks between them.
THEOREM GapsAreAnswered == Spec => []GapAnswered
<1>1. SyncInv => GapAnswered
  BY Zenon DEF SyncInv
<1> QED
  BY <1>1, SyncInvariant, PTL

\* An attached client with nothing in flight is in sync at the host's cursor.
THEOREM QuietClientInSync == Spec => []QuietInSync
<1>1. SyncInv => QuietInSync
  <2> SUFFICES ASSUME SyncInv, hostAttached, toClient = <<>> PROVE ~ desynced /\ cursor = <<epoch, seq>>
    BY DEF QuietInSync
  <2>1. \A k \in DOMAIN toClient : FALSE
    BY SMT
  <2> QED
    BY <2>1, Zenon DEF SyncInv, ReachesHead
<1> QED
  BY <1>1, SyncInvariant, PTL

\* acceptSnapshot takes any cursor, and yet the journal cursor never moves back:
\* no snapshot overtakes a newer frame on the connection.
THEOREM CursorNeverMovesBack == Spec => CursorMonotone
<1>1. [Next]_vars => [SharedNext]_vars
  BY Zenon DEF SharedNext
<1>2. Spec => []StreamInv
  BY <1>1, StreamInvariant, PTL DEF Spec, SharedSpec
<1>3. StreamInv /\ SyncInv /\ [Next]_vars =>
        [(cursor # None /\ cursor' # None)
           => \/ cursor'[1] > cursor[1]
              \/ cursor'[1] = cursor[1] /\ cursor'[2] >= cursor[2]]_vars
  BY NextMonotone, Zenon
<1> QED
  BY <1>2, <1>3, SyncInvariant, PTL DEF Spec, CursorMonotone

=============================================================================
