------------------------ MODULE SessionReplayProofs ------------------------
(***************************************************************************)
(* Lemmas about SessionStream with one consumer per client (Spec): the     *)
(* invariant SyncInv of ring, connection and cursor, what the projection   *)
(* broadcasts and what an attach is answered with, and that the steps of   *)
(* host and client keep it.  SessionStreamProofs puts the steps together   *)
(* and has the theorems.                                                   *)
(***************************************************************************)
EXTENDS SessionStream, TLAPS

-----------------------------------------------------------------------------
(* Sequences *)

\* A sequence over S is a function from 1 .. n to S.
LEMMA SeqDef == \A S : Seq(S) = UNION {[1 .. n -> S] : n \in Nat}
OBVIOUS

\* Its domain and its elements.
LEMMA LenProperties ==
  ASSUME NEW S, NEW s \in Seq(S)
  PROVE  Len(s) \in Nat /\ DOMAIN s = 1 .. Len(s) /\ s \in [1 .. Len(s) -> S]
OBVIOUS

\* An element of a sequence over S is in S.
LEMMA ElementOfSeq ==
  ASSUME NEW S, NEW s \in Seq(S), NEW i \in 1 .. Len(s)
  PROVE  s[i] \in S
OBVIOUS

\* A sequence over S is one over every larger set.
LEMMA SeqMonotonic ==
  ASSUME NEW S, NEW T, NEW s \in Seq(S), S \subseteq T
  PROVE  s \in Seq(T)
OBVIOUS

\* The empty sequence is the only one of length 0.
LEMMA EmptySeq ==
  ASSUME NEW S
  PROVE  <<>> \in Seq(S) /\ Len(<<>>) = 0 /\ \A s \in Seq(S) : s # <<>> => Len(s) \in Nat \ {0}
OBVIOUS

\* The elements of s \o t are those of s, then those of t.
LEMMA ConcatProperties ==
  ASSUME NEW S, NEW s \in Seq(S), NEW t \in Seq(S)
  PROVE  /\ s \o t \in Seq(S) /\ Len(s \o t) = Len(s) + Len(t)
         /\ \A i \in 1 .. (Len(s) + Len(t)) :
              (s \o t)[i] = IF i <= Len(s) THEN s[i] ELSE t[i - Len(s)]
OBVIOUS

\* The empty sequence adds nothing.
LEMMA ConcatEmptySeq ==
  ASSUME NEW S, NEW s \in Seq(S)
  PROVE  s \o <<>> = s /\ <<>> \o s = s
OBVIOUS

\* Append adds one element behind the others.
LEMMA AppendProperties ==
  ASSUME NEW S, NEW s \in Seq(S), NEW e \in S
  PROVE  /\ Append(s, e) \in Seq(S) /\ Append(s, e) # <<>> /\ Append(s, e) = s \o <<e>>
         /\ Len(Append(s, e)) = Len(s) + 1 /\ Append(s, e)[Len(s) + 1] = e
         /\ \A i \in 1 .. Len(s) : Append(s, e)[i] = s[i]
OBVIOUS

\* Tail drops the first element.
LEMMA HeadTailProperties ==
  ASSUME NEW S, NEW s \in Seq(S), s # <<>>
  PROVE  /\ Head(s) \in S /\ Tail(s) \in Seq(S) /\ Len(Tail(s)) = Len(s) - 1
         /\ \A i \in 1 .. Len(Tail(s)) : Tail(s)[i] = s[i + 1]
OBVIOUS

\* What SubSeq picks, also where m and n leave the sequence.
LEMMA SubSeqProperties ==
  ASSUME NEW S, NEW s, NEW m \in Int, NEW n \in Int, \A i \in m .. n : s[i] \in S
  PROVE  /\ SubSeq(s, m, n) \in Seq(S)
         /\ Len(SubSeq(s, m, n)) = IF m <= n THEN n - m + 1 ELSE 0
         /\ \A i \in 1 .. (n - m + 1) : SubSeq(s, m, n)[i] = s[m + i - 1]
OBVIOUS

\* A sequence is its own part from first to last.
LEMMA SubSeqFull ==
  ASSUME NEW S, NEW s \in Seq(S)
  PROVE  SubSeq(s, 1, Len(s)) = s
OBVIOUS

\* A part of a sequence ends with its last element.
LEMMA SubSeqRecursiveSecond ==
  ASSUME NEW S, NEW s \in Seq(S), NEW m \in 1 .. Len(s), NEW n \in m .. Len(s)
  PROVE  SubSeq(s, m, n) = SubSeq(s, m, n - 1) \o <<s[n]>>
OBVIOUS

-----------------------------------------------------------------------------
(* The inductive invariant *)

\* Frames that take a client in sync to their cursor.
Moves(f) == f.type \in {"snapshot", "entry", "event"}

\* The replay ring ends at the host's cursor, with one frame per cursor, but
\* for a gap, which shares the cursor of the snapshot behind it.
RingOK ==
  \A i \in DOMAIN ring :
    /\ ring[i].type \in {"gap", "snapshot", "entry", "event"}
    /\ ring[i].type = "gap" => i = 1 /\ Len(ring) >= 2 /\ ring[2].type = "snapshot"
    /\ ring[i].type = "snapshot" => i = 1 \/ (i = 2 /\ ring[1].type = "gap")
    /\ ring[i].seq = seq - Len(ring) + (IF ring[i].type = "gap" THEN 2 ELSE i)

\* The seq of the oldest frame of the ring r of a host at seq s.
Oldest(r, s) == IF r = <<>> THEN s + 1 ELSE r[1].seq

\* A replay from cursor n of the epoch brings a snapshot: frame n + 1 was
\* evicted, a snapshot is in the ring, or the frames exceed the budget.
Resyncs(r, s, n) ==
  \/ n < Oldest(r, s) - 1
  \/ \E i \in DOMAIN r : r[i].type = "snapshot" /\ r[i].seq > n
  \/ s - n > ReplayBudget

\* One attach per connection: what the client sends is answered before it has
\* anything to handle, so its cursor has not moved since.
OneAttach ==
  link = "ready" =>
    /\ \A i \in DOMAIN toHost : toHost[i] \in {None, cursor}
    /\ Len(toHost) <= 1
    /\ ~ socket \/ hostAttached => toHost = <<>>
    /\ socket /\ ~ hostAttached => toClient = <<>>
    /\ hostAttached => attached \/ \E i \in DOMAIN toClient : toClient[i].type = "response"

\* A gap is sent together with its snapshot.
GapPairs ==
  \A i \in DOMAIN toClient : toClient[i].type = "gap" =>
    i + 1 \in DOMAIN toClient /\ toClient[i + 1].type = "snapshot"

\* A snapshot is not older than what was sent before it, nor than the cursor.
SnapshotsAhead ==
  \A j \in DOMAIN toClient : toClient[j].type = "snapshot" =>
    /\ \A i \in DOMAIN toClient : i < j /\ Moves(toClient[i]) => toClient[i].seq <= toClient[j].seq
    /\ link = "ready" /\ cursor # None => cursor[2] <= toClient[j].seq

\* Nothing on the connection is ahead of the host.
NotAhead == socket => \A i \in DOMAIN toClient : toClient[i].seq <= seq

\* A durable frame continues the cursor, or a frame sent before it; while the
\* client is desynced, this need not hold before the next snapshot.
NoHole ==
  link = "ready" =>
    \A i \in DOMAIN toClient : Durable(toClient[i]) =>
      \/ ~ desynced /\ cursor # None /\ toClient[i].seq <= cursor[2] + 1
      \/ desynced /\ \A k \in DOMAIN toClient : k < i => toClient[k].type # "snapshot"
      \/ \E k \in DOMAIN toClient : k < i /\ Moves(toClient[k]) /\ toClient[i].seq <= toClient[k].seq + 1

\* The frames in flight lead to the host's cursor.
ReachesHead ==
  hostAttached =>
    \/ ~ desynced /\ cursor = <<epoch, seq>>
    \/ \E k \in DOMAIN toClient : Moves(toClient[k]) /\ toClient[k].seq = seq

\* A desynced client that attaches again with its cursor gets a snapshot.
DesyncResyncs ==
  desynced /\ cursor # None /\ cursor[1] = epoch => Resyncs(ring, seq, cursor[2])

\* So does one that loses the connection after a gap that is on the way.
GapResyncs ==
  link = "ready" /\ epochValue = epoch =>
    \A i \in DOMAIN toClient : toClient[i].type = "gap" =>
      \/ /\ cursor # None /\ Resyncs(ring, seq, cursor[2])
         /\ \A k \in DOMAIN toClient : k < i => ~ Moves(toClient[k])
      \/ /\ Resyncs(ring, seq, toClient[i].seq - 1) /\ (cursor # None => cursor[2] < toClient[i].seq)
         /\ \A k \in DOMAIN toClient : k < i /\ Moves(toClient[k]) => toClient[k].seq < toClient[i].seq

\* The client knows no epoch that the host has not reached.
EpochBehind == epochValue # None => epochValue <= epoch

SyncInv ==
  /\ RingOK /\ EpochBehind /\ OneAttach /\ GapPairs /\ SnapshotsAhead /\ NotAhead /\ NoHole
  /\ ReachesHead /\ DesyncResyncs /\ GapResyncs /\ GapAnswered

-----------------------------------------------------------------------------
(* The first state and a step that changes nothing *)

\* A host nobody is connected to, with an empty ring.
LEMMA InitSync == Init => SyncInv
<1> SUFFICES ASSUME Init PROVE SyncInv
  OBVIOUS
<1>1. /\ epoch = 0 /\ seq = 0 /\ ring = <<>> /\ toClient = <<>> /\ toHost = <<>> /\ link = "down"
      /\ epochValue = None /\ cursor = None
      /\ socket = FALSE /\ hostAttached = FALSE /\ desynced = FALSE
  BY Zenon DEF Init
<1>2. ~ socket /\ ~ hostAttached /\ ~ desynced
  BY <1>1, Zenon
<1>3. Len(ring) = 0 /\ DOMAIN ring = {} /\ DOMAIN toClient = {} /\ Len(toHost) = 0 /\ DOMAIN toHost = {}
  BY <1>1
<1>4. RingOK
  BY <1>1, <1>3, RingAssumption, Zenon DEF RingOK
<1>5. EpochBehind /\ GapPairs /\ SnapshotsAhead /\ NotAhead /\ GapAnswered /\ ReachesHead /\ DesyncResyncs
  BY <1>1, <1>2, <1>3, Zenon
     DEF EpochBehind, GapPairs, SnapshotsAhead, NotAhead, GapAnswered, ReachesHead, DesyncResyncs
<1>6. OneAttach /\ NoHole /\ GapResyncs
  BY <1>1, Zenon DEF OneAttach, NoHole, GapResyncs
<1> QED
  BY <1>4, <1>5, <1>6, Zenon DEF SyncInv

\* Nothing happens.
LEMMA StutterSync ==
  ASSUME SyncInv, UNCHANGED vars PROVE SyncInv'
<1>1. /\ UNCHANGED <<epoch, seq, ring, socket, toClient, toHost, hostAttached>>
      /\ UNCHANGED <<link, epochValue, cursor, desynced, attached>>
  BY Zenon DEF vars, hostVars, wireVars, clientVars
<1>2. RingOK' /\ EpochBehind' /\ OneAttach' /\ GapPairs'
  BY <1>1, Zenon DEF SyncInv, RingOK, EpochBehind, OneAttach, GapPairs
<1>3. SnapshotsAhead' /\ NotAhead' /\ NoHole' /\ ReachesHead'
  BY <1>1 DEF SyncInv, SnapshotsAhead, NotAhead, NoHole, ReachesHead
<1>4. DesyncResyncs' /\ GapResyncs' /\ GapAnswered'
  BY <1>1, Zenon DEF SyncInv, DesyncResyncs, GapResyncs, GapAnswered
<1> QED
  BY <1>2, <1>3, <1>4, Zenon DEF SyncInv

\* The connection without its first frame.
LEMMA TailFacts ==
  ASSUME NEW S, NEW s \in Seq(S), s # <<>>
  PROVE  /\ Tail(s) \in Seq(S) /\ Head(s) = s[1] /\ s[1] \in S
         /\ Len(s) \in Nat /\ DOMAIN s = 1..Len(s) /\ 1 \in DOMAIN s
         /\ DOMAIN Tail(s) = 1..(Len(s) - 1)
         /\ \A i \in DOMAIN Tail(s) : Tail(s)[i] = s[i + 1]
<1>1. Len(s) \in Nat \ {0} /\ DOMAIN s = 1..Len(s)
  BY EmptySeq, LenProperties, Zenon
<1>2. Tail(s) \in Seq(S) /\ Len(Tail(s)) = Len(s) - 1
      /\ \A i \in 1..Len(Tail(s)) : Tail(s)[i] = s[i + 1]
  BY HeadTailProperties, Zenon
<1>3. DOMAIN Tail(s) = 1..(Len(s) - 1)
  BY <1>2, LenProperties, Zenon
<1>4. 1 \in DOMAIN s
  BY <1>1
<1>5. s[1] \in S
  BY <1>1, ElementOfSeq
<1>6. Head(s) = s[1]
  OBVIOUS
<1> QED BY <1>1, <1>2, <1>3, <1>4, <1>5, <1>6, Zenon

\* A frame other than the welcome is handled on a ready connection and is true.
LEMMA ReceiveReady ==
  ASSUME StreamInv, NEW type, Receive(type), type # "welcome"
  PROVE  /\ link = "ready" /\ toClient # <<>> /\ Head(toClient).type = type
         /\ Head(toClient) \in GoodFrames(hist, epochValue)
         /\ toClient' = Tail(toClient)
         /\ Tail(toClient) \in Seq(GoodFrames(hist, epochValue))
         /\ Tail(toClient) \in Seq(Frame)
         /\ UNCHANGED <<hostVars, socket, hostAttached, generation>>
<1>1. link # "down" /\ toClient # <<>> /\ Head(toClient).type = type
      /\ toClient' = Tail(toClient) /\ UNCHANGED <<hostVars, socket, hostAttached, generation>>
  BY Zenon DEF Receive
<1>2. Head(toClient) = toClient[1] /\ Tail(toClient) \in Seq(Frame)
  BY <1>1, TailFacts, Zenon DEF StreamInv, TypeOK
<1>3. link = "ready"
  BY <1>1, <1>2, Zenon DEF StreamInv, TypeOK, ConnectionOK
<1>4. toClient \in Seq(GoodFrames(hist, epochValue))
  BY <1>3, Zenon DEF StreamInv, FramesOK
<1>5. Head(toClient) \in GoodFrames(hist, epochValue)
      /\ Tail(toClient) \in Seq(GoodFrames(hist, epochValue))
  BY <1>1, <1>4, TailFacts, Zenon
<1> QED BY <1>1, <1>2, <1>3, <1>5, Zenon

\* The transcripts a rebase may install are sequences of entries.
LEMMA TranscriptsSeq == Transcripts \subseteq Seq(Entry)
<1> SUFFICES ASSUME NEW s \in Transcripts PROVE s \in Seq(Entry)
  OBVIOUS
<1>1. PICK k \in 0..MaxLen : s \in [1..k -> Entry]
  BY Zenon DEF Transcripts
<1>2. k \in Nat
  BY BoundAssumption
<1> QED BY <1>1, <1>2, SeqDef, Zenon

-----------------------------------------------------------------------------
(* Frames added to the connection *)

\* Frames that take a client from cursor n of the epoch to cursor m: what the
\* projection broadcasts and what attach answers.
Stretch(out, n, m) ==
  /\ out \in Seq(Frame)
  /\ \A j \in DOMAIN out : n <= out[j].seq /\ out[j].seq <= m
  /\ \A j \in DOMAIN out : out[j].type = "gap" =>
       /\ j + 1 \in DOMAIN out /\ out[j + 1].type = "snapshot"
       /\ \A k \in DOMAIN out : k < j => ~ Moves(out[k])
  /\ \A i, j \in DOMAIN out : i < j /\ Moves(out[i]) /\ out[j].type = "snapshot" => out[i].seq <= out[j].seq
  /\ \A j \in DOMAIN out : Durable(out[j]) =>
       \/ out[j].seq <= n + 1
       \/ \E k \in DOMAIN out : k < j /\ Moves(out[k]) /\ out[j].seq <= out[k].seq + 1
  /\ n = m \/ \E j \in DOMAIN out : Moves(out[j]) /\ out[j].seq = m

\* Two sequences in one: the places of both and what is there.
LEMMA Joined ==
  ASSUME NEW S, NEW s \in Seq(S), NEW t \in Seq(S)
  PROVE  /\ s \o t \in Seq(S) /\ Len(s) \in Nat /\ DOMAIN s \subseteq Nat /\ DOMAIN t \subseteq Nat
         /\ \A i \in DOMAIN s : i \in DOMAIN (s \o t) /\ (s \o t)[i] = s[i]
         /\ \A j \in DOMAIN t : Len(s) + j \in DOMAIN (s \o t) /\ (s \o t)[Len(s) + j] = t[j]
         /\ \A i \in DOMAIN (s \o t) : i \in DOMAIN s \/ \E j \in DOMAIN t : i = Len(s) + j
         /\ \A i \in DOMAIN s, j \in DOMAIN t : i < Len(s) + j
<1> DEFINE u == s \o t
<1>1. /\ Len(s) \in Nat /\ Len(t) \in Nat /\ DOMAIN s = 1 .. Len(s) /\ DOMAIN t = 1 .. Len(t)
  BY LenProperties, Zenon
<1>2. /\ u \in Seq(S) /\ Len(u) = Len(s) + Len(t)
      /\ \A i \in 1 .. Len(u) : u[i] = IF i <= Len(s) THEN s[i] ELSE t[i - Len(s)]
  BY ConcatProperties
<1>3. DOMAIN u = 1 .. (Len(s) + Len(t))
  BY <1>2, LenProperties, Zenon
<1> HIDE DEF u
<1>4. \A i \in DOMAIN s : i \in DOMAIN u /\ u[i] = s[i]
  BY <1>1, <1>2, <1>3
<1>5. ASSUME NEW j \in DOMAIN t PROVE Len(s) + j \in DOMAIN u /\ u[Len(s) + j] = t[j]
  <2>1. Len(s) + j \in 1 .. (Len(s) + Len(t)) /\ ~ (Len(s) + j <= Len(s)) /\ Len(s) + j - Len(s) = j
    BY <1>1
  <2> QED
    BY <2>1, <1>2, <1>3
<1>6. ASSUME NEW i \in DOMAIN u PROVE i \in DOMAIN s \/ \E j \in DOMAIN t : i = Len(s) + j
  <2>1. CASE i <= Len(s)
    BY <2>1, <1>1, <1>3
  <2>2. CASE ~ (i <= Len(s))
    <3>1. i - Len(s) \in DOMAIN t /\ i = Len(s) + (i - Len(s))
      BY <2>2, <1>1, <1>3
    <3> QED
      BY <3>1, Zenon
  <2> QED
    BY <2>1, <2>2, Zenon
<1>7. \A i \in DOMAIN s, j \in DOMAIN t : i < Len(s) + j
  BY ONLY <1>1
<1>8. DOMAIN s \subseteq Nat /\ DOMAIN t \subseteq Nat
  BY ONLY <1>1
<1> QED
  BY <1>1, <1>2, <1>4, <1>5, <1>6, <1>7, <1>8, Zenon DEF u

\* A frame has a natural seq.
LEMMA FrameSeq == \A s \in Seq(Frame) : \A i \in DOMAIN s : s[i] \in Frame /\ s[i].seq \in Nat
<1> SUFFICES ASSUME NEW s \in Seq(Frame), NEW i \in DOMAIN s PROVE s[i] \in Frame /\ s[i].seq \in Nat
  OBVIOUS
<1>1. s[i] \in Frame
  BY LenProperties, ElementOfSeq, Zenon
<1> QED
  BY <1>1, Zenon DEF Frame

\* The cursor of a client in the host's epoch is not ahead of the host.
LEMMA CursorBehind ==
  ASSUME StreamInv, cursor # None
  PROVE  /\ cursor[1] \in Nat /\ cursor[2] \in Nat /\ cursor = <<cursor[1], cursor[2]>>
         /\ cursor[1] <= epoch
         /\ cursor[1] = epoch => cursor[2] <= seq
<1>1. cursor \in Cursor
  BY Zenon DEF StreamInv, TypeOK
<1>2. cursor \in DOMAIN hist /\ epoch \in Nat /\ seq \in Nat
  BY Zenon DEF StreamInv, TypeOK, CopyOK
<1>3. cursor[1] < epoch \/ (cursor[1] = epoch /\ cursor[2] <= seq)
  BY <1>2, Zenon DEF StreamInv, TimelineOK
<1>4. cursor[1] \in Nat /\ cursor[2] \in Nat /\ cursor = <<cursor[1], cursor[2]>>
  BY <1>1 DEF Cursor
<1> QED
  BY ONLY <1>2, <1>3, <1>4

\* Frames from cursor n to the host's new cursor, sent to a client that gets to
\* n by what was sent before, or that gets a snapshot first.
LEMMA StretchSent ==
  ASSUME StreamInv, SyncInv, NEW n \in Nat, NEW out, Stretch(out, n, seq'),
         link = "ready", socket, UNCHANGED <<epoch, socket, clientVars>>, hostAttached' = TRUE,
         toClient' = toClient \o out, seq' \in Nat, seq <= seq',
         \A i \in DOMAIN toClient : toClient[i].seq <= n,
         cursor # None => cursor[2] <= n,
         \/ ~ desynced /\ cursor = <<epoch, n>>
         \/ \E k \in DOMAIN toClient : Moves(toClient[k]) /\ toClient[k].seq = n
         \/ \E j \in DOMAIN out : /\ out[j].type = "snapshot"
                                  /\ \A i \in DOMAIN out : i < j => ~ Durable(out[i]),
         desynced => hostAttached \/ \E j \in DOMAIN out : out[j].type = "snapshot",
         \A m \in Int : m <= seq /\ Resyncs(ring, seq, m) => Resyncs(ring', seq', m),
         \A j \in DOMAIN out : out[j].type = "gap" =>
           \/ Resyncs(ring', seq', n) /\ toClient = <<>> /\ cursor # None /\ cursor[2] = n
           \/ Resyncs(ring', seq', out[j].seq - 1) /\ out[j].seq > n
  PROVE  GapPairs' /\ SnapshotsAhead' /\ NotAhead' /\ NoHole' /\ ReachesHead'
         /\ DesyncResyncs' /\ GapResyncs' /\ GapAnswered'
<1> DEFINE W == toClient
           V == toClient'
           L == Len(W)
<1>1. /\ epoch' = epoch /\ link' = link /\ socket' = socket /\ cursor' = cursor
      /\ desynced' = desynced /\ epochValue' = epochValue /\ seq \in Nat
  BY Zenon DEF clientVars, StreamInv, TypeOK
<1>2. /\ W \in Seq(Frame) /\ out \in Seq(Frame)
      /\ \A j \in DOMAIN out : n <= out[j].seq /\ out[j].seq <= seq'
  BY Zenon DEF StreamInv, TypeOK, Stretch
<1>3. /\ V \in Seq(Frame) /\ L \in Nat /\ DOMAIN W \subseteq Nat /\ DOMAIN out \subseteq Nat
      /\ \A i \in DOMAIN W : i \in DOMAIN V /\ V[i] = W[i]
      /\ \A j \in DOMAIN out : L + j \in DOMAIN V /\ V[L + j] = out[j]
      /\ \A i \in DOMAIN V : i \in DOMAIN W \/ \E j \in DOMAIN out : i = L + j
      /\ \A i \in DOMAIN W, j \in DOMAIN out : i < L + j
  <2>1. V = W \o out
    OBVIOUS
  <2>2. /\ W \o out \in Seq(Frame) /\ Len(W) \in Nat /\ DOMAIN W \subseteq Nat /\ DOMAIN out \subseteq Nat
        /\ \A i \in DOMAIN W : i \in DOMAIN (W \o out) /\ (W \o out)[i] = W[i]
        /\ \A j \in DOMAIN out : Len(W) + j \in DOMAIN (W \o out) /\ (W \o out)[Len(W) + j] = out[j]
        /\ \A i \in DOMAIN (W \o out) : i \in DOMAIN W \/ \E j \in DOMAIN out : i = Len(W) + j
        /\ \A i \in DOMAIN W, j \in DOMAIN out : i < Len(W) + j
    BY ONLY <1>2, Joined, Zenon
  <2> HIDE DEF V, W
  <2> QED
    BY ONLY <2>1, <2>2, Zenon DEF L
<1>4. /\ \A i \in DOMAIN W, j \in DOMAIN out : ~ (L + j < i)
      /\ \A i, j \in DOMAIN out : (L + i < L + j <=> i < j) /\ (L + j) + 1 = L + (j + 1)
      /\ \A i, j \in DOMAIN out : i < j \/ i = j \/ j < i
  <2> HIDE DEF L, W
  <2>1. ASSUME NEW i \in DOMAIN W, NEW j \in DOMAIN out PROVE ~ (L + j < i)
    <3>1. i \in Nat /\ j \in Nat /\ L \in Nat /\ i < L + j
      BY <1>3, Zenon
    <3> QED
      BY ONLY <3>1
  <2>2. \A i, j \in Nat : (L + i < L + j <=> i < j) /\ (L + j) + 1 = L + (j + 1) /\ (i < j \/ i = j \/ j < i)
    BY ONLY <1>3
  <2>3. DOMAIN out \subseteq Nat
    BY <1>3, Zenon
  <2> QED
    BY ONLY <2>1, <2>2, <2>3, Zenon
<1>5. /\ \A i \in DOMAIN W : W[i].seq \in Nat
      /\ \A j \in DOMAIN out : out[j].seq \in Nat
  BY <1>2, FrameSeq, Zenon
<1>6. cursor # None => cursor[1] \in Nat /\ cursor[2] \in Nat
  BY CursorBehind, Zenon
<1> HIDE DEF L, V, W
<1>0. ASSUME NEW i \in DOMAIN W, NEW k \in DOMAIN V, k < i PROVE k \in DOMAIN W /\ V[k] = W[k]
  <2>1. ASSUME NEW j \in DOMAIN out, k = L + j PROVE FALSE
    <3>1. ~ (L + j < i)
      BY <1>4, Zenon
    <3> QED
      BY <1>0, <2>1, <3>1, Zenon
  <2> QED
    BY <2>1, <1>3, Zenon
<1>7. GapPairs'
  <2> SUFFICES ASSUME NEW i \in DOMAIN V, V[i].type = "gap"
               PROVE  i + 1 \in DOMAIN V /\ V[i + 1].type = "snapshot"
    BY Zenon DEF GapPairs, V
  <2>1. CASE i \in DOMAIN W
    <3>1. i + 1 \in DOMAIN W /\ W[i + 1].type = "snapshot"
      BY <2>1, <1>3, Zenon DEF SyncInv, GapPairs, W
    <3> QED
      BY <3>1, <1>3, Zenon
  <2>2. ASSUME NEW j \in DOMAIN out, i = L + j PROVE i + 1 \in DOMAIN V /\ V[i + 1].type = "snapshot"
    <3>1. j + 1 \in DOMAIN out /\ out[j + 1].type = "snapshot"
      BY <2>2, <1>3, Zenon DEF Stretch
    <3>2. i + 1 = L + (j + 1)
      BY <2>2, <1>4, Zenon
    <3> QED
      BY <3>1, <3>2, <1>3, Zenon
  <2> QED
    BY <2>1, <2>2, <1>3, Zenon
<1>8. SnapshotsAhead'
  <2> SUFFICES ASSUME NEW j \in DOMAIN V, V[j].type = "snapshot"
               PROVE  /\ \A i \in DOMAIN V : i < j /\ Moves(V[i]) => V[i].seq <= V[j].seq
                      /\ cursor # None => cursor[2] <= V[j].seq
    BY <1>1, Zenon DEF SnapshotsAhead, V
  <2>1. CASE j \in DOMAIN W
    <3>1. /\ \A i \in DOMAIN W : i < j /\ Moves(W[i]) => W[i].seq <= W[j].seq
          /\ cursor # None => cursor[2] <= W[j].seq
      BY <2>1, <1>3, Zenon DEF SyncInv, SnapshotsAhead, W
    <3> QED
      BY <2>1, <3>1, <1>0, <1>3, Zenon
  <2>2. ASSUME NEW q \in DOMAIN out, j = L + q
        PROVE  /\ \A i \in DOMAIN V : i < j /\ Moves(V[i]) => V[i].seq <= V[j].seq
               /\ cursor # None => cursor[2] <= V[j].seq
    <3>1. V[j] = out[q] /\ out[q].type = "snapshot" /\ n <= out[q].seq /\ out[q].seq \in Nat
      BY <2>2, <1>2, <1>3, <1>5, Zenon
    <3>2. ASSUME NEW i \in DOMAIN W PROVE W[i].seq <= out[q].seq
      <4>1. W[i].seq \in Nat /\ W[i].seq <= n
        BY <1>5, Zenon DEF W
      <4> QED
        BY ONLY <3>1, <4>1, n \in Nat
    <3>3. cursor # None => cursor[2] <= out[q].seq
      BY ONLY <3>1, <1>6, n \in Nat, cursor # None => cursor[2] <= n
    <3>4. \A i \in DOMAIN out : i < q /\ Moves(out[i]) => out[i].seq <= out[q].seq
      BY <3>1, Zenon DEF Stretch
    <3>5. ASSUME NEW i \in DOMAIN V, i < j, Moves(V[i]) PROVE V[i].seq <= V[j].seq
      <4>1. CASE i \in DOMAIN W
        BY <4>1, <3>1, <3>2, <1>3, Zenon
      <4>2. ASSUME NEW h \in DOMAIN out, i = L + h PROVE V[i].seq <= V[j].seq
        <5>1. h < q /\ V[i] = out[h]
          BY <4>2, <3>5, <2>2, <1>3, <1>4, Zenon
        <5> QED
          BY <5>1, <3>1, <3>4, <3>5, Zenon
      <4> QED
        BY <4>1, <4>2, <1>3, Zenon
    <3> QED
      BY <3>1, <3>3, <3>5, Zenon
  <2> QED
    BY <2>1, <2>2, <1>3, Zenon
<1>9. NotAhead'
  <2> SUFFICES ASSUME NEW i \in DOMAIN V PROVE V[i].seq <= seq'
    BY Zenon DEF NotAhead, V
  <2>1. CASE i \in DOMAIN W
    <3>1. W[i].seq <= seq /\ W[i].seq \in Nat /\ V[i] = W[i]
      BY <2>1, <1>3, <1>5, Zenon DEF SyncInv, NotAhead, W
    <3> QED
      BY ONLY <3>1, <1>1, seq' \in Nat, seq <= seq'
  <2> QED
    BY <2>1, <1>2, <1>3, Zenon
<1>10. NoHole'
  <2> SUFFICES ASSUME NEW i \in DOMAIN V, Durable(V[i])
               PROVE  \/ ~ desynced /\ cursor # None /\ V[i].seq <= cursor[2] + 1
                      \/ desynced /\ \A k \in DOMAIN V : k < i => V[k].type # "snapshot"
                      \/ \E k \in DOMAIN V : k < i /\ Moves(V[k]) /\ V[i].seq <= V[k].seq + 1
    BY <1>1, Zenon DEF NoHole, V
  <2>1. CASE i \in DOMAIN W
    <3>1. \/ ~ desynced /\ cursor # None /\ W[i].seq <= cursor[2] + 1
          \/ desynced /\ \A k \in DOMAIN W : k < i => W[k].type # "snapshot"
          \/ \E k \in DOMAIN W : k < i /\ Moves(W[k]) /\ W[i].seq <= W[k].seq + 1
      BY <2>1, <1>3, Zenon DEF SyncInv, NoHole, W
    <3>2. \A k \in DOMAIN V : k < i => k \in DOMAIN W /\ V[k] = W[k]
      BY <2>1, <1>0, Zenon
    <3> QED
      BY <2>1, <3>1, <3>2, <1>3, Zenon
  <2>2. ASSUME NEW q \in DOMAIN out, i = L + q
        PROVE  \/ ~ desynced /\ cursor # None /\ V[i].seq <= cursor[2] + 1
               \/ \E k \in DOMAIN V : k < i /\ Moves(V[k]) /\ V[i].seq <= V[k].seq + 1
    <3>1. V[i] = out[q] /\ Durable(out[q]) /\ out[q].seq \in Nat
      BY <2>2, <1>3, <1>5, Zenon
    <3>2. CASE \E k \in DOMAIN out : k < q /\ Moves(out[k]) /\ out[q].seq <= out[k].seq + 1
      BY <2>2, <3>1, <3>2, <1>3, <1>4, Zenon
    <3>3. CASE out[q].seq <= n + 1
      <4>1. CASE ~ desynced /\ cursor = <<epoch, n>>
        <5>1. cursor[2] = n /\ cursor # None
          BY <4>1, NoneAssumption DEF StreamInv, TypeOK
        <5> QED
          BY <5>1, <4>1, <3>1, <3>3, Zenon
      <4>2. CASE \E k \in DOMAIN W : Moves(W[k]) /\ W[k].seq = n
        BY <4>2, <2>2, <3>1, <3>3, <1>3, Zenon
      <4>3. ASSUME NEW j \in DOMAIN out, out[j].type = "snapshot", \A h \in DOMAIN out : h < j => ~ Durable(out[h])
            PROVE  \E k \in DOMAIN V : k < i /\ Moves(V[k]) /\ V[i].seq <= V[k].seq + 1
        <5>1. j < q
          <6>1. j # q
            BY <4>3, <3>1, Zenon DEF Durable
          <6> QED
            BY <6>1, <4>3, <3>1, <1>4, Zenon
        <5>2. Moves(out[j])
          BY <4>3, Zenon DEF Moves
        <5>3. out[q].seq <= out[j].seq + 1
          <6>1. n <= out[j].seq /\ out[j].seq \in Nat
            BY <1>2, <1>5, Zenon
          <6> QED
            BY ONLY <6>1, <3>1, <3>3, n \in Nat
        <5> QED
          BY <2>2, <3>1, <5>1, <5>2, <5>3, <1>3, <1>4, Zenon
      <4> QED
        BY <4>1, <4>2, <4>3, Zenon DEF W
    <3> QED
      BY <3>1, <3>2, <3>3, Zenon DEF Stretch
  <2> QED
    BY <2>1, <2>2, <1>3, Zenon
<1>11. ReachesHead'
  <2> SUFFICES ASSUME ~ (~ desynced /\ cursor = <<epoch, seq'>>)
               PROVE  \E k \in DOMAIN V : Moves(V[k]) /\ V[k].seq = seq'
    BY <1>1, Zenon DEF ReachesHead, V
  <2>1. CASE \E j \in DOMAIN out : Moves(out[j]) /\ out[j].seq = seq'
    BY <2>1, <1>3, Zenon
  <2>2. CASE n = seq'
    <3>1. CASE \E k \in DOMAIN W : Moves(W[k]) /\ W[k].seq = n
      BY <2>2, <3>1, <1>3, Zenon
    <3>2. ASSUME NEW j \in DOMAIN out, out[j].type = "snapshot"
          PROVE  \E k \in DOMAIN V : Moves(V[k]) /\ V[k].seq = seq'
      <4>1. out[j].seq = seq'
        BY <2>2, <1>2, <1>5
      <4> QED
        BY <4>1, <3>2, <1>3, Zenon DEF Moves
    <3> QED
      BY <2>2, <3>1, <3>2, Zenon DEF W
  <2> QED
    BY <2>1, <2>2, Zenon DEF Stretch
<1>12. DesyncResyncs'
  <2> SUFFICES ASSUME desynced, cursor # None, cursor[1] = epoch
               PROVE  Resyncs(ring', seq', cursor[2])
    BY <1>1, Zenon DEF DesyncResyncs
  <2>1. Resyncs(ring, seq, cursor[2])
    BY Zenon DEF SyncInv, DesyncResyncs
  <2>2. cursor[2] \in Int /\ cursor[2] <= seq
    BY CursorBehind
  <2> QED
    BY <2>1, <2>2, Zenon
<1>13. GapResyncs'
  <2> SUFFICES ASSUME epochValue = epoch, NEW i \in DOMAIN V, V[i].type = "gap"
               PROVE  \/ /\ cursor # None /\ Resyncs(ring', seq', cursor[2])
                         /\ \A k \in DOMAIN V : k < i => ~ Moves(V[k])
                      \/ /\ Resyncs(ring', seq', V[i].seq - 1) /\ (cursor # None => cursor[2] < V[i].seq)
                         /\ \A k \in DOMAIN V : k < i /\ Moves(V[k]) => V[k].seq < V[i].seq
    BY <1>1, Zenon DEF GapResyncs, V
  <2>1. cursor # None => cursor[2] \in Int /\ cursor[2] <= seq /\ cursor[2] \in Nat /\ cursor[2] <= n
    BY CursorBehind DEF StreamInv, CopyOK
  <2>2. CASE i \in DOMAIN W
    <3>1. \/ /\ cursor # None /\ Resyncs(ring, seq, cursor[2])
             /\ \A k \in DOMAIN W : k < i => ~ Moves(W[k])
          \/ /\ Resyncs(ring, seq, W[i].seq - 1) /\ (cursor # None => cursor[2] < W[i].seq)
             /\ \A k \in DOMAIN W : k < i /\ Moves(W[k]) => W[k].seq < W[i].seq
      BY <2>2, <1>3, Zenon DEF SyncInv, GapResyncs, W
    <3>2. W[i].seq - 1 \in Int /\ W[i].seq - 1 <= seq
      <4>1. W[i].seq \in Nat /\ W[i].seq <= seq
        BY <2>2, <1>5, Zenon DEF SyncInv, NotAhead, W
      <4> QED
        BY ONLY <4>1, <1>1
    <3>3. V[i] = W[i] /\ \A k \in DOMAIN V : k < i => k \in DOMAIN W /\ V[k] = W[k]
      BY <2>2, <1>0, <1>3, Zenon
    <3>4. CASE cursor # None /\ Resyncs(ring, seq, cursor[2]) /\ \A k \in DOMAIN W : k < i => ~ Moves(W[k])
      BY <3>3, <3>4, <2>1, Zenon
    <3>5. CASE /\ Resyncs(ring, seq, W[i].seq - 1) /\ (cursor # None => cursor[2] < W[i].seq)
               /\ \A k \in DOMAIN W : k < i /\ Moves(W[k]) => W[k].seq < W[i].seq
      BY <3>2, <3>3, <3>5, Zenon
    <3> QED
      BY <3>1, <3>4, <3>5, Zenon
  <2>3. ASSUME NEW j \in DOMAIN out, i = L + j
        PROVE  \/ /\ cursor # None /\ Resyncs(ring', seq', cursor[2])
                  /\ \A k \in DOMAIN V : k < i => ~ Moves(V[k])
               \/ /\ Resyncs(ring', seq', V[i].seq - 1) /\ (cursor # None => cursor[2] < V[i].seq)
                  /\ \A k \in DOMAIN V : k < i /\ Moves(V[k]) => V[k].seq < V[i].seq
    <3>1. V[i] = out[j] /\ out[j].type = "gap" /\ out[j].seq \in Nat
      BY <2>3, <1>3, <1>5, Zenon
    <3>2. ASSUME NEW k \in DOMAIN V, k < i, Moves(V[k]) PROVE k \in DOMAIN W /\ V[k] = W[k]
      <4>1. \A h \in DOMAIN out : h < j => ~ Moves(out[h])
        BY <3>1, Zenon DEF Stretch
      <4>2. ASSUME NEW h \in DOMAIN out, k = L + h PROVE FALSE
        BY <4>1, <4>2, <3>2, <2>3, <1>3, <1>4, Zenon
      <4> QED
        BY <4>2, <1>3, Zenon
    <3>3. CASE Resyncs(ring', seq', n) /\ W = <<>> /\ cursor # None /\ cursor[2] = n
      <4>1. DOMAIN W = {}
        BY <3>3
      <4> QED
        BY <3>2, <3>3, <4>1, Zenon
    <3>4. CASE Resyncs(ring', seq', out[j].seq - 1) /\ out[j].seq > n
      <4>1. cursor # None => cursor[2] < out[j].seq
        BY ONLY <3>1, <3>4, <2>1, n \in Nat
      <4>2. ASSUME NEW k \in DOMAIN W PROVE W[k].seq < out[j].seq
        <5>1. W[k].seq \in Nat /\ W[k].seq <= n
          BY <1>5, Zenon DEF W
        <5> QED
          BY ONLY <5>1, <3>1, <3>4, n \in Nat
      <4> QED
        BY <3>1, <3>2, <3>4, <4>1, <4>2, Zenon
    <3> QED
      BY <3>1, <3>3, <3>4, Zenon DEF W
  <2> QED
    BY <2>2, <2>3, <1>3, Zenon
<1>14. GapAnswered'
  <2> SUFFICES ASSUME desynced PROVE \E i \in DOMAIN V : V[i].type = "snapshot"
    BY <1>1, Zenon DEF GapAnswered, V
  <2>1. CASE hostAttached
    <3>1. \E i \in DOMAIN W : W[i].type = "snapshot"
      BY <2>1, Zenon DEF SyncInv, GapAnswered, W
    <3> QED
      BY <3>1, <1>3, Zenon
  <2>2. CASE \E j \in DOMAIN out : out[j].type = "snapshot"
    BY <2>2, <1>3, Zenon
  <2> QED
    BY <2>1, <2>2, Zenon
<1> QED
  BY <1>7, <1>8, <1>9, <1>10, <1>11, <1>12, <1>13, <1>14, Zenon

-----------------------------------------------------------------------------
(* The replay ring *)

\* Trimming drops the first d frames, never all of them.
LEMMA TrimFacts ==
  ASSUME NEW s \in Seq(Frame), Len(s) # 0
  PROVE  \E d \in Nat : /\ d < Len(s) /\ Trim(s) \in Seq(Frame) /\ Len(Trim(s)) = Len(s) - d
                        /\ DOMAIN Trim(s) = 1 .. (Len(s) - d)
                        /\ \A i \in 1 .. (Len(s) - d) : i + d \in DOMAIN s /\ Trim(s)[i] = s[i + d]
<1> DEFINE t == Trim(s)
<1>1. Len(s) \in Nat /\ DOMAIN s = 1 .. Len(s)
  BY LenProperties, Zenon
<1>2. CASE Len(s) > RingSize
  <2> DEFINE d == Len(s) - RingSize
  <2>1. d \in Nat /\ d < Len(s) /\ d + 1 \in 1 .. Len(s)
    BY <1>1, <1>2, RingAssumption
  <2>2. t = SubSeq(s, d + 1, Len(s))
    BY <1>2, Zenon DEF Trim
  <2> HIDE DEF d, t
  <2>3. \A i \in (d + 1) .. Len(s) : s[i] \in Frame
    BY <1>1, <2>1, ElementOfSeq
  <2>4. t \in Seq(Frame) /\ Len(t) = Len(s) - d /\ \A i \in 1 .. (Len(s) - d) : t[i] = s[i + d]
    <3>1. d + 1 \in Int /\ Len(s) \in Int /\ d + 1 <= Len(s) + 1
      BY <2>1, <1>1
    <3>2. /\ SubSeq(s, d + 1, Len(s)) \in Seq(Frame)
          /\ Len(SubSeq(s, d + 1, Len(s))) = Len(s) - (d + 1) + 1
          /\ \A i \in 1 .. (Len(s) - (d + 1) + 1) : SubSeq(s, d + 1, Len(s))[i] = s[d + 1 + i - 1]
      BY <3>1, <2>1, <2>3, <1>1, SubSeqProperties
    <3>3. /\ Len(s) - (d + 1) + 1 = Len(s) - d
          /\ \A i \in 1 .. (Len(s) - d) : d + 1 + i - 1 = i + d
      BY <2>1, <1>1
    <3>4. \A i \in 1 .. (Len(s) - d) : SubSeq(s, d + 1, Len(s))[i] = s[i + d]
      BY <3>2, <3>3, Zenon
    <3> QED
      BY <2>2, <3>2, <3>3, <3>4, Zenon
  <2>5. DOMAIN t = 1 .. (Len(s) - d)
    BY <2>4, LenProperties, Zenon
  <2>6. \A i \in 1 .. (Len(s) - d) : i + d \in DOMAIN s
    BY <2>1, <1>1
  <2> QED
    BY Zenon, <2>1, <2>4, <2>5, <2>6 DEF t
<1>3. CASE ~ (Len(s) > RingSize)
  <2>1. t = s
    BY <1>3, Zenon DEF Trim
  <2>2. \A i \in 1 .. (Len(s) - 0) : i + 0 \in DOMAIN s /\ i + 0 = i
    BY <1>1
  <2>3. Len(s) - 0 = Len(s) /\ 0 \in Nat /\ 0 < Len(s)
    BY <1>1
  <2> QED
    BY <2>1, <2>2, <2>3, <1>1, Zenon
<1> QED
  BY <1>2, <1>3, Zenon

\* k durable frames behind the ring: it still ends at the host's cursor, and who
\* would have got a snapshot still does.
LEMMA RingGrows ==
  ASSUME StreamInv, RingOK, NEW k \in Nat \ {0}, NEW frames \in Seq(Frame), Len(frames) = k,
         \A j \in 1 .. k : Durable(frames[j]) /\ frames[j].seq = seq + j,
         ring' = Trim(ring \o frames), seq' = seq + k
  PROVE  /\ RingOK'
         /\ \A m \in Int : m <= seq /\ Resyncs(ring, seq, m) => Resyncs(ring', seq', m)
<1> DEFINE u == ring \o frames
           L == Len(ring)
<1>1. ring \in Seq(Frame) /\ seq \in Nat /\ ReplayBudget \in Nat
  BY BudgetAssumption, Zenon DEF StreamInv, TypeOK
<1>2. L \in Nat /\ DOMAIN ring = 1 .. L /\ DOMAIN frames = 1 .. k
  BY <1>1, LenProperties, Zenon
<1>3. u \in Seq(Frame) /\ Len(u) = L + k
      /\ \A i \in 1 .. (L + k) : u[i] = IF i <= L THEN ring[i] ELSE frames[i - L]
  BY <1>1, ConcatProperties, Zenon
<1>4. DOMAIN u = 1 .. (L + k)
  BY <1>3, LenProperties, Zenon
<1> HIDE DEF u, L
<1>5. ASSUME NEW i \in 1 .. (L + k)
      PROVE  /\ u[i].type \in {"gap", "snapshot", "entry", "event"}
             /\ u[i].type = "gap" => i = 1 /\ L + k >= 2 /\ u[2].type = "snapshot"
             /\ u[i].type = "snapshot" => i = 1 \/ (i = 2 /\ u[1].type = "gap")
             /\ u[i].seq = seq - L + (IF u[i].type = "gap" THEN 2 ELSE i)
  <2>1. CASE i <= L
    <3>1. i \in DOMAIN ring /\ u[i] = ring[i]
      BY <2>1, <1>2, <1>3
    <3>2. /\ ring[i].type \in {"gap", "snapshot", "entry", "event"}
          /\ ring[i].type = "gap" => i = 1 /\ L >= 2 /\ ring[2].type = "snapshot"
          /\ ring[i].type = "snapshot" => i = 1 \/ (i = 2 /\ ring[1].type = "gap")
          /\ ring[i].seq = seq - L + (IF ring[i].type = "gap" THEN 2 ELSE i)
      BY <3>1, Zenon DEF RingOK, L
    <3>3. 1 <= L /\ 1 \in 1 .. (L + k) /\ (L >= 2 => 2 <= L /\ 2 \in 1 .. (L + k) /\ L + k >= 2)
      BY ONLY <2>1, <1>2, i \in 1 .. (L + k), k \in Nat \ {0}
    <3>4. u[1] = ring[1] /\ (L >= 2 => L + k >= 2 /\ u[2] = ring[2])
      BY <3>3, <1>3, Zenon
    <3> QED
      BY <3>1, <3>2, <3>4, Zenon
  <2>2. CASE ~ (i <= L)
    <3>1. i - L \in 1 .. k /\ u[i] = frames[i - L]
      BY <2>2, <1>2, <1>3
    <3>2. u[i].type \in {"entry", "event"} /\ u[i].seq = seq + (i - L)
      BY <3>1, Zenon DEF Durable
    <3>3. seq + (i - L) = seq - L + i
      BY <1>1, <1>2
    <3> QED
      BY <3>2, <3>3, Zenon
  <2> QED
    BY <2>1, <2>2, Zenon
<1>6. Len(u) # 0 /\ ring' = Trim(u)
  BY <1>2, <1>3 DEF u
<1>7. PICK d \in Nat : /\ d < L + k /\ Len(ring') = (L + k) - d
                       /\ DOMAIN ring' = 1 .. ((L + k) - d)
                       /\ \A i \in 1 .. ((L + k) - d) : i + d \in DOMAIN u /\ ring'[i] = u[i + d]
  <2>1. \E d \in Nat : /\ d < Len(u) /\ Trim(u) \in Seq(Frame) /\ Len(Trim(u)) = Len(u) - d
                        /\ DOMAIN Trim(u) = 1 .. (Len(u) - d)
                        /\ \A i \in 1 .. (Len(u) - d) : i + d \in DOMAIN u /\ Trim(u)[i] = u[i + d]
    BY <1>3, <1>6, TrimFacts, Zenon
  <2>2. Len(u) = L + k /\ Trim(u) = ring'
    BY <1>3, <1>6, Zenon
  <2>3. PICK d \in Nat : /\ d < Len(u) /\ Len(ring') = Len(u) - d
                         /\ DOMAIN ring' = 1 .. (Len(u) - d)
                         /\ \A i \in 1 .. (Len(u) - d) : i + d \in DOMAIN u /\ ring'[i] = u[i + d]
    BY ONLY <2>1, <2>2, Zenon
  <2>4. Len(u) - d = (L + k) - d
    BY ONLY <2>2, Zenon
  <2>5. d < L + k /\ Len(ring') = (L + k) - d /\ DOMAIN ring' = 1 .. ((L + k) - d)
    BY ONLY <2>2, <2>3, <2>4, Zenon
  <2>6. \A i \in 1 .. ((L + k) - d) : i + d \in DOMAIN u /\ ring'[i] = u[i + d]
    BY ONLY <2>3, <2>4, Zenon
  <2> QED
    BY ONLY <2>5, <2>6, Zenon
<1>11. d \in Nat /\ d < L + k /\ Len(ring') = (L + k) - d /\ seq' = seq + k /\ k \in Nat /\ seq \in Nat /\ L \in Nat
  BY <1>1, <1>2, <1>7, Zenon
<1>8. ring' # <<>> /\ 1 \in DOMAIN ring' /\ ring'[1] = u[1 + d] /\ 1 + d \in 1 .. (L + k)
  BY <1>2, <1>7
<1>9. RingOK'
  <2> SUFFICES ASSUME NEW i \in 1 .. ((L + k) - d)
               PROVE  /\ ring'[i].type \in {"gap", "snapshot", "entry", "event"}
                      /\ ring'[i].type = "gap" => i = 1 /\ Len(ring') >= 2 /\ ring'[2].type = "snapshot"
                      /\ ring'[i].type = "snapshot" => i = 1 \/ (i = 2 /\ ring'[1].type = "gap")
                      /\ ring'[i].seq = seq' - Len(ring') + (IF ring'[i].type = "gap" THEN 2 ELSE i)
    BY <1>7, Zenon DEF RingOK
  <2>1. i + d \in 1 .. (L + k) /\ ring'[i] = u[i + d]
    BY <1>7, <1>4, Zenon
  <2>2. /\ u[i + d].type \in {"gap", "snapshot", "entry", "event"}
        /\ u[i + d].type = "gap" => i + d = 1 /\ L + k >= 2 /\ u[2].type = "snapshot"
        /\ u[i + d].type = "snapshot" => i + d = 1 \/ (i + d = 2 /\ u[1].type = "gap")
        /\ u[i + d].seq = seq - L + (IF u[i + d].type = "gap" THEN 2 ELSE i + d)
    BY <2>1, <1>5, Zenon
  <2>3. CASE u[i + d].type = "gap"
    <3>1. i = 1 /\ d = 0 /\ L + k >= 2
      BY <2>2, <2>3
    <3>2. ring'[2] = u[2]
      BY <3>1, <1>2, <1>7
    <3>3. seq' - Len(ring') = seq - L
      BY ONLY <3>1, <1>11
    <3>4. Len(ring') = L + k
      BY ONLY <3>1, <1>11
    <3> QED
      BY <2>1, <2>2, <2>3, <3>1, <3>2, <3>3, <3>4, Zenon
  <2>4. CASE u[i + d].type # "gap"
    <3>1. seq' - Len(ring') + i = seq - L + (i + d)
      <4>1. i \in Int
        BY <1>11
      <4> QED
        BY ONLY <4>1, <1>11
    <3>2. u[i + d].type = "snapshot" => i = 1 \/ (i = 2 /\ ring'[1].type = "gap")
      <4>1. i \in Nat /\ i >= 1
        BY <1>11
      <4>2. i + d = 1 => i = 1
        BY ONLY <4>1, <1>11
      <4>3. i + d = 2 => i = 1 \/ (i = 2 /\ 1 + d = 1)
        BY ONLY <4>1, <1>11
      <4> QED
        BY <4>2, <4>3, <2>2, <1>8, Zenon
    <3> QED
      BY <2>1, <2>2, <2>4, <3>1, <3>2, Zenon
  <2> QED
    BY <2>3, <2>4, Zenon
<1>10. ASSUME NEW m \in Int, m <= seq, Resyncs(ring, seq, m) PROVE Resyncs(ring', seq', m)
  <2>1. CASE m < Oldest(ring, seq) - 1
    <3>1. u[1 + d].seq = seq - L + (IF u[1 + d].type = "gap" THEN 2 ELSE 1 + d)
          /\ (u[1 + d].type = "gap" => 1 + d = 1)
      BY <1>5, <1>8, Zenon
    <3>2. CASE ring = <<>>
      <4>1. L = 0 /\ Oldest(ring, seq) = seq + 1
        BY <3>2, Zenon DEF L, Oldest
      <4>2. m < seq /\ ring' # <<>> /\ Oldest(ring', seq') = u[1 + d].seq
        BY <4>1, <2>1, <1>1, <1>8 DEF Oldest
      <4>3. u[1 + d].seq >= seq + 1
        BY <3>1, <4>1, <1>1, <1>8
      <4>4. u[1 + d].seq \in Int
        BY <3>1, <4>1, <1>1, <1>8
      <4>5. m < Oldest(ring', seq') - 1
        BY ONLY <4>2, <4>3, <4>4, <1>1, m \in Int
      <4> QED
        BY <4>5, Zenon DEF Resyncs
    <3>3. CASE ring # <<>>
      <4>1. L > 0 /\ Oldest(ring, seq) = ring[1].seq
        BY <3>3, <1>1, <1>2, EmptySeq DEF L, Oldest
      <4>2. ring[1] = u[1] /\ u[1].seq = seq - L + (IF u[1].type = "gap" THEN 2 ELSE 1)
        BY <4>1, <1>2, <1>3, <1>5
      <4>3. u[1].seq <= u[1 + d].seq
        BY <3>1, <4>2, <1>1, <1>2
      <4>4. u[1].seq \in Int /\ u[1 + d].seq \in Int
        BY <3>1, <4>2, <1>1, <1>2
      <4>5. m < u[1 + d].seq - 1
        BY <4>1, <4>2, <4>3, <4>4, <2>1
      <4> QED
        BY <4>5, <1>8, Zenon DEF Resyncs, Oldest
    <3> QED
      BY <3>2, <3>3, Zenon
  <2>2. ASSUME NEW i \in DOMAIN ring, ring[i].type = "snapshot", ring[i].seq > m
        PROVE  Resyncs(ring', seq', m)
    <3>1. i \in 1 .. (L + k) /\ i \in 1 .. L /\ u[i] = ring[i] /\ ring[i].seq = seq - L + i
      <4>1. i \in 1 .. (L + k) /\ i \in 1 .. L /\ u[i] = ring[i]
        BY <1>2, <1>3
      <4> QED
        BY <4>1, <2>2, <1>5
    <3>2. CASE i > d
      <4>1. i - d \in DOMAIN ring' /\ ring'[i - d] = u[i]
        BY <3>1, <3>2, <1>2, <1>7
      <4> QED
        BY <4>1, <3>1, <2>2, Zenon DEF Resyncs
    <3>3. CASE ~ (i > d)
      <4>1. d >= 1 /\ u[1 + d].type # "gap"
        BY <3>1, <3>3, <1>2, <1>5, <1>8
      <4>2. u[1 + d].seq = seq - L + (1 + d)
        BY <4>1, <1>5, <1>8, Zenon
      <4>3. m < u[1 + d].seq - 1
        BY <4>2, <3>1, <3>3, <2>2, <1>1, <1>2
      <4> QED
        BY <4>3, <1>8, Zenon DEF Resyncs, Oldest
    <3> QED
      BY <3>2, <3>3, Zenon
  <2>3. CASE seq - m > ReplayBudget
    BY <2>3, <1>1 DEF Resyncs
  <2> QED
    BY <1>10, <2>1, <2>2, <2>3, Zenon DEF Resyncs
<1> QED
  BY <1>9, <1>10, Zenon

\* A gap and its snapshot.
LEMMA GapAndSnapshotFacts ==
  ASSUME NEW e \in Nat, NEW n \in Nat, NEW es \in Seq(Entry), NEW s, s = GapAndSnapshot(e, n, es)
  PROVE  /\ s \in Seq(Frame) /\ Len(s) = 2 /\ DOMAIN s = 1 .. 2
         /\ s[1].type = "gap" /\ s[1].seq = n /\ s[2].type = "snapshot" /\ s[2].seq = n
<1> DEFINE g == MakeFrame("gap", e, n, <<>>)
           f == MakeFrame("snapshot", e, n, es)
<1>1. <<>> \in Seq(Entry) /\ "gap" \in FrameTypes /\ "snapshot" \in FrameTypes
  BY EmptySeq, Zenon DEF FrameTypes
<1>2. g \in Frame /\ g.type = "gap" /\ g.seq = n
  BY <1>1, Zenon DEF MakeFrame, Frame
<1>4. f \in Frame /\ f.type = "snapshot" /\ f.seq = n
  BY <1>1, Zenon DEF MakeFrame, Frame
<1>3. s = <<g, f>>
  BY Zenon DEF GapAndSnapshot, Snapshot
<1> HIDE DEF g, f
<1> QED
  BY <1>2, <1>3, <1>4

\* After a rebase that restarts the ring everyone gets the snapshot.
LEMMA RingReset ==
  ASSUME NEW e \in Nat, NEW n \in Nat, NEW es \in Seq(Entry),
         ring' = Trim(GapAndSnapshot(e, n, es)), seq' = n
  PROVE  RingOK' /\ \A m \in Int : m < n => Resyncs(ring', seq', m)
<1>1. PICK s : s = GapAndSnapshot(e, n, es)
  BY Zenon
<1>2. /\ s \in Seq(Frame) /\ Len(s) = 2 /\ DOMAIN s = 1 .. 2
      /\ s[1].type = "gap" /\ s[1].seq = n /\ s[2].type = "snapshot" /\ s[2].seq = n
  BY <1>1, GapAndSnapshotFacts
<1>3. PICK d \in Nat : /\ d < Len(s) /\ Len(Trim(s)) = Len(s) - d
                       /\ DOMAIN Trim(s) = 1 .. (Len(s) - d)
                       /\ \A i \in 1 .. (Len(s) - d) : i + d \in DOMAIN s /\ Trim(s)[i] = s[i + d]
  BY <1>2, TrimFacts, Len(s) # 0, Zenon
<1>4. ring' = Trim(s)
  BY <1>1, Zenon
<1>5. CASE d = 0
  <2>1. /\ Len(ring') = 2 /\ DOMAIN ring' = 1 .. 2 /\ ring'[1] = s[1] /\ ring'[2] = s[2]
    BY <1>2, <1>3, <1>4, <1>5
  <2>2. RingOK'
    BY <2>1, <1>2 DEF RingOK
  <2>3. \A m \in Int : m < n => Resyncs(ring', seq', m)
    BY <2>1, <1>2 DEF Resyncs
  <2> QED
    BY <2>2, <2>3, Zenon
<1>6. CASE d = 1
  <2>1. /\ Len(ring') = 1 /\ DOMAIN ring' = {1} /\ ring'[1] = s[2]
    BY <1>2, <1>3, <1>4, <1>6
  <2>2. RingOK'
    BY <2>1, <1>2 DEF RingOK
  <2>3. \A m \in Int : m < n => Resyncs(ring', seq', m)
    BY <2>1, <1>2, Zenon DEF Resyncs
  <2> QED
    BY <2>2, <2>3, Zenon
<1> QED
  BY <1>2, <1>3, <1>5, <1>6

\* A gap and a snapshot at m take a client from anywhere to m.
LEMMA SnapshotStretch ==
  ASSUME NEW e \in Nat, NEW n \in Nat, NEW m \in Nat, n <= m, NEW es \in Seq(Entry),
         NEW s, s = GapAndSnapshot(e, m, es)
  PROVE  /\ Stretch(s, n, m)
         /\ \A j \in DOMAIN s : s[j].type = "gap" => s[j].seq = m
         /\ \E j \in DOMAIN s : s[j].type = "snapshot" /\ \A i \in DOMAIN s : i < j => ~ Durable(s[i])
<1>1. /\ s \in Seq(Frame) /\ Len(s) = 2 /\ DOMAIN s = 1 .. 2
      /\ s[1].type = "gap" /\ s[1].seq = m /\ s[2].type = "snapshot" /\ s[2].seq = m
  BY GapAndSnapshotFacts
<1>2. \A j \in DOMAIN s : j = 1 \/ j = 2
  BY <1>1
<1>3. /\ \A j \in DOMAIN s : n <= s[j].seq /\ s[j].seq <= m
      /\ ~ Moves(s[1]) /\ Moves(s[2]) /\ ~ Durable(s[1]) /\ ~ Durable(s[2])
  BY <1>1, <1>2 DEF Moves, Durable
<1>4. Stretch(s, n, m)
  BY <1>1, <1>2, <1>3 DEF Stretch
<1> QED
  BY <1>1, <1>2, <1>3, <1>4

\* k durable frames at the cursors after n.
LEMMA DurableStretch ==
  ASSUME NEW n \in Nat, NEW k \in Nat \ {0}, NEW s \in Seq(Frame), Len(s) = k,
         \A j \in 1 .. k : Durable(s[j]) /\ s[j].seq = n + j
  PROVE  Stretch(s, n, n + k) /\ \A j \in DOMAIN s : s[j].type # "gap"
<1>1. DOMAIN s = 1 .. k
  BY LenProperties, Zenon
<1>2. \A j \in 1 .. k : Moves(s[j]) /\ s[j].type \notin {"gap", "snapshot"}
  BY Zenon DEF Durable, Moves
<1>3. \A j \in 1 .. k : n <= s[j].seq /\ s[j].seq <= n + k
  OBVIOUS
<1>4. ASSUME NEW j \in 1 .. k
      PROVE  \/ s[j].seq <= n + 1
             \/ \E i \in 1 .. k : i < j /\ Moves(s[i]) /\ s[j].seq <= s[i].seq + 1
  <2>1. CASE j = 1
    BY <2>1
  <2>2. CASE j # 1
    <3>1. j - 1 \in 1 .. k /\ j - 1 < j
      BY <2>2
    <3>2. s[j].seq <= s[j - 1].seq + 1
      BY <3>1
    <3> QED
      BY <3>1, <3>2, <1>2, Zenon
  <2> QED
    BY <2>1, <2>2, Zenon
<1>5. k \in 1 .. k /\ s[k].seq = n + k
  OBVIOUS
<1> QED
  BY <1>1, <1>2, <1>3, <1>4, <1>5, Zenon DEF Stretch

\* The ring is sorted, so what comes after cursor n is a suffix of it.
LEMMA RingSuffix ==
  ASSUME ring \in Seq(Frame), seq \in Nat, RingOK, NEW n \in Nat, n <= seq
  PROVE  \E a \in 1 .. (Len(ring) + 1) :
           /\ RingAfter(n) \in Seq(Frame) /\ Len(RingAfter(n)) = (Len(ring) + 1) - a
           /\ DOMAIN RingAfter(n) = 1 .. ((Len(ring) + 1) - a)
           /\ \A j \in DOMAIN RingAfter(n) : (j + a) - 1 \in DOMAIN ring /\ RingAfter(n)[j] = ring[(j + a) - 1]
           /\ \A i \in DOMAIN ring : ring[i].seq > n <=> i >= a
<1> DEFINE L == Len(ring)
           later == {i \in DOMAIN ring : ring[i].seq > n}
           least == CHOOSE i \in later : \A j \in later : i <= j
<1>1. L \in Nat /\ DOMAIN ring = 1 .. L /\ \A i \in DOMAIN ring : ring[i].seq \in Nat
  BY LenProperties, FrameSeq, Zenon
<1>2. RingAfter(n) = IF later = {} THEN <<>> ELSE SubSeq(ring, least, L)
  BY Zenon DEF RingAfter
<1>5. \A i \in DOMAIN ring : /\ ring[i].type = "gap" => i = 1
                             /\ ring[i].seq = seq - L + (IF ring[i].type = "gap" THEN 2 ELSE i)
  BY Zenon DEF RingOK
<1>3. CASE later = {}
  <2>1. RingAfter(n) = <<>>
    BY <1>2, <1>3, Zenon
  <2>2. RingAfter(n) \in Seq(Frame) /\ Len(RingAfter(n)) = 0 /\ DOMAIN RingAfter(n) = {}
    BY <2>1
  <2>3. \A i \in DOMAIN ring : ~ (ring[i].seq > n)
    BY <1>3, Zenon
  <2> HIDE DEF L, later, least
  <2>6. PICK b : b = L + 1
    BY Zenon
  <2>4. b \in 1 .. (L + 1) /\ (L + 1) - b = 0 /\ 1 .. 0 = {} /\ \A i \in DOMAIN ring : ~ (i >= b)
    BY <1>1, <2>6
  <2>5. \E a \in 1 .. (L + 1) :
           /\ RingAfter(n) \in Seq(Frame) /\ Len(RingAfter(n)) = (L + 1) - a
           /\ DOMAIN RingAfter(n) = 1 .. ((L + 1) - a)
           /\ \A j \in DOMAIN RingAfter(n) : (j + a) - 1 \in DOMAIN ring /\ RingAfter(n)[j] = ring[(j + a) - 1]
           /\ \A i \in DOMAIN ring : ring[i].seq > n <=> i >= a
    BY <2>2, <2>3, <2>4, Zenon
  <2> QED
    BY <2>5, Zenon DEF L
<1>4. CASE later # {}
  <2>1. least \in later /\ \A j \in later : least <= j
    <3>1. CASE 1 \in later
      BY <1>1, <3>1
    <3>2. CASE 1 \notin later
      <4> DEFINE m == (n + L + 1) - seq
      <4>1. PICK x \in later : TRUE
        BY <1>4, Zenon
      <4>2. x \in 2 .. L /\ seq - L + x > n
        BY <4>1, <3>2, <1>1, <1>5
      <4>3. n >= seq - L + 1
        <5>1. 1 \in DOMAIN ring /\ ~ (ring[1].seq > n)
          BY <4>2, <3>2, <1>1
        <5>2. ring[1].seq \in Nat /\ ring[1].seq >= seq - L + 1
          BY <5>1, <1>1, <1>5
        <5> QED
          BY <5>1, <5>2, <1>1
      <4>4. m \in 2 .. x /\ m \in 1 .. L /\ seq - L + m > n
        BY <4>2, <4>3, <1>1
      <4>5. m \in later
        <5> HIDE DEF m
        <5>1. m \in DOMAIN ring /\ m # 1
          BY <4>4, <1>1
        <5>2. ring[m].seq = seq - L + m
          BY <5>1, <1>5, Zenon
        <5> QED
          BY <5>1, <5>2, <4>4, Zenon
      <4>6. \A j \in later : m <= j
        <5> SUFFICES ASSUME NEW j \in later PROVE m <= j
          OBVIOUS
        <5>1. j \in 1 .. L /\ j # 1 /\ ring[j].seq > n
          BY <3>2, <1>1, Zenon
        <5>2. ring[j].seq = seq - L + j
          BY <5>1, <1>1, <1>5, Zenon
        <5> QED
          BY <5>1, <5>2, <1>1
      <4> HIDE DEF later, m
      <4> QED
        BY <4>5, <4>6, Zenon
    <3> QED
      BY <3>1, <3>2, Zenon
  <2>2. least \in 1 .. L /\ ring[least].seq > n
    BY <2>1, <1>1, Zenon
  <2>3. RingAfter(n) = SubSeq(ring, least, L)
    BY <1>2, <1>4, Zenon
  <2>4. ASSUME NEW i \in DOMAIN ring, i >= least PROVE ring[i].seq > n
    <3> HIDE DEF least, L
    <3>1. L \in Nat /\ i \in 1 .. L /\ least \in 1 .. L /\ ring[least].seq \in Nat
      BY <2>2, <1>1, Zenon
    <3>2. i # least => ring[i].seq = seq - L + i
      BY <3>1, <2>4, <1>1, <1>5
    <3>3. ring[least].seq <= seq - L + (least + 1)
      BY <3>1, <1>1, <1>5
    <3>4. i # least => i >= least + 1
      BY ONLY <3>1, <2>4
    <3>5. i # least => seq - L + i > n
      BY ONLY <3>1, <3>3, <3>4, <2>2, seq \in Nat, n \in Nat
    <3> QED
      BY <3>2, <3>5, <2>2, Zenon
  <2>5. \A i \in DOMAIN ring : ring[i].seq > n => i >= least
    <3>1. \A i \in DOMAIN ring : ring[i].seq > n => i \in later
      BY Zenon
    <3> HIDE DEF least, later
    <3> QED
      BY <3>1, <2>1, <2>2, <1>1, Zenon
  <2> HIDE DEF L, later, least
  <2>6. PICK a : a = least
    BY Zenon
  <2>7. /\ a \in 1 .. L /\ a \in 1 .. (L + 1)
    BY <2>6, <2>2, <1>1
  <2>8. PICK s : s = RingAfter(n)
    BY Zenon
  <2>9. /\ s \in Seq(Frame) /\ Len(s) = (L + 1) - a
        /\ \A j \in 1 .. ((L + 1) - a) : s[j] = ring[(j + a) - 1] /\ (j + a) - 1 \in 1 .. L
    <3>1. s = SubSeq(ring, a, L)
      BY <2>3, <2>6, <2>8, Zenon
    <3>2. Len(ring) = L
      BY Zenon DEF L
    <3> QED
      BY <3>1, <3>2, <2>7, <1>1
  <2>10. DOMAIN s = 1 .. ((L + 1) - a)
    BY <2>9, LenProperties, Zenon
  <2>11. \E b \in 1 .. (L + 1) :
           /\ s \in Seq(Frame) /\ Len(s) = (L + 1) - b
           /\ DOMAIN s = 1 .. ((L + 1) - b)
           /\ \A j \in DOMAIN s : (j + b) - 1 \in DOMAIN ring /\ s[j] = ring[(j + b) - 1]
           /\ \A i \in DOMAIN ring : ring[i].seq > n <=> i >= b
    <3>1. \A j \in DOMAIN s : (j + a) - 1 \in DOMAIN ring /\ s[j] = ring[(j + a) - 1]
      BY <2>9, <2>10, <1>1, Zenon
    <3>2. \A i \in DOMAIN ring : ring[i].seq > n <=> i >= a
      BY <2>4, <2>5, <2>6, Zenon
    <3> QED
      BY ONLY <3>1, <3>2, <2>7, <2>9, <2>10, Zenon
  <2> QED
    BY <2>8, <2>11, Zenon DEF L
<1> QED
  BY <1>3, <1>4, Zenon

\* The ring after cursor n, when frame n + 1 is still in it: it starts with
\* frame n + 1, or a snapshot is in it.
LEMMA RingRest ==
  ASSUME ring \in Seq(Frame), seq \in Nat, RingOK, NEW n \in Nat, n <= seq,
         NEW a \in 1 .. (Len(ring) + 1), \A i \in DOMAIN ring : ring[i].seq > n <=> i >= a
  PROVE  /\ \A i \in DOMAIN ring : ring[i].seq \in Nat /\ ring[i].seq <= seq
         /\ n = seq => a = Len(ring) + 1
         /\ n # seq /\ ~ (n < Oldest(ring, seq) - 1) => a <= Len(ring)
         /\ a <= Len(ring) /\ ring[a].type = "gap" => a = 1 /\ 2 <= Len(ring) /\ ring[2].type = "snapshot"
         /\ a <= Len(ring) /\ ring[a].type # "gap" =>
              /\ ring[a].seq = seq - Len(ring) + a
              /\ ~ (n < Oldest(ring, seq) - 1) => ring[a].seq = n + 1
<1>0. PICK L : L = Len(ring)
  BY Zenon
<1>1. /\ L \in Nat /\ DOMAIN ring = 1 .. L /\ a \in 1 .. (L + 1)
      /\ \A i \in DOMAIN ring : ring[i].seq \in Nat
  BY <1>0, LenProperties, FrameSeq, Zenon
<1>2. \A i \in DOMAIN ring :
        /\ ring[i].type = "gap" => i = 1 /\ L >= 2 /\ ring[2].type = "snapshot"
        /\ ring[i].seq = seq - L + (IF ring[i].type = "gap" THEN 2 ELSE i)
  BY <1>0, Zenon DEF RingOK
<1>3. \A i \in DOMAIN ring : ring[i].seq <= seq
  <2> SUFFICES ASSUME NEW i \in DOMAIN ring PROVE ring[i].seq <= seq
    BY Zenon
  <2>1. /\ i \in 1 .. L
        /\ ring[i].type = "gap" => L >= 2
        /\ ring[i].seq = seq - L + (IF ring[i].type = "gap" THEN 2 ELSE i)
    BY <1>1, <1>2, Zenon
  <2>2. L \in Nat
    BY <1>1, Zenon
  <2>3. CASE ring[i].type = "gap"
    BY ONLY <2>1, <2>2, <2>3, seq \in Nat
  <2>4. CASE ring[i].type # "gap"
    BY ONLY <2>1, <2>2, <2>4, seq \in Nat
  <2> QED
    BY <2>3, <2>4, Zenon
<1>4. /\ L = 0 => Oldest(ring, seq) = seq + 1
      /\ L # 0 => Oldest(ring, seq) = ring[1].seq
  BY <1>0, <1>1, EmptySeq, Zenon DEF Oldest
<1>5. a <= L => a \in DOMAIN ring /\ ring[a].seq > n
  BY <1>1
<1>6. n = seq => a = L + 1
  BY <1>1, <1>3, <1>5
<1>7. ASSUME n # seq, ~ (n < Oldest(ring, seq) - 1) PROVE a <= L
  <2>1. L # 0
    BY ONLY <1>7, <1>4, n \in Nat, seq \in Nat, n <= seq
  <2>2. L \in DOMAIN ring
    BY <1>1, <2>1
  <2>3. ring[L].seq = seq
    <3>1. /\ ring[L].type = "gap" => L = 1 /\ L >= 2
          /\ ring[L].seq = seq - L + (IF ring[L].type = "gap" THEN 2 ELSE L)
      BY <2>2, <1>2, Zenon
    <3> QED
      BY ONLY <3>1, <1>1, seq \in Nat
  <2>4. ring[L].seq > n
    BY ONLY <2>3, <1>7, n \in Nat, seq \in Nat, n <= seq
  <2> QED
    BY <2>2, <2>4, <1>1, Zenon
<1>8. ASSUME a <= L, ring[a].type = "gap" PROVE a = 1 /\ 2 <= L /\ ring[2].type = "snapshot"
  BY <1>8, <1>5, <1>2, Zenon
<1>9. ASSUME a <= L, ring[a].type # "gap" PROVE ring[a].seq = seq - L + a
  BY <1>9, <1>5, <1>2, Zenon
<1>10. ASSUME a <= L, ring[a].type # "gap", ~ (n < Oldest(ring, seq) - 1) PROVE ring[a].seq = n + 1
  <2>1. ring[a].seq = seq - L + a /\ ring[a].seq > n /\ ring[a].seq \in Nat
    BY <1>1, <1>5, <1>9, <1>10, Zenon
  <2>2. CASE a = 1
    <3>1. Oldest(ring, seq) = ring[a].seq
      BY <2>2, <1>4, <1>10, <1>1
    <3> QED
      BY ONLY <3>1, <2>1, <1>10, n \in Nat
  <2>3. CASE a # 1
    <3>1. a - 1 \in DOMAIN ring /\ ~ (a - 1 >= a)
      BY <2>3, <1>10, <1>1
    <3>2. ~ (ring[a - 1].seq > n)
      BY <3>1, Zenon
    <3>3. /\ ring[a - 1].type = "gap" => a - 1 = 1
          /\ ring[a - 1].seq = seq - L + (IF ring[a - 1].type = "gap" THEN 2 ELSE a - 1)
      BY <3>1, <1>2, Zenon
    <3> QED
      BY ONLY <3>2, <3>3, <2>1, <1>1, n \in Nat, seq \in Nat
  <2> QED
    BY <2>2, <2>3, Zenon
<1> QED
  BY <1>0, <1>1, <1>3, <1>6, <1>7, <1>8, <1>9, <1>10, Zenon

\* When the budget is exceeded, or frame n + 1 is not in the ring, Replay
\* restarts the client; otherwise it sends the rest of the ring.
LEMMA ReplayCases ==
  ASSUME NEW n \in Nat
  PROVE  Replay(<<epoch, n>>) =
           IF n < Oldest(ring, seq) - 1 \/ Len(RingAfter(n)) > ReplayBudget
           THEN GapAndSnapshot(epoch, seq, entries) ELSE RingAfter(n)
<1>1. <<epoch, n>>[1] = epoch /\ <<epoch, n>>[2] = n
  OBVIOUS
<1> QED
  BY <1>1, Zenon DEF Replay, Oldest

\* What a host answers to cursor n of its epoch takes the client from n to the
\* host's cursor, and starts with a gap only when a later answer to n also
\* brings a snapshot.
LEMMA ReplayStretch ==
  ASSUME StreamInv, RingOK, NEW n \in Nat, n <= seq, NEW X, X = Replay(<<epoch, n>>)
  PROVE  /\ Stretch(X, n, seq)
         /\ n = seq => X = <<>>
         /\ Resyncs(ring, seq, n) =>
              \E j \in DOMAIN X : X[j].type = "snapshot" /\ \A i \in DOMAIN X : i < j => ~ Durable(X[i])
         /\ \A j \in DOMAIN X : X[j].type = "gap" => Resyncs(ring, seq, n)
<1>1. /\ ring \in Seq(Frame) /\ seq \in Nat /\ epoch \in Nat /\ entries \in Seq(Entry) /\ ReplayBudget \in Nat
  BY BudgetAssumption, Zenon DEF StreamInv, TypeOK
<1>2. PICK L : L = Len(ring)
  BY Zenon
<1>3. PICK R : R = RingAfter(n)
  BY Zenon
<1>4. PICK a \in 1 .. (L + 1) :
           /\ R \in Seq(Frame) /\ Len(R) = (L + 1) - a
           /\ DOMAIN R = 1 .. ((L + 1) - a)
           /\ \A j \in DOMAIN R : (j + a) - 1 \in DOMAIN ring /\ R[j] = ring[(j + a) - 1]
           /\ \A i \in DOMAIN ring : ring[i].seq > n <=> i >= a
  BY <1>1, <1>2, <1>3, RingSuffix, Zenon
<1>5. /\ L \in Nat /\ DOMAIN ring = 1 .. L
  BY <1>1, <1>2, LenProperties, Zenon
<1>6. /\ \A i \in DOMAIN ring : ring[i].seq \in Nat /\ ring[i].seq <= seq
      /\ n = seq => a = L + 1
      /\ n # seq /\ ~ (n < Oldest(ring, seq) - 1) => a <= L
      /\ a <= L /\ ring[a].type = "gap" => a = 1 /\ 2 <= L /\ ring[2].type = "snapshot"
      /\ a <= L /\ ring[a].type # "gap" =>
           /\ ring[a].seq = seq - L + a
           /\ ~ (n < Oldest(ring, seq) - 1) => ring[a].seq = n + 1
  <2>1. a \in 1 .. (Len(ring) + 1)
    BY <1>2, Zenon
  <2>2. /\ \A i \in DOMAIN ring : ring[i].seq \in Nat /\ ring[i].seq <= seq
        /\ n = seq => a = Len(ring) + 1
        /\ n # seq /\ ~ (n < Oldest(ring, seq) - 1) => a <= Len(ring)
        /\ a <= Len(ring) /\ ring[a].type = "gap" => a = 1 /\ 2 <= Len(ring) /\ ring[2].type = "snapshot"
        /\ a <= Len(ring) /\ ring[a].type # "gap" =>
             /\ ring[a].seq = seq - Len(ring) + a
             /\ ~ (n < Oldest(ring, seq) - 1) => ring[a].seq = n + 1
    BY <2>1, <1>1, <1>4, RingRest, Zenon
  <2> QED
    BY <2>2, <1>2, Zenon
<1>7. X = IF n < Oldest(ring, seq) - 1 \/ Len(R) > ReplayBudget
          THEN GapAndSnapshot(epoch, seq, entries) ELSE R
  BY <1>3, ReplayCases, Zenon
<1>8. \A i \in DOMAIN ring :
        /\ ring[i].type \in {"gap", "snapshot", "entry", "event"}
        /\ ring[i].type = "gap" => i = 1 /\ L >= 2 /\ ring[2].type = "snapshot"
        /\ ring[i].type = "snapshot" => i = 1 \/ (i = 2 /\ ring[1].type = "gap")
        /\ ring[i].seq = seq - L + (IF ring[i].type = "gap" THEN 2 ELSE i)
  BY <1>2, Zenon DEF RingOK
\* Without a snapshot the rest of the ring is one frame per cursor.
<1>9. ASSUME ~ (n < Oldest(ring, seq) - 1),
             \A i \in DOMAIN ring : ring[i].type = "snapshot" => ~ (ring[i].seq > n)
      PROVE  Len(R) = seq - n
  <2>1. CASE n = seq
    BY <2>1, <1>4, <1>5, <1>6
  <2>2. CASE n # seq
    <3>1. a <= L
      BY <2>2, <1>6, <1>9, Zenon
    <3>2. ring[a].type # "gap"
      <4> SUFFICES ASSUME ring[a].type = "gap" PROVE FALSE
        BY Zenon
      <4>1. a = 1 /\ 2 \in DOMAIN ring /\ ring[2].type = "snapshot" /\ 2 >= a
        BY <3>1, <1>5, <1>6
      <4> QED
        BY <4>1, <1>4, <1>9, Zenon
    <3>3. n + 1 = seq - L + a
      BY <3>1, <3>2, <1>6, <1>9, Zenon
    <3> QED
      BY ONLY <3>3, <1>4, <1>5, <1>1, n \in Nat
  <2> QED
    BY <2>1, <2>2, Zenon
<1>10. CASE n < Oldest(ring, seq) - 1 \/ Len(R) > ReplayBudget
  <2>1. X = GapAndSnapshot(epoch, seq, entries)
    BY <1>7, <1>10, Zenon
  <2>2. /\ Stretch(X, n, seq)
        /\ \E j \in DOMAIN X : X[j].type = "snapshot" /\ \A i \in DOMAIN X : i < j => ~ Durable(X[i])
    <3>1. epoch \in Nat /\ n \in Nat /\ seq \in Nat /\ n <= seq /\ entries \in Seq(Entry)
      BY <1>1, Zenon
    <3> QED
      BY ONLY <2>1, <3>1, SnapshotStretch, Zenon
  <2>3. n # seq
    <3> SUFFICES ASSUME n = seq PROVE FALSE
      BY Zenon
    <3>1. ~ (Len(R) > ReplayBudget)
      BY <1>1, <1>4, <1>5, <1>6
    <3>2. ~ (n < Oldest(ring, seq) - 1)
      <4>1. CASE ring = <<>>
        BY <4>1, <1>1 DEF Oldest
      <4>2. CASE ring # <<>>
        <5>1. 1 \in DOMAIN ring
          BY <4>2, <1>1, <1>2, <1>5, EmptySeq
        <5>2. Oldest(ring, seq) = ring[1].seq /\ ring[1].seq \in Nat /\ ring[1].seq <= seq
          BY <4>2, <5>1, <1>6, Zenon DEF Oldest
        <5> QED
          BY ONLY <5>2, <1>1, n = seq
      <4> QED
        BY <4>1, <4>2, Zenon
    <3> QED
      BY <3>1, <3>2, <1>10, Zenon
  <2>4. Resyncs(ring, seq, n)
    <3>1. CASE n < Oldest(ring, seq) - 1 \/ \E i \in DOMAIN ring : ring[i].type = "snapshot" /\ ring[i].seq > n
      BY <3>1, Zenon DEF Resyncs
    <3>2. CASE ~ (n < Oldest(ring, seq) - 1 \/ \E i \in DOMAIN ring : ring[i].type = "snapshot" /\ ring[i].seq > n)
      <4>1. Len(R) = seq - n
        BY <3>2, <1>9, Zenon
      <4> QED
        BY <4>1, <3>2, <1>10, Zenon DEF Resyncs
    <3> QED
      BY <3>1, <3>2, Zenon
  <2> QED
    BY <2>2, <2>3, <2>4, Zenon
<1>11. CASE ~ (n < Oldest(ring, seq) - 1 \/ Len(R) > ReplayBudget)
  <2>1. X = R
    BY <1>7, <1>11, Zenon
  <2>2. n = seq => X = <<>>
    <3>1. n = seq => Len(X) = 0
      BY <2>1, <1>4, <1>5, <1>6
    <3> QED
      BY <3>1, <2>1, <1>4, EmptySeq, Zenon
  <2>3. \A j \in DOMAIN X : X[j].type = "gap" => a = 1 /\ j = 1 /\ 2 <= L /\ ring[2].type = "snapshot"
    <3> SUFFICES ASSUME NEW j \in DOMAIN X, X[j].type = "gap"
                 PROVE  a = 1 /\ j = 1 /\ 2 <= L /\ ring[2].type = "snapshot"
      BY Zenon
    <3>1. (j + a) - 1 \in DOMAIN ring /\ ring[(j + a) - 1].type = "gap" /\ j \in 1 .. ((L + 1) - a)
      BY <2>1, <1>4, Zenon
    <3>2. (j + a) - 1 = 1 /\ L >= 2 /\ ring[2].type = "snapshot"
      BY <3>1, <1>8, Zenon
    <3>3. a = 1 /\ j = 1
      BY ONLY <3>1, <3>2, <1>5, a \in 1 .. (L + 1)
    <3> QED
      BY <3>2, <3>3, <1>5, Zenon
  <2>4. a = 1 /\ 2 <= L => 2 \in DOMAIN X /\ 2 \in DOMAIN ring /\ X[2] = ring[2] /\ X[1] = ring[1] /\ 1 \in DOMAIN X
    BY <2>1, <1>4, <1>5
  <2>5. \A j \in DOMAIN X : X[j].type = "gap" => Resyncs(ring, seq, n)
    <3> SUFFICES ASSUME NEW j \in DOMAIN X, X[j].type = "gap" PROVE Resyncs(ring, seq, n)
      BY Zenon
    <3>1. a = 1 /\ 2 <= L /\ ring[2].type = "snapshot"
      BY <2>3, Zenon
    <3>2. 2 \in DOMAIN ring /\ 2 >= a
      BY <3>1, <1>5
    <3> QED
      BY <3>1, <3>2, <1>4, Zenon DEF Resyncs
  <2>6. Resyncs(ring, seq, n) =>
          \E j \in DOMAIN X : X[j].type = "snapshot" /\ \A i \in DOMAIN X : i < j => ~ Durable(X[i])
    <3> SUFFICES ASSUME Resyncs(ring, seq, n)
                 PROVE  \E j \in DOMAIN X : X[j].type = "snapshot" /\ \A i \in DOMAIN X : i < j => ~ Durable(X[i])
      BY Zenon
    <3>1. PICK i \in DOMAIN ring : ring[i].type = "snapshot" /\ ring[i].seq > n
      <4> SUFFICES ASSUME \A i \in DOMAIN ring : ring[i].type = "snapshot" => ~ (ring[i].seq > n)
                   PROVE  FALSE
        BY Zenon
      <4>1. Len(R) = seq - n
        BY <1>9, <1>11, Zenon
      <4>2. seq - n > ReplayBudget
        BY <1>11, Zenon DEF Resyncs
      <4> QED
        BY <4>1, <4>2, <1>11, Zenon
    <3>2. i >= a /\ i \in 1 .. L /\ (i = 1 \/ (i = 2 /\ ring[1].type = "gap"))
      BY <3>1, <1>4, <1>5, <1>8, Zenon
    <3>3. PICK j : j = (i + 1) - a
      BY Zenon
    <3>4. j \in DOMAIN X /\ (j + a) - 1 = i /\ j \in Nat
      BY ONLY <3>2, <3>3, <2>1, <1>4, <1>5, a \in 1 .. (L + 1)
    <3>5. X[j].type = "snapshot"
      BY <3>1, <3>4, <2>1, <1>4, Zenon
    <3>6. ASSUME NEW k \in DOMAIN X, k < j PROVE ~ Durable(X[k])
      <4>1. k \in 1 .. ((L + 1) - a)
        BY <2>1, <1>4, Zenon
      <4>2. (k + a) - 1 = 1 /\ i = 2
        BY ONLY <3>2, <3>3, <3>6, <4>1, <1>5, a \in 1 .. (L + 1)
      <4>4. ring[1].type = "gap"
        BY <4>2, <3>2
      <4>3. X[k].type = "gap"
        BY <4>2, <4>4, <2>1, <1>4, Zenon
      <4> QED
        BY <4>3, Zenon DEF Durable
    <3> QED
      BY <3>4, <3>5, <3>6, Zenon
  <2>7. Stretch(X, n, seq)
    <3>1. X \in Seq(Frame) /\ DOMAIN X = 1 .. ((L + 1) - a)
      BY <2>1, <1>4, Zenon
    <3>2. ASSUME NEW j \in DOMAIN X PROVE n <= X[j].seq /\ X[j].seq <= seq /\ X[j].seq \in Nat
      <4>1. (j + a) - 1 \in DOMAIN ring /\ X[j] = ring[(j + a) - 1] /\ j \in 1 .. ((L + 1) - a)
        BY <3>1, <2>1, <1>4, Zenon
      <4>2. (j + a) - 1 >= a
        BY ONLY <4>1, <1>5, a \in 1 .. (L + 1)
      <4>3. X[j].seq > n /\ X[j].seq <= seq /\ X[j].seq \in Nat
        BY <4>1, <4>2, <1>4, <1>6, Zenon
      <4> QED
        BY ONLY <4>3, n \in Nat
    <3>3. ASSUME NEW j \in DOMAIN X, X[j].type = "gap"
          PROVE  /\ j + 1 \in DOMAIN X /\ X[j + 1].type = "snapshot"
                 /\ \A k \in DOMAIN X : k < j => ~ Moves(X[k])
      <4>1. a = 1 /\ j = 1 /\ 2 <= L /\ ring[2].type = "snapshot"
        BY <3>3, <2>3, Zenon
      <4>2. j + 1 = 2 /\ \A k \in DOMAIN X : ~ (k < j)
        BY <4>1, <3>1
      <4> QED
        BY <4>1, <4>2, <2>4, Zenon
    <3>4. ASSUME NEW i \in DOMAIN X, NEW j \in DOMAIN X, i < j, Moves(X[i]), X[j].type = "snapshot"
          PROVE  X[i].seq <= X[j].seq
      <4>1. /\ (j + a) - 1 \in DOMAIN ring /\ X[j] = ring[(j + a) - 1] /\ j \in 1 .. ((L + 1) - a)
            /\ (i + a) - 1 \in DOMAIN ring /\ X[i] = ring[(i + a) - 1] /\ i \in 1 .. ((L + 1) - a)
        BY <3>1, <2>1, <1>4, Zenon
      <4>2. /\ X[i].seq = seq - L + ((i + a) - 1) /\ X[j].seq = seq - L + ((j + a) - 1)
        BY <3>4, <4>1, <1>8 DEF Moves
      <4> QED
        BY ONLY <4>1, <4>2, <3>4, <1>1, <1>5, a \in 1 .. (L + 1), SMTT(30)
    <3>5. ASSUME NEW j \in DOMAIN X, Durable(X[j])
          PROVE  \/ X[j].seq <= n + 1
                 \/ \E k \in DOMAIN X : k < j /\ Moves(X[k]) /\ X[j].seq <= X[k].seq + 1
      <4>1. /\ (j + a) - 1 \in DOMAIN ring /\ X[j] = ring[(j + a) - 1] /\ j \in 1 .. ((L + 1) - a)
        BY <3>1, <2>1, <1>4, Zenon
      <4>2. X[j].type \notin {"gap", "snapshot"}
        BY <3>5, Zenon DEF Durable
      <4>3. CASE j = 1
        <5>1. a <= L /\ X[j] = ring[a]
          BY <4>1, <4>3, <1>5
        <5>2. X[j].seq = n + 1
          BY <5>1, <4>2, <1>6, <1>11, Zenon
        <5> QED
          BY <5>2
      <4>4. CASE j # 1
        <5>1. PICK k : k = j - 1
          BY Zenon
        <5>2. k \in DOMAIN X /\ k < j /\ k \in 1 .. ((L + 1) - a) /\ j = k + 1
          BY ONLY <5>1, <4>1, <4>4, <3>1, <1>5, a \in 1 .. (L + 1)
        <5>3. (k + a) - 1 \in DOMAIN ring /\ X[k] = ring[(k + a) - 1]
          BY <5>2, <2>1, <1>4, Zenon
        <5>4. X[k].type # "gap"
          <6> SUFFICES ASSUME X[k].type = "gap" PROVE FALSE
            BY Zenon
          <6>1. X[k + 1].type = "snapshot"
            BY <5>2, <3>3, Zenon
          <6> QED
            BY <6>1, <5>2, <4>2, Zenon
        <5>5. Moves(X[k])
          BY <5>3, <5>4, <1>8 DEF Moves
        <5>6. X[k].seq = seq - L + ((k + a) - 1) /\ X[j].seq = seq - L + ((j + a) - 1)
          <6>1. X[k].seq = seq - L + ((k + a) - 1)
            BY <5>3, <5>4, <1>8, Zenon
          <6>2. X[j].seq = seq - L + ((j + a) - 1)
            BY <4>1, <4>2, <1>8, Zenon
          <6> QED
            BY ONLY <6>1, <6>2
        <5>7. X[j].seq <= X[k].seq + 1
          BY ONLY <5>6, <5>2, <1>1, <1>5, a \in 1 .. (L + 1)
        <5> QED
          BY <5>2, <5>5, <5>7, Zenon
      <4> QED
        BY <4>3, <4>4, Zenon
    <3>6. ASSUME n # seq PROVE \E j \in DOMAIN X : Moves(X[j]) /\ X[j].seq = seq
      <4>1. a <= L
        BY <3>6, <1>6, <1>11, Zenon
      <4>2. PICK j : j = (L + 1) - a
        BY Zenon
      <4>3. j \in DOMAIN X /\ (j + a) - 1 = L /\ L \in DOMAIN ring
        BY ONLY <4>1, <4>2, <3>1, <1>5, a \in 1 .. (L + 1)
      <4>4. X[j] = ring[L]
        BY <4>3, <2>1, <1>4, Zenon
      <4>5. ring[L].type # "gap"
        BY <4>3, <1>5, <1>8
      <4>6. Moves(X[j]) /\ X[j].seq = seq - L + L
        BY <4>3, <4>4, <4>5, <1>8 DEF Moves
      <4>7. seq - L + L = seq
        BY ONLY <1>1, <1>5
      <4> QED
        BY <4>3, <4>6, <4>7, Zenon
    <3> QED
      BY <3>1, <3>2, <3>3, <3>4, <3>5, <3>6, Zenon DEF Stretch
  <2> QED
    BY <2>2, <2>5, <2>6, <2>7, Zenon
<1> QED
  BY <1>10, <1>11, Zenon

\* A snapshot of which no durable frame of s is in front.
SnapshotFirst(s) == \E j \in DOMAIN s : s[j].type = "snapshot" /\ \A i \in DOMAIN s : i < j => ~ Durable(s[i])

\* Y takes a client from n to m as X does, and has a response.
Answers(Y, X, n, m) ==
  /\ Stretch(Y, n, m)
  /\ SnapshotFirst(X) => SnapshotFirst(Y)
  /\ \A j \in DOMAIN Y : Y[j].type = "gap" => \E i \in DOMAIN X : X[i].type = "gap"
  /\ \E j \in DOMAIN Y : Y[j].type = "response"

\* A response in front changes nothing else.
LEMMA ResponseStretch ==
  ASSUME NEW n \in Nat, NEW m \in Nat, NEW X, Stretch(X, n, m),
         NEW r \in Frame, r.type = "response", n <= r.seq, r.seq <= m,
         NEW Y, Y = <<r>> \o X
  PROVE  Answers(Y, X, n, m)
<1>1. PICK o : o = 1
  BY Zenon
<1>2. X \in Seq(Frame) /\ <<r>> \in Seq(Frame) /\ Len(<<r>>) = 1
  BY DEF Stretch
<1>3. DOMAIN X = 1 .. Len(X) /\ Len(X) \in Nat
  BY <1>2, LenProperties, Zenon
<1>4. Y \in Seq(Frame) /\ DOMAIN Y = 1 .. (1 + Len(X)) /\ Y[1] = r /\ \A j \in DOMAIN X : Y[1 + j] = X[j]
  BY <1>2, <1>3
<1>5. \A j \in DOMAIN X : o + j \in DOMAIN Y /\ o < o + j
  BY <1>1, <1>3, <1>4
<1>20. Y \in Seq(Frame) /\ Y[o] = r /\ \A j \in DOMAIN X : Y[o + j] = X[j]
  BY <1>1, <1>4, Zenon
<1>6. \A i \in DOMAIN Y : i = o \/ \E j \in DOMAIN X : i = o + j
  <2> SUFFICES ASSUME NEW i \in DOMAIN Y, i # o PROVE \E j \in DOMAIN X : i = o + j
    BY Zenon
  <2>1. i - o \in DOMAIN X /\ i = o + (i - o)
    BY <1>1, <1>3, <1>4
  <2> QED
    BY <2>1, Zenon
<1>7. \A i, j \in DOMAIN X : o + i < o + j <=> i < j
  BY <1>1, <1>3
<1>8. ~ Moves(Y[o]) /\ ~ Durable(Y[o]) /\ Y[o].type = "response" /\ Y[o].seq = r.seq
  BY <1>1, <1>4, Zenon DEF Moves, Durable
<1>9. \A j \in DOMAIN X : ~ (o + j < o) /\ o + j # o
  BY <1>1, <1>3
<1>10. \A j \in DOMAIN X : n <= X[j].seq /\ X[j].seq <= m
  BY Zenon DEF Stretch
<1>21. \A j \in DOMAIN X : X[j].type = "gap" =>
         /\ j + 1 \in DOMAIN X /\ X[j + 1].type = "snapshot"
         /\ \A k \in DOMAIN X : k < j => ~ Moves(X[k])
  BY Zenon DEF Stretch
<1>22. \A i, j \in DOMAIN X : i < j /\ Moves(X[i]) /\ X[j].type = "snapshot" => X[i].seq <= X[j].seq
  BY Zenon DEF Stretch
<1>23. \A j \in DOMAIN X : Durable(X[j]) =>
         \/ X[j].seq <= n + 1
         \/ \E k \in DOMAIN X : k < j /\ Moves(X[k]) /\ X[j].seq <= X[k].seq + 1
  BY Zenon DEF Stretch
<1>24. n = m \/ \E j \in DOMAIN X : Moves(X[j]) /\ X[j].seq = m
  BY Zenon DEF Stretch
<1>11. \A j \in DOMAIN Y : n <= Y[j].seq /\ Y[j].seq <= m
  <2> SUFFICES ASSUME NEW j \in DOMAIN Y PROVE n <= Y[j].seq /\ Y[j].seq <= m
    BY Zenon
  <2>1. CASE j = o
    BY <2>1, <1>8, Zenon
  <2>2. ASSUME NEW i \in DOMAIN X, j = o + i PROVE n <= Y[j].seq /\ Y[j].seq <= m
    <3>1. Y[j] = X[i]
      BY ONLY <1>20, <2>2, i \in DOMAIN X, Zenon
    <3> QED
      BY ONLY <3>1, <1>10, i \in DOMAIN X, Zenon
  <2> QED
    BY ONLY <2>1, <2>2, <1>6, j \in DOMAIN Y, Zenon
<1>12. \A j \in DOMAIN Y : Y[j].type # "gap" \/ \E i \in DOMAIN X : j = o + i /\ X[i].type = "gap"
  <2>1. Y[o].type # "gap"
    BY ONLY <1>8
  <2> QED
    BY ONLY <2>1, <1>20, <1>6, Zenon
<1>13. ASSUME NEW j \in DOMAIN Y, Y[j].type = "gap"
       PROVE  /\ j + 1 \in DOMAIN Y /\ Y[j + 1].type = "snapshot"
              /\ \A k \in DOMAIN Y : k < j => ~ Moves(Y[k])
  <2>1. PICK i \in DOMAIN X : j = o + i /\ X[i].type = "gap"
    BY <1>12, <1>13, Zenon
  <2>2. i + 1 \in DOMAIN X /\ X[i + 1].type = "snapshot" /\ j + 1 = o + (i + 1)
    BY <2>1, <1>1, <1>3, <1>21
  <2>3. j + 1 \in DOMAIN Y /\ Y[j + 1].type = "snapshot"
    BY ONLY <2>2, <1>20, <1>5, Zenon
  <2>4. \A k \in DOMAIN Y : k < j => ~ Moves(Y[k])
    <3> SUFFICES ASSUME NEW k \in DOMAIN Y, k < j, Moves(Y[k]) PROVE FALSE
      BY Zenon
    <3>1. PICK l \in DOMAIN X : k = o + l
      BY ONLY <1>6, <1>8, k \in DOMAIN Y, Moves(Y[k]), Zenon
    <3>2. l < i
      BY ONLY <3>1, <2>1, <1>7, k < j, Zenon
    <3>3. Y[k] = X[l]
      BY ONLY <3>1, <1>20, Zenon
    <3> QED
      BY ONLY <3>2, <3>3, <2>1, <1>21, l \in DOMAIN X, Moves(Y[k]), Zenon
  <2> QED
    BY <2>3, <2>4, Zenon
<1>14. ASSUME NEW i \in DOMAIN Y, NEW j \in DOMAIN Y, i < j, Moves(Y[i]), Y[j].type = "snapshot"
       PROVE  Y[i].seq <= Y[j].seq
  <2>1. Y[o].type # "snapshot"
    BY ONLY <1>8
  <2>2. PICK k \in DOMAIN X : i = o + k
    BY ONLY <1>6, <1>8, <1>14, Zenon
  <2>3. PICK l \in DOMAIN X : j = o + l
    BY ONLY <2>1, <1>6, <1>14, Zenon
  <2>4. Y[i] = X[k] /\ Y[j] = X[l]
    BY ONLY <2>2, <2>3, <1>20, Zenon
  <2>5. k < l
    BY ONLY <2>2, <2>3, <1>7, <1>14, Zenon
  <2> QED
    BY ONLY <2>2, <2>3, <2>4, <2>5, <1>14, <1>22, Zenon
<1>15. ASSUME NEW j \in DOMAIN Y, Durable(Y[j])
       PROVE  \/ Y[j].seq <= n + 1
              \/ \E k \in DOMAIN Y : k < j /\ Moves(Y[k]) /\ Y[j].seq <= Y[k].seq + 1
  <2>1. PICK i \in DOMAIN X : j = o + i
    BY ONLY <1>6, <1>8, <1>15, Zenon
  <2>2. Y[j] = X[i]
    BY ONLY <2>1, <1>20, Zenon
  <2>3. ASSUME NEW l \in DOMAIN X, l < i, Moves(X[l]), X[i].seq <= X[l].seq + 1
        PROVE  \E k \in DOMAIN Y : k < j /\ Moves(Y[k]) /\ Y[j].seq <= Y[k].seq + 1
    <3>1. o + l \in DOMAIN Y /\ o + l < j /\ Y[o + l] = X[l]
      BY ONLY <2>1, <2>3, <1>5, <1>7, <1>20, Zenon
    <3> QED
      BY ONLY <3>1, <2>2, <2>3, Zenon
  <2> QED
    BY ONLY <2>1, <2>2, <2>3, <1>15, <1>23, Zenon
<1>16. n = m \/ \E j \in DOMAIN Y : Moves(Y[j]) /\ Y[j].seq = m
  <2>1. ASSUME NEW i \in DOMAIN X, Moves(X[i]), X[i].seq = m
        PROVE  \E j \in DOMAIN Y : Moves(Y[j]) /\ Y[j].seq = m
    <3>1. o + i \in DOMAIN Y /\ Y[o + i] = X[i]
      BY ONLY <2>1, <1>5, <1>20, Zenon
    <3> QED
      BY ONLY <3>1, <2>1, Zenon
  <2> QED
    BY ONLY <2>1, <1>24, Zenon
<1>17. Stretch(Y, n, m)
  BY ONLY <1>20, <1>11, <1>13, <1>14, <1>15, <1>16, Zenon DEF Stretch
<1>18. SnapshotFirst(X) => SnapshotFirst(Y)
  <2> SUFFICES ASSUME NEW l \in DOMAIN X, X[l].type = "snapshot", \A i \in DOMAIN X : i < l => ~ Durable(X[i])
               PROVE  \E j \in DOMAIN Y : Y[j].type = "snapshot" /\ \A i \in DOMAIN Y : i < j => ~ Durable(Y[i])
    BY Zenon DEF SnapshotFirst
  <2>1. o + l \in DOMAIN Y /\ Y[o + l] = X[l]
    BY <1>5, <1>20, Zenon
  <2>2. ASSUME NEW i \in DOMAIN Y, i < o + l, Durable(Y[i]) PROVE FALSE
    <3>1. PICK k \in DOMAIN X : i = o + k
      BY ONLY <2>2, <1>6, <1>8, Zenon
    <3>2. k < l /\ Y[i] = X[k]
      BY ONLY <3>1, <2>2, <1>7, <1>20, l \in DOMAIN X, Zenon
    <3> QED
      BY <3>1, <3>2, <2>2, Zenon
  <2> QED
    BY <2>1, <2>2, Zenon
<1>25. \E j \in DOMAIN Y : Y[j].type = "response"
  <2>1. o \in DOMAIN Y
    BY ONLY <1>1, <1>3, <1>4
  <2> QED
    BY ONLY <2>1, <1>8, Zenon
<1>19. \A j \in DOMAIN Y : Y[j].type = "gap" => \E i \in DOMAIN X : X[i].type = "gap"
  BY <1>12, Zenon
<1> QED
  BY <1>17, <1>18, <1>19, <1>25, Zenon DEF Answers

\* The answer to an attach without a cursor, or with one of the host's epoch.
LEMMA AttachStretch ==
  ASSUME StreamInv, RingOK, NEW c, NEW n \in Nat, n <= seq, c = None \/ c = <<epoch, n>>
  PROVE  /\ Stretch(AttachOutput(c), n, seq)
         /\ c = None \/ Resyncs(ring, seq, n) => SnapshotFirst(AttachOutput(c))
         /\ \A j \in DOMAIN AttachOutput(c) : AttachOutput(c)[j].type = "gap" => c # None /\ Resyncs(ring, seq, n)
         /\ \E j \in DOMAIN AttachOutput(c) : AttachOutput(c)[j].type = "response"
<1> DEFINE r == MakeFrame("response", epoch, seq, <<>>)
           f == Snapshot(epoch, seq, entries)
           X == IF c = None THEN <<f>> ELSE Replay(c)
<1>1. seq \in Nat /\ epoch \in Nat /\ entries \in Seq(Entry)
  BY Zenon DEF StreamInv, TypeOK
<1>2. r \in Frame /\ r.type = "response" /\ r.seq = seq
  BY <1>1 DEF MakeFrame, Frame, FrameTypes
<1>3. f \in Frame /\ f.type = "snapshot" /\ f.seq = seq
  BY <1>1, Zenon DEF Snapshot, MakeFrame, Frame, FrameTypes
<1>4. AttachOutput(c) = <<r>> \o X \o Replay(<<epoch, seq>>)
  BY Zenon DEF AttachOutput
<1>5. Replay(<<epoch, seq>>) = <<>>
  <2>1. seq <= seq
    BY <1>1
  <2> QED
    BY <2>1, <1>1, ReplayStretch, Zenon
<1> HIDE DEF r, f
<1>8. PICK Y : Y = <<r>> \o X
  BY Zenon
<1>6. CASE c = None
  <2>1. X = <<f>>
    BY <1>6, Zenon
  <2> HIDE DEF X
  <2>2. X \in Seq(Frame) /\ DOMAIN X = {1} /\ X[1] = f
    BY <2>1, <1>3
  <2>3. Moves(f) /\ ~ Durable(f) /\ f.type # "gap" /\ f.seq <= seq /\ n <= f.seq
    BY <1>1, <1>3 DEF Moves, Durable
  <2>4. \A i, j \in {1} : ~ (i < j)
    OBVIOUS
  <2>5. Stretch(X, n, seq) /\ SnapshotFirst(X)
    BY <2>2, <2>3, <2>4, <1>3, Zenon DEF Stretch, SnapshotFirst
  <2>6. \A i \in DOMAIN X : X[i].type # "gap"
    BY <2>2, <2>3, Zenon
  <2>7. r.seq <= seq /\ n <= r.seq
    BY <1>1, <1>2
  <2>8. /\ Stretch(Y, n, seq) /\ SnapshotFirst(Y)
        /\ \A j \in DOMAIN Y : Y[j].type = "gap" => \E i \in DOMAIN X : X[i].type = "gap"
        /\ \E j \in DOMAIN Y : Y[j].type = "response"
    <3>1. Stretch(X, n, seq) /\ seq \in Nat
      BY <2>5, <1>1, Zenon
    <3>2. Answers(Y, X, n, seq)
      BY ONLY <3>1, <2>7, <1>2, <1>8, n \in Nat, ResponseStretch, Zenon
    <3> QED
      BY <3>2, <2>5, Zenon DEF Answers
  <2>9. AttachOutput(c) = Y
    BY <1>8, <1>2, <1>4, <1>5, <2>2
  <2> QED
    BY <2>6, <2>8, <2>9, Zenon
<1>7. CASE c # None
  <2>1. c = <<epoch, n>> /\ X = Replay(<<epoch, n>>)
    BY <1>7, Zenon
  <2> HIDE DEF X
  <2>2. /\ Stretch(X, n, seq)
        /\ Resyncs(ring, seq, n) =>
             \E j \in DOMAIN X : X[j].type = "snapshot" /\ \A i \in DOMAIN X : i < j => ~ Durable(X[i])
        /\ \A j \in DOMAIN X : X[j].type = "gap" => Resyncs(ring, seq, n)
    BY <2>1, ReplayStretch, Zenon
  <2>3. Resyncs(ring, seq, n) => SnapshotFirst(X)
    BY <2>2, Zenon DEF SnapshotFirst
  <2>7. r.seq <= seq /\ n <= r.seq
    BY <1>1, <1>2
  <2>8. /\ Stretch(Y, n, seq) /\ (SnapshotFirst(X) => SnapshotFirst(Y))
        /\ \A j \in DOMAIN Y : Y[j].type = "gap" => \E i \in DOMAIN X : X[i].type = "gap"
        /\ \E j \in DOMAIN Y : Y[j].type = "response"
    <3>1. Stretch(X, n, seq) /\ seq \in Nat
      BY <2>2, <1>1, Zenon
    <3>2. Answers(Y, X, n, seq)
      BY ONLY <3>1, <2>7, <1>2, <1>8, n \in Nat, ResponseStretch, Zenon
    <3> QED
      BY <3>2, Zenon DEF Answers
  <2>9. X \in Seq(Frame)
    BY <2>2, Zenon DEF Stretch
  <2>10. AttachOutput(c) = Y
    BY <1>8, <1>2, <1>4, <1>5, <2>9
  <2> QED
    BY <1>7, <2>2, <2>3, <2>8, <2>10, Zenon
<1> QED
  BY <1>6, <1>7, Zenon

-----------------------------------------------------------------------------
(* Steps of the host *)

\* A replay that brings a snapshot is from a cursor behind the host's, and so
\* is one from any earlier cursor.
LEMMA ResyncsBehind ==
  ASSUME StreamInv, RingOK, NEW m \in Int, Resyncs(ring, seq, m)
  PROVE  m < seq /\ \A l \in Int : l <= m => Resyncs(ring, seq, l)
<1>1. /\ ring \in Seq(Frame) /\ seq \in Nat /\ ReplayBudget \in Nat
  BY BudgetAssumption, Zenon DEF StreamInv, TypeOK
<1>2. PICK L : L = Len(ring)
  BY Zenon
<1>3. L \in Nat /\ DOMAIN ring = 1 .. L /\ \A i \in DOMAIN ring : ring[i].seq \in Nat
  BY <1>1, <1>2, LenProperties, FrameSeq, Zenon
<1>4. ASSUME NEW i \in DOMAIN ring PROVE ring[i].seq <= seq
  <2>1. /\ i \in 1 .. L
        /\ ring[i].type = "gap" => L >= 2
        /\ ring[i].seq = seq - L + (IF ring[i].type = "gap" THEN 2 ELSE i)
    BY <1>2, <1>3, Zenon DEF RingOK
  <2>2. L \in Nat
    BY <1>3, Zenon
  <2>3. CASE ring[i].type = "gap"
    BY ONLY <2>1, <2>2, <2>3, <1>1
  <2>4. CASE ring[i].type # "gap"
    BY ONLY <2>1, <2>2, <2>4, <1>1
  <2> QED
    BY <2>3, <2>4, Zenon
<1>5. Oldest(ring, seq) \in Nat /\ Oldest(ring, seq) <= seq + 1
  <2>1. CASE ring = <<>>
    BY <2>1, <1>1 DEF Oldest
  <2>2. CASE ring # <<>>
    <3>1. 1 \in DOMAIN ring
      BY <2>2, <1>1, <1>2, <1>3, EmptySeq
    <3>2. Oldest(ring, seq) = ring[1].seq /\ ring[1].seq \in Nat /\ ring[1].seq <= seq
      BY <3>1, <2>2, <1>3, <1>4, Zenon DEF Oldest
    <3> QED
      BY ONLY <3>2, <1>1
  <2> QED
    BY <2>1, <2>2, Zenon
<1>6. CASE m < Oldest(ring, seq) - 1
  <2>1. m < seq
    BY ONLY <1>5, <1>6, <1>1, m \in Int
  <2>2. \A l \in Int : l <= m => l < Oldest(ring, seq) - 1
    BY ONLY <1>5, <1>6, m \in Int
  <2> QED
    BY <2>1, <2>2, Zenon DEF Resyncs
<1>7. ASSUME NEW i \in DOMAIN ring, ring[i].type = "snapshot", ring[i].seq > m
      PROVE  m < seq /\ \A l \in Int : l <= m => Resyncs(ring, seq, l)
  <2>1. ring[i].seq \in Nat /\ ring[i].seq <= seq
    BY <1>3, <1>4, Zenon
  <2>2. m < seq /\ \A l \in Int : l <= m => ring[i].seq > l
    BY ONLY <2>1, <1>7, <1>1, m \in Int
  <2> QED
    BY <2>2, <1>7, Zenon DEF Resyncs
<1>8. CASE seq - m > ReplayBudget
  <2>1. m < seq /\ \A l \in Int : l <= m => seq - l > ReplayBudget
    BY ONLY <1>8, <1>1, m \in Int
  <2> QED
    BY <2>1, Zenon DEF Resyncs
<1> QED
  BY <1>6, <1>7, <1>8, Zenon DEF Resyncs

\* Nothing attached: the projection moves on and the connection does not.
LEMMA ProjectionUnseen ==
  ASSUME StreamInv, SyncInv, ~ hostAttached, RingOK', seq' \in Nat, seq <= seq',
         epoch' = epoch, UNCHANGED <<socket, hostAttached, toClient, toHost, clientVars>>,
         \A m \in Int : m <= seq /\ Resyncs(ring, seq, m) => Resyncs(ring', seq', m)
  PROVE  SyncInv'
<1>1. /\ socket' = socket /\ hostAttached' = hostAttached /\ toClient' = toClient /\ toHost' = toHost
      /\ link' = link /\ cursor' = cursor /\ desynced' = desynced /\ epochValue' = epochValue
      /\ attached' = attached
  BY Zenon DEF clientVars
<1>2. seq \in Nat /\ toClient \in Seq(Frame)
  BY Zenon DEF StreamInv, TypeOK
<1>3. \A m \in Int : Resyncs(ring, seq, m) => Resyncs(ring', seq', m)
  <2> SUFFICES ASSUME NEW m \in Int, Resyncs(ring, seq, m) PROVE Resyncs(ring', seq', m)
    BY Zenon
  <2>1. m < seq
    BY ResyncsBehind, Zenon DEF SyncInv
  <2>2. m <= seq
    BY ONLY <2>1, <1>2, m \in Int
  <2> QED
    BY <2>2, Zenon
<1>4. EpochBehind' /\ OneAttach' /\ GapPairs' /\ SnapshotsAhead' /\ NoHole'
  <2>1. EpochBehind'
    BY <1>1, Zenon DEF SyncInv, EpochBehind
  <2>2. OneAttach'
    BY <1>1 DEF SyncInv, OneAttach
  <2>3. GapPairs' /\ SnapshotsAhead'
    BY <1>1, Zenon DEF SyncInv, GapPairs, SnapshotsAhead
  <2>4. NoHole'
    BY <1>1, Zenon DEF SyncInv, NoHole
  <2> QED
    BY <2>1, <2>2, <2>3, <2>4, Zenon
<1>5. NotAhead'
  <2> SUFFICES ASSUME socket, NEW i \in DOMAIN toClient PROVE toClient[i].seq <= seq'
    BY <1>1 DEF NotAhead
  <2>1. toClient[i].seq \in Nat /\ toClient[i].seq <= seq
    BY <1>2, FrameSeq, Zenon DEF SyncInv, NotAhead
  <2> QED
    BY ONLY <2>1, <1>2, seq' \in Nat, seq <= seq'
<1>6. DesyncResyncs'
  <2> SUFFICES ASSUME desynced, cursor # None, cursor[1] = epoch PROVE Resyncs(ring', seq', cursor[2])
    BY <1>1, Zenon DEF DesyncResyncs
  <2>1. cursor[2] \in Int
    BY CursorBehind
  <2> QED
    BY <2>1, <1>3, Zenon DEF SyncInv, DesyncResyncs
<1>7. GapResyncs'
  <2> SUFFICES ASSUME link = "ready", epochValue = epoch, NEW i \in DOMAIN toClient, toClient[i].type = "gap"
               PROVE  \/ /\ cursor # None /\ Resyncs(ring', seq', cursor[2])
                         /\ \A k \in DOMAIN toClient : k < i => ~ Moves(toClient[k])
                      \/ /\ Resyncs(ring', seq', toClient[i].seq - 1)
                         /\ (cursor # None => cursor[2] < toClient[i].seq)
                         /\ \A k \in DOMAIN toClient : k < i /\ Moves(toClient[k]) => toClient[k].seq < toClient[i].seq
    BY <1>1, Zenon DEF GapResyncs
  <2>1. cursor # None => cursor[2] \in Int
    BY CursorBehind
  <2>2. toClient[i].seq - 1 \in Int
    <3>1. toClient[i].seq \in Nat
      BY <1>2, FrameSeq, Zenon
    <3> QED
      BY ONLY <3>1
  <2> QED
    BY <2>1, <2>2, <1>3, Zenon DEF SyncInv, GapResyncs
<1>8. ReachesHead' /\ GapAnswered'
  BY <1>1 DEF ReachesHead, GapAnswered
<1> QED
  BY <1>4, <1>5, <1>6, <1>7, <1>8, Zenon DEF SyncInv

\* The projection moves on and broadcasts the frames that lead there.
LEMMA ProjectionSync ==
  ASSUME StreamInv, SyncInv, NEW out, Stretch(out, seq, seq'), Broadcast(out), RingOK',
         seq' \in Nat, seq <= seq', epoch' = epoch,
         UNCHANGED <<socket, hostAttached, toHost, clientVars>>,
         \A m \in Int : m <= seq /\ Resyncs(ring, seq, m) => Resyncs(ring', seq', m),
         \A j \in DOMAIN out : out[j].type = "gap" =>
           out[j].seq > seq /\ Resyncs(ring', seq', out[j].seq - 1)
  PROVE  SyncInv'
<1>1. CASE ~ hostAttached
  <2>1. toClient' = toClient
    BY <1>1, Zenon DEF Broadcast
  <2> QED
    BY <2>1, <1>1, ProjectionUnseen, Zenon
<1>2. CASE hostAttached
  <2>1. /\ socket' = socket /\ hostAttached' = hostAttached /\ toHost' = toHost
        /\ link' = link /\ cursor' = cursor /\ desynced' = desynced /\ epochValue' = epochValue
        /\ attached' = attached
    BY Zenon DEF clientVars
  <2>2. toClient' = toClient \o out
    BY <1>2, Zenon DEF Broadcast
  <2>3. link = "ready" /\ socket /\ epochValue = epoch
    BY <1>2, Zenon DEF StreamInv, ConnectionOK, TypeOK
  <2>4. PICK n : n = seq
    BY Zenon
  <2>5. n \in Nat
    BY <2>4, Zenon DEF StreamInv, TypeOK
  <2>6. \A i \in DOMAIN toClient : toClient[i].seq <= n
    BY <2>3, <2>4, Zenon DEF SyncInv, NotAhead
  <2>7. cursor # None => cursor[2] <= n
    <3>1. cursor # None => cursor[1] = epoch
      BY <2>3, Zenon DEF StreamInv, CopyOK
    <3> QED
      BY <3>1, <2>4, CursorBehind, Zenon
  <2>8. \/ ~ desynced /\ cursor = <<epoch, n>>
        \/ \E k \in DOMAIN toClient : Moves(toClient[k]) /\ toClient[k].seq = n
    BY <1>2, <2>4, Zenon DEF SyncInv, ReachesHead
  <2>9. \A j \in DOMAIN out : out[j].type = "gap" => Resyncs(ring', seq', out[j].seq - 1) /\ out[j].seq > n
    BY <2>4, Zenon
  <2>10. Stretch(out, n, seq') /\ hostAttached' = TRUE
    BY <1>2, <2>1, <2>4, Zenon DEF StreamInv, TypeOK
  <2>11. UNCHANGED <<epoch, socket, clientVars>>
    OBVIOUS
  <2>12. GapPairs' /\ SnapshotsAhead' /\ NotAhead' /\ NoHole' /\ ReachesHead'
         /\ DesyncResyncs' /\ GapResyncs' /\ GapAnswered'
    BY <1>2, <2>2, <2>3, <2>5, <2>6, <2>7, <2>8, <2>9, <2>10, <2>11, StretchSent, Zenon
  <2>13. EpochBehind'
    BY <2>1, Zenon DEF SyncInv, EpochBehind
  <2>14. OneAttach'
    <3>1. \A i \in DOMAIN toClient : i \in DOMAIN toClient' /\ toClient'[i] = toClient[i]
      <4>1. toClient \in Seq(Frame) /\ out \in Seq(Frame)
        BY Zenon DEF StreamInv, TypeOK, Stretch
      <4>2. \A i \in DOMAIN toClient : i \in DOMAIN (toClient \o out) /\ (toClient \o out)[i] = toClient[i]
        BY ONLY <4>1, Joined, ZenonT(30)
      <4> QED
        BY ONLY <4>2, <2>2, Zenon
    <3> QED
      BY <3>1, <2>1, <2>3, <1>2, Zenon DEF SyncInv, OneAttach
  <2> QED
    BY <2>12, <2>13, <2>14, Zenon DEF SyncInv
<1> QED
  BY <1>1, <1>2, Zenon

\* One durable frame, appended to the ring.
LEMMA AppendRing ==
  ASSUME StreamInv, RingOK, NEW f \in Frame, Durable(f), f.seq = seq + 1,
         seq' = seq + 1, ring' = Trim(Append(ring, f))
  PROVE  RingOK' /\ \A m \in Int : m <= seq /\ Resyncs(ring, seq, m) => Resyncs(ring', seq', m)
<1>1. PICK frames : frames = <<f>>
  BY Zenon
<1>2. seq \in Nat /\ ring \in Seq(Frame)
  BY Zenon DEF StreamInv, TypeOK
<1>3. /\ frames \in Seq(Frame) /\ Len(frames) = 1
      /\ \A j \in 1 .. 1 : Durable(frames[j]) /\ frames[j].seq = seq + j
  BY <1>1, <1>2
<1>4. ring' = Trim(ring \o frames)
  <2>1. Append(ring, f) = ring \o frames
    BY <1>1, <1>2, AppendProperties
  <2> QED
    BY <2>1, Zenon
<1>5. 1 \in Nat \ {0}
  OBVIOUS
<1> QED
  BY <1>3, <1>4, <1>5, RingGrows, Zenon

\* ... and broadcast.
LEMMA AppendFrameSync ==
  ASSUME StreamInv, SyncInv, NEW f \in Frame, Durable(f), f.seq = seq + 1,
         seq' = seq + 1, epoch' = epoch, ring' = Trim(Append(ring, f)), Broadcast(<<f>>),
         UNCHANGED <<socket, hostAttached, toHost, clientVars>>
  PROVE  SyncInv'
<1>1. PICK frames : frames = <<f>>
  BY Zenon
<1>2. seq \in Nat
  BY Zenon DEF StreamInv, TypeOK
<1>3. /\ frames \in Seq(Frame) /\ Len(frames) = 1
      /\ \A j \in 1 .. 1 : Durable(frames[j]) /\ frames[j].seq = seq + j
  BY <1>1, <1>2
<1>5. 1 \in Nat \ {0} /\ RingOK
  BY DEF SyncInv
<1>6. RingOK' /\ \A m \in Int : m <= seq /\ Resyncs(ring, seq, m) => Resyncs(ring', seq', m)
  BY <1>5, AppendRing, Zenon
<1>7. Stretch(frames, seq, seq + 1) /\ \A j \in DOMAIN frames : frames[j].type # "gap"
  BY <1>2, <1>3, <1>5, DurableStretch, Zenon
<1>8. Stretch(frames, seq, seq') /\ seq' \in Nat /\ seq <= seq' /\ Broadcast(frames)
  BY <1>1, <1>2, <1>7
<1> QED
  BY <1>6, <1>7, <1>8, ProjectionSync, Zenon

\* A gap and a snapshot at a later cursor, which also restart the ring.
LEMMA RebaseSync ==
  ASSUME StreamInv, SyncInv, NEW n \in Nat, seq < n, NEW es \in Seq(Entry),
         seq' = n, epoch' = epoch, ring' = Trim(GapAndSnapshot(epoch, n, es)),
         Broadcast(GapAndSnapshot(epoch, n, es)),
         UNCHANGED <<socket, hostAttached, toHost, clientVars>>
  PROVE  SyncInv'
<1>1. PICK out : out = GapAndSnapshot(epoch, n, es)
  BY Zenon
<1>2. seq \in Nat /\ epoch \in Nat
  BY Zenon DEF StreamInv, TypeOK
<1>3. RingOK' /\ \A m \in Int : m < n => Resyncs(ring', seq', m)
  BY <1>2, RingReset, Zenon
<1>4. seq <= n
  BY ONLY <1>2, seq < n, n \in Nat
<1>5. Stretch(out, seq, n) /\ \A j \in DOMAIN out : out[j].type = "gap" => out[j].seq = n
  <2>1. Stretch(out, seq, n)
    BY ONLY <1>1, <1>2, <1>4, n \in Nat, es \in Seq(Entry), SnapshotStretch, Zenon
  <2>2. DOMAIN out = 1 .. 2 /\ out[1].seq = n /\ out[2].seq = n
    BY ONLY <1>1, <1>2, n \in Nat, es \in Seq(Entry), GapAndSnapshotFacts
  <2>3. \A j \in DOMAIN out : j = 1 \/ j = 2
    BY ONLY <2>2
  <2> QED
    BY ONLY <2>1, <2>2, <2>3, Zenon
<1>6. \A m \in Int : m <= seq /\ Resyncs(ring, seq, m) => Resyncs(ring', seq', m)
  <2>1. \A m \in Int : m <= seq => m < n
    BY ONLY <1>2, seq < n, n \in Nat
  <2> QED
    BY <2>1, <1>3, Zenon
<1>7. \A j \in DOMAIN out : out[j].type = "gap" => out[j].seq > seq /\ Resyncs(ring', seq', out[j].seq - 1)
  <2>1. n > seq /\ n - 1 \in Int /\ n - 1 < n
    BY ONLY <1>2, seq < n, n \in Nat
  <2> QED
    BY <2>1, <1>3, <1>5, Zenon
<1>8. Stretch(out, seq, seq') /\ seq' \in Nat /\ seq <= seq' /\ Broadcast(out)
  BY <1>1, <1>4, <1>5, Zenon
<1> QED
  BY <1>3, <1>6, <1>7, <1>8, ProjectionSync, Zenon

\* An entry appended to the transcript.
LEMMA AppendEntrySync ==
  ASSUME StreamInv, SyncInv, NEW x \in Entry, AppendEntry(x)
  PROVE  SyncInv'
<1> DEFINE f == MakeFrame("entry", epoch, seq + 1, <<x>>)
<1>1. epoch \in Nat /\ seq + 1 \in Nat /\ <<x>> \in Seq(Entry) /\ "entry" \in FrameTypes
  BY DEF StreamInv, TypeOK, FrameTypes
<1>2. f \in Frame /\ f.type = "entry" /\ f.seq = seq + 1
  BY <1>1, Zenon DEF MakeFrame, Frame
<1>3. /\ seq' = seq + 1 /\ epoch' = epoch /\ ring' = Trim(Append(ring, f)) /\ Broadcast(<<f>>)
      /\ UNCHANGED <<socket, hostAttached, toHost, clientVars>>
  BY Zenon DEF AppendEntry
<1> HIDE DEF f
<1>4. Durable(f)
  BY <1>2, Zenon DEF Durable
<1> QED
  BY <1>2, <1>3, <1>4, AppendFrameSync, Zenon

\* An event, which leaves the transcript alone.
LEMMA AppendEventSync ==
  ASSUME StreamInv, SyncInv, AppendEvent
  PROVE  SyncInv'
<1> DEFINE f == MakeFrame("event", epoch, seq + 1, <<>>)
<1>1. epoch \in Nat /\ seq + 1 \in Nat /\ "event" \in FrameTypes
  BY DEF StreamInv, TypeOK, FrameTypes
<1>2. f \in Frame /\ f.type = "event" /\ f.seq = seq + 1
  BY <1>1 DEF MakeFrame, Frame
<1>3. /\ seq' = seq + 1 /\ epoch' = epoch /\ ring' = Trim(Append(ring, f)) /\ Broadcast(<<f>>)
      /\ UNCHANGED <<socket, hostAttached, toHost, clientVars>>
  BY Zenon DEF AppendEvent
<1> HIDE DEF f
<1>4. Durable(f)
  BY <1>2, Zenon DEF Durable
<1> QED
  BY <1>2, <1>3, <1>4, AppendFrameSync, Zenon

\* What a step may leave of a connection the host has closed.
LEMMA ClosedSync ==
  ASSUME StreamInv, SyncInv, socket' = FALSE, hostAttached' = FALSE, toHost' = <<>>,
         UNCHANGED <<toClient, clientVars>>, RingOK', EpochBehind', DesyncResyncs', GapResyncs'
  PROVE  SyncInv'
<1>1. /\ toClient' = toClient /\ link' = link /\ cursor' = cursor /\ desynced' = desynced
  BY Zenon DEF clientVars
<1>2. DOMAIN <<>> = {} /\ Len(<<>>) <= 1
  OBVIOUS
<1>3. OneAttach'
  BY <1>2, Zenon DEF OneAttach
<1>4. GapPairs' /\ SnapshotsAhead'
  BY <1>1, Zenon DEF SyncInv, GapPairs, SnapshotsAhead
<1>5. NoHole'
  BY <1>1, Zenon DEF SyncInv, NoHole
<1>6. NotAhead' /\ ReachesHead' /\ GapAnswered'
  BY Zenon DEF NotAhead, ReachesHead, GapAnswered
<1> QED
  BY <1>3, <1>4, <1>5, <1>6, Zenon DEF SyncInv

\* The host closes the connection.
LEMMA HostDropSync ==
  ASSUME StreamInv, SyncInv, HostDrop
  PROVE  SyncInv'
<1>1. /\ socket' = FALSE /\ hostAttached' = FALSE /\ toHost' = <<>>
      /\ UNCHANGED <<toClient, clientVars>>
      /\ epoch' = epoch /\ seq' = seq /\ ring' = ring /\ toClient' = toClient /\ link' = link
      /\ cursor' = cursor /\ desynced' = desynced /\ epochValue' = epochValue
  BY Zenon DEF HostDrop, hostVars, clientVars
<1>2. RingOK' /\ EpochBehind' /\ GapResyncs'
  BY <1>1, Zenon DEF SyncInv, RingOK, EpochBehind, GapResyncs
<1>3. DesyncResyncs'
  BY <1>1, Zenon DEF SyncInv, DesyncResyncs
<1> QED
  BY <1>1, <1>2, <1>3, ClosedSync, Zenon

\* A new host process: no cursor of the client is of its epoch.
LEMMA HostRestartSync ==
  ASSUME StreamInv, SyncInv, HostRestart
  PROVE  SyncInv'
<1>1. /\ socket' = FALSE /\ hostAttached' = FALSE /\ toHost' = <<>>
      /\ UNCHANGED <<toClient, clientVars>>
      /\ epoch' = epoch + 1 /\ ring' = <<>> /\ toClient' = toClient /\ link' = link
      /\ cursor' = cursor /\ desynced' = desynced /\ epochValue' = epochValue
  BY Zenon DEF HostRestart, clientVars
<1>2. epoch \in Nat /\ epochValue \in Nat \cup {None}
  BY Zenon DEF StreamInv, TypeOK
<1>3. epochValue # None => epochValue \in Nat /\ epochValue <= epoch
  BY <1>2, Zenon DEF SyncInv, EpochBehind
<1>4. epochValue # None => epochValue <= epoch + 1 /\ epochValue # epoch + 1
  BY ONLY <1>2, <1>3
<1>5. epoch + 1 # None
  BY <1>2, NoneAssumption
<1>6. EpochBehind'
  BY <1>1, <1>4, Zenon DEF EpochBehind
<1>7. GapResyncs'
  BY <1>1, <1>4, <1>5, Zenon DEF GapResyncs
<1>8. cursor # None => cursor[1] # epoch + 1
  <2>1. cursor # None => cursor[1] \in Nat /\ cursor[1] <= epoch
    BY CursorBehind, Zenon
  <2> QED
    BY ONLY <2>1, <1>2
<1>9. DesyncResyncs'
  BY <1>1, <1>8, Zenon DEF DesyncResyncs
<1>10. RingOK'
  <2>1. DOMAIN <<>> = {}
    OBVIOUS
  <2> QED
    BY <2>1, <1>1, Zenon DEF RingOK
<1> QED
  BY <1>1, <1>6, <1>7, <1>9, <1>10, ClosedSync, Zenon

\* The host answers the attach of the connection: the client is where its
\* cursor is, or gets a snapshot.
LEMMA HostAttachSync ==
  ASSUME StreamInv, SyncInv, HostAttach
  PROVE  SyncInv'
<1>1. PICK i \in DOMAIN toHost :
        /\ toClient' = toClient \o AttachOutput(toHost[i])
        /\ toHost' = SubSeq(toHost, 1, i - 1) \o SubSeq(toHost, i + 1, Len(toHost))
  BY Zenon DEF HostAttach
<1>2. /\ socket /\ hostAttached' = TRUE /\ UNCHANGED <<epoch, socket, clientVars>>
      /\ epoch' = epoch /\ seq' = seq /\ ring' = ring /\ link' = link /\ cursor' = cursor
      /\ desynced' = desynced /\ epochValue' = epochValue
  BY Zenon DEF HostAttach, hostVars, clientVars
<1>3. toHost # <<>> /\ toHost \in Seq(Cursor \cup {None}) /\ seq \in Nat /\ toClient \in Seq(Frame)
  BY <1>1 DEF StreamInv, TypeOK
<1>4. link = "ready" /\ epochValue = epoch
  BY <1>2, <1>3, Zenon DEF StreamInv, TypeOK, ConnectionOK
<1>5. ~ hostAttached /\ toClient = <<>> /\ Len(toHost) <= 1 /\ toHost[i] \in {None, cursor}
  BY <1>1, <1>2, <1>3, <1>4, Zenon DEF SyncInv, OneAttach
<1>6. toHost' = <<>>
  <2>4. Len(toHost) \in Nat /\ DOMAIN toHost = 1 .. Len(toHost)
    BY <1>3, LenProperties, Zenon
  <2>1. i = 1 /\ Len(toHost) = 1
    BY ONLY i \in DOMAIN toHost, <2>4, <1>5
  <2>2. SubSeq(toHost, 1, 0) = <<>> /\ SubSeq(toHost, 2, 1) = <<>>
    BY <1>3
  <2>3. i - 1 = 0 /\ i + 1 = 2
    BY <2>1
  <2> QED
    BY <2>1, <2>2, <2>3, <1>1
<1>7. PICK c : c = toHost[i]
  BY Zenon
<1>8. cursor # None => /\ cursor = <<epoch, cursor[2]>> /\ cursor[2] \in Nat /\ cursor[2] <= seq
  <2>1. cursor # None => cursor[1] = epoch
    BY <1>4, Zenon DEF StreamInv, CopyOK
  <2> QED
    BY <2>1, CursorBehind, Zenon
<1>9. PICK n \in Nat : n <= seq /\ (cursor # None => cursor[2] = n /\ cursor = <<epoch, n>>)
  <2>1. CASE cursor = None
    <3>1. 0 \in Nat /\ 0 <= seq
      BY <1>3
    <3> QED
      BY <3>1, <2>1, Zenon
  <2>2. CASE cursor # None
    BY <2>2, <1>8, Zenon
  <2> QED
    BY <2>1, <2>2, Zenon
<1>10. c = None \/ (c # None /\ cursor # None /\ c = <<epoch, n>>)
  BY <1>5, <1>7, <1>9, Zenon
<1>11. PICK out : out = AttachOutput(c)
  BY Zenon
<1>12. RingOK
  BY Zenon DEF SyncInv
<1>13. /\ Stretch(out, n, seq)
       /\ c = None \/ Resyncs(ring, seq, n) => SnapshotFirst(out)
       /\ \A j \in DOMAIN out : out[j].type = "gap" => c # None /\ Resyncs(ring, seq, n)
       /\ \E j \in DOMAIN out : out[j].type = "response"
  <2>1. c = None \/ c = <<epoch, n>>
    BY <1>10, Zenon
  <2>2. /\ Stretch(AttachOutput(c), n, seq)
        /\ c = None \/ Resyncs(ring, seq, n) => SnapshotFirst(AttachOutput(c))
        /\ \A j \in DOMAIN AttachOutput(c) : AttachOutput(c)[j].type = "gap" => c # None /\ Resyncs(ring, seq, n)
        /\ \E j \in DOMAIN AttachOutput(c) : AttachOutput(c)[j].type = "response"
    BY <2>1, <1>9, <1>12, AttachStretch, Zenon
  <2> QED
    BY ONLY <2>2, <1>11, Zenon
<1>14. toClient' = toClient \o out
  BY <1>1, <1>7, <1>11, Zenon
<1>15. DOMAIN toClient = {} /\ out \in Seq(Frame)
  BY <1>5, <1>13 DEF Stretch
<1>16. SnapshotFirst(out) \/ (~ desynced /\ cursor = <<epoch, n>>)
  <2>1. CASE c = None
    BY <2>1, <1>13, Zenon
  <2>2. CASE c # None
    <3>1. cursor # None /\ cursor = <<epoch, n>> /\ cursor[2] = n /\ cursor[1] = epoch
      BY <2>2, <1>4, <1>9, <1>10, Zenon DEF StreamInv, CopyOK
    <3>2. desynced => Resyncs(ring, seq, n)
      BY <3>1, Zenon DEF SyncInv, DesyncResyncs
    <3> QED
      BY <3>1, <3>2, <1>13, Zenon
  <2> QED
    BY <2>1, <2>2, Zenon
<1>17. \/ ~ desynced /\ cursor = <<epoch, n>>
       \/ \E k \in DOMAIN toClient : Moves(toClient[k]) /\ toClient[k].seq = n
       \/ \E j \in DOMAIN out : out[j].type = "snapshot" /\ \A h \in DOMAIN out : h < j => ~ Durable(out[h])
  BY <1>16, Zenon DEF SnapshotFirst
<1>18. desynced => hostAttached \/ \E j \in DOMAIN out : out[j].type = "snapshot"
  BY <1>16, Zenon DEF SnapshotFirst
<1>19. \A j \in DOMAIN out : out[j].type = "gap" =>
         \/ Resyncs(ring', seq', n) /\ toClient = <<>> /\ cursor # None /\ cursor[2] = n
         \/ Resyncs(ring', seq', out[j].seq - 1) /\ out[j].seq > n
  BY <1>2, <1>5, <1>9, <1>10, <1>13, Zenon
<1>20. /\ \A m \in Int : m <= seq /\ Resyncs(ring, seq, m) => Resyncs(ring', seq', m)
       /\ \A k \in DOMAIN toClient : toClient[k].seq <= n
       /\ Stretch(out, n, seq')
  BY <1>2, <1>13, <1>15, Zenon
<1>21. seq' \in Nat /\ seq <= seq' /\ (cursor # None => cursor[2] <= n)
  BY <1>2, <1>3, <1>9
<1>22. GapPairs' /\ SnapshotsAhead' /\ NotAhead' /\ NoHole' /\ ReachesHead'
       /\ DesyncResyncs' /\ GapResyncs' /\ GapAnswered'
  BY ONLY StreamInv, SyncInv, n \in Nat, <1>2, <1>4, <1>14, <1>17, <1>18, <1>19, <1>20, <1>21, StretchSent, Zenon
<1>23. RingOK' /\ EpochBehind'
  BY <1>2, Zenon DEF SyncInv, RingOK, EpochBehind
<1>24. OneAttach'
  <2>1. toClient' = out
    BY <1>5, <1>14, <1>15
  <2>2. DOMAIN <<>> = {} /\ Len(<<>>) <= 1
    OBVIOUS
  <2> QED
    BY <2>1, <2>2, <1>2, <1>6, <1>13, Zenon DEF OneAttach
<1> QED
  BY <1>22, <1>23, <1>24, Zenon DEF SyncInv

-----------------------------------------------------------------------------
(* Steps of the client *)

\* A new connection carries its welcome only.
LEMMA ConnectSync ==
  ASSUME StreamInv, SyncInv, Connect
  PROVE  SyncInv'
<1>1. PICK f : f = MakeFrame("welcome", epoch, 0, <<>>)
  BY Zenon
<1>2. /\ link' = "handshaking" /\ hostAttached' = FALSE /\ toClient' = <<f>>
      /\ epoch' = epoch /\ seq' = seq /\ ring' = ring /\ cursor' = cursor /\ desynced' = desynced
      /\ epochValue' = epochValue
  BY <1>1, Zenon DEF Connect, hostVars
<1>3. f.type = "welcome" /\ f.seq = 0
  BY <1>1, Zenon DEF MakeFrame
<1>4. DOMAIN toClient' = {1} /\ toClient'[1] = f /\ link' # "ready"
  BY <1>2
<1>5. RingOK' /\ EpochBehind'
  BY <1>2, Zenon DEF SyncInv, RingOK, EpochBehind
<1>6. OneAttach' /\ NoHole' /\ GapResyncs'
  BY <1>4, Zenon DEF OneAttach, NoHole, GapResyncs
<1>7. GapPairs' /\ SnapshotsAhead'
  BY <1>3, <1>4, Zenon DEF GapPairs, SnapshotsAhead
<1>8. NotAhead'
  BY <1>2, <1>3, <1>4 DEF NotAhead, StreamInv, TypeOK
<1>9. ReachesHead' /\ GapAnswered'
  BY <1>2, Zenon DEF ReachesHead, GapAnswered
<1>10. DesyncResyncs'
  BY <1>2, Zenon DEF SyncInv, DesyncResyncs
<1> QED
  BY <1>5, <1>6, <1>7, <1>8, <1>9, <1>10, Zenon DEF SyncInv

\* With nothing in flight and nothing attached only the ring, the epochs and
\* what a desynced client gets next matter.
LEMMA EmptySync ==
  ASSUME RingOK', EpochBehind', OneAttach', DesyncResyncs', toClient' = <<>>, hostAttached' = FALSE
  PROVE  SyncInv'
<1>1. DOMAIN toClient' = {}
  OBVIOUS
<1>2. GapPairs' /\ SnapshotsAhead' /\ NotAhead'
  BY <1>1, Zenon DEF GapPairs, SnapshotsAhead, NotAhead
<1>3. NoHole' /\ GapResyncs'
  BY <1>1, Zenon DEF NoHole, GapResyncs
<1>4. ReachesHead' /\ GapAnswered'
  BY Zenon DEF ReachesHead, GapAnswered
<1> QED
  BY <1>2, <1>3, <1>4, Zenon DEF SyncInv

\* The client loses the connection, and with it all that was in flight.
LEMMA DisconnectSync ==
  ASSUME StreamInv, SyncInv, Disconnect
  PROVE  SyncInv'
<1>1. /\ link' = "down" /\ hostAttached' = FALSE /\ toClient' = <<>>
      /\ epoch' = epoch /\ seq' = seq /\ ring' = ring /\ cursor' = cursor /\ desynced' = desynced
      /\ epochValue' = epochValue
  BY Zenon DEF Disconnect, hostVars
<1>2. RingOK' /\ EpochBehind'
  BY <1>1, Zenon DEF SyncInv, RingOK, EpochBehind
<1>3. DesyncResyncs'
  BY <1>1, Zenon DEF SyncInv, DesyncResyncs
<1>4. OneAttach'
  <2>1. link' # "ready"
    BY <1>1, Zenon
  <2> QED
    BY <2>1, Zenon DEF OneAttach
<1> QED
  BY <1>1, <1>2, <1>3, <1>4, EmptySync, Zenon

\* The first attach of a connection is sent when none is under way.
LEMMA AttachSync ==
  ASSUME StreamInv, SyncInv, Attach
  PROVE  SyncInv'
<1>1. /\ link = "ready" /\ ~ attached /\ toHost = <<>>
      /\ \A i \in DOMAIN toClient : toClient[i].type # "response"
      /\ toHost' = IF socket THEN Append(toHost, None) ELSE toHost
  BY Zenon DEF Attach, Post
<1>2. /\ epoch' = epoch /\ seq' = seq /\ ring' = ring /\ cursor' = cursor /\ desynced' = desynced
      /\ epochValue' = epochValue /\ toClient' = toClient /\ link' = link
      /\ socket' = socket /\ hostAttached' = hostAttached /\ attached' = attached
  BY Zenon DEF Attach, hostVars, clientVars
<1>3. ~ hostAttached
  BY <1>1, Zenon DEF SyncInv, OneAttach
<1>4. OneAttach'
  <2>1. CASE ~ socket
    BY <2>1, <1>1, <1>2, Zenon DEF SyncInv, OneAttach
  <2>2. CASE socket
    <3>1. toHost' = <<None>>
      BY <2>2, <1>1
    <3>2. Len(toHost') <= 1 /\ \A i \in DOMAIN toHost' : toHost'[i] = None
      BY <3>1
    <3>3. toClient = <<>>
      BY <2>2, <1>1, <1>3, Zenon DEF SyncInv, OneAttach
    <3> QED
      BY <2>2, <3>2, <3>3, <1>2, <1>3, Zenon DEF OneAttach
  <2> QED
    BY <2>1, <2>2, Zenon
<1>5. RingOK' /\ EpochBehind' /\ GapPairs' /\ SnapshotsAhead' /\ GapResyncs'
  BY <1>2, Zenon DEF SyncInv, RingOK, EpochBehind, GapPairs, SnapshotsAhead, GapResyncs
<1>6. NotAhead' /\ DesyncResyncs'
  BY <1>2, Zenon DEF SyncInv, NotAhead, DesyncResyncs
<1>7. NoHole'
  BY <1>2, Zenon DEF SyncInv, NoHole
<1>8. ReachesHead' /\ GapAnswered'
  BY <1>2, <1>3, Zenon DEF ReachesHead, GapAnswered
<1> QED
  BY <1>4, <1>5, <1>6, <1>7, <1>8, Zenon DEF SyncInv

\* A welcome is alone on its connection; the client attaches where it was.
LEMMA HandleWelcomeSync ==
  ASSUME StreamInv, SyncInv, HandleWelcome
  PROVE  SyncInv'
<1> DEFINE f == Head(toClient)
           newEpoch == epochValue # None /\ epochValue # f.epoch
           forget == newEpoch /\ cursor # None /\ cursor[1] # f.epoch
<1>1. /\ link = "handshaking" /\ toClient # <<>> /\ toClient' = Tail(toClient)
      /\ cursor' = (IF forget THEN None ELSE cursor)
      /\ desynced' = (desynced /\ ~ newEpoch)
      /\ epochValue' = f.epoch /\ link' = "ready"
      /\ IF attached THEN Post(cursor') ELSE UNCHANGED toHost
  BY Zenon DEF HandleWelcome, Receive
<1>2. /\ epoch' = epoch /\ seq' = seq /\ ring' = ring
      /\ socket' = socket /\ hostAttached' = hostAttached
  BY Zenon DEF HandleWelcome, Receive, hostVars
<1>3. /\ ~ hostAttached /\ toHost = <<>> /\ Len(toClient) = 1 /\ toClient[1].epoch <= epoch
      /\ toClient \in Seq(Frame)
  BY <1>1, Zenon DEF StreamInv, ConnectionOK, TypeOK
<1>4. toClient' = <<>> /\ f = toClient[1]
  BY <1>1, <1>3
<1>5. EpochBehind'
  BY <1>1, <1>2, <1>3, <1>4, Zenon DEF EpochBehind
<1>6. RingOK'
  BY <1>2, Zenon DEF SyncInv, RingOK
<1>7. DesyncResyncs'
  <2>1. cursor' # None => cursor' = cursor
    BY <1>1, Zenon
  <2>2. desynced' => desynced
    BY <1>1, Zenon
  <2> QED
    BY <2>1, <2>2, <1>2, Zenon DEF SyncInv, DesyncResyncs
<1>8. OneAttach'
  <2>1. toHost' = <<>> \/ (socket /\ toHost' = <<cursor'>>)
    BY <1>1, <1>3 DEF Post
  <2>2. Len(toHost') <= 1 /\ \A i \in DOMAIN toHost' : toHost'[i] = cursor'
    BY <2>1
  <2> QED
    BY <2>1, <2>2, <1>2, <1>3, <1>4, Zenon DEF OneAttach
<1>9. hostAttached' = FALSE
  BY <1>2, <1>3, Zenon DEF StreamInv, TypeOK
<1> QED
  BY <1>4, <1>5, <1>6, <1>7, <1>8, <1>9, EmptySync, Zenon

\* A client at the host's cursor has a cursor.
LEMMA CursorPair ==
  ASSUME StreamInv, cursor = <<epoch, seq>>
  PROVE  cursor # None /\ cursor[2] = seq
<1>1. epoch \in Nat /\ seq \in Nat
  BY Zenon DEF StreamInv, TypeOK
<1> QED
  BY <1>1, NoneAssumption

-----------------------------------------------------------------------------
(* The client handles a frame *)

\* A sequence without its first element.
LEMMA Beheaded ==
  ASSUME NEW S, NEW s \in Seq(S), s # <<>>
  PROVE  /\ Tail(s) \in Seq(S) /\ s[1] \in S
         /\ Len(s) \in Nat /\ DOMAIN s = 1 .. Len(s) /\ 1 \in DOMAIN s
         /\ DOMAIN Tail(s) = 1 .. (Len(s) - 1)
         /\ \A i \in DOMAIN Tail(s) : Tail(s)[i] = s[i + 1]
<1>1. Len(s) \in Nat \ {0} /\ DOMAIN s = 1 .. Len(s)
  BY EmptySeq, LenProperties, Zenon
<1>2. Tail(s) \in Seq(S) /\ Len(Tail(s)) = Len(s) - 1
      /\ \A i \in 1 .. Len(Tail(s)) : Tail(s)[i] = s[i + 1]
  BY HeadTailProperties, Zenon
<1>3. DOMAIN Tail(s) = 1 .. Len(Tail(s))
  BY <1>2, LenProperties, Zenon
<1>4. s[1] \in S
  BY <1>1, ElementOfSeq
<1> QED
  BY <1>1, <1>2, <1>3, <1>4

\* T is W without its first frame.
Shifted(W, T) ==
  /\ 1 \in DOMAIN W
  /\ \A i \in DOMAIN T : i + 1 \in DOMAIN W /\ T[i] = W[i + 1] /\ 1 < i + 1
  /\ \A k \in DOMAIN W : k = 1 \/ \E l \in DOMAIN T : k = l + 1
  /\ \A i, l \in DOMAIN T : l + 1 < i + 1 <=> l < i

\* The client handles the first frame f of a ready connection.
Handles(f) ==
  /\ link = "ready" /\ toClient # <<>> /\ f = toClient[1] /\ toClient' = Tail(toClient)
  /\ UNCHANGED <<hostVars, socket, hostAttached, toHost, link, epochValue>>
  /\ attached' = attached \/ (attached' /\ f.type = "response")
  /\ f.type = "response" => attached'

\* What a handler finds and leaves alone.
LEMMA HandledFacts ==
  ASSUME StreamInv, SyncInv, NEW f, Handles(f)
  PROVE  /\ Shifted(toClient, toClient') /\ f = toClient[1] /\ f.seq \in Nat /\ f.epoch = epochValue
         /\ \A i \in DOMAIN toClient : toClient[i].seq \in Nat
         /\ link' = link /\ link = "ready" /\ epoch' = epoch /\ seq' = seq /\ ring' = ring
         /\ hostAttached' = hostAttached /\ epochValue' = epochValue /\ socket' = socket /\ toHost' = toHost
         /\ seq \in Nat
<1>1. /\ link = "ready" /\ toClient # <<>> /\ f = toClient[1] /\ toClient' = Tail(toClient)
      /\ link' = link /\ epoch' = epoch /\ seq' = seq /\ ring' = ring
      /\ hostAttached' = hostAttached /\ epochValue' = epochValue /\ socket' = socket /\ toHost' = toHost
  BY Zenon DEF Handles, hostVars
<1>2. toClient \in Seq(Frame) /\ seq \in Nat
  BY Zenon DEF StreamInv, TypeOK
<1>3. /\ Len(toClient) \in Nat /\ DOMAIN toClient = 1 .. Len(toClient) /\ 1 \in DOMAIN toClient
      /\ DOMAIN toClient' = 1 .. (Len(toClient) - 1)
      /\ \A i \in DOMAIN toClient' : toClient'[i] = toClient[i + 1]
  BY <1>1, <1>2, Beheaded, Zenon
<1>4. \A i \in DOMAIN toClient : toClient[i].seq \in Nat
  BY <1>2, FrameSeq, Zenon
<1>5. f.epoch = epochValue
  <2>1. toClient \in Seq(GoodFrames(hist, epochValue))
    BY <1>1, Zenon DEF StreamInv, FramesOK
  <2>2. toClient[1] \in GoodFrames(hist, epochValue)
    BY <2>1, <1>1, Beheaded, Zenon
  <2> QED
    BY <2>2, <1>1, Zenon DEF GoodFrames
<1>6. /\ \A i \in DOMAIN toClient' : i + 1 \in DOMAIN toClient /\ 1 < i + 1
      /\ \A i, l \in DOMAIN toClient' : l + 1 < i + 1 <=> l < i
  BY ONLY <1>3
<1>7. \A k \in DOMAIN toClient : k = 1 \/ \E l \in DOMAIN toClient' : k = l + 1
  <2> SUFFICES ASSUME NEW k \in DOMAIN toClient, k # 1 PROVE \E l \in DOMAIN toClient' : k = l + 1
    BY Zenon
  <2>1. k - 1 \in DOMAIN toClient' /\ k = (k - 1) + 1
    BY ONLY <1>3, k \in DOMAIN toClient, k # 1
  <2> QED
    BY <2>1, Zenon
<1>8. Shifted(toClient, toClient')
  BY <1>3, <1>6, <1>7, Zenon DEF Shifted
<1> QED
  BY <1>1, <1>2, <1>3, <1>4, <1>5, <1>8, Zenon

\* What does not depend on the frame.
LEMMA HandledSync ==
  ASSUME StreamInv, SyncInv, NEW f, Handles(f)
  PROVE  RingOK' /\ EpochBehind' /\ OneAttach' /\ GapPairs' /\ NotAhead'
<1> DEFINE W == toClient
           T == toClient'
<1>1. /\ Shifted(W, T) /\ f = W[1]
      /\ link' = link /\ link = "ready" /\ epoch' = epoch /\ seq' = seq /\ ring' = ring
      /\ hostAttached' = hostAttached /\ epochValue' = epochValue /\ socket' = socket /\ toHost' = toHost
  BY HandledFacts, Zenon
<1>2. RingOK' /\ EpochBehind'
  BY <1>1, Zenon DEF SyncInv, RingOK, EpochBehind
<1>3. /\ \A i \in DOMAIN T : i + 1 \in DOMAIN W /\ T[i] = W[i + 1]
      /\ \A k \in DOMAIN W : k = 1 \/ \E l \in DOMAIN T : k = l + 1
  BY <1>1, Zenon DEF Shifted
<1>4. NotAhead'
  <2> SUFFICES ASSUME socket, NEW i \in DOMAIN T PROVE T[i].seq <= seq
    BY <1>1, Zenon DEF NotAhead
  <2>1. i + 1 \in DOMAIN W /\ T[i] = W[i + 1]
    BY <1>3, Zenon
  <2> QED
    BY <2>1, Zenon DEF SyncInv, NotAhead
<1>5. GapPairs'
  <2> SUFFICES ASSUME NEW i \in DOMAIN T, T[i].type = "gap"
               PROVE  i + 1 \in DOMAIN T /\ T[i + 1].type = "snapshot"
    BY Zenon DEF GapPairs
  <2>1. i + 1 \in DOMAIN W /\ W[i + 1].type = "gap"
    BY <1>3, Zenon
  <2>2. (i + 1) + 1 \in DOMAIN W /\ W[(i + 1) + 1].type = "snapshot"
    BY <2>1, Zenon DEF SyncInv, GapPairs
  <2>3. i + 1 \in DOMAIN T
    <3>1. /\ W \in Seq(Frame) /\ W # <<>> /\ T = Tail(W)
      BY Zenon DEF StreamInv, TypeOK, Handles
    <3>2. Len(W) \in Nat /\ DOMAIN W = 1 .. Len(W) /\ DOMAIN T = 1 .. (Len(W) - 1)
      BY ONLY <3>1, Beheaded, Zenon
    <3> QED
      BY ONLY <3>2, <2>2, i \in DOMAIN T
  <2> QED
    BY <2>2, <2>3, <1>3, Zenon
<1>6. OneAttach'
  <2>1. W # <<>>
    BY Zenon DEF Handles
  <2>2. ~ (socket /\ ~ hostAttached)
    BY <2>1, <1>1, Zenon DEF SyncInv, OneAttach
  <2>3. toHost = <<>>
    BY <2>2, <1>1, Zenon DEF SyncInv, OneAttach
  <2>4. ASSUME hostAttached PROVE attached' \/ \E i \in DOMAIN T : T[i].type = "response"
    <3>1. attached \/ \E i \in DOMAIN W : W[i].type = "response"
      BY <2>4, <1>1, Zenon DEF SyncInv, OneAttach
    <3>2. attached => attached'
      BY Zenon DEF Handles
    <3>3. W[1].type = "response" => attached'
      BY <1>1, Zenon DEF Handles
    <3>4. ASSUME NEW i \in DOMAIN W, W[i].type = "response", i # 1
          PROVE  \E j \in DOMAIN T : T[j].type = "response"
      <4>1. PICK l \in DOMAIN T : i = l + 1
        BY ONLY <3>4, <1>3, Zenon
      <4>2. T[l] = W[i]
        BY ONLY <4>1, <1>3, Zenon
      <4> QED
        BY ONLY <4>1, <4>2, <3>4, Zenon
    <3> QED
      BY <3>1, <3>2, <3>3, <3>4, Zenon
  <2>5. DOMAIN <<>> = {} /\ Len(<<>>) <= 1
    OBVIOUS
  <2>6. ~ (socket' /\ ~ hostAttached') /\ toHost' = <<>>
    BY <2>2, <2>3, <1>1, Zenon
  <2>7. hostAttached' => attached' \/ \E i \in DOMAIN T : T[i].type = "response"
    BY <2>4, <1>1, Zenon
  <2> QED
    BY <2>5, <2>6, <2>7, Zenon DEF OneAttach
<1> QED
  BY <1>2, <1>4, <1>5, <1>6, Zenon

\* Whether or not the frame moves the cursor, no snapshot behind it is older.
LEMMA HandledSnapshots ==
  ASSUME StreamInv, SyncInv, NEW f, Handles(f),
         cursor' = cursor \/ (Moves(f) /\ cursor' = CursorOf(f))
  PROVE  SnapshotsAhead'
<1> DEFINE W == toClient
           T == toClient'
<1>1. Shifted(W, T) /\ f = W[1] /\ link' = link
  BY HandledFacts, Zenon
<1>2. /\ 1 \in DOMAIN W
      /\ \A i \in DOMAIN T : i + 1 \in DOMAIN W /\ T[i] = W[i + 1] /\ 1 < i + 1
      /\ \A i, l \in DOMAIN T : l + 1 < i + 1 <=> l < i
  BY <1>1, Zenon DEF Shifted
<1>3. \A j \in DOMAIN W : W[j].type = "snapshot" =>
        /\ \A i \in DOMAIN W : i < j /\ Moves(W[i]) => W[i].seq <= W[j].seq
        /\ link = "ready" /\ cursor # None => cursor[2] <= W[j].seq
  BY Zenon DEF SyncInv, SnapshotsAhead
<1>4. CursorOf(f)[2] = f.seq
  BY Zenon DEF CursorOf
<1> SUFFICES ASSUME NEW j \in DOMAIN T, T[j].type = "snapshot"
             PROVE  /\ \A i \in DOMAIN T : i < j /\ Moves(T[i]) => T[i].seq <= T[j].seq
                    /\ link = "ready" /\ cursor' # None => cursor'[2] <= T[j].seq
  BY <1>1, Zenon DEF SnapshotsAhead
<1>5. j + 1 \in DOMAIN W /\ T[j] = W[j + 1] /\ 1 < j + 1
  BY <1>2, Zenon
<1>6. ASSUME NEW i \in DOMAIN T, i < j, Moves(T[i]) PROVE T[i].seq <= T[j].seq
  <2>1. i + 1 \in DOMAIN W /\ T[i] = W[i + 1] /\ i + 1 < j + 1
    BY ONLY <1>2, <1>6, j \in DOMAIN T, Zenon
  <2> QED
    BY ONLY <2>1, <1>3, <1>5, <1>6, T[j].type = "snapshot", Zenon
<1>7. ASSUME link = "ready", cursor' # None PROVE cursor'[2] <= T[j].seq
  <2>1. CASE cursor' = cursor
    BY <2>1, <1>3, <1>5, <1>7, Zenon
  <2>2. CASE Moves(f) /\ cursor' = CursorOf(f)
    <3>1. W[1].seq <= W[j + 1].seq
      BY <2>2, <1>1, <1>2, <1>3, <1>5, Zenon
    <3> QED
      BY <3>1, <2>2, <1>1, <1>4, <1>5, Zenon
  <2> QED
    BY <2>1, <2>2, Zenon
<1> QED
  BY <1>6, <1>7, Zenon

\* A frame that is neither a gap nor moves anything.
LEMMA ResponseSync ==
  ASSUME StreamInv, SyncInv, NEW f, Handles(f), ~ Moves(f), f.type # "gap",
         cursor' = cursor, desynced' = desynced
  PROVE  SyncInv'
<1> DEFINE W == toClient
           T == toClient'
<1>1. /\ Shifted(W, T) /\ f = W[1] /\ link' = link /\ link = "ready" /\ epoch' = epoch
      /\ seq' = seq /\ ring' = ring /\ hostAttached' = hostAttached /\ epochValue' = epochValue
  BY HandledFacts, Zenon
<1>2. RingOK' /\ EpochBehind' /\ OneAttach' /\ GapPairs' /\ NotAhead' /\ SnapshotsAhead'
  BY HandledSync, HandledSnapshots, Zenon
<1>3. /\ 1 \in DOMAIN W
      /\ \A i \in DOMAIN T : i + 1 \in DOMAIN W /\ T[i] = W[i + 1] /\ 1 < i + 1
      /\ \A k \in DOMAIN W : k = 1 \/ \E l \in DOMAIN T : k = l + 1
      /\ \A i, l \in DOMAIN T : l + 1 < i + 1 <=> l < i
  BY <1>1, Zenon DEF Shifted
<1>4. ASSUME NEW k \in DOMAIN W, Moves(W[k]) \/ W[k].type = "snapshot"
      PROVE  \E l \in DOMAIN T : k = l + 1 /\ T[l] = W[k]
  <2>1. k # 1
    BY <1>1, <1>4, Zenon DEF Moves
  <2>2. PICK l \in DOMAIN T : k = l + 1
    BY ONLY <2>1, <1>3, k \in DOMAIN W, Zenon
  <2> QED
    BY ONLY <2>2, <1>3, Zenon
<1>5. NoHole'
  <2> SUFFICES ASSUME NEW i \in DOMAIN T, Durable(T[i])
               PROVE  \/ ~ desynced /\ cursor # None /\ T[i].seq <= cursor[2] + 1
                      \/ desynced /\ \A k \in DOMAIN T : k < i => T[k].type # "snapshot"
                      \/ \E k \in DOMAIN T : k < i /\ Moves(T[k]) /\ T[i].seq <= T[k].seq + 1
    BY Zenon DEF NoHole
  <2>1. i + 1 \in DOMAIN W /\ T[i] = W[i + 1]
    BY <1>3, Zenon
  <2>2. \/ ~ desynced /\ cursor # None /\ W[i + 1].seq <= cursor[2] + 1
        \/ desynced /\ \A k \in DOMAIN W : k < i + 1 => W[k].type # "snapshot"
        \/ \E k \in DOMAIN W : k < i + 1 /\ Moves(W[k]) /\ W[i + 1].seq <= W[k].seq + 1
    BY <2>1, <1>1, Zenon DEF SyncInv, NoHole
  <2>3. ASSUME \A k \in DOMAIN W : k < i + 1 => W[k].type # "snapshot"
        PROVE  \A k \in DOMAIN T : k < i => T[k].type # "snapshot"
    BY ONLY <2>3, <1>3, i \in DOMAIN T, Zenon
  <2>4. ASSUME NEW k \in DOMAIN W, k < i + 1, Moves(W[k]), W[i + 1].seq <= W[k].seq + 1
        PROVE  \E l \in DOMAIN T : l < i /\ Moves(T[l]) /\ T[i].seq <= T[l].seq + 1
    <3>1. PICK l \in DOMAIN T : k = l + 1 /\ T[l] = W[k]
      BY <2>4, <1>4, Zenon
    <3>2. l < i
      BY ONLY <3>1, <2>4, <1>3, i \in DOMAIN T, Zenon
    <3> QED
      BY ONLY <3>1, <3>2, <2>1, <2>4, Zenon
  <2> QED
    BY ONLY <2>1, <2>2, <2>3, <2>4, ZenonT(30)
<1>6. ReachesHead'
  <2> SUFFICES ASSUME hostAttached
               PROVE  \/ ~ desynced /\ cursor = <<epoch, seq>>
                      \/ \E k \in DOMAIN T : Moves(T[k]) /\ T[k].seq = seq
    BY <1>1, Zenon DEF ReachesHead
  <2>1. \/ ~ desynced /\ cursor = <<epoch, seq>>
        \/ \E k \in DOMAIN W : Moves(W[k]) /\ W[k].seq = seq
    BY Zenon DEF SyncInv, ReachesHead
  <2>2. ASSUME NEW k \in DOMAIN W, Moves(W[k]), W[k].seq = seq
        PROVE  \E l \in DOMAIN T : Moves(T[l]) /\ T[l].seq = seq
    <3>1. PICK l \in DOMAIN T : k = l + 1 /\ T[l] = W[k]
      BY <2>2, <1>4, ZenonT(30)
    <3> QED
      BY ONLY <3>1, <2>2, Zenon
  <2> QED
    BY ONLY <2>1, <2>2, Zenon
<1>7. DesyncResyncs'
  BY <1>1, Zenon DEF SyncInv, DesyncResyncs
<1>8. GapResyncs'
  <2> SUFFICES ASSUME epochValue = epoch, NEW i \in DOMAIN T, T[i].type = "gap"
               PROVE  \/ /\ cursor # None /\ Resyncs(ring, seq, cursor[2])
                         /\ \A k \in DOMAIN T : k < i => ~ Moves(T[k])
                      \/ /\ Resyncs(ring, seq, T[i].seq - 1) /\ (cursor # None => cursor[2] < T[i].seq)
                         /\ \A k \in DOMAIN T : k < i /\ Moves(T[k]) => T[k].seq < T[i].seq
    BY <1>1, Zenon DEF GapResyncs
  <2>1. i + 1 \in DOMAIN W /\ T[i] = W[i + 1]
    BY <1>3, Zenon
  <2>2. \/ /\ cursor # None /\ Resyncs(ring, seq, cursor[2])
           /\ \A k \in DOMAIN W : k < i + 1 => ~ Moves(W[k])
        \/ /\ Resyncs(ring, seq, W[i + 1].seq - 1) /\ (cursor # None => cursor[2] < W[i + 1].seq)
           /\ \A k \in DOMAIN W : k < i + 1 /\ Moves(W[k]) => W[k].seq < W[i + 1].seq
    BY <2>1, <1>1, Zenon DEF SyncInv, GapResyncs
  <2>3. \A k \in DOMAIN T : k < i => k + 1 \in DOMAIN W /\ k + 1 < i + 1 /\ T[k] = W[k + 1]
    BY ONLY <1>3, i \in DOMAIN T, Zenon
  <2> QED
    BY ONLY <2>1, <2>2, <2>3, Zenon
<1>9. GapAnswered'
  <2> SUFFICES ASSUME desynced, hostAttached PROVE \E i \in DOMAIN T : T[i].type = "snapshot"
    BY <1>1, Zenon DEF GapAnswered
  <2>1. PICK k \in DOMAIN W : W[k].type = "snapshot"
    BY Zenon DEF SyncInv, GapAnswered
  <2> QED
    BY <2>1, <1>4, ZenonT(30)
<1> QED
  BY <1>2, <1>5, <1>6, <1>7, <1>8, <1>9, Zenon DEF SyncInv

\* A durable frame that is ignored: a duplicate, or any while desynced.
LEMMA IgnoreSync ==
  ASSUME StreamInv, SyncInv, NEW f, Handles(f), Durable(f),
         desynced \/ (cursor # None /\ f.epoch = cursor[1] /\ f.seq <= cursor[2]),
         cursor' = cursor, desynced' = desynced
  PROVE  SyncInv'
<1> DEFINE W == toClient
           T == toClient'
<1>1. /\ Shifted(W, T) /\ f = W[1] /\ link' = link /\ link = "ready" /\ epoch' = epoch
      /\ seq' = seq /\ ring' = ring /\ hostAttached' = hostAttached /\ epochValue' = epochValue
      /\ \A i \in DOMAIN W : W[i].seq \in Nat
      /\ seq \in Nat /\ f.seq \in Nat
  BY HandledFacts, Zenon
<1>2. RingOK' /\ EpochBehind' /\ OneAttach' /\ GapPairs' /\ NotAhead' /\ SnapshotsAhead'
  BY HandledSync, HandledSnapshots, Zenon
<1>3. /\ 1 \in DOMAIN W
      /\ \A i \in DOMAIN T : i + 1 \in DOMAIN W /\ T[i] = W[i + 1] /\ 1 < i + 1
      /\ \A k \in DOMAIN W : k = 1 \/ \E l \in DOMAIN T : k = l + 1
      /\ \A i, l \in DOMAIN T : l + 1 < i + 1 <=> l < i
  BY <1>1, Zenon DEF Shifted
<1>4. ASSUME NEW k \in DOMAIN W, k # 1
      PROVE  \E l \in DOMAIN T : k = l + 1 /\ T[l] = W[k]
  <2>1. PICK l \in DOMAIN T : k = l + 1
    BY ONLY <1>3, <1>4, Zenon
  <2> QED
    BY ONLY <2>1, <1>3, Zenon
<1>10. Moves(W[1]) /\ W[1].type # "snapshot"
  BY <1>1, Zenon DEF Durable, Moves
\* A snapshot behind an ignored frame covers it.
<1>11. ASSUME NEW l \in DOMAIN T, T[l].type = "snapshot" PROVE f.seq <= T[l].seq /\ T[l].seq \in Nat /\ Moves(T[l])
  <2>1. l + 1 \in DOMAIN W /\ T[l] = W[l + 1] /\ 1 < l + 1
    BY <1>3, Zenon
  <2>2. W[1].seq <= W[l + 1].seq /\ W[l + 1].seq \in Nat
    BY <2>1, <1>1, <1>3, <1>10, <1>11, Zenon DEF SyncInv, SnapshotsAhead
  <2> QED
    BY <2>1, <2>2, <1>1, <1>11, Zenon DEF Moves
<1>5. NoHole'
  <2> SUFFICES ASSUME NEW i \in DOMAIN T, Durable(T[i])
               PROVE  \/ ~ desynced /\ cursor # None /\ T[i].seq <= cursor[2] + 1
                      \/ desynced /\ \A k \in DOMAIN T : k < i => T[k].type # "snapshot"
                      \/ \E k \in DOMAIN T : k < i /\ Moves(T[k]) /\ T[i].seq <= T[k].seq + 1
    BY Zenon DEF NoHole
  <2>1. i + 1 \in DOMAIN W /\ T[i] = W[i + 1] /\ T[i].seq \in Nat
    BY <1>1, <1>3, Zenon
  <2>2. \/ ~ desynced /\ cursor # None /\ W[i + 1].seq <= cursor[2] + 1
        \/ desynced /\ \A k \in DOMAIN W : k < i + 1 => W[k].type # "snapshot"
        \/ \E k \in DOMAIN W : k < i + 1 /\ Moves(W[k]) /\ W[i + 1].seq <= W[k].seq + 1
    BY <2>1, <1>1, Zenon DEF SyncInv, NoHole
  <2>3. ASSUME \A k \in DOMAIN W : k < i + 1 => W[k].type # "snapshot"
        PROVE  \A k \in DOMAIN T : k < i => T[k].type # "snapshot"
    BY ONLY <2>3, <1>3, i \in DOMAIN T, Zenon
  <2>4. ASSUME NEW k \in DOMAIN W, k # 1, k < i + 1, Moves(W[k]), W[i + 1].seq <= W[k].seq + 1
        PROVE  \E l \in DOMAIN T : l < i /\ Moves(T[l]) /\ T[i].seq <= T[l].seq + 1
    <3>1. PICK l \in DOMAIN T : k = l + 1 /\ T[l] = W[k]
      BY <2>4, <1>4, Zenon
    <3>2. l < i
      BY ONLY <3>1, <2>4, <1>3, i \in DOMAIN T, Zenon
    <3> QED
      BY ONLY <3>1, <3>2, <2>1, <2>4, Zenon
  <2>5. CASE W[i + 1].seq <= W[1].seq + 1
    <3>1. T[i].seq <= f.seq + 1
      BY <2>1, <2>5, <1>1, Zenon
    <3>2. CASE ~ desynced
      <4>1. cursor # None /\ f.seq <= cursor[2] /\ cursor[2] \in Nat
        BY <3>2, CursorBehind, Zenon
      <4>2. T[i].seq <= cursor[2] + 1
        BY ONLY <4>1, <3>1, <2>1, <1>1
      <4> QED
        BY <4>1, <4>2, <3>2, Zenon
    <3>3. ASSUME NEW l \in DOMAIN T, l < i, T[l].type = "snapshot"
          PROVE  \E k \in DOMAIN T : k < i /\ Moves(T[k]) /\ T[i].seq <= T[k].seq + 1
      <4>1. f.seq <= T[l].seq /\ T[l].seq \in Nat /\ Moves(T[l])
        BY <3>3, <1>11, Zenon
      <4>2. T[i].seq <= T[l].seq + 1
        BY ONLY <4>1, <3>1, <2>1, <1>1
      <4> QED
        BY <4>1, <4>2, <3>3, Zenon
    <3> QED
      BY <3>2, <3>3, Zenon
  <2> QED
    BY ONLY <2>1, <2>2, <2>3, <2>4, <2>5, Zenon
<1>6. ReachesHead'
  <2> SUFFICES ASSUME hostAttached
               PROVE  \/ ~ desynced /\ cursor = <<epoch, seq>>
                      \/ \E k \in DOMAIN T : Moves(T[k]) /\ T[k].seq = seq
    BY <1>1, Zenon DEF ReachesHead
  <2>1. \/ ~ desynced /\ cursor = <<epoch, seq>>
        \/ \E k \in DOMAIN W : Moves(W[k]) /\ W[k].seq = seq
    BY Zenon DEF SyncInv, ReachesHead
  <2>2. ASSUME NEW k \in DOMAIN W, k # 1, Moves(W[k]), W[k].seq = seq
        PROVE  \E l \in DOMAIN T : Moves(T[l]) /\ T[l].seq = seq
    <3>1. PICK l \in DOMAIN T : k = l + 1 /\ T[l] = W[k]
      BY <2>2, <1>4, Zenon
    <3> QED
      BY ONLY <3>1, <2>2, Zenon
  <2>3. CASE W[1].seq = seq /\ ~ desynced
    <3>1. socket /\ epochValue = epoch
      BY <1>1, Zenon DEF StreamInv, ConnectionOK
    <3>2. cursor # None /\ seq <= cursor[2] /\ cursor[1] = epoch
      BY <2>3, <3>1, <1>1, Zenon DEF StreamInv, CopyOK
    <3>3. cursor = <<epoch, cursor[2]>> /\ cursor[2] \in Nat /\ cursor[2] <= seq
      BY <3>2, CursorBehind, Zenon
    <3>4. cursor[2] = seq
      BY ONLY <3>2, <3>3, <1>1
    <3> QED
      BY <2>3, <3>3, <3>4, Zenon
  <2>4. CASE W[1].seq = seq /\ desynced
    <3>1. PICK k \in DOMAIN W : W[k].type = "snapshot"
      BY <2>4, Zenon DEF SyncInv, GapAnswered
    <3>2. PICK l \in DOMAIN T : T[l] = W[k]
      BY <3>1, <1>4, <1>10, Zenon
    <3>3. seq <= T[l].seq /\ T[l].seq \in Nat /\ Moves(T[l])
      BY <3>1, <3>2, <2>4, <1>1, <1>11, Zenon
    <3>4. T[l].seq <= seq
      BY <3>1, <3>2, Zenon DEF SyncInv, NotAhead, StreamInv, ConnectionOK
    <3>6. seq \in Nat
      BY <1>1, Zenon
    <3>5. T[l].seq = seq
      BY ONLY <3>3, <3>4, <3>6
    <3> QED
      BY <3>3, <3>5, Zenon
  <2> QED
    BY ONLY <2>1, <2>2, <2>3, <2>4, ZenonT(30)
<1>7. DesyncResyncs'
  BY <1>1, Zenon DEF SyncInv, DesyncResyncs
<1>8. GapResyncs'
  <2> SUFFICES ASSUME epochValue = epoch, NEW i \in DOMAIN T, T[i].type = "gap"
               PROVE  \/ /\ cursor # None /\ Resyncs(ring, seq, cursor[2])
                         /\ \A k \in DOMAIN T : k < i => ~ Moves(T[k])
                      \/ /\ Resyncs(ring, seq, T[i].seq - 1) /\ (cursor # None => cursor[2] < T[i].seq)
                         /\ \A k \in DOMAIN T : k < i /\ Moves(T[k]) => T[k].seq < T[i].seq
    BY <1>1, Zenon DEF GapResyncs
  <2>1. i + 1 \in DOMAIN W /\ T[i] = W[i + 1]
    BY <1>3, Zenon
  <2>2. \/ /\ cursor # None /\ Resyncs(ring, seq, cursor[2])
           /\ \A k \in DOMAIN W : k < i + 1 => ~ Moves(W[k])
        \/ /\ Resyncs(ring, seq, W[i + 1].seq - 1) /\ (cursor # None => cursor[2] < W[i + 1].seq)
           /\ \A k \in DOMAIN W : k < i + 1 /\ Moves(W[k]) => W[k].seq < W[i + 1].seq
    BY <2>1, <1>1, Zenon DEF SyncInv, GapResyncs
  <2>3. \A k \in DOMAIN T : k < i => k + 1 \in DOMAIN W /\ k + 1 < i + 1 /\ T[k] = W[k + 1]
    BY ONLY <1>3, i \in DOMAIN T, Zenon
  <2> QED
    BY ONLY <2>1, <2>2, <2>3, Zenon
<1>9. GapAnswered'
  <2> SUFFICES ASSUME desynced, hostAttached PROVE \E i \in DOMAIN T : T[i].type = "snapshot"
    BY <1>1, Zenon DEF GapAnswered
  <2>1. PICK k \in DOMAIN W : W[k].type = "snapshot"
    BY Zenon DEF SyncInv, GapAnswered
  <2> QED
    BY <2>1, <1>4, <1>10, Zenon
<1> QED
  BY <1>2, <1>5, <1>6, <1>7, <1>8, <1>9, Zenon DEF SyncInv

\* A gap: its snapshot is next, and the cursor it leaves would be answered with
\* a snapshot too.
LEMMA GapSync ==
  ASSUME StreamInv, SyncInv, NEW f, Handles(f), f.type = "gap",
         cursor' = cursor, desynced' = TRUE
  PROVE  SyncInv'
<1> DEFINE W == toClient
           T == toClient'
<1>1. /\ Shifted(W, T) /\ f = W[1] /\ link' = link /\ link = "ready" /\ epoch' = epoch
      /\ seq' = seq /\ ring' = ring /\ hostAttached' = hostAttached /\ epochValue' = epochValue
      /\ \A i \in DOMAIN W : W[i].seq \in Nat
      /\ seq \in Nat /\ f.seq \in Nat
  BY HandledFacts, Zenon
<1>2. RingOK' /\ EpochBehind' /\ OneAttach' /\ GapPairs' /\ NotAhead' /\ SnapshotsAhead'
  BY HandledSync, HandledSnapshots, Zenon
<1>3. /\ 1 \in DOMAIN W
      /\ \A i \in DOMAIN T : i + 1 \in DOMAIN W /\ T[i] = W[i + 1] /\ 1 < i + 1
      /\ \A k \in DOMAIN W : k = 1 \/ \E l \in DOMAIN T : k = l + 1
      /\ \A i, l \in DOMAIN T : l + 1 < i + 1 <=> l < i
  BY <1>1, ZenonT(30) DEF Shifted
<1>4. ASSUME NEW k \in DOMAIN W, Moves(W[k])
      PROVE  \E l \in DOMAIN T : k = l + 1 /\ T[l] = W[k]
  <2>1. k # 1
    BY <1>1, <1>4, Zenon DEF Moves
  <2>2. PICK l \in DOMAIN T : k = l + 1
    BY ONLY <2>1, <1>3, k \in DOMAIN W, Zenon
  <2> QED
    BY ONLY <2>2, <1>3, Zenon
<1>10. 1 \in DOMAIN T /\ T[1].type = "snapshot" /\ T[1] = W[2] /\ 2 \in DOMAIN W /\ W[2].type = "snapshot"
  <2>1. 1 + 1 \in DOMAIN W /\ W[1 + 1].type = "snapshot"
    BY <1>1, <1>3, Zenon DEF SyncInv, GapPairs
  <2>2. 1 + 1 = 2 /\ 2 # 1 /\ \A l \in Int : 2 = l + 1 => l = 1
    OBVIOUS
  <2>3. 1 \in DOMAIN T
    <3>1. W \in Seq(Frame) /\ W # <<>> /\ T = Tail(W)
      BY Zenon DEF StreamInv, TypeOK, Handles
    <3>2. Len(W) \in Nat /\ DOMAIN W = 1 .. Len(W) /\ DOMAIN T = 1 .. (Len(W) - 1)
      BY ONLY <3>1, Beheaded, Zenon
    <3> QED
      BY ONLY <3>2, <2>1
  <2> QED
    BY <2>1, <2>2, <2>3, <1>3, Zenon
<1>11. /\ Moves(T[1]) /\ ~ Durable(T[1]) /\ T[1].seq \in Nat
  BY <1>1, <1>10, Zenon DEF Moves, Durable
<1>12. cursor # None => cursor[2] <= T[1].seq /\ cursor[2] \in Nat
  <2>1. cursor # None => cursor[2] <= W[2].seq
    BY <1>1, <1>10, Zenon DEF SyncInv, SnapshotsAhead
  <2> QED
    BY <2>1, <1>10, CursorBehind, Zenon
<1>5. NoHole'
  <2> SUFFICES ASSUME NEW i \in DOMAIN T, Durable(T[i])
               PROVE  \E k \in DOMAIN T : k < i /\ Moves(T[k]) /\ T[i].seq <= T[k].seq + 1
    BY Zenon DEF NoHole
  <2>1. i + 1 \in DOMAIN W /\ T[i] = W[i + 1] /\ T[i].seq \in Nat
    BY <1>1, <1>3, Zenon
  <2>2. \/ ~ desynced /\ cursor # None /\ W[i + 1].seq <= cursor[2] + 1
        \/ desynced /\ \A k \in DOMAIN W : k < i + 1 => W[k].type # "snapshot"
        \/ \E k \in DOMAIN W : k < i + 1 /\ Moves(W[k]) /\ W[i + 1].seq <= W[k].seq + 1
    BY <2>1, <1>1, Zenon DEF SyncInv, NoHole
  <2>3. 1 < i /\ 2 < i + 1
    <3>1. i # 1
      BY <1>11, Zenon
    <3>2. i \in Nat /\ i >= 1
      <4>1. toClient' \in Seq(Frame)
        <5>1. W \in Seq(Frame) /\ W # <<>> /\ T = Tail(W)
          BY Zenon DEF StreamInv, TypeOK, Handles
        <5> QED
          BY ONLY <5>1, Beheaded, Zenon
      <4> QED
        BY ONLY <4>1, i \in DOMAIN T, LenProperties
    <3> QED
      BY ONLY <3>1, <3>2
  <2>4. CASE desynced /\ \A k \in DOMAIN W : k < i + 1 => W[k].type # "snapshot"
    BY <2>3, <2>4, <1>10, Zenon
  <2>5. CASE cursor # None /\ W[i + 1].seq <= cursor[2] + 1
    <3>1. T[i].seq <= cursor[2] + 1
      BY <2>1, <2>5, ZenonT(30)
    <3>2. T[i].seq <= T[1].seq + 1
      BY ONLY <3>1, <2>1, <2>5, <1>11, <1>12
    <3> QED
      BY <3>2, <2>3, <1>10, <1>11, Zenon
  <2>6. ASSUME NEW k \in DOMAIN W, k < i + 1, Moves(W[k]), W[i + 1].seq <= W[k].seq + 1
        PROVE  \E l \in DOMAIN T : l < i /\ Moves(T[l]) /\ T[i].seq <= T[l].seq + 1
    <3>1. PICK l \in DOMAIN T : k = l + 1 /\ T[l] = W[k]
      BY <2>6, <1>4, Zenon
    <3>2. l < i
      BY ONLY <3>1, <2>6, <1>3, i \in DOMAIN T, Zenon
    <3> QED
      BY ONLY <3>1, <3>2, <2>1, <2>6, Zenon
  <2> QED
    BY ONLY <2>2, <2>4, <2>5, <2>6, Zenon
<1>6. ReachesHead'
  <2> SUFFICES ASSUME hostAttached PROVE \E k \in DOMAIN T : Moves(T[k]) /\ T[k].seq = seq
    BY <1>1, Zenon DEF ReachesHead
  <2>1. \/ ~ desynced /\ cursor = <<epoch, seq>>
        \/ \E k \in DOMAIN W : Moves(W[k]) /\ W[k].seq = seq
    BY Zenon DEF SyncInv, ReachesHead
  <2>2. ASSUME NEW k \in DOMAIN W, Moves(W[k]), W[k].seq = seq
        PROVE  \E l \in DOMAIN T : Moves(T[l]) /\ T[l].seq = seq
    <3>1. PICK l \in DOMAIN T : k = l + 1 /\ T[l] = W[k]
      BY <2>2, <1>4, Zenon
    <3> QED
      BY ONLY <3>1, <2>2, Zenon
  <2>3. CASE cursor = <<epoch, seq>>
    <3>1. cursor # None /\ cursor[2] = seq
      BY ONLY <2>3, CursorPair, StreamInv
    <3>2. T[1].seq <= seq
      BY <1>10, ZenonT(30) DEF SyncInv, NotAhead, StreamInv, ConnectionOK
    <3>3. T[1].seq = seq
      <4>1. seq \in Nat /\ T[1].seq \in Nat /\ seq <= T[1].seq
        BY ONLY <3>1, <1>1, <1>11, <1>12, ZenonT(30)
      <4> QED
        BY ONLY <4>1, <3>2
    <3> QED
      BY <3>3, <1>10, <1>11, ZenonT(30)
  <2> QED
    BY ONLY <2>1, <2>2, <2>3, ZenonT(30)
<1>7. DesyncResyncs'
  <2> SUFFICES ASSUME cursor # None, cursor[1] = epoch PROVE Resyncs(ring, seq, cursor[2])
    BY <1>1, Zenon DEF DesyncResyncs
  <2>1. epochValue = epoch
    BY Zenon DEF StreamInv, CopyOK
  <2>2. \/ Resyncs(ring, seq, cursor[2])
        \/ Resyncs(ring, seq, W[1].seq - 1) /\ cursor[2] < W[1].seq
    BY <2>1, <1>1, <1>3, Zenon DEF SyncInv, GapResyncs
  <2>3. CASE Resyncs(ring, seq, W[1].seq - 1) /\ cursor[2] < W[1].seq
    <3>1. W[1].seq \in Nat
      BY <1>1, ZenonT(30)
    <3>2. W[1].seq - 1 \in Int /\ cursor[2] \in Int /\ cursor[2] <= W[1].seq - 1
      BY ONLY <3>1, <2>3, <1>12, cursor # None
    <3> QED
      BY <3>2, <2>3, ResyncsBehind, Zenon DEF SyncInv
  <2> QED
    BY <2>2, <2>3, Zenon
<1>8. GapResyncs'
  <2> SUFFICES ASSUME epochValue = epoch, NEW i \in DOMAIN T, T[i].type = "gap"
               PROVE  \/ /\ cursor # None /\ Resyncs(ring, seq, cursor[2])
                         /\ \A k \in DOMAIN T : k < i => ~ Moves(T[k])
                      \/ /\ Resyncs(ring, seq, T[i].seq - 1) /\ (cursor # None => cursor[2] < T[i].seq)
                         /\ \A k \in DOMAIN T : k < i /\ Moves(T[k]) => T[k].seq < T[i].seq
    BY <1>1, Zenon DEF GapResyncs
  <2>1. i + 1 \in DOMAIN W /\ T[i] = W[i + 1]
    BY <1>3, Zenon
  <2>2. \/ /\ cursor # None /\ Resyncs(ring, seq, cursor[2])
           /\ \A k \in DOMAIN W : k < i + 1 => ~ Moves(W[k])
        \/ /\ Resyncs(ring, seq, W[i + 1].seq - 1) /\ (cursor # None => cursor[2] < W[i + 1].seq)
           /\ \A k \in DOMAIN W : k < i + 1 /\ Moves(W[k]) => W[k].seq < W[i + 1].seq
    BY <2>1, <1>1, Zenon DEF SyncInv, GapResyncs
  <2>3. \A k \in DOMAIN T : k < i => k + 1 \in DOMAIN W /\ k + 1 < i + 1 /\ T[k] = W[k + 1]
    BY ONLY <1>3, i \in DOMAIN T, Zenon
  <2> QED
    BY ONLY <2>1, <2>2, <2>3, Zenon
<1>9. GapAnswered'
  BY <1>10, Zenon DEF GapAnswered
<1> QED
  BY <1>2, <1>5, <1>6, <1>7, <1>8, <1>9, Zenon DEF SyncInv

\* A snapshot, or the durable frame that continues the cursor.
LEMMA MoveSync ==
  ASSUME StreamInv, SyncInv, NEW f, Handles(f), Moves(f),
         f.type = "snapshot" \/ (~ desynced /\ cursor # None /\ f.seq = cursor[2] + 1),
         cursor' = CursorOf(f), desynced' = FALSE
  PROVE  SyncInv' /\ (cursor # None => cursor[1] = cursor'[1] /\ cursor'[2] >= cursor[2])
<1> DEFINE W == toClient
           T == toClient'
<1>1. /\ Shifted(W, T) /\ f = W[1] /\ link' = link /\ link = "ready" /\ epoch' = epoch
      /\ seq' = seq /\ ring' = ring /\ hostAttached' = hostAttached /\ epochValue' = epochValue
      /\ \A i \in DOMAIN W : W[i].seq \in Nat
      /\ seq \in Nat /\ f.seq \in Nat /\ f.epoch = epochValue
  BY HandledFacts, Zenon
<1>2. RingOK' /\ EpochBehind' /\ OneAttach' /\ GapPairs' /\ NotAhead' /\ SnapshotsAhead'
  BY HandledSync, HandledSnapshots, Zenon
<1>3. /\ 1 \in DOMAIN W
      /\ \A i \in DOMAIN T : i + 1 \in DOMAIN W /\ T[i] = W[i + 1] /\ 1 < i + 1
      /\ \A k \in DOMAIN W : k = 1 \/ \E l \in DOMAIN T : k = l + 1
      /\ \A i, l \in DOMAIN T : l + 1 < i + 1 <=> l < i
  BY <1>1, ZenonT(30) DEF Shifted
<1>4. ASSUME NEW k \in DOMAIN W, k # 1
      PROVE  \E l \in DOMAIN T : k = l + 1 /\ T[l] = W[k]
  <2>1. PICK l \in DOMAIN T : k = l + 1
    BY ONLY <1>3, <1>4, Zenon
  <2> QED
    BY ONLY <2>1, <1>3, Zenon
<1>10. cursor' # None /\ cursor' = <<epochValue, f.seq>> /\ cursor'[1] = epochValue /\ cursor'[2] = f.seq
  <2>1. epochValue \in Nat
    BY <1>1, Zenon DEF StreamInv, TypeOK, ConnectionOK
  <2>2. cursor' = <<epochValue, f.seq>>
    BY <1>1, Zenon DEF CursorOf
  <2> QED
    <3>1. f.seq \in Nat
      BY <1>1, Zenon
    <3> QED
      BY ONLY <2>1, <2>2, <3>1, NoneAssumption
<1>11. cursor # None => cursor[2] \in Nat /\ cursor[2] <= f.seq
  <2>1. ASSUME cursor # None, f.type = "snapshot" PROVE cursor[2] <= f.seq
    BY <2>1, <1>1, <1>3, Zenon DEF SyncInv, SnapshotsAhead
  <2>2. cursor # None => cursor[2] \in Nat
    BY CursorBehind, Zenon
  <2>3. ASSUME cursor # None, f.seq = cursor[2] + 1 PROVE cursor[2] <= f.seq
    BY ONLY <2>2, <2>3
  <2> QED
    BY <2>1, <2>2, <2>3, Zenon
<1>12. cursor # None => cursor[1] = cursor'[1] /\ cursor'[2] >= cursor[2]
  <2>1. cursor # None => cursor[1] = epochValue
    BY Zenon DEF StreamInv, CopyOK
  <2>2. cursor # None => f.seq >= cursor[2]
    BY ONLY <1>1, <1>11
  <2> QED
    BY <2>1, <2>2, <1>10, Zenon
<1>5. NoHole'
  <2> SUFFICES ASSUME NEW i \in DOMAIN T, Durable(T[i])
               PROVE  \/ T[i].seq <= f.seq + 1
                      \/ \E k \in DOMAIN T : k < i /\ Moves(T[k]) /\ T[i].seq <= T[k].seq + 1
    BY <1>10, Zenon DEF NoHole
  <2>1. i + 1 \in DOMAIN W /\ T[i] = W[i + 1] /\ T[i].seq \in Nat /\ 1 < i + 1
    BY <1>1, <1>3, Zenon
  <2>2. \/ ~ desynced /\ cursor # None /\ W[i + 1].seq <= cursor[2] + 1
        \/ desynced /\ \A k \in DOMAIN W : k < i + 1 => W[k].type # "snapshot"
        \/ \E k \in DOMAIN W : k < i + 1 /\ Moves(W[k]) /\ W[i + 1].seq <= W[k].seq + 1
    BY <2>1, <1>1, Zenon DEF SyncInv, NoHole
  <2>3. CASE desynced /\ \A k \in DOMAIN W : k < i + 1 => W[k].type # "snapshot"
    BY <2>1, <2>3, <1>1, <1>3, ZenonT(30)
  <2>4. CASE cursor # None /\ W[i + 1].seq <= cursor[2] + 1
    <3>1. T[i].seq <= cursor[2] + 1
      BY <2>1, <2>4, Zenon
    <3>2. T[i].seq <= f.seq + 1
      BY ONLY <3>1, <2>1, <2>4, <1>1, <1>11
    <3> QED
      BY <3>2, Zenon
  <2>5. ASSUME NEW k \in DOMAIN W, k # 1, k < i + 1, Moves(W[k]), W[i + 1].seq <= W[k].seq + 1
        PROVE  \E l \in DOMAIN T : l < i /\ Moves(T[l]) /\ T[i].seq <= T[l].seq + 1
    <3>1. PICK l \in DOMAIN T : k = l + 1 /\ T[l] = W[k]
      BY <2>5, <1>4, Zenon
    <3>2. l < i
      BY ONLY <3>1, <2>5, <1>3, i \in DOMAIN T, Zenon
    <3> QED
      BY ONLY <3>1, <3>2, <2>1, <2>5, Zenon
  <2>6. CASE W[i + 1].seq <= W[1].seq + 1
    BY <2>1, <2>6, <1>1, Zenon
  <2> QED
    BY ONLY <2>2, <2>3, <2>4, <2>5, <2>6, Zenon
<1>6. ReachesHead'
  <2> SUFFICES ASSUME hostAttached
               PROVE  cursor' = <<epoch, seq>> \/ \E k \in DOMAIN T : Moves(T[k]) /\ T[k].seq = seq
    BY <1>1, Zenon DEF ReachesHead
  <2>1. \/ ~ desynced /\ cursor = <<epoch, seq>>
        \/ \E k \in DOMAIN W : Moves(W[k]) /\ W[k].seq = seq
    BY Zenon DEF SyncInv, ReachesHead
  <2>2. ASSUME NEW k \in DOMAIN W, k # 1, Moves(W[k]), W[k].seq = seq
        PROVE  \E l \in DOMAIN T : Moves(T[l]) /\ T[l].seq = seq
    <3>1. PICK l \in DOMAIN T : k = l + 1 /\ T[l] = W[k]
      BY <2>2, <1>4, Zenon
    <3> QED
      BY ONLY <3>1, <2>2, Zenon
  <2>3. socket /\ epochValue = epoch
    BY <1>1, Zenon DEF StreamInv, ConnectionOK
  <2>4. CASE W[1].seq = seq
    BY <2>3, <2>4, <1>1, <1>10, Zenon
  <2>5. CASE cursor = <<epoch, seq>>
    <3>1. cursor # None /\ cursor[2] = seq
      BY ONLY <2>5, CursorPair, StreamInv
    <3>2. f.seq <= seq
      BY <2>3, <1>1, <1>3, Zenon DEF SyncInv, NotAhead
    <3>3. f.seq = seq
      BY ONLY <3>1, <3>2, <1>1, <1>11
    <3> QED
      BY <3>3, <2>3, <1>10, ZenonT(30)
  <2> QED
    BY ONLY <2>1, <2>2, <2>4, <2>5, ZenonT(30)
<1>7. DesyncResyncs' /\ GapAnswered'
  BY Zenon DEF DesyncResyncs, GapAnswered
<1>8. GapResyncs'
  <2> SUFFICES ASSUME epochValue = epoch, NEW i \in DOMAIN T, T[i].type = "gap"
               PROVE  /\ Resyncs(ring, seq, T[i].seq - 1) /\ f.seq < T[i].seq
                      /\ \A k \in DOMAIN T : k < i /\ Moves(T[k]) => T[k].seq < T[i].seq
    BY <1>1, <1>10, Zenon DEF GapResyncs
  <2>1. i + 1 \in DOMAIN W /\ T[i] = W[i + 1] /\ 1 < i + 1
    BY <1>3, Zenon
  <2>2. /\ Resyncs(ring, seq, W[i + 1].seq - 1)
        /\ \A k \in DOMAIN W : k < i + 1 /\ Moves(W[k]) => W[k].seq < W[i + 1].seq
    BY <2>1, <1>1, <1>3, Zenon DEF SyncInv, GapResyncs
  <2>3. \A k \in DOMAIN T : k < i => k + 1 \in DOMAIN W /\ k + 1 < i + 1 /\ T[k] = W[k + 1]
    BY ONLY <1>3, i \in DOMAIN T, Zenon
  <2>4. f.seq < T[i].seq
    BY <2>1, <2>2, <1>1, <1>3, Zenon
  <2> QED
    BY ONLY <2>1, <2>2, <2>3, <2>4, Zenon
<1> QED
  BY <1>2, <1>5, <1>6, <1>7, <1>8, <1>12, Zenon DEF SyncInv

-----------------------------------------------------------------------------
(* Rebases and the frames a client handles *)

\* A rebase that replaces the transcript: a gap and its snapshot.
LEMMA RebaseReplaceSync ==
  ASSUME StreamInv, SyncInv, NEW new \in Transcripts, RebaseReplace(new)
  PROVE  SyncInv'
<1>1. seq \in Nat /\ new \in Seq(Entry)
  BY TranscriptsSeq, Zenon DEF StreamInv, TypeOK
<1>2. PICK n : n = seq + 1
  BY Zenon
<1>3. n \in Nat /\ seq < n
  BY ONLY <1>1, <1>2
<1>4. /\ seq' = n /\ epoch' = epoch /\ ring' = Trim(GapAndSnapshot(epoch, n, new))
      /\ Broadcast(GapAndSnapshot(epoch, n, new))
      /\ UNCHANGED <<socket, hostAttached, toHost, clientVars>>
  BY <1>2, Zenon DEF RebaseReplace
<1> QED
  BY <1>1, <1>3, <1>4, RebaseSync, Zenon

\* A rebase that extends the transcript sends one entry frame for each new entry,
\* or a gap and its snapshot when they are too many.
LEMMA ExtendOutput ==
  ASSUME StreamInv, NEW new \in Transcripts, RebaseExtend(new)
  PROVE  \E k \in Nat \ {0} :
           /\ seq' = seq + k
           /\ \/ \E frames \in Seq(Frame) :
                   /\ Len(frames) = k /\ \A j \in 1 .. k : Durable(frames[j]) /\ frames[j].seq = seq + j
                   /\ ring' = Trim(ring \o frames) /\ Broadcast(frames)
              \/ /\ ring' = Trim(GapAndSnapshot(epoch, seq + k, new))
                 /\ Broadcast(GapAndSnapshot(epoch, seq + k, new))
<1> DEFINE k == Len(new) - Len(entries)
           frames == [i \in 1..k |-> MakeFrame("entry", epoch, seq + i, <<new[Len(entries) + i]>>)]
           output == IF k <= RebaseBudget THEN frames ELSE GapAndSnapshot(epoch, seq + k, new)
<1>1. /\ epoch \in Nat /\ seq \in Nat /\ entries \in Seq(Entry) /\ new \in Seq(Entry)
      /\ Len(entries) \in Nat /\ Len(new) \in Nat
  BY TranscriptsSeq, LenProperties, Zenon DEF StreamInv, TypeOK
<1>2. /\ k > 0 /\ seq' = seq + k
      /\ ring' = IF k <= RebaseBudget THEN Trim(ring \o frames) ELSE Trim(output)
      /\ Broadcast(output)
  BY Zenon DEF RebaseExtend
<1>3. k \in Nat \ {0}
  BY <1>1, <1>2
<1>4. ASSUME NEW i \in 1 .. k PROVE new[Len(entries) + i] \in Entry
  BY <1>1, <1>3, ElementOfSeq
<1> HIDE DEF k
<1>5. CASE k <= RebaseBudget
  <2>1. Broadcast(frames) /\ ring' = Trim(ring \o frames)
    BY <1>2, <1>5, Zenon
  <2>2. ASSUME NEW i \in 1 .. k
        PROVE  frames[i] \in Frame /\ Durable(frames[i]) /\ frames[i].seq = seq + i
    <3>1. frames[i] = MakeFrame("entry", epoch, seq + i, <<new[Len(entries) + i]>>)
      BY Zenon
    <3>2. seq + i \in Nat /\ "entry" \in FrameTypes /\ <<new[Len(entries) + i]>> \in Seq(Entry)
      BY <1>1, <1>3, <1>4 DEF FrameTypes
    <3>3. frames[i] \in Frame /\ frames[i].type = "entry" /\ frames[i].seq = seq + i
      BY ONLY <3>1, <3>2, <1>1 DEF MakeFrame, Frame
    <3> QED
      BY <3>3, Zenon DEF Durable
  <2>3. frames \in [1 .. k -> Frame]
    BY <2>2, Zenon
  <2> HIDE DEF frames
  <2>4. frames \in Seq(Frame) /\ Len(frames) = k
    BY <2>3, <1>3
  <2> QED
    BY <2>1, <2>2, <2>4, <1>2, <1>3, Zenon
<1>6. CASE ~ (k <= RebaseBudget)
  <2>1. output = GapAndSnapshot(epoch, seq + k, new)
    BY <1>6, Zenon
  <2> QED
    BY <2>1, <1>2, <1>3, <1>6, Zenon
<1> QED
  BY <1>5, <1>6, Zenon

\* A rebase that extends the transcript keeps the invariant either way.
LEMMA RebaseExtendSync ==
  ASSUME StreamInv, SyncInv, NEW new \in Transcripts, RebaseExtend(new)
  PROVE  SyncInv'
<1>1. epoch \in Nat /\ seq \in Nat /\ new \in Seq(Entry) /\ RingOK
  BY TranscriptsSeq, Zenon DEF StreamInv, TypeOK, SyncInv
<1>2. epoch' = epoch /\ UNCHANGED <<socket, hostAttached, toHost, clientVars>>
  BY Zenon DEF RebaseExtend
<1>3. PICK k \in Nat \ {0} :
        /\ seq' = seq + k
        /\ \/ \E frames \in Seq(Frame) :
                /\ Len(frames) = k /\ \A j \in 1 .. k : Durable(frames[j]) /\ frames[j].seq = seq + j
                /\ ring' = Trim(ring \o frames) /\ Broadcast(frames)
           \/ /\ ring' = Trim(GapAndSnapshot(epoch, seq + k, new))
              /\ Broadcast(GapAndSnapshot(epoch, seq + k, new))
  BY ExtendOutput, Zenon
<1>4. PICK n : n = seq + k
  BY Zenon
<1>5. n \in Nat /\ seq < n /\ seq <= n
  BY ONLY <1>1, <1>3, <1>4
<1>6. ASSUME NEW frames \in Seq(Frame), Len(frames) = k, ring' = Trim(ring \o frames),
             Broadcast(frames), \A j \in 1 .. k : Durable(frames[j]) /\ frames[j].seq = seq + j
      PROVE  SyncInv'
  <2>1. RingOK' /\ \A m \in Int : m <= seq /\ Resyncs(ring, seq, m) => Resyncs(ring', seq', m)
    BY <1>1, <1>3, <1>6, RingGrows, Zenon
  <2>2. Stretch(frames, seq, seq + k) /\ \A j \in DOMAIN frames : frames[j].type # "gap"
    BY <1>1, <1>6, DurableStretch, Zenon
  <2>3. Stretch(frames, seq, seq') /\ seq' \in Nat /\ seq <= seq'
    BY <2>2, <1>3, <1>4, <1>5, Zenon
  <2> QED
    BY <2>1, <2>2, <2>3, <1>2, <1>6, ProjectionSync, Zenon
<1>7. ASSUME ring' = Trim(GapAndSnapshot(epoch, n, new)), Broadcast(GapAndSnapshot(epoch, n, new))
      PROVE  SyncInv'
  BY <1>1, <1>2, <1>3, <1>4, <1>5, <1>7, RebaseSync, Zenon
<1> QED
  BY <1>3, <1>4, <1>6, <1>7, Zenon

\* A frame received behind the welcome is handled as Handles says, when the
\* handler leaves link and commands alone and the frame's epoch is kept.
LEMMA ReceiveHandles ==
  ASSUME StreamInv, NEW type, type # "welcome", Receive(type),
         UNCHANGED <<toHost, link>>, epochValue' = epochValue \/ epochValue' = Head(toClient).epoch,
         IF type = "response" THEN attached' = TRUE ELSE attached' = attached
  PROVE  Handles(Head(toClient)) /\ Head(toClient).type = type /\ Head(toClient).epoch = epochValue
<1>1. /\ link = "ready" /\ toClient # <<>> /\ Head(toClient).type = type
      /\ Head(toClient) \in GoodFrames(hist, epochValue)
      /\ toClient' = Tail(toClient)
      /\ UNCHANGED <<hostVars, socket, hostAttached, generation>>
  BY ReceiveReady, Zenon
<1>2. Head(toClient).epoch = epochValue
  BY <1>1, Zenon DEF GoodFrames
<1>3. Head(toClient) = toClient[1]
  BY <1>1 DEF StreamInv, TypeOK
<1>4. epochValue' = epochValue
  BY <1>2, Zenon
<1>5. UNCHANGED <<hostVars, socket, hostAttached, toHost, link, epochValue>>
  BY <1>1, <1>4, Zenon
<1>6. /\ attached' = attached \/ (attached' /\ type = "response")
      /\ type = "response" => attached'
  BY Zenon
<1> QED
  BY <1>1, <1>2, <1>3, <1>5, <1>6, Zenon DEF Handles

\* The response of the attach.
LEMMA HandleResponseSync ==
  ASSUME StreamInv, SyncInv, HandleResponse PROVE SyncInv'
<1>1. /\ Receive("response") /\ attached' = TRUE /\ cursor' = cursor /\ desynced' = desynced
      /\ UNCHANGED <<toHost, link>> /\ epochValue' = epochValue
  BY Zenon DEF HandleResponse
<1>2. Handles(Head(toClient)) /\ Head(toClient).type = "response"
  BY <1>1, ReceiveHandles, Zenon
<1>3. ~ Moves(Head(toClient)) /\ Head(toClient).type # "gap"
  BY <1>2, Zenon DEF Moves, Durable
<1> QED
  BY <1>1, <1>2, <1>3, ResponseSync, Zenon

\* markDesynced on a gap.
LEMMA HandleGapSync ==
  ASSUME StreamInv, SyncInv, HandleGap PROVE SyncInv'
<1>1. /\ Receive("gap") /\ attached' = attached /\ cursor' = cursor /\ desynced' = TRUE
      /\ UNCHANGED <<toHost, link>> /\ epochValue' = epochValue
  BY Zenon DEF HandleGap
<1>2. Handles(Head(toClient)) /\ Head(toClient).type = "gap"
  BY <1>1, ReceiveHandles, Zenon
<1> QED
  BY <1>1, <1>2, GapSync, Zenon

\* acceptSnapshot never moves the cursor back.
LEMMA AcceptSnapshotSync ==
  ASSUME StreamInv, SyncInv, AcceptSnapshot
  PROVE  SyncInv' /\ (cursor # None => cursor[1] = cursor'[1] /\ cursor'[2] >= cursor[2])
<1>1. /\ Receive("snapshot") /\ attached' = attached /\ desynced' = FALSE
      /\ cursor' = CursorOf(Head(toClient)) /\ epochValue' = Head(toClient).epoch
      /\ UNCHANGED <<toHost, link>>
  BY Zenon DEF AcceptSnapshot
<1>2. Handles(Head(toClient)) /\ Head(toClient).type = "snapshot"
  BY <1>1, ReceiveHandles, Zenon
<1>3. Moves(Head(toClient))
  BY <1>2, Zenon DEF Moves
<1> QED
  BY <1>1, <1>2, <1>3, MoveSync, Zenon

\* acceptDurable of any other frame: in sync it can only be a duplicate.
LEMMA RejectDurableSync ==
  ASSUME StreamInv, SyncInv, NEW type \in {"entry", "event"}, RejectDurable(type)
  PROVE  SyncInv'
<1> DEFINE f == Head(toClient)
<1>1. /\ Receive(type) /\ ~ Accepted(f) /\ attached' = attached /\ cursor' = cursor
      /\ desynced' = (desynced \/ ~ Duplicate(f)) /\ epochValue' = epochValue
      /\ UNCHANGED <<toHost, link>>
  BY Zenon DEF RejectDurable
<1>2. type # "welcome" /\ type # "response"
  OBVIOUS
<1>3. Handles(f) /\ f.type = type /\ f.epoch = epochValue
  BY <1>1, <1>2, ReceiveHandles, Zenon
<1>4. Durable(f)
  BY <1>3, Zenon DEF Durable
<1> HIDE DEF f
<1>5. ASSUME ~ desynced PROVE cursor # None /\ f.epoch = cursor[1] /\ f.seq <= cursor[2] /\ Duplicate(f)
  <2>1. cursor # None /\ ~ (f.epoch = cursor[1] /\ f.seq = cursor[2] + 1)
    BY <1>1, <1>5, Zenon DEF Accepted, Contiguous
  <2>2. f.epoch = cursor[1]
    BY <2>1, <1>3, Zenon DEF StreamInv, CopyOK
  <2>3. f = toClient[1] /\ 1 \in DOMAIN toClient /\ f.seq \in Nat /\ link = "ready"
    BY <1>3, HandledFacts, Zenon DEF Shifted
  <2>4. \A k \in DOMAIN toClient : ~ (k < 1)
    BY LenProperties DEF StreamInv, TypeOK
  <2>5. f.seq <= cursor[2] + 1
    BY <1>4, <1>5, <2>3, <2>4, Zenon DEF SyncInv, NoHole
  <2>6. cursor[2] \in Nat
    BY <2>1, CursorBehind, Zenon
  <2>7. f.seq <= cursor[2]
    BY ONLY <2>1, <2>2, <2>3, <2>5, <2>6, SMTT(30)
  <2> QED
    BY <2>1, <2>2, <2>7, Zenon DEF Duplicate
<1>6. desynced' = desynced
  BY <1>1, <1>5, Zenon DEF StreamInv, TypeOK
<1>7. desynced \/ (cursor # None /\ f.epoch = cursor[1] /\ f.seq <= cursor[2])
  BY <1>5, Zenon
<1> QED
  BY <1>1, <1>3, <1>4, <1>6, <1>7, IgnoreSync, Zenon

=============================================================================
