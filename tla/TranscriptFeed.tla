--------------------------- MODULE TranscriptFeed ---------------------------
(***************************************************************************)
(* What the transcript stream of a session promises to one reader.  The    *)
(* session is a timeline: cursors <<epoch, seq>>, each with the transcript *)
(* the session had there, never rewritten.  The reader holds no copy, or   *)
(* exactly the transcript of its cursor.  It follows the timeline one      *)
(* cursor at a time or loads the transcript of a cursor of its epoch as a  *)
(* whole; it changes epoch only by forgetting its copy.                    *)
(***************************************************************************)
EXTENDS Integers

CONSTANT None

VARIABLES hist,    \* the timeline: cursor -> transcript
          head,    \* the session's current cursor
          cursor,  \* the reader's cursor, or None
          copy     \* the reader's copy, or None

feedVars == <<hist, head, cursor, copy>>

Later(c, d) == c[1] > d[1] \/ (c[1] = d[1] /\ c[2] > d[2])

Init ==
  /\ head \in DOMAIN hist
  /\ cursor = None /\ copy = None

\* The session moves on; the past of the timeline stays.
Write ==
  /\ Later(head', head) /\ head' \in DOMAIN hist'
  /\ DOMAIN hist \subseteq DOMAIN hist'
  /\ \A c \in DOMAIN hist : hist'[c] = hist[c]
  /\ UNCHANGED <<cursor, copy>>

Follow ==
  /\ cursor # None
  /\ cursor' = <<cursor[1], cursor[2] + 1>>
  /\ cursor' \in DOMAIN hist /\ copy' = hist[cursor']
  /\ UNCHANGED <<hist, head>>

Load ==
  /\ cursor' \in DOMAIN hist /\ copy' = hist[cursor']
  /\ cursor # None => cursor'[1] = cursor[1]
  /\ UNCHANGED <<hist, head>>

Forget ==
  /\ cursor # None /\ head[1] > cursor[1]
  /\ cursor' = None /\ copy' = None
  /\ UNCHANGED <<hist, head>>

Next == Write \/ Follow \/ Load \/ Forget

Spec == Init /\ [][Next]_feedVars
============================================================================
