------------------------ MODULE CommandRetentionProofs ------------------------
(***************************************************************************)
(* Proofs about CommandRetention: what the IdempotencyStore answers is     *)
(* what the latest execution answered, and an outcome is dropped only when *)
(* it is due, for every number of commands, deliveries and retained        *)
(* outcomes.  They rest on the invariant of CommandExecution, which        *)
(* PromptExecutionProofs establishes.                                      *)
(***************************************************************************)
EXTENDS CommandRetention, PromptExecutionProofs, FiniteSetTheorems, WellFoundedInduction

-----------------------------------------------------------------------------
(* Orders and their newest elements *)

\* A non-empty set of naturals has a smallest element.
LEMMA LeastNat ==
  ASSUME NEW T, T \subseteq Nat, T # {}
  PROVE  \E i \in T : \A j \in T : i <= j
<1>1. \E i \in T : \A j \in T : ~ (<<j, i>> \in OpToRel(<, Nat))
  BY NatLessThanWellFounded, WFMin, Zenon
<1>2. \A i, j \in Nat : j < i => <<j, i>> \in OpToRel(<, Nat)
  BY Zenon DEF OpToRel
<1>3. \E i \in T : \A j \in T : ~ (j < i)
  BY <1>1, <1>2, Zenon
<1> QED
  BY <1>3

\* A set inside another has fewer elements, or is the other.
LEMMA FewerElements ==
  ASSUME NEW S, IsFiniteSet(S), NEW T, T \subseteq S
  PROVE  /\ IsFiniteSet(T) /\ Cardinality(T) \in Nat /\ Cardinality(S) \in Nat
         /\ Cardinality(T) <= Cardinality(S)
         /\ T # S => Cardinality(T) < Cardinality(S)
<1>1. T \in SUBSET S
  OBVIOUS
<1>2. IsFiniteSet(T) /\ Cardinality(T) <= Cardinality(S) /\ (Cardinality(S) = Cardinality(T) => S = T)
  BY <1>1, FS_Subset, Zenon
<1>3. Cardinality(T) \in Nat /\ Cardinality(S) \in Nat
  BY <1>2, FS_CardinalityType, Zenon
<1> QED
  BY <1>2, <1>3

\* The elements of S that come after x in the order o.
After(S, o, x) == {y \in S : <<x, y>> \in o}

\* In an order, what is later has less after it.
LEMMA LaterHasLess ==
  ASSUME NEW S, IsFiniteSet(S), NEW o,
         \A a \in S : <<a, a>> \notin o,
         \A a, b, c \in S : <<a, b>> \in o /\ <<b, c>> \in o => <<a, c>> \in o,
         NEW x \in S, NEW y \in S, <<x, y>> \in o
  PROVE  Cardinality(After(S, o, y)) < Cardinality(After(S, o, x))
<1>1. After(S, o, y) \subseteq After(S, o, x)
  BY Zenon DEF After
<1>2. y \in After(S, o, x) /\ y \notin After(S, o, y)
  BY Zenon DEF After
<1>3. IsFiniteSet(After(S, o, x))
  <2>1. After(S, o, x) \subseteq S
    BY Zenon DEF After
  <2> QED
    BY <2>1, FewerElements, Zenon
<1> QED
  BY <1>1, <1>2, <1>3, FewerElements, Zenon

\* If n elements come after c, then those that have fewer than n after them all
\* come after c, and there are at least n of them.
LEMMA NewestRemain ==
  ASSUME NEW S, IsFiniteSet(S), NEW o,
         \A a \in S : <<a, a>> \notin o,
         \A a, b, c \in S : <<a, b>> \in o /\ <<b, c>> \in o => <<a, c>> \in o,
         \A a, b \in S : a = b \/ <<a, b>> \in o \/ <<b, a>> \in o,
         NEW n \in Nat, NEW x \in S, Cardinality(After(S, o, x)) >= n,
         NEW K, K = {y \in S : ~ (Cardinality(After(S, o, y)) >= n)}
  PROVE  /\ \A y \in K : <<x, y>> \in o
         /\ IsFiniteSet(K) /\ Cardinality(K) >= n
<1>1. ASSUME NEW y \in S PROVE IsFiniteSet(After(S, o, y)) /\ Cardinality(After(S, o, y)) \in Nat
  <2>1. After(S, o, y) \subseteq S
    BY Zenon DEF After
  <2> QED
    BY <2>1, FewerElements, Zenon
<1>2. ASSUME NEW y \in K PROVE <<x, y>> \in o
  <2>1. y \in S /\ Cardinality(After(S, o, y)) < Cardinality(After(S, o, x))
    BY <1>1
  <2>2. y # x
    BY <2>1, <1>1, Zenon
  <2>3. ~ (<<y, x>> \in o)
    <3>1. ASSUME <<y, x>> \in o PROVE Cardinality(After(S, o, x)) < Cardinality(After(S, o, y))
      BY <3>1, <2>1, LaterHasLess, Zenon
    <3> QED
      BY <3>1, <2>1, <1>1
  <2> QED
    BY <2>1, <2>2, <2>3, Zenon
<1>3. K \subseteq S /\ IsFiniteSet(K) /\ Cardinality(K) \in Nat
  <2>1. K \subseteq S
    OBVIOUS
  <2> QED
    BY <2>1, FewerElements, Zenon
<1>4. Cardinality(K) >= n
  <2> SUFFICES ASSUME Cardinality(K) < n PROVE FALSE
    BY <1>3
  <2> DEFINE T == {Cardinality(After(S, o, y)) : y \in S \ K}
  <2>1. x \in S \ K
    BY <1>1, Zenon
  <2>2. T \subseteq Nat /\ T # {}
    BY <2>1, <1>1
  <2>3. PICK i \in T : \A j \in T : i <= j
    BY <2>2, LeastNat, Zenon
  <2>4. PICK m \in S \ K : i = Cardinality(After(S, o, m))
    BY <2>3, Zenon
  <2>5. After(S, o, m) \subseteq K
    <3> SUFFICES ASSUME NEW y \in After(S, o, m), y \notin K PROVE FALSE
      OBVIOUS
    <3>1. y \in S /\ <<m, y>> \in o
      BY Zenon DEF After
    <3>2. Cardinality(After(S, o, y)) < Cardinality(After(S, o, m))
      BY <3>1, LaterHasLess, Zenon
    <3>3. Cardinality(After(S, o, y)) \in T
      BY <3>1, Zenon
    <3> QED
      BY <2>3, <2>4, <3>1, <3>2, <3>3, <1>1
  <2>6. Cardinality(After(S, o, m)) <= Cardinality(K)
    BY <2>5, <1>3, FewerElements, Zenon
  <2>7. Cardinality(After(S, o, m)) >= n
    BY <2>4, Zenon
  <2> QED
    BY <2>6, <2>7, <1>1, <1>3
<1> QED
  BY <1>2, <1>3, <1>4, Zenon

-----------------------------------------------------------------------------
(* The iteration order of the Map *)

\* Deleting entries leaves the order of the others.
LEMMA OrderedWithout ==
  ASSUME NEW S, NEW o, Ordered(S, o), NEW gone
  PROVE  Ordered(S \ gone, OrderWithout(o, gone))
<1>1. \A a, b : <<a, b>> \in OrderWithout(o, gone) <=> <<a, b>> \in o /\ a \notin gone /\ b \notin gone
  BY Zenon DEF OrderWithout
<1>2. OrderWithout(o, gone) \subseteq (S \ gone) \X (S \ gone)
  BY Zenon DEF OrderWithout, Ordered
<1>3. \A a, b \in S \ gone : <<a, b>> \in OrderWithout(o, gone) <=> <<a, b>> \in o
  BY <1>1, Zenon
<1> HIDE DEF OrderWithout
<1> QED
  BY <1>2, <1>3, Zenon DEF Ordered

\* Setting a key anew puts it last.
LEMMA OrderedTouch ==
  ASSUME NEW e, Ordered(Known(e), older), NEW c \in Command
  PROVE  /\ Ordered(Known(e) \cup {c}, Touch(e, older, c))
         /\ \A a, b \in Known(e) \ {c} : <<a, b>> \in Touch(e, older, c) <=> <<a, b>> \in older
         /\ \A a \in Known(e) \ {c} : <<a, c>> \in Touch(e, older, c)
         /\ \A b : <<c, b>> \notin Touch(e, older, c)
<1> DEFINE S == Known(e)
           t == Touch(e, older, c)
<1>1. \A a, b : <<a, b>> \in t <=>
        \/ <<a, b>> \in older /\ a # c /\ b # c
        \/ a \in S \ {c} /\ b = c
  BY Zenon DEF Touch
<1>2. t \subseteq (S \cup {c}) \X (S \cup {c})
  BY DEF Touch, Ordered
<1>3. Ordered(S, older)
  OBVIOUS
<1> HIDE DEF t, S
<1>4. \A a \in S \cup {c} : <<a, a>> \notin t
  BY <1>1, <1>3, Zenon DEF Ordered
<1>5. \A a, b, d \in S \cup {c} : <<a, b>> \in t /\ <<b, d>> \in t => <<a, d>> \in t
  BY <1>1, <1>3 DEF Ordered
<1>6. \A a, b \in S \cup {c} : a = b \/ <<a, b>> \in t \/ <<b, a>> \in t
  BY <1>1, <1>3, Zenon DEF Ordered
<1>7. Ordered(S \cup {c}, t)
  BY <1>2, <1>4, <1>5, <1>6, Zenon DEF Ordered
<1>8. /\ \A a, b \in S \ {c} : <<a, b>> \in t <=> <<a, b>> \in older
      /\ \A a \in S \ {c} : <<a, c>> \in t
      /\ \A b : <<c, b>> \notin t
  BY <1>1, Zenon
<1> QED
  BY <1>7, <1>8, Zenon DEF S, t

\* A new key is put last.
LEMMA OrderedAppend ==
  ASSUME NEW S, NEW o, Ordered(S, o), NEW c, c \notin S
  PROVE  Ordered(S \cup {c}, o \cup {<<d, c>> : d \in S})
<1> DEFINE t == o \cup {<<d, c>> : d \in S}
<1>1. \A a, b : <<a, b>> \in t <=> <<a, b>> \in o \/ (a \in S /\ b = c)
  OBVIOUS
<1>2. t \subseteq (S \cup {c}) \X (S \cup {c})
  BY DEF Ordered
<1>3. \A a, b : <<a, b>> \in o => a \in S /\ b \in S
  BY Zenon DEF Ordered
<1> HIDE DEF t
<1>4. \A a \in S \cup {c} : <<a, a>> \notin t
  BY <1>1, <1>3, Zenon DEF Ordered
<1>5. \A a, b, d \in S \cup {c} : <<a, b>> \in t /\ <<b, d>> \in t => <<a, d>> \in t
  BY <1>1, <1>3, Zenon DEF Ordered
<1>6. \A a, b \in S \cup {c} : a = b \/ <<a, b>> \in t \/ <<b, a>> \in t
  BY <1>1, <1>3, Zenon DEF Ordered
<1>7. Ordered(S \cup {c}, t)
  BY <1>2, <1>4, <1>5, <1>6, Zenon DEF Ordered
<1> QED
  BY <1>7, Zenon DEF t

-----------------------------------------------------------------------------
(* #prune *)

\* What #prune leaves: the entries it does not delete, in their order.  A deleted
\* one expired, or at least MaxCompleted completed ones that come later are left.
LEMMA PruneEffect ==
  ASSUME NEW e \in [Command -> Entry \cup {None}], NEW o, IsFiniteSet(Known(e)), Ordered(Known(e), o),
         NEW rest, rest = EntriesWithout(e, Pruned(e, o))
  PROVE  /\ Known(rest) = Known(e) \ Pruned(e, o) /\ IsFiniteSet(Known(rest))
         /\ Completed(rest) = Completed(e) \ Pruned(e, o)
         /\ \A c \in Completed(rest) : rest[c] = e[c]
         /\ \A c \in Pruned(e, o) :
              \/ c \in Expired(e)
              \/ /\ Cardinality(Completed(rest)) >= MaxCompleted
                 /\ \A d \in Completed(rest) : <<c, d>> \in o
<1> DEFINE gone == Pruned(e, o)
           fresh == Completed(e) \ Expired(e)
           K == {d \in fresh : ~ (Cardinality(After(fresh, o, d)) >= MaxCompleted)}
<1>1. \A c \in Command : rest[c] = IF c \in gone THEN None ELSE e[c]
  BY EntriesWithoutType
<1>2. gone \subseteq Completed(e) /\ Completed(e) \subseteq Known(e) /\ Known(e) \subseteq Command
  BY PrunedCompleted, Zenon DEF Completed, Known
<1>3. Known(rest) = Known(e) \ gone /\ Completed(rest) = Completed(e) \ gone
  BY <1>1, <1>2, Zenon DEF Known, Completed
<1>4. \A c \in Completed(rest) : rest[c] = e[c]
  BY <1>1, <1>2, <1>3, Zenon
<1>5. IsFiniteSet(Known(rest)) /\ IsFiniteSet(fresh)
  <2>1. Known(rest) \subseteq Known(e) /\ fresh \subseteq Known(e)
    BY <1>2, <1>3, Zenon
  <2> QED
    BY <2>1, FewerElements, Zenon
<1>6. gone = Expired(e) \cup {c \in fresh : Cardinality(After(fresh, o, c)) >= MaxCompleted}
  BY Zenon DEF Pruned, After
<1>7. Completed(rest) = K
  BY <1>3, <1>6, Zenon
<1>8. ASSUME NEW c \in gone, c \notin Expired(e)
      PROVE  Cardinality(Completed(rest)) >= MaxCompleted /\ \A d \in Completed(rest) : <<c, d>> \in o
  <2>1. c \in fresh /\ Cardinality(After(fresh, o, c)) >= MaxCompleted
    BY <1>6, <1>8, Zenon
  <2>2. fresh \subseteq Known(e)
    BY <1>2, Zenon
  <2> HIDE DEF fresh
  <2>3. /\ \A a \in fresh : <<a, a>> \notin o
        /\ \A a, b, d \in fresh : <<a, b>> \in o /\ <<b, d>> \in o => <<a, d>> \in o
        /\ \A a, b \in fresh : a = b \/ <<a, b>> \in o \/ <<b, a>> \in o
    BY <2>2, Zenon DEF Ordered
  <2>4. MaxCompleted \in Nat
    BY StoreAssumption, Zenon
  <2>6. PICK L : L = K
    BY Zenon
  <2>7. IsFiniteSet(fresh)
    BY <1>5, Zenon
  <2> HIDE DEF K
  <2>8. L = {y \in fresh : ~ (Cardinality(After(fresh, o, y)) >= MaxCompleted)}
    BY <2>6, Zenon DEF K
  <2>5. Cardinality(L) >= MaxCompleted /\ \A d \in L : <<c, d>> \in o
    BY ONLY <2>1, <2>3, <2>4, <2>7, <2>8, NewestRemain
  <2> QED
    BY <2>5, <2>6, <1>7, Zenon
<1> QED
  BY <1>3, <1>4, <1>5, <1>8, Zenon

-----------------------------------------------------------------------------
(* The store and the history *)

\* What a completed entry of e says of c is what the execution x of c was.
Matches(e, c, x) ==
  /\ x # None
  /\ x.payload = e[c].hash
  /\ x.answer = e[c].outcome
  /\ x.at = e[c].at

\* What the store keeps, when its entries e are pruned in the order o and left
\* in the order t, and e and t agree with the history.
LEMMA StoreKeeps ==
  ASSUME NEW e \in [Command -> Entry \cup {None}], NEW o, NEW t, IsFiniteSet(Known(e)),
         Ordered(Known(e), o), Ordered(Known(e), t),
         entries' = EntriesWithout(e, Pruned(e, o)), older' = OrderWithout(t, Pruned(e, o)),
         \A c \in Pruned(e, o), d \in Completed(e) : <<c, d>> \in o => <<c, d>> \in t,
         \A c \in Completed(e) : Matches(e, c, last'[c]),
         \A c, d \in Completed(e) : <<c, d>> \in t => <<c, d>> \in recent'
  PROVE  /\ StoreTrue'
         /\ IsFiniteSet(Known(entries')) /\ Ordered(Known(entries'), older')
         /\ OrderTrue'
         /\ \A c \in Completed(e) \ Completed(entries') :
              \/ now - e[c].at >= Ttl
              \/ Cardinality({d \in Completed(entries') : <<c, d>> \in recent'}) >= MaxCompleted
<1> DEFINE gone == Pruned(e, o)
<1>1. /\ Known(entries') = Known(e) \ gone /\ IsFiniteSet(Known(entries'))
      /\ Completed(entries') = Completed(e) \ gone
      /\ \A c \in Completed(entries') : entries'[c] = e[c]
      /\ \A c \in gone :
           \/ c \in Expired(e)
           \/ /\ Cardinality(Completed(entries')) >= MaxCompleted
              /\ \A d \in Completed(entries') : <<c, d>> \in o
  BY PruneEffect
<1>2. StoreTrue'
  <2>1. \A c \in Completed(entries') : Matches(e, c, last'[c]) /\ entries'[c] = e[c]
    BY <1>1, Zenon
  <2> QED
    BY <2>1, Zenon DEF StoreTrue, Matches
<1>3. Ordered(Known(entries'), older')
  <2>1. Ordered(Known(e) \ gone, OrderWithout(t, gone))
    BY OrderedWithout, Zenon
  <2> QED
    BY <2>1, <1>1, Zenon
<1>4. OrderTrue'
  <2>1. older' \subseteq t
    BY Zenon DEF OrderWithout
  <2>2. Completed(entries') \subseteq Completed(e)
    BY <1>1, Zenon
  <2> QED
    BY <2>1, <2>2, Zenon DEF OrderTrue
<1>5. ASSUME NEW c \in Completed(e), c \notin Completed(entries')
      PROVE  \/ now - e[c].at >= Ttl
             \/ Cardinality({d \in Completed(entries') : <<c, d>> \in recent'}) >= MaxCompleted
  <2>1. c \in gone
    BY <1>1, <1>5, Zenon
  <2>2. CASE c \in Expired(e)
    BY <2>2, Zenon DEF Expired
  <2>3. CASE c \notin Expired(e)
    <3>1. Cardinality(Completed(entries')) >= MaxCompleted /\ \A d \in Completed(entries') : <<c, d>> \in o
      BY <2>1, <2>3, <1>1, Zenon
    <3>2. \A d \in Completed(entries') : d \in Completed(e)
      BY <1>1, Zenon
    <3>3. \A d \in Completed(entries') : <<c, d>> \in recent'
      BY <3>1, <3>2, <2>1, Zenon
    <3>4. {d \in Completed(entries') : <<c, d>> \in recent'} = Completed(entries')
      BY <3>3, Zenon
    <3> QED
      BY <3>1, <3>4, Zenon
  <2> QED
    BY <2>2, <2>3, Zenon
<1> QED
  BY <1>1, <1>2, <1>3, <1>4, <1>5, Zenon

\* A use of a command makes it the latest used one and leaves the others.
LEMMA UsedEffect ==
  ASSUME recent \subseteq Command \X Command, NEW c \in Command, Used(c)
  PROVE  /\ recent' \subseteq Command \X Command
         /\ \A a, b \in Command \ {c} : <<a, b>> \in recent' <=> <<a, b>> \in recent
         /\ \A a \in Command \ {c} : <<a, c>> \in recent'
BY DEF Used

\* #prune at the begin() of a command that conflicts or is pending.
LEMMA PruneStoreTrue ==
  ASSUME RetentionInv, PruneStore, UNCHANGED historyVars
  PROVE  /\ HistoryType' /\ StoreTrue' /\ OrderTrue'
         /\ IsFiniteSet(Known(entries')) /\ Ordered(Known(entries'), older')
         /\ \A c \in Completed(entries) \ Completed(entries') : Due(c)
<1>1. /\ entries \in [Command -> Entry \cup {None}]
      /\ IsFiniteSet(Known(entries)) /\ Ordered(Known(entries), older)
      /\ StoreTrue /\ OrderTrue /\ HistoryType
  BY Zenon DEF RetentionInv, ExecutionInv, TypeOK
<1>2. last' = last /\ recent' = recent
  BY Zenon DEF historyVars
<1>3. /\ entries' = EntriesWithout(entries, Pruned(entries, older))
      /\ older' = OrderWithout(older, Pruned(entries, older))
  BY Zenon DEF PruneStore
<1>4. \A c \in Completed(entries) : Matches(entries, c, last'[c])
  BY <1>1, <1>2, Zenon DEF StoreTrue, Matches
<1>5. \A c, d \in Completed(entries) : <<c, d>> \in older => <<c, d>> \in recent'
  BY <1>1, <1>2, Zenon DEF OrderTrue
<1>6. /\ StoreTrue'
      /\ IsFiniteSet(Known(entries')) /\ Ordered(Known(entries'), older')
      /\ OrderTrue'
      /\ \A c \in Completed(entries) \ Completed(entries') :
           \/ now - entries[c].at >= Ttl
           \/ Cardinality({d \in Completed(entries') : <<c, d>> \in recent'}) >= MaxCompleted
  BY <1>1, <1>3, <1>4, <1>5, StoreKeeps, Zenon
<1>7. \A c \in Completed(entries) : last[c].at = entries[c].at
  BY <1>1, Zenon DEF StoreTrue
<1>8. HistoryType'
  BY <1>1, <1>2, Zenon DEF HistoryType
<1> QED
  BY <1>6, <1>7, <1>8, Zenon DEF Due

\* A replay: what it drops was used before what it replays.
LEMMA BeginReplayTrue ==
  ASSUME RetentionInv, NEW r \in Request, NEW x \in Command, NEW p \in Payload,
         BeginReplay(r, x, p), Used(x), last' = last
  PROVE  /\ HistoryType' /\ StoreTrue' /\ OrderTrue' /\ AnswersAgree'
         /\ IsFiniteSet(Known(entries')) /\ Ordered(Known(entries'), older')
         /\ \A c \in Completed(entries) \ Completed(entries') : Due(c)
<1> DEFINE gone == Pruned(entries, older)
           t == Touch(entries, older, x)
<1>1. /\ entries \in [Command -> Entry \cup {None}]
      /\ IsFiniteSet(Known(entries)) /\ Ordered(Known(entries), older)
      /\ StoreTrue /\ OrderTrue /\ HistoryType /\ now \in Time
  BY Zenon DEF RetentionInv, ExecutionInv, TypeOK
<1>2. /\ ~ Forgotten(x) /\ x \in Completed(entries) /\ SamePayload(x, p)
      /\ entries' = EntriesWithout(entries, gone) /\ older' = OrderWithout(t, gone)
      /\ Respond(x, p, entries[x].outcome) /\ now' = now
  BY Zenon DEF BeginReplay
<1>3. /\ recent' \subseteq Command \X Command
      /\ \A a, b \in Command \ {x} : <<a, b>> \in recent' <=> <<a, b>> \in recent
      /\ \A a \in Command \ {x} : <<a, x>> \in recent'
  BY <1>1, UsedEffect, Zenon DEF HistoryType
<1>4. HistoryType'
  BY <1>1, <1>3, Zenon DEF HistoryType
<1>5. Completed(entries) \subseteq Known(entries) /\ Known(entries) \subseteq Command
  BY Zenon DEF Completed, Known
<1>6. Known(entries) \cup {x} = Known(entries)
  BY <1>2, <1>5, Zenon
<1>7. /\ Ordered(Known(entries) \cup {x}, t)
      /\ \A a, b \in Known(entries) \ {x} : <<a, b>> \in t <=> <<a, b>> \in older
      /\ \A a \in Known(entries) \ {x} : <<a, x>> \in t
      /\ \A b : <<x, b>> \notin t
  BY <1>1, OrderedTouch, Zenon
<1>8. Ordered(Known(entries), t)
  BY <1>6, <1>7, Zenon
<1>9. x \notin gone /\ gone \subseteq Completed(entries)
  BY <1>2, PrunedCompleted, Zenon DEF Forgotten
<1>10. \A c \in gone, d \in Completed(entries) : <<c, d>> \in older => <<c, d>> \in t
  BY <1>7, <1>9, <1>5, Zenon
<1>11. \A c \in Completed(entries) : Matches(entries, c, last'[c])
  BY <1>1, Zenon DEF StoreTrue, Matches
<1>12. \A c, d \in Completed(entries) : <<c, d>> \in t => <<c, d>> \in recent'
  <2> SUFFICES ASSUME NEW c \in Completed(entries), NEW d \in Completed(entries), <<c, d>> \in t
               PROVE  <<c, d>> \in recent'
    BY Zenon
  <2>1. c # x /\ c \in Command /\ d \in Command
    BY <1>7, <1>5, Zenon
  <2>2. CASE d = x
    BY <2>1, <2>2, <1>3, Zenon
  <2>3. CASE d # x
    <3>1. <<c, d>> \in older
      BY <2>1, <2>3, <1>5, <1>7, Zenon
    <3>2. <<c, d>> \in recent
      BY <3>1, <1>1, Zenon DEF OrderTrue
    <3> QED
      BY <3>2, <2>1, <2>3, <1>3, Zenon
  <2> QED
    BY <2>2, <2>3, Zenon
<1> HIDE DEF t
<1>13. /\ StoreTrue'
       /\ IsFiniteSet(Known(entries')) /\ Ordered(Known(entries'), older')
       /\ OrderTrue'
       /\ \A c \in Completed(entries) \ Completed(entries') :
            \/ now - entries[c].at >= Ttl
            \/ Cardinality({d \in Completed(entries') : <<c, d>> \in recent'}) >= MaxCompleted
  BY <1>1, <1>2, <1>8, <1>10, <1>11, <1>12, StoreKeeps, Zenon
<1>14. \A c \in Completed(entries) : last[c].at = entries[c].at
  BY <1>1, Zenon DEF StoreTrue
<1>15. \A c \in Completed(entries) \ Completed(entries') : Due(c)
  BY <1>13, <1>14, Zenon DEF Due
<1>16. AnswersAgree'
  <2>1. reply'.cmd = x /\ reply'.payload = p /\ reply'.answer = entries[x].outcome
    BY <1>2, Zenon DEF Respond
  <2>2. last[x] # None /\ last[x].payload = p /\ last[x].answer = entries[x].outcome
        /\ last[x].at = entries[x].at
    BY <1>1, <1>2, Zenon DEF StoreTrue, SamePayload
  <2>3. x \notin Expired(entries)
    BY <1>9, Zenon DEF Pruned
  <2>4. entries[x].at \in Time
    BY <1>1, <1>2, <1>5, Zenon DEF Entry, Known
  <2>5. now < last[x].at \/ now - last[x].at < Ttl
    BY <2>2, <2>3, <2>4, <1>1, <1>2, StoreAssumption, TimeAssumption DEF Expired, Time
  <2> QED
    BY <2>1, <2>2, <2>5, <1>2, Zenon DEF AnswersAgree
<1> QED
  BY <1>4, <1>13, <1>15, <1>16, Zenon

\* What settles an outcome is not dropped by the prune that follows.
LEMMA SettledStays ==
  ASSUME NEW e \in [Command -> Entry \cup {None}], NEW t, NEW x \in Completed(e),
         now \in Time, e[x].at = now, \A b : <<x, b>> \notin t
  PROVE  x \notin Pruned(e, t)
<1> DEFINE fresh == Completed(e) \ Expired(e)
<1>1. x \notin Expired(e)
  BY StoreAssumption, TimeAssumption DEF Expired, Time
<1>2. {d \in fresh : <<x, d>> \in t} = {}
  BY Zenon
<1>3. Cardinality({}) = 0
  BY FS_EmptySet, Zenon
<1>4. ~ (Cardinality({d \in fresh : <<x, d>> \in t}) >= MaxCompleted)
  <2>1. Cardinality({d \in fresh : <<x, d>> \in t}) = 0
    BY <1>2, <1>3, Zenon
  <2>2. ~ (0 >= MaxCompleted)
    BY StoreAssumption
  <2> QED
    BY <2>1, <2>2, Zenon
<1> HIDE DEF fresh
<1>5. x \notin {c \in fresh : Cardinality({d \in fresh : <<c, d>> \in t}) >= MaxCompleted}
  BY <1>4, Zenon
<1> QED
  BY <1>1, <1>5, Zenon DEF Pruned, fresh

\* complete() of a pending or forgotten command: its outcome is the latest.
LEMMA SettleTrue ==
  ASSUME RetentionInv, NEW x \in Command, NEW p \in Payload, NEW o \in Outcome,
         Complete(x, p, o), ~ (x \in Completed(entries) /\ ~ Forgotten(x)),
         Executed(x, p, o), Respond(x, p, o), now' = now
  PROVE  /\ HistoryType' /\ StoreTrue' /\ OrderTrue' /\ AnswersAgree'
         /\ IsFiniteSet(Known(entries')) /\ Ordered(Known(entries'), older')
         /\ \A c \in Completed(entries) \ Completed(entries') : Due(c)
<1> DEFINE e == [entries EXCEPT ![x] = [hash |-> p, outcome |-> o, at |-> now]]
           t == Touch(entries, older, x)
           done == [payload |-> p, answer |-> o, at |-> now]
<1>1. /\ entries \in [Command -> Entry \cup {None}]
      /\ IsFiniteSet(Known(entries)) /\ Ordered(Known(entries), older)
      /\ StoreTrue /\ OrderTrue /\ HistoryType /\ now \in Time
  BY Zenon DEF RetentionInv, ExecutionInv, TypeOK
<1>2. entries' = EntriesWithout(e, Pruned(e, t)) /\ older' = OrderWithout(t, Pruned(e, t))
  BY Zenon DEF Complete
<1>3. /\ e \in [Command -> Entry \cup {None}]
      /\ e[x].hash = p /\ e[x].outcome = o /\ e[x].at = now /\ e[x] # None
      /\ \A c \in Command \ {x} : e[c] = entries[c]
  <2>1. [hash |-> p, outcome |-> o, at |-> now] \in Entry
    BY <1>1, Zenon DEF Entry
  <2>2. [hash |-> p, outcome |-> o, at |-> now] # None
    BY <2>1, EntryAssumption, Zenon
  <2>3. e[x] = [hash |-> p, outcome |-> o, at |-> now] /\ \A c \in Command \ {x} : e[c] = entries[c]
    BY <1>1, Zenon
  <2>4. e \in [Command -> Entry \cup {None}]
    BY <1>1, <2>1, Zenon
  <2> HIDE DEF e
  <2> QED
    BY <2>2, <2>3, <2>4
<1> HIDE DEF e
<1>4. Known(e) = Known(entries) \cup {x} /\ Completed(e) = Completed(entries) \cup {x}
  BY <1>3, AnswerAssumption, Zenon DEF Known, Completed
<1>5. IsFiniteSet(Known(e))
  BY <1>1, <1>4, FS_AddElement
<1>6. /\ Ordered(Known(e), t)
      /\ \A a, b \in Known(entries) \ {x} : <<a, b>> \in t <=> <<a, b>> \in older
      /\ \A a \in Known(entries) \ {x} : <<a, x>> \in t
      /\ \A b : <<x, b>> \notin t
  <2>1. /\ Ordered(Known(entries) \cup {x}, t)
        /\ \A a, b \in Known(entries) \ {x} : <<a, b>> \in t <=> <<a, b>> \in older
        /\ \A a \in Known(entries) \ {x} : <<a, x>> \in t
        /\ \A b : <<x, b>> \notin t
    BY <1>1, OrderedTouch, Zenon
  <2> QED
    BY <2>1, <1>4, Zenon
<1> HIDE DEF t
<1>7. last' = [last EXCEPT ![x] = done] /\ Used(x)
  BY Zenon DEF Executed
<1>8. /\ recent' \subseteq Command \X Command
      /\ \A a, b \in Command \ {x} : <<a, b>> \in recent' <=> <<a, b>> \in recent
      /\ \A a \in Command \ {x} : <<a, x>> \in recent'
  BY <1>1, <1>7, UsedEffect, Zenon DEF HistoryType
<1>9. /\ done \in Execution /\ done # None
      /\ done.payload = p /\ done.answer = o /\ done.at = now
  BY <1>1, ExecutionAssumption DEF Execution
<1> HIDE DEF done
<1>10. /\ last' \in [Command -> Execution \cup {None}]
       /\ last'[x] = done /\ \A c \in Command \ {x} : last'[c] = last[c]
  BY <1>1, <1>7, <1>9, Zenon DEF HistoryType
<1>11. HistoryType'
  BY <1>8, <1>10, Zenon DEF HistoryType
<1>12. Completed(entries) \subseteq Known(entries) /\ Known(entries) \subseteq Command
  BY Zenon DEF Completed, Known
<1>13. \A c \in Completed(e) : Matches(e, c, last'[c])
  <2> SUFFICES ASSUME NEW c \in Completed(e) PROVE Matches(e, c, last'[c])
    BY Zenon
  <2>1. CASE c = x
    BY <2>1, <1>3, <1>9, <1>10, Zenon DEF Matches
  <2>2. CASE c # x
    <3>1. c \in Completed(entries) /\ e[c] = entries[c] /\ last'[c] = last[c]
      BY <2>2, <1>3, <1>4, <1>10, <1>12, Zenon
    <3> QED
      BY <3>1, <1>1, Zenon DEF Matches, StoreTrue
  <2> QED
    BY <2>1, <2>2, Zenon
<1>14. \A c, d \in Completed(e) : <<c, d>> \in t => <<c, d>> \in recent'
  <2> SUFFICES ASSUME NEW c \in Completed(e), NEW d \in Completed(e), <<c, d>> \in t
               PROVE  <<c, d>> \in recent'
    BY Zenon
  <2>1. c # x /\ c \in Completed(entries) /\ c \in Command
    BY <1>4, <1>6, <1>12, Zenon
  <2>2. CASE d = x
    BY <2>1, <2>2, <1>8, Zenon
  <2>3. CASE d # x
    <3>1. d \in Completed(entries) /\ d \in Command
      BY <2>3, <1>4, <1>12, Zenon
    <3>2. <<c, d>> \in older
      BY <2>1, <2>3, <3>1, <1>6, <1>12, Zenon
    <3>3. <<c, d>> \in recent
      BY <2>1, <3>1, <3>2, <1>1, Zenon DEF OrderTrue
    <3> QED
      BY <2>1, <2>3, <3>1, <3>3, <1>8, Zenon
  <2> QED
    BY <2>2, <2>3, Zenon
<1>15. /\ StoreTrue'
       /\ IsFiniteSet(Known(entries')) /\ Ordered(Known(entries'), older')
       /\ OrderTrue'
       /\ \A c \in Completed(e) \ Completed(entries') :
            \/ now - e[c].at >= Ttl
            \/ Cardinality({d \in Completed(entries') : <<c, d>> \in recent'}) >= MaxCompleted
  BY <1>2, <1>3, <1>5, <1>6, <1>13, <1>14, StoreKeeps, Zenon
<1>16. x \in Completed(entries')
  <2>1. x \in Completed(e)
    BY <1>4, Zenon
  <2>2. x \notin Pruned(e, t)
    BY <2>1, <1>1, <1>3, <1>6, SettledStays, Zenon
  <2>3. Completed(entries') = Completed(e) \ Pruned(e, t)
    BY <1>2, <1>3, <1>5, <1>6, PruneEffect, Zenon
  <2> QED
    BY <2>1, <2>2, <2>3, Zenon
<1>17. ASSUME NEW c \in Completed(entries), c \notin Completed(entries') PROVE Due(c)
  <2>1. c # x /\ c \in Completed(e)
    BY <1>4, <1>16, <1>17, Zenon
  <2>2. e[c] = entries[c] /\ last[c].at = entries[c].at
    BY <2>1, <1>1, <1>3, <1>12, Zenon DEF StoreTrue
  <2> QED
    BY <2>1, <2>2, <1>15, <1>17, Zenon DEF Due
<1>18. AnswersAgree'
  <2>1. reply'.cmd = x /\ reply'.payload = p /\ reply'.answer = o
    BY Zenon DEF Respond
  <2>2. now - done.at < Ttl
    BY <1>9, <1>1, StoreAssumption, TimeAssumption DEF Time
  <2> QED
    BY <2>1, <2>2, <1>9, <1>10, Zenon DEF AnswersAgree
<1> QED
  BY <1>11, <1>15, <1>17, <1>18, Zenon

\* begin() of a forgotten command: it comes last and is pending.
LEMMA BeginNewTrue ==
  ASSUME RetentionInv, NEW r \in Request, NEW x \in Command, NEW p \in Payload,
         BeginNew(r, x, p), UNCHANGED historyVars
  PROVE  /\ HistoryType' /\ StoreTrue' /\ OrderTrue' /\ AnswersAgree'
         /\ IsFiniteSet(Known(entries')) /\ Ordered(Known(entries'), older')
         /\ \A c \in Completed(entries) \ Completed(entries') : Due(c)
<1> DEFINE gone == Pruned(entries, older)
           rest == EntriesWithout(entries, gone)
           left == OrderWithout(older, gone)
           new == [hash |-> p, outcome |-> None, at |-> 0]
<1>1. /\ entries \in [Command -> Entry \cup {None}]
      /\ IsFiniteSet(Known(entries)) /\ Ordered(Known(entries), older)
      /\ StoreTrue /\ OrderTrue /\ HistoryType
  BY Zenon DEF RetentionInv, ExecutionInv, TypeOK
<1>2. /\ Forgotten(x) /\ entries' = [rest EXCEPT ![x] = new]
      /\ older' = left \cup {<<d, x>> : d \in Known(entries) \ (gone \cup {x})}
      /\ reply' = None
  BY Zenon DEF BeginNew, Hold
<1>3. last' = last /\ recent' = recent
  BY Zenon DEF historyVars
<1>4. rest \in [Command -> Entry \cup {None}] /\ \A c \in Command : rest[c] = IF c \in gone THEN None ELSE entries[c]
  BY <1>1, EntriesWithoutType, Zenon
<1>5. /\ Known(rest) = Known(entries) \ gone /\ IsFiniteSet(Known(rest))
      /\ Completed(rest) = Completed(entries) \ gone
      /\ \A c \in Completed(rest) : rest[c] = entries[c]
      /\ \A c \in gone :
           \/ c \in Expired(entries)
           \/ /\ Cardinality(Completed(rest)) >= MaxCompleted
              /\ \A d \in Completed(rest) : <<c, d>> \in older
  BY <1>1, PruneEffect, Zenon
<1>6. x \notin Known(rest)
  BY <1>2, <1>4, Zenon DEF Forgotten, Known
<1>7. new # None /\ new.outcome = None
  <2>1. new \in Entry
    BY TimeAssumption DEF Entry, Time
  <2> QED
    BY <2>1, EntryAssumption, Zenon
<1> HIDE DEF rest, new
<1>8. entries'[x] = new /\ \A c \in Command \ {x} : entries'[c] = rest[c]
  BY <1>2, <1>4, Zenon
<1>9. Known(entries') = Known(rest) \cup {x}
  BY <1>7, <1>8, Zenon DEF Known
<1>10. Completed(entries') = Completed(rest)
  BY <1>6, <1>7, <1>8, Zenon DEF Known, Completed
<1>11. \A c \in Completed(rest) : c \in Command \ {x} /\ entries'[c] = entries[c] /\ c \in Completed(entries)
  <2>1. \A c \in Completed(rest) : c \in Known(rest) /\ c \in Command
    BY Zenon DEF Completed, Known
  <2> QED
    BY <2>1, <1>5, <1>6, <1>8, Zenon
<1>12. HistoryType'
  BY <1>1, <1>3, Zenon DEF HistoryType
<1>13. StoreTrue'
  BY <1>1, <1>3, <1>10, <1>11, Zenon DEF StoreTrue
<1>14. IsFiniteSet(Known(entries'))
  BY <1>5, <1>9, FS_AddElement
<1>15. Ordered(Known(entries'), older') /\ OrderTrue'
  <2>1. Ordered(Known(rest), left)
    <3>1. Ordered(Known(entries) \ gone, left)
      BY <1>1, OrderedWithout, Zenon
    <3> QED
      BY <3>1, <1>5, Zenon
  <2>2. Known(entries) \ (gone \cup {x}) = Known(rest)
    BY <1>5, <1>6, Zenon
  <2>3. older' = left \cup {<<d, x>> : d \in Known(rest)}
    BY <1>2, <2>2, Zenon
  <2>4. Ordered(Known(rest) \cup {x}, left \cup {<<d, x>> : d \in Known(rest)})
    BY <2>1, <1>6, OrderedAppend
  <2>5. Ordered(Known(entries'), older')
    BY <2>3, <2>4, <1>9, Zenon
  <2>6. \A c, d : <<c, d>> \in older' => <<c, d>> \in older \/ d = x
    BY <2>3, Zenon DEF OrderWithout
  <2> QED
    BY <2>5, <2>6, <1>1, <1>3, <1>10, <1>11, Zenon DEF OrderTrue
<1>16. ASSUME NEW c \in Completed(entries), c \notin Completed(entries') PROVE Due(c)
  <2>1. c \in gone /\ last[c].at = entries[c].at
    BY <1>1, <1>5, <1>10, <1>16, Zenon DEF StoreTrue
  <2>2. CASE c \in Expired(entries)
    BY <2>1, <2>2, Zenon DEF Due, Expired
  <2>3. CASE c \notin Expired(entries)
    <3>1. Cardinality(Completed(entries')) >= MaxCompleted /\ \A d \in Completed(entries') : <<c, d>> \in older
      BY <2>1, <2>3, <1>5, <1>10, Zenon
    <3>2. \A d \in Completed(entries') : <<c, d>> \in recent'
      BY <3>1, <1>1, <1>3, <1>10, <1>11, Zenon DEF OrderTrue
    <3>3. {d \in Completed(entries') : <<c, d>> \in recent'} = Completed(entries')
      BY <3>2, Zenon
    <3> QED
      BY <3>1, <3>3, Zenon DEF Due
  <2> QED
    BY <2>2, <2>3, Zenon
<1>17. AnswersAgree'
  BY <1>2, Zenon DEF AnswersAgree
<1> QED
  BY <1>12, <1>13, <1>14, <1>15, <1>16, <1>17, Zenon

-----------------------------------------------------------------------------
(* Every step *)

\* The history variables only watch: a step with them is a step of the store
\* and its handlers.
LEMMA RetentionIsExecution ==
  ASSUME [RetentionNext]_<<vars, historyVars>>
  PROVE  [Next]_vars
<1>1. CASE UNCHANGED <<vars, historyVars>>
  BY <1>1, Zenon
<1>2. CASE SetClock
  BY <1>2, Zenon DEF Next
<1>3. ASSUME NEW r \in Request, NewHistory(r) PROVE Begin(r) \/ Conclude(r)
  BY <1>3, Zenon DEF NewHistory, Begin, Conclude
<1>4. ASSUME NEW r \in Request, SameHistory(r) PROVE Begin(r)
  BY <1>4, Zenon DEF SameHistory, Begin
<1> QED
  BY <1>1, <1>2, <1>3, <1>4, Zenon DEF RetentionNext, Next

\* A step keeps the store true to the history and drops only what is due.
StepIsTrue ==
  /\ HistoryType' /\ StoreTrue' /\ OrderTrue' /\ AnswersAgree'
  /\ IsFiniteSet(Known(entries')) /\ Ordered(Known(entries'), older')
  /\ \A c \in Completed(entries) \ Completed(entries') : Due(c)

\* Steps that leave the entries and the history alone.
LEMMA SameStoreTrue ==
  ASSUME RetentionInv, UNCHANGED <<entries, older, last, recent>>, AnswersAgree'
  PROVE  StepIsTrue
<1>1. entries' = entries /\ older' = older /\ last' = last /\ recent' = recent
  OBVIOUS
<1> QED
  BY <1>1, Zenon DEF RetentionInv, HistoryType, StoreTrue, OrderTrue, StepIsTrue

\* Every step that finishes or replays an execution.
LEMMA NewHistoryTrue ==
  ASSUME RetentionInv, NEW r \in Request, NewHistory(r)
  PROVE  StepIsTrue
<1>1. ASSUME NEW c \in Command, NEW p \in Payload, NEW o \in Outcome,
             FinishAtOnce(r, c, p, o), Executed(c, p, o)
      PROVE  StepIsTrue
  <2>1. Forgotten(c) /\ Complete(c, p, o) /\ Respond(c, p, o) /\ now' = now
    BY <1>1, Zenon DEF FinishAtOnce
  <2> QED
    BY <1>1, <2>1, SettleTrue, Zenon DEF StepIsTrue
<1>2. ASSUME NEW o \in Outcome, Finish(r, o), Executed(req[r].cmd, req[r].payload, o)
      PROVE  StepIsTrue
  <2> DEFINE c == req[r].cmd
             p == req[r].payload
  <2>1. req[r].pc = "running" /\ Complete(c, p, o) /\ Respond(c, p, o) /\ now' = now
    BY <1>2, Zenon DEF Finish
  <2>2. req \in [Request -> Handler] /\ RunnersPending
    BY Zenon DEF RetentionInv, ExecutionInv, TypeOK
  <2>3. c \in Command /\ p \in Payload
    BY <2>1, <2>2, HandlerType, Zenon
  <2>4. c \notin Completed(entries)
    BY <2>1, <2>2, Zenon DEF RunnersPending, Pending, Completed
  <2> HIDE DEF c, p
  <2>5. Executed(c, p, o)
    BY <1>2, Zenon DEF c, p
  <2> QED
    BY <2>1, <2>3, <2>4, <2>5, SettleTrue, Zenon DEF StepIsTrue
<1>3. ASSUME NEW c \in Command, NEW p \in Payload, BeginReplay(r, c, p), Used(c), UNCHANGED last
      PROVE  StepIsTrue
  BY <1>3, BeginReplayTrue, Zenon DEF StepIsTrue
<1> QED
  BY <1>1, <1>2, <1>3, Zenon DEF NewHistory

\* Every other step of a handler.
LEMMA SameHistoryTrue ==
  ASSUME RetentionInv, NEW r \in Request, SameHistory(r)
  PROVE  StepIsTrue
<1>0. UNCHANGED historyVars /\ last' = last /\ recent' = recent
  BY Zenon DEF SameHistory, historyVars
<1>1. ASSUME NEW c \in Command, NEW p \in Payload, NEW a \in EarlyAnswer, AnswerEarly(r, c, p, a)
      PROVE  StepIsTrue
  <2>1. entries' = entries /\ older' = older /\ reply'.answer = a
    BY <1>1, Zenon DEF AnswerEarly, storeVars, Respond
  <2>2. AnswersAgree'
    BY <2>1, Zenon DEF AnswersAgree
  <2> QED
    BY <2>1, <2>2, <1>0, SameStoreTrue, Zenon
<1>2. ASSUME NEW c \in Command, NEW p \in Payload, BeginNew(r, c, p)
      PROVE  StepIsTrue
  BY <1>0, <1>2, BeginNewTrue, Zenon DEF StepIsTrue
<1>3. ASSUME NEW c \in Command, NEW p \in Payload, BeginConflict(r, c, p)
      PROVE  StepIsTrue
  <2>1. PruneStore /\ reply'.answer = Conflict
    BY <1>3, Zenon DEF BeginConflict, Respond
  <2>2. AnswersAgree'
    BY <2>1, Zenon DEF AnswersAgree, EarlyAnswer
  <2> QED
    BY <2>1, <2>2, <1>0, PruneStoreTrue, Zenon DEF StepIsTrue
<1>4. ASSUME NEW c \in Command, NEW p \in Payload, BeginPending(r, c, p)
      PROVE  StepIsTrue
  <2>1. PruneStore /\ reply' = None
    BY <1>4, Zenon DEF BeginPending, Hold
  <2>2. AnswersAgree'
    BY <2>1, Zenon DEF AnswersAgree
  <2> QED
    BY <2>1, <2>2, <1>0, PruneStoreTrue, Zenon DEF StepIsTrue
<1> QED
  BY <1>1, <1>2, <1>3, <1>4, Zenon DEF SameHistory

\* Every step keeps RetentionInv and drops only what is due.
LEMMA RetentionStep ==
  ASSUME RetentionInv, [RetentionNext]_<<vars, historyVars>>
  PROVE  RetentionInv' /\ StepIsTrue
<1>1. ExecutionInv'
  <2>1. ExecutionInv /\ [Next]_vars
    BY RetentionIsExecution, Zenon DEF RetentionInv
  <2> QED
    BY <2>1, ExecutionStep, Zenon
<1>2. CASE UNCHANGED <<vars, historyVars>>
  <2>1. UNCHANGED <<entries, older, now, reply, last, recent>>
    BY <1>2, Zenon DEF vars, historyVars
  <2>2. AnswersAgree'
    BY <2>1, Zenon DEF RetentionInv, AnswersAgree
  <2> QED
    BY <1>1, <2>1, <2>2, SameStoreTrue, Zenon DEF StepIsTrue, RetentionInv
<1>3. CASE SetClock /\ UNCHANGED historyVars
  <2>1. UNCHANGED <<entries, older, last, recent>> /\ reply' = None
    BY <1>3, Zenon DEF SetClock, historyVars
  <2>2. AnswersAgree'
    BY <2>1, Zenon DEF AnswersAgree
  <2> QED
    BY <1>1, <2>1, <2>2, SameStoreTrue, Zenon DEF StepIsTrue, RetentionInv
<1>4. CASE \E r \in Request : NewHistory(r) \/ SameHistory(r)
  <2>1. StepIsTrue
    BY <1>4, NewHistoryTrue, SameHistoryTrue, Zenon
  <2> QED
    BY <1>1, <2>1, Zenon DEF StepIsTrue, RetentionInv
<1> QED
  BY <1>2, <1>3, <1>4, Zenon DEF RetentionNext

\* The store is empty and nothing was executed at first.
LEMMA RetentionInitially == RetentionInit => RetentionInv
<1> SUFFICES ASSUME RetentionInit PROVE RetentionInv
  OBVIOUS
<1>1. /\ entries = [c \in Command |-> None] /\ older = {} /\ reply = None
      /\ last = [c \in Command |-> None] /\ recent = {}
  BY Zenon DEF RetentionInit, Init
<1>2. Known(entries) = {} /\ Completed(entries) = {}
  BY <1>1, Zenon DEF Known, Completed
<1>3. IsFiniteSet(Known(entries)) /\ Ordered(Known(entries), older)
  BY <1>1, <1>2, FS_EmptySet, Zenon DEF Ordered
<1>4. ExecutionInv
  BY ExecutionInitially, Zenon DEF RetentionInit
<1>5. HistoryType
  BY <1>1, Zenon DEF HistoryType
<1>6. StoreTrue /\ OrderTrue /\ AnswersAgree
  BY <1>1, <1>2, Zenon DEF StoreTrue, OrderTrue, AnswersAgree
<1> QED
  BY <1>3, <1>4, <1>5, <1>6, Zenon DEF RetentionInv

-----------------------------------------------------------------------------
(* Theorems *)

\* The store, its order and the history agree in every reachable state.
THEOREM RetentionInvariant == RetentionSpec => []RetentionInv
<1>1. RetentionInit => RetentionInv
  BY RetentionInitially, Zenon
<1>2. RetentionInv /\ [RetentionNext]_<<vars, historyVars>> => RetentionInv'
  BY RetentionStep, Zenon
<1> QED
  BY <1>1, <1>2, PTL DEF RetentionSpec

\* The specification with the history implements the one without it.
THEOREM RetentionImplementsExecution == RetentionSpec => Spec
<1>1. RetentionInit => Init
  BY Zenon DEF RetentionInit
<1>2. [RetentionNext]_<<vars, historyVars>> => [Next]_vars
  BY RetentionIsExecution, Zenon
<1> QED
  BY <1>1, <1>2, PTL DEF RetentionSpec, Spec

\* Whatever is answered from the store or from a joined execution is what the
\* latest execution of that command and payload answered, and is not older than
\* the retention period (idempotency.ts begin and complete).
THEOREM AnswersAreTheLatest == RetentionSpec => []AnswersAgree
<1>1. RetentionInv => AnswersAgree
  BY Zenon DEF RetentionInv
<1> QED
  BY <1>1, RetentionInvariant, PTL

\* No outcome is dropped before it expires unless MaxCompleted outcomes used
\* after it are retained, for every Ttl, MaxCompleted and set of commands
\* (idempotency.ts #prune).
THEOREM OutcomesDroppedWhenDue == RetentionSpec => DroppedWhenDue
<1>1. RetentionInv /\ [RetentionNext]_<<vars, historyVars>>
        => [\A c \in Completed(entries) \ Completed(entries') : Due(c)]_<<vars, historyVars>>
  BY RetentionStep, Zenon DEF StepIsTrue
<1> QED
  BY <1>1, RetentionInvariant, PTL DEF RetentionSpec, DroppedWhenDue

=============================================================================
