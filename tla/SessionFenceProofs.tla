------------------------- MODULE SessionFenceProofs -------------------------
(***************************************************************************)
(* Fencing, proved for every set of Pods and of generations: the operator  *)
(* and its Pods implement the lease protocol of WriterLease, a fresh       *)
(* generation is committed only behind a fence, the only credential is the *)
(* current one, and two Pods never both take input for one volume.         *)
(*                                                                         *)
(* First what a broker may conclude from its own acquire(), about          *)
(* WriterLease alone.  AcceptedIsHeld is not inductive: a PUT that is on   *)
(* the way has already passed its check, so the invariant says what its    *)
(* version still guarantees (`Reads'), and that no authority is older than *)
(* its Pod.                                                                *)
(***************************************************************************)
EXTENDS SessionFence, TLAPS

-----------------------------------------------------------------------------
(* The lease protocol *)

Uids ==
  /\ lease.uid = None => lease = NoLease
  /\ lease.uid <= leases
  /\ \A p \in Pods : acquired[p] <= leases

Held ==
  \A p \in Pods : acquired[p] # None /\ acquired[p] = lease.uid => Holds(p)

Reads ==
  \A p \in seen :
    \/ /\ proc[p] = "read"
       /\ lease.uid # None /\ lease.gen = generation[p] /\ lease.holder = None
    \/ /\ proc[p] = "put"
       /\ acquired[p] # None /\ Holds(p)

Processes ==
  \A p \in Pods :
    /\ generation[p] = None => proc[p] = "down"
    /\ proc[p] \in {"down", "up", "read"} => acquired[p] = None
    /\ proc[p] \in {"got", "reopen", "release", "put"} => acquired[p] # None
    /\ p \in accepting => proc[p] = "held" /\ acquired[p] # None

LeaseInv == LeaseTypeOK /\ Uids /\ Held /\ Reads /\ Processes

\* The lease protocol starts within its invariant.
LEMMA LeaseInitially == LeaseInit => LeaseInv
  BY PodsAreUids, GensAreNames
  DEF LeaseInit, LeaseInv, LeaseTypeOK, Uids, Held, Reads, Processes, Procs, NoLease, None, Holds

\* The operator's writes keep the invariant.
LEMMA OperatorStep ==
  ASSUME LeaseInv, NEW g \in Gens,
         LeaseCreate(g) \/ LeaseAnnotate(g) \/ LeaseDelete
  PROVE  LeaseInv'
  <1> USE PodsAreUids, GensAreNames DEF None, NoLease
  <1>1. CASE LeaseCreate(g)
    BY <1>1 DEF LeaseCreate, LeaseInv, LeaseTypeOK, Uids, Held, Reads, Processes, Procs, Holds
  <1>2. CASE LeaseAnnotate(g)
    BY <1>2, Zenon DEF LeaseAnnotate, LeaseInv, LeaseTypeOK, Uids, Held, Reads, Processes, Procs, Holds
  <1>3. CASE LeaseDelete
    BY <1>3 DEF LeaseDelete, LeaseInv, LeaseTypeOK, Uids, Held, Reads, Processes, Procs, Holds
  <1> QED BY <1>1, <1>2, <1>3, Zenon

\* A process that goes down forgets its lease and its reads.
LEMMA DownStep ==
  ASSUME LeaseInv, NEW p \in Pods, Down(p), seen' \subseteq seen \ {p},
         UNCHANGED <<lease, leases, generation>>
  PROVE  LeaseInv'
  BY PodsAreUids, GensAreNames
  DEF Down, LeaseInv, LeaseTypeOK, Uids, Held, Reads, Processes, Procs, Holds, None, NoLease

\* A process only records what it read.
LEMMA ProcStep ==
  ASSUME LeaseInv, NEW p \in Pods, NEW st \in {"up", "read", "reopen", "put", "release"},
         proc' = [proc EXCEPT ![p] = st],
         UNCHANGED <<lease, leases, generation, acquired, accepting>>,
         generation[p] # None, p \notin accepting,
         acquired[p] = None <=> st \in {"up", "read"},
         \/ st \in {"up", "reopen", "release"} /\ seen' = seen /\ p \notin seen
         \/ /\ st = "read" /\ seen' = seen \cup {p}
            /\ lease.uid # None /\ lease.gen = generation[p] /\ lease.holder = None
         \/ st = "put" /\ seen' = seen \cup {p} /\ Holds(p)
  PROVE  LeaseInv'
  <1> USE PodsAreUids, GensAreNames
  <1>1. LeaseTypeOK' /\ Uids' /\ Held'
    BY Zenon DEF LeaseInv, LeaseTypeOK, Uids, Held, Procs, Holds, None, NoLease
  <1>2. Reads'
    <2> DEFINE ok(q, pq) ==
          \/ /\ pq = "read"
             /\ lease.uid # None /\ lease.gen = generation[q] /\ lease.holder = None
          \/ /\ pq = "put"
             /\ acquired[q] # None /\ Holds(q)
    <2> SUFFICES ASSUME NEW q \in seen' PROVE ok(q, proc'[q])
      BY Zenon DEF Reads, Holds
    <2>1. q \in Pods
      BY Zenon DEF LeaseInv, LeaseTypeOK
    <2>2. CASE q = p
      <3>1. proc'[q] = st
        BY <2>1, <2>2, Zenon DEF LeaseInv, LeaseTypeOK
      <3>2. acquired[q] = None => st \in {"up", "read"}
        BY <2>2, Zenon
      <3> HIDE DEF ok
      <3>3. CASE st = "read"
        BY <2>2, <3>1, <3>3, Zenon DEF ok
      <3>4. CASE st = "put"
        BY <2>2, <3>1, <3>2, <3>4, Zenon DEF ok
      <3> QED BY <2>2, <3>3, <3>4, Zenon
    <2>3. CASE q # p
      <3>1. proc'[q] = proc[q] /\ q \in seen
        BY <2>1, <2>3, Zenon DEF LeaseInv, LeaseTypeOK
      <3> QED BY <3>1, Zenon DEF LeaseInv, Reads
    <2> QED BY <2>2, <2>3, Zenon
  <1>3. Processes'
    <2> SUFFICES ASSUME NEW q \in Pods
                 PROVE  /\ generation[q] = None => proc'[q] = "down"
                        /\ proc'[q] \in {"down", "up", "read"} => acquired[q] = None
                        /\ proc'[q] \in {"got", "reopen", "release", "put"} => acquired[q] # None
                        /\ q \in accepting => proc'[q] = "held" /\ acquired[q] # None
      BY Zenon DEF Processes
    <2>1. CASE q = p
      <3>1. proc'[q] = st
        BY <2>1, Zenon DEF LeaseInv, LeaseTypeOK
      <3>2. CASE st \in {"up", "read"}
        BY <2>1, <3>1, <3>2, Zenon
      <3>3. CASE st \in {"reopen", "put", "release"}
        BY <2>1, <3>1, <3>3, Zenon
      <3> QED BY <3>2, <3>3, Zenon
    <2>2. CASE q # p
      <3>1. proc'[q] = proc[q]
        BY <2>2, Zenon DEF LeaseInv, LeaseTypeOK
      <3> QED BY <3>1, Zenon DEF LeaseInv, Processes
    <2> QED BY <2>1, <2>2, Zenon
  <1> QED BY <1>1, <1>2, <1>3, Zenon DEF LeaseInv

\* acquire() returned a lease that names p, which no other Pod can hold.
LEMMA GainedStep ==
  ASSUME LeaseInv, NEW p \in Pods, Gained(p), proc[p] \in {"up", "read"},
         lease.uid # None, lease.gen = generation[p], lease.holder \in {None, p},
         lease' = [lease EXCEPT !.holder = p],
         seen' = {} \/ (seen' = seen /\ lease.holder = p /\ proc[p] = "up"),
         UNCHANGED <<leases, generation>>
  PROVE  LeaseInv'
  <1> USE PodsAreUids, GensAreNames
  <1>1. p \in seen => proc[p] = "read"
    BY Zenon DEF LeaseInv, LeaseTypeOK, Reads
  <1>2. LeaseTypeOK' /\ Uids'
    BY Zenon DEF Gained, LeaseInv, LeaseTypeOK, Uids, Procs, None, NoLease
  <1>3. Held'
    BY DEF Gained, LeaseInv, LeaseTypeOK, Held, Holds, None
  <1>4. Reads'
    BY <1>1, Zenon DEF Gained, LeaseInv, LeaseTypeOK, Reads, Holds, None
  <1>5. Processes'
    BY Zenon DEF Gained, LeaseInv, LeaseTypeOK, Processes, None
  <1> QED BY <1>2, <1>3, <1>4, <1>5, Zenon DEF LeaseInv

\* The answer that makes a broker accept input arrives.
LEMMA AcceptStep ==
  ASSUME LeaseInv, NEW p \in Pods, proc[p] \in {"got", "reopen"}, p \notin seen,
         proc' = [proc EXCEPT ![p] = "held"], accepting' = accepting \cup {p},
         UNCHANGED <<lease, leases, generation, acquired, seen>>
  PROVE  LeaseInv'
  <1> USE PodsAreUids, GensAreNames
  <1>1. LeaseTypeOK' /\ Uids' /\ Held'
    BY Zenon DEF LeaseInv, LeaseTypeOK, Uids, Held, Procs, Holds, None, NoLease
  <1>2. Reads'
    BY DEF LeaseInv, LeaseTypeOK, Reads, Holds
  <1>3. Processes'
    BY Zenon DEF LeaseInv, LeaseTypeOK, Processes
  <1> QED BY <1>1, <1>2, <1>3, Zenon DEF LeaseInv

\* The steps of a Pod's broker keep the invariant.
LEMMA PodStep ==
  ASSUME LeaseInv, NEW p \in Pods,
         \/ \E g \in Gens : Created(p, g)
         \/ Start(p)
         \/ BrokerNext(p)
  PROVE  LeaseInv'
  <1> USE PodsAreUids, GensAreNames
  <1>a. /\ p \in seen => proc[p] \in {"read", "put"}
        /\ generation[p] = None => proc[p] = "down"
        /\ lease.uid = None <=> lease = NoLease
        /\ proc[p] \in {"up", "read"} => acquired[p] = None /\ p \notin accepting
        /\ proc[p] \in {"got", "reopen", "release", "put"} => acquired[p] # None /\ p \notin accepting
    BY DEF LeaseInv, LeaseTypeOK, Uids, Reads, Processes, NoLease, None
  <1>1. CASE \E g \in Gens : Created(p, g)
    BY <1>1 DEF Created, LeaseInv, LeaseTypeOK, Uids, Held, Reads, Processes, Procs, Holds, None, NoLease
  <1>2. CASE Start(p)
    BY <1>2 DEF Start, LeaseInv, LeaseTypeOK, Uids, Held, Reads, Processes, Procs, Holds, None, NoLease
  <1>3. CASE Kill(p)
    BY <1>3, DownStep, Zenon DEF Kill
  <1>4. CASE AcquireRead(p)
    <2>1. CASE Down(p) /\ seen' = seen \ {p}
      BY <1>4, <2>1, DownStep, Zenon DEF AcquireRead
    <2>2. CASE Gained(p) /\ lease # NoLease /\ lease.gen = generation[p] /\ lease.holder = p /\ UNCHANGED seen
      <3>1. lease' = [lease EXCEPT !.holder = p]
        BY <1>4, <2>2, Zenon DEF AcquireRead, LeaseInv, LeaseTypeOK
      <3>2. proc[p] = "up" /\ UNCHANGED <<leases, generation>>
        BY <1>4, Zenon DEF AcquireRead
      <3> QED BY <1>a, <2>2, <3>1, <3>2, GainedStep, Zenon
    <2>3. CASE /\ lease # NoLease /\ lease.gen = generation[p] /\ lease.holder = None
               /\ proc' = [proc EXCEPT ![p] = "read"]
               /\ seen' = seen \cup {p}
               /\ UNCHANGED <<acquired, accepting>>
      <3>1. proc[p] = "up" /\ UNCHANGED <<lease, leases, generation>>
        BY <1>4, Zenon DEF AcquireRead
      <3> QED BY <1>a, <2>3, <3>1, ProcStep, Zenon
    <2> QED BY <1>4, <2>1, <2>2, <2>3, Zenon DEF AcquireRead
  <1>5. CASE AcquireWrite(p)
    <2>1. lease.uid # None /\ lease.gen = generation[p] /\ lease.holder = None
      BY <1>5, Zenon DEF AcquireWrite, LeaseInv, Reads
    <2> QED BY <1>5, <2>1, GainedStep, Zenon DEF AcquireWrite
  <1>6. CASE AcquireConflict(p)
    <2>1. /\ proc[p] = "read" /\ p \notin seen
          /\ UNCHANGED <<lease, leases, generation, seen>>
      BY <1>6, Zenon DEF AcquireConflict
    <2>2. CASE Down(p)
      BY <2>1, <2>2, DownStep, Zenon
    <2>3. CASE proc' = [proc EXCEPT ![p] = "up"] /\ UNCHANGED <<acquired, accepting>>
      BY <1>a, <2>1, <2>3, ProcStep, Zenon
    <2> QED BY <1>6, <2>2, <2>3, Zenon DEF AcquireConflict
  <1>7. CASE Acquired(p)
    <2>1. proc[p] = "got" /\ UNCHANGED <<lease, leases, generation, acquired, seen>>
      BY <1>7, Zenon DEF Acquired
    <2>2. CASE proc' = [proc EXCEPT ![p] = "held"] /\ accepting' = accepting \cup {p}
      BY <1>a, <2>1, <2>2, AcceptStep, Zenon
    <2>3. CASE proc' = [proc EXCEPT ![p] = "release"] /\ UNCHANGED accepting
      BY <1>a, <2>1, <2>3, ProcStep, Zenon
    <2> QED BY <1>7, <2>2, <2>3, Zenon DEF Acquired
  <1>8. CASE VerifyHeld(p)
    BY <1>8, <1>a DEF VerifyHeld, Fenced, LeaseInv, LeaseTypeOK, Uids, Held, Reads, Processes, Procs, Holds, None, NoLease
  <1>9. CASE Fence(p)
    BY <1>9, <1>a DEF Fence, Fenced, LeaseInv, LeaseTypeOK, Uids, Held, Reads, Processes, Procs, Holds
  <1>10. CASE Release(p)
    BY <1>10, <1>a DEF Release, LeaseInv, LeaseTypeOK, Uids, Held, Reads, Processes, Procs, Holds
  <1>14. CASE ReopenRead(p)
    <2>1. /\ proc[p] = "held" /\ acquired[p] # None /\ p \notin accepting
          /\ proc' = [proc EXCEPT ![p] = "reopen"]
          /\ UNCHANGED <<lease, leases, generation, acquired, accepting, seen>>
      BY <1>14, Zenon DEF ReopenRead
    <2> QED BY <1>a, <2>1, ProcStep, Zenon
  <1>15. CASE Reopen(p)
    BY <1>15, <1>a, AcceptStep, Zenon DEF Reopen
  <1>11. CASE ReleaseRead(p)
    <2>1. proc[p] = "release" /\ UNCHANGED <<lease, leases, generation>>
      BY <1>11, Zenon DEF ReleaseRead
    <2>2. CASE Down(p) /\ UNCHANGED seen
      BY <1>a, <2>1, <2>2, DownStep, Zenon
    <2>3. CASE /\ Holds(p) /\ proc' = [proc EXCEPT ![p] = "put"]
               /\ seen' = seen \cup {p} /\ UNCHANGED <<acquired, accepting>>
      BY <1>a, <2>1, <2>3, ProcStep, Zenon
    <2> QED BY <1>11, <2>2, <2>3, Zenon DEF ReleaseRead
  <1>12. CASE ReleaseWrite(p)
    BY <1>12 DEF ReleaseWrite, Down, LeaseInv, LeaseTypeOK, Uids, Held, Reads, Processes, Procs, Holds, None, NoLease
  <1>13. CASE ReleaseConflict(p)
    <2>1. /\ proc[p] = "put" /\ p \notin seen
          /\ UNCHANGED <<lease, leases, generation, seen>>
      BY <1>13, Zenon DEF ReleaseConflict
    <2>2. CASE Down(p)
      BY <2>1, <2>2, DownStep, Zenon
    <2>3. CASE proc' = [proc EXCEPT ![p] = "release"] /\ UNCHANGED <<acquired, accepting>>
      BY <1>a, <2>1, <2>3, ProcStep, Zenon
    <2> QED BY <1>13, <2>2, <2>3, Zenon DEF ReleaseConflict
  <1> QED BY Zenon, <1>1, <1>2, <1>3, <1>4, <1>5, <1>6, <1>7, <1>8, <1>9, <1>10, <1>11, <1>12, <1>13,
             <1>14, <1>15
          DEF BrokerNext

\* Every step of operator, brokers and writers keeps LeaseInv.
LEMMA LeaseStep == LeaseInv /\ [LeaseNext]_leaseVars => LeaseInv'
  <1> SUFFICES ASSUME LeaseInv, [LeaseNext]_leaseVars PROVE LeaseInv'
    OBVIOUS
  <1>1. CASE UNCHANGED leaseVars
    BY <1>1, Zenon DEF leaseVars, LeaseInv, LeaseTypeOK, Uids, Held, Reads, Processes, Holds
  <1>2. CASE \E g \in Gens : LeaseCreate(g) \/ LeaseAnnotate(g)
    BY <1>2, OperatorStep, Zenon
  <1>3. CASE LeaseDelete
    <2>1. CASE Gens = {}
      BY <1>3, <2>1, PodsAreUids DEF LeaseDelete, LeaseInv, LeaseTypeOK, Uids, Held, Reads, Processes, Procs, Holds, None, NoLease
    <2>2. CASE Gens # {}
      BY <1>3, <2>2, OperatorStep, Zenon
    <2> QED BY <2>1, <2>2, Zenon
  <1>4. CASE \E p \in Pods : (\E g \in Gens : Created(p, g)) \/ Start(p) \/ BrokerNext(p)
    BY <1>4, PodStep, Zenon
  <1> QED BY <1>1, <1>2, <1>3, <1>4, Zenon DEF LeaseNext

\* The brokers of session-credential-broker.ts never accept input on a lease
\* object that names another holder or another generation, for any number of
\* Pods and generations.
THEOREM AlwaysAcceptedIsHeld == LeaseSpec => []AcceptedIsHeld
  <1>1. LeaseInv => AcceptedIsHeld
    BY Zenon DEF LeaseInv, LeaseTypeOK, Held, Processes, AcceptedIsHeld
  <1> QED BY <1>1, LeaseInitially, LeaseStep, PTL DEF LeaseSpec

-----------------------------------------------------------------------------
(* Operator and Pods *)

Kept ==
  /\ status \in Statuses
  /\ s \in Statuses
  /\ pod \in [uid : Pods \cup {None}, gen : Gens \cup {None}, terminating : BOOLEAN]
  /\ pod.uid = None => pod = NoPod
  /\ attached \subseteq Pods
  /\ rpod \in Pods \cup {None}

\* The steps from a prepared generation to a published one, and the steps that
\* follow a read of "no Pod object".
Serving == {"route", "auth", "lease", "pod", "ready", "publish", "readyStatus",
            "startingStatus", "withdraw"}
Absent == {"verify", "verifying", "prepared", "allocate",
           "restVerify", "restVerifying", "restProof", "restStatus"}

\* The copy of the status agrees with the status in what decides a fence.
Copied ==
  /\ s.gen = status.gen
  /\ s.auth = status.auth
  /\ s.fence = status.fence

\* What a reconcile has read still holds at the step that relies on it.
Read ==
  /\ pc \in Serving => s.auth = s.gen
  /\ pc \in Absent => pod = NoPod
  /\ pc \in {"verify", "restVerify"} => s.fence = "ShutdownRequested"
  /\ pc = "allocate" => s.auth \notin secrets
  /\ pc \in {"allocate", "restStatus"} => attached = {}

\* A session that never had a credential never had a Pod.
Unused == status.auth = None => pod = NoPod /\ attached = {}

\* The containers of a Pod run only where its volume is attached.
Placed == \A p \in Pods : pod.uid = p /\ proc[p] # "down" => p \in attached

\* Attached Pods whose broker believes in a lease: the ones that accept input,
\* and the ones an answer on the way may still make accept it.
Owners == {p \in attached : acquired[p] # None}
OneAuthority == \A p, q \in Owners : p = q

\* Those whose lease is no longer there.
Stale == {p \in Owners : acquired[p] # lease.uid}

\* They exist only between the deletion of their lease and the proof that
\* their volume is detached, and nothing can be started meanwhile.
Fencing ==
  Stale # {} => /\ lease = NoLease
                /\ pod = NoPod
                /\ status.fence \notin {"NoPriorWriter", "FenceProven"}
                /\ pc \notin Serving \cup {"allocate", "restStatus"}

FenceInv ==
  LeaseInv /\ Kept /\ Copied /\ Read /\ Unused /\ Placed /\ AuthCurrent /\ Fencing /\ OneAuthority

-----------------------------------------------------------------------------
(* The operator and its Pods follow the lease protocol. *)

\* Every step of the controller is a step of WriterLease or leaves the lease alone.
LEMMA LeaseFollowed ==
  ASSUME Kept, [Next]_vars
  PROVE  [LeaseNext]_leaseVars
  <1> USE DEF Kept
  <1>0. s.gen \in Gens
    BY Zenon DEF Statuses
  <1>1. CASE UNCHANGED vars
    BY <1>1, Zenon DEF vars
  <1>2. CASE \/ Begin \/ Abort \/ FailPod \/ FailRoute \/ Prepare \/ Prepared
    BY <1>2, Zenon DEF Begin, Abort, FailPod, FailRoute, Prepare, Prepared
  <1>3. CASE \/ updateSessionFailure \/ publishFenceUncertain \/ Allocate \/ Rested
             \/ \E from, n, to : Commit(from, n, to)
    BY <1>3, Zenon DEF updateSessionFailure, publishFenceUncertain, Allocate, Rested, Commit
  <1>4. CASE enterFenceVerifying
    BY <1>4, Zenon DEF enterFenceVerifying, DeleteLease, Commit, LeaseNext
  <1>5. CASE beginGenerationDrain
    BY <1>5, Zenon DEF beginGenerationDrain, WithdrawRoute, RevokeAuth, DrainPod, Commit
  <1>6. CASE ensureWriterLease
    BY <1>0, <1>6, Zenon DEF ensureWriterLease, LeaseNext
  <1>7. CASE EnsurePod
    BY <1>0, <1>7, Zenon DEF EnsurePod, LeaseNext
  <1>8. CASE Serve /\ ~ensureWriterLease /\ ~EnsurePod
    BY <1>8, Zenon DEF Serve, EnsureRoute, ensureGenerationAuth, Ready, Publish, Commit, Conflict, Withdraw
  <1>9. CASE prepareRequestedInactive
    <2>1. CASE UNCHANGED leaseVars
      BY <2>1, Zenon
    <2>2. CASE pod # NoPod /\ Fence(pod.uid)
      <3>1. pod.uid \in Pods
        BY <2>2, Zenon
      <3> QED BY <2>2, <3>1, Zenon DEF BrokerNext, LeaseNext
    <2> QED BY <1>9, <2>1, <2>2, Zenon DEF prepareRequestedInactive
  <1>10. CASE reconcileInactive
    BY <1>10, Zenon DEF reconcileInactive, Rest, RestProof, Rested, Commit
  <1>11. CASE SetDesired \/ PodChange \/ NodeLost \/ Attach \/ Detach
    BY <1>11, Zenon DEF SetDesired, PodChange, NodeLost, Attach, Detach
  <1>12. CASE PodStart
    BY <1>12, Zenon DEF PodStart, LeaseNext
  <1>13. CASE Broker
    BY <1>13, Zenon DEF Broker, LeaseNext
  <1> QED BY <1>1, <1>2, <1>3, <1>4, <1>5, <1>6, <1>7, <1>8, <1>9, <1>10, <1>11, <1>12, <1>13, Zenon
          DEF Next, Reconcile, Serve

-----------------------------------------------------------------------------
(* Steps of a reconcile that leave the Pod, the volume, the Secrets and the *)
(* lease alone *)

Free == {"NoPriorWriter", "FenceProven"}
Starting == Serving \cup {"allocate", "restStatus"}

\* A step that leaves the Pod, the volume, the Secrets and the lease alone keeps the
\* invariant when it frees no fence and goes on to no start too early.
LEMMA LocalStep ==
  ASSUME FenceInv, UNCHANGED <<pod, attached, secrets, leaseVars>>,
         status' \in Statuses, s' \in Statuses, rpod' \in Pods \cup {None}, Copied', Read',
         status'.auth = status.auth \/ pc = "allocate",
         status'.fence \in Free => status.fence = status'.fence \/ attached = {},
         pc' \in Starting => pc \in Starting \/ pod # NoPod \/ status.fence \in Free \/ attached = {}
  PROVE  FenceInv'
  <1>1. LeaseInv'
    BY LeaseStep, Zenon DEF FenceInv, leaseVars
  <1>2. Kept' /\ Placed' /\ OneAuthority'
    BY Zenon DEF FenceInv, Kept, Placed, OneAuthority, Owners, leaseVars
  <1>3. Unused'
    <2>1. CASE status'.auth = status.auth
      BY <2>1, Zenon DEF FenceInv, Unused
    <2>2. CASE pc = "allocate"
      BY <2>2, Zenon DEF FenceInv, Read, Absent, Unused
    <2> QED BY <2>1, <2>2, Zenon
  <1>4. AuthCurrent'
    <2>1. CASE status'.auth = status.auth
      BY <2>1, Zenon DEF FenceInv, AuthCurrent
    <2>2. CASE pc = "allocate"
      BY <2>2, Zenon DEF FenceInv, Read, Copied, AuthCurrent
    <2> QED BY <2>1, <2>2, Zenon
  <1>5. Fencing'
    <2>1. Stale' = Stale
      BY Zenon DEF Stale, Owners, leaseVars
    <2>2. Stale # {} => attached # {}
      BY Zenon DEF Stale, Owners
    <2> SUFFICES ASSUME Stale # {}
                 PROVE  /\ lease = NoLease /\ pod = NoPod
                        /\ status'.fence \notin Free
                        /\ pc' \notin Starting
      BY <2>1, Zenon DEF Fencing, Free, Starting, leaseVars
    <2>3. /\ lease = NoLease /\ pod = NoPod
          /\ status.fence \notin Free /\ pc \notin Starting
      BY Zenon DEF FenceInv, Fencing, Free, Starting
    <2> QED BY <2>2, <2>3, Zenon
  <1> QED BY <1>1, <1>2, <1>3, <1>4, <1>5, Zenon DEF FenceInv

\* r.Status().Update leaves the copy equal to the status it wrote.
LEMMA UpdateCopies ==
  ASSUME Kept, Copied, NEW n \in Statuses, NEW to, Update(n, to)
  PROVE  /\ status' \in Statuses /\ s' \in Statuses /\ Copied' /\ pc' = to
         /\ rpod' \in Pods \cup {None}
         /\ status'.gen = n.gen /\ status'.auth = n.auth /\ status'.fence = n.fence
  <1>1. CASE fresh
    BY <1>1, Zenon DEF Update, End, Kept, Copied
  <1>2. CASE ~fresh
    <2>1. n = s /\ status' = status
      BY <1>2, Zenon DEF Update
    <2> QED BY <2>1, Zenon DEF Update, End, Kept, Copied
  <1> QED BY <1>1, <1>2, Zenon

\* A status update keeps the invariant: it lands only on the status that was read.
LEMMA CommitStep ==
  ASSUME FenceInv, NEW n \in Statuses, NEW from, NEW to, Commit(from, n, to),
         n.auth = s.auth \/ from = "allocate",
         n.fence \in Free => n.fence = s.fence \/ from \in {"allocate", "restStatus"},
         to \notin Starting \/ (from = "allocate" /\ to = "route" /\ n.auth = n.gen),
         to \in Absent => from \in Absent,
         to \notin {"verify", "restVerify"}
  PROVE  FenceInv'
  <1>1. /\ status' \in Statuses /\ s' \in Statuses /\ Copied' /\ pc' = to
        /\ rpod' \in Pods \cup {None}
        /\ status'.gen = n.gen /\ status'.auth = n.auth /\ status'.fence = n.fence
    BY UpdateCopies, Zenon DEF FenceInv, Commit
  <1>2. pc = from /\ UNCHANGED <<pod, attached, secrets, leaseVars>>
    BY Zenon DEF Commit
  <1>3. Read'
    <2>1. pc' \in Serving => s'.auth = s'.gen
      BY <1>1, Zenon DEF Copied, Starting
    <2>2. pc' \in Absent => pod' = NoPod
      BY <1>1, <1>2, Zenon DEF FenceInv, Read
    <2>3. pc' \notin {"verify", "restVerify", "allocate", "restStatus"}
      BY <1>1, Zenon DEF Starting
    <2> QED BY <2>1, <2>2, <2>3, Zenon DEF Read
  <1>4. from \in {"allocate", "restStatus"} => attached = {}
    BY <1>2, Zenon DEF FenceInv, Read
  <1>5. s.auth = status.auth /\ s.fence = status.fence
    BY Zenon DEF FenceInv, Copied
  <1>6. status'.auth = status.auth \/ pc = "allocate"
    BY <1>1, <1>2, <1>5, Zenon
  <1>7. status'.fence \in Free => status.fence = status'.fence \/ attached = {}
    BY <1>1, <1>4, <1>5, Zenon
  <1>8. pc' \in Starting => attached = {}
    BY <1>1, <1>4, Zenon
  <1> QED BY <1>1, <1>2, <1>3, <1>6, <1>7, <1>8, LocalStep, Zenon

\* The status updates of the reconciler, each an instance of CommitStep.
LEMMA CommitSteps ==
  ASSUME FenceInv,
         \/ updateSessionFailure
         \/ Commit("verifying", [s EXCEPT !.fence = "FenceVerifying"], "prepared")
         \/ Commit("restVerifying", [s EXCEPT !.fence = "FenceVerifying"], "restProof")
         \/ publishFenceUncertain
         \/ Commit("shutdown", [s EXCEPT !.fence = "ShutdownRequested"], "drainPod")
         \/ Commit("readyStatus", Seen, "idle")
         \/ Commit("startingStatus", Seen, "idle")
         \/ Rested
  PROVE  FenceInv'
  <1>0. Kept
    BY Zenon DEF FenceInv
  <1>a. /\ {"idle", "prepared", "restProof", "drainPod"} \cap Starting = {}
        /\ {"idle", "drainPod"} \cap Absent = {}
        /\ {"verifying", "restVerifying"} \subseteq Absent
    BY Zenon DEF Starting, Serving, Absent
  <1>1. CASE updateSessionFailure
    <2> DEFINE n == [s EXCEPT !.podName = FALSE]
    <2>1. n \in Statuses /\ n.auth = s.auth /\ n.fence = s.fence
      BY Zenon, <1>0 DEF Kept, Statuses, FenceStates
    <2>2. Commit("failStatus", n, "idle")
      BY <1>1, Zenon DEF updateSessionFailure
    <2> HIDE DEF n
    <2>3. n.fence \in Free => n.fence = s.fence \/ "failStatus" \in {"allocate", "restStatus"}
      BY <2>1, Zenon DEF Free
    <2> QED BY <1>a, <2>1, <2>2, <2>3, CommitStep, Zenon
  <1>2. CASE Commit("verifying", [s EXCEPT !.fence = "FenceVerifying"], "prepared")
    <2> DEFINE n == [s EXCEPT !.fence = "FenceVerifying"]
    <2>1. n \in Statuses /\ n.auth = s.auth /\ n.fence = "FenceVerifying"
      BY <1>0, Zenon DEF Kept, Statuses, FenceStates
    <2>2. Commit("verifying", n, "prepared")
      BY <1>2, Zenon
    <2> HIDE DEF n
    <2>3. n.fence \in Free => n.fence = s.fence \/ "verifying" \in {"allocate", "restStatus"}
      BY <2>1, Zenon DEF Free
    <2> QED BY <1>a, <2>1, <2>2, <2>3, CommitStep, Zenon
  <1>3. CASE Commit("restVerifying", [s EXCEPT !.fence = "FenceVerifying"], "restProof")
    <2> DEFINE n == [s EXCEPT !.fence = "FenceVerifying"]
    <2>1. n \in Statuses /\ n.auth = s.auth /\ n.fence = "FenceVerifying"
      BY <1>0, Zenon DEF Kept, Statuses, FenceStates
    <2>2. Commit("restVerifying", n, "restProof")
      BY <1>3, Zenon
    <2> HIDE DEF n
    <2>3. n.fence \in Free => n.fence = s.fence \/ "restVerifying" \in {"allocate", "restStatus"}
      BY <2>1, Zenon DEF Free
    <2> QED BY <1>a, <2>1, <2>2, <2>3, CommitStep, Zenon
  <1>4. CASE publishFenceUncertain
    <2> DEFINE n == [s EXCEPT !.fence = "FenceUncertain", !.podName = FALSE]
    <2>1. n \in Statuses /\ n.auth = s.auth /\ n.fence = "FenceUncertain"
      BY Zenon, <1>0 DEF Kept, Statuses, FenceStates
    <2>2. Commit("uncertain", n, "idle")
      BY <1>4, Zenon DEF publishFenceUncertain
    <2> HIDE DEF n
    <2>3. n.fence \in Free => n.fence = s.fence \/ "uncertain" \in {"allocate", "restStatus"}
      BY <2>1, Zenon DEF Free
    <2> QED BY <1>a, <2>1, <2>2, <2>3, CommitStep, Zenon
  <1>5. CASE Commit("shutdown", [s EXCEPT !.fence = "ShutdownRequested"], "drainPod")
    <2> DEFINE n == [s EXCEPT !.fence = "ShutdownRequested"]
    <2>1. n \in Statuses /\ n.auth = s.auth /\ n.fence = "ShutdownRequested"
      BY <1>0, Zenon DEF Kept, Statuses, FenceStates
    <2>2. Commit("shutdown", n, "drainPod")
      BY <1>5, Zenon
    <2> HIDE DEF n
    <2>3. n.fence \in Free => n.fence = s.fence \/ "shutdown" \in {"allocate", "restStatus"}
      BY <2>1, Zenon DEF Free
    <2> QED BY <1>a, <2>1, <2>2, <2>3, CommitStep, Zenon
  <1>6. CASE Commit("readyStatus", Seen, "idle")
    <2> DEFINE n == [s EXCEPT !.podName = TRUE, !.podUID = rpod]
    <2>1. n \in Statuses /\ n.auth = s.auth /\ n.fence = s.fence
      BY <1>0, Zenon DEF Kept, Statuses, FenceStates
    <2>2. Commit("readyStatus", n, "idle")
      BY <1>6, Zenon DEF Seen
    <2> HIDE DEF n
    <2>3. n.fence \in Free => n.fence = s.fence \/ "readyStatus" \in {"allocate", "restStatus"}
      BY <2>1, Zenon DEF Free
    <2> QED BY <1>a, <2>1, <2>2, <2>3, CommitStep, Zenon
  <1>7. CASE Commit("startingStatus", Seen, "idle")
    <2> DEFINE n == [s EXCEPT !.podName = TRUE, !.podUID = rpod]
    <2>1. n \in Statuses /\ n.auth = s.auth /\ n.fence = s.fence
      BY <1>0, Zenon DEF Kept, Statuses, FenceStates
    <2>2. Commit("startingStatus", n, "idle")
      BY <1>7, Zenon DEF Seen
    <2> HIDE DEF n
    <2>3. n.fence \in Free => n.fence = s.fence \/ "startingStatus" \in {"allocate", "restStatus"}
      BY <2>1, Zenon DEF Free
    <2> QED BY <1>a, <2>1, <2>2, <2>3, CommitStep, Zenon
  <1>8. CASE Rested
    <2> DEFINE n == [s EXCEPT !.podName = FALSE, !.podUID = None, !.fence = "FenceProven"]
    <2>1. n \in Statuses /\ n.auth = s.auth /\ n.fence = "FenceProven"
      BY Zenon, <1>0 DEF Kept, Statuses, FenceStates
    <2>2. Commit("restStatus", n, "idle")
      BY <1>8, Zenon DEF Rested
    <2> HIDE DEF n
    <2>3. n.fence \in Free => n.fence = s.fence \/ "restStatus" \in {"allocate", "restStatus"}
      BY <2>1, Zenon DEF Free
    <2> QED BY <1>a, <2>1, <2>2, <2>3, CommitStep, Zenon
  <1> QED BY <1>1, <1>2, <1>3, <1>4, <1>5, <1>6, <1>7, <1>8, Zenon

\* The drain records what it fences.
LEMMA DrainStatusStep ==
  ASSUME FenceInv,
         Commit("drainStatus",
            [s EXCEPT !.fence = "DrainRequired", !.fencingGen = s.gen,
                      !.fencingPod = IF rpod # None THEN rpod ELSE IF @ = None THEN s.podUID ELSE @],
            "drainAuth")
  PROVE  FenceInv'
  <1> DEFINE fp == IF rpod # None THEN rpod ELSE IF s.fencingPod = None THEN s.podUID ELSE s.fencingPod
             n == [s EXCEPT !.fence = "DrainRequired", !.fencingGen = s.gen, !.fencingPod = fp]
  <1>1. fp \in Pods \cup {None}
    BY Zenon DEF FenceInv, Kept, Statuses
  <1>2. Commit("drainStatus", n, "drainAuth")
    OBVIOUS
  <1> HIDE DEF fp
  <1>3. n \in Statuses /\ n.auth = s.auth /\ n.fence = "DrainRequired"
    BY <1>1, Zenon DEF FenceInv, Kept, Statuses, FenceStates
  <1> HIDE DEF n
  <1>4. "drainAuth" \notin Starting /\ "drainAuth" \notin Absent /\ n.fence \notin Free
    BY <1>3, Zenon DEF Starting, Serving, Absent, Free
  <1> QED BY <1>2, <1>3, <1>4, CommitStep, Zenon

\* The compare-and-swap of the generation, behind the proof.
LEMMA AllocateStep ==
  ASSUME FenceInv, Allocate
  PROVE  FenceInv'
  <1> DEFINE n == [s EXCEPT !.gen = @ + 1, !.auth = s.gen + 1, !.fence = "FenceProven",
                      !.fencingPod = None, !.fencingGen = None, !.fencingVolume = FALSE,
                      !.podName = FALSE, !.podUID = None]
  <1>1. n \in Statuses /\ n.auth = n.gen
    <2>1. PICK g \in Gens : g = s.gen + 1
      BY Zenon DEF Allocate
    <2> QED BY Zenon, <2>1 DEF FenceInv, Kept, Statuses, FenceStates
  <1>2. Commit("allocate", n, "route")
    BY Zenon DEF Allocate
  <1> HIDE DEF n
  <1>3. "route" \notin Absent
    BY Zenon DEF Absent
  <1> QED BY <1>1, <1>2, <1>3, CommitStep, Zenon

\* A reconcile may end anywhere.
LEMMA EndStep ==
  ASSUME FenceInv, UNCHANGED <<status, pod, secrets, attached, leaseVars>>, End
  PROVE  FenceInv'
  <1>1. /\ UNCHANGED <<pod, attached, secrets, leaseVars>> /\ status' = status /\ s' = status
        /\ pc' = "idle" /\ rpod' = None
    BY Zenon DEF End
  <1>2. Copied'
    BY <1>1, Zenon DEF Copied
  <1>3. Read' /\ pc' \notin Starting
    BY <1>1, Zenon DEF Read, Starting, Serving, Absent
  <1> QED BY <1>1, <1>2, <1>3, LocalStep, Zenon DEF FenceInv, Kept

\* A drain may begin anywhere.
LEMMA DrainEntryStep ==
  ASSUME FenceInv, UNCHANGED <<status, pod, secrets, attached, leaseVars>>,
         NEW p \in Pods \cup {None}, NEW to \in {"drain", "drainStatus"}, EnterDrain(p, to)
  PROVE  FenceInv'
  <1>1. UNCHANGED <<pod, attached, secrets, leaseVars>> /\ status' = status /\ pc' = to /\ rpod' = p
    BY Zenon DEF EnterDrain
  <1>2. s' \in Statuses /\ s'.gen = s.gen /\ s'.auth = s.auth /\ s'.fence = s.fence
    <2>1. PICK b \in BOOLEAN : b = (s.fencingVolume \/ bound)
      BY Zenon
    <2> QED BY Zenon, <2>1 DEF EnterDrain, FenceInv, Kept, Statuses
  <1>3. Copied'
    BY <1>1, <1>2, Zenon DEF FenceInv, Copied
  <1>4. Read' /\ pc' \notin Starting
    BY <1>1, Zenon DEF Read, Starting, Serving, Absent
  <1> QED BY <1>1, <1>2, <1>3, <1>4, LocalStep, Zenon DEF FenceInv, Kept

\* A reconcile goes from one step to another on what it has just read.
LEMMA MoveStep ==
  ASSUME FenceInv, UNCHANGED <<status, s, pod, secrets, attached, leaseVars>>,
         rpod' \in Pods \cup {None}, Read',
         pc' \in Starting => pc \in Starting \/ pod # NoPod \/ status.fence \in Free \/ attached = {}
  PROVE  FenceInv'
  <1>1. /\ UNCHANGED <<pod, attached, secrets, leaseVars>> /\ status' = status /\ s' = s
    BY Zenon
  <1>2. Copied'
    BY <1>1, Zenon DEF FenceInv, Copied
  <1> QED BY <1>1, <1>2, LocalStep, Zenon DEF FenceInv, Kept

\* What the proof of a fence establishes about the volume.
LEMMA ProofDetaches ==
  ASSUME FenceInv, positiveFenceProof
  PROVE  attached = {} /\ s.auth \notin secrets /\ pod = NoPod
  <1>1. s.auth # None => requiresAttachmentProof
    BY Zenon DEF requiresAttachmentProof
  <1>2. s.auth = None => attached = {}
    BY Zenon DEF FenceInv, Copied, Unused
  <1> QED BY <1>1, <1>2, Zenon DEF positiveFenceProof

\* prepareRunningGeneration looks at the fence and at the Pod it finds.
LEMMA PrepareStep ==
  ASSUME FenceInv, Prepare
  PROVE  FenceInv'
  <1>1. pc = "prepare" /\ UNCHANGED <<status, pod, secrets, attached, leaseVars>>
    BY Zenon DEF Prepare
  <1>2. CASE End
    BY <1>1, <1>2, EndStep, Zenon
  <1>3. CASE /\ pod # NoPod /\ s.auth = s.gen /\ pc' = "route"
             /\ UNCHANGED <<s, fresh, rpod>>
    <2>1. Read'
      BY <1>1, <1>3, Zenon DEF Read, Serving, Absent
    <2> QED BY <1>1, <1>3, <2>1, MoveStep, Zenon DEF FenceInv, Kept
  <1>4. CASE \E to \in {"drain", "drainStatus"} : EnterDrain(pod.uid, to)
    <2>1. pod.uid \in Pods \cup {None}
      BY Zenon DEF FenceInv, Kept
    <2> QED BY <1>1, <1>4, <2>1, DrainEntryStep, Zenon
  <1>5. CASE /\ pod = NoPod
             /\ pc' = IF s.fence = "ShutdownRequested" THEN "verify" ELSE "prepared"
             /\ UNCHANGED <<s, fresh, rpod>>
    <2>1. Read' /\ pc' \notin Starting
      BY <1>1, <1>5, Zenon DEF Read, Starting, Serving, Absent
    <2> QED BY <1>1, <1>5, <2>1, MoveStep, Zenon DEF FenceInv, Kept
  <1> QED BY <1>2, <1>3, <1>4, <1>5, Zenon DEF Prepare

\* With no Pod there, the generation is resumed, drained, allocated or left uncertain.
LEMMA PreparedStep ==
  ASSUME FenceInv, Prepared
  PROVE  FenceInv'
  <1>1. pc = "prepared" /\ UNCHANGED <<status, pod, secrets, attached, leaseVars>>
    BY Zenon DEF Prepared
  <1>2. pod = NoPod
    BY <1>1, Zenon DEF FenceInv, Read, Absent
  <1>3. CASE Resumable /\ pc' = "route" /\ UNCHANGED <<s, fresh, rpod>>
    <2>1. Read'
      BY <1>1, <1>3, Zenon DEF Read, Serving, Absent, Resumable
    <2>2. status.fence \in Free
      BY <1>3, Zenon DEF FenceInv, Copied, Resumable, Free
    <2> QED BY <1>1, <1>3, <2>1, <2>2, MoveStep, Zenon DEF FenceInv, Kept
  <1>4. CASE \E to \in {"drain", "drainStatus"} : EnterDrain(None, to)
    BY <1>1, <1>4, DrainEntryStep, Zenon
  <1>5. CASE /\ pc' = IF positiveFenceProof THEN "allocate" ELSE "uncertain"
             /\ UNCHANGED <<s, fresh, rpod>>
    <2>1. CASE positiveFenceProof
      <3>1. attached = {} /\ s.auth \notin secrets
        BY <2>1, ProofDetaches, Zenon
      <3>2. Read'
        BY <1>1, <1>2, <1>5, <2>1, <3>1, Zenon DEF Read, Serving, Absent
      <3> QED BY <1>1, <1>5, <3>1, <3>2, MoveStep, Zenon DEF FenceInv, Kept
    <2>2. CASE ~positiveFenceProof
      <3>1. Read' /\ pc' \notin Starting
        BY <1>5, <2>2, Zenon DEF Read, Starting, Serving, Absent
      <3> QED BY <1>1, <1>5, <3>1, MoveStep, Zenon DEF FenceInv, Kept
    <2> QED BY <2>1, <2>2, Zenon
  <1> QED BY <1>3, <1>4, <1>5, Zenon DEF Prepared

\* A session to rest drains what authority remains, and rests on a positive fence proof.
LEMMA RestStep ==
  ASSUME FenceInv, Rest \/ RestProof
  PROVE  FenceInv'
  <1>1. UNCHANGED <<status, pod, secrets, attached, leaseVars>>
    BY Zenon DEF Rest, RestProof
  <1>2. CASE End
    BY <1>1, <1>2, EndStep, Zenon
  <1>3. CASE EnterDrain(pod.uid, "drain") \/ EnterDrain(None, "drain")
    <2>1. pod.uid \in Pods \cup {None}
      BY Zenon DEF FenceInv, Kept
    <2> QED BY <1>1, <1>3, <2>1, DrainEntryStep, Zenon
  <1>4. CASE /\ pod = NoPod
             /\ pc' = IF s.fence = "ShutdownRequested" THEN "restVerify" ELSE "restProof"
             /\ UNCHANGED <<s, fresh, rpod>>
    <2>1. Read' /\ pc' \notin Starting
      BY <1>1, <1>4, Zenon DEF Read, Starting, Serving, Absent
    <2> QED BY <1>1, <1>4, <2>1, MoveStep, Zenon DEF FenceInv, Kept
  <1>5. CASE RestProof
    <2>0. pc = "restProof" /\ UNCHANGED <<s, rpod>>
      BY <1>5, Zenon DEF RestProof, Go
    <2>1. CASE positiveFenceProof
      <3>1. pc' = "restStatus"
        BY <1>5, <2>1, Zenon DEF RestProof, Go
      <3>2. attached = {} /\ pod = NoPod
        BY <2>1, ProofDetaches, Zenon
      <3>3. Read'
        BY <1>1, <3>1, <3>2, Zenon DEF Read, Serving, Absent
      <3> QED BY <1>1, <2>0, <3>2, <3>3, MoveStep, Zenon DEF FenceInv, Kept
    <2>2. CASE ~positiveFenceProof
      <3>1. pc' = "uncertain"
        BY <1>5, <2>2, Zenon DEF RestProof, Go
      <3>2. Read' /\ pc' \notin Starting
        BY <3>1, Zenon DEF Read, Starting, Serving, Absent
      <3> QED BY <1>1, <2>0, <3>2, MoveStep, Zenon DEF FenceInv, Kept
    <2> QED BY <2>1, <2>2, Zenon
  <1> QED BY <1>2, <1>3, <1>4, <1>5, Zenon DEF Rest

\* The steps that touch neither the Pod nor the lease.
LEMMA QuietStep ==
  ASSUME FenceInv,
         \/ Begin \/ Abort \/ FailRoute \/ WithdrawRoute
         \/ EnsureRoute \/ Ready \/ Publish \/ Conflict \/ Withdraw
         \/ SetDesired
         \/ prepareRequestedInactive /\ UNCHANGED leaseVars
  PROVE  FenceInv'
  <1>1. UNCHANGED <<status, pod, secrets, attached, leaseVars>>
    BY Zenon DEF Begin, Abort, FailRoute, WithdrawRoute, EnsureRoute, Ready, Publish, Conflict,
       Withdraw, SetDesired, prepareRequestedInactive
  <1>2. CASE Begin
    <2>1. s' = status /\ rpod' = rpod /\ pc' \in {"prepare", "fail", "quiesce"}
      BY <1>2, Zenon DEF Begin
    <2>2. Copied'
      BY <1>1, <2>1, Zenon DEF Copied
    <2>3. Read' /\ pc' \notin Starting
      BY <2>1, Zenon DEF Read, Starting, Serving, Absent
    <2> QED BY <1>1, <2>1, <2>2, <2>3, LocalStep, Zenon DEF FenceInv, Kept
  <1>3. CASE Abort \/ Withdraw
    BY <1>1, <1>3, EndStep, Zenon DEF Abort, Withdraw
  <1>4. CASE /\ UNCHANGED <<s, rpod>>
             /\ pc' \in {"failStatus", "drainStatus", "rest", "fail"}
    <2>1. Read' /\ pc' \notin Starting
      BY <1>4, Zenon DEF Read, Starting, Serving, Absent
    <2> QED BY <1>1, <1>4, <2>1, MoveStep, Zenon DEF FenceInv, Kept
  <1>5. CASE /\ UNCHANGED <<s, rpod>>
             /\ pc \in {"route", "ready", "publish", "readyStatus"}
             /\ pc' \in {"auth", "publish", "startingStatus", "readyStatus", "withdraw"}
    <2>1. Read' /\ pc \in Starting
      BY <1>1, <1>5, Zenon DEF FenceInv, Read, Starting, Serving, Absent
    <2> QED BY <1>1, <1>5, <2>1, MoveStep, Zenon DEF FenceInv, Kept
  <1>6. CASE SetDesired
    <2>1. UNCHANGED <<pc, s, rpod>>
      BY <1>6, Zenon DEF SetDesired
    <2>2. Read'
      BY <1>1, <2>1, Zenon DEF FenceInv, Read
    <2> QED BY <1>1, <2>1, <2>2, MoveStep, Zenon DEF FenceInv, Kept
  <1> QED BY <1>2, <1>3, <1>4, <1>5, <1>6, Zenon
          DEF FailRoute, WithdrawRoute, EnsureRoute, Ready, Publish, Conflict, prepareRequestedInactive, Go

-----------------------------------------------------------------------------
(* Steps that change the Pod, the volume, the Secrets or the lease *)

\* The Pod object is marked or gone.
LEMMA PodGoesStep ==
  ASSUME FenceInv, UNCHANGED <<status, secrets, attached, leaseVars>>,
         pod' = NoPod \/ pod' = [pod EXCEPT !.terminating = TRUE] \/ pod' = pod,
         pod = NoPod => pod' = NoPod,
         s' \in Statuses, rpod' \in Pods \cup {None}, Copied',
         (pc' = pc /\ s' = s) \/ pc' \in {"failRoute", "idle"}
  PROVE  FenceInv'
  <1>0. /\ status' = status /\ secrets' = secrets /\ attached' = attached /\ lease' = lease
        /\ accepting' = accepting /\ acquired' = acquired /\ proc' = proc
    BY Zenon DEF leaseVars
  <1>1. LeaseInv'
    BY LeaseStep, Zenon DEF FenceInv
  <1>2. /\ pod' \in [uid : Pods \cup {None}, gen : Gens \cup {None}, terminating : BOOLEAN]
        /\ pod'.uid \in {None, pod.uid}
        /\ pod'.uid = None => pod' = NoPod
    <2>1. CASE pod' = NoPod
      BY <2>1, Zenon DEF NoPod
    <2>2. CASE pod' = [pod EXCEPT !.terminating = TRUE]
      <3>1. /\ pod' \in [uid : Pods \cup {None}, gen : Gens \cup {None}, terminating : BOOLEAN]
            /\ pod'.uid = pod.uid
        BY <2>2, Zenon DEF FenceInv, Kept
      <3> QED BY <3>1, Zenon DEF FenceInv, Kept
    <2>3. CASE pod' = pod
      BY <2>3, Zenon DEF FenceInv, Kept
    <2> QED BY <2>1, <2>2, <2>3, Zenon
  <1>3. Kept'
    BY <1>0, <1>2, Zenon DEF FenceInv, Kept
  <1>4. Read'
    <2>1. CASE pc' = pc /\ s' = s
      <3>1. pc \in Absent => pod' = NoPod
        BY Zenon DEF FenceInv, Read
      <3> QED BY <1>0, <2>1, <3>1, Zenon DEF FenceInv, Read
    <2>2. CASE pc' \in {"failRoute", "idle"}
      BY <2>2, Zenon DEF Read, Serving, Absent
    <2> QED BY <2>1, <2>2, Zenon
  <1>5. Unused'
    BY <1>0, Zenon DEF FenceInv, Unused
  <1>6. Placed'
    <2> SUFFICES ASSUME NEW p \in Pods, pod'.uid = p, proc[p] # "down" PROVE p \in attached
      BY <1>0, Zenon DEF Placed
    <2>1. p # None
      BY PodsAreUids, Zenon DEF None
    <2> QED BY <1>2, <2>1, Zenon DEF FenceInv, Placed
  <1>7. AuthCurrent' /\ OneAuthority'
    BY <1>0, Zenon DEF FenceInv, AuthCurrent, OneAuthority, Owners
  <1>8. Fencing'
    <2>1. Stale' = Stale
      BY <1>0, Zenon DEF Stale, Owners
    <2>2. pc' \in Serving \cup {"allocate", "restStatus"} => pc' = pc
      BY Zenon DEF Serving
    <2> QED BY <1>0, <2>1, <2>2, Zenon DEF FenceInv, Fencing
  <1> QED BY <1>1, <1>3, <1>4, <1>5, <1>6, <1>7, <1>8, Zenon DEF FenceInv

\* A Pod is deleted, terminates or loses its node: its writer stays behind the fence.
LEMMA PodGoesSteps ==
  ASSUME FenceInv, FailPod \/ DrainPod \/ PodChange \/ NodeLost
  PROVE  FenceInv'
  <1>1. UNCHANGED <<status, secrets, attached, leaseVars>>
    BY Zenon DEF FailPod, DrainPod, PodChange, NodeLost
  <1>2. /\ pod' = NoPod \/ pod' = [pod EXCEPT !.terminating = TRUE] \/ pod' = pod
        /\ pod = NoPod => pod' = NoPod
    BY Zenon DEF FailPod, DrainPod, PodChange, NodeLost, Terminated
  <1>3. CASE FailPod
    <2>1. pc' = "failRoute" /\ s' = s /\ rpod' = rpod
      BY <1>3, Zenon DEF FailPod, Go
    <2>2. Copied'
      BY <1>1, <2>1, Zenon DEF FenceInv, Copied
    <2> QED BY <1>1, <1>2, <2>1, <2>2, PodGoesStep, Zenon DEF FenceInv, Kept
  <1>4. CASE DrainPod
    <2>1. pc' = "idle" /\ s' = status' /\ rpod' = None
      BY <1>4, Zenon DEF DrainPod, End
    <2>2. Copied'
      BY <2>1, Zenon DEF Copied
    <2> QED BY <1>1, <1>2, <2>1, <2>2, PodGoesStep, Zenon DEF FenceInv, Kept
  <1>5. CASE PodChange \/ NodeLost
    <2>1. pc' = pc /\ s' = s /\ rpod' = rpod
      BY <1>5, Zenon DEF PodChange, NodeLost
    <2>2. Copied'
      BY <1>1, <2>1, Zenon DEF FenceInv, Copied
    <2> QED BY <1>1, <1>2, <2>1, <2>2, PodGoesStep, Zenon DEF FenceInv, Kept
  <1> QED BY <1>3, <1>4, <1>5, Zenon

\* The Secret of the current generation is made or revoked.
LEMMA SecretStep ==
  ASSUME FenceInv, RevokeAuth \/ ensureGenerationAuth
  PROVE  FenceInv'
  <1>0. /\ status' = status /\ s' = s /\ pod' = pod /\ rpod' = rpod
        /\ attached' = attached /\ UNCHANGED leaseVars
    BY Zenon DEF RevokeAuth, ensureGenerationAuth
  <1>1. LeaseInv'
    BY <1>0, LeaseStep, Zenon DEF FenceInv
  <1>2. Kept' /\ Copied' /\ Unused' /\ Placed' /\ OneAuthority'
    BY <1>0, Zenon DEF FenceInv, Kept, Copied, Unused, Placed, OneAuthority, Owners, leaseVars
  <1>3. \/ pc' = "shutdown" /\ secrets' = secrets \ {s.auth}
        \/ pc = "auth" /\ pc' = "lease" /\ secrets' = secrets \cup {s.gen}
    BY Zenon DEF RevokeAuth, ensureGenerationAuth, Go
  <1>4. Read' /\ AuthCurrent' /\ (pc' \in Starting => pc \in Starting)
    BY <1>0, <1>3, Zenon DEF FenceInv, Read, Copied, AuthCurrent, Starting, Serving, Absent
  <1>5. Fencing'
    BY <1>0, <1>4, Zenon DEF FenceInv, Fencing, Stale, Owners, Starting, leaseVars
  <1> QED BY <1>1, <1>2, <1>4, <1>5, Zenon DEF FenceInv

\* Brokers on one lease object: the object names its only holder.
LEMMA OneHolder == LeaseInv /\ Fencing /\ attached \subseteq Pods /\ lease # NoLease => OneAuthority
  <1> SUFFICES ASSUME LeaseInv, Fencing, attached \subseteq Pods, lease # NoLease PROVE OneAuthority
    BY Zenon
  <1>1. Stale = {}
    BY Zenon DEF Fencing
  <1> SUFFICES ASSUME NEW p \in Owners, NEW q \in Owners PROVE p = q
    BY Zenon DEF OneAuthority
  <1>2. acquired[p] = lease.uid /\ acquired[q] = lease.uid
    BY <1>1, Zenon DEF Stale
  <1>3. p \in Pods /\ q \in Pods /\ acquired[p] # None /\ acquired[q] # None
    BY Zenon DEF Owners
  <1>4. Holds(p) /\ Holds(q)
    BY <1>2, <1>3, Zenon DEF LeaseInv, Held
  <1> QED BY <1>4, Zenon DEF Holds

\* enterFenceVerifying: from here on the old Pod's broker may be stale.
LEMMA DeleteLeaseStep ==
  ASSUME FenceInv, DeleteLease("verify", "verifying") \/ DeleteLease("restVerify", "restVerifying")
  PROVE  FenceInv'
  <1>0. /\ status' = status /\ s' = s /\ pod' = pod /\ rpod' = rpod
        /\ attached' = attached /\ secrets' = secrets
        /\ acquired' = acquired /\ proc' = proc
        /\ lease' = NoLease
        /\ pc \in {"verify", "restVerify"} /\ pc' \in {"verifying", "restVerifying"}
    BY Zenon DEF DeleteLease, LeaseDelete, leaseVars, Go
  <1>1. LeaseInv'
    <2>1. [LeaseNext]_leaseVars
      BY Zenon DEF DeleteLease, LeaseNext
    <2> QED BY <2>1, LeaseStep, Zenon DEF FenceInv
  <1>2. Kept' /\ Copied' /\ Unused' /\ Placed' /\ OneAuthority' /\ AuthCurrent'
    BY <1>0, Zenon DEF FenceInv, Kept, Copied, Unused, Placed, OneAuthority, Owners, AuthCurrent
  <1>3. pod = NoPod /\ status.fence = "ShutdownRequested"
    BY <1>0, Zenon DEF FenceInv, Read, Copied, Absent
  <1>4. Read' /\ Fencing'
    BY <1>0, <1>3, Zenon DEF Read, Fencing, Serving, Absent
  <1> QED BY <1>1, <1>2, <1>4, Zenon DEF FenceInv

\* ensureWriterLease makes a lease only when nobody is stale.
LEMMA MakeLeaseStep ==
  ASSUME FenceInv, ensureWriterLease
  PROVE  FenceInv'
  <1>0. /\ status' = status /\ s' = s /\ pod' = pod /\ rpod' = rpod
        /\ attached' = attached /\ secrets' = secrets
        /\ proc' = proc /\ acquired' = acquired
        /\ pc = "lease" /\ pc' \in {"pod", "failStatus"}
    BY Zenon DEF ensureWriterLease, LeaseCreate, LeaseAnnotate, leaseVars
  <1>1. LeaseInv'
    <2>1. s.gen \in Gens
      BY Zenon DEF FenceInv, Kept, Statuses
    <2>2. [LeaseNext]_leaseVars
      BY <2>1, Zenon DEF ensureWriterLease, LeaseNext
    <2> QED BY <2>2, LeaseStep, Zenon DEF FenceInv
  <1>2. Kept' /\ Copied' /\ Unused' /\ Placed' /\ OneAuthority' /\ AuthCurrent'
    BY <1>0, Zenon DEF FenceInv, Kept, Copied, Unused, Placed, OneAuthority, Owners, AuthCurrent
  <1>3. Read'
    BY <1>0, Zenon DEF FenceInv, Read, Serving, Absent
  <1>4. Fencing'
    <2>1. Stale = {}
      BY <1>0, Zenon DEF FenceInv, Fencing, Serving
    <2>2. CASE LeaseCreate(s.gen)
      <3>1. lease.uid = None
        BY <2>2, Zenon DEF LeaseCreate, NoLease
      <3>3. Owners = {}
        BY <2>1, <3>1, Zenon DEF Stale, Owners
      <3>4. Stale' = {}
        BY <1>0, <3>3, Zenon DEF Stale, Owners
      <3> QED BY <3>4, Zenon DEF Fencing
    <2>3. CASE ~LeaseCreate(s.gen)
      <3>1. lease'.uid = lease.uid
        <4>1. lease' = lease \/ lease' = [lease EXCEPT !.gen = s.gen]
          BY <2>3, Zenon DEF ensureWriterLease, LeaseAnnotate, leaseVars
        <4> QED BY <4>1, Zenon DEF FenceInv, LeaseInv, LeaseTypeOK
      <3>2. Stale' = {}
        BY <1>0, <2>1, <3>1, Zenon DEF Stale, Owners
      <3> QED BY <3>2, Zenon DEF Fencing
    <2> QED BY <2>2, <2>3, Zenon
  <1> QED BY <1>1, <1>2, <1>3, <1>4, Zenon DEF FenceInv

\* A Pod is created for the generation that was allocated.
LEMMA EnsurePodStep ==
  ASSUME FenceInv, EnsurePod
  PROVE  FenceInv'
  <1>0. /\ pc = "pod" /\ status' = status /\ secrets' = secrets /\ attached' = attached
    BY Zenon DEF EnsurePod
  <1>1. CASE /\ \E p \in Pods :
                   /\ Created(p, s.gen)
                   /\ pod' = [uid |-> p, gen |-> s.gen, terminating |-> FALSE]
                   /\ rpod' = p
             /\ pc' = "ready" /\ UNCHANGED <<s, fresh>>
    <2>1. PICK p \in Pods :
             /\ Created(p, s.gen)
             /\ pod' = [uid |-> p, gen |-> s.gen, terminating |-> FALSE]
             /\ rpod' = p
      BY <1>1, Zenon
    <2>2. s' = s /\ pc' = "ready"
      BY <1>1, Zenon
    <2>3. /\ s.gen \in Gens /\ s.gen # None /\ p # None
      BY PodsAreUids, GensAreNames, Zenon DEF FenceInv, Kept, Statuses, None
    <2>4. /\ lease' = lease /\ proc' = proc /\ acquired' = acquired /\ accepting' = accepting
          /\ generation[p] = None
      BY <2>1, Zenon DEF Created
    <2>5. LeaseInv'
      <3>1. LeaseNext
        BY <2>1, <2>3, Zenon DEF LeaseNext
      <3> QED BY <3>1, LeaseStep, Zenon DEF FenceInv
    <2>6. pod'.uid = p /\ pod' \in [uid : Pods \cup {None}, gen : Gens \cup {None}, terminating : BOOLEAN]
      BY <2>1, <2>3, Zenon
    <2>7. Kept'
      BY <1>0, <2>1, <2>2, <2>3, <2>6, Zenon DEF FenceInv, Kept
    <2>8. Copied' /\ AuthCurrent' /\ OneAuthority'
      BY <1>0, <2>2, <2>4, Zenon DEF FenceInv, Copied, AuthCurrent, OneAuthority, Owners
    <2>9. s.auth = s.gen /\ Stale = {}
      BY <1>0, Zenon DEF FenceInv, Read, Fencing, Serving
    <2>10. Read'
      BY <2>2, <2>9, Zenon DEF Read, Serving, Absent
    <2>11. Unused'
      BY <1>0, <2>3, <2>9, Zenon DEF FenceInv, Copied, Unused
    <2>12. Placed'
      <3>1. proc[p] = "down"
        BY <2>4, Zenon DEF FenceInv, LeaseInv, Processes
      <3> QED BY <2>4, <2>6, <3>1, Zenon DEF Placed
    <2>13. Fencing'
      <3>1. Stale' = {}
        BY <1>0, <2>4, <2>9, Zenon DEF Stale, Owners
      <3> QED BY <3>1, Zenon DEF Fencing
    <2> QED BY <2>5, <2>7, <2>8, <2>10, <2>11, <2>12, <2>13, Zenon DEF FenceInv
  <1>2. CASE pc' = "fail" /\ UNCHANGED <<pod, s, fresh, rpod, leaseVars>>
    <2>1. Read' /\ pc' \notin Starting
      BY <1>2, Zenon DEF Read, Starting, Serving, Absent
    <2> QED BY <1>0, <1>2, <2>1, MoveStep, Zenon DEF FenceInv, Kept
  <1>3. CASE EnterDrain(pod.uid, "drain") /\ UNCHANGED <<pod, leaseVars>>
    BY <1>0, <1>3, DrainEntryStep, Zenon DEF FenceInv, Kept
  <1>4. CASE pc' = "ready" /\ rpod' = pod.uid /\ UNCHANGED <<pod, s, fresh, leaseVars>>
    <2>1. Read' /\ pc \in Starting
      BY <1>0, <1>4, Zenon DEF FenceInv, Read, Starting, Serving, Absent
    <2>2. rpod' \in Pods \cup {None}
      BY <1>4, Zenon DEF FenceInv, Kept
    <2> QED BY <1>0, <1>4, <2>1, <2>2, MoveStep, Zenon
  <1> QED BY <1>1, <1>2, <1>3, <1>4, Zenon DEF EnsurePod

\* A volume is attached for a Pod that does not run yet, or already was.
LEMMA AttachStep ==
  ASSUME FenceInv, Attach
  PROVE  FenceInv'
  <1>0. /\ status' = status /\ s' = s /\ pod' = pod /\ rpod' = rpod /\ pc' = pc
        /\ secrets' = secrets /\ UNCHANGED leaseVars
        /\ pod # NoPod /\ attached' = attached \cup {pod.uid}
    BY Zenon DEF Attach
  <1>1. pod.uid \in Pods
    BY <1>0, Zenon DEF FenceInv, Kept
  <1>2. LeaseInv'
    BY <1>0, LeaseStep, Zenon DEF FenceInv
  <1>3. Kept' /\ Copied' /\ AuthCurrent'
    BY <1>0, <1>1, Zenon DEF FenceInv, Kept, Copied, AuthCurrent
  <1>4. Read' /\ Unused'
    BY <1>0, Zenon DEF FenceInv, Read, Unused, Absent
  <1>5. Placed'
    BY <1>0, Zenon DEF FenceInv, Placed, leaseVars
  <1>6. acquired' = acquired /\ lease' = lease /\ Owners' = Owners
    <2>1. acquired[pod.uid] # None => proc[pod.uid] # "down"
      BY <1>1, Zenon DEF FenceInv, LeaseInv, Processes
    <2>2. acquired[pod.uid] # None => pod.uid \in attached
      BY <1>1, <2>1, Zenon DEF FenceInv, Placed
    <2> QED BY <1>0, <2>2, Zenon DEF Owners, leaseVars
  <1>7. Stale = {}
    BY <1>0, Zenon DEF FenceInv, Fencing
  <1>8. Fencing'
    <2>1. Stale' = {}
      BY <1>0, <1>6, <1>7, Zenon DEF Stale, Owners, leaseVars
    <2> QED BY <2>1, Zenon DEF Fencing
  <1>9. OneAuthority'
    BY <1>6, Zenon DEF FenceInv, OneAuthority, Owners
  <1> QED BY <1>2, <1>3, <1>4, <1>5, <1>8, <1>9, Zenon DEF FenceInv

\* A volume goes away, or the quiesced Pod stops accepting.
LEMMA FewerStep ==
  ASSUME FenceInv, Detach \/ (prepareRequestedInactive /\ ~UNCHANGED leaseVars)
  PROVE  FenceInv'
  <1>0. /\ status' = status /\ s' = s /\ pod' = pod /\ rpod' = rpod /\ secrets' = secrets
        /\ lease' = lease /\ acquired' = acquired
        /\ \A p \in Pods : proc'[p] # "down" => proc[p] # "down"
        /\ attached' \subseteq attached
        /\ \A p \in attached : p \in attached' \/ p # pod.uid
        /\ pc' = pc \/ pc' = "rest"
    BY Zenon DEF Detach, prepareRequestedInactive, Fence, Fenced, leaseVars, Go, FenceInv, LeaseInv, LeaseTypeOK
  <1>1. LeaseInv'
    <2>1. [Next]_vars
      BY Zenon DEF Next, Reconcile
    <2> QED BY <2>1, LeaseFollowed, LeaseStep, Zenon DEF FenceInv
  <1>2. Kept' /\ Copied' /\ AuthCurrent'
    BY <1>0, Zenon DEF FenceInv, Kept, Copied, AuthCurrent
  <1>3. Read' /\ Unused'
    BY <1>0, Zenon DEF FenceInv, Read, Unused, Serving, Absent
  <1>4. Placed'
    BY <1>0, Zenon DEF FenceInv, Placed
  <1>5. Fencing'
    <2>1. Stale' \subseteq Stale
      BY <1>0, Zenon DEF Stale, Owners
    <2> QED BY <1>0, <2>1, Zenon DEF FenceInv, Fencing, Serving
  <1>6. OneAuthority'
    BY <1>0, Zenon DEF FenceInv, OneAuthority, Owners
  <1> QED BY <1>1, <1>2, <1>3, <1>4, <1>5, <1>6, Zenon DEF FenceInv

\* What a broker's step does to the Pods that run and to what they hold.
LEMMA BrokerEffect ==
  ASSUME LeaseInv, NEW p \in Pods, BrokerNext(p)
  PROVE  /\ \A q \in Pods : proc'[q] # "down" => proc[q] # "down"
         /\ \A q \in Pods : acquired'[q] \in {acquired[q], None, lease'.uid}
         /\ lease'.uid = lease.uid
         /\ lease = NoLease => \A q \in Pods : acquired'[q] \in {acquired[q], None}
  <1> USE DEF LeaseInv, LeaseTypeOK
  <1>1. CASE Kill(p)
    BY <1>1, Zenon DEF Kill, Down
  <1>2. CASE AcquireRead(p)
    <2>1. proc[p] = "up" /\ lease' = lease
      BY <1>2, Zenon DEF AcquireRead
    <2>2. CASE Down(p)
      BY <2>1, <2>2, Zenon DEF Down
    <2>3. CASE Gained(p) /\ lease # NoLease
      BY <2>1, <2>3, Zenon DEF Gained
    <2>4. CASE proc' = [proc EXCEPT ![p] = "read"] /\ UNCHANGED <<acquired, accepting>>
      BY <2>1, <2>4, Zenon
    <2> QED BY <1>2, <2>2, <2>3, <2>4, Zenon DEF AcquireRead
  <1>3. CASE AcquireWrite(p)
    <2>1. proc[p] = "read" /\ p \in seen /\ lease' = [lease EXCEPT !.holder = p]
      BY <1>3, Zenon DEF AcquireWrite
    <2>2. lease.uid # None /\ lease'.uid = lease.uid
      BY <2>1, Zenon DEF Reads
    <2>3. lease # NoLease
      BY <2>2 DEF NoLease
    <2>4. Gained(p)
      BY <1>3, Zenon DEF AcquireWrite
    <2> QED BY <2>1, <2>2, <2>3, <2>4, Zenon DEF Gained
  <1>4. CASE AcquireConflict(p)
    <2>1. proc[p] = "read" /\ lease' = lease
      BY <1>4, Zenon DEF AcquireConflict
    <2>2. CASE Down(p)
      BY <2>1, <2>2, Zenon DEF Down
    <2>3. CASE proc' = [proc EXCEPT ![p] = "up"] /\ UNCHANGED <<acquired, accepting>>
      BY <2>1, <2>3, Zenon
    <2> QED BY <1>4, <2>2, <2>3, Zenon DEF AcquireConflict
  <1>5. CASE VerifyHeld(p)
    BY <1>5, Zenon DEF VerifyHeld, Fenced
  <1>6. CASE Fence(p)
    BY <1>6, Zenon DEF Fence, Fenced, Processes
  <1>7. CASE Acquired(p) \/ ReopenRead(p) \/ Reopen(p)
    BY <1>7, Zenon DEF Acquired, ReopenRead, Reopen
  <1>8. CASE Release(p)
    BY <1>8, Zenon DEF Release
  <1>9. CASE ReleaseRead(p)
    <2>1. proc[p] = "release" /\ lease' = lease
      BY <1>9, Zenon DEF ReleaseRead
    <2>2. CASE Down(p)
      BY <2>1, <2>2, Zenon DEF Down
    <2>3. CASE proc' = [proc EXCEPT ![p] = "put"] /\ UNCHANGED <<acquired, accepting>>
      BY <2>1, <2>3, Zenon
    <2> QED BY <1>9, <2>2, <2>3, Zenon DEF ReleaseRead
  <1>10. CASE ReleaseWrite(p)
    BY <1>10, Zenon DEF ReleaseWrite, Down
  <1>11. CASE ReleaseConflict(p)
    <2>1. proc[p] = "put" /\ lease' = lease
      BY <1>11, Zenon DEF ReleaseConflict
    <2>2. CASE Down(p)
      BY <2>1, <2>2, Zenon DEF Down
    <2>3. CASE proc' = [proc EXCEPT ![p] = "release"] /\ UNCHANGED <<acquired, accepting>>
      BY <2>1, <2>3, Zenon
    <2> QED BY <1>11, <2>2, <2>3, Zenon DEF ReleaseConflict
  <1> QED BY Zenon, <1>1, <1>2, <1>3, <1>4, <1>5, <1>6, <1>7, <1>8, <1>9, <1>10, <1>11 DEF BrokerNext

\* A broker in a Pod takes, renews or gives up the lease.
LEMMA BrokerStep ==
  ASSUME FenceInv, Broker
  PROVE  FenceInv'
  <1>0. /\ status' = status /\ s' = s /\ pod' = pod /\ rpod' = rpod /\ pc' = pc
        /\ secrets' = secrets /\ attached' = attached
    BY Zenon DEF Broker, opVars
  <1>1. PICK p \in Pods : BrokerNext(p)
    BY Zenon DEF Broker
  <1>2. LeaseInv'
    BY <1>1, LeaseStep, Zenon DEF FenceInv, LeaseNext
  <1>3. /\ \A q \in Pods : proc'[q] # "down" => proc[q] # "down"
        /\ \A q \in Pods : acquired'[q] \in {acquired[q], None, lease'.uid}
        /\ lease'.uid = lease.uid
        /\ lease = NoLease => \A q \in Pods : acquired'[q] \in {acquired[q], None}
    BY <1>1, BrokerEffect, Zenon DEF FenceInv
  <1>4. Kept' /\ Copied' /\ Read' /\ Unused' /\ AuthCurrent'
    BY Zenon, <1>0 DEF FenceInv, Kept, Copied, Read, Unused, AuthCurrent
  <1>5. Placed'
    BY <1>0, <1>3, Zenon DEF FenceInv, Placed
  <1>6. (lease = NoLease) = (lease' = NoLease)
    BY <1>2, <1>3 DEF FenceInv, LeaseInv, Uids, NoLease
  <1>7. Fencing'
    <2>1. Stale' \subseteq Stale
      BY <1>0, <1>3, Zenon DEF FenceInv, Kept, Stale, Owners
    <2> QED BY <1>0, <1>6, <2>1, Zenon DEF FenceInv, Fencing
  <1>8. OneAuthority'
    <2>1. CASE lease = NoLease
      BY <1>0, <1>3, <2>1, Zenon DEF FenceInv, Kept, OneAuthority, Owners
    <2>2. CASE lease # NoLease
      <3>1. (LeaseInv /\ Fencing /\ attached \subseteq Pods /\ lease # NoLease)'
        BY <1>2, <1>4, <1>6, <1>7, <2>2, Zenon DEF Kept, NoLease
      <3> QED BY <3>1, OneHolder, PTL
    <2> QED BY <2>1, <2>2, Zenon
  <1> QED BY <1>2, <1>4, <1>5, <1>7, <1>8, Zenon DEF FenceInv

\* The processes of a Pod start.
LEMMA PodStartStep ==
  ASSUME FenceInv, PodStart
  PROVE  FenceInv'
  <1>0. /\ status' = status /\ s' = s /\ pod' = pod /\ rpod' = rpod /\ pc' = pc
        /\ secrets' = secrets /\ attached' = attached
    BY Zenon DEF PodStart, opVars
  <1>1. pod.uid \in attached /\ pod.uid \in Pods /\ Start(pod.uid)
    BY Zenon DEF PodStart, FenceInv, Kept
  <1>2. LeaseInv'
    BY <1>1, LeaseStep, Zenon DEF FenceInv, LeaseNext
  <1>3. Kept' /\ Copied' /\ Read' /\ Unused' /\ AuthCurrent'
    BY Zenon, <1>0 DEF FenceInv, Kept, Copied, Read, Unused, AuthCurrent
  <1>4. Placed'
    <2>1. \A q \in Pods : q # pod.uid => proc'[q] = proc[q]
      BY <1>1, Zenon DEF Start, FenceInv, LeaseInv, LeaseTypeOK
    <2> QED BY <1>0, <1>1, Zenon DEF Placed
  <1>5. Fencing' /\ OneAuthority'
    BY <1>0, <1>1, Zenon DEF Start, FenceInv, Fencing, Stale, OneAuthority, Owners
  <1> QED BY <1>2, <1>3, <1>4, <1>5, Zenon DEF FenceInv

-----------------------------------------------------------------------------
(* The theorems *)

\* The invariant holds before the first reconcile.
LEMMA FenceInitially == Init => FenceInv
  <1> SUFFICES ASSUME Init PROVE FenceInv
    OBVIOUS
  <1>1. LeaseInv
    BY LeaseInitially, Zenon DEF Init
  <1>2. Kept
    BY FirstGeneration, PodsAreUids, Zenon DEF Init, Kept, Statuses, FenceStates, NoPod, None
  <1>3. Copied /\ Read /\ Unused /\ AuthCurrent
    BY <1>2, Zenon DEF Init, Copied, Read, Unused, AuthCurrent, Serving, Absent
  <1>4. Placed /\ Fencing /\ OneAuthority
    BY Zenon DEF Init, LeaseInit, Placed, Fencing, Stale, OneAuthority, Owners
  <1> QED BY <1>1, <1>2, <1>3, <1>4, Zenon DEF FenceInv

\* Every step keeps FenceInv.
LEMMA FenceStep == FenceInv /\ [Next]_vars => FenceInv'
  <1> SUFFICES ASSUME FenceInv, [Next]_vars PROVE FenceInv'
    BY SMTT(30)
  <1>1. CASE UNCHANGED vars
    <2>1. UNCHANGED <<status, s, pod, secrets, attached, leaseVars>> /\ UNCHANGED pc /\ rpod' = rpod
      BY <1>1, Zenon DEF vars, opVars
    <2>2. Read'
      BY <2>1, Zenon DEF FenceInv, Read
    <2> QED BY <2>1, <2>2, MoveStep DEF FenceInv, Kept
  <1>2. CASE Reconcile
    <2>1. CASE prepareRequestedInactive
      BY <2>1, QuietStep, FewerStep, Zenon
    <2> QED BY <1>2, <2>1, QuietStep, PodGoesSteps, CommitSteps, PrepareStep, DeleteLeaseStep, PreparedStep,
               AllocateStep, DrainStatusStep, SecretStep, MakeLeaseStep, EnsurePodStep, RestStep, Zenon
            DEF Reconcile, enterFenceVerifying, beginGenerationDrain, Serve, reconcileInactive
  <1> QED BY <1>1, <1>2, QuietStep, PodGoesSteps, AttachStep, FewerStep, PodStartStep, BrokerStep, Zenon DEF Next

\* FenceInv holds of every behaviour of the controller and its Pods.
LEMMA FenceInvariant == Spec => []FenceInv
  BY FenceInitially, FenceStep, PTL DEF Spec

\* session_controller.go and the brokers of its Pods follow the lease protocol
\* on its own: the operator deletes and annotates the lease only as WriterLease
\* lets it, so what is proved of WriterLease holds of the whole.
THEOREM FenceImplementsLease == Spec => LeaseSpec
  <1>1. Init => LeaseInit
    BY Zenon DEF Init
  <1>2. FenceInv /\ [Next]_vars => [LeaseNext]_leaseVars
    BY LeaseFollowed, Zenon DEF FenceInv
  <1> QED BY <1>1, <1>2, FenceInvariant, PTL DEF Spec, LeaseSpec

\* In the composed system too a broker accepts input only on a lease object
\* that is gone or names it.
THEOREM FencedAcceptedIsHeld == Spec => []AcceptedIsHeld
  BY FenceImplementsLease, AlwaysAcceptedIsHeld, PTL

\* Two Pods whose nodes have the runtime-state volume attached never both accept
\* terminal input, whatever the operator, the nodes and the brokers interleave.
THEOREM AlwaysOneWriter == Spec => []OneWriter
  <1>1. FenceInv => OneWriter
    BY Zenon DEF FenceInv, LeaseInv, Processes, Kept, OneAuthority, Owners, OneWriter
  <1> QED BY <1>1, FenceInvariant, PTL

\* The only authentication Secret is the one the committed status names.
THEOREM AlwaysAuthCurrent == Spec => []AuthCurrent
  <1>1. FenceInv => AuthCurrent
    BY Zenon DEF FenceInv
  <1> QED BY <1>1, FenceInvariant, PTL

\* The parts of the type that FenceInv leaves out.
OtherTypes ==
  /\ secrets \subseteq Gens
  /\ route \in {"closed", "open"}
  /\ bound \in BOOLEAN
  /\ pc \in Steps
  /\ fresh \in BOOLEAN

\* The types of the variables that FenceInv says nothing of.
LEMMA TypesStep == FenceInv /\ OtherTypes /\ [Next]_vars => OtherTypes'
  <1> SUFFICES ASSUME FenceInv, OtherTypes, [Next]_vars PROVE OtherTypes'
    BY Zenon
  <1>0. s.gen \in Gens
    BY Zenon DEF FenceInv, Kept, Statuses
  <1>a. ASSUME NEW n, NEW from, NEW to \in Steps, Commit(from, n, to)
        PROVE  OtherTypes'
    BY <1>a, Zenon DEF Commit, Update, End, OtherTypes
  <1>1. CASE UNCHANGED vars
    BY <1>1, Zenon DEF vars, opVars, OtherTypes
  <1>2. CASE Begin \/ Abort \/ FailPod \/ FailRoute
    BY Zenon, <1>2 DEF Begin, Abort, End, FailPod, FailRoute, Go, OtherTypes, Steps
  <1>3. CASE updateSessionFailure \/ publishFenceUncertain \/ Allocate \/ Rested
    <2>1. {"idle", "route"} \subseteq Steps
      BY Zenon DEF Steps
    <2> QED BY <1>3, <1>a, <2>1, Zenon DEF updateSessionFailure, publishFenceUncertain, Allocate, Rested
  <1>4. CASE Prepare \/ Prepared \/ Rest
    BY Zenon, <1>4 DEF Prepare, Prepared, Rest, EnterDrain, End, OtherTypes, Steps
  <1>5. CASE enterFenceVerifying
    <2>1. {"verifying", "prepared", "restVerifying", "restProof"} \subseteq Steps
      BY Zenon DEF Steps
    <2> QED BY <1>5, <1>a, <2>1, Zenon DEF enterFenceVerifying, DeleteLease, Go, OtherTypes
  <1>6. CASE beginGenerationDrain
    <2>1. {"drainStatus", "drainAuth", "shutdown", "drainPod", "idle"} \subseteq Steps
      BY Zenon DEF Steps
    <2>2. CASE WithdrawRoute \/ RevokeAuth \/ DrainPod
      BY Zenon, <2>1, <2>2 DEF WithdrawRoute, RevokeAuth, DrainPod, End, Go, OtherTypes
    <2> QED BY <1>6, <1>a, <2>1, <2>2, Zenon DEF beginGenerationDrain
  <1>7. CASE Serve
    <2>1. "idle" \in Steps
      BY Zenon DEF Steps
    <2>2. CASE EnsureRoute \/ ensureGenerationAuth \/ ensureWriterLease \/ Ready \/ Publish
      BY <1>0, <2>2 DEF EnsureRoute, ensureGenerationAuth, ensureWriterLease, Ready, Publish, Go, OtherTypes, Steps
    <2>3. CASE EnsurePod \/ Conflict \/ Withdraw
      BY Zenon, <2>3 DEF EnsurePod, EnterDrain, Conflict, Withdraw, End, Go, OtherTypes, Steps
    <2> QED BY <1>7, <1>a, <2>1, <2>2, <2>3, Zenon DEF Serve
  <1>8. CASE prepareRequestedInactive \/ RestProof
    BY <1>8, Zenon DEF prepareRequestedInactive, RestProof, Go, OtherTypes, Steps
  <1>9. CASE SetDesired \/ PodChange \/ NodeLost \/ Attach \/ Detach
    BY <1>9, Zenon DEF SetDesired, PodChange, NodeLost, Attach, Detach, OtherTypes
  <1>10. CASE PodStart \/ Broker
    BY <1>10, Zenon DEF PodStart, Broker, opVars, OtherTypes
  <1> QED BY <1>1, <1>2, <1>3, <1>4, <1>5, <1>6, <1>7, <1>8, <1>9, <1>10, Zenon
          DEF Next, Reconcile, reconcileInactive

\* The state of session_controller.go and of its Pods keeps its types: the status
\* it commits is always a legal one, for every set of Pods and generations.
THEOREM AlwaysTyped == Spec => []TypeOK
  <1>1. Init => OtherTypes
    BY Zenon DEF Init, OtherTypes, Steps
  <1>2. FenceInv /\ OtherTypes => TypeOK
    BY Zenon DEF FenceInv, LeaseInv, Kept, OtherTypes, TypeOK
  <1> QED BY <1>1, <1>2, TypesStep, FenceInvariant, PTL DEF Spec

\* Only the allocation of a generation changes the generation in the status.
LEMMA OnlyAllocate ==
  ASSUME Kept, Copied, Next, status'.gen # status.gen
  PROVE  Allocate
  <1>0. status' # status
    OBVIOUS
  <1>1. ASSUME NEW n, NEW from, NEW to, Commit(from, n, to)
        PROVE  n.gen # s.gen
    BY <1>0, <1>1, Zenon DEF Commit, Update, Copied
  <1>2. ~beginGenerationDrain
    <2> DEFINE fp == IF rpod # None THEN rpod ELSE IF s.fencingPod = None THEN s.podUID ELSE s.fencingPod
               n == [s EXCEPT !.fence = "DrainRequired", !.fencingGen = s.gen, !.fencingPod = fp]
               m == [s EXCEPT !.fence = "ShutdownRequested"]
    <2>1. n.gen = s.gen /\ m.gen = s.gen
      BY Zenon DEF Kept, Statuses
    <2>2. ~Commit("drainStatus", n, "drainAuth") /\ ~Commit("shutdown", m, "drainPod")
      BY <1>1, <2>1, Zenon
    <2> QED BY <1>0, <2>2, Zenon DEF beginGenerationDrain, WithdrawRoute, RevokeAuth, DrainPod
  <1>3. ~enterFenceVerifying
    <2> DEFINE n == [s EXCEPT !.fence = "FenceVerifying"]
    <2>1. n.gen = s.gen
      BY Zenon DEF Kept, Statuses
    <2>2. ~Commit("verifying", n, "prepared") /\ ~Commit("restVerifying", n, "restProof")
      BY <1>1, <2>1, Zenon
    <2> QED BY <1>0, <2>2, Zenon DEF enterFenceVerifying, DeleteLease
  <1>4. ~updateSessionFailure /\ ~publishFenceUncertain
    <2> DEFINE n == [s EXCEPT !.podName = FALSE]
               m == [s EXCEPT !.fence = "FenceUncertain", !.podName = FALSE]
    <2>1. n.gen = s.gen /\ m.gen = s.gen
      BY Zenon DEF Kept, Statuses
    <2> QED BY <1>1, <2>1, Zenon DEF updateSessionFailure, publishFenceUncertain
  <1>5. ~Serve
    <2>1. Seen.gen = s.gen
      BY Zenon DEF Kept, Statuses, Seen
    <2>2. ~Commit("readyStatus", Seen, "idle") /\ ~Commit("startingStatus", Seen, "idle")
      BY <1>1, <2>1, Zenon
    <2> QED BY <1>0, <2>2, Zenon DEF Serve, EnsureRoute, ensureGenerationAuth, ensureWriterLease,
               EnsurePod, Ready, Publish, Conflict, Withdraw
  <1>6. ~reconcileInactive
    <2> DEFINE n == [s EXCEPT !.podName = FALSE, !.podUID = None, !.fence = "FenceProven"]
    <2>1. n.gen = s.gen
      BY Zenon DEF Kept, Statuses
    <2>2. ~Rested
      BY <1>1, <2>1, Zenon DEF Rested
    <2> QED BY <1>0, <2>2, Zenon DEF reconcileInactive, Rest, RestProof
  <1>7. Reconcile
    BY <1>0, Zenon DEF Next, SetDesired, PodChange, NodeLost, Attach, Detach, PodStart, Broker, opVars
  <1> QED BY <1>0, <1>2, <1>3, <1>4, <1>5, <1>6, <1>7, Zenon
          DEF Reconcile, Begin, Abort, FailPod, FailRoute, Prepare, Prepared, prepareRequestedInactive

\* The runtimeGeneration advances only with the volume detached and no Pod left.
THEOREM AlwaysFreshOnlyFenced == Spec => FreshOnlyFenced
  <1>1. FenceInv /\ [Next]_vars => [status'.gen # status.gen => attached = {} /\ pod = NoPod]_vars
    <2> SUFFICES ASSUME FenceInv, Next, status'.gen # status.gen
                 PROVE  attached = {} /\ pod = NoPod
      BY Zenon DEF FreshOnlyFenced
    <2>1. Allocate
      BY OnlyAllocate, Zenon DEF FenceInv
    <2>2. pc = "allocate"
      BY <2>1, Zenon DEF Allocate, Commit
    <2> QED BY <2>2, Zenon DEF FenceInv, Read, Absent
  <1> QED BY <1>1, FenceInvariant, PTL DEF Spec, FreshOnlyFenced
=============================================================================
