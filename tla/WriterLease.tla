---------------------------- MODULE WriterLease ----------------------------
(***************************************************************************)
(* The writer lease of a clustered session: one Kubernetes Lease object,   *)
(* and the authority each runtime Pod holds over it.  The Pod's side is    *)
(* packages/cluster-server/src/session-writer-lease.ts, driven by          *)
(* session-credential-broker.ts, which lets terminal input reach the       *)
(* runtime only while the broker accepts (`cmuxAccepting').  The object    *)
(* itself is created, annotated and deleted by the operator                *)
(* (session_controller.go); SessionFence gives those steps their order.    *)
(*                                                                         *)
(* A Pod is named by its UID.  A PUT carries the resourceVersion its GET   *)
(* returned and the API server refuses it when the object has moved on:    *)
(* `seen' is the set of Pods whose last read is still the current version. *)
(***************************************************************************)
EXTENDS Naturals

CONSTANTS Pods,     \* the UIDs Pods of the session can have
          Gens      \* the runtime generations

None == 0           \* no Pod, no generation, no lease

ASSUME PodsAreUids == Pods \subseteq Nat \ {0}
ASSUME GensAreNames == Gens \subseteq Nat \ {0}

VARIABLES
  lease,        \* the Lease object; uid None when there is none
  leases,       \* Lease objects created so far
  generation,   \* T4_RUNTIME_GENERATION of each Pod, None before it is created
  proc,         \* what the Pod's broker is doing
  acquired,     \* #acquiredLeaseUid, None when undefined
  accepting,    \* Pods whose cmuxAccepting is true
  seen          \* Pods whose last read of the lease is its current version

leaseVars == <<lease, leases, generation, proc, acquired, accepting, seen>>

NoLease == [uid |-> None, gen |-> None, holder |-> None]

Procs == {"down",      \* not running
          "up",        \* registered, about to read the lease in acquire()
          "read",      \* acquire() read a free lease; its PUT is on the way
          "got",       \* the lease is in its name; the answer is on the way
          "held",      \* acquire() returned
          "reopen",    \* reopening: verifyHeld() read a lease it holds
          "release",   \* release() is about to read the lease
          "put"}       \* release() read a lease it holds; its PUT is on the way

LeaseTypeOK ==
  /\ lease \in [uid : Nat, gen : Gens \cup {None}, holder : Pods \cup {None}]
  /\ leases \in Nat
  /\ generation \in [Pods -> Gens \cup {None}]
  /\ proc \in [Pods -> Procs]
  /\ acquired \in [Pods -> Nat]
  /\ accepting \subseteq Pods
  /\ seen \subseteq Pods

LeaseInit ==
  /\ lease = NoLease
  /\ leases = 0
  /\ generation = [p \in Pods |-> None]
  /\ proc = [p \in Pods |-> "down"]
  /\ acquired = [p \in Pods |-> None]
  /\ accepting = {}
  /\ seen = {}

-----------------------------------------------------------------------------
(* The operator's writes.  Every write gives the object a new version. *)

LeaseCreate(g) ==
  /\ lease = NoLease
  /\ leases' = leases + 1
  /\ lease' = [uid |-> leases + 1, gen |-> g, holder |-> None]
  /\ seen' = {}
  /\ UNCHANGED <<generation, proc, acquired, accepting>>

LeaseAnnotate(g) ==
  /\ lease # NoLease
  /\ lease.gen # g
  /\ lease.holder = None
  /\ lease' = [lease EXCEPT !.gen = g]
  /\ seen' = {}
  /\ UNCHANGED <<leases, generation, proc, acquired, accepting>>

LeaseDelete ==
  /\ lease # NoLease
  /\ lease' = NoLease
  /\ seen' = {}
  /\ UNCHANGED <<leases, generation, proc, acquired, accepting>>

-----------------------------------------------------------------------------
(* The Pod's broker *)

Created(p, g) ==
  /\ generation[p] = None
  /\ generation' = [generation EXCEPT ![p] = g]
  /\ UNCHANGED <<lease, leases, proc, acquired, accepting, seen>>

Start(p) ==
  /\ generation[p] # None
  /\ proc[p] = "down"
  /\ proc' = [proc EXCEPT ![p] = "up"]
  /\ UNCHANGED <<lease, leases, generation, acquired, accepting, seen>>

\* The process is gone: release() finished, an error ended the host, SIGKILL.
Down(p) ==
  /\ proc' = [proc EXCEPT ![p] = "down"]
  /\ acquired' = [acquired EXCEPT ![p] = None]
  /\ accepting' = accepting \ {p}

Kill(p) ==
  /\ proc[p] # "down"
  /\ Down(p)
  /\ seen' = seen \ {p}
  /\ UNCHANGED <<lease, leases, generation>>

\* The API server answers acquire() with a lease in its name.
Gained(p) ==
  /\ acquired' = [acquired EXCEPT ![p] = lease.uid]
  /\ proc' = [proc EXCEPT ![p] = "got"]
  /\ UNCHANGED accepting

\* acquire() reads.  A missing lease, another generation's, or another Pod's
\* is an error, which ends the host.
AcquireRead(p) ==
  /\ proc[p] = "up"
  /\ \/ /\ lease = NoLease \/ lease.gen # generation[p] \/ lease.holder \notin {None, p}
        /\ Down(p)
        /\ seen' = seen \ {p}
     \/ /\ lease # NoLease /\ lease.gen = generation[p] /\ lease.holder = p
        /\ Gained(p)
        /\ UNCHANGED seen
     \/ /\ lease # NoLease /\ lease.gen = generation[p] /\ lease.holder = None
        /\ proc' = [proc EXCEPT ![p] = "read"]
        /\ seen' = seen \cup {p}
        /\ UNCHANGED <<acquired, accepting>>
  /\ UNCHANGED <<lease, leases, generation>>

\* Variant: a PUT without the resourceVersion.
AcquireWriteAny(p) ==
  /\ proc[p] = "read"
  /\ lease # NoLease
  /\ lease' = [lease EXCEPT !.holder = p]
  /\ seen' = {}
  /\ Gained(p)
  /\ UNCHANGED <<leases, generation>>

\* The PUT of acquire() reaches a lease of the version it read.  An answer that
\* is lost ends the host (Kill) with the lease in its name.
AcquireWrite(p) ==
  /\ proc[p] = "read"
  /\ p \in seen
  /\ lease' = [lease EXCEPT !.holder = p]
  /\ seen' = {}
  /\ Gained(p)
  /\ UNCHANGED <<leases, generation>>

\* 409: the lease has moved on, and acquire() reads it again.  After eight
\* attempts, or when the lease is gone, it is an error.
AcquireConflict(p) ==
  /\ proc[p] = "read"
  /\ p \notin seen
  /\ \/ /\ lease # NoLease
        /\ proc' = [proc EXCEPT ![p] = "up"]
        /\ UNCHANGED <<acquired, accepting>>
     \/ Down(p)
  /\ UNCHANGED <<lease, leases, generation, seen>>

\* acquire() returns.  A socket that closed meanwhile makes the broker release
\* the lease again instead of accepting input.
Acquired(p) ==
  /\ proc[p] = "got"
  /\ \/ /\ proc' = [proc EXCEPT ![p] = "held"]
        /\ accepting' = accepting \cup {p}
     \/ /\ proc' = [proc EXCEPT ![p] = "release"]
        /\ UNCHANGED accepting
  /\ UNCHANGED <<lease, leases, generation, acquired, seen>>

Holds(p) ==
  /\ lease.uid = acquired[p]
  /\ lease.gen = generation[p]
  /\ lease.holder = p

\* fenceCmux: a /reopen that is waiting for its answer finds a new fence epoch.
Fenced(p) ==
  /\ accepting' = accepting \ {p}
  /\ proc' = [proc EXCEPT ![p] = "held"]

\* verifyHeld() of the one-second timer, of a `state' request and of an
\* upgrade: a lease that is not the acquired one ends the authority.
VerifyHeld(p) ==
  /\ proc[p] \in {"held", "reopen"}
  /\ acquired[p] # None
  /\ ~Holds(p)
  /\ acquired' = [acquired EXCEPT ![p] = None]
  /\ Fenced(p)
  /\ UNCHANGED <<lease, leases, generation, seen>>

\* A failing read in the timer, POST /drain and POST /quiesce only fence.
Fence(p) ==
  /\ p \in accepting \/ proc[p] = "reopen"
  /\ Fenced(p)
  /\ UNCHANGED <<lease, leases, generation, acquired, seen>>

\* POST /reopen, after the runtime reopened: a lease that is not held any more
\* is VerifyHeld.
ReopenRead(p) ==
  /\ proc[p] = "held"
  /\ acquired[p] # None
  /\ Holds(p)
  /\ p \notin accepting
  /\ proc' = [proc EXCEPT ![p] = "reopen"]
  /\ UNCHANGED <<lease, leases, generation, acquired, accepting, seen>>

\* The answer arrives with no fence and no release since: input is accepted.
Reopen(p) ==
  /\ proc[p] = "reopen"
  /\ proc' = [proc EXCEPT ![p] = "held"]
  /\ accepting' = accepting \cup {p}
  /\ UNCHANGED <<lease, leases, generation, acquired, seen>>

\* releaseSessionWriterAuthority: fence first, then release().
Release(p) ==
  /\ proc[p] \in {"held", "reopen"}
  /\ accepting' = accepting \ {p}
  /\ proc' = [proc EXCEPT ![p] = IF acquired[p] = None THEN "down" ELSE "release"]
  /\ UNCHANGED <<lease, leases, generation, acquired, seen>>

ReleaseRead(p) ==
  /\ proc[p] = "release"
  /\ \/ /\ Holds(p)
        /\ proc' = [proc EXCEPT ![p] = "put"]
        /\ seen' = seen \cup {p}
        /\ UNCHANGED <<acquired, accepting>>
     \/ /\ ~Holds(p)
        /\ Down(p)
        /\ UNCHANGED seen
  /\ UNCHANGED <<lease, leases, generation>>

ReleaseWrite(p) ==
  /\ proc[p] = "put"
  /\ p \in seen
  /\ lease' = [lease EXCEPT !.holder = None]
  /\ seen' = {}
  /\ Down(p)
  /\ UNCHANGED <<leases, generation>>

ReleaseConflict(p) ==
  /\ proc[p] = "put"
  /\ p \notin seen
  /\ \/ /\ proc' = [proc EXCEPT ![p] = "release"]
        /\ UNCHANGED <<acquired, accepting>>
     \/ Down(p)
  /\ UNCHANGED <<lease, leases, generation, seen>>

BrokerNext(p) ==
  \/ Kill(p)
  \/ AcquireRead(p)
  \/ AcquireWrite(p)
  \/ AcquireConflict(p)
  \/ Acquired(p)
  \/ VerifyHeld(p)
  \/ Fence(p)
  \/ ReopenRead(p)
  \/ Reopen(p)
  \/ Release(p)
  \/ ReleaseRead(p)
  \/ ReleaseWrite(p)
  \/ ReleaseConflict(p)

LeaseNext ==
  \/ \E g \in Gens : LeaseCreate(g) \/ LeaseAnnotate(g)
  \/ LeaseDelete
  \/ \E p \in Pods : \/ \E g \in Gens : Created(p, g)
                     \/ Start(p)
                     \/ BrokerNext(p)

LeaseSpec == LeaseInit /\ [][LeaseNext]_leaseVars

-----------------------------------------------------------------------------
\* A broker that accepts terminal input on the strength of a lease object that
\* still exists is the holder that object names, in the generation it names:
\* what acquire() checked cannot be taken over by another Pod or another
\* generation behind the broker's back, only by deleting the object.
AcceptedIsHeld ==
  \A p \in accepting :
    /\ acquired[p] # None
    /\ acquired[p] = lease.uid => Holds(p)
=============================================================================
