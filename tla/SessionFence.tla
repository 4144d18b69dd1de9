---------------------------- MODULE SessionFence ----------------------------
(***************************************************************************)
(* How the cluster operator starts, replaces and stops the runtime Pod of  *)
(* one T4Session, and fences the old one before a new runtime generation   *)
(* may start: packages/cluster-operator/controllers/session_controller.go  *)
(* and session_ownership.go, composed with the Pod's writer lease.         *)
(*                                                                         *)
(* One worker reconciles the session.  A reconcile works on the copy of    *)
(* the session it read (`s'), and every write to the API server is a step  *)
(* of its own, so that the user, the kubelet, the Pod's broker and the     *)
(* node can act between two of them, and the reconcile can end after any   *)
(* of them (an API error, a restart of the operator).  A status update     *)
(* is refused when the session has changed since it was read (`fresh').    *)
(*                                                                         *)
(* The kubelet, the volume attachments and the loss of a node are external *)
(* and modelled from what the operator's proof of a fence relies on: a     *)
(* Pod object may disappear while its containers still run, and a volume   *)
(* attachment goes away only when its node can no longer write.            *)
(***************************************************************************)
EXTENDS WriterLease

ASSUME FirstGeneration == 1 \in Gens

VARIABLES
  status,     \* T4Session.status
  pod,        \* the Pod object
  secrets,    \* generations whose authentication Secret exists
  route,      \* the Service: "open" once published, "closed": no selector, or no Service
  attached,   \* Pods whose node has the runtime-state volume attached
  bound,      \* the runtime-state PVC has a volume
  pc,         \* where the reconcile is
  s,          \* the session.status of the reconcile
  fresh,      \* the session is still at the version the reconcile holds
  rpod        \* the Pod the reconcile works on, None for &corev1.Pod{}

opVars == <<status, pod, secrets, route, attached, bound, pc, s, fresh, rpod>>
vars == <<opVars, leaseVars>>

NoPod == [uid |-> None, gen |-> None, terminating |-> FALSE]

FenceStates == {"NoPriorWriter", "DrainRequired", "ShutdownRequested",
                "FenceVerifying", "FenceProven", "FenceUncertain"}

Statuses ==
  [gen : Gens,                    \* runtimeGeneration
   auth : Gens \cup {None},       \* the generation of generationSecretEpoch/Name
   fence : FenceStates,           \* fenceState
   fencingGen : Gens \cup {None}, \* fencingGeneration
   fencingPod : Pods \cup {None}, \* fencingPodUID
   fencingVolume : BOOLEAN,       \* fencingVolumeIdentity is known
   podName : BOOLEAN,             \* podName is set
   podUID : Pods \cup {None}]

Steps == {"idle", "fail", "failRoute", "failStatus",
          "prepare", "verify", "verifying", "prepared", "allocate", "uncertain",
          "drain", "drainStatus", "drainAuth", "shutdown", "drainPod",
          "route", "auth", "lease", "pod", "ready",
          "publish", "readyStatus", "startingStatus", "withdraw",
          "quiesce", "rest", "restVerify", "restVerifying", "restProof", "restStatus"}

\* A new session: ensureSessionLifecycleStatus names a first generation.
Init ==
  /\ LeaseInit
  /\ status = [gen |-> 1, auth |-> None, fence |-> "NoPriorWriter", fencingGen |-> None,
               fencingPod |-> None, fencingVolume |-> FALSE, podName |-> FALSE, podUID |-> None]
  /\ pod = NoPod
  /\ secrets = {}
  /\ route = "closed"
  /\ attached = {}
  /\ bound = FALSE
  /\ pc = "idle"
  /\ s = status
  /\ fresh = TRUE
  /\ rpod = None

-----------------------------------------------------------------------------
(* The shape of a reconcile *)

Go(from, to) == pc = from /\ pc' = to

\* The reconcile returns, with or without an error.
End ==
  /\ pc' = "idle"
  /\ s' = status'
  /\ fresh' = TRUE
  /\ rpod' = None

\* r.Status().Update: refused when the session has changed since it was read.
\* An update that would change nothing is not sent.
Update(n, to) ==
  /\ fresh \/ n = s
  /\ status' = IF fresh THEN n ELSE status
  /\ IF to = "idle" THEN End
     ELSE pc' = to /\ s' = n /\ UNCHANGED <<fresh, rpod>>

Commit(from, n, to) ==
  /\ pc = from
  /\ Update(n, to)
  /\ UNCHANGED <<pod, secrets, route, attached, bound, leaseVars>>

\* A refused update, a failing call and a restart of the operator all end the
\* reconcile where it is.
Abort ==
  /\ pc # "idle"
  /\ UNCHANGED <<status, pod, secrets, route, attached, bound, leaseVars>>
  /\ End

\* The user may have changed spec.desiredState, and the host, the workspace, the
\* storage or the configuration may be missing: a reconcile finds any of these.
Begin ==
  /\ pc = "idle"
  /\ pc' \in {"prepare", "fail", "quiesce"}
  /\ s' = status
  /\ fresh' = TRUE
  /\ UNCHANGED <<status, pod, secrets, route, attached, bound, rpod, leaseVars>>

\* beginGenerationDrain reads the volume's identity, then withdraws the route.
\* prepareRunningGeneration ignores a failing read of the Service, and the
\* drain then goes on without it.
EnterDrain(p, to) ==
  /\ pc' = to
  /\ rpod' = p
  /\ s' = [s EXCEPT !.fencingVolume = @ \/ bound]
  /\ UNCHANGED fresh

-----------------------------------------------------------------------------
(* A dependency is missing: deleteOwnedSessionResources, updateSessionFailure *)

Terminated == IF pod = NoPod THEN pod ELSE [pod EXCEPT !.terminating = TRUE]

FailPod ==
  /\ Go("fail", "failRoute")
  /\ pod' = Terminated
  /\ UNCHANGED <<status, secrets, route, attached, bound, s, fresh, rpod, leaseVars>>

FailRoute ==
  /\ Go("failRoute", "failStatus")
  /\ route' = "closed"
  /\ UNCHANGED <<status, pod, secrets, attached, bound, s, fresh, rpod, leaseVars>>

updateSessionFailure == Commit("failStatus", [s EXCEPT !.podName = FALSE], "idle")

-----------------------------------------------------------------------------
(* prepareRunningGeneration *)

Prepare ==
  /\ pc = "prepare"
  /\ UNCHANGED <<status, pod, secrets, route, attached, bound, leaseVars>>
  /\ \/ /\ s.fence = "FenceUncertain"
        /\ End
     \/ /\ s.fence # "FenceUncertain"
        /\ pod # NoPod
        /\ IF s.auth = s.gen /\ ~pod.terminating /\ s.gen \in secrets
           THEN pc' = "route" /\ UNCHANGED <<s, fresh, rpod>>
           ELSE \E to \in {"drain", "drainStatus"} : EnterDrain(pod.uid, to)
     \/ /\ s.fence # "FenceUncertain"
        /\ pod = NoPod
        /\ pc' = IF s.fence = "ShutdownRequested" THEN "verify" ELSE "prepared"
        /\ UNCHANGED <<s, fresh, rpod>>

\* enterFenceVerifying deletes the lease, whoever holds it.
DeleteLease(from, to) ==
  /\ Go(from, to)
  /\ LeaseDelete \/ (lease = NoLease /\ UNCHANGED leaseVars)
  /\ UNCHANGED <<status, pod, secrets, route, attached, bound, s, fresh, rpod>>

enterFenceVerifying ==
  \/ DeleteLease("verify", "verifying")
  \/ Commit("verifying", [s EXCEPT !.fence = "FenceVerifying"], "prepared")
  \/ DeleteLease("restVerify", "restVerifying")
  \/ Commit("restVerifying", [s EXCEPT !.fence = "FenceVerifying"], "restProof")

requiresAttachmentProof ==
  \/ s.fencingPod # None
  \/ s.podUID # None
  \/ s.auth # None
  \/ s.fencingVolume
  \/ s.fence # "NoPriorWriter" /\ s.fencingGen # None

\* Variants: without the volume attachments, or without the Secret.
ProofWithoutVolume ==
  /\ pod = NoPod
  /\ s.auth \notin secrets
  /\ route # "open"
  /\ lease.holder = None

ProofWithoutAuth ==
  /\ pod = NoPod
  /\ route # "open"
  /\ requiresAttachmentProof => s.fencingVolume
  /\ s.fencingVolume => attached = {}
  /\ lease.holder = None

positiveFenceProof ==
  /\ pod = NoPod
  /\ s.auth \notin secrets
  /\ route # "open"
  /\ requiresAttachmentProof => s.fencingVolume
  /\ s.fencingVolume => attached = {}
  /\ lease.holder = None

\* Variant: without the fence.
ResumableByName == s.auth = s.gen /\ ~s.podName

\* The generation was committed and its Pod not yet seen: go on starting it.
Resumable ==
  /\ s.auth = s.gen
  /\ s.fence = "FenceProven"
  /\ ~s.podName
  /\ s.fencingGen = None
  /\ s.fencingPod = None

RuntimeLost ==
  /\ s.auth # None
  /\ s.fence = "FenceProven"
  /\ s.fencingGen = None
  /\ s.podName

Prepared ==
  /\ pc = "prepared"
  /\ IF Resumable THEN pc' = "route" /\ UNCHANGED <<s, fresh, rpod>>
     ELSE IF RuntimeLost THEN \E to \in {"drain", "drainStatus"} : EnterDrain(None, to)
     ELSE /\ pc' = IF positiveFenceProof THEN "allocate" ELSE "uncertain"
          /\ UNCHANGED <<s, fresh, rpod>>
  /\ UNCHANGED <<status, pod, secrets, route, attached, bound, leaseVars>>

\* The compare-and-swap of the generation.  The names are never reused.
Allocate ==
  /\ s.gen + 1 \in Gens
  /\ Commit("allocate",
            [s EXCEPT !.gen = @ + 1, !.auth = s.gen + 1, !.fence = "FenceProven",
                      !.fencingPod = None, !.fencingGen = None, !.fencingVolume = FALSE,
                      !.podName = FALSE, !.podUID = None],
            "route")

publishFenceUncertain ==
  Commit("uncertain", [s EXCEPT !.fence = "FenceUncertain", !.podName = FALSE], "idle")

-----------------------------------------------------------------------------
(* beginGenerationDrain *)

WithdrawRoute ==
  /\ Go("drain", "drainStatus")
  /\ route' = "closed"
  /\ UNCHANGED <<status, pod, secrets, attached, bound, s, fresh, rpod, leaseVars>>

RevokeAuth ==
  /\ Go("drainAuth", "shutdown")
  /\ secrets' = secrets \ {s.auth}
  /\ UNCHANGED <<status, pod, route, attached, bound, s, fresh, rpod, leaseVars>>

\* The Pod is deleted with its UID as a precondition.
DrainPod ==
  /\ pc = "drainPod"
  /\ pod' = IF pod.uid = rpod THEN Terminated ELSE pod
  /\ UNCHANGED <<status, secrets, route, attached, bound, leaseVars>>
  /\ End

beginGenerationDrain ==
  \/ WithdrawRoute
  \/ Commit("drainStatus",
            [s EXCEPT !.fence = "DrainRequired", !.fencingGen = s.gen,
                      !.fencingPod = IF rpod # None THEN rpod ELSE IF @ = None THEN s.podUID ELSE @],
            "drainAuth")
  \/ RevokeAuth
  \/ Commit("shutdown", [s EXCEPT !.fence = "ShutdownRequested"], "drainPod")
  \/ DrainPod

-----------------------------------------------------------------------------
(* Reconcile, once the generation is prepared *)

\* The desired Service has no selector: a published route is withdrawn first.
EnsureRoute ==
  /\ Go("route", "auth")
  /\ route' = "closed"
  /\ UNCHANGED <<status, pod, secrets, attached, bound, s, fresh, rpod, leaseVars>>

ensureGenerationAuth ==
  /\ Go("auth", "lease")
  /\ secrets' = secrets \cup {s.gen}
  /\ UNCHANGED <<status, pod, route, attached, bound, s, fresh, rpod, leaseVars>>

ensureWriterLease ==
  /\ pc = "lease"
  /\ \/ /\ LeaseCreate(s.gen) \/ LeaseAnnotate(s.gen) \/ (lease.gen = s.gen /\ UNCHANGED leaseVars)
        /\ pc' = "pod"
     \/ /\ lease # NoLease /\ lease.gen # s.gen /\ lease.holder # None
        /\ pc' = "failStatus"
        /\ UNCHANGED leaseVars
  /\ UNCHANGED <<status, pod, secrets, route, attached, bound, s, fresh, rpod>>

\* A Pod whose specification hash differs (the generation is part of it), or
\* that failed, is replaced.
EnsurePod ==
  /\ pc = "pod"
  /\ \/ /\ pod = NoPod
        /\ \E p \in Pods :
             /\ Created(p, s.gen)
             /\ \A q \in Pods : q < p => generation[q] # None
             /\ pod' = [uid |-> p, gen |-> s.gen, terminating |-> FALSE]
             /\ rpod' = p
        /\ pc' = "ready"
        /\ UNCHANGED <<s, fresh>>
     \/ /\ pod = NoPod
        /\ pc' = "fail"
        /\ UNCHANGED <<pod, s, fresh, rpod, leaseVars>>
     \/ /\ pod # NoPod
        /\ EnterDrain(pod.uid, "drain")
        /\ UNCHANGED <<pod, leaseVars>>
     \/ /\ pod # NoPod /\ pod.gen = s.gen
        /\ pc' = "ready"
        /\ rpod' = pod.uid
        /\ UNCHANGED <<pod, s, fresh, leaseVars>>
  /\ UNCHANGED <<status, secrets, route, attached, bound>>

compositeRuntimeReady ==
  /\ fresh
  /\ pod.uid = rpod
  /\ lease.gen = s.gen
  /\ lease.holder = rpod

\* The readiness the kubelet reports is external: a Pod may not be ready yet.
Ready ==
  /\ pc = "ready"
  /\ \/ compositeRuntimeReady /\ pc' = "publish"
     \/ pc' \in {"startingStatus", "fail"}
  /\ UNCHANGED <<status, pod, secrets, route, attached, bound, s, fresh, rpod, leaseVars>>

Publish ==
  /\ Go("publish", "readyStatus")
  /\ route' = "open"
  /\ UNCHANGED <<status, pod, secrets, attached, bound, s, fresh, rpod, leaseVars>>

Seen == [s EXCEPT !.podName = TRUE, !.podUID = rpod]

\* A route whose status could not be committed is withdrawn again.
Conflict ==
  /\ Go("readyStatus", "withdraw")
  /\ ~fresh
  /\ UNCHANGED <<status, pod, secrets, route, attached, bound, s, fresh, rpod, leaseVars>>

Withdraw ==
  /\ pc = "withdraw"
  /\ route' = "closed"
  /\ UNCHANGED <<status, pod, secrets, attached, bound, leaseVars>>
  /\ End

Serve ==
  \/ EnsureRoute
  \/ ensureGenerationAuth
  \/ ensureWriterLease
  \/ EnsurePod
  \/ Ready
  \/ Publish
  \/ Commit("readyStatus", Seen, "idle")
  \/ Commit("startingStatus", Seen, "idle")
  \/ Conflict
  \/ Withdraw

-----------------------------------------------------------------------------
(* prepareRequestedInactive, reconcileInactive *)

\* The runtime must acknowledge a durable flush, which it does only while it
\* holds the lease; the reconcile waits until it does.  Quiescing fences input.
prepareRequestedInactive ==
  /\ Go("quiesce", "rest")
  /\ \/ /\ pod = NoPod \/ s.fence \in {"DrainRequired", "ShutdownRequested"}
        /\ UNCHANGED leaseVars
     \/ /\ pod # NoPod /\ s.fence \notin {"DrainRequired", "ShutdownRequested"}
        /\ proc[pod.uid] \in {"held", "reopen"} /\ Holds(pod.uid)
        /\ \/ Fence(pod.uid)
           \/ proc[pod.uid] = "held" /\ pod.uid \notin accepting /\ UNCHANGED leaseVars
  /\ UNCHANGED <<status, pod, secrets, route, attached, bound, s, fresh, rpod>>

authorityRemains ==
  \/ route = "open"
  \/ /\ s.fence \notin {"ShutdownRequested", "FenceVerifying"}
     /\ s.podUID # None \/ s.auth \in secrets \/ lease # NoLease

Rest ==
  /\ pc = "rest"
  /\ UNCHANGED <<status, pod, secrets, route, attached, bound, leaseVars>>
  /\ \/ /\ s.fence = "FenceUncertain"
        /\ End
     \/ /\ s.fence # "FenceUncertain"
        /\ IF pod # NoPod THEN EnterDrain(pod.uid, "drain")
           ELSE IF authorityRemains THEN EnterDrain(None, "drain")
           ELSE /\ pc' = IF s.fence = "ShutdownRequested" THEN "restVerify" ELSE "restProof"
                /\ UNCHANGED <<s, fresh, rpod>>

RestProof ==
  /\ Go("restProof", IF positiveFenceProof THEN "restStatus" ELSE "uncertain")
  /\ UNCHANGED <<status, pod, secrets, route, attached, bound, s, fresh, rpod, leaseVars>>

Rested ==
  Commit("restStatus", [s EXCEPT !.podName = FALSE, !.podUID = None, !.fence = "FenceProven"], "idle")

reconcileInactive == Rest \/ RestProof \/ Rested

Reconcile ==
  \/ Begin
  \/ Abort
  \/ FailPod \/ FailRoute \/ updateSessionFailure
  \/ Prepare \/ enterFenceVerifying \/ Prepared \/ Allocate \/ publishFenceUncertain
  \/ beginGenerationDrain
  \/ Serve
  \/ prepareRequestedInactive \/ reconcileInactive

-----------------------------------------------------------------------------
(* The user, the kubelet and the node: external *)

\* The user changes the specification, which gives the session a new version.
SetDesired ==
  /\ pc # "idle" /\ fresh
  /\ fresh' = FALSE
  /\ UNCHANGED <<status, pod, secrets, route, attached, bound, pc, s, rpod, leaseVars>>

\* The Pod is deleted by someone else, or is gone once its containers stopped.
PodChange ==
  /\ pod # NoPod
  /\ \/ pod' = [pod EXCEPT !.terminating = TRUE]
     \/ pod.terminating /\ proc[pod.uid] = "down" /\ pod' = NoPod
  /\ UNCHANGED <<status, secrets, route, attached, bound, pc, s, fresh, rpod, leaseVars>>

\* The object of a Pod on a node that is lost goes away; its containers run on.
NodeLost ==
  /\ pod # NoPod
  /\ pod' = NoPod
  /\ UNCHANGED <<status, secrets, route, attached, bound, pc, s, fresh, rpod, leaseVars>>

Attach ==
  /\ pod # NoPod /\ ~pod.terminating
  /\ attached' = attached \cup {pod.uid}
  /\ bound' = TRUE
  /\ UNCHANGED <<status, pod, secrets, route, pc, s, fresh, rpod, leaseVars>>

Detach ==
  /\ \E p \in attached \ {pod.uid} : attached' = attached \ {p}
  /\ UNCHANGED <<status, pod, secrets, route, bound, pc, s, fresh, rpod, leaseVars>>

PodStart ==
  /\ pod.uid \in attached /\ ~pod.terminating
  /\ Start(pod.uid)
  /\ UNCHANGED opVars

Broker ==
  /\ \E p \in Pods : BrokerNext(p)
  /\ UNCHANGED opVars

Next ==
  \/ Reconcile
  \/ SetDesired
  \/ PodChange \/ NodeLost \/ Attach \/ Detach \/ PodStart
  \/ Broker

Spec == Init /\ [][Next]_vars

-----------------------------------------------------------------------------
TypeOK ==
  /\ LeaseTypeOK
  /\ status \in Statuses
  /\ pod \in [uid : Pods \cup {None}, gen : Gens \cup {None}, terminating : BOOLEAN]
  /\ secrets \subseteq Gens
  /\ route \in {"closed", "open"}
  /\ attached \subseteq Pods
  /\ bound \in BOOLEAN
  /\ pc \in Steps
  /\ s \in Statuses
  /\ fresh \in BOOLEAN
  /\ rpod \in Pods \cup {None}

\* At most one Pod whose node still has the volume attached accepts terminal
\* input: through lost nodes, deleted leases, revived generations and late
\* broker steps, two runtimes never both take input for the same state.
OneWriter ==
  \A p, q \in accepting \cap attached : p = q

\* A fresh generation is committed (the compare-and-swap that ends
\* prepareRunningGeneration) only when no node has the runtime-state volume
\* attached any more and no Pod object of the session is left, although the
\* proof of both was read some steps earlier.
FreshOnlyFenced ==
  [][status'.gen # status.gen => attached = {} /\ pod = NoPod]_vars

\* The only authentication Secret there is belongs to the generation committed
\* in the status: a drain that stopped half way never leaves the credential of
\* an older generation behind a fresh one.
AuthCurrent ==
  secrets \subseteq {status.auth}

\* Once the status records a Pod of a generation, which could have acquired
\* writer authority, no later Pod is created in that generation: a retry first
\* drains, fences and commits a fresh one.
GenerationOnce ==
  status.podUID # None =>
    \A q \in Pods : q > status.podUID => generation[q] # generation[status.podUID]
=============================================================================
