----------------------------- MODULE SharedName -----------------------------
(***************************************************************************)
(* A VLLMInstance and a LongContextInstance of one name.  Each of the two  *)
(* reconcilers renders Deployment <name> and Service svc-<name>, and both  *)
(* force-apply with one field manager: an apply replaces the owner         *)
(* reference and the content of the other's.  While both want to be        *)
(* served they take turns; this module asks what is left when one goes,    *)
(* when the leadership of the operator changes hands in the middle, and    *)
(* when somebody else writes the Deployment.                               *)
(*                                                                         *)
(* The two reconcilers are one machine here, of which this module keeps    *)
(* what reaches the two objects.  Status, endpoint and presets are in the  *)
(* modules InstanceReconciler and Endpoint; `conf' stands for what the CR  *)
(* and its preset, both of them watched, make of the spec, and `Refused'   *)
(* for what the checks before the applies turn down.  A claim that comes   *)
(* or goes raises no event and changes no `conf' here; that case is in     *)
(* InstanceReconciler.  A key that waits for a requeue is `queued', as a   *)
(* queued key may wait as long.  A definition named Mut... is a faulty     *)
(* variant of the one that follows it; nothing uses it.                    *)
(***************************************************************************)
EXTENDS Naturals, Sequences

CONSTANTS
    Confs,           \* what a spec renders to
    InitialConfs,    \* ... when the two are created
    Refused,         \* those turned down: preset, configuration or policy
    Unsafe,          \* those turned down for their replicas: the remediation runs
    MaxLag,          \* versions of an object the watch may be behind
    Disturbances,    \* the kinds of disturbance that may happen
    MaxDisturbances  \* how many of them, in any mix

Kinds   == {"VLLM", "LongContext"}
Objects == {"dep", "svc"}

ASSUME ConfsAssumption == Unsafe \subseteq Refused /\ Refused \cup InitialConfs \subseteq Confs
                          /\ "drift" \notin Confs
ASSUME BoundAssumption == MaxLag \in Nat \ {0} /\ MaxDisturbances \in Nat

VARIABLES
    cr,        \* of each kind, the CR: does it exist, its UID, what its spec renders to
    cCR,       \* ... as the informer of its kind knows it
    obj,       \* Deployment and Service on the server
    stream,    \* the versions of each that the watch has yet to deliver
    cObj,      \* each as the cache knows it; one cache for both controllers
    queued,    \* of each kind, the key waits in the workqueue
    pc, w,     \* where the worker of each kind is, and the CR it read
    flying,    \* the apply that a former leader of the operator had sent
    budget     \* disturbances left

vars == <<cr, cCR, obj, stream, cObj, queued, pc, w, flying, budget>>

CRType  == [exists : BOOLEAN, uid : Nat, conf : Confs \cup {"none"}]
NoCR    == [exists |-> FALSE, uid |-> 0, conf |-> "none"]
Gone    == [exists |-> FALSE, kind |-> "none", uid |-> 0, conf |-> "none"]
Version == {Gone} \cup [exists : {TRUE}, kind : Kinds, uid : Nat, conf : Confs \cup {"drift"}]

\* BuildDeployment or BuildService for the CR x of kind k, with its owner reference.
MutOwnerless(k, x) == [exists |-> TRUE, kind |-> "none", uid |-> 0, conf |-> x.conf]
Rendered(k, x) == [exists |-> TRUE, kind |-> k, uid |-> x.uid, conf |-> x.conf]

\* Whatever is stored, cached, under way or in flight was rendered for a CR.
TypeOK ==
    /\ cr \in [Kinds -> CRType] /\ cCR \in [Kinds -> CRType] /\ w \in [Kinds -> CRType]
    /\ obj \in [Objects -> Version] /\ cObj \in [Objects -> Version]
    /\ flying \in [Objects -> Version]
    /\ stream \in [Objects -> Seq(Version)]
    /\ queued \in [Kinds -> BOOLEAN]
    /\ pc \in [Kinds -> {"idle", "remediate", "applyDep", "applySvc"}]
    /\ budget \in 0..MaxDisturbances

Init ==
    /\ \E c \in [Kinds -> InitialConfs] : cr = [k \in Kinds |-> [exists |-> TRUE, uid |-> 1, conf |-> c[k]]]
    /\ cCR = [k \in Kinds |-> NoCR]
    /\ obj = [o \in Objects |-> Gone]
    /\ stream = [o \in Objects |-> <<>>]
    /\ cObj = obj
    /\ queued = [k \in Kinds |-> FALSE]
    /\ pc = [k \in Kinds |-> "idle"]
    /\ w = [k \in Kinds |-> NoCR]
    /\ flying = [o \in Objects |-> Gone]
    /\ budget = MaxDisturbances

-----------------------------------------------------------------------------
(* The API server: a write that changes something is a version to deliver.   *)

Store(o, v) ==
    /\ obj' = [obj EXCEPT ![o] = v]
    /\ IF v = obj[o] THEN UNCHANGED stream
       ELSE Len(stream[o]) < MaxLag /\ stream' = [stream EXCEPT ![o] = Append(@, v)]

Disturb(kind) == kind \in Disturbances /\ budget > 0 /\ budget' = budget - 1

\* The CR or its preset is edited; either reaches the key through a watch.
EditCR(k) ==
    /\ Disturb("edit")
    /\ cr[k].exists
    /\ \E c \in Confs \ {cr[k].conf} : cr' = [cr EXCEPT ![k].conf = c]
    /\ UNCHANGED <<cCR, obj, stream, cObj, queued, pc, w, flying>>

DeleteCR(k) ==
    /\ Disturb("delete")
    /\ cr[k].exists
    /\ cr' = [cr EXCEPT ![k].exists = FALSE]
    /\ UNCHANGED <<cCR, obj, stream, cObj, queued, pc, w, flying>>

RecreateCR(k) ==
    /\ Disturb("create")
    /\ ~cr[k].exists
    /\ cr' = [cr EXCEPT ![k].exists = TRUE, ![k].uid = @ + 1]
    /\ UNCHANGED <<cCR, obj, stream, cObj, queued, pc, w, flying>>

\* kubectl scale: the Deployment is no longer what was applied.
ScaleDeployment ==
    /\ Disturb("scale")
    /\ obj["dep"].exists
    /\ Store("dep", [obj["dep"] EXCEPT !.conf = "drift"])
    /\ UNCHANGED <<cr, cCR, cObj, queued, pc, w, flying>>

\* The garbage collector: an object whose owner, by UID, is gone.
Orphan(v) == v.exists /\ v.kind \in Kinds /\ ~(cr[v.kind].exists /\ cr[v.kind].uid = v.uid)

CollectGarbage(o) ==
    /\ Orphan(obj[o])
    /\ Store(o, Gone)
    /\ UNCHANGED <<cr, cCR, cObj, queued, pc, w, flying, budget>>

-----------------------------------------------------------------------------
(* Watches.  *)

SyncCR(k) ==
    LET now == IF cr[k].exists THEN cr[k] ELSE NoCR
    IN /\ cCR[k] # now
       /\ cCR' = [cCR EXCEPT ![k] = now]
       /\ queued' = [queued EXCEPT ![k] = TRUE]
       /\ UNCHANGED <<cr, obj, stream, cObj, pc, w, flying, budget>>

\* Owns(Deployment), Owns(Service): the handler looks at the old and the new
\* version and enqueues the controller of its own kind, by name.
MutServiceNotOwned(o, k, old, new) == o = "dep" /\ k \in {old.kind, new.kind}
Owns(o, k, old, new) == k \in {old.kind, new.kind}

Deliver(o) ==
    /\ stream[o] # <<>>
    /\ cObj' = [cObj EXCEPT ![o] = Head(stream[o])]
    /\ stream' = [stream EXCEPT ![o] = Tail(@)]
    /\ queued' = [k \in Kinds |-> queued[k] \/ Owns(o, k, cObj[o], Head(stream[o]))]
    /\ UNCHANGED <<cr, cCR, obj, pc, w, flying, budget>>

-----------------------------------------------------------------------------
(* Reconcile. *)

Begin(k) ==
    /\ pc[k] = "idle"
    /\ queued[k]

\* The CR is in the cache.
MutFound(k) == TRUE
Found(k) == cCR[k].exists

\* The result asks to come back, or not: nothing depends on when.
Done(k) ==
    /\ pc' = [pc EXCEPT ![k] = "idle"]
    /\ w' = [w EXCEPT ![k] = NoCR]
    /\ \E requeue \in BOOLEAN : queued' = [queued EXCEPT ![k] = @ \/ requeue]

InstanceGone(k) ==
    /\ Begin(k)
    /\ ~Found(k)
    /\ queued' = [queued EXCEPT ![k] = FALSE]
    /\ UNCHANGED <<cr, cCR, obj, stream, cObj, pc, w, flying, budget>>

\* Every exit before the applies; a refusal for the storage goes on to remediate.
Refuse(k) ==
    /\ Begin(k)
    /\ Found(k)
    /\ cCR[k].conf \in Refused
    /\ IF cCR[k].conf \in Unsafe
       THEN /\ pc' = [pc EXCEPT ![k] = "remediate"]
            /\ w' = [w EXCEPT ![k] = cCR[k]]
            /\ queued' = [queued EXCEPT ![k] = FALSE]
       ELSE /\ \E requeue \in BOOLEAN : queued' = [queued EXCEPT ![k] = requeue]
            /\ UNCHANGED <<pc, w>>
    /\ UNCHANGED <<cr, cCR, obj, stream, cObj, flying, budget>>

\* remediateUnsafeDeployment, by its outcomes: nothing, or one replica for a
\* Deployment that the CR controls in the cache and on the server.  That its reads
\* and its apply, with others writing in between, amount to one such step is what
\* AtomicScaleDown in Remediation shows.
IsControlledBy(k, v) == v.exists /\ v.kind = k /\ v.uid = w[k].uid

Remediate(k) ==
    /\ pc[k] = "remediate"
    /\ \/ UNCHANGED <<obj, stream>>
       \/ /\ IsControlledBy(k, cObj["dep"]) /\ IsControlledBy(k, obj["dep"])
          /\ Store("dep", [obj["dep"] EXCEPT !.conf = "drift"])
    /\ Done(k)
    /\ UNCHANGED <<cr, cCR, cObj, flying, budget>>

StartApply(k) ==
    /\ Begin(k)
    /\ Found(k)
    /\ cCR[k].conf \notin Refused
    /\ queued' = [queued EXCEPT ![k] = FALSE]
    /\ pc' = [pc EXCEPT ![k] = "applyDep"]
    /\ w' = [w EXCEPT ![k] = cCR[k]]
    /\ UNCHANGED <<cr, cCR, obj, stream, cObj, flying, budget>>

ApplyDeployment(k) ==
    /\ pc[k] = "applyDep"
    /\ Store("dep", Rendered(k, w[k]))
    /\ pc' = [pc EXCEPT ![k] = "applySvc"]
    /\ UNCHANGED <<cr, cCR, cObj, queued, w, flying, budget>>

\* What follows reads the caches and patches the status of the CR itself.
ApplyService(k) ==
    /\ pc[k] = "applySvc"
    /\ Store("svc", Rendered(k, w[k]))
    /\ Done(k)
    /\ UNCHANGED <<cr, cCR, cObj, flying, budget>>

\* Either apply fails, before or after the write, and the error brings the key back.
ApplyFails(k) ==
    /\ Disturb("fault")
    /\ \/ /\ pc[k] = "applyDep"
          /\ Store("dep", Rendered(k, w[k])) \/ UNCHANGED <<obj, stream>>
       \/ /\ pc[k] = "applySvc"
          /\ Store("svc", Rendered(k, w[k])) \/ UNCHANGED <<obj, stream>>
    /\ pc' = [pc EXCEPT ![k] = "idle"]
    /\ w' = [w EXCEPT ![k] = NoCR]
    /\ queued' = [queued EXCEPT ![k] = TRUE]
    /\ UNCHANGED <<cr, cCR, cObj, flying>>

-----------------------------------------------------------------------------
(* Leadership.  The lease passes on without a fence: an apply that the former *)
(* leader had sent may still land, once.  The new one lists and queues all.   *)

Target(k) == IF pc[k] = "applyDep" THEN "dep" ELSE "svc"
Sending   == {k \in Kinds : pc[k] \in {"applyDep", "applySvc"}}

Handover ==
    /\ Disturb("handover")
    /\ \/ UNCHANGED flying
       \/ \E k \in Sending : flying' = [flying EXCEPT ![Target(k)] = Rendered(k, w[k])]
    /\ cCR' = [k \in Kinds |-> IF cr[k].exists THEN cr[k] ELSE NoCR]
    /\ cObj' = obj
    /\ stream' = [o \in Objects |-> <<>>]
    /\ queued' = [k \in Kinds |-> cr[k].exists]
    /\ pc' = [k \in Kinds |-> "idle"]
    /\ w' = [k \in Kinds |-> NoCR]
    /\ UNCHANGED <<cr, obj>>

LateApply(o) ==
    /\ flying[o].exists
    /\ Store(o, flying[o])
    /\ flying' = [flying EXCEPT ![o] = Gone]
    /\ UNCHANGED <<cr, cCR, cObj, queued, pc, w, budget>>

-----------------------------------------------------------------------------
Users == ScaleDeployment \/ \E k \in Kinds : EditCR(k) \/ DeleteCR(k) \/ RecreateCR(k)

Reconcile(k) ==
    \/ InstanceGone(k) \/ Refuse(k) \/ Remediate(k)
    \/ StartApply(k) \/ ApplyDeployment(k) \/ ApplyService(k)

Next ==
    \/ Users
    \/ \E o \in Objects : CollectGarbage(o) \/ Deliver(o) \/ LateApply(o)
    \/ \E k \in Kinds : SyncCR(k) \/ Reconcile(k) \/ ApplyFails(k)
    \/ Handover

\* Informers deliver, the garbage collector collects, and each controller has
\* workers of its own; nothing makes a disturbance or a late apply happen.
Fairness ==
    /\ \A o \in Objects : WF_vars(CollectGarbage(o)) /\ WF_vars(Deliver(o))
    /\ \A k \in Kinds : WF_vars(SyncCR(k)) /\ WF_vars(Reconcile(k))

Spec == Init /\ [][Next]_vars /\ Fairness

-----------------------------------------------------------------------------
(* Properties. *)

Wants(k) == cr[k].exists /\ cr[k].conf \notin Refused

\* Of two instances of one name, the one that is left to be served ends up with
\* Deployment and Service of its own, as its current spec asks: every overwrite
\* by the other, every collection of what the other owned, every late apply of a
\* former leader and every foreign write reaches its key through a watch.
SurvivorServed ==
    <>[](\A k \in Kinds : (Wants(k) /\ \A j \in Kinds \ {k} : ~Wants(j)) =>
            \A o \in Objects : obj[o] = Rendered(k, cr[k]))

\* The controller of kind k has nothing left to do: its informers have delivered
\* everything, its key is not queued and its worker is idle.
AtRest(k) ==
    /\ cCR[k] = IF cr[k].exists THEN cr[k] ELSE NoCR
    /\ \A o \in Objects : stream[o] = <<>>
    /\ ~queued[k]
    /\ pc[k] = "idle"

\* A controller never rests on somebody else's objects: when it has nothing left
\* to do, Deployment and Service are what its CR asks for, whoever wrote them in
\* between.  An enqueue that the watches missed would leave it wrong until the resync.
RestIsServed ==
    \A k \in Kinds : AtRest(k) /\ Wants(k) => \A o \in Objects : obj[o] = Rendered(k, cr[k])

\* When both instances are deleted nothing of either stays, although a reconcile
\* under way or a former leader's apply may create an object again.
NothingOutlivesBoth ==
    <>[]((\A k \in Kinds : ~cr[k].exists) => \A o \in Objects : ~obj[o].exists)
=============================================================================
