------------------------- MODULE InstanceReconciler -------------------------
(***************************************************************************)
(* VLLMInstanceReconciler: one key of the workqueue, the informer caches   *)
(* the reconcile reads, and Reconcile itself split at its API calls.       *)
(*                                                                         *)
(* Cached reads with no API call between them are one step: the caches of  *)
(* different kinds advance independently, so a run in which a cache moves  *)
(* between two such reads is also a run in which it moves after both.      *)
(* LongContextInstanceReconciler is the same machine over its own CRDs;    *)
(* its extra policy check is one more reason for a configuration to be in  *)
(* InvalidConfs.  A definition named Mut... is a faulty variant of the one *)
(* that follows it; no definition uses it.                                 *)
(***************************************************************************)
EXTENDS Cluster

VARIABLES
    cInst, cPreset, cClaim, cDep, cSvc, cSlice,   \* the informer caches
    queued,      \* the key waits in the workqueue (or is dirty while processed)
    timer,       \* a delayed add (RequeueAfter or backoff) is pending
    pc,          \* where the worker is in Reconcile
    w,           \* the locals of the reconcile under way
    depFrom,     \* history: the generation the Deployment was last applied from
    svcFrom      \* history: the generation the Service was last applied from

cacheVars == <<cInst, cPreset, cClaim, cDep, cSvc, cSlice>>
workVars  == <<pc, w, depFrom, svcFrom>>
opVars    == <<cacheVars, queued, timer, workVars>>
vars      == <<clusterVars, opVars>>

InstType == [exists : BOOLEAN, gen : Nat, status : StatusType]
NoInst   == [exists |-> FALSE, gen |-> 0, status |-> NoStatus]

\* The CR as the API server would return it now.
MutInstanceNeverGone == [exists |-> TRUE, gen |-> Len(specs), status |-> status]
Instance == IF alive THEN [exists |-> TRUE, gen |-> Len(specs), status |-> status] ELSE NoInst

\* orig and staged are the two copies of the status patchStatus compares;
\* want is the Deployment spec BuildDeployment renders; requeue says that the
\* result asks to come back (RequeueAfter, or an error and its backoff).
WorkType == [gen : Nat, orig : StatusType, staged : StatusType, want : DepSpec, requeue : BOOLEAN]
NoWork   == [gen |-> 0, orig |-> NoStatus, staged |-> NoStatus, want |-> NoDepSpec, requeue |-> FALSE]

PCs == {"idle", "remediate", "applyDep", "applySvc", "observe", "patch"}

TypeOK ==
    /\ ClusterTypeOK
    /\ cInst \in InstType
    /\ cPreset \in Confs \cup {"absent"}
    /\ cClaim \in ClaimType
    /\ cDep \in DepType
    /\ cSvc \in SvcType
    /\ cSlice \in BOOLEAN
    /\ queued \in BOOLEAN
    /\ timer \in BOOLEAN
    /\ pc \in PCs
    /\ w \in WorkType
    /\ depFrom \in Nat
    /\ svcFrom \in Nat

Init ==
    /\ ClusterInit
    /\ cInst = NoInst
    /\ cPreset = preset
    /\ cClaim = claim
    /\ cDep = dep
    /\ cSvc = svc
    /\ cSlice = SliceReady
    /\ queued = FALSE
    /\ timer = FALSE
    /\ pc = "idle"
    /\ w = NoWork
    /\ depFrom = 0
    /\ svcFrom = 0

-----------------------------------------------------------------------------
(* Watches: a cache takes over the server's object and the handler enqueues. *)

SyncInstance ==
    /\ cInst # Instance
    /\ cInst' = Instance
    /\ queued' = TRUE
    /\ UNCHANGED <<clusterVars, cPreset, cClaim, cDep, cSvc, cSlice, timer, workVars>>

SyncDeployment ==
    /\ cDep # dep
    /\ cDep' = dep
    /\ queued' = TRUE
    /\ UNCHANGED <<clusterVars, cInst, cPreset, cClaim, cSvc, cSlice, timer, workVars>>

SyncService ==
    /\ cSvc # svc
    /\ cSvc' = svc
    /\ queued' = TRUE
    /\ UNCHANGED <<clusterVars, cInst, cPreset, cClaim, cDep, cSlice, timer, workVars>>

\* mapPresetToInstances lists the cached instances that reference the preset.
MutPresetUnmapped == FALSE
mapPresetToInstances == cInst.exists /\ specs[cInst.gen].presetRef

\* Every change of a preset bumps its generation (GenerationChangedPredicate
\* filters out status writes, and nobody writes a preset's status).
SyncPreset ==
    /\ cPreset # preset
    /\ cPreset' = preset
    /\ queued' = (queued \/ mapPresetToInstances)
    /\ UNCHANGED <<clusterVars, cInst, cClaim, cDep, cSvc, cSlice, timer, workVars>>

\* The List in mapPresetToInstances fails: no instance is enqueued, and nothing
\* maps the event again.
PresetEventLost ==
    /\ "lost" \in Disturbances
    /\ cPreset # preset
    /\ cPreset' = preset
    /\ UNCHANGED <<clusterVars, cInst, cClaim, cDep, cSvc, cSlice, queued, timer, workVars>>

\* mapEndpointSliceToInstance: the slice's Service carries the svc- prefix.
MutSliceUnmapped == FALSE
mapEndpointSliceToInstance == TRUE

SyncSlice ==
    /\ cSlice # SliceReady
    /\ cSlice' = SliceReady
    /\ queued' = (queued \/ mapEndpointSliceToInstance)
    /\ UNCHANGED <<clusterVars, cInst, cPreset, cClaim, cDep, cSvc, timer, workVars>>

\* PVCs are read through the cache, but no watch of them enqueues anything.
SyncClaim ==
    /\ cClaim # claim
    /\ cClaim' = claim
    /\ UNCHANGED <<clusterVars, cInst, cPreset, cDep, cSvc, cSlice, queued, timer, workVars>>

TimerFires ==
    /\ timer
    /\ timer' = FALSE
    /\ queued' = TRUE
    /\ UNCHANGED <<clusterVars, cacheVars, workVars>>

-----------------------------------------------------------------------------
(* The pure parts of Reconcile. *)

setVLLMCondition(st, t, s, reason, g) ==
    [st EXCEPT !.conditions[t] = [status |-> s, reason |-> reason, gen |-> g]]

MutReadyKept(st, reason, g) == st
setReadyFalse(st, reason, g) == setVLLMCondition(st, "Ready", "False", reason, g)

\* Override, then preset; spec.pvcReadOnly yields to overrides.pvcReadOnly.
Resolve(presetConf, sp) ==
    [conf     |-> IF sp.conf # "unset" THEN sp.conf ELSE presetConf,
     readOnly |-> IF sp.overridesReadOnly # "unset" THEN sp.overridesReadOnly = "true"
                                                    ELSE sp.pvcReadOnly = "true"]

MutReadOnlyIgnored(modes, replicas, readOnly) ==
    replicas <= 1 \/ modes \cap {"ReadWriteMany", "ReadOnlyMany"} # {}

validateReplicaStorage(modes, replicas, readOnly) ==
    \/ replicas <= 1
    \/ "ReadWriteMany" \in modes
    \/ "ReadOnlyMany" \in modes /\ readOnly

\* NodePort needs a Ready endpoint on a node; ClusterIP has its DNS name.
MutEndpointPlaceholder(type, ready) ==
    IF type = "NodePort" THEN (IF ready THEN "node" ELSE "none") ELSE "dns"

resolveServiceEndpoint(type, ready) ==
    IF type = "NodePort" THEN (IF ready THEN "node" ELSE "") ELSE "dns"

\* Readiness of the Deployment as read, with the replica count kept in status.
IsReady(d, st, replicas) == d.avail = "True" /\ st.readyReplicas >= replicas

\* readyReplicas is taken only from a Deployment whose controller has observed it.
Mirror(st, d, g) ==
    LET counted == IF d.seen THEN [st EXCEPT !.readyReplicas = d.ready] ELSE st
    IN IF d.avail = "Unknown" THEN counted
       ELSE setVLLMCondition(counted, "DeploymentAvailable", d.avail, "Mirrored", g)

\* The conditions and endpoint published for an applied spec.
Report(st, d, s, ready, replicas, g) ==
    LET m == Mirror(st, d, g)
    IN IF replicas = 0
       THEN [setReadyFalse(m, "ScaledToZero", g) EXCEPT !.endpoint = ""]
       ELSE LET e == [m EXCEPT !.endpoint = resolveServiceEndpoint(s.type, ready)]
            IN IF IsReady(d, e, replicas) THEN setVLLMCondition(e, "Ready", "True", "AllReady", g)
                                          ELSE setReadyFalse(e, "NotReady", g)

\* client.MergeFrom(orig): only the top-level fields that changed are sent, the
\* conditions as a whole, and no resourceVersion.
MutWholeStatus(f) == w.staged[f]
MergeField(f) == IF w.staged[f] # w.orig[f] THEN w.staged[f] ELSE status[f]
MergePatch == [observedGeneration |-> MergeField("observedGeneration"),
               hash               |-> MergeField("hash"),
               readyReplicas      |-> MergeField("readyReplicas"),
               endpoint           |-> MergeField("endpoint"),
               conditions         |-> MergeField("conditions")]

-----------------------------------------------------------------------------
(* Reconcile up to its first API call: one action per way out. *)

cSpec       == specs[cInst.gen]
cEffective  == Resolve(cPreset, cSpec)
PresetFound == ~cSpec.presetRef \/ cPreset # "absent"
ConfigValid == cEffective.conf \notin InvalidConfs
StorageSafe == validateReplicaStorage(cClaim.modes, cSpec.replicas, cEffective.readOnly)

\* What is staged once the configuration is resolved, and once the PVC is found.
Resolved == [setVLLMCondition(cInst.status, "PresetResolved", "True",
                             IF cSpec.presetRef THEN "PresetFound" ELSE "OverridesUsed", cInst.gen)
                EXCEPT !.hash = cEffective]
MutObservedEarly ==
    [setVLLMCondition(Resolved, "StorageReady", "True", "PVCFound", cInst.gen)
        EXCEPT !.observedGeneration = cInst.gen]
Stored   == setVLLMCondition(Resolved, "StorageReady", "True", "PVCFound", cInst.gen)

\* A missing preset or PVC is looked for again after transientRequeue.
MutNoRequeue     == FALSE
transientRequeue == TRUE

Begin == pc = "idle" /\ queued /\ queued' = FALSE

\* The locals of a reconcile of the cached CR that goes on at `next'.
Load(next, staged, requeue) ==
    /\ pc' = next
    /\ w' = [gen |-> cInst.gen, orig |-> cInst.status, staged |-> staged,
             want |-> [template |-> cEffective, replicas |-> cSpec.replicas], requeue |-> requeue]

Goto(next, staged, requeue) ==
    /\ Load(next, staged, requeue)
    /\ UNCHANGED <<clusterVars, cacheVars, timer, depFrom, svcFrom>>

InstanceGone ==
    /\ Begin
    /\ ~cInst.exists
    /\ UNCHANGED <<clusterVars, cacheVars, timer, workVars>>

PresetMissing ==
    /\ Begin
    /\ cInst.exists
    /\ ~PresetFound
    /\ Goto("patch",
            setReadyFalse(setVLLMCondition(cInst.status, "PresetResolved", "False", "PresetNotFound", cInst.gen),
                          "PresetNotFound", cInst.gen), transientRequeue)

ConfigInvalid ==
    /\ Begin
    /\ cInst.exists
    /\ PresetFound
    /\ ~ConfigValid
    /\ Goto("patch", setReadyFalse(Resolved, "InvalidConfiguration", cInst.gen), TRUE)

ClaimMissing ==
    /\ Begin
    /\ cInst.exists
    /\ PresetFound
    /\ ConfigValid
    /\ ~cClaim.exists
    /\ Goto("patch",
            setReadyFalse(setVLLMCondition(Resolved, "StorageReady", "False", "PVCNotFound", cInst.gen),
                          "PVCNotFound", cInst.gen), transientRequeue)

ClaimUnsafe ==
    /\ Begin
    /\ cInst.exists
    /\ PresetFound
    /\ ConfigValid
    /\ cClaim.exists
    /\ ~StorageSafe
    /\ Goto("remediate",
            setReadyFalse(setVLLMCondition(Stored, "StorageReady", "False", "ReplicaStorageUnsafe", cInst.gen),
                          "ReplicaStorageUnsafe", cInst.gen), FALSE)

StartApply ==
    /\ Begin
    /\ cInst.exists
    /\ PresetFound
    /\ ConfigValid
    /\ cClaim.exists
    /\ StorageSafe
    /\ Goto("applyDep", Stored, FALSE)

\* A read fails otherwise than with NotFound: of the CR, the preset or the PVC.
ReadFails ==
    /\ Disturb("fault")
    /\ Begin
    /\ cInst.exists
    /\ \/ timer' = TRUE /\ UNCHANGED <<pc, w>>
       \/ cSpec.presetRef /\ Load("patch", cInst.status, TRUE) /\ UNCHANGED timer
       \/ PresetFound /\ ConfigValid /\ Load("patch", Resolved, TRUE) /\ UNCHANGED timer
    /\ UNCHANGED <<specs, alive, status, preset, claim, dep, svc, pods, cacheVars, depFrom, svcFrom>>

-----------------------------------------------------------------------------
(* The API calls. *)

\* remediateUnsafeDeployment, in one step: module Remediation takes it apart.
\* Nothing to do; an error of any of its calls, before or after the write; or
\* the Deployment is down to one replica.
RemediateNothing ==
    /\ pc = "remediate"
    /\ \/ ~cDep.exists
       \/ cDep.spec.replicas <= 1
       \/ dep.exists /\ dep.spec.replicas <= 1
    /\ pc' = "patch"
    /\ UNCHANGED <<clusterVars, cacheVars, queued, timer, w, depFrom, svcFrom>>

Remediate ==
    /\ pc = "remediate"
    /\ cDep.exists /\ cDep.spec.replicas > 1
    /\ \/ dep' = dep /\ w' = [w EXCEPT !.requeue = TRUE]
       \/ /\ dep.exists /\ dep.spec.replicas > 1
          /\ dep' = StoreDep([dep.spec EXCEPT !.replicas = 1])
          /\ \E failed \in BOOLEAN : w' = [w EXCEPT !.requeue = failed]
    /\ pc' = "patch"
    /\ UNCHANGED <<specs, alive, status, preset, claim, svc, pods, budget>>
    /\ UNCHANGED <<cacheVars, queued, timer, depFrom, svcFrom>>

applyDeployment == dep' = StoreDep(w.want) /\ depFrom' = w.gen
applyService    == svc' = [exists |-> TRUE, type |-> specs[w.gen].serviceType] /\ svcFrom' = w.gen

ApplyDeployment ==
    /\ pc = "applyDep"
    /\ applyDeployment
    /\ pc' = "applySvc"
    /\ UNCHANGED <<specs, alive, status, preset, claim, svc, pods, budget>>
    /\ UNCHANGED <<cacheVars, queued, timer, w, svcFrom>>

\* Only now, with both applies done, does observedGeneration advance.
ApplyService ==
    /\ pc = "applySvc"
    /\ applyService
    /\ pc' = "observe"
    /\ w' = [w EXCEPT !.staged.observedGeneration = w.gen]
    /\ UNCHANGED <<specs, alive, status, preset, claim, dep, pods, budget>>
    /\ UNCHANGED <<cacheVars, queued, timer, depFrom>>

MutApplyError == [w EXCEPT !.staged = setReadyFalse(w.staged, "ApplyFailed", w.gen)]
applyError    == [w EXCEPT !.staged = setReadyFalse(w.staged, "ApplyFailed", w.gen), !.requeue = TRUE]

\* An apply returns an error, whether or not the write took place.
ApplyFails ==
    /\ Disturb("fault")
    /\ \/ pc = "applyDep" /\ (applyDeployment \/ UNCHANGED <<dep, depFrom>>) /\ UNCHANGED <<svc, svcFrom>>
       \/ pc = "applySvc" /\ (applyService \/ UNCHANGED <<svc, svcFrom>>) /\ UNCHANGED <<dep, depFrom>>
    /\ pc' = "patch"
    /\ w' = applyError
    /\ UNCHANGED <<specs, alive, status, preset, claim, pods, cacheVars, queued, timer>>

\* The Service and Deployment just applied are read back through the caches.
ObserveNothing ==
    /\ pc = "observe"
    /\ ~cSvc.exists \/ ~cDep.exists
    /\ pc' = "patch"
    /\ w' = [w EXCEPT !.requeue = TRUE]
    /\ UNCHANGED <<clusterVars, cacheVars, queued, timer, depFrom, svcFrom>>

\* The status is staged from what was read; `ready' is what resolveEndpoint saw.
ReadBack(ready) ==
    /\ pc = "observe"
    /\ cSvc.exists
    /\ cDep.exists
    /\ pc' = "patch"
    /\ LET n  == w.want.replicas
           st == Report(w.staged, cDep, cSvc, ready, n, w.gen)
       IN w' = [w EXCEPT !.staged = st, !.requeue = n = 0 \/ ~IsReady(cDep, st, n)]
    /\ UNCHANGED <<cacheVars, queued, timer, depFrom, svcFrom>>

Observe == ReadBack(cSlice) /\ UNCHANGED clusterVars

\* resolveEndpoint's List of the slices, or every Get of nodeInternalIP, fails:
\* the error is swallowed into the endpoint "", and Ready does not depend on it.
EndpointReadFails ==
    /\ Disturb("fault")
    /\ cSvc.type = "NodePort"
    /\ w.want.replicas # 0
    /\ ReadBack(FALSE)
    /\ UNCHANGED <<specs, alive, status, preset, claim, dep, svc, pods>>

\* The read of the Service or of the Deployment fails otherwise than with NotFound.
ObserveFails ==
    /\ Disturb("fault")
    /\ pc = "observe"
    /\ pc' = "patch"
    /\ w' = [w EXCEPT !.requeue = TRUE]
    /\ UNCHANGED <<specs, alive, status, preset, claim, dep, svc, pods>>
    /\ UNCHANGED <<cacheVars, queued, timer, depFrom, svcFrom>>

patchStatus == status' = MergePatch

\* The last call of every reconcile.  On a deleted CR it fails with NotFound.
PatchStatus ==
    /\ pc = "patch"
    /\ IF alive THEN patchStatus /\ timer' = (timer \/ w.requeue)
                ELSE status' = status /\ timer' = TRUE
    /\ pc' = "idle"
    /\ w' = NoWork
    /\ UNCHANGED <<specs, alive, preset, claim, dep, svc, pods, budget>>
    /\ UNCHANGED <<cacheVars, queued, depFrom, svcFrom>>

PatchFails ==
    /\ Disturb("fault")
    /\ pc = "patch"
    /\ alive
    /\ patchStatus \/ status' = status
    /\ timer' = TRUE
    /\ pc' = "idle"
    /\ w' = NoWork
    /\ UNCHANGED <<specs, alive, preset, claim, dep, svc, pods>>
    /\ UNCHANGED <<cacheVars, queued, depFrom, svcFrom>>

\* The process dies; its successor lists everything and queues what it finds.
Restart ==
    /\ Disturb("restart")
    /\ cInst' = Instance
    /\ cPreset' = preset
    /\ cClaim' = claim
    /\ cDep' = dep
    /\ cSvc' = svc
    /\ cSlice' = SliceReady
    /\ queued' = alive
    /\ timer' = FALSE
    /\ pc' = "idle"
    /\ w' = NoWork
    /\ UNCHANGED <<specs, alive, status, preset, claim, dep, svc, pods, depFrom, svcFrom>>

-----------------------------------------------------------------------------
Environment == (User \/ Kubernetes \/ PodFails) /\ UNCHANGED opVars

Informers ==
    \/ SyncInstance \/ SyncDeployment \/ SyncService \/ SyncPreset \/ PresetEventLost
    \/ SyncSlice \/ SyncClaim

Reconcile ==
    \/ InstanceGone \/ PresetMissing \/ ConfigInvalid \/ ClaimMissing \/ ClaimUnsafe \/ StartApply
    \/ RemediateNothing \/ Remediate
    \/ ApplyDeployment \/ ApplyService \/ ObserveNothing \/ Observe \/ PatchStatus

Faults == ReadFails \/ ApplyFails \/ ObserveFails \/ EndpointReadFails \/ PatchFails \/ Restart

Next == Environment \/ Informers \/ TimerFires \/ Reconcile \/ Faults

Spec == Init /\ [][Next]_vars

\* Informers deliver, timers fire, a queued key is taken by one of the workers
\* and a reconcile under way goes on; nothing makes a disturbance happen.
Fairness ==
    /\ WF_vars(SyncInstance) /\ WF_vars(SyncDeployment) /\ WF_vars(SyncService)
    /\ WF_vars(SyncPreset) /\ WF_vars(SyncSlice) /\ WF_vars(SyncClaim)
    /\ WF_vars(TimerFires)
    /\ WF_vars(Reconcile)
    /\ WF_vars(Rollout /\ UNCHANGED opVars)
    /\ WF_vars(PodBecomesReady /\ UNCHANGED opVars)
    /\ WF_vars(ReportDeployment /\ UNCHANGED opVars)
    /\ WF_vars(CollectGarbage /\ UNCHANGED opVars)

LiveSpec == Spec /\ Fairness

-----------------------------------------------------------------------------
(* Properties. *)

\* observedGeneration is published only once both applies of that generation
\* have been made (the comment before ObservedGeneration in Reconcile): neither
\* workload object was last applied from an older generation than it names.
ObservedMeansApplied ==
    status.observedGeneration <= depFrom /\ status.observedGeneration <= svcFrom

\* No step of the operator takes the Deployment, the Service or the published
\* observedGeneration back to an older generation of the spec, although each
\* reconcile works on a cached CR and patches without a resourceVersion.
NoRollback ==
    [][/\ depFrom' >= depFrom
       /\ svcFrom' >= svcFrom
       /\ status'.observedGeneration >= status.observedGeneration]_vars

\* The Deployment never runs several pods on a volume that only one node may
\* mount, or that several may only read while the pods mount it writable: the
\* storage gate passes replicas and mount mode only together, and every apply
\* writes both, so no order of edits brings the replicas of one spec together
\* with the mount of another.  (It is said of Deployments that nobody else scales
\* out; bringing such a one down is module Remediation's.)
NoUnsafeFanout ==
    dep.exists /\ dep.spec.replicas > 1 =>
        \/ "ReadWriteMany" \in claim.modes
        \/ "ReadOnlyMany" \in claim.modes /\ dep.spec.template.readOnly

\* A published Ready=True comes with every condition it rests on, true for the
\* same or a later generation, and its generation has been applied: no exit of
\* Reconcile leaves an old Ready=True beside its own False.
ReadyIsBacked ==
    status.conditions["Ready"].status = "True" =>
        /\ \A t \in CondTypes : /\ status.conditions[t].status = "True"
                                /\ status.conditions[t].gen >= status.conditions["Ready"].gen
        /\ status.conditions["Ready"].gen <= status.observedGeneration

\* Why the two hold, for the proofs.  The worker never works on a generation
\* newer than the cached one, nor on one older than what was last applied ...
Generations ==
    /\ depFrom <= Len(specs) /\ svcFrom <= Len(specs)
    /\ cInst.exists => /\ cInst.gen \in 1..Len(specs)
                       /\ depFrom <= cInst.gen /\ svcFrom <= cInst.gen
    /\ pc # "idle" => /\ w.gen \in 1..Len(specs)
                      /\ depFrom <= w.gen /\ svcFrom <= w.gen
                      /\ cInst.exists => w.gen <= cInst.gen

\* ... and stages a new observedGeneration only with both applies made.
Staged ==
    /\ pc = "applySvc" => depFrom = w.gen
    /\ pc # "idle" => \/ w.staged.observedGeneration = w.orig.observedGeneration
                      \/ /\ pc \in {"observe", "patch"}
                         /\ w.staged.observedGeneration = w.gen
                         /\ depFrom = w.gen /\ svcFrom = w.gen

IInv == TypeOK /\ Generations /\ Staged /\ ObservedMeansApplied

\* "Trust readyReplicas only when dep.Status.ObservedGeneration >=
\* dep.Generation": Ready turns True only on a Deployment whose controller has
\* observed the spec the operator read it with.
ReadyFromObservedDeployment ==
    [][pc = "observe" /\ pc' = "patch" /\ w'.staged.conditions["Ready"] =
         [status |-> "True", reason |-> "AllReady", gen |-> w.gen] => cDep.seen]_vars

\* The ScaledToZero exit clears status.endpoint so that consumers do not dial
\* a phantom URL: a status that says ScaledToZero carries no endpoint.
ScaledToZeroHasNoEndpoint ==
    status.conditions["Ready"].reason = "ScaledToZero" => status.endpoint = ""

\* What the CR, the preset and the PVC on the server ask for.
Wanted        == specs[Len(specs)]
WantedConfig  == Resolve(preset, Wanted)
WantedPreset  == ~Wanted.presetRef \/ preset # "absent"
WantedValid   == WantedConfig.conf \notin InvalidConfs
WantedStorage == \/ Wanted.replicas <= 1
                 \/ "ReadWriteMany" \in claim.modes
                 \/ "ReadOnlyMany" \in claim.modes /\ WantedConfig.readOnly
Serveable     == alive /\ WantedPreset /\ WantedValid /\ claim.exists /\ WantedStorage

\* Nothing is left to do: no reconcile runs, waits or is due, and no watch of the
\* reconciler has an event to deliver.  (PVCs are not watched.)
AtRest ==
    /\ pc = "idle" /\ ~queued /\ ~timer
    /\ cInst = Instance /\ cPreset = preset
    /\ cDep = dep /\ cSvc = svc /\ cSlice = SliceReady

\* resolveEndpoint may have swallowed an error.
EndpointUnread == "fault" \in Disturbances /\ Wanted.serviceType = "NodePort"

\* An instance the operator does not come back to needs no coming back: it is
\* served as its spec and preset ask, and its status says so for the current
\* generation, or its volume cannot carry it, its status says that, and its
\* Deployment has been brought down to one pod.  Every other exit of Reconcile
\* must have left a requeue, a timer or an event behind, whatever was edited,
\* failed or restarted while it ran on cached objects.  Of the reads only
\* resolveEndpoint's may fail without one: it can leave a NodePort instance at
\* rest Ready with no endpoint, but never with one that is not there.
RestIsTruthful ==
    alive /\ AtRest =>
        /\ WantedPreset /\ WantedValid
        /\ IF WantedStorage
           THEN /\ Wanted.replicas > 0
                /\ dep.exists /\ dep.spec = [template |-> WantedConfig, replicas |-> Wanted.replicas]
                /\ svc = [exists |-> TRUE, type |-> Wanted.serviceType]
                /\ status.observedGeneration = Len(specs)
                /\ status.hash = WantedConfig
                /\ status.conditions["Ready"] = [status |-> "True", reason |-> "AllReady", gen |-> Len(specs)]
                /\ status.readyReplicas >= Wanted.replicas
                /\ \/ status.endpoint = resolveServiceEndpoint(Wanted.serviceType, SliceReady)
                   \/ EndpointUnread /\ status.endpoint = ""
           ELSE /\ status.conditions["Ready"] =
                      [status |-> "False", reason |-> "ReplicaStorageUnsafe", gen |-> Len(specs)]
                /\ dep.exists => dep.spec.replicas <= 1

\* Once the disturbances end, a serveable CR is applied for good: Deployment
\* and Service are what the current spec and preset ask for, and the status
\* says so by observedGeneration and resolvedConfigHash.
EventuallyApplied ==
    <>[](Serveable =>
           /\ dep.exists /\ dep.spec = [template |-> WantedConfig, replicas |-> Wanted.replicas]
           /\ svc = [exists |-> TRUE, type |-> Wanted.serviceType]
           /\ status.observedGeneration = Len(specs)
           /\ status.hash = WantedConfig)

\* ... and reported truthfully: Ready with the endpoint of its Service once the
\* pods serve, ScaledToZero without endpoint when none are wanted, although
\* each status patch is a diff against a cached copy that may be stale.
EventuallyReported ==
    <>[](Serveable =>
           LET ready == status.conditions["Ready"]
           IN /\ ready.gen = Len(specs)
              /\ status.readyReplicas = Wanted.replicas
              /\ IF Wanted.replicas = 0
                 THEN ready.reason = "ScaledToZero" /\ status.endpoint = ""
                 ELSE /\ ready.status = "True"
                      /\ status.endpoint = IF Wanted.serviceType = "NodePort" THEN "node" ELSE "dns")

\* A CR that cannot be served says why: its Ready condition ends up False with
\* the reason of the first check that fails, for the current generation.
EventuallyRefused ==
    <>[](alive /\ ~Serveable /\ claim.exists =>
           status.conditions["Ready"] =
             [status |-> "False", gen |-> Len(specs),
              reason |-> CASE ~WantedPreset -> "PresetNotFound"
                           [] WantedPreset /\ ~WantedValid -> "InvalidConfiguration"
                           [] OTHER -> "ReplicaStorageUnsafe"])

\* After the CR is deleted nothing of it stays: a reconcile under way may still
\* apply, but none begins, and what it applied is owned by the CR.
DeletedLeavesNothing == <>[](~alive => ~dep.exists /\ ~svc.exists)
=============================================================================
