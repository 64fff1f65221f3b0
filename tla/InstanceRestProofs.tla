------------------------- MODULE InstanceRestProofs -------------------------
(***************************************************************************)
(* An instance that VLLMInstanceReconciler does not come back to needs no  *)
(* coming back, for every set of specs and presets and any number of       *)
(* edits, faults and restarts, as long as every preset event is mapped.    *)
(*                                                                         *)
(* The argument: an event that reaches a cache queues the key, so when     *)
(* none is queued the caches are still those the last reconcile began      *)
(* with.  What it staged is then a function of the caches, and either it   *)
(* asked to come back or its patch has been sent.  When the cached status  *)
(* is also the server's, the patch changed nothing: what was staged is     *)
(* what is published.  The one read that fails silently, that of           *)
(* resolveEndpoint, makes one more outcome: no endpoint beside Ready=True. *)
(***************************************************************************)
EXTENDS InstanceSafetyProofs

\* Users only submit specs the CRD admits.
AdmittedSpecs == \A i \in 1..Len(specs) : Admitted(specs[i])

\* What a reconcile of the cached objects applies ...
Want       == [template |-> cEffective, replicas |-> cSpec.replicas]
AppliedDep == dep.exists /\ dep.spec = Want
AppliedSvc == svc = [exists |-> TRUE, type |-> cSpec.serviceType]

\* ... and stages: after the applies, in the end (with what resolveEndpoint made
\* of the slices), or when the volume is refused.
Applied  == [Stored EXCEPT !.observedGeneration = cInst.gen]
Final(r) == Report(Applied, cDep, cSvc, r, cSpec.replicas, cInst.gen)
Unsafe   == setReadyFalse(setVLLMCondition(Stored, "StorageReady", "False", "ReplicaStorageUnsafe", cInst.gen),
                          "ReplicaStorageUnsafe", cInst.gen)

\* The slices as resolveEndpoint sees them: a swallowed error shows none.
Seen(r) == r = cSlice \/ ("fault" \in Disturbances /\ cSvc.type = "NodePort" /\ r = FALSE)

\* The ways to end without a requeue, and what is staged then.
Passed    == PresetFound /\ ConfigValid
Served(r) == /\ Passed /\ StorageSafe /\ AppliedDep /\ AppliedSvc /\ Seen(r)
             /\ cSpec.replicas # 0 /\ IsReady(cDep, Final(r), cSpec.replicas)
Refused   == /\ Passed /\ ~StorageSafe
             /\ cDep.exists /\ cDep.spec.replicas > 1 /\ dep.exists => dep.spec.replicas <= 1
Outcome(st) == (\E r \in BOOLEAN : Served(r) /\ st = Final(r)) \/ (Refused /\ st = Unsafe)

\* The patch from the cached status to st has reached the server.
Fields   == {"observedGeneration", "hash", "readyReplicas", "endpoint", "conditions"}
Sent(st) == \A f \in Fields : st[f] # cInst.status[f] => status[f] = st[f]

\* What the worker holds is what the caches give, and what it has applied.
Working ==
    /\ w.gen = cInst.gen /\ w.orig = cInst.status /\ w.want = Want
    /\ pc = "remediate" => Passed /\ ~StorageSafe /\ w.staged = Unsafe /\ ~w.requeue
    /\ pc = "applyDep" => Passed /\ StorageSafe /\ w.staged = Stored
    /\ pc = "applySvc" => Passed /\ StorageSafe /\ w.staged = Stored /\ AppliedDep
    /\ pc = "observe" => Passed /\ StorageSafe /\ w.staged = Applied /\ AppliedDep /\ AppliedSvc
    /\ pc = "patch" => w.requeue \/ Outcome(w.staged)

Ended == (\E r \in BOOLEAN : Served(r) /\ Sent(Final(r))) \/ (Refused /\ Sent(Unsafe))

RestInv ==
    alive /\ cInst.exists /\ ~queued =>
        /\ pc # "idle" => Working
        /\ pc = "idle" /\ ~timer => Ended

-----------------------------------------------------------------------------
(* The caches while no key is queued. *)

\* The specs of the CR only grow, by one the CRD admits.
LEMMA SpecsGrow ==
  ASSUME IInv, [Next]_vars
  PROVE  specs' = specs \/ (\E sp \in Specs : specs' = Append(specs, sp))
  <1>1. CASE EditSpec
    BY <1>1 DEF EditSpec
  <1>2. CASE ~EditSpec
    <2>1. specs' = specs
      BY <1>2 DEF Next, Environment, User, Kubernetes, Informers, Reconcile, Faults, Goto, clusterVars, vars,
         DeleteInstance, EditPreset, ToggleClaim, ScaleDeployment, RemoveWorkload, Rollout,
         PodBecomesReady, PodFails, ReportDeployment, CollectGarbage,
         SyncInstance, SyncDeployment, SyncService, SyncPreset, PresetEventLost, SyncSlice, SyncClaim, TimerFires,
         InstanceGone, PresetMissing, ConfigInvalid, ClaimMissing, ClaimUnsafe, StartApply, ReadFails,
         RemediateNothing, Remediate, ApplyDeployment, ApplyService, ApplyFails,
         ObserveNothing, Observe, ReadBack, EndpointReadFails, ObserveFails, PatchStatus, PatchFails, Restart
    <2> QED BY <2>1
  <1> QED BY <1>1, <1>2

\* An older generation stays what it was.
LEMMA SpecsStay ==
  ASSUME IInv, [Next]_vars, NEW i \in 1..Len(specs)
  PROVE  specs'[i] = specs[i]
  <1>1. specs \in Seq(SpecType)
    BY DEF IInv, TypeOK, ClusterTypeOK
  <1>2. ASSUME NEW sp PROVE Append(specs, sp)[i] = specs[i]
    BY <1>1
  <1> QED BY <1>2, SpecsGrow

LEMMA AdmittedInvariance == Spec => []AdmittedSpecs
  <1>1. Init => AdmittedSpecs
    <2> SUFFICES ASSUME Init PROVE AdmittedSpecs
      OBVIOUS
    <2>1. PICK sp \in Specs : specs = <<sp>>
      BY DEF Init, ClusterInit
    <2> QED BY <2>1, SpecsAssumption DEF AdmittedSpecs
  <1>2. IInv /\ AdmittedSpecs /\ [Next]_vars => AdmittedSpecs'
    <2> SUFFICES ASSUME IInv, AdmittedSpecs, [Next]_vars PROVE AdmittedSpecs'
      OBVIOUS
    <2>1. specs \in Seq(SpecType) /\ Len(specs) \in Nat
      BY DEF IInv, TypeOK, ClusterTypeOK
    <2>2. CASE specs' = specs
      BY <2>2 DEF AdmittedSpecs
    <2>3. ASSUME NEW sp \in Specs, specs' = Append(specs, sp) PROVE AdmittedSpecs'
      <3>1. Admitted(sp) /\ Len(specs') = Len(specs) + 1 /\ specs'[Len(specs) + 1] = sp
        BY <2>1, <2>3, SpecsAssumption
      <3>2. \A i \in 1..Len(specs) : specs'[i] = specs[i]
        BY SpecsStay
      <3>3. \A i \in 1..(Len(specs) + 1) : i \in 1..Len(specs) \/ i = Len(specs) + 1
        BY <2>1
      <3> QED BY <3>1, <3>2, <3>3 DEF AdmittedSpecs
    <2> QED BY <2>2, <2>3, SpecsGrow
  <1> QED BY <1>1, <1>2, Invariance, PTL DEF Spec

\* The List in mapPresetToInstances does not fail.
Mapped == "lost" \notin Disturbances

\* What the reconcile makes of the caches does not change ...
SameView ==
    /\ UNCHANGED <<cInst, cDep, cSvc, cSlice>>
    /\ cSpec' = cSpec /\ cEffective' = cEffective
    /\ PresetFound' <=> PresetFound
    /\ cClaim'.modes = cClaim.modes

\* ... in a step after which the key is not queued: an event that changes a cache
\* queues it, except that of a PVC, whose access modes are fixed, and that of a
\* preset which the cached CR does not refer to.
LEMMA ViewStep ==
  ASSUME Mapped, IInv, StorageInv, AdmittedSpecs, [Next]_vars, alive', cInst'.exists, ~queued'
  PROVE  SameView
  <1>1. cClaim'.modes = cClaim.modes
    <2>1. StorageInv'
      BY StorageStep
    <2>2. claim'.modes = claim.modes
      BY ModesFixed DEF IInv
    <2> QED BY <2>1, <2>2 DEF StorageInv
  <1>2. ASSUME Restart PROVE FALSE
    <2>1. queued' = alive /\ alive' = alive
      BY <1>2 DEF Restart
    <2> QED BY <2>1, Zenon
  <1>3. /\ UNCHANGED <<cInst, cDep, cSvc, cSlice>>
        /\ cPreset' = cPreset \/ ~mapPresetToInstances
    BY <1>2 DEF Mapped, Next, Environment, Informers, Reconcile, Faults, Goto, vars, opVars, cacheVars,
       SyncInstance, SyncDeployment, SyncService, SyncPreset, PresetEventLost, SyncSlice, mapEndpointSliceToInstance,
       SyncClaim, TimerFires,
       InstanceGone, PresetMissing, ConfigInvalid, ClaimMissing, ClaimUnsafe, StartApply, ReadFails,
       RemediateNothing, Remediate, ApplyDeployment, ApplyService, ApplyFails,
       ObserveNothing, Observe, ReadBack, EndpointReadFails, ObserveFails, PatchStatus, PatchFails
  <1>4. cInst.gen \in 1..Len(specs)
    BY <1>3 DEF IInv, Generations
  <1>5. cSpec' = cSpec
    BY <1>3, <1>4, SpecsStay DEF cSpec
  <1>6. CASE cPreset' = cPreset
    BY <1>1, <1>3, <1>5, <1>6 DEF SameView, cEffective, PresetFound
  <1>7. CASE ~mapPresetToInstances
    <2>1. ~cSpec.presetRef
      BY <1>3, <1>7 DEF mapPresetToInstances, cSpec
    <2>2. Admitted(cSpec)
      BY <1>4 DEF AdmittedSpecs, cSpec
    <2>3. cSpec.conf # "unset"
      BY <2>1, <2>2 DEF Admitted
    <2>4. cEffective' = cEffective
      BY <1>5, <2>3 DEF cEffective, Resolve
    <2>5. PresetFound' <=> PresetFound
      BY <1>5, <2>1 DEF PresetFound
    <2> QED BY <1>1, <1>3, <1>5, <2>4, <2>5 DEF SameView
  <1> QED BY <1>3, <1>6, <1>7

\* Everything computed from the caches stays.
LEMMA SameStaged ==
  ASSUME SameView
  PROVE  /\ Want' = Want /\ Stored' = Stored /\ Applied' = Applied /\ Unsafe' = Unsafe
         /\ \A r \in BOOLEAN : Final(r)' = Final(r) /\ (Seen(r)' <=> Seen(r))
         /\ Passed' <=> Passed
         /\ StorageSafe' <=> StorageSafe
  <1>1. Resolved' = Resolved
    BY DEF SameView, Resolved
  <1>2. Stored' = Stored
    BY <1>1 DEF Stored, SameView
  <1>3. Applied' = Applied
    BY <1>2 DEF Applied, SameView
  <1>4. \A r \in BOOLEAN : Final(r)' = Final(r) /\ (Seen(r)' <=> Seen(r))
    BY <1>3 DEF Final, Seen, SameView
  <1>5. Unsafe' = Unsafe
    BY <1>2 DEF Unsafe, SameView
  <1>6. Want' = Want
    BY DEF Want, SameView
  <1>7. (Passed' <=> Passed) /\ (StorageSafe' <=> StorageSafe)
    BY DEF Passed, ConfigValid, StorageSafe, SameView
  <1> QED BY <1>2, <1>3, <1>4, <1>5, <1>6, <1>7

-----------------------------------------------------------------------------
(* Everybody else. *)

\* Nobody but the operator writes to the Deployment's spec or to the Service.
Unshared == {"scale", "remove"} \cap Disturbances = {}

\* What a reconcile has applied and found stays as long as its view and the
\* workload objects stay.
LEMMA KeepOutcome ==
  ASSUME SameView, dep'.exists <=> dep.exists, dep'.spec = dep.spec, svc' = svc
  PROVE  /\ AppliedDep' <=> AppliedDep
         /\ AppliedSvc' <=> AppliedSvc
         /\ \A r \in BOOLEAN : Served(r)' <=> Served(r)
         /\ Refused' <=> Refused
  <1>1. AppliedDep' <=> AppliedDep
    BY SameStaged DEF AppliedDep
  <1>2. AppliedSvc' <=> AppliedSvc
    BY DEF AppliedSvc, SameView
  <1>3. /\ cSpec' = cSpec /\ cDep' = cDep
        /\ \A r \in BOOLEAN : Final(r)' = Final(r) /\ (Seen(r)' <=> Seen(r))
        /\ (Passed' <=> Passed) /\ (StorageSafe' <=> StorageSafe)
    BY SameStaged DEF SameView
  <1>4. ASSUME NEW r \in BOOLEAN PROVE Served(r)' <=> Served(r)
    BY <1>1, <1>2, <1>3 DEF Served, IsReady
  <1>5. Refused' <=> Refused
    BY <1>3 DEF Refused
  <1> QED BY <1>1, <1>2, <1>4, <1>5

LEMMA OutcomeStays ==
  ASSUME SameView, dep'.exists <=> dep.exists, dep'.spec = dep.spec, svc' = svc, w'.staged = w.staged
  PROVE  Outcome(w.staged) => Outcome(w.staged)'
  <1>1. (\A r \in BOOLEAN : Served(r)' <=> Served(r)) /\ (Refused' <=> Refused)
    BY KeepOutcome
  <1>2. (\A r \in BOOLEAN : Final(r)' = Final(r)) /\ Unsafe' = Unsafe
    BY SameStaged
  <1> QED BY <1>1, <1>2 DEF Outcome

LEMMA KeepEnded ==
  ASSUME SameView, dep'.exists <=> dep.exists, dep'.spec = dep.spec, svc' = svc, status' = status, Ended
  PROVE  Ended'
  <1>1. (\A r \in BOOLEAN : Served(r)' <=> Served(r)) /\ (Refused' <=> Refused)
    BY KeepOutcome
  <1>2. cInst' = cInst /\ (\A r \in BOOLEAN : Final(r)' = Final(r)) /\ Unsafe' = Unsafe
    BY SameStaged DEF SameView
  <1>3. ASSUME NEW r \in BOOLEAN PROVE Sent(Final(r)) => Sent(Final(r))'
    BY <1>2 DEF Sent
  <1>4. Sent(Unsafe) => Sent(Unsafe)'
    BY <1>2 DEF Sent
  <1> QED BY <1>1, <1>3, <1>4 DEF Ended

LEMMA KeepWorking ==
  ASSUME SameView, dep'.exists <=> dep.exists, dep'.spec = dep.spec, svc' = svc, UNCHANGED <<pc, w>>, Working
  PROVE  Working'
  <1>1. /\ AppliedDep' <=> AppliedDep
        /\ AppliedSvc' <=> AppliedSvc
    BY KeepOutcome
  <1>2. /\ cInst' = cInst /\ Want' = Want /\ Stored' = Stored /\ Applied' = Applied /\ Unsafe' = Unsafe
        /\ (Passed' <=> Passed) /\ (StorageSafe' <=> StorageSafe)
    BY SameStaged DEF SameView
  <1>3. Outcome(w.staged) => Outcome(w.staged)'
    BY OutcomeStays
  <1> QED BY <1>1, <1>2, <1>3 DEF Working

\* The other actors leave the spec of the Deployment, the Service and the status
\* alone as long as the CR is there.
LEMMA Untouched ==
  ASSUME IInv, Unshared, Environment \/ Informers \/ TimerFires \/ UNCHANGED vars, alive'
  PROVE  /\ alive
         /\ (dep'.exists <=> dep.exists) /\ dep'.spec = dep.spec /\ svc' = svc /\ status' = status
         /\ UNCHANGED <<pc, w>>
         /\ timer' = timer \/ queued'
         /\ queued' \/ ~queued
  <1>0. dep \in DepType
    BY DEF IInv, TypeOK, ClusterTypeOK
  <1>1. UNCHANGED <<pc, w>> /\ (timer' = timer \/ queued') /\ (queued' \/ ~queued)
    <2>1. UNCHANGED <<pc, w>> /\ (timer' = timer \/ queued' = TRUE)
      BY DEF Environment, Informers, SyncInstance, SyncDeployment, SyncService, SyncPreset, PresetEventLost, SyncSlice,
         SyncClaim, TimerFires, opVars, workVars, vars
    <2>2. queued' = queued \/ queued' = TRUE \/ queued' = (queued \/ mapPresetToInstances)
      BY DEF Environment, Informers, SyncInstance, SyncDeployment, SyncService, SyncPreset, PresetEventLost, SyncSlice,
         mapEndpointSliceToInstance, SyncClaim, TimerFires, opVars, vars
    <2>3. queued' \/ ~queued
      BY <2>2, Zenon
    <2> QED BY <2>1, <2>3
  <1>2. ASSUME User \/ Kubernetes \/ PodFails
        PROVE  alive /\ (dep'.exists <=> dep.exists) /\ dep'.spec = dep.spec /\ svc' = svc
    <2>1. ~ScaleDeployment /\ ~RemoveWorkload
      BY DEF ScaleDeployment, RemoveWorkload, Disturb, Unshared
    <2>2. CASE ReportDeployment
      <3> DEFINE a == IF pods.ready >= dep.spec.replicas THEN "True" ELSE "False"
      <3>1. dep' = [dep EXCEPT !.seen = TRUE, !.ready = pods.ready, !.avail = a]
        BY <2>2 DEF ReportDeployment
      <3> HIDE DEF a
      <3>2. dep'.exists = dep.exists
        BY <1>0, <3>1 DEF DepType
      <3>3. dep'.spec = dep.spec
        BY <1>0, <3>1 DEF DepType
      <3> QED BY <2>2, <3>2, <3>3 DEF ReportDeployment
    <2>3. CASE ~ReportDeployment
      BY <1>2, <2>1, <2>3 DEF User, Kubernetes, EditSpec, DeleteInstance, EditPreset, ToggleClaim, Rollout,
         PodBecomesReady, PodFails, CollectGarbage
    <2> QED BY <2>2, <2>3
  <1>3. status' = status
    BY ClusterStep DEF Environment, Informers, SyncInstance, SyncDeployment, SyncService, SyncPreset, PresetEventLost, SyncSlice,
       SyncClaim, TimerFires, clusterVars, vars, IInv, TypeOK
  <1>4. CASE Environment
    BY <1>1, <1>2, <1>3, <1>4 DEF Environment
  <1>5. CASE ~Environment
    <2>1. UNCHANGED <<alive, dep, svc>>
      BY <1>5 DEF Informers, SyncInstance, SyncDeployment, SyncService, SyncPreset, PresetEventLost, SyncSlice,
         SyncClaim, TimerFires, clusterVars, vars
    <2> QED BY <1>1, <1>3, <2>1
  <1> QED BY <1>4, <1>5

LEMMA RestElsewhere ==
  ASSUME IInv, Unshared, RestInv, SameView, Environment \/ Informers \/ TimerFires \/ UNCHANGED vars,
         alive', cInst'.exists, ~queued'
  PROVE  (pc' # "idle" => Working') /\ (pc' = "idle" /\ ~timer' => Ended')
  <1>1. /\ (dep'.exists <=> dep.exists) /\ dep'.spec = dep.spec /\ svc' = svc /\ status' = status
        /\ UNCHANGED <<pc, w>>
    BY Untouched
  <1>2. alive /\ ~queued /\ cInst.exists /\ (timer' <=> timer)
    BY Untouched DEF SameView
  <1>3. (pc # "idle" => Working) /\ (pc = "idle" /\ ~timer => Ended)
    BY <1>2 DEF RestInv
  <1> QED BY <1>1, <1>2, <1>3, KeepEnded, KeepWorking

-----------------------------------------------------------------------------
(* Reconcile. *)

\* A reconcile that begins works on the caches as they are.
LEMMA LoadWorking ==
  ASSUME SameView, NEW next, NEW staged, NEW requeue \in BOOLEAN, Load(next, staged, requeue),
         \/ next = "patch" /\ requeue
         \/ next = "remediate" /\ Passed /\ ~StorageSafe /\ staged = Unsafe /\ ~requeue
         \/ next = "applyDep" /\ Passed /\ StorageSafe /\ staged = Stored
  PROVE  Working' /\ pc' # "idle"
  <1>1. pc' = next /\ w'.gen = cInst.gen /\ w'.orig = cInst.status /\ w'.staged = staged
        /\ w'.want = Want /\ w'.requeue = requeue
    BY DEF Load, Want
  <1>2. /\ cInst' = cInst /\ Want' = Want /\ Stored' = Stored /\ Unsafe' = Unsafe
        /\ (Passed' <=> Passed) /\ (StorageSafe' <=> StorageSafe)
    BY SameStaged DEF SameView
  <1> QED BY <1>1, <1>2 DEF Working

LEMMA RestBegin ==
  ASSUME IInv, SameView, cInst'.exists,
         \/ InstanceGone \/ PresetMissing \/ ConfigInvalid \/ ClaimMissing \/ ClaimUnsafe
         \/ StartApply \/ ReadFails
  PROVE  (pc' # "idle" => Working') /\ (pc' = "idle" /\ ~timer' => Ended')
  <1>1. ~InstanceGone
    BY DEF InstanceGone, SameView
  <1>2. CASE timer' = TRUE /\ pc' = pc /\ pc = "idle"
    BY <1>2
  <1>3. CASE \E staged : Load("patch", staged, TRUE)
    BY <1>3, LoadWorking
  <1>4. CASE ClaimUnsafe
    <2>1. Load("remediate", Unsafe, FALSE) /\ Passed /\ ~StorageSafe
      BY <1>4 DEF ClaimUnsafe, Goto, Unsafe, Passed
    <2> QED BY <2>1, LoadWorking
  <1>5. CASE StartApply
    <2>1. Load("applyDep", Stored, FALSE) /\ Passed /\ StorageSafe
      BY <1>5 DEF StartApply, Goto, Passed
    <2> QED BY <2>1, LoadWorking
  <1>6. CASE PresetMissing \/ ConfigInvalid \/ ClaimMissing \/ ReadFails
    <2>1. (timer' = TRUE /\ pc' = pc /\ pc = "idle") \/ (\E staged : Load("patch", staged, TRUE))
      BY <1>6 DEF PresetMissing, ConfigInvalid, ClaimMissing, ReadFails, Goto, Begin, transientRequeue
    <2> QED BY <1>2, <1>3, <2>1
  <1> QED BY <1>1, <1>4, <1>5, <1>6

\* Remediation: the Deployment the caches show is down to one replica, or it asks
\* to come back.
LEMMA RestRemediate ==
  ASSUME IInv, SameView, Working, RemediateNothing \/ Remediate
  PROVE  Working' /\ pc' # "idle"
  <1>0. /\ w \in WorkType /\ dep \in DepType /\ dep.spec \in DepSpec /\ cDep.spec.replicas \in Nat
        /\ dep.spec.replicas \in Nat
    BY DEF IInv, TypeOK, ClusterTypeOK, DepType, DepSpec
  <1>1. pc = "remediate" /\ pc' = "patch"
    BY DEF RemediateNothing, Remediate
  <1>2. Passed /\ ~StorageSafe /\ w.staged = Unsafe
    BY <1>1 DEF Working
  <1>3. /\ w'.gen = w.gen /\ w'.orig = w.orig /\ w'.want = w.want /\ w'.staged = w.staged
        /\ w'.requeue \/ (cDep.exists /\ cDep.spec.replicas > 1 /\ dep'.exists => dep'.spec.replicas <= 1)
    <2>1. CASE RemediateNothing
      <3>1. w' = w /\ dep' = dep
        BY <2>1 DEF RemediateNothing, clusterVars
      <3> QED BY <1>0, <2>1, <3>1 DEF RemediateNothing
    <2>2. ASSUME Remediate, NEW q \in BOOLEAN, w' = [w EXCEPT !.requeue = q]
          PROVE  /\ w'.gen = w.gen /\ w'.orig = w.orig /\ w'.want = w.want /\ w'.staged = w.staged
                 /\ w'.requeue = q
      BY <1>0, <2>2 DEF WorkType
    <2>3. CASE Remediate /\ w' = [w EXCEPT !.requeue = TRUE]
      BY <2>2, <2>3
    <2>4. CASE Remediate /\ dep' = StoreDep([dep.spec EXCEPT !.replicas = 1])
      <3>1. [dep.spec EXCEPT !.replicas = 1] \in DepSpec /\ [dep.spec EXCEPT !.replicas = 1].replicas = 1
        BY <1>0 DEF DepSpec
      <3>2. dep'.spec.replicas = 1
        BY <1>0, <2>4, <3>1, StoreDepSpec
      <3>3. PICK q \in BOOLEAN : w' = [w EXCEPT !.requeue = q]
        BY <2>4 DEF Remediate
      <3> QED BY <2>2, <2>4, <3>2, <3>3
    <2> QED BY <2>1, <2>3, <2>4 DEF Remediate
  <1>4. /\ cInst' = cInst /\ cDep' = cDep /\ Want' = Want /\ Unsafe' = Unsafe
        /\ (Passed' <=> Passed) /\ (StorageSafe' <=> StorageSafe)
    BY SameStaged DEF SameView
  <1>5. w'.requeue \/ Outcome(w.staged)'
    <2>1. w'.requeue \/ Refused'
      BY <1>2, <1>3, <1>4 DEF Refused
    <2>2. w'.staged = Unsafe'
      BY <1>2, <1>3, <1>4
    <2> QED BY <2>1, <2>2 DEF Outcome
  <1>6. w.gen = cInst.gen /\ w.orig = cInst.status /\ w.want = Want
    BY DEF Working
  <1> QED BY <1>1, <1>2, <1>3, <1>4, <1>5, <1>6 DEF Working

\* The two applies, made.
LEMMA RestApply ==
  ASSUME IInv, SameView, Working, ApplyDeployment \/ ApplyService
  PROVE  Working' /\ pc' # "idle"
  <1>0. w \in WorkType /\ dep \in DepType /\ w.want \in DepSpec /\ w.staged \in StatusType
    BY DEF IInv, TypeOK, ClusterTypeOK, WorkType
  <1>1. w.gen = cInst.gen /\ w.orig = cInst.status /\ w.want = Want
    BY DEF Working
  <1>2. /\ cInst' = cInst /\ cSpec' = cSpec /\ Want' = Want /\ Stored' = Stored /\ Applied' = Applied
        /\ (Passed' <=> Passed) /\ (StorageSafe' <=> StorageSafe)
    BY SameStaged DEF SameView
  <1>3. CASE ApplyDeployment
    <2>1. pc = "applyDep" /\ pc' = "applySvc" /\ w' = w /\ dep' = StoreDep(w.want)
      BY <1>3 DEF ApplyDeployment, applyDeployment
    <2>2. dep'.exists /\ dep'.spec = w.want
      BY <1>0, <2>1, StoreDepSpec
    <2>3. Passed /\ StorageSafe /\ w.staged = Stored
      BY <2>1 DEF Working
    <2>4. AppliedDep'
      BY <1>1, <1>2, <2>2 DEF AppliedDep
    <2> QED BY <1>1, <1>2, <2>1, <2>3, <2>4 DEF Working
  <1>4. CASE ApplyService
    <2>1. /\ pc = "applySvc" /\ pc' = "observe" /\ dep' = dep
          /\ svc' = [exists |-> TRUE, type |-> specs[w.gen].serviceType]
      BY <1>4 DEF ApplyService, applyService
    <2>2. Passed /\ StorageSafe /\ w.staged = Stored /\ AppliedDep
      BY <2>1 DEF Working
    <2> DEFINE st == [w.staged EXCEPT !.observedGeneration = w.gen]
    <2>3. w' = [w EXCEPT !.staged = st]
      BY <1>0, <1>4 DEF ApplyService, WorkType
    <2>4. st = Applied
      BY <1>1, <2>2 DEF Applied
    <2> HIDE DEF st
    <2>5. w'.gen = w.gen /\ w'.orig = w.orig /\ w'.want = w.want /\ w'.staged = st
      BY <1>0, <2>3 DEF WorkType
    <2>6. AppliedSvc'
      BY <1>1, <1>2, <2>1 DEF AppliedSvc, cSpec
    <2>7. AppliedDep'
      BY <1>2, <2>1, <2>2 DEF AppliedDep
    <2> QED BY <1>1, <1>2, <2>1, <2>2, <2>4, <2>5, <2>6, <2>7 DEF Working
  <1> QED BY <1>3, <1>4

\* A call that fails asks to come back.
LEMMA RestFails ==
  ASSUME IInv, SameView, Working, ApplyFails \/ ObserveNothing \/ ObserveFails
  PROVE  Working' /\ pc' # "idle"
  <1>0. w \in WorkType
    BY DEF IInv, TypeOK
  <1>1. pc' = "patch" /\ w'.gen = w.gen /\ w'.orig = w.orig /\ w'.want = w.want /\ w'.requeue
    <2>1. pc' = "patch"
      BY DEF ApplyFails, ObserveNothing, ObserveFails
    <2>2. ASSUME NEW st, w' = [w EXCEPT !.staged = st, !.requeue = TRUE]
          PROVE  w'.gen = w.gen /\ w'.orig = w.orig /\ w'.want = w.want /\ w'.requeue
      BY <1>0, <2>2 DEF WorkType
    <2>3. ASSUME w' = [w EXCEPT !.requeue = TRUE]
          PROVE  w'.gen = w.gen /\ w'.orig = w.orig /\ w'.want = w.want /\ w'.requeue
      BY <1>0, <2>3 DEF WorkType
    <2> QED BY <2>1, <2>2, <2>3 DEF ApplyFails, applyError, ObserveNothing, ObserveFails
  <1>2. w.gen = cInst.gen /\ w.orig = cInst.status /\ w.want = Want
    BY DEF Working
  <1>3. cInst' = cInst /\ Want' = Want
    BY SameStaged DEF SameView
  <1> QED BY <1>1, <1>2, <1>3 DEF Working

\* What is read back: ready, whatever resolveEndpoint saw, or it asks to come back.
LEMMA RestObserve ==
  ASSUME IInv, SameView, Working, Observe \/ EndpointReadFails
  PROVE  Working' /\ pc' # "idle"
  <1>0. w \in WorkType /\ cSlice \in BOOLEAN
    BY DEF IInv, TypeOK
  <1>1. PICK r \in BOOLEAN : ReadBack(r) /\ Seen(r)
    BY <1>0 DEF Observe, EndpointReadFails, Disturb, Seen
  <1>2. pc = "observe" /\ pc' = "patch" /\ dep' = dep /\ svc' = svc
    BY <1>1 DEF ReadBack, Observe, EndpointReadFails, clusterVars
  <1>3. /\ w.gen = cInst.gen /\ w.orig = cInst.status /\ w.want = Want
        /\ Passed /\ StorageSafe /\ w.staged = Applied /\ AppliedDep /\ AppliedSvc
    BY <1>2 DEF Working
  <1>4. w.want.replicas = cSpec.replicas
    BY <1>3 DEF Want
  <1>5. PICK st : st = Final(r)
    OBVIOUS
  <1> DEFINE n == cSpec.replicas
             q == n = 0 \/ ~IsReady(cDep, st, n)
  <1>6. w' = [w EXCEPT !.staged = st, !.requeue = q]
    BY <1>1, <1>3, <1>4, <1>5 DEF ReadBack, Final
  <1> HIDE DEF q
  <1>7. w'.gen = w.gen /\ w'.orig = w.orig /\ w'.want = w.want /\ w'.staged = st /\ w'.requeue = q
    BY <1>0, <1>6 DEF WorkType
  <1>8. ~q => Served(r)
    BY <1>1, <1>3, <1>5 DEF q, Served
  <1>9. w'.requeue \/ Outcome(w.staged)'
    <2>1. Served(r)' <=> Served(r)
      BY <1>2, KeepOutcome
    <2>2. Final(r)' = Final(r)
      BY SameStaged
    <2> QED BY <1>5, <1>7, <1>8, <2>1, <2>2 DEF Outcome
  <1>10. cInst' = cInst /\ Want' = Want
    BY SameStaged DEF SameView
  <1> QED BY <1>2, <1>3, <1>7, <1>9, <1>10 DEF Working

\* The patch carries every field that was staged otherwise than it was cached.
LEMMA RestPatch ==
  ASSUME IInv, SameView, Working, alive, PatchStatus
  PROVE  pc' = "idle" /\ (~timer' => Ended')
  <1>1. /\ pc = "patch" /\ pc' = "idle" /\ status' = MergePatch /\ timer' = (timer \/ w.requeue)
        /\ dep' = dep /\ svc' = svc
    BY DEF PatchStatus, patchStatus
  <1>2. /\ w.orig = cInst.status
        /\ w.requeue \/ Outcome(w.staged)
    BY <1>1 DEF Working
  <1>3. cInst' = cInst /\ (\A r \in BOOLEAN : Final(r)' = Final(r)) /\ Unsafe' = Unsafe
    BY SameStaged DEF SameView
  <1>4. (\A r \in BOOLEAN : Served(r)' <=> Served(r)) /\ (Refused' <=> Refused)
    BY <1>1, KeepOutcome
  <1>5. \A f \in Fields : MergePatch[f] = MergeField(f)
    BY DEF Fields, MergePatch
  <1>6. ASSUME NEW r \in BOOLEAN, w.staged = Final(r) PROVE Sent(Final(r))'
    BY <1>1, <1>2, <1>3, <1>5, <1>6 DEF Sent, MergeField
  <1>7. ASSUME w.staged = Unsafe PROVE Sent(Unsafe)'
    BY <1>1, <1>2, <1>3, <1>5, <1>7 DEF Sent, MergeField
  <1>8. ASSUME ~timer' PROVE ~w.requeue
    BY <1>1, <1>8
  <1> QED BY <1>1, <1>2, <1>4, <1>6, <1>7, <1>8 DEF Ended, Outcome

LEMMA RestStep ==
  ASSUME Unshared, Mapped, IInv, StorageInv, AdmittedSpecs, RestInv, [Next]_vars
  PROVE  RestInv'
  <1> SUFFICES ASSUME alive', cInst'.exists, ~queued'
               PROVE  (pc' # "idle" => Working') /\ (pc' = "idle" /\ ~timer' => Ended')
    BY DEF RestInv
  <1>1. SameView
    BY ViewStep
  <1>2. CASE Environment \/ Informers \/ TimerFires \/ UNCHANGED vars
    BY <1>1, <1>2, RestElsewhere
  <1>3. CASE \/ InstanceGone \/ PresetMissing \/ ConfigInvalid \/ ClaimMissing \/ ClaimUnsafe
             \/ StartApply \/ ReadFails
    BY <1>1, <1>3, RestBegin
  <1>4. CASE \/ RemediateNothing \/ Remediate \/ ApplyDeployment \/ ApplyService \/ ApplyFails
             \/ ObserveNothing \/ Observe \/ EndpointReadFails \/ ObserveFails \/ PatchStatus
    <2>1. pc # "idle" /\ alive' = alive /\ queued' = queued
      BY <1>4 DEF RemediateNothing, Remediate, ApplyDeployment, ApplyService, ApplyFails,
         ObserveNothing, Observe, ReadBack, EndpointReadFails, ObserveFails, PatchStatus, clusterVars
    <2>2. Working /\ alive
      BY <1>1, <2>1 DEF RestInv, SameView
    <2> QED BY <1>1, <1>4, <2>2, RestRemediate, RestApply, RestFails, RestObserve, RestPatch
  <1>5. CASE PatchFails
    BY <1>5 DEF PatchFails
  <1>6. CASE Restart
    <2>1. queued' = alive /\ alive' = alive
      BY <1>6 DEF Restart
    <2> QED BY <2>1, Zenon
  <1> QED BY <1>2, <1>3, <1>4, <1>5, <1>6 DEF Next, Reconcile, Faults

\* The caches, what is at work and what was published hang together.
THEOREM RestInvariance == Unshared /\ Mapped => (Spec => []RestInv)
  <1> SUFFICES ASSUME Unshared, Mapped PROVE Spec => []RestInv
    OBVIOUS
  <1>1. Init => RestInv
    BY ZeroTypes DEF Init, RestInv
  <1>2. IInv /\ StorageInv /\ AdmittedSpecs /\ RestInv /\ [Next]_vars => RestInv'
    BY RestStep
  <1> QED BY <1>1, <1>2, AdmittedInvariance, StorageInvariance, Invariance, PTL DEF Spec

-----------------------------------------------------------------------------
(* At rest. *)

\* When the cached status is the server's, the patch that was sent was empty.
LEMMA PatchEmpty ==
  ASSUME NEW st, Sent(st), cInst.status = status
  PROVE  /\ st.observedGeneration = status.observedGeneration /\ st.hash = status.hash
         /\ st.readyReplicas = status.readyReplicas /\ st.endpoint = status.endpoint
         /\ st.conditions = status.conditions
  <1>1. \A f \in Fields : st[f] = status[f]
    BY DEF Sent
  <1> QED BY <1>1 DEF Fields

\* A condition leaves the other fields of the status alone.
LEMMA FieldsAfter ==
  ASSUME NEW st \in StatusType, NEW t \in CondTypes, NEW s, NEW reason, NEW g
  PROVE  LET r == setVLLMCondition(st, t, s, reason, g)
         IN r.hash = st.hash /\ r.readyReplicas = st.readyReplicas /\ r.endpoint = st.endpoint
  <1> DEFINE cs == [st.conditions EXCEPT ![t] = [status |-> s, reason |-> reason, gen |-> g]]
  <1>1. setVLLMCondition(st, t, s, reason, g) = [st EXCEPT !.conditions = cs]
    BY DEF setVLLMCondition, StatusType
  <1> HIDE DEF cs
  <1>2. [st EXCEPT !.conditions = cs].hash = st.hash
    BY DEF StatusType
  <1>3. [st EXCEPT !.conditions = cs].readyReplicas = st.readyReplicas
    BY DEF StatusType
  <1>4. [st EXCEPT !.conditions = cs].endpoint = st.endpoint
    BY DEF StatusType
  <1> QED BY <1>1, <1>2, <1>3, <1>4

\* Mirroring the Deployment keeps the hash.
LEMMA MirrorHash ==
  ASSUME NEW st \in StatusType, NEW d \in DepType, NEW g \in Nat
  PROVE  Mirror(st, d, g).hash = st.hash
  <1> DEFINE counted == IF d.seen THEN [st EXCEPT !.readyReplicas = d.ready] ELSE st
  <1>1. counted \in StatusType /\ counted.hash = st.hash
    <2>1. d.ready \in Nat
      BY DEF DepType
    <2>2. [st EXCEPT !.readyReplicas = d.ready] \in StatusType
      BY <2>1 DEF StatusType
    <2>3. [st EXCEPT !.readyReplicas = d.ready].hash = st.hash
      BY DEF StatusType
    <2> QED BY <2>2, <2>3
  <1>2. Mirror(st, d, g) = IF d.avail = "Unknown" THEN counted
                           ELSE setVLLMCondition(counted, "DeploymentAvailable", d.avail, "Mirrored", g)
    BY DEF Mirror
  <1> HIDE DEF counted
  <1>3. setVLLMCondition(counted, "DeploymentAvailable", d.avail, "Mirrored", g).hash = counted.hash
    BY <1>1, FieldsAfter, "DeploymentAvailable" \in CondTypes DEF CondTypes
  <1> QED BY <1>1, <1>2, <1>3

\* What Reconcile reports of an applied spec whose Deployment serves.
LEMMA ReportReady ==
  ASSUME NEW st \in StatusType, NEW d \in DepType, NEW s \in SvcType, NEW r \in BOOLEAN,
         NEW n \in Nat \ {0}, NEW g \in Nat, IsReady(d, Report(st, d, s, r, n, g), n)
  PROVE  LET final == Report(st, d, s, r, n, g)
         IN /\ final.conditions["Ready"] = [status |-> "True", reason |-> "AllReady", gen |-> g]
            /\ final.hash = st.hash /\ final.observedGeneration = st.observedGeneration
            /\ final.readyReplicas >= n
            /\ final.endpoint = resolveServiceEndpoint(s.type, r)
  <1> DEFINE m == Mirror(st, d, g)
             a == resolveServiceEndpoint(s.type, r)
             final == Report(st, d, s, r, n, g)
  <1>1. PICK e : e = [m EXCEPT !.endpoint = a]
    OBVIOUS
  <1>2. final = IF IsReady(d, e, n) THEN setVLLMCondition(e, "Ready", "True", "AllReady", g)
                ELSE setVLLMCondition(e, "Ready", "False", "NotReady", g)
    BY <1>1 DEF Report, setReadyFalse
  <1>3. m \in StatusType /\ m.hash = st.hash
    BY MirrorSpec, MirrorHash
  <1>4. final.observedGeneration = st.observedGeneration
    BY ReportType
  <1>5. a \in {"", "dns", "node"}
    BY DEF resolveServiceEndpoint
  <1>6. "Ready" \in CondTypes
    BY DEF CondTypes
  <1> HIDE DEF m, a, final
  <1>7. e \in StatusType
    BY <1>1, <1>3, <1>5 DEF StatusType
  <1>8. e.hash = m.hash
    BY <1>1, <1>3 DEF StatusType
  <1>9. e.endpoint = a
    BY <1>1, <1>3 DEF StatusType
  <1>10. ASSUME NEW v, NEW reason
         PROVE  LET x == setVLLMCondition(e, "Ready", v, reason, g)
                IN x.hash = e.hash /\ x.readyReplicas = e.readyReplicas /\ x.endpoint = e.endpoint
    BY <1>6, <1>7, FieldsAfter
  <1>11. final.readyReplicas = e.readyReplicas /\ final.hash = e.hash /\ final.endpoint = e.endpoint
    BY <1>2, <1>10
  <1>12. IsReady(d, e, n) /\ final.readyReplicas >= n
    BY <1>11 DEF IsReady, final
  <1>13. final.conditions["Ready"] = [status |-> "True", reason |-> "AllReady", gen |-> g]
    <2>1. final = setVLLMCondition(e, "Ready", "True", "AllReady", g)
      BY <1>2, <1>12
    <2>2. setVLLMCondition(e, "Ready", "True", "AllReady", g).conditions["Ready"] =
            [status |-> "True", reason |-> "AllReady", gen |-> g]
      BY <1>6, <1>7, ConditionsAfter
    <2> QED BY <2>1, <2>2
  <1> QED BY <1>3, <1>4, <1>8, <1>9, <1>11, <1>12, <1>13 DEF a, final

\* The cached objects are those of the server.
LEMMA RestView ==
  ASSUME IInv, StorageInv, alive, AtRest
  PROVE  /\ cInst.exists /\ cInst.gen = Len(specs) /\ cInst.status = status
         /\ cSpec = Wanted /\ cEffective = WantedConfig
         /\ Passed <=> WantedPreset /\ WantedValid
         /\ StorageSafe <=> WantedStorage
  <1>1. cInst = [exists |-> TRUE, gen |-> Len(specs), status |-> status] /\ cPreset = preset
    BY DEF AtRest, Instance
  <1>2. cInst.exists /\ cInst.gen = Len(specs) /\ cInst.status = status
    BY <1>1
  <1>3. cSpec = Wanted
    BY <1>2 DEF cSpec, Wanted
  <1>4. cEffective = WantedConfig
    BY <1>1, <1>3 DEF cEffective, WantedConfig
  <1>5. Passed <=> WantedPreset /\ WantedValid
    BY <1>1, <1>3, <1>4 DEF Passed, PresetFound, ConfigValid, WantedPreset, WantedValid
  <1>6. StorageSafe <=> WantedStorage
    BY <1>3, <1>4 DEF StorageSafe, WantedStorage, validateReplicaStorage, StorageInv
  <1> QED BY <1>2, <1>3, <1>4, <1>5, <1>6

\* What was staged once both applies were made.
LEMMA AppliedSpec ==
  ASSUME IInv, cInst.exists
  PROVE  Applied \in StatusType /\ Applied.observedGeneration = cInst.gen /\ Applied.hash = cEffective
  <1>1. cInst.gen \in Nat /\ cInst.status \in StatusType /\ cEffective \in Effective /\ Resolved \in StatusType
        /\ Stored \in StatusType
    BY LoadedType
  <1>2. {"PresetResolved", "StorageReady"} \subseteq CondTypes
    BY DEF CondTypes
  <1>3. Resolved.hash = cEffective
    <2>1. PICK st : st = setVLLMCondition(cInst.status, "PresetResolved", "True",
                           IF cSpec.presetRef THEN "PresetFound" ELSE "OverridesUsed", cInst.gen)
      OBVIOUS
    <2>2. Resolved = [st EXCEPT !.hash = cEffective]
      BY <2>1 DEF Resolved
    <2>3. st \in StatusType
      BY <1>1, <1>2, <2>1, SetCondition DEF Reasons
    <2> QED BY <2>2, <2>3 DEF StatusType
  <1>4. Stored.hash = Resolved.hash
    BY <1>1, <1>2, FieldsAfter DEF Stored
  <1>5. PICK st : st = Stored
    OBVIOUS
  <1>6. Applied = [st EXCEPT !.observedGeneration = cInst.gen] /\ st \in StatusType
    BY <1>1, <1>5 DEF Applied
  <1>7. Applied \in StatusType
    BY <1>1, <1>6 DEF StatusType
  <1>8. Applied.observedGeneration = cInst.gen
    BY <1>6 DEF StatusType
  <1>9. Applied.hash = st.hash
    BY <1>6 DEF StatusType
  <1> QED BY <1>3, <1>4, <1>5, <1>7, <1>8, <1>9

\* What is staged when the volume is refused.
LEMMA UnsafeSpec ==
  ASSUME IInv, cInst.exists
  PROVE  Unsafe.conditions["Ready"] = [status |-> "False", reason |-> "ReplicaStorageUnsafe", gen |-> cInst.gen]
  <1>1. PICK st : st = setVLLMCondition(Stored, "StorageReady", "False", "ReplicaStorageUnsafe", cInst.gen)
    OBVIOUS
  <1>2. st \in StatusType
    <2>1. Stored \in StatusType /\ cInst.gen \in Nat
      BY LoadedType
    <2>2. "StorageReady" \in CondTypes /\ "ReplicaStorageUnsafe" \in Reasons
      BY DEF CondTypes, Reasons
    <2> QED BY <1>1, <2>1, <2>2, SetCondition
  <1>3. Unsafe = setVLLMCondition(st, "Ready", "False", "ReplicaStorageUnsafe", cInst.gen)
    BY <1>1 DEF Unsafe, setReadyFalse
  <1>4. "Ready" \in CondTypes
    BY DEF CondTypes
  <1> QED BY <1>2, <1>3, <1>4, ConditionsAfter

\* An instance that nothing will bring the operator back to is served as its spec
\* and preset ask and says so, or is refused for its volume, says that, and runs at
\* most one pod: no exit of Reconcile, no failed call, no restart and no event that
\* was consumed on a stale cache strands it in between, as long as nobody else
\* writes to its Deployment or Service and mapPresetToInstances drops no event.
\* Only its endpoint may be missing, when resolveEndpoint swallowed an error.
THEOREM RestTruthful == Unshared /\ Mapped => (Spec => []RestIsTruthful)
  <1>1. ASSUME IInv, StorageInv, RestInv, alive, AtRest
        PROVE  /\ WantedPreset /\ WantedValid
               /\ IF WantedStorage
                  THEN /\ Wanted.replicas > 0
                       /\ dep.exists /\ dep.spec = [template |-> WantedConfig, replicas |-> Wanted.replicas]
                       /\ svc = [exists |-> TRUE, type |-> Wanted.serviceType]
                       /\ status.observedGeneration = Len(specs)
                       /\ status.hash = WantedConfig
                       /\ status.conditions["Ready"] = [status |-> "True", reason |-> "AllReady", gen |-> Len(specs)]
                       /\ status.readyReplicas >= Wanted.replicas
                       /\ \/ status.endpoint = resolveServiceEndpoint(Wanted.serviceType, SliceReady)
                          \/ EndpointUnread /\ status.endpoint = ""
                  ELSE /\ status.conditions["Ready"] =
                             [status |-> "False", reason |-> "ReplicaStorageUnsafe", gen |-> Len(specs)]
                       /\ dep.exists => dep.spec.replicas <= 1
    <2>1. /\ cInst.exists /\ cInst.gen = Len(specs) /\ cInst.status = status
          /\ cSpec = Wanted /\ cEffective = WantedConfig
          /\ Passed <=> WantedPreset /\ WantedValid
          /\ StorageSafe <=> WantedStorage
      BY <1>1, RestView
    <2>2. pc = "idle" /\ ~queued /\ ~timer /\ cDep = dep /\ cSvc = svc /\ cSlice = SliceReady
      BY <1>1 DEF AtRest
    <2>3. Ended
      BY <1>1, <2>1, <2>2 DEF RestInv
    <2>4. /\ cDep \in DepType /\ cSvc \in SvcType /\ cSlice \in BOOLEAN /\ cInst.gen \in Nat
          /\ cSpec.replicas \in Nat /\ dep.spec.replicas \in Nat
      BY <1>1, <2>1, LoadedType DEF IInv, TypeOK, ClusterTypeOK, DepType, DepSpec
    <2>5. ASSUME NEW r \in BOOLEAN, Served(r), Sent(Final(r))
          PROVE  /\ Passed /\ StorageSafe
                 /\ Wanted.replicas > 0
                 /\ dep.exists /\ dep.spec = [template |-> WantedConfig, replicas |-> Wanted.replicas]
                 /\ svc = [exists |-> TRUE, type |-> Wanted.serviceType]
                 /\ status.observedGeneration = Len(specs)
                 /\ status.hash = WantedConfig
                 /\ status.conditions["Ready"] = [status |-> "True", reason |-> "AllReady", gen |-> Len(specs)]
                 /\ status.readyReplicas >= Wanted.replicas
                 /\ \/ status.endpoint = resolveServiceEndpoint(Wanted.serviceType, SliceReady)
                    \/ EndpointUnread /\ status.endpoint = ""
      <3>1. /\ Passed /\ StorageSafe /\ AppliedDep /\ AppliedSvc /\ Seen(r)
            /\ cSpec.replicas # 0 /\ IsReady(cDep, Final(r), cSpec.replicas)
        BY <2>5 DEF Served
      <3>2. Applied \in StatusType /\ Applied.observedGeneration = cInst.gen /\ Applied.hash = cEffective
        BY <1>1, <2>1, AppliedSpec
      <3>3. PICK st, final : st = Applied /\ final = Final(r)
        OBVIOUS
      <3>4. final = Report(st, cDep, cSvc, r, cSpec.replicas, cInst.gen)
        BY <3>3 DEF Final
      <3>5. /\ final.conditions["Ready"] = [status |-> "True", reason |-> "AllReady", gen |-> cInst.gen]
            /\ final.hash = st.hash /\ final.observedGeneration = st.observedGeneration
            /\ final.readyReplicas >= cSpec.replicas
            /\ final.endpoint = resolveServiceEndpoint(cSvc.type, r)
        BY <2>4, <3>1, <3>2, <3>3, <3>4, ReportReady
      <3>6. /\ final.observedGeneration = status.observedGeneration /\ final.hash = status.hash
            /\ final.readyReplicas = status.readyReplicas /\ final.endpoint = status.endpoint
            /\ final.conditions = status.conditions
        BY <2>1, <2>5, <3>3, PatchEmpty
      <3>7. dep.exists /\ dep.spec = [template |-> WantedConfig, replicas |-> Wanted.replicas]
        BY <2>1, <3>1 DEF AppliedDep, Want
      <3>8. svc = [exists |-> TRUE, type |-> Wanted.serviceType] /\ svc.type = Wanted.serviceType
        BY <2>1, <3>1 DEF AppliedSvc
      <3>9. Wanted.replicas > 0
        BY <2>1, <2>4, <3>1
      <3>10. status.observedGeneration = Len(specs) /\ status.hash = WantedConfig
        BY <2>1, <3>2, <3>3, <3>5, <3>6
      <3>11. /\ status.conditions["Ready"] = [status |-> "True", reason |-> "AllReady", gen |-> Len(specs)]
             /\ status.readyReplicas >= Wanted.replicas
        BY <2>1, <3>5, <3>6
      <3>12. \/ status.endpoint = resolveServiceEndpoint(Wanted.serviceType, SliceReady)
             \/ EndpointUnread /\ status.endpoint = ""
        <4>1. cSvc.type = Wanted.serviceType /\ status.endpoint = resolveServiceEndpoint(Wanted.serviceType, r)
          BY <2>2, <3>5, <3>6, <3>8
        <4>2. CASE r = cSlice
          BY <2>2, <4>1, <4>2
        <4>3. CASE "fault" \in Disturbances /\ cSvc.type = "NodePort" /\ r = FALSE
          BY <4>1, <4>3 DEF EndpointUnread, resolveServiceEndpoint
        <4> QED BY <3>1, <4>2, <4>3 DEF Seen
      <3> QED BY <3>1, <3>7, <3>8, <3>9, <3>10, <3>11, <3>12
    <2>6. CASE Refused /\ Sent(Unsafe)
      <3>1. Passed /\ ~StorageSafe
        BY <2>6 DEF Refused
      <3>2. dep.exists => dep.spec.replicas <= 1
        BY <2>2, <2>4, <2>6 DEF Refused
      <3>3. Unsafe.conditions = status.conditions
        BY <2>1, <2>6, PatchEmpty
      <3>4. status.conditions["Ready"] =
              [status |-> "False", reason |-> "ReplicaStorageUnsafe", gen |-> Len(specs)]
        BY <1>1, <2>1, <3>3, UnsafeSpec
      <3> QED BY <2>1, <3>1, <3>2, <3>4
    <2>7. CASE \E r \in BOOLEAN : Served(r) /\ Sent(Final(r))
      BY <2>1, <2>5, <2>7
    <2> QED BY <2>3, <2>6, <2>7 DEF Ended
  <1>2. IInv /\ StorageInv /\ RestInv => RestIsTruthful
    BY <1>1 DEF RestIsTruthful
  <1> SUFFICES ASSUME Unshared, Mapped PROVE Spec => []RestIsTruthful
    OBVIOUS
  <1>3. Spec => []RestInv
    BY RestInvariance
  <1> QED BY <1>2, <1>3, StorageInvariance, Invariance, PTL
=============================================================================
