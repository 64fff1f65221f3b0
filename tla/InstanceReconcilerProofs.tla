---------------------- MODULE InstanceReconcilerProofs ----------------------
(***************************************************************************)
(* What VLLMInstanceReconciler publishes and applies never runs backwards, *)
(* for every set of specs, configurations and access modes and any number  *)
(* of edits, faults and restarts.                                          *)
(***************************************************************************)
EXTENDS InstanceReconciler, TLAPS

-----------------------------------------------------------------------------
(* The operators the actions are built from. *)

\* The zero values have their types.
LEMMA ZeroTypes ==
  /\ NoEffective \in Effective
  /\ NoStatus \in StatusType /\ NoStatus.observedGeneration = 0
  /\ NoDepSpec \in DepSpec
  /\ NoDep \in DepType
  /\ NoSvc \in SvcType
  /\ NoPods \in PodsType
  /\ NoInst \in InstType /\ ~NoInst.exists
  /\ NoWork \in WorkType
  <1>1. NoEffective \in Effective
    BY DEF NoEffective, Effective
  <1>2. NoCondition \in Condition
    BY DEF NoCondition, Condition, Reasons
  <1>3. NoStatus \in StatusType /\ NoStatus.observedGeneration = 0
    BY <1>1, <1>2 DEF NoStatus, StatusType
  <1>4. NoDepSpec \in DepSpec
    BY <1>1 DEF NoDepSpec, DepSpec
  <1>5. NoDep \in DepType
    BY <1>4 DEF NoDep, DepType
  <1>6. NoSvc \in SvcType
    BY DEF NoSvc, SvcType, ServiceTypes
  <1>7. NoPods \in PodsType
    BY <1>1 DEF NoPods, PodsType
  <1>8. NoInst \in InstType /\ ~NoInst.exists
    BY <1>3 DEF NoInst, InstType
  <1>9. NoWork \in WorkType
    BY <1>3, <1>4 DEF NoWork, WorkType
  <1> QED BY <1>1, <1>3, <1>4, <1>5, <1>6, <1>7, <1>8, <1>9

\* The API server stores a Deployment.
LEMMA StoreDepType ==
  ASSUME dep \in DepType, NEW sp \in DepSpec
  PROVE  StoreDep(sp) \in DepType
  <1>1. CASE dep.exists
    <2>1. (dep.seen /\ dep.spec = sp) \in BOOLEAN
      OBVIOUS
    <2> DEFINE s == dep.seen /\ dep.spec = sp
    <2>2. StoreDep(sp) = [dep EXCEPT !.spec = sp, !.seen = s]
      BY <1>1 DEF StoreDep
    <2>3. s \in BOOLEAN
      OBVIOUS
    <2> HIDE DEF s
    <2>4. [dep EXCEPT !.spec = sp, !.seen = s] \in DepType
      BY <2>3 DEF DepType
    <2> QED BY <2>2, <2>4
  <1>2. CASE ~dep.exists
    <2>1. [NoDep EXCEPT !.exists = TRUE, !.spec = sp] \in DepType
      BY ZeroTypes DEF DepType
    <2> QED BY <1>2, <2>1 DEF StoreDep
  <1> QED BY <1>1, <1>2

\* setVLLMCondition changes one condition and nothing else.
LEMMA SetCondition ==
  ASSUME NEW st \in StatusType, NEW t \in CondTypes, NEW s \in {"Unknown", "True", "False"},
         NEW reason \in Reasons, NEW g \in Nat
  PROVE  /\ setVLLMCondition(st, t, s, reason, g) \in StatusType
         /\ setVLLMCondition(st, t, s, reason, g).observedGeneration = st.observedGeneration
  <1> DEFINE c == [status |-> s, reason |-> reason, gen |-> g]
             cs == [st.conditions EXCEPT ![t] = c]
  <1>1. c \in Condition
    BY DEF Condition
  <1> HIDE DEF c
  <1>2. cs \in [CondTypes -> Condition]
    BY <1>1 DEF StatusType
  <1>3. setVLLMCondition(st, t, s, reason, g) = [st EXCEPT !.conditions = cs]
    BY DEF setVLLMCondition, StatusType, c
  <1> HIDE DEF cs
  <1>4. [st EXCEPT !.conditions = cs] \in StatusType
    BY <1>2 DEF StatusType
  <1>5. [st EXCEPT !.conditions = cs].observedGeneration = st.observedGeneration
    BY DEF StatusType
  <1> QED BY <1>3, <1>4, <1>5

\* So does setReadyFalse.
LEMMA ReadyFalse ==
  ASSUME NEW st \in StatusType, NEW reason \in Reasons, NEW g \in Nat
  PROVE  /\ setReadyFalse(st, reason, g) \in StatusType
         /\ setReadyFalse(st, reason, g).observedGeneration = st.observedGeneration
  BY SetCondition, "Ready" \in CondTypes DEF setReadyFalse, CondTypes

\* vllm.Resolve gives an effective configuration.
LEMMA ResolveType ==
  ASSUME NEW p \in Confs \cup {"absent"}, NEW sp \in SpecType
  PROVE  Resolve(p, sp) \in Effective
  <1>1. sp.conf \in Confs \cup {"unset"}
    BY DEF SpecType
  <1>2. (IF sp.overridesReadOnly # "unset" THEN sp.overridesReadOnly = "true"
                                           ELSE sp.pvcReadOnly = "true") \in BOOLEAN
    OBVIOUS
  <1> QED BY <1>1, <1>2 DEF Resolve, Effective

\* The CR as the server returns it.
LEMMA InstanceTyped ==
  ASSUME ClusterTypeOK
  PROVE  /\ Instance \in InstType
         /\ Instance.exists => alive /\ Instance.gen = Len(specs)
  <1>1. Len(specs) \in Nat
    BY DEF ClusterTypeOK
  <1>2. CASE alive
    BY <1>1, <1>2 DEF Instance, InstType, ClusterTypeOK
  <1>3. CASE ~alive
    BY <1>3, ZeroTypes DEF Instance
  <1> QED BY <1>2, <1>3

\* What the Deployment, its Service and the EndpointSlices say of the CR: its
\* observedGeneration is no part of it.
LEMMA ReportType ==
  ASSUME NEW st \in StatusType, NEW d \in DepType, NEW s \in SvcType, NEW r \in BOOLEAN,
         NEW n \in Nat, NEW g \in Nat
  PROVE  /\ Report(st, d, s, r, n, g) \in StatusType
         /\ Report(st, d, s, r, n, g).observedGeneration = st.observedGeneration
  <1> DEFINE m == Mirror(st, d, g)
  <1>1. m \in StatusType /\ m.observedGeneration = st.observedGeneration
    <2> DEFINE counted == IF d.seen THEN [st EXCEPT !.readyReplicas = d.ready] ELSE st
    <2>1. counted \in StatusType /\ counted.observedGeneration = st.observedGeneration
      <3>1. d.ready \in Nat
        BY DEF DepType
      <3>2. [st EXCEPT !.readyReplicas = d.ready] \in StatusType
        BY <3>1 DEF StatusType
      <3>3. [st EXCEPT !.readyReplicas = d.ready].observedGeneration = st.observedGeneration
        BY DEF StatusType
      <3> QED BY <3>2, <3>3
    <2>2. m = IF d.avail = "Unknown" THEN counted
              ELSE setVLLMCondition(counted, "DeploymentAvailable", d.avail, "Mirrored", g)
      BY DEF Mirror
    <2> HIDE DEF counted, m
    <2>3. d.avail \in {"Unknown", "True", "False"} /\ "DeploymentAvailable" \in CondTypes
          /\ "Mirrored" \in Reasons
      BY DEF DepType, CondTypes, Reasons
    <2> QED BY <2>1, <2>2, <2>3, SetCondition
  <1> DEFINE z == setReadyFalse(m, "ScaledToZero", g)
             e == [m EXCEPT !.endpoint = resolveServiceEndpoint(s.type, r)]
  <1>2. Report(st, d, s, r, n, g) =
          IF n = 0 THEN [z EXCEPT !.endpoint = ""]
          ELSE IF IsReady(d, e, n) THEN setVLLMCondition(e, "Ready", "True", "AllReady", g)
               ELSE setReadyFalse(e, "NotReady", g)
    BY DEF Report
  <1> HIDE DEF m
  <1>3. {"ScaledToZero", "AllReady", "NotReady"} \subseteq Reasons /\ "Ready" \in CondTypes
    BY DEF Reasons, CondTypes
  <1>4. z \in StatusType /\ z.observedGeneration = st.observedGeneration
    BY <1>1, <1>3, ReadyFalse
  <1>5. e \in StatusType /\ e.observedGeneration = st.observedGeneration
    <2>1. resolveServiceEndpoint(s.type, r) \in {"", "dns", "node"}
      BY DEF resolveServiceEndpoint
    <2>2. e \in StatusType
      BY <1>1, <2>1 DEF StatusType
    <2>3. e.observedGeneration = m.observedGeneration
      BY <1>1 DEF StatusType
    <2> QED BY <1>1, <2>2, <2>3
  <1> HIDE DEF z, e
  <1>6. [z EXCEPT !.endpoint = ""] \in StatusType
    BY <1>4 DEF StatusType
  <1>7. [z EXCEPT !.endpoint = ""].observedGeneration = z.observedGeneration
    BY <1>4 DEF StatusType
  <1>8. /\ setVLLMCondition(e, "Ready", "True", "AllReady", g) \in StatusType
        /\ setVLLMCondition(e, "Ready", "True", "AllReady", g).observedGeneration = st.observedGeneration
    BY <1>3, <1>5, SetCondition
  <1>9. /\ setReadyFalse(e, "NotReady", g) \in StatusType
        /\ setReadyFalse(e, "NotReady", g).observedGeneration = st.observedGeneration
    BY <1>3, <1>5, ReadyFalse
  <1> QED BY <1>2, <1>4, <1>6, <1>7, <1>8, <1>9

\* The merge patch: observedGeneration is the staged one or stays.
LEMMA MergePatchType ==
  ASSUME status \in StatusType, w \in WorkType
  PROVE  /\ MergePatch \in StatusType
         /\ MergePatch.observedGeneration =
              IF w.staged.observedGeneration # w.orig.observedGeneration
              THEN w.staged.observedGeneration ELSE status.observedGeneration
  <1>1. w.staged \in StatusType /\ w.orig \in StatusType
    BY DEF WorkType
  <1>2. /\ MergeField("observedGeneration") \in Nat
        /\ MergeField("hash") \in Effective
        /\ MergeField("readyReplicas") \in Nat
        /\ MergeField("endpoint") \in {"", "dns", "node"}
        /\ MergeField("conditions") \in [CondTypes -> Condition]
    BY <1>1 DEF MergeField, StatusType
  <1>3. MergePatch \in StatusType
    BY <1>2 DEF MergePatch, StatusType
  <1>4. MergePatch.observedGeneration = MergeField("observedGeneration")
    BY DEF MergePatch
  <1> QED BY <1>3, <1>4 DEF MergeField

-----------------------------------------------------------------------------
(* Everybody but the operator: the generation grows, the status stays. *)

\* A step of the users, of Kubernetes or of a failing pod.
LEMMA ClusterStep ==
  ASSUME ClusterTypeOK, User \/ Kubernetes \/ PodFails
  PROVE  ClusterTypeOK' /\ Len(specs') \in Nat /\ Len(specs') >= Len(specs) /\ status' = status
  <1> USE DEF Disturb
  <1>0. Len(specs) \in Nat /\ budget \in Nat /\ (budget > 0 => budget - 1 \in Nat)
    BY DEF ClusterTypeOK
  <1>1. CASE EditSpec
    <2>1. PICK sp \in Specs : specs' = Append(specs, sp)
      BY <1>1 DEF EditSpec
    <2>2. sp \in SpecType
      BY SpecsAssumption
    <2>3. specs' \in Seq(SpecType) /\ Len(specs') = Len(specs) + 1
      BY <2>1, <2>2 DEF ClusterTypeOK
    <2> QED BY <1>0, <1>1, <2>3 DEF EditSpec, ClusterTypeOK
  <1>2. CASE DeleteInstance
    <2>1. alive' \in BOOLEAN
      BY <1>2 DEF DeleteInstance
    <2>2. budget' \in Nat /\ UNCHANGED <<specs, status, preset, claim, dep, svc, pods>>
      BY <1>0, <1>2 DEF DeleteInstance
    <2> QED BY <1>0, <2>1, <2>2 DEF ClusterTypeOK
  <1>3. CASE EditPreset
    BY <1>0, <1>3, PresetsAssumption DEF EditPreset, ClusterTypeOK
  <1>4. CASE ToggleClaim
    <2>1. [claim EXCEPT !.exists = ~claim.exists] \in ClaimType
      BY DEF ClusterTypeOK, ClaimType
    <2> QED BY <1>0, <1>4, <2>1 DEF ToggleClaim, ClusterTypeOK
  <1>5. CASE ScaleDeployment
    <2>1. PICK n \in (0..MaxScale) \ {dep.spec.replicas} :
            dep' = StoreDep([dep.spec EXCEPT !.replicas = n])
      BY <1>5 DEF ScaleDeployment
    <2>2. n \in Nat /\ dep.spec \in DepSpec
      BY DisturbAssumption DEF ClusterTypeOK, DepType
    <2>3. [dep.spec EXCEPT !.replicas = n] \in DepSpec
      BY <2>2 DEF DepSpec
    <2>4. dep' \in DepType
      BY <2>1, <2>3, StoreDepType DEF ClusterTypeOK
    <2> QED BY <1>0, <1>5, <2>4 DEF ScaleDeployment, ClusterTypeOK
  <1>6. CASE RemoveWorkload
    BY <1>0, <1>6, ZeroTypes DEF RemoveWorkload, ClusterTypeOK
  <1>7. CASE Rollout
    <2>1. pods' \in PodsType
      BY <1>7, ZeroTypes DEF Rollout, ClusterTypeOK, PodsType, DepType, DepSpec
    <2> QED BY <1>0, <1>7, <2>1 DEF Rollout, ClusterTypeOK
  <1>8. CASE PodBecomesReady
    <2>1. pods' \in PodsType
      BY <1>8 DEF PodBecomesReady, ClusterTypeOK, PodsType
    <2> QED BY <1>0, <1>8, <2>1 DEF PodBecomesReady, ClusterTypeOK
  <1>9. CASE PodFails
    <2>1. pods' \in PodsType
      BY <1>9 DEF PodFails, ClusterTypeOK, PodsType
    <2> QED BY <1>0, <1>9, <2>1 DEF PodFails, ClusterTypeOK
  <1>10. CASE ReportDeployment
    <2> DEFINE a == IF pods.ready >= dep.spec.replicas THEN "True" ELSE "False"
    <2>1. pods.ready \in Nat /\ a \in {"Unknown", "True", "False"}
      BY DEF ClusterTypeOK, PodsType
    <2>2. dep' = [dep EXCEPT !.seen = TRUE, !.ready = pods.ready, !.avail = a]
      BY <1>10 DEF ReportDeployment
    <2> HIDE DEF a
    <2>3. [dep EXCEPT !.seen = TRUE, !.ready = pods.ready, !.avail = a] \in DepType
      BY <2>1 DEF ClusterTypeOK, DepType
    <2> QED BY <1>0, <1>10, <2>2, <2>3 DEF ReportDeployment, ClusterTypeOK
  <1>11. CASE CollectGarbage
    BY <1>0, <1>11, ZeroTypes DEF CollectGarbage, ClusterTypeOK
  <1> QED BY <1>1, <1>2, <1>3, <1>4, <1>5, <1>6, <1>7, <1>8, <1>9, <1>10, <1>11 DEF User, Kubernetes

\* The invariant survives everybody else: the cached and the worked-on
\* generation stay within a history that only grows.
LEMMA EnvironmentIInv == IInv /\ Environment => IInv'
  <1> SUFFICES ASSUME IInv, Environment PROVE IInv'
    OBVIOUS
  <1>1. ClusterTypeOK' /\ Len(specs') \in Nat /\ Len(specs') >= Len(specs) /\ status' = status
    BY ClusterStep DEF IInv, TypeOK, Environment
  <1>2. UNCHANGED <<cInst, cPreset, cClaim, cDep, cSvc, cSlice, queued, timer, pc, w, depFrom, svcFrom>>
    BY DEF Environment, opVars, cacheVars, workVars
  <1>3. TypeOK'
    BY <1>1, <1>2 DEF IInv, TypeOK
  <1>4. Generations'
    <2>1. Len(specs) \in Nat /\ depFrom \in Nat /\ svcFrom \in Nat
          /\ cInst.gen \in Nat /\ w.gen \in Nat
      BY DEF IInv, TypeOK, ClusterTypeOK, InstType, WorkType
    <2> QED BY <1>1, <1>2, <2>1 DEF IInv, Generations
  <1>5. Staged' /\ ObservedMeansApplied'
    BY <1>1, <1>2 DEF IInv, Staged, ObservedMeansApplied
  <1> QED BY <1>3, <1>4, <1>5 DEF IInv

-----------------------------------------------------------------------------
(* The caches. *)

\* A cache update or a timer: the cached CR is the server's of some moment.
LEMMA InformersIInv == IInv /\ (Informers \/ TimerFires) => IInv'
  <1> SUFFICES ASSUME IInv, Informers \/ TimerFires PROVE IInv'
    OBVIOUS
  <1>0. UNCHANGED <<specs, alive, status, preset, claim, dep, svc, pods, budget, pc, w, depFrom, svcFrom>>
    BY DEF Informers, SyncInstance, SyncDeployment, SyncService, SyncPreset, PresetEventLost, SyncSlice, SyncClaim,
           TimerFires, clusterVars, workVars
  <1>1. ClusterTypeOK'
    BY <1>0 DEF IInv, TypeOK, ClusterTypeOK
  <1>2. /\ cInst' = cInst \/ cInst' = Instance
        /\ cPreset' \in {cPreset, preset}
        /\ cClaim' \in {cClaim, claim}
        /\ cDep' \in {cDep, dep}
        /\ cSvc' \in {cSvc, svc}
        /\ cSlice' \in BOOLEAN
        /\ queued' \in BOOLEAN
        /\ timer' \in BOOLEAN
    <2>0. cSlice \in BOOLEAN /\ queued \in BOOLEAN /\ timer \in BOOLEAN
      BY DEF IInv, TypeOK
    <2>1. SliceReady \in BOOLEAN /\ (queued \/ mapPresetToInstances) \in BOOLEAN
          /\ (queued \/ mapEndpointSliceToInstance) \in BOOLEAN
      BY DEF SliceReady
    <2> QED BY <2>0, <2>1 DEF Informers, SyncInstance, SyncDeployment, SyncService, SyncPreset, PresetEventLost,
              SyncSlice, SyncClaim, TimerFires, cacheVars
  <1>3. Instance \in InstType /\ (Instance.exists => Instance.gen = Len(specs))
    BY InstanceTyped DEF IInv, TypeOK
  <1>4. TypeOK'
    BY <1>0, <1>1, <1>2, <1>3 DEF IInv, TypeOK, ClusterTypeOK
  <1>5. Generations'
    <2>1. Len(specs) \in Nat /\ Len(specs) > 0 /\ depFrom \in Nat /\ svcFrom \in Nat /\ w.gen \in Nat
      BY DEF IInv, TypeOK, ClusterTypeOK, WorkType
    <2> QED BY <1>0, <1>2, <1>3, <2>1 DEF IInv, Generations
  <1>6. Staged' /\ ObservedMeansApplied'
    BY <1>0 DEF IInv, Staged, ObservedMeansApplied
  <1> QED BY <1>4, <1>5, <1>6 DEF IInv

-----------------------------------------------------------------------------
(* Reconcile. *)

\* What is staged before the first API call keeps the cached observedGeneration.
LEMMA LoadedType ==
  ASSUME IInv, cInst.exists
  PROVE  /\ cInst.gen \in Nat /\ cInst.status \in StatusType
         /\ cEffective \in Effective /\ cSpec.replicas \in Nat
         /\ Resolved \in StatusType
         /\ Resolved.observedGeneration = cInst.status.observedGeneration
         /\ Stored \in StatusType
         /\ Stored.observedGeneration = cInst.status.observedGeneration
  <1>1. cInst.gen \in Nat /\ cInst.status \in StatusType
    BY DEF IInv, TypeOK, InstType
  <1>2. cSpec \in SpecType
    BY DEF IInv, TypeOK, ClusterTypeOK, Generations, cSpec
  <1>3. cEffective \in Effective
    BY <1>2, ResolveType DEF IInv, TypeOK, cEffective
  <1>4. cSpec.replicas \in Nat
    BY <1>2 DEF SpecType
  <1>5. {"PresetResolved", "StorageReady"} \subseteq CondTypes
        /\ {"PresetFound", "OverridesUsed", "PVCFound"} \subseteq Reasons
    BY DEF CondTypes, Reasons
  <1> DEFINE reason == IF cSpec.presetRef THEN "PresetFound" ELSE "OverridesUsed"
             st == setVLLMCondition(cInst.status, "PresetResolved", "True", reason, cInst.gen)
  <1>6. reason \in Reasons
    BY <1>5
  <1>7. Resolved = [st EXCEPT !.hash = cEffective]
    BY DEF Resolved
  <1> HIDE DEF reason
  <1>8. st \in StatusType /\ st.observedGeneration = cInst.status.observedGeneration
    <2>1. "PresetResolved" \in CondTypes /\ "True" \in {"Unknown", "True", "False"}
      BY <1>5
    <2>2. \A r \in Reasons :
            LET c == setVLLMCondition(cInst.status, "PresetResolved", "True", r, cInst.gen)
            IN c \in StatusType /\ c.observedGeneration = cInst.status.observedGeneration
      BY <1>1, <2>1, SetCondition
    <2> QED BY <1>6, <2>2
  <1> HIDE DEF st
  <1>9. [st EXCEPT !.hash = cEffective] \in StatusType
    BY <1>3, <1>8 DEF StatusType
  <1>10. [st EXCEPT !.hash = cEffective].observedGeneration = st.observedGeneration
    BY <1>8 DEF StatusType
  <1>11. Resolved \in StatusType /\ Resolved.observedGeneration = cInst.status.observedGeneration
    BY <1>7, <1>8, <1>9, <1>10
  <1>12. Stored \in StatusType /\ Stored.observedGeneration = Resolved.observedGeneration
    BY <1>1, <1>5, <1>11, SetCondition DEF Stored
  <1> QED BY <1>1, <1>3, <1>4, <1>11, <1>12

\* A reconcile that loads the cached CR works on no older generation than the
\* last apply did.
LEMMA LoadIInv ==
  ASSUME IInv, cInst.exists, NEW next \in PCs \ {"applySvc"}, NEW staged \in StatusType,
         NEW requeue \in BOOLEAN, Load(next, staged, requeue),
         staged.observedGeneration = cInst.status.observedGeneration,
         queued' \in BOOLEAN, timer' \in BOOLEAN, budget' \in Nat,
         UNCHANGED <<specs, alive, status, preset, claim, dep, svc, pods>>,
         UNCHANGED <<cInst, cPreset, cClaim, cDep, cSvc, cSlice, depFrom, svcFrom>>
  PROVE  IInv'
  <1>1. ClusterTypeOK'
    BY DEF IInv, TypeOK, ClusterTypeOK
  <1>2. [template |-> cEffective, replicas |-> cSpec.replicas] \in DepSpec
    BY LoadedType DEF DepSpec
  <1>3. w' \in WorkType /\ w'.gen = cInst.gen /\ w'.orig = cInst.status /\ w'.staged = staged
    BY <1>2, LoadedType DEF Load, WorkType
  <1>4. TypeOK'
    BY <1>1, <1>3 DEF IInv, TypeOK, Load
  <1>5. Generations'
    BY <1>3 DEF IInv, TypeOK, ClusterTypeOK, InstType, Generations
  <1>6. Staged' /\ ObservedMeansApplied'
    BY <1>3 DEF IInv, Staged, ObservedMeansApplied, Load
  <1> QED BY <1>4, <1>5, <1>6 DEF IInv

\* The ways out of Reconcile before its first API call, a failing read included.
LEMMA BeginIInv ==
  ASSUME IInv, \/ InstanceGone \/ PresetMissing \/ ConfigInvalid \/ ClaimMissing
               \/ ClaimUnsafe \/ StartApply \/ ReadFails
  PROVE  IInv'
  <1> USE DEF Begin
  <1>0. queued' \in BOOLEAN
    BY DEF InstanceGone, PresetMissing, ConfigInvalid, ClaimMissing, ClaimUnsafe, StartApply, ReadFails
  <1>1. /\ {"PresetResolved", "StorageReady", "Ready"} \subseteq CondTypes
        /\ {"PresetNotFound", "InvalidConfiguration", "PVCNotFound", "ReplicaStorageUnsafe"} \subseteq Reasons
        /\ {"patch", "remediate", "applyDep"} \subseteq PCs \ {"applySvc"}
        /\ transientRequeue \in BOOLEAN
        /\ timer \in BOOLEAN /\ budget \in Nat
    BY DEF CondTypes, Reasons, PCs, transientRequeue, IInv, TypeOK, ClusterTypeOK
  <1>2. ASSUME NEW next, NEW staged, NEW requeue, Goto(next, staged, requeue)
        PROVE  /\ Load(next, staged, requeue)
               /\ timer' \in BOOLEAN /\ budget' \in Nat
               /\ UNCHANGED <<specs, alive, status, preset, claim, dep, svc, pods>>
               /\ UNCHANGED <<cInst, cPreset, cClaim, cDep, cSvc, cSlice, depFrom, svcFrom>>
    BY <1>1, <1>2 DEF Goto, clusterVars, cacheVars
  <1>3. CASE InstanceGone
    <2>1. UNCHANGED <<specs, alive, status, preset, claim, dep, svc, pods, budget, cInst, cPreset,
                      cClaim, cDep, cSvc, cSlice, timer, pc, w, depFrom, svcFrom>>
      BY <1>3 DEF InstanceGone, clusterVars, cacheVars, workVars
    <2> QED BY <1>0, <2>1 DEF IInv, TypeOK, ClusterTypeOK, Generations, Staged, ObservedMeansApplied
  <1>4. CASE PresetMissing
    <2> DEFINE c == setVLLMCondition(cInst.status, "PresetResolved", "False", "PresetNotFound", cInst.gen)
               st == setReadyFalse(c, "PresetNotFound", cInst.gen)
    <2>1. cInst.exists /\ Goto("patch", st, transientRequeue)
      BY <1>4 DEF PresetMissing
    <2>2. c \in StatusType /\ c.observedGeneration = cInst.status.observedGeneration
      BY <1>1, <2>1, LoadedType, SetCondition
    <2> HIDE DEF c
    <2>3. st \in StatusType /\ st.observedGeneration = cInst.status.observedGeneration
      BY <1>1, <2>1, <2>2, LoadedType, ReadyFalse
    <2> HIDE DEF st
    <2> QED BY <1>0, <1>1, <1>2, <2>1, <2>3, LoadIInv
  <1>5. CASE ConfigInvalid
    <2> DEFINE st == setReadyFalse(Resolved, "InvalidConfiguration", cInst.gen)
    <2>1. cInst.exists /\ Goto("patch", st, TRUE)
      BY <1>5 DEF ConfigInvalid
    <2>2. st \in StatusType /\ st.observedGeneration = cInst.status.observedGeneration
      BY <1>1, <2>1, LoadedType, ReadyFalse
    <2> HIDE DEF st
    <2> QED BY <1>0, <1>1, <1>2, <2>1, <2>2, LoadIInv
  <1>6. CASE ClaimMissing
    <2> DEFINE c == setVLLMCondition(Resolved, "StorageReady", "False", "PVCNotFound", cInst.gen)
               st == setReadyFalse(c, "PVCNotFound", cInst.gen)
    <2>1. cInst.exists /\ Goto("patch", st, transientRequeue)
      BY <1>6 DEF ClaimMissing
    <2>2. c \in StatusType /\ c.observedGeneration = cInst.status.observedGeneration
      BY <1>1, <2>1, LoadedType, SetCondition
    <2> HIDE DEF c
    <2>3. st \in StatusType /\ st.observedGeneration = cInst.status.observedGeneration
      BY <1>1, <2>1, <2>2, LoadedType, ReadyFalse
    <2> HIDE DEF st
    <2> QED BY <1>0, <1>1, <1>2, <2>1, <2>3, LoadIInv
  <1>7. CASE ClaimUnsafe
    <2> DEFINE c == setVLLMCondition(Stored, "StorageReady", "False", "ReplicaStorageUnsafe", cInst.gen)
               st == setReadyFalse(c, "ReplicaStorageUnsafe", cInst.gen)
    <2>1. cInst.exists /\ Goto("remediate", st, FALSE)
      BY <1>7 DEF ClaimUnsafe
    <2>2. c \in StatusType /\ c.observedGeneration = cInst.status.observedGeneration
      BY <1>1, <2>1, LoadedType, SetCondition
    <2> HIDE DEF c
    <2>3. st \in StatusType /\ st.observedGeneration = cInst.status.observedGeneration
      BY <1>1, <2>1, <2>2, LoadedType, ReadyFalse
    <2> HIDE DEF st
    <2> QED BY <1>0, <1>1, <1>2, <2>1, <2>3, LoadIInv
  <1>8. CASE StartApply
    <2>1. cInst.exists /\ Goto("applyDep", Stored, FALSE)
      BY <1>8 DEF StartApply
    <2> QED BY <1>0, <1>1, <1>2, <2>1, LoadedType, LoadIInv
  <1>9. CASE ReadFails
    <2>1. /\ cInst.exists /\ budget' \in Nat
          /\ UNCHANGED <<specs, alive, status, preset, claim, dep, svc, pods>>
          /\ UNCHANGED <<cInst, cPreset, cClaim, cDep, cSvc, cSlice, depFrom, svcFrom>>
      BY <1>1, <1>9 DEF ReadFails, Disturb, cacheVars
    <2>2. CASE timer' = TRUE /\ UNCHANGED <<pc, w>>
      <3>1. timer' \in BOOLEAN
        BY <2>2
      <3> QED BY <1>0, <2>1, <2>2, <3>1 DEF IInv, TypeOK, ClusterTypeOK, Generations, Staged, ObservedMeansApplied
    <2>3. CASE Load("patch", cInst.status, TRUE) /\ UNCHANGED timer
      BY <1>0, <1>1, <2>1, <2>3, LoadedType, LoadIInv
    <2>4. CASE Load("patch", Resolved, TRUE) /\ UNCHANGED timer
      BY <1>0, <1>1, <2>1, <2>4, LoadedType, LoadIInv
    <2> QED BY <1>9, <2>2, <2>3, <2>4 DEF ReadFails
  <1> QED BY <1>3, <1>4, <1>5, <1>6, <1>7, <1>8, <1>9

\* The API calls: the remediation, the applies, the reads back and their faults.
LEMMA CallsIInv ==
  ASSUME IInv, \/ RemediateNothing \/ Remediate \/ ApplyDeployment \/ ApplyService
               \/ ApplyFails \/ ObserveNothing \/ Observe \/ EndpointReadFails \/ ObserveFails
  PROVE  IInv'
  <1>0. /\ pc \in PCs \ {"idle"} /\ w \in WorkType /\ w.gen \in Nat /\ w.want \in DepSpec
        /\ w.staged \in StatusType
        /\ budget \in Nat
        /\ specs \in Seq(SpecType) /\ Len(specs) \in Nat /\ w.gen \in 1..Len(specs)
        /\ specs[w.gen].serviceType \in ServiceTypes
        /\ cInst.gen \in Nat /\ depFrom \in Nat /\ svcFrom \in Nat
        /\ status.observedGeneration \in Nat
    <2>1. pc \in PCs \ {"idle"}
      BY DEF RemediateNothing, Remediate, ApplyDeployment, ApplyService, ApplyFails,
             ObserveNothing, Observe, ReadBack, EndpointReadFails, ObserveFails, PCs
    <2>2. w \in WorkType /\ w.gen \in Nat /\ w.want \in DepSpec /\ w.staged \in StatusType
      BY DEF IInv, TypeOK, WorkType
    <2>3. specs \in Seq(SpecType) /\ Len(specs) \in Nat /\ budget \in Nat
      BY DEF IInv, TypeOK, ClusterTypeOK
    <2>4. w.gen \in 1..Len(specs)
      BY <2>1 DEF IInv, Generations
    <2>5. specs[w.gen].serviceType \in ServiceTypes
      <3>1. specs[w.gen] \in SpecType
        BY <2>3, <2>4
      <3> QED BY <3>1 DEF SpecType
    <2>6. cInst.gen \in Nat /\ depFrom \in Nat /\ svcFrom \in Nat /\ status.observedGeneration \in Nat
      BY DEF IInv, TypeOK, ClusterTypeOK, InstType, StatusType
    <2> QED BY <2>1, <2>2, <2>3, <2>4, <2>5, <2>6
  <1>1. UNCHANGED <<specs, alive, status, preset, claim, pods, cInst, cPreset, cClaim, cDep, cSvc, cSlice,
                    queued, timer>>
    BY DEF RemediateNothing, Remediate, ApplyDeployment, ApplyService, ApplyFails,
           ObserveNothing, Observe, ReadBack, EndpointReadFails, ObserveFails, clusterVars, cacheVars
  <1>2. dep' \in DepType /\ svc' \in SvcType
    <2>1. CASE \/ RemediateNothing \/ ObserveNothing \/ Observe \/ EndpointReadFails \/ ObserveFails
               \/ Remediate /\ dep' = dep
      BY <2>1 DEF RemediateNothing, Remediate, ObserveNothing, Observe, ReadBack, EndpointReadFails, ObserveFails, clusterVars,
                  IInv, TypeOK, ClusterTypeOK
    <2>2. CASE Remediate /\ dep' = StoreDep([dep.spec EXCEPT !.replicas = 1])
      <3>1. [dep.spec EXCEPT !.replicas = 1] \in DepSpec
        BY DEF IInv, TypeOK, ClusterTypeOK, DepType, DepSpec
      <3> QED BY <2>2, <3>1, StoreDepType DEF Remediate, IInv, TypeOK, ClusterTypeOK
    <2>3. applyDeployment => dep' \in DepType
      BY <1>0, StoreDepType DEF applyDeployment, IInv, TypeOK, ClusterTypeOK
    <2>4. applyService => svc' \in SvcType
      BY <1>0 DEF applyService, SvcType
    <2>5. CASE ApplyDeployment \/ ApplyService \/ ApplyFails
      BY <2>3, <2>4, <2>5 DEF ApplyDeployment, ApplyService, ApplyFails, IInv, TypeOK, ClusterTypeOK
    <2> QED BY <2>1, <2>2, <2>5 DEF Remediate
  <1>3. budget' \in Nat
    BY <1>0 DEF RemediateNothing, Remediate, ApplyDeployment, ApplyService, ApplyFails,
           ObserveNothing, Observe, ReadBack, EndpointReadFails, ObserveFails, clusterVars, Disturb
  <1>4. ClusterTypeOK'
    BY <1>1, <1>2, <1>3 DEF IInv, TypeOK, ClusterTypeOK
  <1>5. /\ w' \in WorkType /\ w'.gen = w.gen /\ w'.orig = w.orig
        /\ \/ w'.staged.observedGeneration = w.staged.observedGeneration
           \/ ApplyService /\ w'.staged.observedGeneration = w.gen
    <2>1. ASSUME NEW st \in StatusType, NEW r \in BOOLEAN, w' = [w EXCEPT !.staged = st, !.requeue = r]
          PROVE  w' \in WorkType /\ w'.gen = w.gen /\ w'.orig = w.orig /\ w'.staged = st
      BY <1>0, <2>1 DEF WorkType
    <2>2. ASSUME NEW r \in BOOLEAN, w' = [w EXCEPT !.requeue = r]
          PROVE  w' \in WorkType /\ w'.gen = w.gen /\ w'.orig = w.orig /\ w'.staged = w.staged
      BY <1>0, <2>2 DEF WorkType
    <2>3. CASE RemediateNothing \/ ApplyDeployment
      BY <1>0, <2>3 DEF RemediateNothing, ApplyDeployment
    <2>4. CASE Remediate \/ ObserveNothing \/ ObserveFails
      <3>1. \E r \in BOOLEAN : w' = [w EXCEPT !.requeue = r]
        BY <2>4 DEF Remediate, ObserveNothing, ObserveFails
      <3> QED BY <2>2, <3>1
    <2>5. CASE ApplyService
      <3> DEFINE st == [w.staged EXCEPT !.observedGeneration = w.gen]
      <3>1. st \in StatusType
        BY <1>0 DEF StatusType
      <3>2. st.observedGeneration = w.gen
        BY <1>0 DEF StatusType
      <3>3. w' = [w EXCEPT !.staged = st]
        BY <1>0, <2>5 DEF ApplyService, WorkType
      <3> HIDE DEF st
      <3>4. w' \in WorkType /\ w'.gen = w.gen /\ w'.orig = w.orig /\ w'.staged = st
        BY <1>0, <3>1, <3>3 DEF WorkType
      <3> QED BY <2>5, <3>2, <3>4
    <2>6. CASE ApplyFails
      <3> DEFINE st == setReadyFalse(w.staged, "ApplyFailed", w.gen)
      <3>1. "ApplyFailed" \in Reasons
        BY DEF Reasons
      <3>2. st \in StatusType /\ st.observedGeneration = w.staged.observedGeneration
        BY <1>0, <3>1, ReadyFalse
      <3>3. w' = [w EXCEPT !.staged = st, !.requeue = TRUE]
        BY <2>6 DEF ApplyFails, applyError
      <3> HIDE DEF st
      <3> QED BY <2>1, <3>2, <3>3
    <2>7. CASE Observe \/ EndpointReadFails
      <3>0. PICK ready \in BOOLEAN : ReadBack(ready)
        BY <2>7 DEF Observe, EndpointReadFails, IInv, TypeOK
      <3> DEFINE n == w.want.replicas
                 st == Report(w.staged, cDep, cSvc, ready, n, w.gen)
                 r == n = 0 \/ ~IsReady(cDep, st, n)
      <3>1. n \in Nat
        BY <1>0 DEF DepSpec
      <3>2. w' = [w EXCEPT !.staged = st, !.requeue = r]
        BY <3>0 DEF ReadBack
      <3>3. r \in BOOLEAN
        OBVIOUS
      <3> HIDE DEF n, r
      <3>4. cDep \in DepType /\ cSvc \in SvcType
        BY DEF IInv, TypeOK
      <3>5. w.staged \in StatusType /\ w.gen \in Nat
        BY <1>0
      <3>6. st \in StatusType /\ st.observedGeneration = w.staged.observedGeneration
        BY <3>1, <3>4, <3>5, ReportType
      <3> HIDE DEF st
      <3> QED BY <2>1, <3>2, <3>3, <3>6
    <2> QED BY <2>3, <2>4, <2>5, <2>6, <2>7
  <1>6. /\ pc' \in PCs \ {"idle"}
        /\ depFrom' \in {depFrom, w.gen} /\ svcFrom' \in {svcFrom, w.gen}
    BY DEF RemediateNothing, Remediate, ApplyDeployment, ApplyService, ApplyFails,
           ObserveNothing, Observe, ReadBack, EndpointReadFails, ObserveFails, applyDeployment, applyService, PCs
  <1>7. TypeOK'
    BY <1>0, <1>1, <1>4, <1>5, <1>6 DEF IInv, TypeOK
  <1>8. Generations'
    BY <1>0, <1>1, <1>5, <1>6 DEF IInv, Generations
  <1>9. ObservedMeansApplied'
    BY <1>0, <1>1, <1>6 DEF IInv, Generations, ObservedMeansApplied
  <1>10. Staged'
    <2>1. CASE ApplyService
      <3>1. pc' = "observe" /\ svcFrom' = w.gen /\ depFrom' = w.gen
        BY <2>1 DEF ApplyService, applyService, IInv, Staged
      <3>2. w.staged.observedGeneration = w.orig.observedGeneration
        BY <2>1 DEF ApplyService, IInv, Staged
      <3> QED BY <1>5, <3>1, <3>2 DEF Staged
    <2>2. CASE ApplyDeployment
      <3>1. pc = "applyDep" /\ pc' = "applySvc" /\ depFrom' = w.gen /\ w' = w
        BY <2>2 DEF ApplyDeployment, applyDeployment
      <3> QED BY <3>1 DEF IInv, Staged
    <2>3. CASE ApplyFails
      <3>1. pc \in {"applyDep", "applySvc"} /\ pc' = "patch"
        BY <2>3 DEF ApplyFails
      <3>2. w.staged.observedGeneration = w.orig.observedGeneration
        BY <3>1 DEF IInv, Staged
      <3>3. ~ApplyService
        BY <3>1 DEF ApplyService
      <3> QED BY <1>5, <3>1, <3>2, <3>3 DEF Staged
    <2>4. CASE \/ RemediateNothing \/ Remediate \/ ObserveNothing \/ Observe \/ EndpointReadFails \/ ObserveFails
      <3>1. pc \in {"remediate", "observe"} /\ pc' = "patch" /\ UNCHANGED <<depFrom, svcFrom>>
        BY <2>4 DEF RemediateNothing, Remediate, ObserveNothing, Observe, ReadBack, EndpointReadFails, ObserveFails
      <3>2. ~ApplyService
        BY <3>1 DEF ApplyService
      <3> QED BY <1>5, <3>1, <3>2 DEF IInv, Staged
    <2> QED BY <2>1, <2>2, <2>3, <2>4
  <1> QED BY <1>7, <1>8, <1>9, <1>10 DEF IInv

\* A status patch publishes what is staged: an old observedGeneration changes
\* nothing, and a new one has both its applies.
LEMMA PatchStep ==
  ASSUME IInv, pc = "patch", patchStatus
  PROVE  /\ status' \in StatusType
         /\ status'.observedGeneration >= status.observedGeneration
         /\ status'.observedGeneration <= depFrom /\ status'.observedGeneration <= svcFrom
  <1>1. status \in StatusType /\ w \in WorkType /\ depFrom \in Nat /\ svcFrom \in Nat
    BY DEF IInv, TypeOK, ClusterTypeOK
  <1>2. status.observedGeneration \in Nat
    BY <1>1 DEF StatusType
  <1> QED BY <1>1, <1>2, MergePatchType DEF patchStatus, IInv, Staged, ObservedMeansApplied

\* The end of a reconcile: the patch, or the death of the process.
LEMMA EndIInv ==
  ASSUME IInv, PatchStatus \/ PatchFails \/ Restart
  PROVE  IInv'
  <1>0. pc' = "idle" /\ w' = NoWork /\ w' \in WorkType
    BY ZeroTypes DEF PatchStatus, PatchFails, Restart
  <1>1. UNCHANGED <<specs, alive, preset, claim, dep, svc, pods, depFrom, svcFrom>> /\ budget' \in Nat
    BY DEF PatchStatus, PatchFails, Restart, Disturb, IInv, TypeOK, ClusterTypeOK
  <1>2. /\ status' \in StatusType
        /\ status'.observedGeneration <= depFrom /\ status'.observedGeneration <= svcFrom
    <2>1. CASE status' = status
      BY <2>1 DEF IInv, TypeOK, ClusterTypeOK, ObservedMeansApplied
    <2>2. CASE patchStatus /\ pc = "patch"
      BY <2>2, PatchStep
    <2> QED BY <2>1, <2>2 DEF PatchStatus, PatchFails, Restart
  <1>3. ClusterTypeOK'
    BY <1>1, <1>2 DEF IInv, TypeOK, ClusterTypeOK
  <1>4. /\ cInst' = cInst \/ cInst' = Instance
        /\ cPreset' \in {cPreset, preset}
        /\ cClaim' \in {cClaim, claim}
        /\ cDep' \in {cDep, dep}
        /\ cSvc' \in {cSvc, svc}
        /\ cSlice' \in BOOLEAN
        /\ queued' \in BOOLEAN
        /\ timer' \in BOOLEAN
    <2>0. cSlice \in BOOLEAN /\ queued \in BOOLEAN /\ timer \in BOOLEAN /\ alive \in BOOLEAN
          /\ w.requeue \in BOOLEAN
      BY DEF IInv, TypeOK, ClusterTypeOK, WorkType
    <2>1. SliceReady \in BOOLEAN /\ (timer \/ w.requeue) \in BOOLEAN
      BY DEF SliceReady
    <2> QED BY <2>0, <2>1 DEF PatchStatus, PatchFails, Restart, cacheVars
  <1>5. Instance \in InstType /\ (Instance.exists => Instance.gen = Len(specs))
    BY InstanceTyped DEF IInv, TypeOK
  <1>6. TypeOK'
    BY <1>0, <1>1, <1>3, <1>4, <1>5 DEF IInv, TypeOK, ClusterTypeOK, PCs
  <1>7. Generations'
    <2>1. Len(specs) \in Nat /\ Len(specs) > 0 /\ depFrom \in Nat /\ svcFrom \in Nat
      BY DEF IInv, TypeOK, ClusterTypeOK
    <2> QED BY <1>0, <1>1, <1>4, <1>5, <2>1 DEF IInv, Generations
  <1>8. Staged' /\ ObservedMeansApplied'
    BY <1>0, <1>1, <1>2 DEF Staged, ObservedMeansApplied
  <1> QED BY <1>6, <1>7, <1>8 DEF IInv

-----------------------------------------------------------------------------
(* The theorems. *)

\* Nothing is applied, cached or published in the beginning.
LEMMA InitIInv == Init => IInv
  <1> SUFFICES ASSUME Init PROVE IInv
    OBVIOUS
  <1>1. PICK sp \in Specs : specs = <<sp>>
    BY DEF Init, ClusterInit
  <1>2. sp \in SpecType
    BY SpecsAssumption
  <1>3. specs \in Seq(SpecType) /\ Len(specs) = 1
    BY <1>1, <1>2
  <1>4. claim \in ClaimType
    BY ClaimsAssumption DEF Init, ClusterInit, ClaimType
  <1>5. ClusterTypeOK
    BY <1>3, <1>4, ZeroTypes, PresetsAssumption, DisturbAssumption DEF Init, ClusterInit, ClusterTypeOK
  <1>6. cSlice \in BOOLEAN
    BY DEF Init, SliceReady
  <1>7. TypeOK
    BY <1>5, <1>6, ZeroTypes DEF Init, TypeOK, ClusterTypeOK, PCs
  <1>8. Generations /\ Staged
    BY <1>3, ZeroTypes DEF Init, Generations, Staged
  <1>9. ObservedMeansApplied
    BY ZeroTypes DEF Init, ClusterInit, ObservedMeansApplied
  <1> QED BY <1>7, <1>8, <1>9 DEF IInv

\* Every step keeps the invariant of generations.
LEMMA StepIInv == IInv /\ [Next]_vars => IInv'
  <1>1. ASSUME IInv, UNCHANGED vars PROVE IInv'
    BY <1>1 DEF vars, clusterVars, opVars, cacheVars, workVars, IInv, TypeOK, ClusterTypeOK,
                Generations, Staged, ObservedMeansApplied
  <1>2. ASSUME IInv, Next PROVE IInv'
    BY <1>2, EnvironmentIInv, InformersIInv, BeginIInv, CallsIInv, EndIInv DEF Next, Reconcile, Faults
  <1> QED BY <1>1, <1>2

\* The invariant of generations holds throughout every behaviour.
THEOREM Invariance == Spec => []IInv
  BY StepIInv, InitIInv, PTL DEF Spec

\* The objects of the cluster, the caches and the locals of Reconcile keep
\* their types; in particular status.endpoint is "" or a real address.
THEOREM TypeCorrect == Spec => []TypeOK
  BY Invariance, PTL DEF IInv

\* generation = observedGeneration means that the spec was applied, as the
\* comment before the assignment of ObservedGeneration in Reconcile says.
THEOREM ObservedImpliesApplied == Spec => []ObservedMeansApplied
  BY Invariance, PTL DEF IInv

\* No step takes what was applied or published back to an older generation.
LEMMA ForwardStep ==
  ASSUME IInv, Next
  PROVE  /\ depFrom' >= depFrom /\ svcFrom' >= svcFrom
         /\ status'.observedGeneration >= status.observedGeneration
  <1>0. depFrom \in Nat /\ svcFrom \in Nat /\ status.observedGeneration \in Nat /\ w.gen \in Nat
    BY DEF IInv, TypeOK, ClusterTypeOK, StatusType, WorkType
  <1>1. \/ UNCHANGED <<depFrom, svcFrom>>
        \/ pc # "idle" /\ depFrom' \in {depFrom, w.gen} /\ svcFrom' \in {svcFrom, w.gen}
    BY DEF Next, Environment, Informers, Reconcile, Faults, Goto, opVars, workVars,
         SyncInstance, SyncDeployment, SyncService, SyncPreset, PresetEventLost, SyncSlice, SyncClaim, TimerFires,
         InstanceGone, PresetMissing, ConfigInvalid, ClaimMissing, ClaimUnsafe, StartApply, ReadFails,
         RemediateNothing, Remediate, ApplyDeployment, ApplyService, ApplyFails, applyDeployment,
         applyService, ObserveNothing, Observe, ReadBack, EndpointReadFails, ObserveFails, PatchStatus, PatchFails, Restart
  <1>2. depFrom' >= depFrom /\ svcFrom' >= svcFrom
    BY <1>0, <1>1 DEF IInv, Generations
  <1>3. CASE Environment
    BY <1>0, <1>2, <1>3, ClusterStep DEF Environment, IInv, TypeOK
  <1>4. CASE ~Environment
    <2>1. status' = status \/ (pc = "patch" /\ patchStatus)
      BY <1>4 DEF Next, Informers, Reconcile, Faults, Goto, clusterVars,
         SyncInstance, SyncDeployment, SyncService, SyncPreset, PresetEventLost, SyncSlice, SyncClaim, TimerFires,
         InstanceGone, PresetMissing, ConfigInvalid, ClaimMissing, ClaimUnsafe, StartApply, ReadFails,
         RemediateNothing, Remediate, ApplyDeployment, ApplyService, ApplyFails,
         ObserveNothing, Observe, ReadBack, EndpointReadFails, ObserveFails, PatchStatus, PatchFails, Restart
    <2> QED BY <1>0, <1>2, <2>1, PatchStep
  <1> QED BY <1>3, <1>4

\* Neither the applies nor the merge patches of Reconcile ever return to an
\* older generation, although they carry no resourceVersion and start from
\* cached copies.
THEOREM NeverRollsBack == Spec => NoRollback
  <1>1. IInv /\ [Next]_vars =>
          [/\ depFrom' >= depFrom
           /\ svcFrom' >= svcFrom
           /\ status'.observedGeneration >= status.observedGeneration]_vars
    BY ForwardStep
  <1> QED BY <1>1, Invariance, PTL DEF Spec, NoRollback
=============================================================================
