------------------------ MODULE InstanceSafetyProofs ------------------------
(***************************************************************************)
(* What VLLMInstanceReconciler applies fits the volume, and what it        *)
(* publishes as Ready rests on true conditions, for every set of specs,    *)
(* configurations and access modes and any number of edits, faults and     *)
(* restarts.                                                               *)
(***************************************************************************)
EXTENDS InstanceReconcilerProofs

-----------------------------------------------------------------------------
(* The storage gate. *)

\* The access modes of the PVC never change, so the cached ones are those of the
\* server, and what passed the gate is still right when it is applied.
Fits(sp)   == validateReplicaStorage(claim.modes, sp.replicas, sp.template.readOnly)
StorageInv == /\ cClaim.modes = claim.modes
              /\ pc = "applyDep" => Fits(w.want)

\* The access modes stay: a PVC comes back with those it had.
LEMMA ModesFixed ==
  ASSUME TypeOK, [Next]_vars
  PROVE  claim'.modes = claim.modes
  <1>0. claim \in ClaimType
    BY DEF TypeOK, ClusterTypeOK
  <1>1. CASE ToggleClaim
    BY <1>0, <1>1 DEF ToggleClaim, ClaimType
  <1>2. CASE ~ToggleClaim
    <2>1. claim' = claim
      BY <1>2 DEF Next, Environment, User, Kubernetes, Informers, Reconcile, Faults, Goto, clusterVars, vars,
         EditSpec, DeleteInstance, EditPreset, ScaleDeployment, RemoveWorkload, Rollout,
         PodBecomesReady, PodFails, ReportDeployment, CollectGarbage,
         SyncInstance, SyncDeployment, SyncService, SyncPreset, PresetEventLost, SyncSlice, SyncClaim, TimerFires,
         InstanceGone, PresetMissing, ConfigInvalid, ClaimMissing, ClaimUnsafe, StartApply, ReadFails,
         RemediateNothing, Remediate, ApplyDeployment, ApplyService, ApplyFails,
         ObserveNothing, Observe, ReadBack, EndpointReadFails, ObserveFails, PatchStatus, PatchFails, Restart
    <2> QED BY <2>1
  <1> QED BY <1>1, <1>2

\* Who may change the claim, its cache, the place of the worker and its locals.
LEMMA StorageStep == IInv /\ StorageInv /\ [Next]_vars => StorageInv'
  <1> SUFFICES ASSUME IInv, StorageInv, [Next]_vars PROVE StorageInv'
    OBVIOUS
  <1>1. claim'.modes = claim.modes
    BY ModesFixed DEF IInv
  <1>2. cClaim' \in {cClaim, claim}
    BY DEF Next, Environment, Informers, Reconcile, Faults, Goto, clusterVars, vars, opVars, cacheVars,
       SyncInstance, SyncDeployment, SyncService, SyncPreset, PresetEventLost, SyncSlice, SyncClaim, TimerFires,
       InstanceGone, PresetMissing, ConfigInvalid, ClaimMissing, ClaimUnsafe, StartApply, ReadFails,
       RemediateNothing, Remediate, ApplyDeployment, ApplyService, ApplyFails,
       ObserveNothing, Observe, ReadBack, EndpointReadFails, ObserveFails, PatchStatus, PatchFails, Restart
  <1>3. ASSUME pc' = "applyDep" PROVE StartApply \/ (pc = "applyDep" /\ w' = w)
    BY <1>3 DEF Next, Environment, Informers, Reconcile, Faults, Goto, Load, vars, opVars, cacheVars, workVars,
       SyncInstance, SyncDeployment, SyncService, SyncPreset, PresetEventLost, SyncSlice, SyncClaim, TimerFires, Begin,
       InstanceGone, PresetMissing, ConfigInvalid, ClaimMissing, ClaimUnsafe, StartApply, ReadFails,
       RemediateNothing, Remediate, ApplyDeployment, ApplyService, ApplyFails,
       ObserveNothing, Observe, ReadBack, EndpointReadFails, ObserveFails, PatchStatus, PatchFails, Restart
  <1>4. ASSUME StartApply PROVE Fits(w'.want)
    <2>1. w'.want = [template |-> cEffective, replicas |-> cSpec.replicas]
      BY <1>4 DEF StartApply, Goto, Load
    <2>2. validateReplicaStorage(claim.modes, cSpec.replicas, cEffective.readOnly)
      BY <1>4 DEF StartApply, StorageSafe, StorageInv
    <2> QED BY <2>1, <2>2 DEF Fits
  <1>5. pc' = "applyDep" => Fits(w.want)'
    BY <1>1, <1>3, <1>4 DEF StorageInv, Fits, validateReplicaStorage
  <1> QED BY <1>1, <1>2, <1>5 DEF StorageInv

\* The spec of a stored Deployment is the one that was sent.
LEMMA StoreDepSpec ==
  ASSUME dep \in DepType, NEW sp \in DepSpec
  PROVE  StoreDep(sp).exists = TRUE /\ StoreDep(sp).spec = sp
  <1>1. CASE dep.exists
    <2> DEFINE s == dep.seen /\ dep.spec = sp
    <2>1. StoreDep(sp) = [dep EXCEPT !.spec = sp, !.seen = s]
      BY <1>1 DEF StoreDep
    <2> HIDE DEF s
    <2>2. [dep EXCEPT !.spec = sp, !.seen = s].exists = dep.exists
      BY DEF DepType
    <2>3. [dep EXCEPT !.spec = sp, !.seen = s].spec = sp
      BY DEF DepType
    <2>4. dep.exists = TRUE
      BY <1>1 DEF DepType
    <2> QED BY <2>1, <2>2, <2>3, <2>4
  <1>2. CASE ~dep.exists
    BY <1>2 DEF StoreDep, NoDep
  <1> QED BY <1>1, <1>2

\* What a step may make of the Deployment: nothing, a new status, one replica less
\* than two, what the worker wants, or what somebody else scales it to.
LEMMA DepStep ==
  ASSUME IInv, [Next]_vars, dep'.exists
  PROVE  \/ dep.exists /\ dep'.spec = dep.spec
         \/ dep'.spec.replicas = 1
         \/ pc = "applyDep" /\ dep'.spec = w.want
         \/ ScaleDeployment /\ dep'.spec.replicas \in 0..MaxScale
  <1>0. dep \in DepType /\ dep.spec \in DepSpec /\ w.want \in DepSpec
    BY DEF IInv, TypeOK, ClusterTypeOK, DepType, WorkType
  <1>1. CASE ScaleDeployment
    <2>1. PICK n \in 0..MaxScale : dep' = StoreDep([dep.spec EXCEPT !.replicas = n])
      BY <1>1 DEF ScaleDeployment
    <2>2. n \in Nat
      BY DisturbAssumption
    <2>3. [dep.spec EXCEPT !.replicas = n] \in DepSpec /\ [dep.spec EXCEPT !.replicas = n].replicas = n
      BY <1>0, <2>2 DEF DepSpec
    <2> QED BY <1>0, <1>1, <2>1, <2>3, StoreDepSpec
  <1>2. CASE ReportDeployment
    BY <1>0, <1>2 DEF ReportDeployment, DepType
  <1>3. CASE RemoveWorkload \/ CollectGarbage
    BY <1>3 DEF RemoveWorkload, CollectGarbage, NoDep
  <1>4. CASE applyDeployment /\ pc = "applyDep"
    BY <1>0, <1>4, StoreDepSpec DEF applyDeployment
  <1>5. CASE Remediate
    <2>1. [dep.spec EXCEPT !.replicas = 1] \in DepSpec /\ [dep.spec EXCEPT !.replicas = 1].replicas = 1
      BY <1>0 DEF DepSpec
    <2> QED BY <1>0, <1>5, <2>1, StoreDepSpec DEF Remediate
  <1>6. CASE dep' = dep
    BY <1>6
  <1>7. \/ ScaleDeployment \/ ReportDeployment \/ RemoveWorkload \/ CollectGarbage \/ Remediate
        \/ applyDeployment /\ pc = "applyDep"
        \/ dep' = dep
    BY DEF Next, Environment, User, Kubernetes, Informers, Reconcile, Faults, Goto, clusterVars, vars,
       EditSpec, DeleteInstance, EditPreset, ToggleClaim, Rollout, PodBecomesReady, PodFails,
       SyncInstance, SyncDeployment, SyncService, SyncPreset, PresetEventLost, SyncSlice, SyncClaim, TimerFires,
       InstanceGone, PresetMissing, ConfigInvalid, ClaimMissing, ClaimUnsafe, StartApply, ReadFails,
       RemediateNothing, ApplyDeployment, ApplyService, ApplyFails,
       ObserveNothing, Observe, ReadBack, EndpointReadFails, ObserveFails, PatchStatus, PatchFails, Restart
  <1> QED BY <1>1, <1>2, <1>3, <1>4, <1>5, <1>6, <1>7

\* Only a kubectl scale can fan out a Deployment that does not fit: an apply
\* writes what passed the gate, and the remediation lowers.
LEMMA FanoutStep ==
  ASSUME IInv, StorageInv, NoUnsafeFanout, [Next]_vars, ~ScaleDeployment \/ MaxScale <= 1
  PROVE  NoUnsafeFanout'
  <1>1. claim'.modes = claim.modes
    BY ModesFixed DEF IInv
  <1> SUFFICES ASSUME dep'.exists, dep'.spec.replicas > 1
               PROVE  \/ "ReadWriteMany" \in claim.modes
                      \/ "ReadOnlyMany" \in claim.modes /\ dep'.spec.template.readOnly
    BY <1>1 DEF NoUnsafeFanout
  <1>2. \/ dep.exists /\ dep'.spec = dep.spec
        \/ pc = "applyDep" /\ dep'.spec = w.want
    BY DepStep, DisturbAssumption
  <1>3. w.want.replicas \in Nat
    BY DEF IInv, TypeOK, WorkType, DepSpec
  <1> QED BY <1>2, <1>3 DEF NoUnsafeFanout, StorageInv, Fits, validateReplicaStorage

LEMMA InitStorage == Init => StorageInv /\ NoUnsafeFanout
  BY DEF Init, ClusterInit, NoDep, StorageInv, NoUnsafeFanout

\* The gate decides on the access modes the server has.
LEMMA StorageInvariance == Spec => []StorageInv
  BY InitStorage, StorageStep, Invariance, PTL DEF Spec

\* No step of the operator, of Kubernetes or of a user fans the Deployment out
\* beyond what its volume allows, a kubectl scale excepted: whatever the cached
\* CR, preset and PVC were when a reconcile began, its apply writes replicas and
\* mount mode together, and only after validateReplicaStorage accepted both.
THEOREM OnlyScaleFansOut ==
  Spec => [][~ScaleDeployment /\ NoUnsafeFanout => NoUnsafeFanout']_vars
  <1>1. IInv /\ StorageInv /\ [Next]_vars => [~ScaleDeployment /\ NoUnsafeFanout => NoUnsafeFanout']_vars
    BY FanoutStep
  <1> QED BY <1>1, StorageInvariance, Invariance, PTL DEF Spec

\* As long as nobody else sets more than one replica, a Deployment never runs
\* several pods on a volume that cannot carry them.
THEOREM FanoutSafe == MaxScale <= 1 => (Spec => []NoUnsafeFanout)
  <1> SUFFICES ASSUME MaxScale <= 1 PROVE Spec => []NoUnsafeFanout
    OBVIOUS
  <1>1. IInv /\ StorageInv /\ NoUnsafeFanout /\ [Next]_vars => NoUnsafeFanout'
    BY FanoutStep
  <1> QED BY <1>1, InitStorage, StorageInvariance, Invariance, PTL DEF Spec

-----------------------------------------------------------------------------
(* Ready. *)

\* ReadyIsBacked of any copy of the status ...
Backed(st) ==
    st.conditions["Ready"].status = "True" =>
        /\ \A t \in CondTypes : /\ st.conditions[t].status = "True"
                                /\ st.conditions[t].gen >= st.conditions["Ready"].gen
        /\ st.conditions["Ready"].gen <= st.observedGeneration

\* ... holds of the server's, of the cached and of the staged one.  The last two may
\* be old, but observedGeneration only grows, and past the checks of Reconcile
\* their conditions are staged for the generation at work.
Checks   == {"PresetResolved", "StorageReady"}
ReadyInv ==
    /\ Backed(status)
    /\ cInst.exists => /\ Backed(cInst.status)
                       /\ cInst.status.observedGeneration <= status.observedGeneration
    /\ pc # "idle" => /\ Backed(w.staged)
                      /\ w.orig.observedGeneration <= status.observedGeneration
    /\ pc \in {"applyDep", "applySvc", "observe"} =>
          \A t \in Checks : w.staged.conditions[t].status = "True" /\ w.staged.conditions[t].gen = w.gen
    /\ pc = "observe" => w.staged.observedGeneration = w.gen

\* What setVLLMCondition leaves in the conditions.
LEMMA ConditionsAfter ==
  ASSUME NEW st \in StatusType, NEW t \in CondTypes, NEW s, NEW reason, NEW g
  PROVE  /\ setVLLMCondition(st, t, s, reason, g).conditions[t] = [status |-> s, reason |-> reason, gen |-> g]
         /\ \A u \in CondTypes \ {t} :
               setVLLMCondition(st, t, s, reason, g).conditions[u] = st.conditions[u]
         /\ setVLLMCondition(st, t, s, reason, g).observedGeneration = st.observedGeneration
  <1> DEFINE c == [status |-> s, reason |-> reason, gen |-> g]
             cs == [st.conditions EXCEPT ![t] = c]
  <1>1. st.conditions \in [CondTypes -> Condition]
    BY DEF StatusType
  <1>2. setVLLMCondition(st, t, s, reason, g) = [st EXCEPT !.conditions = cs]
    BY DEF setVLLMCondition, StatusType
  <1> HIDE DEF c
  <1>3. cs[t] = c /\ \A u \in CondTypes \ {t} : cs[u] = st.conditions[u]
    BY <1>1
  <1> HIDE DEF cs
  <1>4. [st EXCEPT !.conditions = cs].conditions = cs
    BY DEF StatusType
  <1>5. [st EXCEPT !.conditions = cs].observedGeneration = st.observedGeneration
    BY DEF StatusType
  <1> QED BY <1>2, <1>3, <1>4, <1>5 DEF c

\* Ready=False needs no backing.
LEMMA ReadyFalseBacked ==
  ASSUME NEW st \in StatusType, NEW reason, NEW g
  PROVE  Backed(setReadyFalse(st, reason, g))
  <1>1. setReadyFalse(st, reason, g).conditions["Ready"] = [status |-> "False", reason |-> reason, gen |-> g]
    BY ConditionsAfter, "Ready" \in CondTypes DEF setReadyFalse, CondTypes
  <1> QED BY <1>1 DEF Backed

\* A condition that turns True for a generation not older than the published one
\* takes nothing away from an earlier Ready=True.
LEMMA TrueBacked ==
  ASSUME NEW st \in StatusType, Backed(st), NEW t \in CondTypes \ {"Ready"}, NEW reason, NEW g \in Nat,
         st.observedGeneration <= g
  PROVE  Backed(setVLLMCondition(st, t, "True", reason, g))
  <1> DEFINE r == setVLLMCondition(st, t, "True", reason, g)
  <1>1. /\ r.conditions[t] = [status |-> "True", reason |-> reason, gen |-> g]
        /\ \A u \in CondTypes \ {t} : r.conditions[u] = st.conditions[u]
        /\ r.observedGeneration = st.observedGeneration
    BY ConditionsAfter
  <1>2. "Ready" \in CondTypes \ {t}
    BY DEF CondTypes
  <1>3. st.observedGeneration \in Nat /\ \A u \in CondTypes : st.conditions[u].gen \in Nat
    BY DEF StatusType, Condition
  <1> HIDE DEF r
  <1> SUFFICES ASSUME r.conditions["Ready"].status = "True", NEW u \in CondTypes
               PROVE  /\ r.conditions[u].status = "True"
                      /\ r.conditions[u].gen >= r.conditions["Ready"].gen
                      /\ r.conditions["Ready"].gen <= r.observedGeneration
    BY DEF Backed, r
  <1>4. r.conditions["Ready"] = st.conditions["Ready"]
    BY <1>1, <1>2
  <1>5. /\ st.conditions[u].status = "True" /\ st.conditions[u].gen >= st.conditions["Ready"].gen
        /\ st.conditions["Ready"].gen <= st.observedGeneration
    BY <1>4 DEF Backed
  <1>6. CASE u = t
    BY <1>1, <1>2, <1>3, <1>4, <1>5, <1>6
  <1>7. CASE u # t
    BY <1>1, <1>4, <1>5, <1>7
  <1> QED BY <1>6, <1>7

\* Backing is a matter of the conditions, and survives a newer observedGeneration.
LEMMA BackedLater ==
  ASSUME NEW a \in StatusType, NEW b \in StatusType, Backed(a), b.conditions = a.conditions,
         a.observedGeneration <= b.observedGeneration
  PROVE  Backed(b)
  <1>1. a.observedGeneration \in Nat /\ b.observedGeneration \in Nat /\ a.conditions["Ready"].gen \in Nat
    BY DEF StatusType, Condition, CondTypes
  <1> QED BY <1>1 DEF Backed

\* Everybody else and the caches: a copy that is taken is the server's.
LEMMA ReadyElsewhere ==
  ASSUME IInv, ReadyInv, Environment \/ Informers \/ TimerFires \/ UNCHANGED vars
  PROVE  ReadyInv'
  <1>1. status' = status
    BY ClusterStep DEF Environment, Informers, SyncInstance, SyncDeployment, SyncService, SyncPreset, PresetEventLost, SyncSlice,
       SyncClaim, TimerFires, clusterVars, vars, IInv, TypeOK
  <1>2. UNCHANGED <<pc, w>>
    BY DEF Environment, Informers, SyncInstance, SyncDeployment, SyncService, SyncPreset, PresetEventLost, SyncSlice,
       SyncClaim, TimerFires, opVars, workVars, vars
  <1>3. cInst' = cInst \/ cInst' = Instance
    BY DEF Environment, Informers, SyncInstance, SyncDeployment, SyncService, SyncPreset, PresetEventLost, SyncSlice,
       SyncClaim, TimerFires, opVars, cacheVars, vars
  <1>4. Instance.exists => Instance.status = status
    BY ZeroTypes DEF Instance
  <1>5. status.observedGeneration \in Nat
    BY DEF IInv, TypeOK, ClusterTypeOK, StatusType
  <1> QED BY <1>1, <1>2, <1>3, <1>4, <1>5 DEF ReadyInv, Backed

\* The cached CR publishes no newer generation than its own.
LEMMA CachedGeneration ==
  ASSUME IInv, ReadyInv, cInst.exists
  PROVE  /\ cInst.status \in StatusType /\ cInst.gen \in Nat
         /\ cInst.status.observedGeneration <= cInst.gen
  <1>1. cInst.status \in StatusType /\ cInst.gen \in Nat /\ status \in StatusType /\ depFrom \in Nat
    BY DEF IInv, TypeOK, ClusterTypeOK, InstType
  <1>2. cInst.status.observedGeneration \in Nat /\ status.observedGeneration \in Nat
    BY <1>1 DEF StatusType
  <1> QED BY <1>1, <1>2 DEF IInv, Generations, ObservedMeansApplied, ReadyInv

\* What is staged by the checks of Reconcile is backed.
LEMMA StagedBacked ==
  ASSUME IInv, ReadyInv, cInst.exists
  PROVE  /\ Backed(cInst.status) /\ Backed(Resolved) /\ Backed(Stored)
         /\ \A t \in Checks : Stored.conditions[t].status = "True" /\ Stored.conditions[t].gen = cInst.gen
  <1>1. /\ cInst.status \in StatusType /\ cInst.gen \in Nat
        /\ cInst.status.observedGeneration <= cInst.gen /\ Backed(cInst.status)
    BY CachedGeneration DEF ReadyInv
  <1>2. /\ Resolved \in StatusType /\ Resolved.observedGeneration = cInst.status.observedGeneration
        /\ cEffective \in Effective
    BY LoadedType
  <1>3. {"PresetResolved", "StorageReady"} \subseteq CondTypes \ {"Ready"}
    BY DEF CondTypes
  <1> DEFINE reason == IF cSpec.presetRef THEN "PresetFound" ELSE "OverridesUsed"
             st == setVLLMCondition(cInst.status, "PresetResolved", "True", reason, cInst.gen)
  <1>4. Resolved = [st EXCEPT !.hash = cEffective] /\ reason \in Reasons
    BY DEF Resolved, Reasons
  <1> HIDE DEF reason
  <1>5. st \in StatusType /\ st.observedGeneration = cInst.status.observedGeneration
    BY <1>1, <1>3, <1>4, SetCondition
  <1>6. Backed(st) /\ st.conditions["PresetResolved"] = [status |-> "True", reason |-> reason, gen |-> cInst.gen]
    BY <1>1, <1>3, TrueBacked, ConditionsAfter
  <1> HIDE DEF st
  <1>7. [st EXCEPT !.hash = cEffective].conditions = st.conditions
    BY <1>5 DEF StatusType
  <1>8. st.observedGeneration \in Nat
    BY <1>5 DEF StatusType
  <1>9. Backed(Resolved) /\ Resolved.conditions["PresetResolved"] = st.conditions["PresetResolved"]
    <2>1. Resolved.conditions = st.conditions
      BY <1>4, <1>7
    <2>2. st.observedGeneration <= Resolved.observedGeneration
      BY <1>2, <1>5, <1>8
    <2> QED BY <1>2, <1>5, <1>6, <2>1, <2>2, BackedLater
  <1>10. Backed(Stored)
    BY <1>1, <1>2, <1>3, <1>9, TrueBacked DEF Stored
  <1>11. /\ Stored.conditions["StorageReady"] = [status |-> "True", reason |-> "PVCFound", gen |-> cInst.gen]
         /\ Stored.conditions["PresetResolved"] = Resolved.conditions["PresetResolved"]
    BY <1>2, <1>3, ConditionsAfter DEF Stored
  <1> QED BY <1>1, <1>6, <1>9, <1>10, <1>11 DEF Checks

\* A reconcile that begins.
LEMMA ReadyLoad ==
  ASSUME IInv, ReadyInv, cInst.exists, NEW next \in {"patch", "remediate", "applyDep"}, NEW staged,
         NEW requeue, Load(next, staged, requeue), Backed(staged),
         next = "applyDep" =>
            \A t \in Checks : staged.conditions[t].status = "True" /\ staged.conditions[t].gen = cInst.gen,
         UNCHANGED <<status, cInst>>
  PROVE  ReadyInv'
  <1>1. pc' = next /\ w'.gen = cInst.gen /\ w'.orig = cInst.status /\ w'.staged = staged
    BY DEF Load
  <1> QED BY <1>1 DEF ReadyInv, Backed

\* The ways out of Reconcile before its first API call.
LEMMA ReadyBegin ==
  ASSUME IInv, ReadyInv,
         \/ InstanceGone \/ PresetMissing \/ ConfigInvalid \/ ClaimMissing \/ ClaimUnsafe
         \/ StartApply \/ ReadFails
  PROVE  ReadyInv'
  <1>1. UNCHANGED <<status, cInst>>
    BY DEF InstanceGone, PresetMissing, ConfigInvalid, ClaimMissing, ClaimUnsafe, StartApply, ReadFails,
           Goto, clusterVars, cacheVars
  <1>2. CASE UNCHANGED <<pc, w>>
    BY <1>1, <1>2 DEF ReadyInv, Backed
  <1>3. CASE \E staged \in {cInst.status, Resolved} : cInst.exists /\ Load("patch", staged, TRUE)
    BY <1>1, <1>3, StagedBacked, ReadyLoad
  <1>4. CASE StartApply
    <2>1. cInst.exists /\ Load("applyDep", Stored, FALSE)
      BY <1>4 DEF StartApply, Goto
    <2> QED BY <1>1, <2>1, StagedBacked, ReadyLoad
  <1>5. ASSUME NEW st \in StatusType, NEW reason, NEW next \in {"patch", "remediate"}, NEW requeue,
               cInst.exists, Load(next, setReadyFalse(st, reason, cInst.gen), requeue)
        PROVE  ReadyInv'
    BY <1>1, <1>5, ReadyFalseBacked, ReadyLoad
  <1>6. /\ {"PresetResolved", "StorageReady"} \subseteq CondTypes
        /\ {"PresetNotFound", "PVCNotFound", "ReplicaStorageUnsafe"} \subseteq Reasons
    BY DEF CondTypes, Reasons
  <1>7. CASE PresetMissing
    <2> DEFINE c == setVLLMCondition(cInst.status, "PresetResolved", "False", "PresetNotFound", cInst.gen)
    <2>1. cInst.exists /\ Load("patch", setReadyFalse(c, "PresetNotFound", cInst.gen), transientRequeue)
      BY <1>7 DEF PresetMissing, Goto
    <2>2. c \in StatusType
      BY <1>6, <2>1, LoadedType, SetCondition
    <2> HIDE DEF c
    <2> QED BY <1>5, <2>1, <2>2
  <1>8. CASE ConfigInvalid
    <2>1. cInst.exists /\ Load("patch", setReadyFalse(Resolved, "InvalidConfiguration", cInst.gen), TRUE)
      BY <1>8 DEF ConfigInvalid, Goto
    <2> QED BY <1>5, <2>1, LoadedType
  <1>9. CASE ClaimMissing
    <2> DEFINE c == setVLLMCondition(Resolved, "StorageReady", "False", "PVCNotFound", cInst.gen)
    <2>1. cInst.exists /\ Load("patch", setReadyFalse(c, "PVCNotFound", cInst.gen), transientRequeue)
      BY <1>9 DEF ClaimMissing, Goto
    <2>2. c \in StatusType
      BY <1>6, <2>1, LoadedType, SetCondition
    <2> HIDE DEF c
    <2> QED BY <1>5, <2>1, <2>2
  <1>10. CASE ClaimUnsafe
    <2> DEFINE c == setVLLMCondition(Stored, "StorageReady", "False", "ReplicaStorageUnsafe", cInst.gen)
    <2>1. cInst.exists /\ Load("remediate", setReadyFalse(c, "ReplicaStorageUnsafe", cInst.gen), FALSE)
      BY <1>10 DEF ClaimUnsafe, Goto
    <2>2. c \in StatusType
      BY <1>6, <2>1, LoadedType, SetCondition
    <2> HIDE DEF c
    <2> QED BY <1>5, <2>1, <2>2
  <1> QED BY <1>2, <1>3, <1>4, <1>7, <1>8, <1>9, <1>10 DEF InstanceGone, ReadFails, workVars

\* Mirroring the Deployment touches no condition but DeploymentAvailable.
LEMMA MirrorSpec ==
  ASSUME NEW st \in StatusType, NEW d \in DepType, NEW g \in Nat
  PROVE  /\ Mirror(st, d, g) \in StatusType
         /\ Mirror(st, d, g).observedGeneration = st.observedGeneration
         /\ \A t \in CondTypes \ {"DeploymentAvailable"} :
               Mirror(st, d, g).conditions[t] = st.conditions[t]
         /\ d.avail = "True" =>
               /\ Mirror(st, d, g).conditions["DeploymentAvailable"].status = "True"
               /\ Mirror(st, d, g).conditions["DeploymentAvailable"].gen = g
  <1> DEFINE counted == IF d.seen THEN [st EXCEPT !.readyReplicas = d.ready] ELSE st
             m == Mirror(st, d, g)
             a == setVLLMCondition(counted, "DeploymentAvailable", d.avail, "Mirrored", g)
  <1>1. /\ counted \in StatusType /\ counted.conditions = st.conditions
        /\ counted.observedGeneration = st.observedGeneration
    <2>1. d.ready \in Nat
      BY DEF DepType
    <2>2. /\ [st EXCEPT !.readyReplicas = d.ready] \in StatusType
          /\ [st EXCEPT !.readyReplicas = d.ready].conditions = st.conditions
      BY <2>1 DEF StatusType
    <2>3. [st EXCEPT !.readyReplicas = d.ready].observedGeneration = st.observedGeneration
      BY DEF StatusType
    <2> QED BY <2>2, <2>3
  <1>2. m = IF d.avail = "Unknown" THEN counted ELSE a
    BY DEF Mirror
  <1> HIDE DEF counted, m
  <1>3. d.avail \in {"Unknown", "True", "False"} /\ "DeploymentAvailable" \in CondTypes
        /\ "Mirrored" \in Reasons
    BY DEF DepType, CondTypes, Reasons
  <1>4. d.avail # "Unknown" => a \in StatusType
    BY <1>1, <1>3, SetCondition
  <1>5. /\ a.conditions["DeploymentAvailable"] = [status |-> d.avail, reason |-> "Mirrored", gen |-> g]
        /\ \A u \in CondTypes \ {"DeploymentAvailable"} : a.conditions[u] = counted.conditions[u]
        /\ a.observedGeneration = counted.observedGeneration
    BY <1>1, <1>3, ConditionsAfter
  <1> HIDE DEF a
  <1> QED BY <1>1, <1>2, <1>4, <1>5 DEF m

\* What the read-back Deployment says: Ready=True is staged only with its Available
\* condition, beside those of the checks and with observedGeneration advanced.
LEMMA ReportBacked ==
  ASSUME NEW st \in StatusType, NEW d \in DepType, NEW s \in SvcType, NEW r \in BOOLEAN,
         NEW n \in Nat, NEW g \in Nat,
         \A t \in Checks : st.conditions[t].status = "True" /\ st.conditions[t].gen = g,
         st.observedGeneration = g
  PROVE  Backed(Report(st, d, s, r, n, g))
  <1> DEFINE m == Mirror(st, d, g)
             e == [m EXCEPT !.endpoint = resolveServiceEndpoint(s.type, r)]
  <1>1. Report(st, d, s, r, n, g) =
          IF n = 0 THEN [setReadyFalse(m, "ScaledToZero", g) EXCEPT !.endpoint = ""]
          ELSE IF IsReady(d, e, n) THEN setVLLMCondition(e, "Ready", "True", "AllReady", g)
               ELSE setReadyFalse(e, "NotReady", g)
    BY DEF Report
  <1>2. "ScaledToZero" \in Reasons /\ "Ready" \in CondTypes
        /\ Checks \subseteq CondTypes \ {"DeploymentAvailable"}
    BY DEF Checks, CondTypes, Reasons
  <1>3. /\ m \in StatusType /\ m.observedGeneration = st.observedGeneration
        /\ \A t \in CondTypes \ {"DeploymentAvailable"} : m.conditions[t] = st.conditions[t]
        /\ d.avail = "True" => /\ m.conditions["DeploymentAvailable"].status = "True"
                               /\ m.conditions["DeploymentAvailable"].gen = g
    BY MirrorSpec
  <1> HIDE DEF m
  <1>4. \A t \in Checks : m.conditions[t] = st.conditions[t]
    BY <1>2, <1>3
  <1>5. d.avail = "True" => m.conditions["DeploymentAvailable"].status = "True"
                            /\ m.conditions["DeploymentAvailable"].gen = g
    BY <1>3
  <1>6. e \in StatusType /\ e.observedGeneration = g /\ e.conditions = m.conditions
    <2>1. resolveServiceEndpoint(s.type, r) \in {"", "dns", "node"}
      BY DEF resolveServiceEndpoint
    <2>2. e \in StatusType /\ e.conditions = m.conditions
      BY <1>3, <2>1 DEF StatusType
    <2>3. e.observedGeneration = m.observedGeneration
      BY <1>3 DEF StatusType
    <2> QED BY <1>3, <2>2, <2>3
  <1> HIDE DEF e
  <1>7. CASE n = 0
    <2> DEFINE z == setReadyFalse(m, "ScaledToZero", g)
    <2>1. z \in StatusType /\ Backed(z)
      BY <1>2, <1>3, ReadyFalse, ReadyFalseBacked
    <2> DEFINE y == [z EXCEPT !.endpoint = ""]
    <2>2. Report(st, d, s, r, n, g) = y
      BY <1>1, <1>7
    <2> HIDE DEF z
    <2>3. y \in StatusType /\ y.conditions = z.conditions
      BY <2>1 DEF StatusType
    <2>4. y.observedGeneration = z.observedGeneration
      BY <2>1 DEF StatusType
    <2>5. z.observedGeneration \in Nat
      BY <2>1 DEF StatusType
    <2> HIDE DEF y
    <2> QED BY <2>1, <2>2, <2>3, <2>4, <2>5, BackedLater
  <1>8. CASE n # 0 /\ ~IsReady(d, e, n)
    BY <1>1, <1>6, <1>8, ReadyFalseBacked
  <1>9. CASE n # 0 /\ IsReady(d, e, n)
    <2> DEFINE a == setVLLMCondition(e, "Ready", "True", "AllReady", g)
    <2>1. /\ a.conditions["Ready"] = [status |-> "True", reason |-> "AllReady", gen |-> g]
          /\ \A u \in CondTypes \ {"Ready"} : a.conditions[u] = e.conditions[u]
          /\ a.observedGeneration = g
      BY <1>2, <1>6, ConditionsAfter
    <2>2. Report(st, d, s, r, n, g) = a
      BY <1>1, <1>9
    <2> HIDE DEF a
    <2>3. d.avail = "True"
      BY <1>9 DEF IsReady
    <2>4. \A u \in CondTypes : a.conditions[u].status = "True" /\ a.conditions[u].gen = g
      BY <1>4, <1>5, <1>6, <2>1, <2>3 DEF CondTypes, Checks
    <2> QED BY <2>1, <2>2, <2>4 DEF Backed
  <1> QED BY <1>7, <1>8, <1>9

\* The API calls.
LEMMA ReadyCalls ==
  ASSUME IInv, ReadyInv, \/ RemediateNothing \/ Remediate \/ ApplyDeployment \/ ApplyService
                         \/ ApplyFails \/ ObserveNothing \/ Observe \/ EndpointReadFails \/ ObserveFails
  PROVE  ReadyInv'
  <1>0. /\ w \in WorkType /\ w.gen \in Nat /\ w.staged \in StatusType /\ w.want.replicas \in Nat
        /\ status.observedGeneration \in Nat /\ w.orig.observedGeneration \in Nat
        /\ depFrom \in Nat
    BY DEF IInv, TypeOK, ClusterTypeOK, WorkType, StatusType, DepSpec
  <1>1. UNCHANGED <<status, cInst>>
    BY DEF RemediateNothing, Remediate, ApplyDeployment, ApplyService, ApplyFails,
           ObserveNothing, Observe, ReadBack, EndpointReadFails, ObserveFails, clusterVars, cacheVars
  <1>2. CASE RemediateNothing \/ Remediate \/ ObserveNothing \/ ObserveFails
    <2>1. pc # "idle" /\ pc' = "patch"
      BY <1>2 DEF RemediateNothing, Remediate, ObserveNothing, ObserveFails
    <2>2. w' = w \/ \E q \in BOOLEAN : w' = [w EXCEPT !.requeue = q]
      BY <1>2 DEF RemediateNothing, Remediate, ObserveNothing, ObserveFails
    <2>3. w'.staged = w.staged /\ w'.orig = w.orig
      BY <1>0, <2>2 DEF WorkType
    <2> QED BY <1>1, <2>1, <2>3 DEF ReadyInv, Backed
  <1>3. CASE ApplyDeployment
    <2>1. pc = "applyDep" /\ pc' = "applySvc" /\ w' = w
      BY <1>3 DEF ApplyDeployment
    <2> QED BY <1>1, <2>1 DEF ReadyInv, Backed
  <1>4. CASE ApplyService
    <2> DEFINE st == [w.staged EXCEPT !.observedGeneration = w.gen]
    <2>1. pc = "applySvc" /\ pc' = "observe" /\ w' = [w EXCEPT !.staged = st]
      BY <1>0, <1>4 DEF ApplyService, WorkType
    <2>2. st \in StatusType /\ st.conditions = w.staged.conditions
      BY <1>0 DEF StatusType
    <2>3. st.observedGeneration = w.gen
      BY <1>0 DEF StatusType
    <2>4. w.staged.observedGeneration <= w.gen
      BY <1>0, <2>1 DEF IInv, Staged, Generations, ObservedMeansApplied, ReadyInv
    <2> HIDE DEF st
    <2>5. Backed(st)
      <3>1. Backed(w.staged)
        BY <2>1 DEF ReadyInv
      <3> QED BY <1>0, <2>2, <2>3, <2>4, <3>1, BackedLater
    <2>6. w'.staged = st /\ w'.orig = w.orig /\ w'.gen = w.gen
      BY <1>0, <2>1 DEF WorkType
    <2> QED BY <1>1, <2>1, <2>2, <2>3, <2>5, <2>6 DEF ReadyInv, Backed
  <1>5. CASE ApplyFails
    <2> DEFINE st == setReadyFalse(w.staged, "ApplyFailed", w.gen)
    <2>1. pc # "idle" /\ pc' = "patch" /\ w' = [w EXCEPT !.staged = st, !.requeue = TRUE]
      BY <1>5 DEF ApplyFails, applyError
    <2>2. Backed(st)
      BY <1>0, ReadyFalseBacked
    <2> HIDE DEF st
    <2>3. w'.staged = st /\ w'.orig = w.orig
      BY <1>0, <2>1 DEF WorkType
    <2> QED BY <1>1, <2>1, <2>2, <2>3 DEF ReadyInv, Backed
  <1>6. CASE Observe \/ EndpointReadFails
    <2>0. PICK ready \in BOOLEAN : ReadBack(ready)
      BY <1>6 DEF Observe, EndpointReadFails, IInv, TypeOK
    <2> DEFINE n == w.want.replicas
               st == Report(w.staged, cDep, cSvc, ready, n, w.gen)
               q == n = 0 \/ ~IsReady(cDep, st, n)
    <2>1. pc = "observe" /\ pc' = "patch" /\ w' = [w EXCEPT !.staged = st, !.requeue = q]
      BY <2>0 DEF ReadBack
    <2>2. n \in Nat /\ cDep \in DepType /\ cSvc \in SvcType
      BY <1>0 DEF IInv, TypeOK
    <2> HIDE DEF n, q
    <2>3. /\ \A t \in Checks : w.staged.conditions[t].status = "True" /\ w.staged.conditions[t].gen = w.gen
          /\ w.staged.observedGeneration = w.gen
      BY <2>1 DEF ReadyInv
    <2>4. Backed(st)
      BY <1>0, <2>2, <2>3, ReportBacked
    <2> HIDE DEF st
    <2>5. w'.staged = st /\ w'.orig = w.orig
      BY <1>0, <2>1 DEF WorkType
    <2> QED BY <1>1, <2>1, <2>4, <2>5 DEF ReadyInv, Backed
  <1> QED BY <1>2, <1>3, <1>4, <1>5, <1>6

\* The patch sends conditions and observedGeneration separately; either way the
\* observedGeneration that results is not older than the staged one.
LEMMA MergeBacked ==
  ASSUME IInv, ReadyInv, pc = "patch"
  PROVE  Backed(MergePatch)
  <1>1. status \in StatusType /\ w \in WorkType /\ w.staged \in StatusType /\ w.orig \in StatusType
        /\ depFrom \in Nat /\ MergePatch \in StatusType
    BY MergePatchType DEF IInv, TypeOK, ClusterTypeOK, WorkType
  <1>2. /\ MergePatch.conditions = w.staged.conditions \/ MergePatch.conditions = status.conditions
        /\ MergePatch.observedGeneration =
              IF w.staged.observedGeneration # w.orig.observedGeneration
              THEN w.staged.observedGeneration ELSE status.observedGeneration
    BY <1>1, MergePatchType DEF MergePatch, MergeField
  <1>3. /\ status.observedGeneration \in Nat /\ w.staged.observedGeneration \in Nat
        /\ w.orig.observedGeneration \in Nat
    BY <1>1 DEF StatusType
  <1>4. /\ w.staged.observedGeneration <= MergePatch.observedGeneration
        /\ status.observedGeneration <= MergePatch.observedGeneration
    BY <1>1, <1>2, <1>3 DEF IInv, Staged, ObservedMeansApplied, ReadyInv
  <1> QED BY <1>1, <1>2, <1>4, BackedLater DEF ReadyInv

\* The end of a reconcile.
LEMMA ReadyEnd ==
  ASSUME IInv, ReadyInv, PatchStatus \/ PatchFails \/ Restart
  PROVE  ReadyInv'
  <1>1. pc' = "idle" /\ (cInst' = cInst \/ (cInst' = Instance /\ status' = status))
    BY DEF PatchStatus, PatchFails, Restart, cacheVars
  <1>2. Backed(status)'
    <2>1. CASE status' = status
      BY <2>1 DEF ReadyInv, Backed
    <2>2. CASE patchStatus /\ pc = "patch"
      BY <2>2, MergeBacked DEF patchStatus, Backed
    <2> QED BY <2>1, <2>2 DEF PatchStatus, PatchFails, Restart
  <1>3. status.observedGeneration <= status'.observedGeneration
    BY ForwardStep DEF Next, Reconcile, Faults
  <1>4. /\ Instance.exists => Instance.status = status
        /\ cInst.status.observedGeneration \in Nat /\ status.observedGeneration \in Nat
        /\ status'.observedGeneration \in Nat
    <2>1. IInv'
      BY EndIInv
    <2>2. status' \in StatusType
      BY <2>1 DEF IInv, TypeOK, ClusterTypeOK
    <2> QED BY <2>2, ZeroTypes DEF Instance, IInv, TypeOK, ClusterTypeOK, InstType, StatusType
  <1> QED BY <1>1, <1>2, <1>3, <1>4 DEF ReadyInv, Backed

\* Nothing is Ready in the beginning.
LEMMA InitReady == Init => ReadyInv
  <1> SUFFICES ASSUME Init PROVE ReadyInv
    OBVIOUS
  <1>1. status = NoStatus /\ ~cInst.exists /\ pc = "idle"
    BY ZeroTypes DEF Init, ClusterInit
  <1>2. NoStatus.conditions["Ready"].status = "Unknown"
    BY DEF NoStatus, NoCondition, CondTypes
  <1> QED BY <1>1, <1>2 DEF ReadyInv, Backed

\* The server's, the cached and the staged status are all backed.
THEOREM ReadyInvariance == Spec => []ReadyInv
  <1>1. IInv /\ ReadyInv /\ [Next]_vars => ReadyInv'
    BY ReadyElsewhere, ReadyBegin, ReadyCalls, ReadyEnd DEF Next, Reconcile, Faults
  <1> QED BY <1>1, InitReady, Invariance, PTL DEF Spec

\* A published Ready=True never stands beside a condition of Reconcile's checks
\* that is False or older, nor for a generation that was not applied: not after
\* any early exit, any failed call, and any patch computed from a stale copy.
THEOREM ReadyBacked == Spec => []ReadyIsBacked
  <1>1. ReadyInv => ReadyIsBacked
    BY DEF ReadyInv, Backed, ReadyIsBacked
  <1> QED BY <1>1, ReadyInvariance, PTL
=============================================================================
