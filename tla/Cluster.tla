------------------------------ MODULE Cluster ------------------------------
(***************************************************************************)
(* The Kubernetes objects of one VLLMInstance as the API server stores     *)
(* them, and everybody but the operator who changes them: the users, the   *)
(* Deployment and EndpointSlice controllers, the kubelet and the garbage   *)
(* collector.  Only what the operator reads or writes is kept.             *)
(*                                                                         *)
(* The generation of the CR is the length of `specs': every accepted edit  *)
(* of the spec appends one, and an older generation stays available to a   *)
(* reader whose cache has not caught up.                                   *)
(***************************************************************************)
EXTENDS Naturals, Sequences

CONSTANTS
    Confs,             \* rendered configurations a preset or an override may give
    InvalidConfs,      \* those ValidateEffectiveConfig refuses
    Specs,             \* the specs users submit
    Presets,           \* what a ModelPreset may contain, "absent" for no preset
    Claims,            \* the access-mode sets a PVC may be created with
    MaxScale,          \* the largest replica count somebody else sets on a Deployment
    Disturbances,      \* the kinds of disturbance that may happen
    MaxDisturbances    \* how many of them, in any mix

AccessModes  == {"ReadWriteOnce", "ReadOnlyMany", "ReadWriteMany"}
ServiceTypes == {"ClusterIP", "NodePort"}
OptBool      == {"unset", "true", "false"}     \* a *bool field

\* The part of VLLMInstanceSpec that reaches a decision of the controller.
SpecType == [presetRef : BOOLEAN, conf : Confs \cup {"unset"},
             overridesReadOnly : OptBool, pvcReadOnly : OptBool,
             replicas : Nat, serviceType : ServiceTypes]

\* The CRD's admission rule: presetRef, or the overrides a preset would give.
Admitted(sp) == sp.presetRef \/ sp.conf # "unset"

ASSUME ConfsAssumption   == InvalidConfs \subseteq Confs /\ {"unset", "absent"} \cap Confs = {}
ASSUME SpecsAssumption   == Specs \subseteq SpecType /\ \A sp \in Specs : Admitted(sp)
ASSUME PresetsAssumption == Presets \subseteq Confs \cup {"absent"}
ASSUME ClaimsAssumption  == Claims \subseteq SUBSET AccessModes
ASSUME DisturbAssumption == MaxDisturbances \in Nat /\ MaxScale \in Nat

VARIABLES
    specs,     \* the specs of the CR, one per generation
    alive,     \* the CR has not been deleted
    status,    \* its status subresource
    preset,    \* the configuration in the referenced ModelPreset, or "absent"
    claim,     \* the PVC
    dep,       \* the Deployment <name>
    svc,       \* the Service svc-<name>
    pods,      \* the pods behind the Deployment: their template, how many are Ready
    budget     \* disturbances left

clusterVars == <<specs, alive, status, preset, claim, dep, svc, pods, budget>>

-----------------------------------------------------------------------------
(* Status.  deploymentName and serviceName are functions of the CR's name and *)
(* are left out; the Progressing condition is a copy nothing reads.           *)

CondTypes == {"PresetResolved", "StorageReady", "DeploymentAvailable", "Ready"}
Reasons   == {"", "PresetFound", "OverridesUsed", "PresetNotFound", "PVCFound", "PVCNotFound",
              "ReplicaStorageUnsafe", "InvalidConfiguration", "ApplyFailed",
              "ScaledToZero", "AllReady", "NotReady", "Mirrored"}
Condition == [status : {"Unknown", "True", "False"}, reason : Reasons, gen : Nat]
Effective == [conf : Confs \cup {"unset", "absent"}, readOnly : BOOLEAN]

NoCondition == [status |-> "Unknown", reason |-> "", gen |-> 0]
NoEffective == [conf |-> "absent", readOnly |-> FALSE]

\* resolvedConfigHash stands for the configuration it is the SHA-256 of.
StatusType == [observedGeneration : Nat, hash : Effective, readyReplicas : Nat,
               endpoint : {"", "dns", "node"}, conditions : [CondTypes -> Condition]]

NoStatus == [observedGeneration |-> 0, hash |-> NoEffective, readyReplicas |-> 0,
             endpoint |-> "", conditions |-> [t \in CondTypes |-> NoCondition]]

-----------------------------------------------------------------------------
(* Workload objects.  `seen' is status.observedGeneration >= generation, the *)
(* only use the operator makes of the two numbers.                           *)

DepSpec == [template : Effective, replicas : Nat]
DepType == [exists : BOOLEAN, spec : DepSpec, seen : BOOLEAN, ready : Nat,
            avail : {"Unknown", "True", "False"}]
SvcType == [exists : BOOLEAN, type : ServiceTypes]
ClaimType == [exists : BOOLEAN, modes : SUBSET AccessModes]
PodsType == [template : Effective, ready : Nat]

NoDepSpec == [template |-> NoEffective, replicas |-> 0]
NoDep  == [exists |-> FALSE, spec |-> NoDepSpec, seen |-> FALSE, ready |-> 0, avail |-> "Unknown"]
NoSvc  == [exists |-> FALSE, type |-> "ClusterIP"]
NoPods == [template |-> NoEffective, ready |-> 0]

\* The API server stores a new spec: a change bumps the generation, so the
\* Deployment controller has not observed it; a no-op apply changes nothing.
StoreDep(sp) ==
    IF dep.exists THEN [dep EXCEPT !.spec = sp, !.seen = dep.seen /\ dep.spec = sp]
                  ELSE [NoDep EXCEPT !.exists = TRUE, !.spec = sp]

ClusterTypeOK ==
    /\ specs \in Seq(SpecType)
    /\ Len(specs) > 0
    /\ alive \in BOOLEAN
    /\ status \in StatusType
    /\ preset \in Confs \cup {"absent"}
    /\ claim \in ClaimType
    /\ dep \in DepType
    /\ svc \in SvcType
    /\ pods \in PodsType
    /\ budget \in Nat

ClusterInit ==
    /\ \E sp \in Specs : specs = <<sp>>
    /\ alive = TRUE
    /\ status = NoStatus
    /\ preset \in Presets
    /\ claim \in [exists : BOOLEAN, modes : Claims]
    /\ claim.exists \/ "claim" \in Disturbances
    /\ dep = NoDep
    /\ svc = NoSvc
    /\ pods = NoPods
    /\ budget = MaxDisturbances

\* One disturbance of kind k; each may happen at any moment while any is left.
Disturb(k) == k \in Disturbances /\ budget > 0 /\ budget' = budget - 1

-----------------------------------------------------------------------------
(* Users. *)

EditSpec ==
    /\ Disturb("edit")
    /\ alive
    /\ \E sp \in Specs \ {specs[Len(specs)]} : specs' = Append(specs, sp)
    /\ UNCHANGED <<alive, status, preset, claim, dep, svc, pods>>

DeleteInstance ==
    /\ Disturb("delete")
    /\ alive
    /\ alive' = FALSE
    /\ UNCHANGED <<specs, status, preset, claim, dep, svc, pods>>

\* Creates, edits or deletes the ModelPreset.
EditPreset ==
    /\ Disturb("preset")
    /\ preset' \in Presets \ {preset}
    /\ UNCHANGED <<specs, alive, status, claim, dep, svc, pods>>

\* Deletes the PVC, or creates it again with the access modes it had.
ToggleClaim ==
    /\ Disturb("claim")
    /\ claim' = [claim EXCEPT !.exists = ~claim.exists]
    /\ UNCHANGED <<specs, alive, status, preset, dep, svc, pods>>

\* kubectl scale: somebody other than the operator sets spec.replicas.
ScaleDeployment ==
    /\ Disturb("scale")
    /\ dep.exists
    /\ \E n \in (0..MaxScale) \ {dep.spec.replicas} :
          dep' = StoreDep([dep.spec EXCEPT !.replicas = n])
    /\ UNCHANGED <<specs, alive, status, preset, claim, svc, pods>>

\* kubectl delete of a workload object.
RemoveWorkload ==
    /\ Disturb("remove")
    /\ \/ dep.exists /\ dep' = NoDep /\ svc' = svc
       \/ svc.exists /\ svc' = NoSvc /\ dep' = dep
    /\ UNCHANGED <<specs, alive, status, preset, claim, pods>>

User == \/ EditSpec \/ DeleteInstance \/ EditPreset \/ ToggleClaim
        \/ ScaleDeployment \/ RemoveWorkload

-----------------------------------------------------------------------------
(* The controllers of Kubernetes.  The Deployment strategy is Recreate: pods *)
(* of another template go before new ones come.                              *)

Rollout ==
    /\ \/ dep.exists /\ pods.template # dep.spec.template
          /\ pods' = [template |-> dep.spec.template, ready |-> 0]
       \/ dep.exists /\ pods.template = dep.spec.template /\ pods.ready > dep.spec.replicas
          /\ pods' = [pods EXCEPT !.ready = dep.spec.replicas]
       \/ ~dep.exists /\ pods # NoPods /\ pods' = NoPods
    /\ UNCHANGED <<specs, alive, status, preset, claim, dep, svc, budget>>

PodBecomesReady ==
    /\ dep.exists
    /\ pods.template = dep.spec.template
    /\ pods.ready < dep.spec.replicas
    /\ pods' = [pods EXCEPT !.ready = @ + 1]
    /\ UNCHANGED <<specs, alive, status, preset, claim, dep, svc, budget>>

PodFails ==
    /\ Disturb("pods")
    /\ pods.ready > 0
    /\ pods' = [pods EXCEPT !.ready = @ - 1]
    /\ UNCHANGED <<specs, alive, status, preset, claim, dep, svc>>

\* The Deployment controller writes the status it computes from the pods.
ReportDeployment ==
    /\ dep.exists
    /\ LET st == [dep EXCEPT !.seen = TRUE, !.ready = pods.ready,
                             !.avail = IF pods.ready >= dep.spec.replicas THEN "True" ELSE "False"]
       IN dep # st /\ dep' = st
    /\ UNCHANGED <<specs, alive, status, preset, claim, svc, pods, budget>>

\* Some EndpointSlice of the Service lists a Ready endpoint.  The slices follow
\* the pods; how late they are is part of how late the operator's cache is.
SliceReady == svc.exists /\ pods.ready > 0

\* Owner references: what the operator applied for a deleted CR is collected.
CollectGarbage ==
    /\ ~alive
    /\ dep.exists \/ svc.exists
    /\ dep' = NoDep
    /\ svc' = NoSvc
    /\ UNCHANGED <<specs, alive, status, preset, claim, pods, budget>>

Kubernetes == Rollout \/ PodBecomesReady \/ ReportDeployment \/ CollectGarbage

=============================================================================
