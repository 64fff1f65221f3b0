---------------------------- MODULE ConfigEdits -----------------------------
(***************************************************************************)
(* One instance of either kind while its preset, its overrides and its     *)
(* spec are edited, and the operator resolves, checks and applies what it  *)
(* finds.  Every edit passes admission, which sees one object at a time;   *)
(* only the operator sees the merged configuration.                        *)
(***************************************************************************)
EXTENDS Rendering

CONSTANTS MaxEdits,     \* bound on the edits of one behaviour
          Flags         \* lists the operator may be given as --engram-ipc-namespaces

VARIABLES kind,         \* of the instance
          allowed,      \* EngramIPCNamespaces, of the long-context reconciler only
          preset,       \* fields of the preset; the empty function when none is referenced
          presetEnv,    \* its environment
          overrides,    \* overrides that are set
          spec,         \* the fields of the instance outside the overrides
          live,         \* <<>>, or the one-element list of what was applied last
          statusHash,   \* status.resolvedConfigHash
          edits
vars == <<kind, allowed, preset, presetEnv, overrides, spec, live, statusHash, edits>>

-----------------------------------------------------------------------------
(* The part of Reconcile between reading the objects and the second apply.   *)

Resolved == ResolveInstance(kind, preset, presetEnv, overrides, spec)

Accepted(e) ==
    IF kind = "VLLM" THEN ValidateEffectiveConfig(e)
    ELSE validateSecurityPolicy179(e, "ns", allowed)

\* The override's key wins over the instance's.
ApiKey == IF spec.overrideKey # "" THEN spec.overrideKey ELSE spec.apiKey

\* One, when the instance does not say.  Whether two may share the claim is decided
\* before anything is rendered; that gate is in InstanceReconciler.
Replicas == IF spec.replicas = "" THEN "1" ELSE spec.replicas

Applied(before) ==
    LET c == Resolved
    IN IF Accepted(c.conf)
       THEN <<[conf |-> c.conf, hash |-> c.hash,
               dep  |-> BuildDeployment(c.conf, c.env, ApiKey, Replicas),
               svc  |-> BuildService(spec.serviceType, spec.nodePort)]>>
       ELSE before

-----------------------------------------------------------------------------
(* Admitted objects to start from: a preset with everything set, from which   *)
(* edits take away, and an instance without preset, to which they add.        *)

Start(f) ==
    CASE f \in Counts \cup {"SHMSizeLimit", "MemoryRequest", "MemoryLimit"} -> "1"
      [] f = "KVOffloadBackend"       -> "lmcache"
      [] f = "SecurityProfile"        -> "engram-ipc"
      [] f = "EngramConfig"           -> "object"
      [] f \in Switches \cup Pointers -> "true"
      [] OTHER                        -> "p"

Bare == [f \in {"ModelID", "MIGResource", "MaxModelLen", "KVCacheDtype"} |-> "o"]

Var(name, value) == [name |-> name, value |-> value]
Envs(own) == {<<>>, <<Var("A", own)>>, <<Var("HF_HOME", own)>>, <<Var("A", own), Var("HF_HOME", own)>>}

NoEdit == [pvcReadOnly |-> "", apiKey |-> "", overrideKey |-> "", serviceType |-> "ClusterIP",
           nodePort |-> "", replicas |-> "", env |-> <<>>]

Init ==
    /\ kind \in Kinds
    /\ \E raw \in Flags :
          /\ ParseEngramIPCNamespaces(raw).ok
          /\ allowed = IF kind = "VLLM" THEN {} ELSE ParseEngramIPCNamespaces(raw).names
    /\ \/ /\ preset = [f \in PresetFields(kind) |-> Start(f)]
          /\ overrides = [f \in {} |-> ""]
       \/ /\ preset = [f \in {} |-> ""]
          /\ overrides = [f \in OverrideFields(kind) \cap DOMAIN Bare |-> Bare[f]]
    /\ presetEnv = <<>> /\ spec = NoEdit
    /\ live = Applied(<<>>) /\ statusHash = Resolved.hash /\ edits = 0

-----------------------------------------------------------------------------
(* Edits through the API server. *)

HasPreset == DOMAIN preset # {}

CountEdit == edits < MaxEdits /\ edits' = edits + 1

EditPreset ==
    /\ CountEdit
    /\ \E f \in DOMAIN preset : \E v \in Admissible(f, "p") \ {preset[f]} :
          preset' = [preset EXCEPT ![f] = v]
    /\ AdmittedPreset(preset')
    /\ UNCHANGED <<kind, allowed, presetEnv, overrides, spec, live, statusHash>>

EditPresetEnv ==
    /\ CountEdit
    /\ HasPreset /\ kind = "LongContext"
    /\ presetEnv' \in Envs("p") \ {presetEnv}
    /\ UNCHANGED <<kind, allowed, preset, overrides, spec, live, statusHash>>

SetOverride ==
    /\ CountEdit
    /\ \E f \in OverrideFields(kind) : \E v \in AdmissibleOverride(f) :
          overrides' = [g \in DOMAIN overrides \cup {f} |-> IF g = f THEN v ELSE overrides[g]]
    /\ overrides' # overrides
    /\ AdmittedInstance(kind, HasPreset, overrides')
    /\ UNCHANGED <<kind, allowed, preset, presetEnv, spec, live, statusHash>>

ClearOverride ==
    /\ CountEdit
    /\ \E f \in DOMAIN overrides : overrides' = [g \in DOMAIN overrides \ {f} |-> overrides[g]]
    /\ AdmittedInstance(kind, HasPreset, overrides')
    /\ UNCHANGED <<kind, allowed, preset, presetEnv, spec, live, statusHash>>

\* One field of the spec at a time; only the long-context kind has env.
EditSpec ==
    /\ CountEdit
    /\ \/ \E v \in {"", "false", "true"} : spec' = [spec EXCEPT !.pvcReadOnly = v]
       \/ \E v \in {"", "s"} : spec' = [spec EXCEPT !.apiKey = v]
       \/ \E v \in {"", "o"} : spec' = [spec EXCEPT !.overrideKey = v]
       \/ \E v \in {"ClusterIP", "NodePort", "LoadBalancer"} : spec' = [spec EXCEPT !.serviceType = v]
       \/ \E v \in {"", "30001"} : spec' = [spec EXCEPT !.nodePort = v]
       \/ \E v \in {"", "0", "1", "2"} : spec' = [spec EXCEPT !.replicas = v]
       \/ kind = "LongContext" /\ \E v \in Envs("o") : spec' = [spec EXCEPT !.env = v]
    /\ spec' # spec
    /\ UNCHANGED <<kind, allowed, preset, presetEnv, overrides, live, statusHash>>

\* A refused configuration leaves the Deployment alone; its hash is in the status.
Reconcile ==
    /\ live' = Applied(live)
    /\ statusHash' = Resolved.hash
    /\ UNCHANGED <<kind, allowed, preset, presetEnv, overrides, spec, edits>>

Next == EditPreset \/ EditPresetEnv \/ SetOverride \/ ClearOverride \/ EditSpec \/ Reconcile

Spec == Init /\ [][Next]_vars

-----------------------------------------------------------------------------
(* Properties. *)

\* The value a reader of the CRDs expects of a field: the override's, else the
\* preset's, else the documented default.
Documented(f) ==
    LET v == IF f \in DOMAIN overrides THEN overrides[f]
             ELSE IF f = "PVCReadOnly" THEN IF spec.pvcReadOnly = "true" THEN "true" ELSE ""
             ELSE IF f \in DOMAIN preset THEN preset[f] ELSE ""
    IN CASE f = "Image" /\ v = ""                  -> "DefaultImage"
         [] f = "ImagePullPolicy" /\ v = ""        -> "Never"
         [] f \in Counts /\ v = ""                 -> "1"
         [] f = "SecurityProfile" /\ v = "default" -> ""
         [] OTHER                                  -> v

\* No field of either CRD is lost on the way through the blocks of assignments of
\* Resolve, ResolveLongContext and what Reconcile lays on top, and none is taken
\* from the wrong side.
NothingDropped ==
    LET e == Resolved.conf IN \A f \in EffectiveConfig : e[f] = Documented(f)

\* BuildDeployment panics on a quantity that does not parse: whatever edits led
\* here, an accepted configuration holds none.
RenderNeverPanics ==
    LET e == Resolved.conf IN Accepted(e) => \A v \in MustParse(e) : ParsesAsQuantity(v)

\* Rules that admission states for one object hold of the merge of two in what is
\* applied: no request above its limit, and no engram-ipc without a configuration
\* or outside the namespaces the operator allows.
MergedRulesHold ==
    \A i \in DOMAIN live :
        LET e == live[i].conf
        IN /\ MemoryOrdered(e)
           /\ e["SecurityProfile"] = "engram-ipc" => e["EngramConfig"] = "object" /\ "ns" \in allowed

\* The pod holds together: every mount of every container has its volume, and an
\* environment variable is there once (a duplicate makes the apply fail).
PodHoldsTogether ==
    \A i \in DOMAIN live :
        LET d   == live[i].dep
            env == d.vllm.env
        IN /\ \A c \in {d.vllm} \cup d.sidecars : ToSet(c.mounts) \subseteq ToSet(d.volumes)
           /\ \A j, k \in DOMAIN env : env[j].name = env[k].name => j = k

\* Of an environment variable set in several places the pod gets the value of the
\* instance before the preset's, and the preset's before the one built in.
EnvPrecedence ==
    LET env == MergeEnv(BuiltinEnv \o Resolved.env)
        Names(list) == {list[i].name : i \in DOMAIN list}
    IN \A i \in DOMAIN env : env[i].value =
          IF env[i].name \in Names(spec.env) THEN "o"
          ELSE IF env[i].name \in Names(presetEnv) THEN "p" ELSE "builtin"

\* What the pod shows of a configuration: LoRA settings while LoRA is on, the size
\* of the cache while there is one, no difference between off and unset where vLLM
\* has only a switch, nor between a negative number and none; the security profile
\* changes nothing in the pod.
Visible(e) ==
    [f \in EffectiveConfig |->
        CASE f \in {"LoraModules", "MaxLoraRank"} /\ e["EnableLora"] # "true" -> ""
          [] f = "KVOffloadSize" /\ ~lmcache(e)                             -> ""
          [] f = "KVOffloadBackend" /\ ~lmcache(e)                          -> ""
          [] f \in {"EnableLora", "EnforceEager"} /\ e[f] = "false"         -> ""
          [] f = "TensorParallelSize" /\ e[f] = "-1"                        -> "1"
          [] f = "CPUOffloadGiB" /\ e[f] = "-1"                             -> ""
          [] f = "ProgressDeadlineSeconds"                                  -> ProgressDeadline(e)
          [] f = "SecurityProfile"                                          -> ""
          [] OTHER                                                          -> e[f]]

Redeploys == live # <<>> /\ live' # live

\* An accepted edit reaches the pod: two configurations are applied as the same
\* Deployment only when they differ in nothing a pod can show.
EditReachesPod ==
    [][Redeploys /\ live'[1].dep = live[1].dep => Visible(live'[1].conf) = Visible(live[1].conf)]_vars

\* The drift hash: a Deployment that changes by anything but the API key and the
\* replica count, neither of which is part of the hashed configuration, changes the
\* hash in the status.
SameOutsideHash(d, e) == d.secret = e.secret /\ d.replicas = e.replicas
HashTracksPod ==
    [][Redeploys /\ live'[1].dep # live[1].dep /\ SameOutsideHash(live'[1].dep, live[1].dep)
         => statusHash' # live[1].hash]_vars

\* "LMCache offload is single-slice only", says the rule both CRDs state for
\* themselves; nothing states it for what they are merged to.
LMCacheSingleSlice == \A i \in DOMAIN live : SingleSlice(live[i].conf)
=============================================================================
