------------------------------- MODULE Config -------------------------------
(***************************************************************************)
(* Resolution of an instance's configuration: the preset's fields, the     *)
(* overrides of the CR laid over them, controller defaults, the security   *)
(* profile, the environment and the drift hash.                            *)
(*                                                                         *)
(* A configuration is a function from the names of EffectiveConfig's       *)
(* fields to values.  "" is Go's zero value (also a nil pointer); "p" and  *)
(* "o" stand for a value the preset or the override brings.  Overrides are *)
(* a partial function: a name outside its domain is a nil pointer, so an   *)
(* override with the value "" is an explicit empty one.  Only fields the   *)
(* code looks into have values of their own.  Env is a list of name and    *)
(* value and is kept beside the function.                                  *)
(***************************************************************************)
EXTENDS Naturals, SequencesExt

Kinds == {"VLLM", "LongContext"}

-----------------------------------------------------------------------------
(* The CRD types. *)

ModelPresetFields ==
    {"MemoryRequest", "MemoryLimit", "ModelID", "Image", "ImagePullPolicy", "MIGResource",
     "MIGResourceCount", "Quantization", "DType", "ServedModelName", "MaxModelLen",
     "GPUMemoryUtilization", "TensorParallelSize", "EnableAutoToolChoice", "ToolCallParser",
     "SHMSizeLimit", "ProgressDeadlineSeconds", "LivenessProbe", "ReadinessProbe",
     "StartupProbe", "MaxNumBatchedTokens", "EnableChunkedPrefill", "EnableLora",
     "LoraModules", "MaxLoraRank", "ReasoningParser", "ChatTemplate"}

LongContextPresetFields ==
    ModelPresetFields \cup
    {"KVCacheDtype", "EnablePrefixCaching", "CPUOffloadGiB", "KVOffloadBackend",
     "KVOffloadSize", "SpeculativeConfig", "LimitMmPerPrompt", "MaxNumSeqs",
     "KVCacheDtypeSkipLayers", "MambaCacheMode", "MambaBackend", "EnforceEager",
     "CompilationConfig", "ModelRevision", "CodeRevision", "TokenizerRevision",
     "TrustRemoteCode", "DisableCustomAllReduce", "FlashinferAutotune", "SecurityProfile",
     "EngramConfig"}

ModelConfigOverrides == ModelPresetFields \cup {"PVCReadOnly"}

LongContextOverrides ==
    (LongContextPresetFields \cup {"PVCReadOnly"}) \ {"LimitMmPerPrompt", "KVCacheDtypeSkipLayers"}

PresetFields(kind)   == IF kind = "VLLM" THEN ModelPresetFields ELSE LongContextPresetFields
OverrideFields(kind) == IF kind = "VLLM" THEN ModelConfigOverrides ELSE LongContextOverrides

Counts     == {"MIGResourceCount", "TensorParallelSize"}
Switches   == {"EnableAutoToolChoice", "EnableChunkedPrefill", "TrustRemoteCode",
               "DisableCustomAllReduce", "PVCReadOnly"}
Pointers   == {"EnablePrefixCaching", "EnableLora", "EnforceEager", "FlashinferAutotune"}
Required   == {"ModelID", "MIGResource", "MaxModelLen", "GPUMemoryUtilization", "ImagePullPolicy",
               "ProgressDeadlineSeconds", "LivenessProbe", "ReadinessProbe"}

\* The values of a field that pass the schema, own standing for "p" or "o".
\* "1K" has the shape the pattern of shmSizeLimit asks for but is no quantity
\* (the suffix is "k"), and zero passes it as well; the memory fields have a CEL
\* rule on top that lets neither through.  Admission looks at the outer braces
\* of engramConfig only.
Admissible(f, own) ==
    CASE f \in Counts                           -> {"1", "2"}
      [] f = "SHMSizeLimit"                     -> {"1", "0", "1K"}
      [] f \in {"MemoryRequest", "MemoryLimit"} -> {"", "1", "2"}
      [] f \in Switches                         -> {"", "true"}
      [] f \in Pointers                         -> {"", "false", "true"}
      [] f = "KVOffloadBackend"                 -> {"none", "lmcache"}
      [] f = "SecurityProfile"                  -> {"default", "engram-ipc"}
      [] f = "EngramConfig"                     -> {"", "object", "malformed"}
      [] f = "LoraModules"                      -> {"", own, "malformed"}
      [] f \in Required                         -> {own}
      [] OTHER                                  -> {"", own}

\* An override can not say null: what is not set is not there.  It has fewer
\* minimums than the preset, so that it may bring a zero ("") or less ("-1"), and
\* patterns that allow no empty string.
AdmissibleOverride(f) ==
    CASE f \in Pointers                    -> {"false", "true"}
      [] f \in {"ModelID", "MaxModelLen"}  -> {"", "o"}
      [] f = "TensorParallelSize"          -> {"", "-1", "1", "2"}
      [] f = "CPUOffloadGiB"               -> {"", "-1", "o"}
      [] f = "ProgressDeadlineSeconds"     -> {"59", "o"}
      [] f \in {"ModelRevision", "CodeRevision", "TokenizerRevision", "MambaCacheMode",
                "MaxLoraRank", "StartupProbe"} -> {"o"}
      [] OTHER                             -> Admissible(f, "o")

Num(v) == CASE v = "1" -> 1 [] v = "2" -> 2 [] OTHER -> 0

\* CEL rules over one object, where has(f) says which fields it carries.
Has(obj, f) == f \in DOMAIN obj /\ obj[f] # ""
MemoryOrdered(obj) ==
    Has(obj, "MemoryRequest") /\ Has(obj, "MemoryLimit")
        => Num(obj["MemoryRequest"]) <= Num(obj["MemoryLimit"])
EngramComplete(obj) ==
    Has(obj, "SecurityProfile") /\ obj["SecurityProfile"] = "engram-ipc" => Has(obj, "EngramConfig")
SingleSlice(obj) ==
    Has(obj, "KVOffloadBackend") /\ obj["KVOffloadBackend"] = "lmcache"
        => \A f \in Counts : Has(obj, f) => Num(obj[f]) <= 1

AdmittedPreset(p) == MemoryOrdered(p) /\ EngramComplete(p) /\ SingleSlice(p)

\* ... and on the spec of the instance: enough to run without a preset, and a
\* tensor-parallel override that says how many slices it needs.
AdmittedInstance(kind, hasPreset, o) ==
    /\ MemoryOrdered(o) /\ EngramComplete(o) /\ SingleSlice(o)
    /\ hasPreset \/ {"ModelID", "MIGResource", "MaxModelLen"} \cup
                    (IF kind = "VLLM" THEN {} ELSE {"KVCacheDtype"}) \subseteq DOMAIN o
    /\ "TensorParallelSize" \in DOMAIN o /\ Num(o["TensorParallelSize"]) > 1
        => "MIGResourceCount" \in DOMAIN o /\ o["MIGResourceCount"] = o["TensorParallelSize"]

-----------------------------------------------------------------------------
(* merge.go.  A missing preset is the empty function.  A definition named    *)
(* Mut... is a faulty variant of the one that follows it; no definition uses *)
(* it.                                                                       *)

EffectiveConfig == LongContextPresetFields \cup {"PVCReadOnly"}
ZeroConfig      == [f \in EffectiveConfig |-> ""]

\* The fields of e that a block of assignments takes from an object.
Assign(e, from, fields) ==
    [f \in EffectiveConfig |-> IF f \in fields /\ f \in DOMAIN from THEN from[f] ELSE e[f]]

Defaults(e) ==
    [e EXCEPT !["Image"]              = IF @ = "" THEN "DefaultImage" ELSE @,
              !["ImagePullPolicy"]    = IF @ = "" THEN "Never" ELSE @,
              !["TensorParallelSize"] = IF @ = "" THEN "1" ELSE @,
              !["MIGResourceCount"]   = IF @ = "" THEN "1" ELSE @]

LoraPointers == {"EnableLora", "MaxLoraRank"}

\* The struct literal of Resolve, and its block of overrides, one by one: whether
\* they leave out a field of the CRD is what NothingDropped asks.
MutPresetCopyResolve == ModelPresetFields \ (LoraPointers \cup {"EnableChunkedPrefill"})
PresetCopyResolve ==
    {"MemoryRequest", "MemoryLimit", "ModelID", "ChatTemplate", "ReasoningParser", "Image",
     "ImagePullPolicy", "MIGResource", "MIGResourceCount", "Quantization", "DType",
     "ServedModelName", "MaxModelLen", "GPUMemoryUtilization", "TensorParallelSize",
     "EnableAutoToolChoice", "ToolCallParser", "SHMSizeLimit", "ProgressDeadlineSeconds",
     "LivenessProbe", "ReadinessProbe", "StartupProbe", "MaxNumBatchedTokens",
     "EnableChunkedPrefill", "LoraModules"}

OverriddenResolve ==
    {"MemoryRequest", "MemoryLimit", "ChatTemplate", "ReasoningParser", "ModelID", "Image",
     "ImagePullPolicy", "MIGResource", "MIGResourceCount", "Quantization", "DType",
     "ServedModelName", "MaxModelLen", "GPUMemoryUtilization", "TensorParallelSize",
     "EnableAutoToolChoice", "ToolCallParser", "SHMSizeLimit", "ProgressDeadlineSeconds",
     "LivenessProbe", "ReadinessProbe", "StartupProbe", "MaxNumBatchedTokens",
     "EnableChunkedPrefill", "EnableLora", "LoraModules", "MaxLoraRank", "PVCReadOnly"}

Resolve(preset, overrides) ==
    LET copied  == Assign(ZeroConfig, preset, PresetCopyResolve)
        pointed == Assign(copied, preset, LoraPointers)
    IN Defaults(Assign(pointed, overrides, OverriddenResolve))

\* mergeLongContextFlags also holds the override of MaxNumSeqs.
Flags178 == {"ModelRevision", "CodeRevision", "TokenizerRevision", "TrustRemoteCode",
             "DisableCustomAllReduce", "FlashinferAutotune", "EngramConfig"}

mergeLongContextFlags(e, preset, overrides) ==
    Assign(Assign(e, preset, Flags178), overrides, Flags178 \cup {"MaxNumSeqs"})

\* An explicit default is the same as none, in the hash too.
resolveSecurityProfile179(e, preset, overrides) ==
    LET merged == Assign(Assign(e, preset, {"SecurityProfile"}), overrides, {"SecurityProfile"})
    IN [merged EXCEPT !["SecurityProfile"] = IF @ = "default" THEN "" ELSE @]

LongContextPointers     == {"EnablePrefixCaching", "EnforceEager", "CompilationConfig"} \cup LoraPointers
PresetCopyLongContext ==
    {"MemoryRequest", "MemoryLimit", "ModelID", "MambaBackend", "MambaCacheMode",
     "KVCacheDtypeSkipLayers", "MaxNumSeqs", "LimitMmPerPrompt", "SpeculativeConfig",
     "ChatTemplate", "ReasoningParser", "Image", "ImagePullPolicy", "MIGResource",
     "MIGResourceCount", "Quantization", "DType", "ServedModelName", "MaxModelLen",
     "GPUMemoryUtilization", "TensorParallelSize", "EnableAutoToolChoice", "ToolCallParser",
     "SHMSizeLimit", "ProgressDeadlineSeconds", "LivenessProbe", "ReadinessProbe",
     "StartupProbe", "KVCacheDtype", "CPUOffloadGiB", "MaxNumBatchedTokens",
     "EnableChunkedPrefill", "KVOffloadBackend", "KVOffloadSize", "LoraModules"}

OverriddenLongContext ==
    {"MemoryRequest", "MemoryLimit", "EnforceEager", "CompilationConfig", "MambaBackend",
     "MambaCacheMode", "SpeculativeConfig", "ChatTemplate", "ReasoningParser", "ModelID",
     "Image", "ImagePullPolicy", "MIGResource", "MIGResourceCount", "Quantization", "DType",
     "ServedModelName", "MaxModelLen", "GPUMemoryUtilization", "TensorParallelSize",
     "EnableAutoToolChoice", "ToolCallParser", "SHMSizeLimit", "ProgressDeadlineSeconds",
     "LivenessProbe", "ReadinessProbe", "StartupProbe", "KVCacheDtype", "EnablePrefixCaching",
     "CPUOffloadGiB", "MaxNumBatchedTokens", "EnableChunkedPrefill", "KVOffloadBackend",
     "KVOffloadSize", "EnableLora", "LoraModules", "MaxLoraRank", "PVCReadOnly"}

ResolveLongContext(preset, overrides) ==
    LET copied  == Assign(ZeroConfig, preset, PresetCopyLongContext)
        pointed == Assign(copied, preset, LongContextPointers)
        laid    == Assign(pointed, overrides, OverriddenLongContext)
        flagged == mergeLongContextFlags(laid, preset, overrides)
    IN resolveSecurityProfile179(Defaults(flagged), preset, overrides)

\* Later values replace earlier ones in the place of the first; new names append.
Put(result, env) ==
    LET at == {i \in DOMAIN result : result[i].name = env.name}
    IN IF at = {} THEN Append(result, env)
       ELSE [i \in DOMAIN result |-> IF i \in at THEN env ELSE result[i]]

MutMergeEnv(list) == list
MergeEnv(list) ==
    LET result[n \in 0..Len(list)] == IF n = 0 THEN <<>> ELSE Put(result[n - 1], list[n])
    IN result[Len(list)]

\* sha256 over the JSON of the configuration: a zero value is not in it.
HashConfig(e, env) == [conf |-> {<<f, e[f]>> : f \in {g \in EffectiveConfig : e[g] # ""}}, env |-> env]

\* What Reconcile resolves: configuration, environment and hash.  The two steps
\* after Resolve change the configuration and hash it again.
WithEnv(c, env) ==
    LET merged == MergeEnv(c.env \o env)
    IN [conf |-> c.conf, env |-> merged, hash |-> HashConfig(c.conf, merged)]

MutReadOnlyUnhashed(c, pvcReadOnly, overrides) ==
    IF pvcReadOnly = "" \/ "PVCReadOnly" \in DOMAIN overrides THEN c
    ELSE [c EXCEPT !.conf["PVCReadOnly"] = IF pvcReadOnly = "true" THEN "true" ELSE ""]
WithPVCReadOnly(c, pvcReadOnly, overrides) ==
    IF pvcReadOnly = "" \/ "PVCReadOnly" \in DOMAIN overrides THEN c
    ELSE LET e == [c.conf EXCEPT !["PVCReadOnly"] = IF pvcReadOnly = "true" THEN "true" ELSE ""]
         IN [conf |-> e, env |-> c.env, hash |-> HashConfig(e, c.env)]

ResolveLongContextInstance(preset, presetEnv, overrides, env) ==
    LET e == ResolveLongContext(preset, overrides)
        c == [conf |-> e, env |-> MergeEnv(presetEnv), hash |-> HashConfig(e, MergeEnv(presetEnv))]
    IN WithEnv(c, env)

ResolveInstance(kind, preset, presetEnv, overrides, spec) ==
    WithPVCReadOnly(
        IF kind = "VLLM"
        THEN LET e == Resolve(preset, overrides) IN [conf |-> e, env |-> <<>>, hash |-> HashConfig(e, <<>>)]
        ELSE ResolveLongContextInstance(preset, presetEnv, overrides, spec.env),
        spec.pvcReadOnly, overrides)
=============================================================================
