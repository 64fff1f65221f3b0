----------------------------- MODULE Rendering ------------------------------
(***************************************************************************)
(* What the operator does with a resolved configuration: the checks that   *)
(* must pass before anything is applied, and the Deployment and Service    *)
(* built from it.  Values are those of Config; a rendered object keeps     *)
(* what depends on the configuration and leaves out what is constant.      *)
(***************************************************************************)
EXTENDS Config

-----------------------------------------------------------------------------
(* Validation. *)

ParsesAsQuantity(v) == v \in {"0", "1", "2"}

\* The patterns of the revisions and of the memory utilization.  Admission states
\* the same ones, so no value that gets here fails them; of an engramConfig it
\* looks at the braces only.
MatchesPattern(v) == v # "malformed"
IsObject(v)       == v = "object"

validateLongContextFlags(e) ==
    /\ \A f \in {"ModelRevision", "CodeRevision", "TokenizerRevision"} : e[f] # "" => MatchesPattern(e[f])
    /\ e["EngramConfig"] # "" => IsObject(e["EngramConfig"])

validateSecurityProfile179(e) ==
    /\ e["SecurityProfile"] \in {"", "default", "engram-ipc"}
    /\ e["SecurityProfile"] = "engram-ipc" => e["EngramConfig"] # ""
    /\ e["EngramConfig"] # "" => IsObject(e["EngramConfig"])

validateLoraModules(s) == s # "malformed"

Positive(v) == ParsesAsQuantity(v) /\ Num(v) > 0

MutMemoryUnordered(e) ==
    \A f \in {"MemoryRequest", "MemoryLimit"} : e[f] # "" => Positive(e[f])
ValidMemory(e) ==
    /\ \A f \in {"MemoryRequest", "MemoryLimit"} : e[f] # "" => Positive(e[f])
    /\ e["MemoryRequest"] # "" /\ e["MemoryLimit"] # ""
        => Num(e["MemoryLimit"]) >= Num(e["MemoryRequest"])

MutSHMUnchecked(e) ==
    /\ validateLongContextFlags(e) /\ validateSecurityProfile179(e)
    /\ ValidMemory(e)
    /\ validateLoraModules(e["LoraModules"])
    /\ e["MIGResource"] # "" /\ Num(e["MIGResourceCount"]) \in 1..8
    /\ e["GPUMemoryUtilization"] # "" => MatchesPattern(e["GPUMemoryUtilization"])
ValidateEffectiveConfig(e) ==
    /\ validateLongContextFlags(e)
    /\ validateSecurityProfile179(e)
    /\ ValidMemory(e)
    /\ validateLoraModules(e["LoraModules"])
    /\ Positive(e["SHMSizeLimit"])
    /\ e["MIGResource"] # "" /\ Num(e["MIGResourceCount"]) \in 1..8
    /\ e["GPUMemoryUtilization"] # "" => MatchesPattern(e["GPUMemoryUtilization"])

\* The list of namespaces the operator is started with: names only, no blanks and
\* no wildcards, else the process does not start.
ParseEngramIPCNamespaces(raw) ==
    IF \E i \in DOMAIN raw : raw[i] \in {"", "*"} THEN [ok |-> FALSE, names |-> {}]
    ELSE [ok |-> TRUE, names |-> {raw[i] : i \in DOMAIN raw}]

validateSecurityPolicy179(e, namespace, allowed) ==
    /\ ValidateEffectiveConfig(e)
    /\ e["SecurityProfile"] = "engram-ipc" => namespace \in allowed

-----------------------------------------------------------------------------
(* The command line: rows of flag, field and form, in the order of buildArgs. *)

lmcache(e) == e["KVOffloadBackend"] = "lmcache"

Row(flag, field, form) == [flag |-> flag, field |-> field, form |-> form]

BuildArgsRows ==
   <<Row("--model", "ModelID", "always"),
     Row("--dtype", "DType", "set"),
     Row("--quantization", "Quantization", "set"),
     Row("--max-model-len", "MaxModelLen", "always"),
     Row("--gpu-memory-utilization", "GPUMemoryUtilization", "always"),
     Row("--tensor-parallel-size", "TensorParallelSize", "above one"),
     Row("--enable-auto-tool-choice", "EnableAutoToolChoice", "switch"),
     Row("--tool-call-parser", "ToolCallParser", "set"),
     Row("--reasoning-parser", "ReasoningParser", "set"),
     Row("--chat-template", "ChatTemplate", "set"),
     Row("--kv-cache-dtype", "KVCacheDtype", "set"),
     Row("--mamba-cache-mode", "MambaCacheMode", "set"),
     Row("--mamba-backend", "MambaBackend", "set"),
     Row("prefix-caching", "EnablePrefixCaching", "either"),
     Row("--served-model-name", "ServedModelName", "set"),
     Row("--cpu-offload-gb", "CPUOffloadGiB", "positive"),
     Row("--max-num-batched-tokens", "MaxNumBatchedTokens", "set"),
     Row("--enable-chunked-prefill", "EnableChunkedPrefill", "switch"),
     Row("--kv-transfer-config", "KVOffloadSize", "lmcache"),
     Row("--speculative-config", "SpeculativeConfig", "set"),
     Row("--limit-mm-per-prompt", "LimitMmPerPrompt", "set"),
     Row("--max-num-seqs", "MaxNumSeqs", "set"),
     Row("--kv-cache-dtype-skip-layers", "KVCacheDtypeSkipLayers", "set"),
     Row("--enforce-eager", "EnforceEager", "switch"),
     Row("--compilation-config", "CompilationConfig", "set"),
     Row("--enable-lora", "EnableLora", "switch"),
     Row("--lora-modules", "LoraModules", "lora"),
     Row("--max-lora-rank", "MaxLoraRank", "lora")>>

LongContextFlagRows ==
   <<Row("--revision", "ModelRevision", "set"),
     Row("--code-revision", "CodeRevision", "set"),
     Row("--tokenizer-revision", "TokenizerRevision", "set"),
     Row("--trust-remote-code", "TrustRemoteCode", "switch"),
     Row("--disable-custom-all-reduce", "DisableCustomAllReduce", "switch"),
     Row("flashinfer-autotune", "FlashinferAutotune", "either"),
     Row("--engram-config", "EngramConfig", "set")>>

\* A "switch" takes no value; "either" is --enable- or --no-enable-; the connector's
\* JSON carries no buffer size when that is zero.
Emitted(e, row) ==
    LET v == e[row.field]
    IN CASE row.form = "set"        -> v # ""
         [] row.form = "switch"     -> v = "true"
         [] row.form = "either"     -> v # ""
         [] row.form = "above one"  -> Num(v) > 1
         [] row.form = "positive"   -> v \notin {"", "-1"}
         [] row.form = "lmcache"    -> lmcache(e)
         [] row.form = "lora"       -> /\ e["EnableLora"] = "true" /\ v # ""
                                       /\ row.field = "LoraModules" => validateLoraModules(v)
         [] OTHER                   -> TRUE

Arg(e, row) == <<row.flag, IF row.form = "switch" THEN "" ELSE e[row.field]>>

Args(e, rows) ==
    LET args[n \in 0..Len(rows)] ==
            IF n = 0 THEN <<>>
            ELSE IF Emitted(e, rows[n]) THEN Append(args[n - 1], Arg(e, rows[n])) ELSE args[n - 1]
    IN args[Len(rows)]

buildLongContextFlagArgs(e) == Args(e, LongContextFlagRows)

MutNoLongContextFlags(e) == Args(e, BuildArgsRows)
buildArgs(e) == Args(e, BuildArgsRows) \o buildLongContextFlagArgs(e)

-----------------------------------------------------------------------------
(* The objects. *)

\* Two of the five variables the operator sets itself; the others are alike.
BuiltinEnv == <<[name |-> "HF_HOME", value |-> "builtin"], [name |-> "HOME", value |-> "builtin"]>>

MutVolumes(e, apiKey) ==
    <<"models", "dshm", "hf-token">> \o (IF lmcache(e) THEN <<"lmcache-data">> ELSE <<>>)
Volumes(e, apiKey) ==
    <<"models", "dshm", "hf-token">>
        \o (IF apiKey # "" THEN <<"vllm-api-key">> ELSE <<>>)
        \o (IF lmcache(e) THEN <<"lmcache-data">> ELSE <<>>)

Mounts(e, apiKey) ==
    <<"models", "dshm", "hf-token">>
        \o (IF apiKey # "" THEN <<"vllm-api-key">> ELSE <<>>)
        \o (IF lmcache(e) THEN <<"lmcache-data">> ELSE <<>>)

buildLMCacheSidecar == [name |-> "lmcache", mounts |-> <<"lmcache-data">>]

\* A deadline under a minute, or none, is ten minutes.
ProgressDeadline(e) ==
    IF e["ProgressDeadlineSeconds"] \in {"", "59"} THEN "600" ELSE e["ProgressDeadlineSeconds"]

Container(e, env, apiKey) ==
    [name    |-> "vllm",
     image   |-> <<e["Image"], e["ImagePullPolicy"]>>,
     wrapped |-> apiKey # "",
     args    |-> buildArgs(e),
     env     |-> MergeEnv(BuiltinEnv \o env),
     limits  |-> <<e["MIGResource"], e["MIGResourceCount"], e["MemoryLimit"]>>,
     request |-> e["MemoryRequest"],
     mounts  |-> Mounts(e, apiKey),
     readOnly |-> e["PVCReadOnly"],
     probes  |-> <<e["LivenessProbe"], e["ReadinessProbe"], e["StartupProbe"]>>]

\* The claim and the secret of the HF token are immutable, and left out.
BuildDeployment(e, env, apiKey, replicas) ==
    [model      |-> e["ModelID"],
     replicas   |-> replicas,
     deadline   |-> ProgressDeadline(e),
     toleration |-> e["MIGResource"],
     volumes    |-> Volumes(e, apiKey),
     secret     |-> apiKey,
     shm        |-> e["SHMSizeLimit"],
     cacheLimit |-> IF lmcache(e)
                    THEN IF e["KVOffloadSize"] = "" THEN "16" ELSE e["KVOffloadSize"] ELSE "",
     vllm       |-> Container(e, env, apiKey),
     sidecars   |-> IF lmcache(e) THEN {buildLMCacheSidecar} ELSE {}]

\* The inputs of resource.MustParse while a Deployment is built.
MustParse(e) ==
    {e["SHMSizeLimit"], e["MIGResourceCount"]} \cup ({e["MemoryRequest"], e["MemoryLimit"]} \ {""})

\* A port left on the CR is not honoured for another type of Service.
BuildService(serviceType, nodePort) ==
    LET type == IF serviceType \in {"NodePort", "LoadBalancer", "ClusterIP"} THEN serviceType ELSE "ClusterIP"
    IN [type |-> type, nodePort |-> IF type = "NodePort" THEN nodePort ELSE ""]
=============================================================================
