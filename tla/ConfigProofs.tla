---------------------------- MODULE ConfigProofs ----------------------------
(***************************************************************************)
(* What holds of a resolved and of an applied configuration for every      *)
(* value of every field, every number of edits and every list of           *)
(* namespaces.                                                             *)
(***************************************************************************)
EXTENDS ConfigEdits, RenderingProofs

\* The objects are of the types of their CRD; the preset is referenced or not.
Objects ==
    /\ kind \in Kinds
    /\ DOMAIN preset \in {{}, PresetFields(kind)}
    /\ DOMAIN overrides \subseteq OverrideFields(kind)

\* Every value passed the schema of its field.
Values ==
    /\ \A f \in DOMAIN preset : preset[f] \in Admissible(f, "p")
    /\ \A f \in DOMAIN overrides : overrides[f] \in AdmissibleOverride(f)

\* Each side has an environment of its own values, of the long-context kind only.
Environments ==
    /\ DOMAIN spec = {"pvcReadOnly", "apiKey", "overrideKey", "serviceType", "nodePort", "replicas", "env"}
    /\ presetEnv \in Envs("p") /\ spec.env \in Envs("o")
    /\ kind = "VLLM" => presetEnv = <<>> /\ spec.env = <<>>

EnvVars == [name : {"A", "HF_HOME", "HOME"}, value : {"builtin", "p", "o"}]

\* A configuration has a value for each field.
IsConfig(e) == e = [f \in EffectiveConfig |-> e[f]]

\* The fields of which a flag shows only part have no other values than these.
Shaped(e) ==
    /\ e["TensorParallelSize"] \in {"-1", "1", "2"}
    /\ \A f \in {"EnableAutoToolChoice", "EnableChunkedPrefill", "TrustRemoteCode", "DisableCustomAllReduce"} :
          e[f] \in {"", "true"}
    /\ \A f \in {"EnableLora", "EnforceEager"} : e[f] \in {"", "false", "true"}

\* What was applied had been accepted, and its hash and its Deployment are of one
\* configuration and one environment.
Faithful(l) ==
    /\ IsConfig(l.conf) /\ Shaped(l.conf)
    /\ l.hash = HashConfig(l.conf, l.hash.env)
    /\ l.hash.env \in Seq(EnvVars)
    /\ l.dep = BuildDeployment(l.conf, l.hash.env, l.dep.secret, l.dep.replicas)
    /\ Accepted(l.conf)
    /\ kind = "VLLM" => l.conf["SecurityProfile"] = ""

ConfInv ==
    /\ Objects /\ Values /\ Environments
    /\ live = <<>> \/ (live = <<live[1]>> /\ Faithful(live[1]))

-----------------------------------------------------------------------------
(* merge.go, field by field. *)

\* The override's value of a field, else the preset's, else the zero value.
Laid(p, o, f) == IF f \in DOMAIN o THEN o[f] ELSE IF f \in DOMAIN p THEN p[f] ELSE ""

\* ... with the defaults of the controller.
Defaulted(f, v) ==
    IF f = "Image" /\ v = "" THEN "DefaultImage"
    ELSE IF f = "ImagePullPolicy" /\ v = "" THEN "Never"
    ELSE IF f \in Counts /\ v = "" THEN "1" ELSE v

\* The four defaulted fields are fields of a configuration.
LEMMA DefaultFields ==
  {"Image", "ImagePullPolicy", "TensorParallelSize", "MIGResourceCount"} \subseteq ModelPresetFields
  BY DEF ModelPresetFields

LEMMA DefaultsAt ==
  ASSUME NEW e, IsConfig(e)
  PROVE  IsConfig(Defaults(e)) /\ \A f \in EffectiveConfig : Defaults(e)[f] = Defaulted(f, e[f])
  <1>1. {"Image", "ImagePullPolicy", "TensorParallelSize", "MIGResourceCount"} \subseteq EffectiveConfig
    BY DefaultFields DEF EffectiveConfig, LongContextPresetFields
  <1> DEFINE d == [f \in EffectiveConfig |-> Defaulted(f, e[f])]
  <1>2. DOMAIN e = EffectiveConfig
    BY DEF IsConfig
  <1>3. Defaults(e) = d
    BY <1>1, <1>2 DEF Defaults, Defaulted, Counts, IsConfig
  <1> QED BY <1>3 DEF IsConfig

\* What the literal and the two blocks of Resolve together assign: every field of
\* the CRDs.
LEMMA ResolveFields ==
  /\ PresetCopyResolve \cup LoraPointers = ModelPresetFields
  /\ PresetCopyResolve \cap LoraPointers = {}
  /\ OverriddenResolve = ModelConfigOverrides
  <1>1. PresetCopyResolve \cup LoraPointers = ModelPresetFields
    BY DEF PresetCopyResolve, LoraPointers, ModelPresetFields
  <1>2. PresetCopyResolve \cap LoraPointers = {}
    BY DEF PresetCopyResolve, LoraPointers
  <1>3. OverriddenResolve = ModelConfigOverrides
    BY DEF OverriddenResolve, ModelConfigOverrides, ModelPresetFields
  <1> QED BY <1>1, <1>2, <1>3

LEMMA ResolveAt ==
  ASSUME NEW p, DOMAIN p \subseteq ModelPresetFields, NEW o, DOMAIN o \subseteq ModelConfigOverrides
  PROVE  /\ IsConfig(Resolve(p, o))
         /\ \A f \in EffectiveConfig : Resolve(p, o)[f] = Defaulted(f, Laid(p, o, f))
  <1> DEFINE copied  == Assign(ZeroConfig, p, PresetCopyResolve)
             pointed == Assign(copied, p, LoraPointers)
             laid    == Assign(pointed, o, OverriddenResolve)
  <1>1. Resolve(p, o) = Defaults(laid)
    BY DEF Resolve
  <1>2. \A f \in EffectiveConfig : copied[f] =
          IF f \in PresetCopyResolve /\ f \in DOMAIN p THEN p[f] ELSE ""
    BY DEF Assign, ZeroConfig
  <1> HIDE DEF copied
  <1>3. \A f \in EffectiveConfig : pointed[f] = IF f \in DOMAIN p THEN p[f] ELSE ""
    BY <1>2, ResolveFields DEF Assign
  <1> HIDE DEF pointed
  <1>4. \A f \in EffectiveConfig : laid[f] = Laid(p, o, f)
    BY <1>3, ResolveFields DEF Assign, Laid
  <1>5. IsConfig(laid)
    BY DEF Assign, IsConfig
  <1> HIDE DEF laid
  <1> QED BY <1>1, <1>4, <1>5, DefaultsAt

\* The same of ResolveLongContext, whose fields come in four blocks.
LEMMA LongContextFields ==
  /\ LongContextPointers \cup Flags178 \cup {"SecurityProfile", "MaxNumSeqs"} \subseteq LongContextPresetFields
  /\ Flags178 \cup {"SecurityProfile", "MaxNumSeqs"} \subseteq LongContextOverrides
  /\ LongContextPointers \cap (Flags178 \cup {"SecurityProfile", "MaxNumSeqs"}) = {}
  /\ "SecurityProfile" \notin Flags178 /\ "MaxNumSeqs" \notin Flags178
  <1>1. LongContextPointers \subseteq LongContextPresetFields
    BY DEF LongContextPointers, LoraPointers, LongContextPresetFields, ModelPresetFields
  <1>2. Flags178 \cup {"SecurityProfile", "MaxNumSeqs"} \subseteq LongContextPresetFields
    BY DEF Flags178, LongContextPresetFields
  <1>3. /\ LongContextPointers \cap (Flags178 \cup {"SecurityProfile", "MaxNumSeqs"}) = {}
        /\ "SecurityProfile" \notin Flags178 /\ "MaxNumSeqs" \notin Flags178
    BY DEF LongContextPointers, LoraPointers, Flags178
  <1>4. (Flags178 \cup {"SecurityProfile", "MaxNumSeqs"}) \cap {"LimitMmPerPrompt", "KVCacheDtypeSkipLayers"} = {}
    BY DEF Flags178
  <1> QED BY <1>1, <1>2, <1>3, <1>4 DEF LongContextOverrides

LEMMA LongContextCopied ==
  PresetCopyLongContext = LongContextPresetFields \ (LongContextPointers \cup Flags178 \cup {"SecurityProfile"})
  BY DEF PresetCopyLongContext, LongContextPresetFields, ModelPresetFields, LongContextPointers,
         LoraPointers, Flags178

LEMMA LongContextOverridden ==
  OverriddenLongContext = LongContextOverrides \ (Flags178 \cup {"MaxNumSeqs", "SecurityProfile"})
  BY DEF OverriddenLongContext, LongContextOverrides, LongContextPresetFields, ModelPresetFields, Flags178

LEMMA ResolveLongContextAt ==
  ASSUME NEW p, DOMAIN p \subseteq LongContextPresetFields, NEW o, DOMAIN o \subseteq LongContextOverrides
  PROVE  /\ IsConfig(ResolveLongContext(p, o))
         /\ \A f \in EffectiveConfig : ResolveLongContext(p, o)[f] =
               IF f = "SecurityProfile" /\ Laid(p, o, f) = "default" THEN ""
               ELSE Defaulted(f, Laid(p, o, f))
  <1> DEFINE copied  == Assign(ZeroConfig, p, PresetCopyLongContext)
             pointed == Assign(copied, p, LongContextPointers)
             laid    == Assign(pointed, o, OverriddenLongContext)
             preset1 == Assign(laid, p, Flags178)
             flagged == Assign(preset1, o, Flags178 \cup {"MaxNumSeqs"})
             defaulted == Defaults(flagged)
             profile == Assign(defaulted, p, {"SecurityProfile"})
             merged  == Assign(profile, o, {"SecurityProfile"})
  <1>1. ResolveLongContext(p, o) =
          [merged EXCEPT !["SecurityProfile"] = IF @ = "default" THEN "" ELSE @]
    BY DEF ResolveLongContext, mergeLongContextFlags, resolveSecurityProfile179
  <1>2. \A f \in EffectiveConfig : copied[f] =
          IF f \in PresetCopyLongContext /\ f \in DOMAIN p THEN p[f] ELSE ""
    BY DEF Assign, ZeroConfig
  <1> HIDE DEF copied
  <1>3. \A f \in EffectiveConfig : pointed[f] =
          IF f \in DOMAIN p /\ f \notin Flags178 \cup {"SecurityProfile"} THEN p[f] ELSE ""
    BY <1>2, LongContextFields, LongContextCopied DEF Assign
  <1> HIDE DEF pointed
  <1>4. \A f \in EffectiveConfig \ (Flags178 \cup {"SecurityProfile", "MaxNumSeqs"}) : laid[f] = Laid(p, o, f)
    BY <1>3, LongContextOverridden DEF Assign, Laid
  <1>5. \A f \in EffectiveConfig \cap {"MaxNumSeqs"} : laid[f] = IF f \in DOMAIN p THEN p[f] ELSE ""
    <2>1. "MaxNumSeqs" \notin Flags178 \cup {"SecurityProfile"}
      BY LongContextFields
    <2>2. "MaxNumSeqs" \notin OverriddenLongContext
      BY LongContextOverridden
    <2>3. ASSUME NEW f \in EffectiveConfig, f = "MaxNumSeqs"
          PROVE  laid[f] = IF f \in DOMAIN p THEN p[f] ELSE ""
      <3>1. laid[f] = pointed[f]
        BY <2>2, <2>3 DEF Assign
      <3> QED BY <1>3, <2>1, <2>3, <3>1
    <2> HIDE DEF laid
    <2> QED BY <2>3
  <1>6. \A f \in EffectiveConfig \cap Flags178 : laid[f] = ""
    BY <1>3, LongContextOverridden DEF Assign
  <1> HIDE DEF laid
  <1>7. /\ \A f \in EffectiveConfig \cap Flags178 : preset1[f] = IF f \in DOMAIN p THEN p[f] ELSE ""
        /\ \A f \in EffectiveConfig \ Flags178 : preset1[f] = laid[f]
    BY <1>6 DEF Assign
  <1> HIDE DEF preset1
  <1>8. \A f \in EffectiveConfig \ {"SecurityProfile"} : flagged[f] = Laid(p, o, f)
    BY <1>4, <1>5, <1>7, LongContextFields DEF Assign, Laid
  <1>9. IsConfig(flagged)
    BY DEF Assign, IsConfig
  <1>10. flagged["SecurityProfile"] = ""
    <2>1. "SecurityProfile" \in EffectiveConfig
      BY LongContextFields DEF EffectiveConfig
    <2>2. preset1["SecurityProfile"] = laid["SecurityProfile"]
      BY <1>7, <2>1, LongContextFields
    <2>3. laid["SecurityProfile"] = ""
      BY <1>3, <2>1, LongContextOverridden DEF Assign, laid
    <2> QED BY <2>1, <2>2, <2>3, LongContextFields DEF Assign
  <1> HIDE DEF flagged
  <1>11. /\ \A f \in EffectiveConfig \ {"SecurityProfile"} : defaulted[f] = Defaulted(f, Laid(p, o, f))
         /\ defaulted["SecurityProfile"] = ""
    <2>1. "SecurityProfile" \in EffectiveConfig
      BY LongContextFields DEF EffectiveConfig
    <2>2. Defaulted("SecurityProfile", "") = ""
      BY DEF Defaulted, Counts
    <2> QED BY <1>8, <1>9, <1>10, <2>1, <2>2, DefaultsAt
  <1> HIDE DEF defaulted
  <1>12. /\ \A f \in EffectiveConfig \ {"SecurityProfile"} : profile[f] = Defaulted(f, Laid(p, o, f))
         /\ "SecurityProfile" \in EffectiveConfig
         /\ profile["SecurityProfile"] = IF "SecurityProfile" \in DOMAIN p THEN p["SecurityProfile"] ELSE ""
    BY <1>11, LongContextFields DEF Assign, EffectiveConfig
  <1> HIDE DEF profile
  <1>13. /\ \A f \in EffectiveConfig \ {"SecurityProfile"} : merged[f] = Defaulted(f, Laid(p, o, f))
         /\ merged["SecurityProfile"] = Laid(p, o, "SecurityProfile")
         /\ IsConfig(merged)
    BY <1>12 DEF Assign, Laid, IsConfig
  <1> HIDE DEF merged
  <1>14. \A v : Defaulted("SecurityProfile", v) = v
    BY DEF Defaulted, Counts
  <1> DEFINE r == [f \in EffectiveConfig |-> IF f = "SecurityProfile" /\ merged[f] = "default" THEN "" ELSE merged[f]]
  <1>15. ResolveLongContext(p, o) = r
    BY <1>1, <1>12, <1>13 DEF IsConfig
  <1>16. IsConfig(r)
    BY DEF IsConfig
  <1> QED BY <1>13, <1>14, <1>15, <1>16

-----------------------------------------------------------------------------
(* What Reconcile resolves. *)

\* The hash is that of the configuration and the environment beside it.
Sealed(c) == c.hash = HashConfig(c.conf, c.env)

\* Before the read-only flag of the instance is laid over it.
Base == IF kind = "VLLM"
        THEN LET e == Resolve(preset, overrides) IN [conf |-> e, env |-> <<>>, hash |-> HashConfig(e, <<>>)]
        ELSE ResolveLongContextInstance(preset, presetEnv, overrides, spec.env)

LEMMA BaseAt ==
  ASSUME Objects
  PROVE  /\ Sealed(Base) /\ IsConfig(Base.conf)
         /\ \A f \in EffectiveConfig : Base.conf[f] =
               IF f = "SecurityProfile" /\ Laid(preset, overrides, f) = "default" THEN ""
               ELSE Defaulted(f, Laid(preset, overrides, f))
         /\ kind = "VLLM" => Base.conf["SecurityProfile"] = ""
  <1>1. "SecurityProfile" \notin ModelConfigOverrides /\ "SecurityProfile" \in EffectiveConfig
        /\ ModelPresetFields \subseteq ModelConfigOverrides
    BY LongContextFields DEF ModelConfigOverrides, ModelPresetFields, EffectiveConfig
  <1>2. CASE kind = "VLLM"
    <2> DEFINE e == Resolve(preset, overrides)
    <2>1. DOMAIN preset \subseteq ModelPresetFields /\ DOMAIN overrides \subseteq ModelConfigOverrides
      BY <1>2 DEF Objects, PresetFields, OverrideFields
    <2>2. IsConfig(e) /\ \A f \in EffectiveConfig : e[f] = Defaulted(f, Laid(preset, overrides, f))
      BY <2>1, ResolveAt
    <2>3. Base = [conf |-> e, env |-> <<>>, hash |-> HashConfig(e, <<>>)]
      BY <1>2 DEF Base
    <2>4. Laid(preset, overrides, "SecurityProfile") = ""
      BY <1>1, <2>1 DEF Laid
    <2>5. Defaulted("SecurityProfile", "") = ""
      BY DEF Defaulted, Counts
    <2> HIDE DEF e
    <2>6. Base.conf = e /\ Sealed(Base)
      BY <2>3 DEF Sealed
    <2> QED BY <1>1, <2>2, <2>4, <2>5, <2>6
  <1>3. CASE kind # "VLLM"
    <2> DEFINE e == ResolveLongContext(preset, overrides)
               own == MergeEnv(presetEnv)
               env == MergeEnv(own \o spec.env)
    <2>1. DOMAIN preset \subseteq LongContextPresetFields /\ DOMAIN overrides \subseteq LongContextOverrides
      BY <1>3 DEF Objects, PresetFields, OverrideFields
    <2>2. /\ IsConfig(e)
          /\ \A f \in EffectiveConfig : e[f] =
               IF f = "SecurityProfile" /\ Laid(preset, overrides, f) = "default" THEN ""
               ELSE Defaulted(f, Laid(preset, overrides, f))
      BY <2>1, ResolveLongContextAt
    <2>3. Base = [conf |-> e, env |-> env, hash |-> HashConfig(e, env)]
      BY <1>3 DEF Base, ResolveLongContextInstance, WithEnv
    <2> HIDE DEF e, env
    <2>4. Base.conf = e /\ Sealed(Base)
      BY <2>3 DEF Sealed
    <2> QED BY <1>3, <2>2, <2>4
  <1> QED BY <1>2, <1>3

LEMMA ResolvedAt ==
  ASSUME Objects
  PROVE  /\ Sealed(Resolved) /\ IsConfig(Resolved.conf)
         /\ \A f \in EffectiveConfig : Resolved.conf[f] = Documented(f)
         /\ kind = "VLLM" => Resolved.conf["SecurityProfile"] = ""
  <1> DEFINE set == IF spec.pvcReadOnly = "true" THEN "true" ELSE ""
             e == [Base.conf EXCEPT !["PVCReadOnly"] = set]
             Read(f) == IF f = "PVCReadOnly" /\ f \notin DOMAIN overrides THEN set ELSE Base.conf[f]
  <1>1. Resolved = WithPVCReadOnly(Base, spec.pvcReadOnly, overrides)
    BY DEF Resolved, ResolveInstance, Base
  <1>2. "PVCReadOnly" \in EffectiveConfig /\ "PVCReadOnly" \notin ModelPresetFields
        /\ "PVCReadOnly" \notin LongContextPresetFields
    BY DEF EffectiveConfig, LongContextPresetFields, ModelPresetFields
  <1>3. "PVCReadOnly" \notin DOMAIN preset
    BY <1>2 DEF Objects, PresetFields
  <1>4. \A v : Defaulted("PVCReadOnly", v) = v
    BY DEF Defaulted, Counts
  <1>5. "PVCReadOnly" \notin DOMAIN overrides => Base.conf["PVCReadOnly"] = ""
    BY <1>2, <1>3, <1>4, BaseAt DEF Laid
  <1>6. /\ Sealed(Resolved) /\ IsConfig(Resolved.conf)
        /\ \A f \in EffectiveConfig : Resolved.conf[f] = Read(f)
    <2>1. CASE spec.pvcReadOnly = "" \/ "PVCReadOnly" \in DOMAIN overrides
      <3>1. Resolved = Base
        BY <1>1, <2>1 DEF WithPVCReadOnly
      <3>2. \A f \in EffectiveConfig : Base.conf[f] = Read(f)
        BY <1>5, <2>1
      <3> QED BY <3>1, <3>2, BaseAt
    <2>2. CASE ~(spec.pvcReadOnly = "" \/ "PVCReadOnly" \in DOMAIN overrides)
      <3>1. Resolved = [conf |-> e, env |-> Base.env, hash |-> HashConfig(e, Base.env)]
        BY <1>1, <2>2 DEF WithPVCReadOnly
      <3>2. IsConfig(e) /\ \A f \in EffectiveConfig : e[f] = Read(f)
        BY <1>2, <2>2, BaseAt DEF IsConfig
      <3> HIDE DEF e, Read
      <3>3. Resolved.conf = e /\ Sealed(Resolved)
        BY <3>1 DEF Sealed
      <3> QED BY <3>2, <3>3
    <2> QED BY <2>1, <2>2
  <1>7. ASSUME NEW f \in EffectiveConfig
        PROVE  Read(f) = Documented(f)
    <2>1. CASE f = "PVCReadOnly"
      <3>1. Documented(f) = IF f \in DOMAIN overrides THEN overrides[f] ELSE set
        BY <2>1 DEF Documented, Counts
      <3>2. f \in DOMAIN overrides => Base.conf[f] = overrides[f]
        BY <1>2, <1>4, <2>1, BaseAt DEF Laid
      <3> QED BY <2>1, <3>1, <3>2
    <2>2. CASE f # "PVCReadOnly"
      <3> DEFINE v == Laid(preset, overrides, f)
      <3>1. Documented(f) = CASE f = "Image" /\ v = ""                  -> "DefaultImage"
                              [] f = "ImagePullPolicy" /\ v = ""        -> "Never"
                              [] f \in Counts /\ v = ""                 -> "1"
                              [] f = "SecurityProfile" /\ v = "default" -> ""
                              [] OTHER                                  -> v
        BY <2>2 DEF Documented, Laid
      <3>2. Base.conf[f] = IF f = "SecurityProfile" /\ v = "default" THEN "" ELSE Defaulted(f, v)
        BY BaseAt
      <3> HIDE DEF v
      <3> QED BY <2>2, <3>1, <3>2 DEF Defaulted, Counts
    <2> QED BY <2>1, <2>2
  <1>8. "SecurityProfile" \in EffectiveConfig /\ Read("SecurityProfile") = Base.conf["SecurityProfile"]
    BY LongContextFields DEF EffectiveConfig
  <1> QED BY <1>6, <1>7, <1>8, BaseAt

\* The schema of the fields of which a flag shows only part.
LEMMA AdmissibleAt ==
  ASSUME NEW own
  PROVE  /\ Admissible("TensorParallelSize", own) = {"1", "2"}
         /\ \A f \in {"EnableAutoToolChoice", "EnableChunkedPrefill", "TrustRemoteCode", "DisableCustomAllReduce"} :
               Admissible(f, own) = {"", "true"}
         /\ \A f \in {"EnableLora", "EnforceEager"} : Admissible(f, own) = {"", "false", "true"}
  <1>1. Admissible("TensorParallelSize", own) = {"1", "2"}
    BY DEF Admissible, Counts, Switches, Pointers, Required
  <1>2. ASSUME NEW f \in {"EnableAutoToolChoice", "EnableChunkedPrefill", "TrustRemoteCode", "DisableCustomAllReduce"}
        PROVE  Admissible(f, own) = {"", "true"}
    BY DEF Admissible, Counts, Switches, Pointers, Required
  <1>3. ASSUME NEW f \in {"EnableLora", "EnforceEager"}
        PROVE  Admissible(f, own) = {"", "false", "true"}
    BY DEF Admissible, Counts, Switches, Pointers, Required
  <1> QED BY <1>1, <1>2, <1>3

LEMMA AdmissibleOverrideAt ==
  /\ AdmissibleOverride("TensorParallelSize") = {"", "-1", "1", "2"}
  /\ \A f \in {"EnableAutoToolChoice", "EnableChunkedPrefill", "TrustRemoteCode", "DisableCustomAllReduce"} :
        AdmissibleOverride(f) = {"", "true"}
  /\ \A f \in {"EnableLora", "EnforceEager"} : AdmissibleOverride(f) = {"false", "true"}
  <1>1. \A f \in {"EnableAutoToolChoice", "EnableChunkedPrefill", "TrustRemoteCode",
                   "DisableCustomAllReduce"} : AdmissibleOverride(f) = Admissible(f, "o")
    BY DEF AdmissibleOverride, Pointers
  <1>3. AdmissibleOverride("TensorParallelSize") = {"", "-1", "1", "2"}
    BY DEF AdmissibleOverride, Pointers
  <1>2. \A f \in {"EnableLora", "EnforceEager"} : AdmissibleOverride(f) = {"false", "true"}
    BY DEF AdmissibleOverride, Pointers
  <1> QED BY <1>1, <1>2, <1>3, AdmissibleAt

LEMMA ShapedAt ==
  ASSUME Objects, Values
  PROVE  Shaped(Resolved.conf)
  <1> DEFINE Plain == {"EnableAutoToolChoice", "EnableChunkedPrefill", "TrustRemoteCode", "DisableCustomAllReduce"}
             Triple == {"EnableLora", "EnforceEager"}
  <1>1. Plain \cup Triple \cup {"TensorParallelSize"} \subseteq EffectiveConfig
    BY DEF EffectiveConfig, LongContextPresetFields, ModelPresetFields
  <1>2. \A f \in EffectiveConfig : Resolved.conf[f] = Documented(f)
    BY ResolvedAt
  <1>3. Documented("TensorParallelSize") \in {"-1", "1", "2"}
    <2>1. /\ "TensorParallelSize" \in DOMAIN overrides => overrides["TensorParallelSize"] \in {"", "-1", "1", "2"}
          /\ "TensorParallelSize" \in DOMAIN preset => preset["TensorParallelSize"] \in {"1", "2"}
      BY AdmissibleAt, AdmissibleOverrideAt DEF Values
    <2> QED BY <2>1 DEF Documented, Counts
  <1>4. ASSUME NEW f \in Plain PROVE Documented(f) \in {"", "true"}
    <2>1. /\ f \in DOMAIN overrides => overrides[f] \in {"", "true"}
          /\ f \in DOMAIN preset => preset[f] \in {"", "true"}
      BY AdmissibleAt, AdmissibleOverrideAt DEF Values
    <2> QED BY <2>1 DEF Documented, Counts
  <1>5. ASSUME NEW f \in Triple PROVE Documented(f) \in {"", "false", "true"}
    <2>1. /\ f \in DOMAIN overrides => overrides[f] \in {"false", "true"}
          /\ f \in DOMAIN preset => preset[f] \in {"", "false", "true"}
      BY AdmissibleAt, AdmissibleOverrideAt DEF Values
    <2> QED BY <2>1 DEF Documented, Counts
  <1>6. /\ \A f \in Plain : Resolved.conf[f] \in {"", "true"}
        /\ \A f \in Triple : Resolved.conf[f] \in {"", "false", "true"}
        /\ Resolved.conf["TensorParallelSize"] \in {"-1", "1", "2"}
    <2> HIDE DEF Plain, Triple
    <2> QED BY <1>1, <1>2, <1>3, <1>4, <1>5
  <1> QED BY <1>6 DEF Shaped

\* The environments that the two sides can have.
LEMMA EnvsAt ==
  ASSUME NEW own \in {"p", "o"}, NEW list \in Envs(own)
  PROVE  list \in Seq(EnvVars) /\ \A v : Holds(list, v) => v.value = own
  <1>1. \A name \in {"A", "HF_HOME"} : Var(name, own) \in EnvVars /\ Var(name, own).value = own
    BY DEF Var, EnvVars
  <1>2. PICK a, h : a = Var("A", own) /\ h = Var("HF_HOME", own)
    OBVIOUS
  <1>3. a \in EnvVars /\ h \in EnvVars /\ a.value = own /\ h.value = own
    BY <1>1, <1>2
  <1>4. list = <<>> \/ list = <<a>> \/ list = <<h>> \/ list = <<a, h>>
    BY <1>2 DEF Envs
  <1>5. CASE list = <<>>
    BY <1>5 DEF Holds
  <1>6. CASE list = <<a>>
    BY <1>3, <1>6 DEF Holds
  <1>7. CASE list = <<h>>
    BY <1>3, <1>7 DEF Holds
  <1>8. CASE list = <<a, h>>
    BY <1>3, <1>8 DEF Holds
  <1> QED BY <1>4, <1>5, <1>6, <1>7, <1>8

\* What the operator sets itself.
LEMMA BuiltinAt == BuiltinEnv \in Seq(EnvVars) /\ \A v : Holds(BuiltinEnv, v) => v.value = "builtin"
  <1>1. PICK a, b : a = [name |-> "HF_HOME", value |-> "builtin"] /\ b = [name |-> "HOME", value |-> "builtin"]
    OBVIOUS
  <1>2. a \in EnvVars /\ b \in EnvVars /\ a.value = "builtin" /\ b.value = "builtin"
    BY <1>1 DEF EnvVars
  <1>3. BuiltinEnv = <<a, b>>
    BY <1>1 DEF BuiltinEnv
  <1> QED BY <1>2, <1>3 DEF Holds

\* Of two sides that set a variable the instance's value is in the environment.
LEMMA ResolvedEnv ==
  ASSUME Environments
  PROVE  /\ Resolved.env \in Seq(EnvVars)
         /\ \A v : Holds(Resolved.env, v) =>
               IF Named(spec.env, v.name) THEN v.value = "o"
               ELSE Named(presetEnv, v.name) /\ v.value = "p"
         /\ \A name : Named(spec.env, name) \/ Named(presetEnv, name) => Named(Resolved.env, name)
  <1>1. Resolved.env = Base.env
    <2>1. Resolved = WithPVCReadOnly(Base, spec.pvcReadOnly, overrides)
      BY DEF Resolved, ResolveInstance, Base
    <2>2. \A c : WithPVCReadOnly(c, spec.pvcReadOnly, overrides).env = c.env
      BY DEF WithPVCReadOnly
    <2> QED BY <2>1, <2>2
  <1>2. CASE kind = "VLLM"
    <2>1. Base.env = <<>> /\ spec.env = <<>> /\ presetEnv = <<>>
      BY <1>2 DEF Base, Environments
    <2> QED BY <1>1, <2>1 DEF Holds, Named
  <1>3. CASE kind # "VLLM"
    <2>1. PICK a, b, own : a = presetEnv /\ b = spec.env /\ own = MergeEnv(a)
      OBVIOUS
    <2>2. Base.env = MergeEnv(own \o b)
      BY <1>3, <2>1 DEF Base, ResolveLongContextInstance, WithEnv
    <2>3. /\ a \in Seq(EnvVars) /\ \A v : Holds(a, v) => v.value = "p"
          /\ b \in Seq(EnvVars) /\ \A v : Holds(b, v) => v.value = "o"
      BY <2>1, EnvsAt DEF Environments
    <2>4. /\ own \in Seq(EnvVars) /\ \A v : Holds(own, v) => Holds(a, v)
          /\ \A name : Named(a, name) => Named(own, name)
      BY <2>1, <2>3, MergeOne
    <2>5. PICK m : m = MergeEnv(own \o b)
      OBVIOUS
    <2>6. /\ m \in Seq(EnvVars)
          /\ \A v : Holds(m, v) => IF Named(b, v.name) THEN Holds(b, v) ELSE Holds(own, v)
          /\ \A name : Named(own, name) \/ Named(b, name) => Named(m, name)
      BY <2>3, <2>4, <2>5, MergeTwo
    <2>7. \A v : Holds(a, v) => Named(a, v.name)
      BY DEF Holds, Named
    <2>8. \A v : Holds(m, v) => IF Named(b, v.name) THEN v.value = "o" ELSE Named(a, v.name) /\ v.value = "p"
      BY <2>3, <2>4, <2>6, <2>7
    <2> QED BY <1>1, <2>1, <2>2, <2>4, <2>5, <2>6, <2>8
  <1> QED BY <1>2, <1>3

-----------------------------------------------------------------------------
(* What is applied. *)

\* A configuration that is applied was accepted, and is what was resolved.
LEMMA AppliedAt ==
  ASSUME Objects, Values, Environments, Accepted(Resolved.conf), NEW before
  PROVE  /\ Applied(before) = <<Applied(before)[1]>> /\ Faithful(Applied(before)[1])
         /\ Applied(before)[1].hash = Resolved.hash /\ Applied(before)[1].conf = Resolved.conf
  <1> DEFINE c == Resolved
             d == BuildDeployment(c.conf, c.env, ApiKey, Replicas)
             l == [conf |-> c.conf, hash |-> c.hash, dep |-> d, svc |-> BuildService(spec.serviceType, spec.nodePort)]
  <1>1. Applied(before) = <<l>>
    BY DEF Applied
  <1>2. c.hash = HashConfig(c.conf, c.env) /\ IsConfig(c.conf)
        /\ (kind = "VLLM" => c.conf["SecurityProfile"] = "")
        /\ Shaped(c.conf) /\ c.env \in Seq(EnvVars)
    BY ResolvedAt, ShapedAt, ResolvedEnv DEF Sealed
  <1>3. c.hash.env = c.env
    <2>1. HashConfig(c.conf, c.env).env = c.env
      BY DEF HashConfig
    <2> QED BY <1>2, <2>1, Zenon
  <1>4. d.secret = ApiKey /\ d.replicas = Replicas
    BY DEF BuildDeployment
  <1> HIDE DEF c
  <1>5. d = BuildDeployment(c.conf, c.env, d.secret, d.replicas)
    BY <1>4
  <1> HIDE DEF d
  <1>6. l.conf = c.conf /\ l.hash = c.hash /\ l.dep = d
    OBVIOUS
  <1> HIDE DEF l
  <1>7. Accepted(l.conf)
    BY <1>6 DEF c
  <1>8. Faithful(l)
    BY <1>2, <1>3, <1>5, <1>6, <1>7 DEF Faithful
  <1> QED BY <1>1, <1>6, <1>8 DEF c

\* The preset that an instance starts with passes the schema.
LEMMA StartAdmissible ==
  ASSUME NEW f
  PROVE  Start(f) \in Admissible(f, "p")
  <1>1. CASE f \in Counts
    BY <1>1 DEF Start, Admissible, Counts, Switches, Pointers, Required
  <1>2. CASE f \in {"SHMSizeLimit", "MemoryRequest", "MemoryLimit"}
    BY <1>2 DEF Start, Admissible, Counts, Switches, Pointers, Required
  <1>3. CASE f \in {"KVOffloadBackend", "SecurityProfile", "EngramConfig"}
    BY <1>3 DEF Start, Admissible, Counts, Switches, Pointers, Required
  <1>4. CASE f \in Switches
    BY <1>4 DEF Start, Admissible, Counts, Switches, Pointers, Required
  <1>5. CASE f \in Pointers
    BY <1>5 DEF Start, Admissible, Counts, Switches, Pointers, Required
  <1>6. CASE f \in Required \cup {"LoraModules"}
    BY <1>6 DEF Start, Admissible, Counts, Switches, Pointers, Required
  <1>7. CASE f \notin Counts \cup {"SHMSizeLimit", "MemoryRequest", "MemoryLimit"}
                      \cup {"KVOffloadBackend", "SecurityProfile", "EngramConfig"}
                      \cup Switches \cup Pointers \cup Required \cup {"LoraModules"}
    BY <1>7 DEF Start, Admissible
  <1> QED BY <1>1, <1>2, <1>3, <1>4, <1>5, <1>6, <1>7

LEMMA InitConf == Init => ConfInv
  <1> SUFFICES ASSUME Init PROVE ConfInv
    OBVIOUS
  <1>1. Objects
    <2>1. kind \in Kinds
      BY DEF Init
    <2>2. CASE preset = [f \in PresetFields(kind) |-> Start(f)] /\ overrides = [f \in {} |-> ""]
      BY <2>1, <2>2 DEF Objects
    <2>3. CASE preset = [f \in {} |-> ""] /\ overrides = [f \in OverrideFields(kind) \cap DOMAIN Bare |-> Bare[f]]
      BY <2>1, <2>3 DEF Objects
    <2> QED BY <2>2, <2>3 DEF Init
  <1>2. live = Applied(<<>>)
    BY DEF Init
  <1>5. Values
    <2>1. CASE preset = [f \in PresetFields(kind) |-> Start(f)] /\ overrides = [f \in {} |-> ""]
      BY <2>1, StartAdmissible DEF Values
    <2>2. CASE preset = [f \in {} |-> ""] /\ overrides = [f \in OverrideFields(kind) \cap DOMAIN Bare |-> Bare[f]]
      <3>1. ASSUME NEW f \in DOMAIN Bare PROVE Bare[f] \in AdmissibleOverride(f)
        <4>1. f \in {"ModelID", "MIGResource", "MaxModelLen", "KVCacheDtype"} /\ Bare[f] = "o"
          BY DEF Bare
        <4> QED BY <4>1 DEF AdmissibleOverride, Admissible, Counts, Switches, Pointers, Required
      <3> QED BY <2>2, <3>1 DEF Values
    <2> QED BY <2>1, <2>2 DEF Init
  <1>6. Environments
    <2>1. presetEnv = <<>> /\ spec = NoEdit
      BY DEF Init
    <2>2. DOMAIN NoEdit = {"pvcReadOnly", "apiKey", "overrideKey", "serviceType", "nodePort", "replicas", "env"} /\ NoEdit.env = <<>>
      BY DEF NoEdit
    <2> QED BY <2>1, <2>2 DEF Environments, Envs
  <1>3. CASE Accepted(Resolved.conf)
    BY <1>1, <1>2, <1>3, <1>5, <1>6, AppliedAt DEF ConfInv
  <1>4. CASE ~Accepted(Resolved.conf)
    BY <1>1, <1>2, <1>4, <1>5, <1>6 DEF ConfInv, Applied
  <1> QED BY <1>3, <1>4

LEMMA StepConf == ConfInv /\ [Next]_vars => ConfInv'
  <1> SUFFICES ASSUME ConfInv, [Next]_vars PROVE ConfInv'
    OBVIOUS
  <1>1. Objects /\ Values /\ Environments /\ (live = <<>> \/ (live = <<live[1]>> /\ Faithful(live[1])))
    BY DEF ConfInv
  <1>2. kind' = kind /\ allowed' = allowed
    BY DEF Next, EditPreset, EditPresetEnv, SetOverride, ClearOverride, EditSpec, Reconcile, vars
  <1>3. DOMAIN preset' = DOMAIN preset
    <2>1. CASE EditPreset
      BY <2>1 DEF EditPreset
    <2>2. CASE preset' = preset
      BY <2>2
    <2> QED BY <2>1, <2>2 DEF Next, EditPresetEnv, SetOverride, ClearOverride, EditSpec, Reconcile, vars
  <1>4. DOMAIN overrides' \subseteq OverrideFields(kind)
    <2>1. CASE SetOverride
      BY <1>1, <2>1 DEF SetOverride, Objects
    <2>2. CASE ClearOverride
      BY <1>1, <2>2 DEF ClearOverride, Objects
    <2>3. CASE overrides' = overrides
      BY <1>1, <2>3 DEF Objects
    <2> QED BY <2>1, <2>2, <2>3 DEF Next, EditPreset, EditPresetEnv, EditSpec, Reconcile, vars
  <1>5. Objects'
    BY <1>1, <1>2, <1>3, <1>4 DEF Objects
  <1>6. live' = <<>> \/ (live' = <<live'[1]>> /\ Faithful(live[1])')
    <2>1. CASE live' = live
      BY <1>1, <1>2, <2>1 DEF Faithful, Accepted
    <2>2. CASE Reconcile /\ Accepted(Resolved.conf)
      <3>1. PICK l : l = Applied(live)[1]
        OBVIOUS
      <3>2. live' = <<l>> /\ Faithful(l)
        BY <1>1, <2>2, <3>1, AppliedAt DEF Reconcile
      <3> QED BY <1>2, <3>2 DEF Faithful, Accepted
    <2>3. CASE Reconcile /\ ~Accepted(Resolved.conf)
      <3>1. live' = live
        BY <2>3 DEF Reconcile, Applied
      <3> QED BY <2>1, <3>1
    <2> QED BY <2>1, <2>2, <2>3 DEF Next, EditPreset, EditPresetEnv, SetOverride, ClearOverride, EditSpec, vars
  <1>7. Values'
    <2>1. \A f \in DOMAIN preset' : preset'[f] \in Admissible(f, "p")
      <3>1. CASE EditPreset
        <4>1. PICK g \in DOMAIN preset : \E v \in Admissible(g, "p") : preset' = [preset EXCEPT ![g] = v]
          BY <3>1 DEF EditPreset
        <4> QED BY <1>1, <4>1 DEF Values
      <3>2. CASE preset' = preset
        BY <1>1, <3>2 DEF Values
      <3> QED BY <3>1, <3>2 DEF Next, EditPresetEnv, SetOverride, ClearOverride, EditSpec, Reconcile, vars
    <2>2. \A f \in DOMAIN overrides' : overrides'[f] \in AdmissibleOverride(f)
      <3>1. CASE SetOverride
        <4>1. PICK g \in OverrideFields(kind) : \E v \in AdmissibleOverride(g) :
                 overrides' = [h \in DOMAIN overrides \cup {g} |-> IF h = g THEN v ELSE overrides[h]]
          BY <3>1 DEF SetOverride
        <4> QED BY <1>1, <4>1 DEF Values
      <3>2. CASE ClearOverride
        BY <1>1, <3>2 DEF ClearOverride, Values
      <3>3. CASE overrides' = overrides
        BY <1>1, <3>3 DEF Values
      <3> QED BY <3>1, <3>2, <3>3 DEF Next, EditPreset, EditPresetEnv, EditSpec, Reconcile, vars
    <2> QED BY <2>1, <2>2 DEF Values
  <1>8. Environments'
    <2>1. CASE EditPresetEnv
      BY <1>1, <1>2, <2>1 DEF EditPresetEnv, Environments
    <2>2. CASE EditSpec
      <3>1. DOMAIN spec' = DOMAIN spec /\ presetEnv' = presetEnv
        BY <2>2 DEF EditSpec
      <3>2. spec'.env = spec.env \/ (kind = "LongContext" /\ spec'.env \in Envs("o"))
        BY <1>1, <2>2 DEF EditSpec, Environments
      <3> QED BY <1>1, <1>2, <3>1, <3>2 DEF Environments
    <2>3. CASE presetEnv' = presetEnv /\ spec' = spec
      BY <1>1, <1>2, <2>3 DEF Environments
    <2> QED BY <2>1, <2>2, <2>3 DEF Next, EditPreset, SetOverride, ClearOverride, Reconcile, vars
  <1> QED BY <1>5, <1>6, <1>7, <1>8 DEF ConfInv

\* The objects keep to their CRDs, and what is applied is what was accepted.
THEOREM ConfInvariance == Spec => []ConfInv
  BY InitConf, StepConf, PTL DEF Spec

\* Every field of the merged configuration has the value that the CRDs document,
\* whatever the preset and the overrides hold: no assignment of Resolve and
\* ResolveLongContext is missing or takes its value from the wrong side.
THEOREM ResolvesAsDocumented == Spec => []NothingDropped
  <1>1. ConfInv => NothingDropped
    BY ResolvedAt DEF ConfInv, NothingDropped
  <1> QED BY <1>1, ConfInvariance, PTL

\* What ValidateEffectiveConfig lets through never makes BuildDeployment panic.
THEOREM AcceptedRenders == Spec => []RenderNeverPanics
  <1>1. ASSUME NEW e, Accepted(e), NEW v \in MustParse(e)
        PROVE  ParsesAsQuantity(v)
    <2>1. /\ Positive(e["SHMSizeLimit"]) /\ Num(e["MIGResourceCount"]) \in 1..8
          /\ \A f \in {"MemoryRequest", "MemoryLimit"} : e[f] # "" => Positive(e[f])
      BY <1>1 DEF Accepted, validateSecurityPolicy179, ValidateEffectiveConfig, ValidMemory
    <2>2. e["MIGResourceCount"] \in {"1", "2"}
      <3>1. \A x : x \notin {"1", "2"} => Num(x) = 0
        BY DEF Num
      <3>2. \A n \in 1..8 : n # 0
        OBVIOUS
      <3> QED BY <2>1, <3>1, <3>2, Zenon
    <2> QED BY <2>1, <2>2 DEF MustParse, Positive, ParsesAsQuantity
  <1>2. RenderNeverPanics
    BY <1>1 DEF RenderNeverPanics
  <1> QED BY <1>2, PTL

\* The merge of an admitted preset and admitted overrides is applied only when it
\* keeps the rules that admission could check on neither alone.
THEOREM AppliedKeepsRules == Spec => []MergedRulesHold
  <1>1. ASSUME NEW l, Faithful(l)
        PROVE  /\ MemoryOrdered(l.conf)
               /\ l.conf["SecurityProfile"] = "engram-ipc" => l.conf["EngramConfig"] = "object" /\ "ns" \in allowed
    <2>1. PICK e : e = l.conf
      OBVIOUS
    <2>2. ValidateEffectiveConfig(e) /\ (kind # "VLLM" /\ e["SecurityProfile"] = "engram-ipc" => "ns" \in allowed)
      BY <1>1, <2>1 DEF Faithful, Accepted, validateSecurityPolicy179
    <2>3. MemoryOrdered(e)
      <3>1. Num(e["MemoryRequest"]) \in Int /\ Num(e["MemoryLimit"]) \in Int
        BY DEF Num
      <3> QED BY <2>2, <3>1 DEF ValidateEffectiveConfig, ValidMemory, MemoryOrdered, Has
    <2>4. e["SecurityProfile"] = "engram-ipc" => e["EngramConfig"] = "object"
      BY <2>2 DEF ValidateEffectiveConfig, validateSecurityProfile179, IsObject
    <2>5. kind = "VLLM" => e["SecurityProfile"] # "engram-ipc"
      BY <1>1, <2>1 DEF Faithful
    <2> QED BY <2>1, <2>2, <2>3, <2>4, <2>5
  <1>2. ConfInv => MergedRulesHold
    <2> SUFFICES ASSUME ConfInv, NEW i \in DOMAIN live
                 PROVE  /\ MemoryOrdered(live[i].conf)
                        /\ live[i].conf["SecurityProfile"] = "engram-ipc" =>
                              live[i].conf["EngramConfig"] = "object" /\ "ns" \in allowed
      BY DEF MergedRulesHold
    <2>1. i = 1 /\ Faithful(live[1])
      BY DEF ConfInv
    <2> QED BY <1>1, <2>1
  <1> QED BY <1>2, ConfInvariance, PTL

\* The hash tells two configurations, or two environments, apart.
LEMMA HashInjective ==
  ASSUME NEW e, IsConfig(e), NEW d, IsConfig(d), NEW x, NEW y, HashConfig(e, x) = HashConfig(d, y)
  PROVE  e = d /\ x = y
  <1> DEFINE Shown(c) == {<<f, c[f]>> : f \in {g \in EffectiveConfig : c[g] # ""}}
  <1>1. Shown(e) = Shown(d) /\ x = y
    BY DEF HashConfig
  <1>2. ASSUME NEW f \in EffectiveConfig
        PROVE  e[f] = d[f]
    <2>1. e[f] # "" => <<f, e[f]>> \in Shown(d)
      BY <1>1
    <2>2. d[f] # "" => <<f, d[f]>> \in Shown(e)
      BY <1>1
    <2> QED BY <2>1, <2>2
  <1> QED BY <1>1, <1>2 DEF IsConfig

\* A Deployment is never replaced by a different one under the same hash, except
\* for its API key and its replica count.
THEOREM HashTracks == Spec => HashTracksPod
  <1>1. ASSUME ConfInv, [Next]_vars, Redeploys, live'[1].dep # live[1].dep,
               SameOutsideHash(live'[1].dep, live[1].dep), statusHash' = live[1].hash
        PROVE  FALSE
    <2>1. Objects /\ Values /\ Environments /\ Faithful(live[1]) /\ live' # live
      BY <1>1 DEF ConfInv, Redeploys
    <2>2. Reconcile
      BY <1>1, <2>1 DEF Next, EditPreset, EditPresetEnv, SetOverride, ClearOverride, EditSpec, vars
    <2>3. Accepted(Resolved.conf)
      BY <2>1, <2>2 DEF Reconcile, Applied
    <2>4. PICK l, m : l = live[1] /\ m = Applied(live)[1]
      OBVIOUS
    <2>5. live'[1] = m /\ Faithful(m) /\ m.hash = Resolved.hash
      BY <2>1, <2>2, <2>3, <2>4, AppliedAt DEF Reconcile
    <2>6. m.hash = l.hash
      BY <1>1, <2>2, <2>4, <2>5 DEF Reconcile
    <2>7. /\ IsConfig(l.conf) /\ IsConfig(m.conf)
          /\ HashConfig(l.conf, l.hash.env) = HashConfig(m.conf, m.hash.env)
      BY <2>1, <2>4, <2>5, <2>6 DEF Faithful
    <2>8. l.conf = m.conf /\ l.hash.env = m.hash.env
      BY <2>7, HashInjective
    <2>9. /\ l.dep = BuildDeployment(l.conf, l.hash.env, l.dep.secret, l.dep.replicas)
          /\ m.dep = BuildDeployment(m.conf, m.hash.env, m.dep.secret, m.dep.replicas)
      BY <2>1, <2>4, <2>5 DEF Faithful
    <2>10. m.dep.secret = l.dep.secret /\ m.dep.replicas = l.dep.replicas
      BY <1>1, <2>4, <2>5 DEF SameOutsideHash
    <2> QED BY <1>1, <2>4, <2>5, <2>8, <2>9, <2>10
  <1>2. ConfInv /\ [Next]_vars =>
          [Redeploys /\ live'[1].dep # live[1].dep /\ SameOutsideHash(live'[1].dep, live[1].dep)
             => statusHash' # live[1].hash]_vars
    BY <1>1
  <1> QED BY <1>2, ConfInvariance, PTL DEF Spec, HashTracksPod

\* Of an environment variable set in several places the pod gets the instance's
\* value before the preset's and the preset's before the built-in one, whatever
\* lists are laid over each other and however often a name occurs in them.
THEOREM EnvironmentPrecedes == Spec => []EnvPrecedence
  <1> DEFINE Names(list) == {list[i].name : i \in DOMAIN list}
  <1>1. \A list, name : name \in Names(list) <=> Named(list, name)
    BY DEF Named
  <1>2. ASSUME Environments, NEW i \in DOMAIN MergeEnv(BuiltinEnv \o Resolved.env)
        PROVE  MergeEnv(BuiltinEnv \o Resolved.env)[i].value =
                 IF Named(spec.env, MergeEnv(BuiltinEnv \o Resolved.env)[i].name) THEN "o"
                 ELSE IF Named(presetEnv, MergeEnv(BuiltinEnv \o Resolved.env)[i].name) THEN "p" ELSE "builtin"
    <2>1. PICK env, m : env = Resolved.env /\ m = MergeEnv(BuiltinEnv \o Resolved.env)
      OBVIOUS
    <2>2. /\ env \in Seq(EnvVars)
          /\ \A v : Holds(env, v) => IF Named(spec.env, v.name) THEN v.value = "o"
                                     ELSE Named(presetEnv, v.name) /\ v.value = "p"
          /\ \A name : Named(spec.env, name) \/ Named(presetEnv, name) => Named(env, name)
      BY <1>2, <2>1, ResolvedEnv
    <2>3. \A v : Holds(m, v) => IF Named(env, v.name) THEN Holds(env, v) ELSE Holds(BuiltinEnv, v)
      BY <2>1, <2>2, BuiltinAt, MergeTwo
    <2>4. PICK v : v = m[i]
      OBVIOUS
    <2>5. Holds(m, v)
      BY <1>2, <2>1, <2>4 DEF Holds
    <2>6. v.value = IF Named(spec.env, v.name) THEN "o"
                    ELSE IF Named(presetEnv, v.name) THEN "p" ELSE "builtin"
      BY <2>2, <2>3, <2>5, BuiltinAt
    <2> QED BY <2>1, <2>4, <2>6
  <1>3. ConfInv => EnvPrecedence
    <2> HIDE DEF Names
    <2>1. ASSUME ConfInv PROVE Environments
      BY <2>1 DEF ConfInv
    <2> QED BY <1>1, <1>2, <2>1 DEF EnvPrecedence, Names
  <1> QED BY <1>3, ConfInvariance, PTL

\* Every mount has its volume, and no environment variable is there twice.
THEOREM PodHolds == Spec => []PodHoldsTogether
  <1>1. ASSUME NEW l, Faithful(l)
        PROVE  /\ \A c \in {l.dep.vllm} \cup l.dep.sidecars : ToSet(c.mounts) \subseteq ToSet(l.dep.volumes)
               /\ \A j, k \in DOMAIN l.dep.vllm.env : l.dep.vllm.env[j].name = l.dep.vllm.env[k].name => j = k
    <2>1. PICK e, env, key, n, d : /\ e = l.conf /\ env = l.hash.env /\ key = l.dep.secret
                                   /\ n = l.dep.replicas /\ d = l.dep
      OBVIOUS
    <2>2. d = BuildDeployment(e, env, key, n) /\ env \in Seq(EnvVars)
      BY <1>1, <2>1 DEF Faithful
    <2>3. /\ d.volumes = Volumes(e, key) /\ d.vllm.mounts = Mounts(e, key)
          /\ d.vllm.env = MergeEnv(BuiltinEnv \o env)
          /\ d.sidecars = IF lmcache(e) THEN {buildLMCacheSidecar} ELSE {}
      BY <2>2 DEF BuildDeployment, Container
    <2>4. Once(d.vllm.env)
      BY <2>2, <2>3, BuiltinAt, MergeTwo
    <2>5. ToSet(d.vllm.mounts) \subseteq ToSet(d.volumes)
      BY <2>3 DEF Mounts, Volumes
    <2>6. ASSUME NEW c \in d.sidecars PROVE ToSet(c.mounts) \subseteq ToSet(d.volumes)
      <3>1. c = buildLMCacheSidecar /\ lmcache(e)
        BY <2>3, <2>6
      <3>2. c.mounts = <<"lmcache-data">>
        BY <3>1 DEF buildLMCacheSidecar
      <3>3. ToSet(<<"lmcache-data">>) = {"lmcache-data"}
        BY DEF ToSet
      <3>4. Holds(d.volumes, "lmcache-data")
        BY <2>3, <3>1, SidecarVolume
      <3>5. "lmcache-data" \in ToSet(d.volumes)
        BY <3>4 DEF ToSet, Holds
      <3> QED BY <3>2, <3>3, <3>5
    <2> QED BY <2>1, <2>4, <2>5, <2>6 DEF Once
  <1>2. ConfInv => PodHoldsTogether
    <2> SUFFICES ASSUME ConfInv, NEW i \in DOMAIN live
                 PROVE  LET d   == live[i].dep
                            env == d.vllm.env
                        IN /\ \A c \in {d.vllm} \cup d.sidecars : ToSet(c.mounts) \subseteq ToSet(d.volumes)
                           /\ \A j, k \in DOMAIN env : env[j].name = env[k].name => j = k
      BY DEF PodHoldsTogether
    <2>1. i = 1 /\ Faithful(live[1])
      BY DEF ConfInv
    <2>2. PICK l : l = live[1]
      OBVIOUS
    <2> QED BY <1>1, <2>1, <2>2
  <1> QED BY <1>2, ConfInvariance, PTL

\* Where BuildDeployment puts the fields that have no flag.
LEMMA DeploymentAt ==
  ASSUME NEW e, NEW env, NEW key, NEW n, NEW d, d = BuildDeployment(e, env, key, n)
  PROVE  /\ d.vllm.args = buildArgs(e) /\ d.deadline = ProgressDeadline(e) /\ d.shm = e["SHMSizeLimit"]
         /\ d.vllm.image = <<e["Image"], e["ImagePullPolicy"]>>
         /\ d.vllm.limits = <<e["MIGResource"], e["MIGResourceCount"], e["MemoryLimit"]>>
         /\ d.vllm.request = e["MemoryRequest"] /\ d.vllm.readOnly = e["PVCReadOnly"]
         /\ d.vllm.probes = <<e["LivenessProbe"], e["ReadinessProbe"], e["StartupProbe"]>>
  BY DEF BuildDeployment, Container

\* The fields that the Deployment shows outside the arguments.
Direct == {"SHMSizeLimit", "Image", "ImagePullPolicy", "MIGResource", "MIGResourceCount", "MemoryLimit",
           "MemoryRequest", "PVCReadOnly", "LivenessProbe", "ReadinessProbe", "StartupProbe"}

\* The fields that are visible as they are, in one place or the other.
Plain == ShownFields \cup Direct \cup
         {"EnableAutoToolChoice", "EnableChunkedPrefill", "TrustRemoteCode",
          "DisableCustomAllReduce"}

LEMMA FieldsCovered ==
  ASSUME NEW f \in EffectiveConfig
  PROVE  f \in Plain \cup {"TensorParallelSize", "CPUOffloadGiB", "EnableLora", "EnforceEager", "LoraModules", "MaxLoraRank", "KVOffloadSize",
                           "KVOffloadBackend", "ProgressDeadlineSeconds", "SecurityProfile"}
  BY DEF EffectiveConfig, LongContextPresetFields, ModelPresetFields, Plain, ShownFields, Direct

\* Two accepted configurations that are rendered alike look alike.
LEMMA SameDeployment ==
  ASSUME NEW e, NEW d, Shaped(e), Shaped(d), validateLoraModules(e["LoraModules"]),
         validateLoraModules(d["LoraModules"]), NEW x, NEW y, NEW k, NEW j, NEW n, NEW r,
         BuildDeployment(e, x, k, n) = BuildDeployment(d, y, j, r)
  PROVE  Visible(e) = Visible(d)
  <1>1. PICK dep : dep = BuildDeployment(e, x, k, n)
    OBVIOUS
  <1>2. /\ dep.vllm.args = buildArgs(e) /\ dep.vllm.args = buildArgs(d)
        /\ ProgressDeadline(e) = ProgressDeadline(d)
        /\ \A f \in Direct : e[f] = d[f]
    <2>1. /\ dep.vllm.args = buildArgs(e) /\ dep.deadline = ProgressDeadline(e) /\ dep.shm = e["SHMSizeLimit"]
          /\ dep.vllm.image = <<e["Image"], e["ImagePullPolicy"]>>
          /\ dep.vllm.limits = <<e["MIGResource"], e["MIGResourceCount"], e["MemoryLimit"]>>
          /\ dep.vllm.request = e["MemoryRequest"] /\ dep.vllm.readOnly = e["PVCReadOnly"]
          /\ dep.vllm.probes = <<e["LivenessProbe"], e["ReadinessProbe"], e["StartupProbe"]>>
      BY <1>1, DeploymentAt
    <2>2. /\ dep.vllm.args = buildArgs(d) /\ dep.deadline = ProgressDeadline(d) /\ dep.shm = d["SHMSizeLimit"]
          /\ dep.vllm.image = <<d["Image"], d["ImagePullPolicy"]>>
          /\ dep.vllm.limits = <<d["MIGResource"], d["MIGResourceCount"], d["MemoryLimit"]>>
          /\ dep.vllm.request = d["MemoryRequest"] /\ dep.vllm.readOnly = d["PVCReadOnly"]
          /\ dep.vllm.probes = <<d["LivenessProbe"], d["ReadinessProbe"], d["StartupProbe"]>>
      BY <1>1, DeploymentAt
    <2>3. /\ e["Image"] = d["Image"] /\ e["ImagePullPolicy"] = d["ImagePullPolicy"]
          /\ e["MIGResource"] = d["MIGResource"] /\ e["MIGResourceCount"] = d["MIGResourceCount"]
          /\ e["MemoryLimit"] = d["MemoryLimit"] /\ e["LivenessProbe"] = d["LivenessProbe"]
          /\ e["ReadinessProbe"] = d["ReadinessProbe"] /\ e["StartupProbe"] = d["StartupProbe"]
      <3>1. ASSUME NEW t, NEW a, NEW b, NEW g, NEW h, t = <<a, b>>, t = <<g, h>> PROVE a = g /\ b = h
        BY <3>1
      <3>2. ASSUME NEW t, NEW a, NEW b, NEW c, NEW g, NEW h, NEW i, t = <<a, b, c>>, t = <<g, h, i>>
            PROVE  a = g /\ b = h /\ c = i
        BY <3>2
      <3>3. e["Image"] = d["Image"] /\ e["ImagePullPolicy"] = d["ImagePullPolicy"]
        BY <2>1, <2>2, <3>1
      <3>4. /\ e["MIGResource"] = d["MIGResource"] /\ e["MIGResourceCount"] = d["MIGResourceCount"]
            /\ e["MemoryLimit"] = d["MemoryLimit"]
        BY <2>1, <2>2, <3>2
      <3>5. /\ e["LivenessProbe"] = d["LivenessProbe"] /\ e["ReadinessProbe"] = d["ReadinessProbe"]
            /\ e["StartupProbe"] = d["StartupProbe"]
        BY <2>1, <2>2, <3>2
      <3> QED BY <3>3, <3>4, <3>5
    <2>4. e["SHMSizeLimit"] = d["SHMSizeLimit"] /\ e["MemoryRequest"] = d["MemoryRequest"] /\ e["PVCReadOnly"] = d["PVCReadOnly"]
      BY <2>1, <2>2
    <2>5. \A f \in Direct : e[f] = d[f]
      BY <2>3, <2>4 DEF Direct
    <2> QED BY <2>1, <2>2, <2>5
  <1>3. /\ \A f \in ShownFields : e[f] = d[f]
        /\ \A f \in SwitchFields : e[f] = "true" <=> d[f] = "true"
        /\ Num(e["TensorParallelSize"]) > 1 <=> Num(d["TensorParallelSize"]) > 1
        /\ \/ e["CPUOffloadGiB"] = d["CPUOffloadGiB"]
           \/ e["CPUOffloadGiB"] \in {"", "-1"} /\ d["CPUOffloadGiB"] \in {"", "-1"}
        /\ lmcache(e) <=> lmcache(d)
        /\ lmcache(e) => e["KVOffloadSize"] = d["KVOffloadSize"]
        /\ e["EnableLora"] = "true" => e["LoraModules"] = d["LoraModules"] /\ e["MaxLoraRank"] = d["MaxLoraRank"]
    <2>1. buildArgs(e) = buildArgs(d)
      BY <1>2
    <2> QED BY <2>1, SameFields
  <1>4. \/ e["TensorParallelSize"] = d["TensorParallelSize"]
        \/ e["TensorParallelSize"] \in {"-1", "1"} /\ d["TensorParallelSize"] \in {"-1", "1"}
    <2>1. Num("-1") = 0 /\ Num("1") = 1 /\ Num("2") = 2
      BY DEF Num
    <2>2. PICK a, b : a = e["TensorParallelSize"] /\ b = d["TensorParallelSize"]
      OBVIOUS
    <2>3. a \in {"-1", "1", "2"} /\ b \in {"-1", "1", "2"}
      BY <2>2 DEF Shaped
    <2>4. Num(a) > 1 <=> Num(b) > 1
      BY <1>3, <2>2
    <2>5. a = b \/ (a \in {"-1", "1"} /\ b \in {"-1", "1"})
      BY <2>1, <2>3, <2>4
    <2> QED BY <2>2, <2>5
  <1>5. \A f \in {"EnableAutoToolChoice", "EnableChunkedPrefill", "TrustRemoteCode", "DisableCustomAllReduce"} :
          e[f] = d[f]
    BY <1>3 DEF Shaped, SwitchFields
  <1>6. \A f \in Plain : e[f] = d[f]
    BY <1>2, <1>3, <1>5 DEF Plain
  <1>7. ASSUME NEW f \in EffectiveConfig
        PROVE  Visible(e)[f] = Visible(d)[f]
    <2>1. CASE f \in Plain
      <3>1. \A c : Visible(c)[f] = c[f]
        BY <2>1 DEF Visible, Plain, ShownFields, Direct
      <3> QED BY <1>6, <2>1, <3>1
    <2>2. CASE f \in {"EnableLora", "EnforceEager"}
      <3>1. \A c : Visible(c)[f] = IF c[f] = "false" THEN "" ELSE c[f]
        BY <2>2 DEF Visible
      <3>2. e[f] = "true" <=> d[f] = "true"
        BY <1>3, <2>2 DEF SwitchFields
      <3>3. e[f] \in {"", "false", "true"} /\ d[f] \in {"", "false", "true"}
        BY <2>2 DEF Shaped
      <3> QED BY <3>1, <3>2, <3>3
    <2>3. CASE f \in {"LoraModules", "MaxLoraRank"}
      <3>1. \A c : Visible(c)[f] = IF c["EnableLora"] # "true" THEN "" ELSE c[f]
        BY <2>3 DEF Visible
      <3>2. e["EnableLora"] = "true" <=> d["EnableLora"] = "true"
        BY <1>3 DEF SwitchFields
      <3> QED BY <1>3, <2>3, <3>1, <3>2
    <2>4. CASE f = "KVOffloadSize"
      <3>1. \A c : Visible(c)[f] = IF ~lmcache(c) THEN "" ELSE c[f]
        BY <2>4 DEF Visible
      <3> QED BY <1>3, <2>4, <3>1
    <2>5. CASE f = "KVOffloadBackend"
      <3>1. \A c : Visible(c)[f] = IF ~lmcache(c) THEN "" ELSE c[f]
        BY <2>5 DEF Visible
      <3>2. \A c : lmcache(c) => c[f] = "lmcache"
        BY <2>5 DEF lmcache
      <3>3. CASE lmcache(e)
        <4>1. lmcache(d)
          BY <1>3, <3>3
        <4>2. Visible(e)[f] = e[f] /\ Visible(d)[f] = d[f]
          BY <3>1, <3>3, <4>1
        <4>3. e[f] = "lmcache" /\ d[f] = "lmcache"
          BY <3>2, <3>3, <4>1
        <4> QED BY <4>2, <4>3
      <3>4. CASE ~lmcache(e)
        <4>1. ~lmcache(d)
          BY <1>3, <3>4
        <4>2. Visible(e)[f] = "" /\ Visible(d)[f] = ""
          BY <3>1, <3>4, <4>1
        <4> QED BY <4>2
      <3> QED BY <3>3, <3>4
    <2>6. CASE f = "ProgressDeadlineSeconds"
      <3>1. \A c : Visible(c)[f] = ProgressDeadline(c)
        BY <2>6 DEF Visible
      <3> QED BY <1>2, <3>1
    <2>7. CASE f = "SecurityProfile"
      BY <2>7 DEF Visible
    <2>8. CASE f = "TensorParallelSize"
      <3>1. \A c : Visible(c)[f] = IF c[f] = "-1" THEN "1" ELSE c[f]
        BY <2>8 DEF Visible
      <3> QED BY <1>4, <2>8, <3>1
    <2>9. CASE f = "CPUOffloadGiB"
      <3>1. \A c : Visible(c)[f] = IF c[f] = "-1" THEN "" ELSE c[f]
        BY <2>9 DEF Visible
      <3> QED BY <1>3, <2>9, <3>1
    <2> QED BY <2>1, <2>2, <2>3, <2>4, <2>5, <2>6, <2>7, <2>8, <2>9, FieldsCovered
  <1>8. \A c : Visible(c) = [f \in EffectiveConfig |-> Visible(c)[f]]
    BY DEF Visible
  <1> QED BY <1>7, <1>8

\* No accepted edit is lost on the way to the pod: when two configurations are
\* applied as the same Deployment they differ in nothing a pod can show.
THEOREM EditReaches == Spec => EditReachesPod
  <1>1. ASSUME ConfInv, [Next]_vars, Redeploys, live'[1].dep = live[1].dep
        PROVE  Visible(live'[1].conf) = Visible(live[1].conf)
    <2>1. Objects /\ Values /\ Environments /\ Faithful(live[1]) /\ live' # live
      BY <1>1 DEF ConfInv, Redeploys
    <2>2. Reconcile
      BY <1>1, <2>1 DEF Next, EditPreset, EditPresetEnv, SetOverride, ClearOverride, EditSpec, vars
    <2>3. Accepted(Resolved.conf)
      BY <2>1, <2>2 DEF Reconcile, Applied
    <2>4. PICK l, m : l = live[1] /\ m = Applied(live)[1]
      OBVIOUS
    <2>5. live'[1] = m /\ Faithful(m)
      BY <2>1, <2>2, <2>3, <2>4, AppliedAt DEF Reconcile
    <2>6. ASSUME NEW n, Faithful(n)
          PROVE  /\ Shaped(n.conf) /\ validateLoraModules(n.conf["LoraModules"])
                 /\ n.dep = BuildDeployment(n.conf, n.hash.env, n.dep.secret, n.dep.replicas)
      BY <2>6 DEF Faithful, Accepted, validateSecurityPolicy179, ValidateEffectiveConfig
    <2>7. PICK e, d, x, y, k, j, n, r : /\ e = l.conf /\ d = m.conf /\ x = l.hash.env /\ y = m.hash.env
                                        /\ k = l.dep.secret /\ j = m.dep.secret
                                        /\ n = l.dep.replicas /\ r = m.dep.replicas
      OBVIOUS
    <2>8. /\ Shaped(e) /\ validateLoraModules(e["LoraModules"]) /\ l.dep = BuildDeployment(e, x, k, n)
          /\ Shaped(d) /\ validateLoraModules(d["LoraModules"]) /\ m.dep = BuildDeployment(d, y, j, r)
      BY <2>1, <2>4, <2>5, <2>6, <2>7
    <2>9. BuildDeployment(e, x, k, n) = BuildDeployment(d, y, j, r)
      BY <1>1, <2>4, <2>5, <2>8
    <2>10. Visible(e) = Visible(d)
      BY <2>8, <2>9, SameDeployment
    <2> QED BY <2>4, <2>5, <2>7, <2>10
  <1>2. ConfInv /\ [Next]_vars =>
          [Redeploys /\ live'[1].dep = live[1].dep => Visible(live'[1].conf) = Visible(live[1].conf)]_vars
    BY <1>1
  <1> QED BY <1>2, ConfInvariance, PTL DEF Spec, EditReachesPod
=============================================================================
