# TLA+ models of the vLLM operator

`src/operator` is a Kubernetes operator (controller-runtime) that turns a
`VLLMInstance` or a `LongContextInstance`, with its preset, into a Deployment
and a Service, and reports through the status of the CR what it did. The modules
here model its reconcile loops against the Kubernetes objects they share with
everybody else, and the configuration they compute; TLC checks them on small
instances, and TLAPS proves the safety properties of the passing runs for all of
them (two of them under a hypothesis on what others do to the Deployment, one of
these also under one on the events that reach the operator).

## The system

| part | state it keeps | operations | what makes it correct | hard because |
|---|---|---|---|---|
| VLLMInstance reconciler (`controllers/vllminstance_controller.go`) | informer caches, workqueue, locals of a reconcile; everything durable is in the API server | `Reconcile`, `patchStatus`, the watch map functions | a published status is never ahead of what was applied; the workloads end up as the spec asks; a refusal is reported | reads come from caches that lag separately; the two applies and the patch fail or are cut off one by one; the patch is a diff without resourceVersion |
| replica storage gate (`controllers/replica_storage.go`) | none | `validateReplicaStorage`, `remediateUnsafeDeployment` | never several pods on a volume that cannot carry them; only the operator's own Deployment is touched | others write the Deployment between read, apply and read-back; field ownership of server-side apply |
| LongContextInstance reconciler (`controllers/longcontextinstance_controller.go`) | as the first | as the first, plus a security policy check | as the first; of two CRs of one name the one that is left gets served | shares Deployment and Service names with a VLLMInstance of the same name |
| endpoint and node predicate (`ssa.go`, `node_predicate.go`) | none | choose a node address; decide which node events matter | the published address is one that serves; no relevant event is dropped | two functions must agree on what "relevant" is |
| configuration (`internal/vllm`) | none | `Resolve`, `ResolveLongContext`, `MergeEnv`, `ValidateEffectiveConfig`, `BuildDeployment`, `BuildService` | no field is lost, precedence, what is accepted renders, the hash tells of a change | nearly fifty fields in two resolvers; admission sees one object at a time |
| manager (`main.go`) | leader lease | start, lose the lease | one writer at a time | a lease does not fence |
| MIG setup job (`config/mig-setup/job.yaml`) | node labels | label, poll, restart the device plugin | success means the new configuration | polls a label somebody else updates later |
| compatibility checks, system-prompt patch, scripts | none | pure functions, shell | | |

The components meet only in API objects: the reconciler applies Deployment and
Service with server-side apply (forced, except in the remediation), patches the
status, and is called back by watches on the CR, the owned objects, presets,
nodes and EndpointSlices. PVCs are read but not watched. Work on one CR is
serialised by the workqueue; different kinds of caches advance independently.

## Modules

* `Cluster` - the API server's objects for one CR (external to the repository):
  the history of its specs (its length is `metadata.generation`), status,
  preset, PVC, Deployment, Service and pods; users, the Deployment controller
  with the Recreate strategy that `BuildDeployment` renders, and the garbage
  collector. One shared budget bounds the disturbances.
* `InstanceReconciler` (extends `Cluster`) - caches `c...`, the workqueue key
  (`queued`, `timer`), the worker (`pc`, `w`). `Reconcile` is split at its API
  calls: one action per exit before the first call (`InstanceGone`,
  `PresetMissing`, `ConfigInvalid`, `ClaimMissing`, `ClaimUnsafe`,
  `StartApply`), then remediation, Deployment apply, Service apply, read-back
  (`Observe...`) and `PatchStatus`, which ends every path. `ReadFails`,
  `ApplyFails`, `ObserveFails` and `PatchFails` are the error exits, with the
  write made or not; `EndpointReadFails` is a read error that `resolveEndpoint` or
  `nodeInternalIP` swallows, which ends in no error exit and no requeue.
  `PresetEventLost` (kind of disturbance `lost`) is a preset event that
  `mapPresetToInstances` drops because its List fails; it is not counted in the
  budget. `Restart` loses everything but the API server.
  `MergePatch` sends only the top-level fields that differ from the cached
  original, as `client.MergeFrom` does. `depFrom` and `svcFrom` are history
  variables: the generation each object was last applied from.
* `Remediation` - `remediateUnsafeDeployment` call by call, with resource
  versions, UIDs and the field managers of server-side apply, against
  arbitrary writes of others. `InstanceReconciler` has the same function as one
  step with its possible outcomes (nothing to do, error with or without the
  write, remediated).
* `ScaleDown` - what that function promises, as one indivisible step. `Remediation`
  instantiates it with a refinement mapping (`AtomicScaleDown`), which is checked
  and proved. It is what allows the other modules to use a single step.
* `SharedName` - a `VLLMInstance` and a `LongContextInstance` of one name, each
  with its controller, over one Deployment and one Service. It keeps of
  `Reconcile` what reaches these two objects, and adds what the first module
  leaves out: owner references that the two overwrite, watch handlers that look
  at the old and the new owner, UIDs of re-created CRs, and a change of leader
  (`Handover`) after which an apply of the former leader may still land
  (`LateApply`), since the lease of `main.go` is no fence. A CR's `conf` is what it
  and its preset, both watched, come to; a PVC that comes or goes is not in it. The
  remediation is one step here, which `AtomicScaleDown` of `Remediation` justifies.
* `Endpoint` - `status.endpoint`: `resolveEndpoint`, `resolveServiceEndpoint`,
  the node watch with `nodeWatchPredicate` and `sameInternalIPs`, the other
  watches, and a reconcile that applies the Service, reads the caches and patches
  the endpoint. Nodes, EndpointSlices, the load balancer and the spec change
  under it. Both reconcilers have this code. Its reads of the caches succeed: what a
  swallowed error does is in `InstanceReconciler`.
* `Config` - every field of both presets and both override types; `Resolve`,
  `ResolveLongContext`, `ResolveLongContextInstance`, defaults, pointer fields,
  `MergeEnv`, `HashConfig` and the admission rules of the CRDs. The fields each
  resolver copies and overrides are listed as the assignments list them, apart from
  the fields the CRDs declare, so that a difference between the two shows.
* `Rendering` (extends `Config`) - `ValidateEffectiveConfig` and its helpers, the
  security policy, `BuildDeployment` (arguments, environment, volumes, mounts,
  sidecar, resources) and `BuildService`.
* `ConfigEdits` (extends `Rendering`) - an instance of either kind while preset,
  overrides and spec (the replica count too) are edited, each edit admitted on its
  own, and the operator resolves, checks and applies.
* `MCInstanceReconciler`, `MCRemediation`, `MCEndpoint`, `MCConfig` - the
  constants of the runs (`SharedName` needs none).
* `InstanceReconcilerProofs`, `InstanceSafetyProofs` and `InstanceRestProofs`, each
  on the one before, `RemediationProofs`, `SharedNameProofs`, `EndpointProofs`,
  `RenderingProofs` (lemmas about `Config` and `Rendering`) and `ConfigProofs` (about
  `ConfigEdits`, on top of it) - the invariants, lemmas and theorems of the module
  each is named after.

A definition named `Mut...` is a plausible faulty variant of the definition
after it. No specification uses it; substituting it must violate a property,
which shows that the property is about that line of code.

Abstractions. In `Cluster` and `SharedName` a configuration is a model value
(`InvalidConfs` or `Refused` are those the operator refuses); what stands behind
it is in `Config` and `Rendering`. `resolvedConfigHash` is the configuration it
is the hash of. In `Cluster` an endpoint is none, the DNS name or a node's
address; the addresses themselves are in `Endpoint`. `seen` is the Deployment's
`status.observedGeneration >= generation`. Reads of caches with no API call
between them are one step; caches advance separately, so no interleaving of
results is lost. In `Config` a field holds the zero value, "the preset's" or "the
override's"; only fields that the code looks into have values of their own, among
them quantities that match the pattern of the CRD and do not parse.

## Runs

| run | disturbances (bound) | checks | shows |
|---|---|---|---|
| races | edit, failing call, restart (2 in any mix) | `TypeOK`, `ObservedMeansApplied`, `NoRollback`, `RestIsTruthful` | no order of two of these publishes a generation that was not applied, goes back to an older one, or strands the CR short of being served, a missing endpoint after a swallowed read error aside; 2.9 million states |
| storage | edit, kubectl scale down or preset change (1), with preset events that may be lost; two replicas, three mount modes, ROX and RWX claims | `NoUnsafeFanout` | replicas and mount mode stay consistent with the claim through a switch, whatever the operator missed; 4.9 million states |
| dependencies | preset or PVC change (2), one or two replicas on an RWO claim | `ReadyIsBacked`, `RestIsTruthful`, `EventuallyApplied`, `EventuallyRefused` | no exit leaves an old Ready=True; waiting CRs come back; refusals name their reason; only a served or a storage-refused CR is left alone |
| interference | edit, pod failure, deletion of a workload or of the CR, restart (1) | `DeletedLeavesNothing`, `EventuallyReported` | workloads are repaired or collected, and the status converges in spite of stale diffs |
| remediation | 4 writes of others or failing calls | `TypeOK`, `WritesOnlyOwned`, `NeverTakesReplicas`, `EventuallyRemediated`, `AtomicScaleDown` | the remediation touches only its own Deployment, is retried until it succeeds, and implements `ScaleDown` |
| shared_name | edit, deletion and re-creation of either CR, kubectl scale, failing apply, change of leader (2 in any mix) | `TypeOK`, `RestIsServed`, `SurvivorServed`, `NothingOutlivesBoth` | no controller comes to rest on the other's objects, the CR that is left to be served gets its objects back, and deleted CRs leave none; 850 thousand states |
| endpoint | 2 changes of nodes, pods, the Service or the spec; two nodes, two pods | `TypeOK`, `RestIsReachable`, `EventuallyReachable`, `EndpointSettles` | the published address ends up at a node that serves, and stays; an operator at rest has published one that does; 64 thousand states |
| config | 2 edits, of every field, for both kinds | `NothingDropped`, `RenderNeverPanics`, `MergedRulesHold`, `PodHoldsTogether`, `EnvPrecedence`, `EditReachesPod`, `HashTracksPod` | the merge loses nothing, what is accepted renders and keeps admission's rules, edits reach the pod and the hash |
| stale_ready | edit (1) | `ReadyFromObservedDeployment` violated | Ready=True for a generation no pod runs, see below |
| torn_status | edit (1) | `ScaledToZeroHasNoEndpoint` violated | ScaledToZero beside an old endpoint, until a later reconcile |
| own_deployment | none | `ReducesOwnDeployment` violated | the minimal apply gives up required fields and is refused |
| lmcache | 2 edits | `LMCacheSingleSlice` violated | an LMCache pod on two slices |

Bounds. One edit makes two generations, two make three: enough for a cached CR,
a worker and a server that are all different, and with a fault or restart in
between. Two replicas are the most the CRD admits. Four foreign writes are
enough to delete, re-create, rescale and release a Deployment within one call.
In `SharedName` two disturbances let one CR go or change while the other's
objects are in any state, and a leader change meet a deletion; `MaxLag` is how
many versions a watch may be behind, and a write waits when it is reached. In
`Endpoint` two changes are enough for a node to lose its address while the pod
moves, on two nodes with two addresses each to choose from; the pods start one on
each node, so that there is a choice, and the kubelet reports no empty address. In `ConfigEdits` two
edits are one on each side of a merge; `pvcName` and the Hugging Face token secret
are immutable and left out. The proofs remove the bounds for the
safety properties they cover. Deadlock is not checked where the system may rest:
a reconciler whose CR is Ready, or refused for its storage, waits for events
(`ConfigEdits` never stops, as it can reconcile at any time).

Fairness. `LiveSpec` of `InstanceReconciler`: weak fairness of each informer
(watches deliver), of the timer (the delaying queue fires), of `Reconcile` as a
whole (four workers take queued keys, a started reconcile goes on), and of the
Deployment controller, the kubelet and the garbage collector. No disturbance,
fault or restart is fair. In `Remediation`: the cache and the function itself. In
`SharedName`: the watches, the collector and the worker of each kind, which are
workers of separate controllers; disturbances and late applies need not happen. In `Endpoint`: the informers and the worker, and strong fairness
of `Observe`: a reconcile may find the Service or Deployment it just applied
missing in the cache and come back, but an applied object reaches the cache, so
it does not find it missing for ever. Liveness properties have the form
"eventually always", since the disturbances end.

`SharedName` lets a watch deliver each version in its order. After a broken
watch, client-go lists anew and may skip versions; if the versions skipped are
the one in which the other kind had taken the object over and the one in which
the object went back or away, no event reaches the kind that lost it. The periodic resync
ends that, outside the model.

### What the four violated properties say

* After an edit, the read-back Deployment may not have been observed by its
  controller. `readyReplicas` is then rightly not copied, but `Ready` is still
  computed from the old count and the old `Available` condition and stamped
  with the new generation.
* The ScaledToZero exit clears the endpoint in memory; when the cached CR does
  not yet show the endpoint published before, the diff is empty and the
  server's copy stays. The next reconcile repairs it (run interference).
* The remediation applies `{replicas: 1}` with the field manager that applied
  the whole Deployment. The API server takes the fields that this manager owned
  alone and no longer names out of the object, and rejects a Deployment without
  selector and template. If another manager co-owns those fields the apply
  works, which is the case run remediation checks for success.
* "LMCache offload is single-slice only" is an admission rule of the preset and,
  separately, of the overrides. A preset with LMCache on one slice and an
  override to two slices both pass, and `ValidateEffectiveConfig` does not look.

### Observations without a run of their own

* Two CRs of one name that both want to be served overwrite each other's
  Deployment and Service for as long as both exist; nothing refuses the second.
  `TwoNeverRest` proves that the two controllers never both come to rest.
* `node_predicate.go:9-12` says the Ready condition is used to pick a healthy
  node; `resolveEndpoint` does not look at it, so such an event only repeats a
  reconcile. The readiness of the pods is what counts.
* A node whose InternalIPs are only reordered is no event. The address published
  before is still one of its InternalIPs, so `EventuallyReachable` holds.
* `LongContextOverrides` is said to mirror the preset "field-for-field"
  (`longcontextinstance_types.go:14`); `limitMmPerPrompt`,
  `kvCacheDtypeSkipLayers` and `env` have no override there.
* A refused configuration still puts its hash into `status.resolvedConfigHash`.
* The hash covers the configuration and the environment, and neither the API key nor
  the replica count, so a change of one of these alone leaves `resolvedConfigHash` as
  it was; `HashTracksPod` says so.
* `resolveEndpoint` is said to return "" "if no Ready endpoint exists"
  (`vllminstance_controller.go:388-391`). It also does when its List or the Get of the
  nodes fails. The instance is then Ready=True with no endpoint, no requeue is asked
  for, and the endpoint stays away until some event brings the CR back.
  `RestIsTruthful` states that outcome.
* `mapPresetToInstances` and `mapNodeToInstances` return nothing when their List
  fails: the event is lost, and the CR stays with what the old preset or node gave it
  until something else enqueues it. `RestIsTruthful` does not hold then.
* `tensorParallelSize` and `cpuOffloadGiB` have no minimum in the overrides: zero and
  negative values are admitted, win over the preset's, and give no argument.
* An instance without preset and without `shmSizeLimit` is admitted and always
  refused; `1K` passes the pattern of that field and is refused as well.

## Proofs

`InstanceReconcilerProofs` proves, for all specs, configurations, presets and
access modes, any budget and any kinds of disturbance, `TypeOK`,
`ObservedMeansApplied` and `NoRollback` of `Spec`. The assumptions are those of
`Cluster` on its constants. `ObservedMeansApplied` is not inductive: a patch
publishes what a reconcile staged earlier, and a reconcile may start from an
old cache. The invariant `IInv` adds

* `Generations` - what was last applied is no newer than the generation the
  worker holds, which is no newer than the cached one, which is one of the
  server's; and
* `Staged` - the staged observedGeneration is that of the cached original (then
  the patch does not send it) or the worker's generation with both applies made
  (then it is the newest applied one).

Lemmas give what the operators on statuses and Deployments return
(`SetCondition`, `ReportType`, `StoreDepType`, `MergePatchType`); then one lemma
per group of actions.

`RemediationProofs` proves `TypeOK`, `WritesOnlyOwned` and `NeverTakesReplicas`
for any number of foreign writes. The point of its invariant is `Checked`: a
resource version is never used twice, so an object that still carries the
version of the authoritative read is the object that was read. From it
`RemediationAtomic` derives the refinement: under the mapping of
`Remediation` every step is `Lower` of `ScaleDown`, a step of somebody else, or
a stutter; without `Checked` the apply could lower a Deployment that is no
longer the CR's.

`InstanceSafetyProofs` goes on from there.

* Storage. The gate of a reconcile looks at cached objects, the apply comes later.
  `StorageInv` says why that is enough: the access modes of a PVC do not change, so
  the cached ones are the server's, and the worker at its apply holds replicas and
  mount mode that the gate admitted together. `OnlyScaleFansOut`: no step but a
  kubectl scale leads from a Deployment that its volume carries to one it does not.
  `FanoutSafe`: with `MaxScale <= 1`, that is when nobody else raises the replicas,
  `NoUnsafeFanout` always holds. Without the hypothesis it does not: a scale-up by
  hand is lowered only by the next reconcile.
* `ReadyIsBacked`. A patch is a diff of a staged status against a cached one, laid
  over the server's, which may be neither. `ReadyInv` keeps all three backed, with
  the observedGeneration of the cached one no newer than the server's, and says
  which conditions a worker past its checks has staged. The lemmas about
  `setVLLMCondition`, `setReadyFalse` and `MergePatch` give what each leaves in
  every condition; then one lemma per exit of `Reconcile`.

`InstanceRestProofs` proves `RestIsTruthful`: a CR that nothing will bring the
operator back to is served as spec and preset ask, with the status of the current
generation, or refused for its volume. The argument runs over one whole reconcile.
`ViewStep`: an event that changes a cache also queues the key, except the event of a
PVC, of which only the access modes matter after the gate and those are fixed, and of
a preset that the cached CR does not refer to, which then does not enter the
configuration either (an admitted spec without `presetRef` brings its own). So while the
key is not queued, everything the worker holds is a function of the caches as they
are (`Working`), and a reconcile that ended without a requeue has sent the patch from
the cached status to the one they call for (`Ended`). When the cached status is also
the server's, that patch was empty (`PatchEmpty`), so what the reconcile staged is what
is published: this is why the diffs without resourceVersion cannot leave a torn status
behind for good, although run torn_status shows one in passing. A swallowed read error adds the one
other outcome: `Outcome` is what the caches call for, or that with the endpoint empty.
There are two hypotheses. `Mapped` says that `mapPresetToInstances` drops no event;
without it a CR may rest on a preset that has changed since.
`Unshared` says that nobody else scales or deletes the workload objects. It is needed
because a cache of this module has no event for an object that changed and changed
back before it was delivered; `SharedName`, whose watches deliver every version, has
no such hypothesis.

`SharedNameProofs` proves, for every set of configurations, every lag and number
of disturbances, `TypeOK` and `RestIsServed`. The invariant is
about the watches: `Follows` (the stream ends in what the server has), `Fresh` (a
worker whose key was not enqueued again holds what the informer knows) and `Served`:
each object of a key that rests is the one it wants, or some version still in the
stream enqueues the key when it is delivered (`Pending`). A write that takes an
object from an instance is such a version, since the handlers look at the owner
before and after. `TwoNeverRest` follows: one Deployment is not what both want.

`EndpointProofs` proves `TypeOK` and `RestIsReachable` for any number of nodes, pods
and changes, and any address lists, ingresses and ports. Two facts carry it.
`ChoiceServes`: what a reconcile chooses serves according to the caches it read,
however the slices list the pods (`Candidates`: an injective order on a finite set
leaves nobody out). `DroppedUpdate`: a node update that enqueues nothing leaves the
set of addresses as it was; that is the correctness of `sameInternalIPs`
(`SameValues`: of two lists of one length, if no value of the second is more frequent
than in the first, the values are the same; by the pigeonhole principle). The
invariant: a key that waits nowhere has an endpoint that serves by the caches,
unless the CR's own update is still to come (`Settled`), and a worker that was not
overtaken holds the cached CR (`Working`). `OrderIrrelevant` is the safety half of
`EndpointSettles`. The assumptions are those the module states on its constants;
addresses of nodes are not empty, and a node that registers is Ready. Reads of the
caches succeed, as in the module.

`ConfigProofs` proves all properties of run config for every value of every field and
any number of edits. For `NothingDropped`, `RenderNeverPanics`, `MergedRulesHold` and
`HashTracksPod` the lemmas give the value of a field after each stage of the merge
(`ResolveAt`, `ResolveLongContextAt`, `DefaultsAt`, `BaseAt`), field sets against field
sets (`ResolveFields`, `LongContextCopied`, `LongContextOverridden` compare the lists
transcribed from the assignments with the CRDs'), so a field missing from an assignment
would show. `ConfInv` says that the objects
keep to the values admission lets through, that what is live was accepted, and that its
hash and its Deployment come from one configuration and one environment.

The other three need what a loop over a list returns. `MergeEnv` and `Args` are written
as the loops they are, as recursive functions over the number of elements read, and
`RenderingProofs` proves loop invariants for them. `SetInduction` is induction stated
over a set of numbers instead of a predicate, which is the form the provers can apply;
from it `LoopExists` gives the loop's value at every index and `LoopInvariant` carries
an invariant along it.

* `EnvPrecedence`, and the environment in `PodHoldsTogether`: the invariant `Merged` says
  that after n variables every name read has one place in the result, which holds the
  last value read for it (`PutMerges`, `MergeEnvMerges`).
* The mounts in `PodHoldsTogether`: both lists are built from the same conditions
  (`SidecarVolume` for the one mount of the sidecar).
* `EditReachesPod`: an argument is in the list exactly when its row is emitted
  (`ArgsAppend`, `BuildArgsHold`), no two rows have the same flag (`FlagsDiffer`), hence
  equal argument lists agree row by row (`SameArgs`), and each form of row gives back the
  value or as much of it as it shows (`AgreeValue`, `AgreeSwitch` and so on).
  `SameDeployment` adds the fields outside the arguments, and `FieldsCovered` that no
  field is in neither place.

Model-checked only: the liveness properties (`EventuallyApplied`, `EventuallyRefused`,
`EventuallyReported`, `DeletedLeavesNothing`, `EventuallyRemediated`,
`EventuallyReachable`, `EndpointSettles`, `SurvivorServed`, `NothingOutlivesBoth`), since
TLAPS does not reason about fairness. `RestIsTruthful`, `RestIsServed` and
`RestIsReachable` are their safety halves, proved: if the operator comes to rest, it is
at the right place. That it comes to rest is what TLC adds.

## Not modelled

* The MIG setup job: a shell script against labels that mig-manager writes. How
  and when mig-manager clears an old state is not in this repository.
* The status of a LongContextInstance has no module of its own: it is written by
  the statements of the VLLMInstance reconciler, which `InstanceReconciler` models.
* A PVC replaced by one with other access modes while a CR rests in
  `ReplicaStorageUnsafe`: that exit asks for no requeue and PVCs are not watched,
  so only the resync of the library, far outside the bounds, would bring it back.
* Compatibility checks (`internal/compatibility`): comparisons made by tests and
  a command, never by the operator. The system-prompt patch: a pure function in
  Python inside the vLLM image.
* Flags and cache scope of `main.go`, events and log lines, the Progressing
  mirror (a copy nothing reads), constant parts of the rendered objects,
  generated code, build and load-test scripts.
