---------------------------- MODULE Remediation ----------------------------
(***************************************************************************)
(* remediateUnsafeDeployment step by step, for a CR whose replica count    *)
(* its PVC cannot carry.  Between the cached read, the authoritative read, *)
(* the apply and the read-back, others write the same Deployment: they     *)
(* rescale it, change its owner, delete it or put another in its place.    *)
(*                                                                         *)
(* The API server keeps, per field, the managers that own it.  An apply    *)
(* that leaves out a field it owned alone gives the field up: the server   *)
(* removes it, and refuses an object left without a required one.          *)
(***************************************************************************)
EXTENDS Naturals

CONSTANTS
    MaxReplicas,       \* the largest replica count anyone sets
    MaxWrites,         \* how many writes of others and failing calls happen
    InitialManagers    \* who may have applied the Deployment before

Op       == "vllm-operator"     \* fieldOwner
Managers == {Op, "other"}
Fields   == {"replicas", "template", "ownerRef"}
Owners   == {"cr", "foreign", "none"}

\* A Deployment: uid and rv are drawn from the server's one counter, so that
\* neither is ever used twice; a missing one has uid 0.
DepType == [uid : Nat, rv : Nat, owner : Owners, replicas : Nat,
            managers : [Fields -> SUBSET Managers]]
NoDep   == [uid |-> 0, rv |-> 0, owner |-> "none", replicas |-> 0,
            managers |-> [f \in Fields |-> {}]]

ASSUME RemediationAssumption ==
    /\ MaxReplicas \in Nat
    /\ MaxWrites \in Nat
    /\ InitialManagers \subseteq SUBSET Managers

VARIABLES
    obj,        \* the Deployment on the server
    clock,      \* the last resource version given out
    cache,      \* the informer's copy
    queued,     \* a reconcile of the CR is due
    pc,         \* "idle", "readAuth", "apply" or "readBack"
    dep,        \* the function's local: the cached read
    auth,       \* the function's local: the authoritative read
    result,     \* what the last call returned
    writes      \* writes of others and failing calls left

vars == <<obj, clock, cache, queued, pc, dep, auth, result, writes>>

TypeOK ==
    /\ obj \in DepType
    /\ clock \in Nat
    /\ cache \in DepType
    /\ queued \in BOOLEAN
    /\ pc \in {"idle", "readAuth", "apply", "readBack"}
    /\ dep \in DepType
    /\ auth \in DepType
    /\ result \in {"unchanged", "remediated", "error"}
    /\ writes \in Nat

Init ==
    /\ \E n \in 1..MaxReplicas, m \in InitialManagers :
          obj = [uid |-> 1, rv |-> 1, owner |-> "cr", replicas |-> n,
                 managers |-> [f \in Fields |-> {Op} \cup m]]
    /\ clock = 1
    /\ cache \in {NoDep, obj}
    /\ queued = TRUE
    /\ pc = "idle"
    /\ dep = NoDep
    /\ auth = NoDep
    /\ result = "unchanged"
    /\ writes = MaxWrites

Exists(d)         == d.uid # 0
IsControlledBy(d) == d.owner = "cr"

-----------------------------------------------------------------------------
(* Everybody else. *)

\* A write of another client: every one takes the next resource version.
Write(new) ==
    /\ writes > 0
    /\ writes' = writes - 1
    /\ clock' = clock + 1
    /\ obj' = new
    /\ UNCHANGED <<cache, queued, pc, dep, auth, result>>

\* A manager that sets a field to a new value becomes its only owner.
Rescale ==
    /\ Exists(obj)
    /\ \E n \in (0..MaxReplicas) \ {obj.replicas} :
          Write([obj EXCEPT !.rv = clock + 1, !.replicas = n, !.managers["replicas"] = {"other"}])

Reown ==
    /\ Exists(obj)
    /\ \E o \in Owners \ {obj.owner} :
          Write([obj EXCEPT !.rv = clock + 1, !.owner = o, !.managers["ownerRef"] = {"other"}])

\* The Deployment controller writes the status subresource.
TouchStatus == Exists(obj) /\ Write([obj EXCEPT !.rv = clock + 1])

Delete == Exists(obj) /\ Write(NoDep)

Recreate ==
    /\ ~Exists(obj)
    /\ \E n \in 0..MaxReplicas, o \in Owners :
          Write([uid |-> clock + 1, rv |-> clock + 1, owner |-> o, replicas |-> n,
                 managers |-> [f \in Fields |-> {"other"}]])

\* Another manager lets go of replicas: the conflict is resolved.
ReleaseReplicas ==
    /\ "other" \in obj.managers["replicas"]
    /\ Write([obj EXCEPT !.rv = clock + 1, !.managers["replicas"] = @ \ {"other"}])

Others == Rescale \/ Reown \/ TouchStatus \/ Delete \/ Recreate \/ ReleaseReplicas

SyncCache ==
    /\ cache # obj
    /\ cache' = obj
    /\ queued' = TRUE
    /\ UNCHANGED <<obj, clock, pc, dep, auth, result, writes>>

-----------------------------------------------------------------------------
(* remediateUnsafeDeployment.  An error is returned to the workqueue, which  *)
(* brings the CR back after its backoff.  A definition named Mut... is a     *)
(* faulty variant of the one that follows it; no definition uses it.         *)

Return(r) ==
    /\ pc' = "idle"
    /\ result' = r
    /\ dep' = NoDep
    /\ auth' = NoDep

MutErrorDropped == Return("error") /\ UNCHANGED queued
Fail            == Return("error") /\ queued' = TRUE

\* The cached read: not found, not ours or already at one replica.
ReadCache ==
    /\ pc = "idle"
    /\ queued
    /\ queued' = FALSE
    /\ IF Exists(cache) /\ IsControlledBy(cache) /\ cache.replicas > 1
       THEN pc' = "readAuth" /\ dep' = cache /\ UNCHANGED <<auth, result>>
       ELSE Return("unchanged")
    /\ UNCHANGED <<obj, clock, cache, writes>>

\* The same Deployment, still ours, in the authoritative read.
SameIdentity(d) == Exists(d) /\ d.uid = dep.uid /\ IsControlledBy(d)

ReadAuthoritative ==
    /\ pc = "readAuth"
    /\ \/ /\ SameIdentity(obj)
          /\ obj.replicas > 1
          /\ pc' = "apply"
          /\ auth' = obj
          /\ UNCHANGED <<queued, dep, result>>
       \/ SameIdentity(obj) /\ obj.replicas <= 1 /\ Return("unchanged") /\ UNCHANGED queued
       \/ ~SameIdentity(obj) /\ Fail
    /\ UNCHANGED <<obj, clock, cache, writes>>

\* The precondition of the apply: resourceVersion, and nobody else owns replicas.
MutNoVersion == Exists(obj)
SameVersion  == Exists(obj) /\ obj.rv = auth.rv

MutForced    == TRUE
NoConflict   == obj.managers["replicas"] \subseteq {Op} \/ obj.replicas = 1

\* Fields the apply does not name and only the operator owned.
Pruned == {f \in Fields \ {"replicas"} : obj.managers[f] = {Op}}

\* The server's answer to {replicas: 1}: the fields given up are gone.
MutManagersReplaced ==
    [obj EXCEPT !.rv = clock + 1, !.replicas = 1, !.managers = [f \in {"replicas"} |-> {Op}]]
Applied ==
    [obj EXCEPT !.rv = clock + 1,
                !.replicas = 1,
                !.owner = IF "ownerRef" \in Pruned THEN "none" ELSE obj.owner,
                !.managers = [f \in Fields |-> IF f = "replicas" THEN obj.managers[f] \cup {Op}
                                               ELSE obj.managers[f] \ {Op}]]

Accepted == SameVersion /\ NoConflict /\ "template" \notin Pruned

ApplyRemediation ==
    /\ pc = "apply"
    /\ \/ /\ Accepted
          /\ obj' = Applied
          /\ clock' = clock + 1
          /\ pc' = "readBack"
          /\ UNCHANGED <<queued, dep, auth, result>>
       \/ ~Accepted /\ Fail /\ UNCHANGED <<obj, clock>>
    /\ UNCHANGED <<cache, writes>>

ReadBack ==
    /\ pc = "readBack"
    /\ \/ SameIdentity(obj) /\ obj.replicas = 1 /\ Return("remediated") /\ UNCHANGED queued
       \/ ~(SameIdentity(obj) /\ obj.replicas = 1) /\ Fail
    /\ UNCHANGED <<obj, clock, cache, writes>>

Remediate == ReadCache \/ ReadAuthoritative \/ ApplyRemediation \/ ReadBack

\* A call to the API server fails; an apply may have taken place nevertheless.
CallFails ==
    /\ writes > 0
    /\ writes' = writes - 1
    /\ pc # "idle"
    /\ Fail
    /\ \/ UNCHANGED <<obj, clock>>
       \/ pc = "apply" /\ Accepted /\ obj' = Applied /\ clock' = clock + 1
    /\ UNCHANGED cache

Next == Others \/ SyncCache \/ Remediate \/ CallFails

Spec == Init /\ [][Next]_vars

LiveSpec == Spec /\ WF_vars(SyncCache) /\ WF_vars(Remediate)

-----------------------------------------------------------------------------
(* The inductive invariant of the proofs.  A resource version names one      *)
(* state of the object: while the apply is due, an object that still has     *)
(* the version of the authoritative read is the one that was read.           *)

Versions == obj.rv <= clock /\ auth.rv <= clock

Checked ==
    pc = "apply" =>
        /\ Exists(auth) /\ auth.uid = dep.uid /\ IsControlledBy(auth) /\ auth.replicas > 1
        /\ Exists(obj) /\ obj.rv = auth.rv => obj = auth

IInv == TypeOK /\ Versions /\ Checked

-----------------------------------------------------------------------------
(* Properties. *)

\* "Never mutate a same-named workload that is not owned by this CR": whatever
\* others do between the reads and the apply, the write reaches only the
\* Deployment of the cached read, still controlled by the CR and still above
\* one replica.
WritesOnlyOwned ==
    [][pc = "apply" /\ pc' # pc /\ obj' # obj =>
         Exists(obj) /\ obj.uid = dep.uid /\ IsControlledBy(obj) /\ obj.replicas > 1]_vars

\* "Do not force ownership": replicas that another manager owns at the moment
\* of the apply are left to it.
NeverTakesReplicas ==
    [][pc = "apply" /\ pc' # pc /\ "other" \in obj.managers["replicas"] => obj' = obj]_vars

\* Once the others leave it alone, an owned Deployment whose fields the apply
\* does not orphan and whose replicas nobody else claims comes down to one
\* replica: no stale cache, lost race or error ends the attempts.
EventuallyRemediated ==
    <>[](/\ Exists(obj) /\ IsControlledBy(obj)
         /\ obj.managers["replicas"] \subseteq {Op}
         /\ Pruned = {}
         => obj.replicas <= 1)

\* "remediateUnsafeDeployment reduces an already-existing operator-owned
\* Deployment to one replica": also the one the operator applied itself.
ReducesOwnDeployment ==
    <>[](Exists(obj) /\ IsControlledBy(obj) /\ obj.managers["replicas"] \subseteq {Op}
         => obj.replicas <= 1)

\* The reads, the apply and the read-back, with others writing in between, amount
\* to one indivisible step that lowers what may be lowered, or to none.
Abs == INSTANCE ScaleDown WITH
           uid <- obj.uid, owned <- obj.owner = "cr", replicas <- obj.replicas,
           holders <- obj.managers["replicas"]
AtomicScaleDown == Abs!Spec
=============================================================================
