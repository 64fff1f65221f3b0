------------------------- MODULE RemediationProofs -------------------------
(***************************************************************************)
(* What remediateUnsafeDeployment never writes, for any number of writes   *)
(* of others, any replica counts and any field managers.                   *)
(***************************************************************************)
EXTENDS Remediation, TLAPS

\* The reads and the apply of the function start from consistent versions.
LEMMA InitIInv == Init => IInv
  <1> SUFFICES ASSUME Init PROVE IInv
    OBVIOUS
  <1>1. PICK n \in 1..MaxReplicas, m \in InitialManagers :
          obj = [uid |-> 1, rv |-> 1, owner |-> "cr", replicas |-> n,
                 managers |-> [f \in Fields |-> {Op} \cup m]]
    BY DEF Init
  <1>2. obj \in DepType
    <2>1. {Op} \cup m \in SUBSET Managers
      BY RemediationAssumption DEF Managers, Op
    <2>2. [f \in Fields |-> {Op} \cup m] \in [Fields -> SUBSET Managers]
      BY <2>1
    <2> QED BY <1>1, <2>2 DEF DepType, Owners
  <1>3. NoDep \in DepType
    BY DEF NoDep, DepType, Owners
  <1>4. TypeOK
    BY <1>2, <1>3, RemediationAssumption DEF TypeOK, Init
  <1>5. Versions /\ Checked
    BY <1>1 DEF Versions, Checked, Init, NoDep
  <1> QED BY <1>4, <1>5 DEF IInv

\* A write of another client, whatever object it leaves, takes a version that
\* no earlier read has seen.
LEMMA WriteIInv ==
  ASSUME IInv, NEW new, Write(new), new \in DepType,
         new = NoDep \/ new.rv = clock + 1
  PROVE  IInv'
  <1>1. TypeOK'
    BY DEF IInv, TypeOK, Write
  <1>2. new.rv <= clock + 1 /\ (Exists(new) => new.rv = clock + 1)
    BY DEF NoDep, Exists, IInv, TypeOK
  <1>3. Versions'
    BY <1>2 DEF IInv, Versions, Write, TypeOK, DepType
  <1>4. Checked'
    BY <1>2 DEF IInv, Versions, Checked, Write, TypeOK, DepType, Exists, IsControlledBy
  <1> QED BY <1>1, <1>3, <1>4 DEF IInv

\* Every write of the environment is one of those.
LEMMA OthersIInv == IInv /\ Others => IInv'
  <1> SUFFICES ASSUME IInv, Others PROVE IInv'
    OBVIOUS
  <1>0. /\ obj \in DepType /\ clock + 1 \in Nat /\ clock \in Nat
        /\ {"other"} \in SUBSET Managers
        /\ MaxReplicas \in Nat
    BY RemediationAssumption DEF IInv, TypeOK, Managers
  <1>1. CASE Rescale
    <2>1. PICK n \in (0..MaxReplicas) \ {obj.replicas} :
            Write([obj EXCEPT !.rv = clock + 1, !.replicas = n, !.managers["replicas"] = {"other"}])
      BY <1>1 DEF Rescale
    <2> DEFINE new == [obj EXCEPT !.rv = clock + 1, !.replicas = n, !.managers["replicas"] = {"other"}]
               m == [obj.managers EXCEPT !["replicas"] = {"other"}]
    <2>2. m \in [Fields -> SUBSET Managers]
      BY <1>0 DEF DepType
    <2>6. n \in Nat
      BY <1>0
    <2>3. new = [obj EXCEPT !.rv = clock + 1, !.replicas = n, !.managers = m]
      BY <1>0 DEF DepType
    <2> HIDE DEF m
    <2>4. [obj EXCEPT !.rv = clock + 1, !.replicas = n, !.managers = m] \in DepType
      BY <1>0, <2>2, <2>6 DEF DepType
    <2>5. [obj EXCEPT !.rv = clock + 1, !.replicas = n, !.managers = m].rv = clock + 1
      BY <1>0 DEF DepType
    <2> HIDE DEF new
    <2> QED BY <2>1, <2>3, <2>4, <2>5, WriteIInv DEF new
  <1>2. CASE Reown
    <2>1. PICK o \in Owners \ {obj.owner} :
            Write([obj EXCEPT !.rv = clock + 1, !.owner = o, !.managers["ownerRef"] = {"other"}])
      BY <1>2 DEF Reown
    <2> DEFINE new == [obj EXCEPT !.rv = clock + 1, !.owner = o, !.managers["ownerRef"] = {"other"}]
               m == [obj.managers EXCEPT !["ownerRef"] = {"other"}]
    <2>2. m \in [Fields -> SUBSET Managers]
      BY <1>0 DEF DepType
    <2>3. new = [obj EXCEPT !.rv = clock + 1, !.owner = o, !.managers = m]
      BY <1>0 DEF DepType
    <2> HIDE DEF m
    <2>4. [obj EXCEPT !.rv = clock + 1, !.owner = o, !.managers = m] \in DepType
      BY <1>0, <2>2 DEF DepType
    <2>5. [obj EXCEPT !.rv = clock + 1, !.owner = o, !.managers = m].rv = clock + 1
      BY <1>0 DEF DepType
    <2> HIDE DEF new
    <2> QED BY <2>1, <2>3, <2>4, <2>5, WriteIInv DEF new
  <1>3. CASE TouchStatus
    <2> DEFINE new == [obj EXCEPT !.rv = clock + 1]
    <2>1. new \in DepType /\ new.rv = clock + 1
      BY <1>0 DEF DepType
    <2> QED BY <1>3, <2>1, WriteIInv DEF TouchStatus
  <1>4. CASE Delete
    <2>1. NoDep \in DepType
      BY DEF NoDep, DepType, Owners
    <2> QED BY <1>4, <2>1, WriteIInv DEF Delete
  <1>5. CASE Recreate
    <2>1. PICK n \in 0..MaxReplicas, o \in Owners :
            Write([uid |-> clock + 1, rv |-> clock + 1, owner |-> o, replicas |-> n,
                   managers |-> [f \in Fields |-> {"other"}]])
      BY <1>5 DEF Recreate
    <2> DEFINE new == [uid |-> clock + 1, rv |-> clock + 1, owner |-> o, replicas |-> n,
                       managers |-> [f \in Fields |-> {"other"}]]
    <2>2. new \in DepType /\ new.rv = clock + 1
      BY <1>0 DEF DepType
    <2> QED BY <2>1, <2>2, WriteIInv
  <1>6. CASE ReleaseReplicas
    <2> DEFINE new == [obj EXCEPT !.rv = clock + 1, !.managers["replicas"] = @ \ {"other"}]
               m == [obj.managers EXCEPT !["replicas"] = @ \ {"other"}]
    <2>2. m \in [Fields -> SUBSET Managers]
      BY <1>0 DEF DepType
    <2>3. new = [obj EXCEPT !.rv = clock + 1, !.managers = m]
      BY <1>0 DEF DepType
    <2> HIDE DEF m
    <2>4. [obj EXCEPT !.rv = clock + 1, !.managers = m] \in DepType
      BY <1>0, <2>2 DEF DepType
    <2>5. [obj EXCEPT !.rv = clock + 1, !.managers = m].rv = clock + 1
      BY <1>0 DEF DepType
    <2>6. Write(new)
      BY <1>6 DEF ReleaseReplicas
    <2> HIDE DEF new
    <2> QED BY <2>3, <2>4, <2>5, <2>6, WriteIInv
  <1> QED BY <1>1, <1>2, <1>3, <1>4, <1>5, <1>6 DEF Others

\* What the server stores for an accepted apply.
LEMMA AppliedType ==
  ASSUME TypeOK
  PROVE  Applied \in DepType /\ Applied.rv = clock + 1
  <1> DEFINE m == [f \in Fields |-> IF f = "replicas" THEN obj.managers[f] \cup {Op}
                                    ELSE obj.managers[f] \ {Op}]
             o == IF "ownerRef" \in Pruned THEN "none" ELSE obj.owner
  <1>1. m \in [Fields -> SUBSET Managers]
    <2> SUFFICES ASSUME NEW f \in Fields PROVE m[f] \in SUBSET Managers
      OBVIOUS
    <2>1. obj.managers[f] \in SUBSET Managers /\ Op \in Managers
      BY DEF TypeOK, DepType, Managers
    <2> QED BY <2>1
  <1>2. o \in Owners
    BY DEF TypeOK, DepType, Owners
  <1>3. Applied = [obj EXCEPT !.rv = clock + 1, !.replicas = 1, !.owner = o, !.managers = m]
    BY DEF Applied
  <1>4. obj \in DepType /\ clock + 1 \in Nat
    BY DEF TypeOK
  <1> HIDE DEF m, o
  <1>5. [obj EXCEPT !.rv = clock + 1, !.replicas = 1, !.owner = o, !.managers = m] \in DepType
    BY <1>1, <1>2, <1>4 DEF DepType
  <1>6. [obj EXCEPT !.rv = clock + 1, !.replicas = 1, !.owner = o, !.managers = m].rv = clock + 1
    BY <1>4 DEF DepType
  <1> QED BY <1>3, <1>5, <1>6

\* A return that leaves the server alone: no apply is due any more.
LEMMA ReturnIInv ==
  ASSUME IInv, NEW r \in {"unchanged", "remediated", "error"}, Return(r), queued' \in BOOLEAN,
         UNCHANGED <<obj, clock, cache, writes>>
  PROVE  IInv'
  <1>1. NoDep \in DepType /\ NoDep.rv = 0
    BY DEF NoDep, DepType, Fields, Managers, Owners
  <1>2. pc' = "idle" /\ result' = r /\ dep' = NoDep /\ auth' = NoDep
    BY DEF Return
  <1>3. TypeOK'
    BY <1>1, <1>2 DEF IInv, TypeOK
  <1>4. Versions' /\ Checked'
    BY <1>1, <1>2 DEF IInv, TypeOK, Versions, Checked
  <1> QED BY <1>3, <1>4 DEF IInv

\* The steps of the function itself.
LEMMA RemediateIInv == IInv /\ (SyncCache \/ Remediate \/ CallFails) => IInv'
  <1> SUFFICES ASSUME IInv, SyncCache \/ Remediate \/ CallFails PROVE IInv'
    OBVIOUS
  <1>0. NoDep \in DepType /\ NoDep.rv = 0
    BY DEF NoDep, DepType, Fields, Managers, Owners
  <1>1. CASE SyncCache
    BY <1>1 DEF IInv, TypeOK, Versions, Checked, SyncCache, Exists, IsControlledBy
  <1>2. CASE ReadCache
    <2>1. CASE Exists(cache) /\ IsControlledBy(cache) /\ cache.replicas > 1
      <3>1. pc' = "readAuth" /\ dep' = cache /\ queued' = FALSE
            /\ UNCHANGED <<obj, clock, cache, auth, result, writes>>
        BY <1>2, <2>1 DEF ReadCache
      <3> QED BY <3>1 DEF IInv, TypeOK, Versions, Checked
    <2>2. CASE ~(Exists(cache) /\ IsControlledBy(cache) /\ cache.replicas > 1)
      <3>1. queued' = FALSE /\ Return("unchanged") /\ UNCHANGED <<obj, clock, cache, writes>>
        BY <1>2, <2>2 DEF ReadCache
      <3> QED BY <3>1, ReturnIInv
    <2> QED BY <2>1, <2>2
  <1>3. CASE ReadAuthoritative
    <2>1. UNCHANGED <<obj, clock, cache, writes>>
      BY <1>3 DEF ReadAuthoritative
    <2>2. CASE SameIdentity(obj) /\ obj.replicas > 1
      <3>1. pc' = "apply" /\ auth' = obj /\ UNCHANGED <<queued, dep, result>>
        BY <1>3, <2>2 DEF ReadAuthoritative, Fail, Return, IInv, TypeOK, DepType
      <3>2. TypeOK'
        BY <2>1, <3>1 DEF IInv, TypeOK
      <3>3. Versions' /\ Checked'
        BY <2>1, <2>2, <3>1 DEF IInv, Versions, Checked, SameIdentity, Exists, IsControlledBy
      <3> QED BY <3>2, <3>3 DEF IInv
    <2>3. CASE Return("unchanged") /\ UNCHANGED queued
      BY <2>1, <2>3, ReturnIInv DEF IInv, TypeOK
    <2>4. CASE Fail
      BY <2>1, <2>4, ReturnIInv DEF Fail
    <2> QED BY <1>3, <2>2, <2>3, <2>4 DEF ReadAuthoritative
  <1>4. CASE ApplyRemediation
    <2>1. UNCHANGED <<cache, writes>>
      BY <1>4 DEF ApplyRemediation
    <2>2. CASE Accepted /\ obj' = Applied /\ clock' = clock + 1 /\ pc' = "readBack"
               /\ UNCHANGED <<queued, dep, auth, result>>
      <3>1. TypeOK'
        BY <2>1, <2>2, AppliedType DEF IInv, TypeOK
      <3>2. Versions' /\ Checked'
        BY <2>1, <2>2, AppliedType DEF IInv, TypeOK, DepType, Versions, Checked
      <3> QED BY <3>1, <3>2 DEF IInv
    <2>3. CASE Fail /\ UNCHANGED <<obj, clock>>
      BY <2>1, <2>3, ReturnIInv DEF Fail
    <2> QED BY <1>4, <2>2, <2>3 DEF ApplyRemediation
  <1>5. CASE ReadBack
    <2>1. UNCHANGED <<obj, clock, cache, writes>>
      BY <1>5 DEF ReadBack
    <2>2. CASE Return("remediated") /\ UNCHANGED queued
      BY <2>1, <2>2, ReturnIInv DEF IInv, TypeOK
    <2>3. CASE Fail
      BY <2>1, <2>3, ReturnIInv DEF Fail
    <2> QED BY <1>5, <2>2, <2>3 DEF ReadBack
  <1>6. CASE CallFails
    <2>1. TypeOK'
      BY <1>0, <1>6, AppliedType DEF IInv, TypeOK, CallFails, Return, Fail
    <2>2. Versions' /\ Checked'
      BY <1>0, <1>6, AppliedType DEF IInv, TypeOK, DepType, Versions, Checked, CallFails, Return, Fail
    <2> QED BY <2>1, <2>2 DEF IInv
  <1> QED BY <1>1, <1>2, <1>3, <1>4, <1>5, <1>6 DEF Remediate

\* The invariant holds throughout every behaviour of the specification.
THEOREM Invariance == Spec => []IInv
  <1>1. IInv /\ UNCHANGED vars => IInv'
    BY DEF IInv, TypeOK, Versions, Checked, Exists, IsControlledBy, vars
  <1>2. IInv /\ [Next]_vars => IInv'
    BY <1>1, OthersIInv, RemediateIInv DEF Next
  <1> QED BY <1>2, InitIInv, PTL DEF Spec

\* The variables of remediateUnsafeDeployment and of the server keep their types.
THEOREM TypeCorrect == Spec => []TypeOK
  BY Invariance, PTL DEF IInv

\* Only the step from "apply" to another pc is the operator's own write.
LEMMA OperatorWrite ==
  ASSUME IInv, Next, pc = "apply", pc' # pc, obj' # obj
  PROVE  Accepted
  BY DEF Next, Others, Rescale, Reown, TouchStatus, Delete, Recreate, ReleaseReplicas, Write,
         SyncCache, Remediate, ReadCache, ReadAuthoritative, ApplyRemediation, ReadBack, CallFails

\* remediateUnsafeDeployment writes only the Deployment of its cached read,
\* controlled by the CR and above one replica, whatever others do in between.
THEOREM RemediationSafe == Spec => WritesOnlyOwned
  <1>1. ASSUME IInv, Next, pc = "apply", pc' # pc, obj' # obj
        PROVE  Exists(obj) /\ obj.uid = dep.uid /\ IsControlledBy(obj) /\ obj.replicas > 1
    BY <1>1, OperatorWrite DEF IInv, Checked, Accepted, SameVersion, Exists, IsControlledBy
  <1>2. IInv /\ [Next]_vars =>
          [pc = "apply" /\ pc' # pc /\ obj' # obj =>
             Exists(obj) /\ obj.uid = dep.uid /\ IsControlledBy(obj) /\ obj.replicas > 1]_vars
    BY <1>1 DEF vars
  <1> QED BY <1>2, Invariance, PTL DEF Spec, WritesOnlyOwned

\* replicas that another manager owns are never taken over by the remediation.
THEOREM RemediationYields == Spec => NeverTakesReplicas
  <1>1. ASSUME IInv, Next, pc = "apply", pc' # pc, "other" \in obj.managers["replicas"]
        PROVE  obj' = obj
    <2> SUFFICES ASSUME obj' # obj PROVE FALSE
      OBVIOUS
    <2>1. Accepted
      BY <1>1, OperatorWrite
    <2>2. obj.replicas > 1
      BY <1>1, <2>1 DEF IInv, Checked, Accepted, SameVersion
    <2>3. "other" \in {Op} \/ obj.replicas = 1
      BY <1>1, <2>1 DEF Accepted, NoConflict
    <2> QED BY <2>2, <2>3 DEF Op
  <1>2. IInv /\ [Next]_vars =>
          [pc = "apply" /\ pc' # pc /\ "other" \in obj.managers["replicas"] => obj' = obj]_vars
    BY <1>1 DEF vars
  <1> QED BY <1>2, Invariance, PTL DEF Spec, NeverTakesReplicas

\* A write of another client is a step of the abstract environment: it takes the
\* count from the operator or leaves it as it is.
LEMMA OthersElsewhere == IInv /\ Others => Abs!Elsewhere
  <1> SUFFICES ASSUME IInv, Others PROVE Abs!Elsewhere
    OBVIOUS
  <1>0. /\ obj \in DepType /\ obj.managers \in [Fields -> SUBSET Managers]
        /\ "replicas" \in Fields /\ "ownerRef" \in Fields /\ Op # "other"
    BY DEF IInv, TypeOK, DepType, Fields, Op
  <1> SUFFICES Op \in obj'.managers["replicas"] =>
                 /\ Op \in obj.managers["replicas"]
                 /\ obj'.uid = obj.uid /\ obj'.replicas = obj.replicas
    BY DEF Abs!Elsewhere
  <1>1. CASE Rescale
    <2>1. PICK n \in (0..MaxReplicas) \ {obj.replicas} :
            obj' = [obj EXCEPT !.rv = clock + 1, !.replicas = n, !.managers["replicas"] = {"other"}]
      BY <1>1 DEF Rescale, Write
    <2>2. obj'.managers["replicas"] = {"other"}
      BY <1>0, <2>1 DEF DepType
    <2> QED BY <1>0, <2>2
  <1>2. CASE Reown
    <2>1. PICK o \in Owners \ {obj.owner} :
            obj' = [obj EXCEPT !.rv = clock + 1, !.owner = o, !.managers["ownerRef"] = {"other"}]
      BY <1>2 DEF Reown, Write
    <2>2. /\ obj'.managers["replicas"] = obj.managers["replicas"]
          /\ obj'.uid = obj.uid /\ obj'.replicas = obj.replicas
      BY <1>0, <2>1 DEF DepType
    <2> QED BY <2>2
  <1>3. CASE TouchStatus
    <2>1. obj' = [obj EXCEPT !.rv = clock + 1]
      BY <1>3 DEF TouchStatus, Write
    <2> QED BY <1>0, <2>1 DEF DepType
  <1>4. CASE Delete
    <2>1. obj' = NoDep
      BY <1>4 DEF Delete, Write
    <2> QED BY <1>0, <2>1 DEF NoDep
  <1>5. CASE Recreate
    <2>1. obj'.managers["replicas"] = {"other"}
      BY <1>0, <1>5 DEF Recreate, Write
    <2> QED BY <1>0, <2>1
  <1>6. CASE ReleaseReplicas
    <2>1. obj' = [obj EXCEPT !.rv = clock + 1, !.managers["replicas"] = @ \ {"other"}]
      BY <1>6 DEF ReleaseReplicas, Write
    <2>2. /\ obj'.managers["replicas"] = obj.managers["replicas"] \ {"other"}
          /\ obj'.uid = obj.uid /\ obj'.replicas = obj.replicas
      BY <1>0, <2>1 DEF DepType
    <2> QED BY <2>2
  <1> QED BY <1>1, <1>2, <1>3, <1>4, <1>5, <1>6 DEF Others

\* The apply the server accepts is the abstract step: the object it meets is the
\* one that was read, so it is owned, above one replica and unclaimed.
LEMMA ApplyLowers ==
  ASSUME IInv, pc = "apply", Accepted, obj' = Applied
  PROVE  Abs!Lower
  <1>0. /\ obj \in DepType /\ obj.managers \in [Fields -> SUBSET Managers]
        /\ "replicas" \in Fields
    BY DEF IInv, TypeOK, DepType, Fields
  <1>1. obj.uid # 0 /\ obj.owner = "cr" /\ obj.replicas > 1
    BY DEF IInv, Checked, Accepted, SameVersion, Exists, IsControlledBy
  <1>2. obj.managers["replicas"] \subseteq {Op}
    BY <1>0, <1>1 DEF Accepted, NoConflict, DepType
  <1>3. /\ obj'.uid = obj.uid /\ obj'.replicas = 1
        /\ obj'.managers["replicas"] = obj.managers["replicas"] \cup {Op}
    BY <1>0 DEF Applied, DepType
  <1> QED BY <1>1, <1>2, <1>3 DEF Abs!Lower

\* remediateUnsafeDeployment, with all that others do between its calls, implements
\* the indivisible step of ScaleDown.
THEOREM RemediationAtomic == Spec => AtomicScaleDown
  <1>1. Init => Abs!Init
    <2> SUFFICES ASSUME Init PROVE Abs!Init
      OBVIOUS
    <2>1. obj.uid = 1 /\ obj.owner = "cr"
      BY DEF Init
    <2> QED BY <2>1 DEF Abs!Init
  <1>2. IInv /\ [Next]_vars =>
          [Abs!Lower \/ Abs!Elsewhere]_<<obj.uid, obj.owner = "cr", obj.replicas, obj.managers["replicas"]>>
    <2> SUFFICES ASSUME IInv, [Next]_vars
                 PROVE  Abs!Lower \/ Abs!Elsewhere \/ obj' = obj
      OBVIOUS
    <2>1. CASE Others
      BY <2>1, OthersElsewhere
    <2>2. CASE SyncCache \/ Remediate \/ CallFails
      <3>1. obj' = obj \/ (pc = "apply" /\ Accepted /\ obj' = Applied)
        BY <2>2 DEF SyncCache, Remediate, ReadCache, ReadAuthoritative, ApplyRemediation, ReadBack, CallFails
      <3> QED BY <3>1, ApplyLowers
    <2> QED BY <2>1, <2>2 DEF Next, vars
  <1> QED BY <1>1, <1>2, Invariance, PTL DEF Spec, AtomicScaleDown, Abs!Spec
=============================================================================
