-------------------------- MODULE SharedNameProofs --------------------------
(***************************************************************************)
(* What holds of two instances of one name for every set of configurations,*)
(* every lag of the watches and every number of disturbances.              *)
(*                                                                         *)
(* The argument is about the watch: a write that takes an object away from *)
(* the instance it was rendered for is a version whose delivery enqueues   *)
(* that instance, and until then the version is in the stream.             *)
(***************************************************************************)
EXTENDS SharedName, SequenceTheorems, TLAPS

\* The version before the i-th of those that the watch has yet to deliver.
Before(o, i) == IF i = 1 THEN cObj[o] ELSE stream[o][i - 1]

\* Some delivery to come enqueues the key of kind k.
Pending(o, k) == \E i \in 1..Len(stream[o]) : Owns(o, k, Before(o, i), stream[o][i])

\* The object is what CR x of kind k asks for, or the key will hear that it is not.
Good(o, k, x) == obj[o] = Rendered(k, x) \/ Pending(o, k)

\* What comes before the next write is what the server has.
Follows == \A o \in Objects : obj[o] = Before(o, Len(stream[o]) + 1)

\* A spec renders to a configuration, and a worker holds a CR that its checks let
\* through, or, while it remediates, one that they turned down.
Specs(k) ==
    /\ cr[k].conf \in Confs
    /\ cCR[k].exists => cCR[k].conf \in Confs
    /\ pc[k] \in {"applyDep", "applySvc"} => w[k].conf \in Confs \ Refused
    /\ pc[k] = "remediate" => w[k].conf \in Refused

\* While the key is not queued the worker holds what the informer knows.
Fresh(k) == ~queued[k] /\ pc[k] # "idle" => w[k] = cCR[k]

\* A key that is neither queued nor under way has been served, or will be enqueued.
Served(k) ==
    /\ ~queued[k] /\ pc[k] = "idle" /\ cCR[k].exists /\ cCR[k].conf \notin Refused =>
          \A o \in Objects : Good(o, k, cCR[k])
    /\ ~queued[k] /\ pc[k] = "applySvc" => Good("dep", k, w[k])

KindInv(k) == Specs(k) /\ Fresh(k) /\ Served(k)

IInv == TypeOK /\ Follows /\ \A k \in Kinds : KindInv(k)

\* Of a step: what was good of a key that it leaves off the queue stays good.
Keeps == \A q \in Objects, k \in Kinds, x \in CRType :
            ~queued'[k] /\ Good(q, k, x) => Good(q, k, x)'

\* Of a step: it leaves the controller of kind k where it is, or enqueues its key.
Untouched(k) ==
    /\ cr'[k].conf \in Confs /\ cCR'[k] = cCR[k] /\ pc'[k] = pc[k] /\ w'[k] = w[k]
    /\ queued[k] => queued'[k]

-----------------------------------------------------------------------------
(* Types. *)

\* What is rendered for a CR that renders to a configuration is a version.
LEMMA RenderedType ==
  ASSUME NEW k \in Kinds, NEW x \in CRType, x.conf \in Confs
  PROVE  Rendered(k, x) \in Version /\ Rendered(k, x).exists /\ Rendered(k, x).kind = k
  BY DEF Rendered, Version, CRType

\* A foreign write or a remediation changes the content of a version only.
LEMMA DriftType ==
  ASSUME NEW v \in Version, v.exists
  PROVE  [v EXCEPT !.conf = "drift"] \in Version
  <1>1. v # Gone
    BY DEF Gone
  <1>2. v \in [exists : {TRUE}, kind : Kinds, uid : Nat, conf : Confs \cup {"drift"}]
    BY <1>1 DEF Version
  <1> QED BY <1>2 DEF Version

\* A write by anybody that the watch has yet to deliver.
LEMMA StoreType ==
  ASSUME TypeOK, Follows, NEW o \in Objects, NEW v \in Version, Store(o, v), cObj' = cObj
  PROVE  /\ obj' \in [Objects -> Version] /\ stream' \in [Objects -> Seq(Version)]
         /\ Follows'
  <1>1. obj \in [Objects -> Version] /\ stream \in [Objects -> Seq(Version)]
    BY DEF TypeOK
  <1>2. obj' = [obj EXCEPT ![o] = v]
    BY DEF Store
  <1>3. CASE v = obj[o]
    <2>1. obj' = obj /\ stream' = stream
      BY <1>1, <1>2, <1>3 DEF Store
    <2> QED BY <1>1, <2>1 DEF Follows, Before
  <1>4. CASE v # obj[o]
    <2>1. stream' = [stream EXCEPT ![o] = Append(@, v)]
      BY <1>4 DEF Store
    <2>2. PICK n \in Nat : n = Len(stream[o])
      BY <1>1, LenProperties
    <2>3. stream[o] \in Seq(Version) /\ stream'[o] = Append(stream[o], v)
      BY <1>1, <2>1
    <2>4. stream'[o] \in Seq(Version) /\ Len(stream'[o]) = n + 1 /\ stream'[o][n + 1] = v
      BY <2>2, <2>3, AppendProperties
    <2>5. obj' \in [Objects -> Version] /\ stream' \in [Objects -> Seq(Version)]
      BY <1>1, <1>2, <2>1, <2>3, <2>4
    <2>6. ASSUME NEW q \in Objects
          PROVE  (obj[q] = Before(q, Len(stream[q]) + 1))'
      <3>1. CASE q = o
        BY <1>1, <1>2, <2>3, <2>4, <3>1 DEF Before
      <3>2. CASE q # o
        <4>1. obj'[q] = obj[q] /\ stream'[q] = stream[q]
          BY <1>1, <1>2, <2>1, <3>2
        <4> QED BY <4>1 DEF Follows, Before
      <3> QED BY <3>1, <3>2
    <2> QED BY <2>5, <2>6 DEF Follows
  <1> QED BY <1>3, <1>4

\* No write takes an object from the instance it was rendered for unnoticed, and
\* the one that renders it is good at once.
LEMMA StoreGood ==
  ASSUME TypeOK, Follows, NEW o \in Objects, NEW v \in Version, Store(o, v), cObj' = cObj,
         NEW k \in Kinds, NEW x \in CRType
  PROVE  /\ \A q \in Objects : Good(q, k, x) => Good(q, k, x)'
         /\ v = Rendered(k, x) => Good(o, k, x)'
  <1>1. obj \in [Objects -> Version] /\ stream \in [Objects -> Seq(Version)]
    BY DEF TypeOK
  <1>2. obj' = [obj EXCEPT ![o] = v]
    BY DEF Store
  <1>3. v = Rendered(k, x) => Good(o, k, x)'
    BY <1>1, <1>2 DEF Good
  <1>4. ASSUME NEW q \in Objects, Good(q, k, x)
        PROVE  Good(q, k, x)'
    <2>1. CASE obj'[q] = obj[q] /\ stream'[q] = stream[q]
      BY <1>4, <2>1 DEF Good, Pending, Before
    <2>2. CASE q = o /\ v # obj[o]
      <3>1. PICK n \in Nat : n = Len(stream[o])
        BY <1>1, LenProperties
      <3>2. stream' = [stream EXCEPT ![o] = Append(@, v)]
        BY <2>2 DEF Store
      <3>3. stream'[o] = Append(stream[o], v)
        BY <1>1, <3>2
      <3>4. /\ Len(stream'[o]) = n + 1 /\ stream'[o][n + 1] = v
            /\ \A i \in 1..n : stream'[o][i] = stream[o][i]
        BY <1>1, <3>1, <3>3, AppendProperties
      <3>5. CASE Pending(o, k)
        <4>1. PICK i \in 1..n : Owns(o, k, Before(o, i), stream[o][i])
          BY <3>1, <3>5 DEF Pending
        <4>2. i \in 1..Len(stream'[o]) /\ stream'[o][i] = stream[o][i]
          BY <3>4
        <4>3. Before(o, i)' = Before(o, i)
          BY <3>4 DEF Before
        <4>4. Owns(o, k, Before(o, i)', stream'[o][i])
          BY <4>1, <4>2, <4>3
        <4> QED BY <2>2, <4>2, <4>4 DEF Good, Pending, Owns
      <3>6. CASE obj[o] = Rendered(k, x)
        <4>1. Before(o, n + 1)' = obj[o]
          BY <3>1, <3>4 DEF Before, Follows
        <4>2. Owns(o, k, Before(o, n + 1)', stream'[o][n + 1])
          BY <3>6, <4>1 DEF Owns, Rendered
        <4>3. n + 1 \in 1..Len(stream'[o])
          BY <3>4
        <4>4. Pending(o, k)'
          BY <4>2, <4>3 DEF Pending, Owns
        <4> QED BY <2>2, <4>4 DEF Good
      <3> QED BY <1>4, <2>2, <3>5, <3>6 DEF Good
    <2> QED BY <1>1, <1>2, <2>1, <2>2 DEF Store
  <1> QED BY <1>3, <1>4

-----------------------------------------------------------------------------
(* The steps. *)

\* A write keeps what is good.
LEMMA StoreKeeps ==
  ASSUME TypeOK, Follows, NEW o \in Objects, NEW v \in Version, Store(o, v), cObj' = cObj
  PROVE  Keeps
  BY StoreGood DEF Keeps

\* So does a step that writes nothing.
LEMMA NoWrite ==
  ASSUME Follows, UNCHANGED <<obj, stream, cObj>>
  PROVE  Follows' /\ Keeps
  BY DEF Follows, Keeps, Good, Pending, Before

\* A kind that the step does not touch.
LEMMA UntouchedInv ==
  ASSUME TypeOK, Keeps, NEW k \in Kinds, KindInv(k), Untouched(k)
  PROVE  KindInv(k)'
  <1>1. Specs(k)'
    BY DEF KindInv, Specs, Untouched
  <1>2. Fresh(k)'
    BY DEF KindInv, Fresh, Untouched
  <1>3. Served(k)'
    <2>1. queued \in [Kinds -> BOOLEAN] /\ cCR[k] \in CRType /\ w[k] \in CRType
      BY DEF TypeOK
    <2>2. PICK x \in CRType, y \in CRType : x = cCR[k] /\ y = w[k]
      BY <2>1
    <2>3. \A q \in Objects : ~queued'[k] /\ Good(q, k, x) => Good(q, k, x)'
      BY DEF Keeps
    <2>4. \A q \in Objects : ~queued'[k] /\ Good(q, k, y) => Good(q, k, y)'
      BY DEF Keeps
    <2>5. ASSUME ~queued'[k], pc'[k] = "idle", cCR'[k].exists, cCR'[k].conf \notin Refused
          PROVE  \A o \in Objects : Good(o, k, cCR[k])'
      <3>1. \A o \in Objects : Good(o, k, x)
        BY <2>2, <2>5 DEF KindInv, Served, Untouched
      <3>2. \A o \in Objects : Good(o, k, x)'
        BY <2>3, <2>5, <3>1
      <3>3. cCR'[k] = x
        BY <2>2 DEF Untouched
      <3> QED BY <3>2, <3>3 DEF Good
    <2>6. ASSUME ~queued'[k], pc'[k] = "applySvc"
          PROVE  Good("dep", k, w[k])'
      <3>1. Good("dep", k, y)
        BY <2>2, <2>6 DEF KindInv, Served, Untouched
      <3>2. Good("dep", k, y)'
        BY <2>4, <2>6, <3>1 DEF Objects
      <3>3. w'[k] = y
        BY <2>2 DEF Untouched
      <3> QED BY <3>2, <3>3 DEF Good
    <2> QED BY <2>5, <2>6 DEF Served
  <1> QED BY <1>1, <1>2, <1>3 DEF KindInv

\* A delivery enqueues the keys that were waiting for it and keeps the rest.
LEMMA DeliverKeeps ==
  ASSUME TypeOK, Follows, NEW o \in Objects, Deliver(o)
  PROVE  TypeOK' /\ Follows' /\ Keeps
  <1>1. /\ obj \in [Objects -> Version] /\ stream \in [Objects -> Seq(Version)]
        /\ cObj \in [Objects -> Version] /\ stream[o] \in Seq(Version) /\ stream[o] # <<>>
        /\ queued \in [Kinds -> BOOLEAN]
    BY DEF TypeOK, Deliver
  <1>2. PICK n \in Nat : n = Len(stream[o])
    BY <1>1, LenProperties
  <1>3. n > 0 /\ Head(stream[o]) \in Version /\ Head(stream[o]) = stream[o][1]
    BY <1>1, <1>2, EmptySeq, HeadTailProperties
  <1>4. /\ cObj' = [cObj EXCEPT ![o] = Head(stream[o])] /\ cObj'[o] = stream[o][1]
        /\ stream' = [stream EXCEPT ![o] = Tail(stream[o])] /\ stream'[o] = Tail(stream[o])
        /\ obj' = obj
    BY <1>1, <1>3 DEF Deliver
  <1>5. /\ stream'[o] \in Seq(Version) /\ Len(stream'[o]) = n - 1
        /\ \A i \in 1..(n - 1) : stream'[o][i] = stream[o][i + 1]
    BY <1>1, <1>2, <1>4, HeadTailProperties
  <1>6. TypeOK'
    <2>1. cObj' \in [Objects -> Version] /\ stream' \in [Objects -> Seq(Version)]
      BY <1>1, <1>3, <1>4, <1>5
    <2>2. queued' \in [Kinds -> BOOLEAN]
      BY <1>1 DEF Deliver, Owns
    <2> QED BY <2>1, <2>2 DEF TypeOK, Deliver
  <1>7. \A i \in 1..n : Before(o, i)' = Before(o, i + 1)
    <2> TAKE i \in 1..n
    <2>1. CASE i = 1
      BY <1>4, <2>1 DEF Before
    <2>2. CASE i # 1
      <3>1. i - 1 \in 1..(n - 1) /\ i + 1 # 1
        BY <2>2
      <3>2. stream'[o][i - 1] = stream[o][i]
        BY <1>5, <3>1
      <3> QED BY <2>2, <3>1, <3>2 DEF Before
    <2> QED BY <2>1, <2>2
  <1>8. Follows'
    <2> SUFFICES ASSUME NEW q \in Objects
                 PROVE  (obj[q] = Before(q, Len(stream[q]) + 1))'
      BY DEF Follows
    <2>1. CASE q = o
      <3>1. Before(o, n)' = obj[o]
        BY <1>2, <1>3, <1>7 DEF Follows
      <3>2. Len(stream'[o]) + 1 = n
        BY <1>5
      <3> QED BY <1>4, <2>1, <3>1, <3>2 DEF Before
    <2>2. CASE q # o
      BY <1>1, <1>4, <2>2 DEF Follows, Before
    <2> QED BY <2>1, <2>2
  <1>9. ASSUME NEW q \in Objects, NEW k \in Kinds, NEW x \in CRType, ~queued'[k], Good(q, k, x)
        PROVE  Good(q, k, x)'
    <2>1. CASE obj[q] = Rendered(k, x)
      BY <1>4, <2>1 DEF Good
    <2>2. CASE Pending(q, k) /\ q # o
      <3>1. stream'[q] = stream[q] /\ cObj'[q] = cObj[q]
        BY <1>1, <1>4, <2>2
      <3> QED BY <2>2, <3>1 DEF Good, Pending, Before
    <2>3. CASE Pending(q, k) /\ q = o
      <3>1. PICK i \in 1..n : Owns(o, k, Before(o, i), stream[o][i])
        BY <1>2, <2>3 DEF Pending
      <3>2. i # 1
        <4>1. ~Owns(o, k, cObj[o], Head(stream[o]))
          BY <1>9 DEF Deliver
        <4> QED BY <1>3, <3>1, <4>1 DEF Before
      <3>3. PICK j \in 1..(n - 1) : i = j + 1
        BY <3>2
      <3>4. stream'[o][j] = stream[o][i] /\ Before(o, j)' = Before(o, i)
        BY <1>5, <1>7, <3>3
      <3>5. Pending(o, k)'
        BY <1>5, <3>1, <3>4 DEF Pending, Owns
      <3> QED BY <2>3, <3>5 DEF Good
    <2> QED BY <1>9, <2>1, <2>2, <2>3 DEF Good
  <1> QED BY <1>6, <1>8, <1>9 DEF Keeps

\* The steps that leave both controllers where they are, a write among them or none.
LEMMA EnvironmentInv ==
  ASSUME IInv, ScaleDeployment \/ \E o \in Objects : CollectGarbage(o) \/ Deliver(o) \/ LateApply(o)
  PROVE  IInv'
  <1>1. TypeOK /\ Follows /\ \A k \in Kinds : KindInv(k)
    BY DEF IInv
  <1>2. obj \in [Objects -> Version] /\ flying \in [Objects -> Version] /\ Gone \in Version
    BY <1>1 DEF TypeOK, Version
  <1>3. \A k \in Kinds : Untouched(k)
    BY <1>1 DEF Untouched, ScaleDeployment, CollectGarbage, LateApply, Deliver, TypeOK, KindInv, Specs
  <1>4. TypeOK' /\ Follows' /\ Keeps
    <2>1. CASE \E o \in Objects : Deliver(o)
      BY <1>1, <2>1, DeliverKeeps
    <2>2. CASE ScaleDeployment
      <3>1. [obj["dep"] EXCEPT !.conf = "drift"] \in Version /\ "dep" \in Objects
        BY <1>2, <2>2, DriftType DEF ScaleDeployment, Objects
      <3>2. obj' \in [Objects -> Version] /\ stream' \in [Objects -> Seq(Version)] /\ Follows' /\ Keeps
        BY <1>1, <2>2, <3>1, StoreType, StoreKeeps DEF ScaleDeployment
      <3>3. budget' \in 0..MaxDisturbances
        BY <1>1, <2>2, BoundAssumption DEF ScaleDeployment, Disturb, TypeOK
      <3> QED BY <1>1, <2>2, <3>2, <3>3 DEF TypeOK, ScaleDeployment
    <2>3. ASSUME NEW o \in Objects, CollectGarbage(o)
          PROVE  TypeOK' /\ Follows' /\ Keeps
      <3>1. obj' \in [Objects -> Version] /\ stream' \in [Objects -> Seq(Version)] /\ Follows' /\ Keeps
        BY <1>1, <1>2, <2>3, StoreType, StoreKeeps DEF CollectGarbage
      <3> QED BY <1>1, <2>3, <3>1 DEF TypeOK, CollectGarbage
    <2>4. ASSUME NEW o \in Objects, LateApply(o)
          PROVE  TypeOK' /\ Follows' /\ Keeps
      <3>1. obj' \in [Objects -> Version] /\ stream' \in [Objects -> Seq(Version)] /\ Follows' /\ Keeps
        BY <1>1, <1>2, <2>4, StoreType, StoreKeeps DEF LateApply
      <3>2. flying' \in [Objects -> Version]
        BY <1>2, <2>4 DEF LateApply
      <3> QED BY <1>1, <2>4, <3>1, <3>2 DEF TypeOK, LateApply
    <2> QED BY <2>1, <2>2, <2>3, <2>4
  <1> QED BY <1>1, <1>3, <1>4, UntouchedInv DEF IInv

\* A user edits, deletes or creates a CR: the controllers learn of it later.
LEMMA UsersInv ==
  ASSUME IInv, NEW k \in Kinds, EditCR(k) \/ DeleteCR(k) \/ RecreateCR(k)
  PROVE  IInv'
  <1>1. TypeOK /\ Follows /\ \A j \in Kinds : KindInv(j)
    BY DEF IInv
  <1>2. cr \in [Kinds -> CRType] /\ \A j \in Kinds : cr[j].conf \in Confs
    BY <1>1 DEF TypeOK, KindInv, Specs
  <1>3. cr' \in [Kinds -> CRType] /\ \A j \in Kinds : cr'[j].conf \in Confs
    <2>1. CASE EditCR(k)
      BY <1>2, <2>1 DEF EditCR, CRType
    <2>2. CASE DeleteCR(k)
      BY <1>2, <2>2 DEF DeleteCR, CRType
    <2>3. CASE RecreateCR(k)
      BY <1>2, <2>3 DEF RecreateCR, CRType
    <2> QED BY <2>1, <2>2, <2>3
  <1>4. UNCHANGED <<cCR, obj, stream, cObj, queued, pc, w, flying>> /\ budget' \in 0..MaxDisturbances
    BY <1>1, BoundAssumption DEF EditCR, DeleteCR, RecreateCR, Disturb, TypeOK
  <1>5. Follows' /\ Keeps
    BY <1>1, <1>4, NoWrite
  <1>6. TypeOK'
    BY <1>1, <1>3, <1>4 DEF TypeOK
  <1>7. \A j \in Kinds : Untouched(j)
    BY <1>3, <1>4 DEF Untouched
  <1> QED BY <1>1, <1>5, <1>6, <1>7, UntouchedInv DEF IInv

\* A step of one controller, as far as the other is concerned.
LEMMA KindStep ==
  ASSUME IInv, TypeOK', Follows', Keeps, NEW k \in Kinds, KindInv(k)',
         \A j \in Kinds \ {k} : Untouched(j)
  PROVE  IInv'
  BY UntouchedInv DEF IInv

\* The informer of a kind, and what its worker does before it writes.
LEMMA ReadsInv ==
  ASSUME IInv, NEW k \in Kinds, SyncCR(k) \/ InstanceGone(k) \/ Refuse(k) \/ StartApply(k)
  PROVE  IInv'
  <1>1. TypeOK /\ Follows /\ \A j \in Kinds : KindInv(j)
    BY DEF IInv
  <1>2. /\ cr \in [Kinds -> CRType] /\ cCR \in [Kinds -> CRType] /\ w \in [Kinds -> CRType]
        /\ queued \in [Kinds -> BOOLEAN]
        /\ pc \in [Kinds -> {"idle", "remediate", "applyDep", "applySvc"}]
        /\ cr[k].conf \in Confs
    BY <1>1 DEF TypeOK, KindInv, Specs
  <1>3. UNCHANGED <<cr, obj, stream, cObj, flying, budget>>
    BY DEF SyncCR, InstanceGone, Refuse, StartApply
  <1>4. Follows' /\ Keeps
    BY <1>1, <1>3, NoWrite
  <1>5. CASE SyncCR(k)
    <2> DEFINE now == IF cr[k].exists THEN cr[k] ELSE NoCR
    <2>1. now \in CRType /\ (now.exists => now.conf \in Confs)
      BY <1>2 DEF NoCR, CRType
    <2> HIDE DEF now
    <2>2. cCR' = [cCR EXCEPT ![k] = now] /\ queued' = [queued EXCEPT ![k] = TRUE] /\ UNCHANGED <<pc, w>>
      BY <1>5 DEF SyncCR, now
    <2>3. TypeOK'
      BY <1>1, <1>2, <1>3, <2>1, <2>2 DEF TypeOK
    <2>4. KindInv(k)'
      BY <1>1, <1>2, <1>3, <2>1, <2>2 DEF KindInv, Specs, Fresh, Served
    <2>5. \A j \in Kinds \ {k} : Untouched(j)
      BY <1>1, <1>2, <1>3, <2>2 DEF Untouched, KindInv, Specs
    <2> QED BY <1>4, <2>3, <2>4, <2>5, KindStep
  <1>6. CASE InstanceGone(k)
    <2>1. queued' = [queued EXCEPT ![k] = FALSE] /\ UNCHANGED <<cCR, pc, w>> /\ pc[k] = "idle"
          /\ ~cCR[k].exists
      BY <1>6 DEF InstanceGone, Begin, Found
    <2>2. TypeOK'
      BY <1>1, <1>2, <1>3, <2>1 DEF TypeOK
    <2>3. KindInv(k)'
      BY <1>1, <1>2, <1>3, <2>1 DEF KindInv, Specs, Fresh, Served
    <2>4. \A j \in Kinds \ {k} : Untouched(j)
      BY <1>1, <1>2, <1>3, <2>1 DEF Untouched, KindInv, Specs
    <2> QED BY <1>4, <2>2, <2>3, <2>4, KindStep
  <1>7. CASE Refuse(k)
    <2>1. cCR' = cCR /\ pc[k] = "idle" /\ cCR[k].conf \in Refused
      BY <1>7 DEF Refuse, Begin
    <2>2. CASE pc' = [pc EXCEPT ![k] = "remediate"] /\ w' = [w EXCEPT ![k] = cCR[k]]
               /\ queued' = [queued EXCEPT ![k] = FALSE]
      <3>1. TypeOK'
        BY <1>1, <1>2, <1>3, <2>1, <2>2 DEF TypeOK
      <3>2. KindInv(k)'
        BY <1>1, <1>2, <1>3, <2>1, <2>2 DEF KindInv, Specs, Fresh, Served
      <3>3. \A j \in Kinds \ {k} : Untouched(j)
        BY <1>1, <1>2, <1>3, <2>1, <2>2 DEF Untouched, KindInv, Specs
      <3> QED BY <1>4, <3>1, <3>2, <3>3, KindStep
    <2>3. CASE pc' = pc /\ w' = w /\ \E requeue \in BOOLEAN : queued' = [queued EXCEPT ![k] = requeue]
      <3>1. TypeOK'
        BY <1>1, <1>2, <1>3, <2>1, <2>3 DEF TypeOK
      <3>2. KindInv(k)'
        BY <1>1, <1>2, <1>3, <2>1, <2>3 DEF KindInv, Specs, Fresh, Served
      <3>3. \A j \in Kinds \ {k} : Untouched(j)
        BY <1>1, <1>2, <1>3, <2>1, <2>3 DEF Untouched, KindInv, Specs
      <3> QED BY <1>4, <3>1, <3>2, <3>3, KindStep
    <2> QED BY <1>7, <2>2, <2>3 DEF Refuse
  <1>8. CASE StartApply(k)
    <2>1. /\ pc' = [pc EXCEPT ![k] = "applyDep"] /\ w' = [w EXCEPT ![k] = cCR[k]]
          /\ queued' = [queued EXCEPT ![k] = FALSE] /\ cCR' = cCR
          /\ cCR[k].exists /\ cCR[k].conf \notin Refused
      BY <1>8 DEF StartApply, Found
    <2>2. TypeOK'
      BY <1>1, <1>2, <1>3, <2>1 DEF TypeOK
    <2>3. KindInv(k)'
      BY <1>1, <1>2, <1>3, <2>1 DEF KindInv, Specs, Fresh, Served
    <2>4. \A j \in Kinds \ {k} : Untouched(j)
      BY <1>1, <1>2, <1>3, <2>1 DEF Untouched, KindInv, Specs
    <2> QED BY <1>4, <2>2, <2>3, <2>4, KindStep
  <1> QED BY <1>5, <1>6, <1>7, <1>8

\* The end of a reconcile, whatever the result asks for.
LEMMA DoneType ==
  ASSUME TypeOK, NEW k \in Kinds, Done(k)
  PROVE  /\ pc' \in [Kinds -> {"idle", "remediate", "applyDep", "applySvc"}]
         /\ w' \in [Kinds -> CRType] /\ queued' \in [Kinds -> BOOLEAN]
         /\ pc'[k] = "idle" /\ (queued[k] => queued'[k])
         /\ \A j \in Kinds \ {k} : pc'[j] = pc[j] /\ w'[j] = w[j] /\ queued'[j] = queued[j]
  <1>1. NoCR \in CRType
    BY DEF NoCR, CRType
  <1> QED BY <1>1 DEF TypeOK, Done

\* The calls of a worker that write.
LEMMA WritesInv ==
  ASSUME IInv, NEW k \in Kinds,
         Remediate(k) \/ ApplyDeployment(k) \/ ApplyService(k) \/ ApplyFails(k)
  PROVE  IInv'
  <1> DEFINE Written == /\ obj' \in [Objects -> Version] /\ stream' \in [Objects -> Seq(Version)]
                        /\ Follows' /\ Keeps
  <1>1. TypeOK /\ Follows /\ KindInv(k) /\ \A j \in Kinds : cr[j].conf \in Confs
    BY DEF IInv, KindInv, Specs
  <1>2. /\ cr \in [Kinds -> CRType] /\ cCR \in [Kinds -> CRType] /\ w \in [Kinds -> CRType]
        /\ queued \in [Kinds -> BOOLEAN] /\ obj \in [Objects -> Version]
        /\ pc \in [Kinds -> {"idle", "remediate", "applyDep", "applySvc"}]
        /\ w[k] \in CRType
    BY <1>1 DEF TypeOK
  <1>3. UNCHANGED <<cr, cCR, cObj, flying>> /\ budget' \in 0..MaxDisturbances
    BY <1>1, BoundAssumption
    DEF Remediate, ApplyDeployment, ApplyService, ApplyFails, Disturb, TypeOK
  <1>4. "dep" \in Objects /\ "svc" \in Objects
    BY DEF Objects
  <1>5. UNCHANGED <<obj, stream>> => Written
    BY <1>1, <1>3, NoWrite DEF TypeOK
  <1>6. \A o \in Objects, v \in Version : Store(o, v) => Written
    BY <1>1, <1>3, StoreType, StoreKeeps
  <1>7. pc[k] \in {"applyDep", "applySvc"} => Rendered(k, w[k]) \in Version /\ w[k].conf \notin Refused
    BY <1>1, <1>2, RenderedType DEF KindInv, Specs
  <1>8. CASE Remediate(k)
    <2>1. Written
      <3>1. CASE Store("dep", [obj["dep"] EXCEPT !.conf = "drift"]) /\ IsControlledBy(k, obj["dep"])
        <4>1. [obj["dep"] EXCEPT !.conf = "drift"] \in Version
          BY <1>2, <1>4, <3>1, DriftType DEF IsControlledBy
        <4> QED BY <1>4, <1>6, <3>1, <4>1
      <3> QED BY <1>5, <1>8, <3>1 DEF Remediate
    <2>2. Done(k) /\ pc[k] = "remediate"
      BY <1>8 DEF Remediate
    <2>3. TypeOK'
      BY <1>1, <1>3, <2>1, <2>2, DoneType DEF TypeOK
    <2>4. \A j \in Kinds \ {k} : Untouched(j)
      BY <1>1, <1>3, <2>2, DoneType DEF Untouched
    <2>5. pc'[k] = "idle" /\ (queued[k] => queued'[k])
      BY <1>1, <2>2, DoneType
    <2>6. KindInv(k)'
      BY <1>1, <1>3, <2>2, <2>5 DEF KindInv, Specs, Fresh, Served
    <2> QED BY <2>1, <2>3, <2>4, <2>6, KindStep
  <1>9. CASE ApplyDeployment(k)
    <2>1. /\ pc[k] = "applyDep" /\ Store("dep", Rendered(k, w[k]))
          /\ pc' = [pc EXCEPT ![k] = "applySvc"] /\ UNCHANGED <<queued, w>>
      BY <1>9 DEF ApplyDeployment
    <2>2. Written
      BY <1>4, <1>6, <1>7, <2>1
    <2>3. TypeOK'
      BY <1>1, <1>2, <1>3, <2>1, <2>2 DEF TypeOK
    <2>4. \A j \in Kinds \ {k} : Untouched(j)
      BY <1>1, <1>2, <1>3, <2>1 DEF Untouched
    <2>5. Good("dep", k, w[k])'
      BY <1>2, <1>4, <2>1 DEF Store, Good
    <2>6. KindInv(k)'
      BY <1>1, <1>2, <1>3, <2>1, <2>5 DEF KindInv, Specs, Fresh, Served
    <2> QED BY <2>2, <2>3, <2>4, <2>6, KindStep
  <1>10. CASE ApplyService(k)
    <2>1. pc[k] = "applySvc" /\ Store("svc", Rendered(k, w[k])) /\ Done(k)
      BY <1>10 DEF ApplyService
    <2>2. Written
      BY <1>4, <1>6, <1>7, <2>1
    <2>3. TypeOK'
      BY <1>1, <1>3, <2>1, <2>2, DoneType DEF TypeOK
    <2>4. \A j \in Kinds \ {k} : Untouched(j)
      BY <1>1, <1>3, <2>1, DoneType DEF Untouched
    <2>5. pc'[k] = "idle" /\ (queued[k] => queued'[k])
      BY <1>1, <2>1, DoneType
    <2>6. ASSUME ~queued'[k]
          PROVE  \A o \in Objects : Good(o, k, cCR[k])'
      <3>1. PICK x \in CRType : x = w[k]
        BY <1>2
      <3>2. Good("dep", k, x) /\ cCR'[k] = x
        BY <1>1, <1>3, <2>1, <2>5, <2>6, <3>1 DEF KindInv, Served, Fresh
      <3>3. Good("dep", k, x)'
        BY <1>4, <2>2, <2>6, <3>2 DEF Keeps
      <3>4. Good("svc", k, x)'
        BY <1>2, <1>4, <2>1, <3>1 DEF Store, Good
      <3>5. \A o \in Objects : Good(o, k, x)'
        BY <3>3, <3>4 DEF Objects
      <3> QED BY <3>2, <3>5 DEF Good
    <2>7. KindInv(k)'
      BY <1>1, <1>3, <2>5, <2>6 DEF KindInv, Specs, Fresh, Served
    <2> QED BY <2>2, <2>3, <2>4, <2>7, KindStep
  <1>11. CASE ApplyFails(k)
    <2>1. /\ pc' = [pc EXCEPT ![k] = "idle"] /\ w' = [w EXCEPT ![k] = NoCR]
          /\ queued' = [queued EXCEPT ![k] = TRUE] /\ NoCR \in CRType
      BY <1>11 DEF ApplyFails, NoCR, CRType
    <2>2. Written
      <3>1. \/ UNCHANGED <<obj, stream>>
            \/ \E o \in Objects : Store(o, Rendered(k, w[k])) /\ Rendered(k, w[k]) \in Version
        BY <1>4, <1>7, <1>11 DEF ApplyFails
      <3> QED BY <1>5, <1>6, <3>1
    <2>3. TypeOK'
      BY <1>1, <1>2, <1>3, <2>1, <2>2 DEF TypeOK
    <2>4. \A j \in Kinds \ {k} : Untouched(j)
      BY <1>1, <1>2, <1>3, <2>1 DEF Untouched
    <2>5. KindInv(k)'
      BY <1>1, <1>2, <1>3, <2>1 DEF KindInv, Specs, Fresh, Served
    <2> QED BY <2>2, <2>3, <2>4, <2>5, KindStep
  <1> QED BY <1>8, <1>9, <1>10, <1>11

\* The new leader starts from lists and queues every key.
LEMMA HandoverInv ==
  ASSUME IInv, Handover
  PROVE  IInv'
  <1>1. TypeOK /\ \A k \in Kinds : KindInv(k)
    BY DEF IInv
  <1>2. /\ cr \in [Kinds -> CRType] /\ w \in [Kinds -> CRType] /\ obj \in [Objects -> Version]
        /\ flying \in [Objects -> Version] /\ NoCR \in CRType /\ ~NoCR.exists
        /\ \A k \in Kinds : cr[k].conf \in Confs
    BY <1>1 DEF TypeOK, KindInv, Specs, NoCR, CRType
  <1>3. flying' \in [Objects -> Version]
    <2>1. ASSUME NEW k \in Sending
          PROVE  Rendered(k, w[k]) \in Version /\ Target(k) \in Objects
      BY <1>1, <1>2, RenderedType DEF Sending, Target, Objects, KindInv, Specs
    <2>2. CASE UNCHANGED flying
      BY <1>2, <2>2
    <2>3. ASSUME NEW k \in Sending, flying' = [flying EXCEPT ![Target(k)] = Rendered(k, w[k])]
          PROVE  flying' \in [Objects -> Version]
      BY <1>2, <2>1, <2>3
    <2> QED BY <2>2, <2>3 DEF Handover
  <1>4. budget' \in 0..MaxDisturbances
    BY <1>1, BoundAssumption DEF Handover, Disturb, TypeOK
  <1>5. TypeOK'
    <2>1. cCR' \in [Kinds -> CRType] /\ queued' \in [Kinds -> BOOLEAN] /\ w' \in [Kinds -> CRType]
          /\ pc' \in [Kinds -> {"idle", "remediate", "applyDep", "applySvc"}]
      BY <1>2 DEF Handover, CRType
    <2>2. stream' \in [Objects -> Seq(Version)]
      BY EmptySeq DEF Handover
    <2> QED BY <1>2, <1>3, <1>4, <2>1, <2>2 DEF TypeOK, Handover
  <1>6. Follows'
    BY DEF Handover, Follows, Before
  <1>7. ASSUME NEW k \in Kinds
        PROVE  KindInv(k)'
    <2>1. cr' = cr /\ pc'[k] = "idle" /\ (cCR'[k].exists => queued'[k])
          /\ (cCR'[k].exists => cCR'[k].conf \in Confs)
      BY <1>2 DEF Handover
    <2> QED BY <1>2, <2>1 DEF KindInv, Specs, Fresh, Served
  <1> QED BY <1>5, <1>6, <1>7 DEF IInv

-----------------------------------------------------------------------------
(* The theorems. *)

LEMMA InitInv == Init => IInv
  <1> SUFFICES ASSUME Init PROVE IInv
    OBVIOUS
  <1>1. NoCR \in CRType /\ ~NoCR.exists /\ Gone \in Version
    BY DEF NoCR, CRType, Version
  <1>2. cr \in [Kinds -> CRType] /\ \A k \in Kinds : cr[k].conf \in Confs
    BY ConfsAssumption DEF Init, CRType
  <1>3. TypeOK
    BY <1>1, <1>2, BoundAssumption, EmptySeq DEF Init, TypeOK
  <1>4. Follows
    BY DEF Init, Follows, Before
  <1>5. ASSUME NEW k \in Kinds
        PROVE  KindInv(k)
    BY <1>1, <1>2 DEF Init, KindInv, Specs, Fresh, Served
  <1> QED BY <1>3, <1>4, <1>5 DEF IInv

LEMMA StepInv == IInv /\ [Next]_vars => IInv'
  <1> SUFFICES ASSUME IInv, [Next]_vars PROVE IInv'
    OBVIOUS
  <1>1. CASE UNCHANGED vars
    <2>1. TypeOK' /\ Follows' /\ Keeps
      BY <1>1, NoWrite DEF IInv, TypeOK, vars
    <2>2. \A k \in Kinds : Untouched(k)
      BY <1>1 DEF vars, Untouched, IInv, KindInv, Specs
    <2> QED BY <2>1, <2>2, UntouchedInv DEF IInv
  <1>2. CASE Next
    BY <1>2, EnvironmentInv, UsersInv, ReadsInv, WritesInv, HandoverInv DEF Next, Users, Reconcile
  <1> QED BY <1>1, <1>2

\* Every reachable state satisfies the inductive invariant.
THEOREM Invariance == Spec => []IInv
  BY InitInv, StepInv, PTL DEF Spec

\* Whatever is stored, cached, under way or in flight was rendered for a CR.
THEOREM TypeCorrect == Spec => []TypeOK
  <1>1. IInv => TypeOK
    BY DEF IInv
  <1> QED BY <1>1, Invariance, PTL

\* A controller whose work is done has its own Deployment and Service in place,
\* however its instance, the other of the same name, a former leader of the
\* operator and users have written them before.
THEOREM RestServed == Spec => []RestIsServed
  <1>1. IInv => RestIsServed
    <2> SUFFICES ASSUME IInv, NEW k \in Kinds, AtRest(k), Wants(k), NEW o \in Objects
                 PROVE  obj[o] = Rendered(k, cr[k])
      BY DEF RestIsServed
    <2>1. cCR[k] = cr[k] /\ cCR[k].exists /\ cCR[k].conf \notin Refused /\ Len(stream[o]) = 0
      BY EmptySeq DEF AtRest, Wants
    <2>2. Good(o, k, cCR[k])
      BY <2>1 DEF IInv, KindInv, Served, AtRest
    <2> QED BY <2>1, <2>2 DEF Good, Pending
  <1> QED BY <1>1, Invariance, PTL

\* Two instances of one name that both want to be served keep the operator busy:
\* at least one of the two controllers always has something left to do.
THEOREM TwoNeverRest == Spec => []~(\A k \in Kinds : AtRest(k) /\ Wants(k))
  <1>1. RestIsServed => ~(\A k \in Kinds : AtRest(k) /\ Wants(k))
    <2> SUFFICES ASSUME RestIsServed, \A k \in Kinds : AtRest(k) /\ Wants(k) PROVE FALSE
      OBVIOUS
    <2>1. obj["dep"] = Rendered("VLLM", cr["VLLM"]) /\ obj["dep"] = Rendered("LongContext", cr["LongContext"])
      BY DEF RestIsServed, Kinds, Objects
    <2> QED BY <2>1 DEF Rendered
  <1> QED BY <1>1, RestServed, PTL
=============================================================================
